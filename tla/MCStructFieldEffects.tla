--------------------------- MODULE MCStructFieldEffects ---------------------------
(****************************************************************************)
(* Programs for TLC: a package with an exported function g and a helper k,  *)
(* and one above it with f, that call each other down, up and in circles.   *)
(****************************************************************************)
EXTENDS StructFieldEffects

\* type T struct { x *U; v U }    type U struct { y *int; t *T }
FieldsTU ==
  [T |-> [x |-> [type |-> "U", nilable |-> TRUE], v |-> [type |-> "U", nilable |-> FALSE]],
   U |-> [y |-> [type |-> "int", nilable |-> TRUE], t |-> [type |-> "T", nilable |-> TRUE]]]

Chain(base, path) == [kind |-> "chain", base |-> base, path |-> path]
P(path) == Chain("p", path)
Q == Chain("q", Root)
NilExpr == [kind |-> "nil"]
OtherExpr == [kind |-> "other"]
Alloc(init) == [kind |-> "alloc", type |-> "T", init |-> init]
Call(callee, p, q) == [kind |-> "call", callee |-> callee, args |-> [p |-> p, q |-> q]]

Stmt(do, to, value) == [do |-> do, to |-> to, value |-> value, fails |-> FALSE]
Return(value) == Stmt("return", None, value)
Fail(value) == [Return(value) EXCEPT !.fails = TRUE]
Write(to) == Stmt("write", to, OtherExpr)
Read(chain) == Stmt("read", None, chain)
Assign(v) == Stmt("assign", Chain(v, Root), OtherExpr)
Bind(value) == Stmt("bind", Chain("l", Root), value)
L == Chain("l", Root)

XT == <<"x", "t">>
Fresh == Alloc(<<>>)

\* Bodies that do not call.
Leaves == {
  <<Return(P(Root))>>,
  <<Return(P(Root)), Return(Q)>>,
  <<Assign("p"), Return(P(Root))>>,
  <<Write(P(<<"x", "y">>)), Return(P(XT))>>,
  <<Read(P(<<"v", "y">>)), Write(Chain("q", <<"x">>)), Return(Alloc(<<"x">> :> P(<<"x">>) @@ <<"v">> :> P(<<"v">>)))>>,
  <<Return(Alloc(<<"x">> :> Alloc(<<>>) @@ <<"x", "t">> :> Q))>>,
  <<Return(Fresh), Return(P(Root))>>,
  <<Bind(Fresh), Return(L)>>,
  <<Bind(Fresh), Write(Chain("l", <<"x">>)), Return(L)>>,
  <<Return(NilExpr)>>}

\* Bodies that call a function.
Callers_(callee) == {
  <<Return(Call(callee, P(Root), Q))>>,
  <<Return(Call(callee, Q, P(XT)))>>,
  <<Return(Call(callee, P(Root), OtherExpr))>>,
  <<Return(P(Root)), Return(Call(callee, P(XT), Q))>>,
  <<Bind(Call(callee, P(Root), P(Root))), Return(L)>>,
  <<Bind(Call(callee, P(XT), Q)), Read(Chain("l", <<"x", "y">>)), Return(L)>>,
  <<Assign("q"), Return(Call(callee, P(Root), Q))>>}

\* Bodies of functions that return an error as well.
Failing(callee) == {
  <<Fail(Fresh), Return(P(Root))>>,
  <<Fail(P(Root)), Return(Fresh)>>,
  <<Return(Call(callee, P(Root), Q))>>,
  <<Fail(NilExpr), Return(Q), Return(P(Root))>>}

\* Functions that return an error take q by value.
Func(package, exported, errs, body) ==
  [pkg |-> package, exported |-> exported, errs |-> errs, body |-> body,
   params |-> [p |-> "T", q |-> "T"], values |-> IF errs THEN {"q"} ELSE {}, result |-> "T"]

ProgramOf(k, g, f, scope) ==
  [order |-> <<"lib", "app">>, scope |-> scope, func |-> [k |-> k, g |-> g, f |-> f]]

Bodies(callee) == Leaves \cup Callers_(callee)
Plain ==
  {ProgramOf(Func("lib", FALSE, FALSE, k), Func("lib", TRUE, FALSE, g), Func("app", TRUE, FALSE, f),
             {"lib", "app"}) :
     k \in Bodies("g"), g \in Callers_("k"), f \in Callers_("g")}

WithErrors ==
  {ProgramOf(Func("lib", FALSE, errs, k), Func("lib", TRUE, TRUE, g), Func("app", TRUE, TRUE, f), scope) :
     errs \in BOOLEAN, k \in Leaves, g \in Failing("k"), f \in Failing("g") \cup Callers_("g"),
     scope \in {{"lib", "app"}, {"app"}}}

CheckedPrograms == Plain \cup WithErrors

NamesTU == {"x", "v", "y", "t"}
Paths == UNION {[1..n -> NamesTU] : n \in 1..3}
PathsTU == {path \in Paths : FieldAt("T", path) # None}
===================================================================================
