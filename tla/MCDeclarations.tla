---------------------------- MODULE MCDeclarations ----------------------------
(****************************************************************************)
(* Programs for TLC: three packages that import one another and convert     *)
(* values to interfaces; files with variables and init functions that call  *)
(* each other; function literals in function literals.                      *)
(****************************************************************************)
EXTENDS Declarations, TLC

Func(name, body) == [name |-> name, method |-> FALSE, body |-> body, results |-> <<>>, nodes |-> <<>>]
File(specs, funcs, bodies) == [inScope |-> TRUE, specs |-> specs, funcs |-> funcs, bodies |-> bodies]
OnePackage(files) == [imports |-> [p \in {"A"} |-> {}], files |-> [p \in {"A"} |-> files]]
SeqsUpTo(S, n) == UNION {[1..k -> S] : k \in 0..n}

-----------------------------------------------------------------------------
(* Conversions. J embeds I and shares its key, K embeds I behind a method   *)
(* of its own; Closer is of a package out of scope.                         *)

M(owner, name) == [owner |-> owner, name |-> name]
Interfaces == {"I", "J", "K", "Empty", "Closer"}
Sets ==
  [I |-> <<M("I", "M")>>, J |-> <<M("I", "M"), M("J", "N")>>, K |-> <<M("K", "L"), M("I", "M")>>,
   Empty |-> <<>>, Closer |-> <<M("Closer", "Close")>>,
   S |-> <<M("S", "Close"), M("S", "L"), M("S", "M"), M("S", "N")>>, T |-> <<M("S", "M"), M("T", "N")>>]
Arities == [n \in {"L", "M", "N", "Close"} |-> IF n = "M" THEN [params |-> 1, results |-> 2] ELSE [params |-> 0, results |-> 1]]
Scopes == [n \in {"I", "J", "K", "Empty", "S", "T", "A", "B", "C"} |-> TRUE] @@ [n \in {"Closer", "X"} |-> FALSE]

Ptr(t) == [n |-> "assign", lhs |-> <<t[1]>>, rhs |-> <<t[2]>>]
Pairs == {<<"I", "S">>, <<"J", "S">>, <<"K", "S">>, <<"J", "T">>, <<"I", "J">>}
Nodes == {Ptr(t) : t \in Pairs}
NodesOfS == {Ptr(<<i, "S">>) : i \in {"I", "J", "K"}}
OtherNodes ==
  {[n |-> "call", params |-> <<"K", "I">>, args |-> <<"S", "T", "S">>], [n |-> "return", elts |-> <<"S", "T">>],
   [n |-> "map", key |-> "int", value |-> "I", elts |-> <<<<"int", "S">>, <<"int", "T">>>>], [n |-> "literal"],
   [n |-> "assert", x |-> "J", type |-> "S"], [n |-> "list", type |-> "K", elts |-> <<"S", "S">>],
   [n |-> "struct", fields |-> <<"int", "I">>, elts |-> <<"int", "S">>], [n |-> "spec", type |-> "Empty", elts |-> <<"S">>],
   [n |-> "append", type |-> "Closer", elts |-> <<"S">>], [n |-> "assign", lhs |-> <<"I", "error">>, rhs |-> <<"S", "error">>]}
Casting(nodes) == <<File(<<>>, <<[Func("f", <<>>) EXCEPT !.nodes = nodes, !.results = <<"I", "error">>]>>, <<>>)>>
Imports ==
  {[A |-> {}, B |-> {"A"}, C |-> {"B"}, X |-> {}], [A |-> {}, B |-> {"A"}, C |-> {"A"}, X |-> {"B", "C"}],
   [A |-> {}, X |-> {"A"}, B |-> {"X"}, C |-> {"A", "B"}]}
Castings ==
  {[imports |-> i, files |-> [A |-> Casting(m), B |-> Casting(n), C |-> Casting(o), X |-> Casting(<<Ptr(<<"K", "S">>)>>)]] :
     i \in Imports, m \in SeqsUpTo(NodesOfS, 1), n \in SeqsUpTo(NodesOfS, 1), o \in SeqsUpTo(Nodes, 2) \ {<<>>}} \cup
  {[imports |-> i, files |-> [A |-> Casting(m), B |-> Casting(n), C |-> Casting(o), X |-> Casting(<<>>)]] :
     i \in Imports, m \in SeqsUpTo(NodesOfS, 1), n \in [1..1 -> OtherNodes], o \in [1..1 -> OtherNodes]}

-----------------------------------------------------------------------------
(* Variables. f returns a nil second, g a nil first result. *)

NilableVars == {"a", "b"}
NilResults == {<<"f", 1>>, <<"g", 0>>}
Assign(x) == [s |-> "assign", to |-> x]
Local(x) == [s |-> "local", to |-> x]
Calls(f) == [s |-> "call", f |-> f]
Spec1(names, values) == [names |-> names, values |-> values]
New == [v |-> "other"]
Value(f) == [v |-> "call", f |-> f]
Read(x) == [v |-> "var", x |-> x]
SpecLists ==
  {<<Spec1(<<"a">>, <<>>)>>, <<Spec1(<<"a", "b">>, <<>>)>>, <<Spec1(<<"a">>, <<>>), Spec1(<<"b">>, <<Read("a")>>)>>,
   <<Spec1(<<"a", "_">>, <<>>), Spec1(<<"b">>, <<>>)>>, <<Spec1(<<"a", "b">>, <<Value("f")>>)>>,
   <<Spec1(<<"a", "b">>, <<Value("g"), New>>)>>, <<Spec1(<<"a", "b">>, <<Read("b"), Value("g")>>)>>,
   <<Spec1(<<"a", "n">>, <<[v |-> "nil"], Value("g")>>), Spec1(<<"b">>, <<[v |-> "builtin"]>>)>>,
   <<Spec1(<<"a">>, <<[v |-> "select", x |-> "pkg.v", nil |-> TRUE]>>), Spec1(<<"b">>, <<Value("f")>>)>>}
Stmts == {Assign("a"), Assign("b"), Calls("setup"), Calls("reset")}
Bodies == SeqsUpTo(Stmts, 2) \cup {<<Local("a")>>, <<Local("a"), Calls("setup")>>}
Callees ==
  {<<Func("setup", s), Func("reset", r)>> : s, r \in {<<>>, <<Assign("a")>>, <<Calls("reset"), Assign("b")>>, <<Calls("setup")>>}} \cup
  {<<Func("setup", <<Assign("a")>>), [Func("setup", <<>>) EXCEPT !.method = TRUE]>>}
Inits == {<<Func("init", b)>> : b \in Bodies} \cup {<<Func("init", b), Func("init", c)>> : b \in SeqsUpTo(Stmts, 1), c \in SeqsUpTo(Stmts, 1)}
Globals ==
  {OnePackage(<<File(s, i \o c, <<>>)>>) : s \in SpecLists, i \in Inits, c \in Callees} \cup
  {OnePackage(<<File(s, i, <<>>), [File(<<>>, j \o c, <<>>) EXCEPT !.inScope = scope]>>) :
     s \in SpecLists, i \in {<<>>} \cup {<<Func("init", b)>> : b \in SeqsUpTo(Stmts, 1)}, j \in {<<>>, <<Func("init", <<Assign("b")>>)>>},
     c \in Callees, scope \in BOOLEAN}

-----------------------------------------------------------------------------
(* Literals. x and y are of the function around them, p is a parameter of   *)
(* the outer literal, l its variable, k of a block in it, m of the inner.   *)

GlobalVariables == {"global"}
Innermost == {Lit(<<>>, <<Use("x"), Use("m")>>), Lit(<<"q">>, <<Use("q"), Use("l"), Inner(<<Decl("j"), Use("j")>>)>>)}
Inners == {Lit(ps, <<Decl("m")>> \o is) : ps \in {<<>>, <<"r">>},
             is \in SeqsUpTo({Use("x"), Use("y"), Use("p"), Use("l"), Use("m"), Use("global")} \cup Innermost, 2)}
Uses == {Use("x"), Use("p"), Use("l"), Inner(<<Decl("k"), Use("k"), Use("y")>>)}
Items == {Use("x"), Use("y"), Use("p"), Use("l"), Use("_"), Inner(<<Decl("k"), Use("k"), Use("y")>>),
          Inner(<<Lit(<<>>, <<Use("y"), Use("x")>>)>>)}
Outers ==
  {Lit(<<"p">>, <<Decl("l")>> \o is) : is \in SeqsUpTo(Items, 3)} \cup
  {Lit(<<"p">>, <<Decl("l")>> \o before \o <<inner>> \o after) : before, after \in SeqsUpTo(Uses, 1), inner \in Inners}
LiteralFile(lit) == <<[File(<<>>, <<>>, <<<<Decl("x"), Decl("y"), lit, Use("x")>>>>) EXCEPT !.inScope = TRUE]>>
Literals == {OnePackage(LiteralFile(lit)) : lit \in Outers}

Programs == Castings \cup Globals \cup Literals
===============================================================================
