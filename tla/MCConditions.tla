------------------------------ MODULE MCConditions ------------------------------
(****************************************************************************)
(* Functions for TLC: branches and trusted calls with compound conditions,  *)
(* switches, type switches, ranges, templ components, and graphs with and   *)
(* without loops through which errors and oks flow.                         *)
(****************************************************************************)
EXTENDS RichChecks, TLC

Var(v) == [op |-> "var", v |-> v]
Num(n) == [op |-> "int", n |-> n]
Len1(x) == [op |-> "len", x |-> x]
Addr(x) == [op |-> "addr", x |-> x]
Paren(x) == [op |-> "paren", x |-> x]
Or(x, y) == [op |-> "or", x |-> x, y |-> y]
Fn(fn, args) == [op |-> "call", fn |-> fn, args |-> args]
S(v) == [op |-> "stmt", v |-> v]
Ret(v) == [op |-> "return", v |-> v]
Asserts(v, call) == [op |-> "asserts", v |-> v, call |-> call]
Trusted(v, x) == Asserts(v, Fn("True", <<x>>))
NoReturn(v) == [op |-> "noreturn", v |-> v]
Assign(v, lhs, rhs) == [op |-> "assign", v |-> v, lhs |-> lhs, rhs |-> rhs]
Block(nodes, succs) == [nodes |-> nodes, succs |-> succs, live |-> TRUE]

a == Var("a")
p == Var("p")
s == Var("s")
err == Var("err")
ok == Var("ok")
g == Fn("g", <<>>)
as == Fn("As", <<err, Addr(p)>>)

Types == [a |-> "bool", p |-> "pointer", s |-> "slice", err |-> "interface", ok |-> "bool", xs |-> "slice",
          t |-> "other", c1 |-> "other", c2 |-> "other", k |-> "other"]
ResultKinds == [f |-> "err", Unmarshal |-> "err", g |-> "plain", As |-> "plain", q |-> "ok"]

Bools == {"true", "false"}
Vals ==
  {[a |-> x, p |-> y, g |-> z, ok |-> IF y # "nil" /\ z = "true" THEN "true" ELSE "false", t |-> "1", s |-> "one",
    err |-> IF z = "true" THEN (IF x = "true" THEN "iface" ELSE "concrete") ELSE "nil",
    c1 |-> IF x = "true" THEN "1" ELSE "2", c2 |-> IF z = "true" THEN "1" ELSE "2"] :
     x \in Bools, y \in {"nil", "object"}, z \in Bools}

\* A function whose branches are decided by their last node, where nothing else is said.
TestOf(block) == IF Len(block.succs) = 2 /\ block.nodes # <<>> /\ IsExpr(Last(block.nodes)) THEN Last(block.nodes) ELSE None
Func(bs) ==
  [blocks |-> bs, tests |-> [b \in DOMAIN bs |-> TestOf(bs[b])], ranges |-> {}, tags |-> {},
   typeSwitches |-> {}, templ |-> None, vals |-> Vals]

-----------------------------------------------------------------------------
(* Conditions. *)

Basic == {a, as, g, Paren(a), Ne(p, Nil), Eq(Nil, p), Eq(a, True), Ne(False, a), Eq(a, False), Ne(True, a)}
Joined == {Not(x) : x \in Basic} \cup {And(x, y) : x, y \in Basic} \cup {Or(x, y) : x, y \in Basic}
Nested == {Not(x) : x \in Joined} \cup {Or(Paren(And(x, a)), y) : x \in {Ne(p, Nil), as}, y \in Basic}

\* s1; require.True(cond); s2; if other { s3 } else { s4; panics }; return
Guarded(cond, other, nodes) ==
  Func(<<Block(<<S("s1"), Trusted("t1", cond), S("s2"), other>>, <<2, 3>>),
         Block(<<S("s3")>>, <<4>>), Block(<<S("s4")>> \o nodes, <<4>>), Block(<<Ret("r")>>, <<>>)>>)
Guardeds == {Guarded(x, a, <<>>) : x \in Joined \cup Nested} \cup
            {Guarded(x, y, <<NoReturn("n"), S("s5")>>) : x \in {a, Ne(p, Nil)}, y \in Basic}
\* ok := errors.As(err, &p); if ok { t1; t2 } else { s2 }
Assigned2 ==
  {Func(<<Block(<<S("s1"), Assign("s2", <<"ok">>, c), ok>>, <<2, 3>>),
          Block(<<Trusted("t1", Eq(p, Nil)), Trusted("t2", Not(a)), S("s3")>>, <<3>>), Block(<<Ret("r")>>, <<>>)>>) : c \in {as, g}}

\* The assertions of the test libraries, as statements and as conditions.
Assertions ==
  {Fn(fn, <<err>>) : fn \in {"Nil", "NoError", "NotNil", "Error", "Empty", "NotEmpty", "Assert"}}
  \cup {Fn(fn, <<x>>) : fn \in {"Empty", "NotEmpty"}, x \in {p, s, a}}
  \cup {Fn(fn, <<x>>) : fn \in {"True", "False", "Assert"}, x \in {a, Ne(p, Nil), And(a, Eq(Nil, err))}}
  \cup {Fn(fn, <<Len1(s), Num(n)>>) : fn \in Comparators, n \in {-1, 0, 1, 2}}
  \cup {Fn(fn, <<Num(n), Len1(s)>>) : fn \in Comparators, n \in {-1, 0, 1, 2}}
  \cup {Fn(fn, <<x, err>>) : fn \in {"Equal", "NotEqual"}, x \in {Nil, err}}
  \cup {Fn("Len", <<s, Num(n)>>) : n \in 0..2}
  \cup {Fn("So", <<x, [op |-> "assertion", v |-> v]>>) :
           x \in {err, a}, v \in {"ShouldBeNil", "ShouldNotBeNil", "ShouldBeError", "ShouldBeTrue", "ShouldBeFalse", "ShouldResemble"}}
AssertionVals ==
  {[a |-> x, p |-> y, err |-> z, s |-> w] : x \in Bools, y, z \in {"nil", "object"}, w \in {"nil", "empty", "one", "two"}}
Asserted1 ==
  {[Func(<<Block(<<S("s1"), Asserts("t1", c), S("s2")>>, <<2>>), Block(<<Ret("r")>>, <<>>)>>) EXCEPT !.vals = AssertionVals] : c \in Assertions}
  \cup {[Func(<<Block(<<S("s1"), c>>, <<2, 3>>), Block(<<S("s2")>>, <<3>>), Block(<<Ret("r")>>, <<>>)>>) EXCEPT !.vals = AssertionVals] :
           c \in {c \in Assertions : c.fn \in Conditionals}}

-----------------------------------------------------------------------------
(* Switches, type switches, ranges, templ components. *)

WithTag(fn, tag, cases) ==
  [fn EXCEPT !.tags = {tag}, !.tests = [b \in DOMAIN @ |-> IF b \in DOMAIN cases THEN Eq(tag, cases[b]) ELSE @[b]]]
\* switch t { case c1: s2 [if a { s3 }] case c2: s4 default: s5 }
Switch(before, dflt, inner) ==
  LET t == Var("t")
  IN  WithTag(Func(<<Block(before \o <<t, Var("c1")>>, <<2, 3>>), Block(<<S("s2")>> \o inner, IF inner = <<>> THEN <<6>> ELSE <<7, 6>>),
                     Block(<<Var("c2")>>, <<4, 5>>), Block(<<S("s4")>>, <<6>>), Block(dflt, <<6>>), Block(<<Ret("r")>>, <<>>),
                     Block(<<S("s3")>>, <<6>>)>>),
              t, 1 :> Var("c1") @@ 3 :> Var("c2"))
Switches == {Switch(b, d, i) : b \in {<<S("s1")>>, <<Trusted("t1", Ne(p, Nil))>>, <<>>}, d \in {<<>>, <<S("s5")>>},
                               i \in {<<>>, <<a>>, <<Ne(p, Nil)>>}}

\* v, err := f(); switch e := err.(type) { clauses }; each body is one statement.
Clauses == {<<"nil">>, <<"iface">>, <<"concrete">>, <<"nil", "iface">>, <<"concrete", "iface">>, <<>>}
ClauseLists ==
  {l \in UNION {[1..n -> Clauses] : n \in 1..3} :
     \A i, j \in DOMAIN l : i # j => l[i] # l[j] /\ ~("nil" \in Range(l[i]) /\ "nil" \in Range(l[j]))
                                     /\ ~("iface" \in Range(l[i]) /\ "iface" \in Range(l[j]))}
TypeSwitch(clauses, to) ==
  LET stmt == [assign |-> [op |-> "bind", v |-> "ts", to |-> to], operand |-> err, clauses |-> clauses,
               bodies |-> [c \in DOMAIN clauses |-> <<"b1", "b2", "b3">>[c]]]
      cases == FlattenSeq([c \in DOMAIN clauses |-> [i \in DOMAIN clauses[c] |-> [type |-> clauses[c][i], body |-> c]]])
      n == Len(cases)
      \* blocks: the cases, what is after the last one, the bodies, the end
      body(c) == n + 1 + c
      end == n + 2 + Len(clauses)
      dflt == {c \in DOMAIN clauses : clauses[c] = <<>>}
      start == <<Assign("s1", <<"v", "err">>, Fn("f", <<>>)), stmt.assign>>
      chain == [i \in 1..n |-> Block(IF i = 1 THEN start ELSE <<>>, <<body(cases[i].body), i + 1>>)]
      after == <<Block((IF n = 0 THEN start ELSE <<>>) \o (IF dflt = {} THEN <<>> ELSE <<S(stmt.bodies[CHOOSE c \in dflt : TRUE])>>), <<end>>)>>
      bodies == [c \in DOMAIN clauses |-> [Block(<<S(stmt.bodies[c])>>, <<end>>) EXCEPT !.live = clauses[c] # <<>>]]
      fn == Func(chain \o after \o bodies \o <<Block(<<Ret("r")>>, <<>>)>>)
  IN  [fn EXCEPT !.typeSwitches = {stmt},
                 !.tests = [b \in DOMAIN @ |-> IF b <= n THEN [op |-> "is", x |-> err, type |-> cases[b].type] ELSE None]]
TypeSwitches == {TypeSwitch(l, to) : l \in {l \in ClauseLists : l # <<<<>>>>}, to \in {"e", None}}

\* for k, x := range xs { s2 }
Ranges ==
  {[Func(<<Block(<<S("s1"), Var("xs")>> \o to, <<2>>), Block(<<>>, <<3, 4>>), Block(<<S("s2")>>, <<2>>), Block(<<Ret("r")>>, <<>>)>>)
      EXCEPT !.ranges = {[x |-> Var("xs"), to |-> to]}] : to \in {<<>>, <<Var("k")>>, <<Var("k"), Var("err")>>}}

\* A component whose literal is s1; if p != nil { s2; return } ; return
Templs ==
  {[Func(<<Block(<<Ret("component")>>, <<>>)>>)
      EXCEPT !.templ = [blocks |-> lit, ret |-> Ret("component")], !.tests = [b \in DOMAIN lit |-> TestOf(lit[b])]] :
     lit \in {<<Block(<<S("s1"), c>>, <<2, 3>>), Block(<<S("s2"), Ret("r1")>>, <<>>), Block(<<Ret("r2")>>, <<>>)>> : c \in {a, Ne(p, Nil)}}}

-----------------------------------------------------------------------------
(* Errors that flow. *)

Node(kind, b) ==
  CASE kind = "f" -> Assign(<<"f", "f2", "f3">>[b], <<"v", "err">>, Fn("f", <<>>))
    [] kind = "u" -> Assign(<<"u", "u2", "u3">>[b], <<"err">>, Fn("Unmarshal", <<Var("k"), Addr(Var("w"))>>))
    [] kind = "g" -> Assign(<<"g", "g2", "g3">>[b], <<"err">>, g)
    [] kind = "w" -> Assign(<<"w", "w2", "w3">>[b], <<"w">>, g)
    [] kind = "q" -> Assign(<<"q", "q2", "q3">>[b], <<"v", "ok">>, Fn("q", <<>>))
    [] kind = "m" -> Assign(<<"m", "m2", "m3">>[b], <<"_", "ok">>, [op |-> "index", v |-> "map", elem |-> "map[k]"])
    [] kind = "c" -> Assign(<<"c", "c2", "c3">>[b], <<"v", "ok">>, [op |-> "recv", v |-> "chan"])
Kinds == {<<>>, <<"f">>, <<"g">>, <<"w">>, <<"u", "g">>}
Flow(kinds, succs, cond) ==
  Func([b \in 1..4 |->
    Block(IF b = 4 THEN <<Ret("r")>>
          ELSE [i \in DOMAIN kinds[b] |-> Node(kinds[b][i], b)] \o (IF Len(succs[b]) = 2 THEN <<cond>> ELSE <<>>),
          IF b = 4 THEN <<>> ELSE succs[b])])
Shapes ==
  {<<x, y, z>> : x \in {<<2>>, <<2, 3>>}, y \in {<<3>>, <<4>>, <<3, 4>>, <<2, 3>>, <<1, 3>>, <<2>>},
                 z \in {<<4>>, <<2, 4>>, <<4, 1>>}}
Flows == {[Flow(<<k, l, m>>, h, Ne(err, Nil)) EXCEPT !.vals = {[a |-> "true", err |-> "nil"], [a |-> "true", err |-> "iface"]}] :
            k \in {<<"f">>, <<"u">>, <<"f", "w", "u">>}, l \in Kinds, m \in {<<>>, <<"g">>, <<"f">>}, h \in Shapes}
Oks == {Flow(<<k, l, <<>>>>, h, ok) : k \in {<<"q">>, <<"m">>, <<"c">>}, l \in {<<>>, <<"m">>, <<"q">>},
          h \in {<<<<2, 3>>, <<3, 4>>, <<4>>>>, <<<<2>>, <<1, 3>>, <<2, 4>>>>}}

Functions == Guardeds \cup Assigned2 \cup Asserted1 \cup Switches \cup TypeSwitches \cup Ranges \cup Templs \cup Flows \cup Oks

===============================================================================
