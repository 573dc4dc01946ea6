--------------------------- MODULE MCBackpropagation ---------------------------
EXTENDS FunctionExecution, TLC

\* A function over the variables x and y, which are parameters, with a field f.
Use(path, consumer) == [kind |-> "use", path |-> path, consumer |-> consumer]
Move(lhs, rhs) == [lhs |-> lhs, rhs |-> rhs, producer |-> None]
Set(lhs, producer) == [lhs |-> lhs, rhs |-> <<>>, producer |-> producer]
Assign(pairs) == [kind |-> "assign", pairs |-> pairs, nonce |-> None]
Call(lhs) == [kind |-> "assign", pairs |-> <<Set(lhs, "call")>>, nonce |-> "ok"]
NotNil(path) == [path |-> path, nonce |-> None]
Guard(path) == [path |-> path, nonce |-> "ok"]

x == <<"x">>
y == <<"y">>
xf == <<"x", "f">>
yf == <<"y", "f">>

\* The variables of a rotation.
Index == 1..34
Var(i) == <<ToString(i)>>

MCPath == {x, y, xf, yf}
MCGuarded == {"call"}

MCDefault == [name \in {"x", "y", "f"} \cup {ToString(i) : i \in Index} |->
                IF name = "f" THEN "field f" ELSE "param " \o name]

\* if c { 1 } else { 2 }; 3
Diamond == [succs |-> (0 :> <<1, 2>> @@ 1 :> <<3>> @@ 2 :> <<3>> @@ 3 :> <<>>),
            returns |-> {3}, size |-> 4]
\* 0; for 1 { 2 }; 3
Loop == [succs |-> (0 :> <<1>> @@ 1 :> <<2, 3>> @@ 2 :> <<1>> @@ 3 :> <<>>),
         returns |-> {3}, size |-> 4]
\* 0; for { 1 }
Infinite == [succs |-> (0 :> <<1>> @@ 1 :> <<1>>), returns |-> {}, size |-> 2]
\* 0; for 1 { for 2 { 3 } }; 4
Nested == [succs |-> (0 :> <<1>> @@ 1 :> <<2, 4>> @@ 2 :> <<3, 1>> @@ 3 :> <<2>>
                        @@ 4 :> <<>>), returns |-> {4}, size |-> 5]

\* The functions with this graph whose blocks have these statements, and whose
\* branch block has these conditions.
WithNodes(graph, nodes, branch, conditions) ==
  {[paths |-> MCPath, size |-> graph.size, succs |-> graph.succs, returns |-> graph.returns,
    nodes |-> [b \in 0..(graph.size - 1) |-> n[b]],
    ifTrue |-> [b \in 0..(graph.size - 1) |-> IF b = branch THEN c[1] ELSE <<>>],
    ifFalse |-> [b \in 0..(graph.size - 1) |-> IF b = branch THEN c[2] ELSE <<>>]] :
     n \in {m \in [0..(graph.size - 1) -> UNION {nodes[b] : b \in DOMAIN nodes}] :
              \A b \in DOMAIN m : m[b] \in nodes[b]},
     c \in conditions}

First == {<<>>, <<Call(x)>>, <<Assign(<<Set(y, "nil")>>), Assign(<<Move(x, y)>>)>>}
Middle == {<<>>, <<Call(x)>>, <<Assign(<<Move(x, y)>>)>>, <<Assign(<<Move(y, x)>>)>>,
           <<Assign(<<Move(x, y), Move(y, x)>>)>>, <<Assign(<<Set(y, "nil")>>)>>,
           <<Use(y, "c2")>>}
End == {<<Use(x, "c1")>>, <<Use(y, "c1"), Assign(<<Move(y, x)>>), Use(y, "c2")>>}
Conditions == {<<<<>>, <<>>>>, <<<<NotNil(x)>>, <<>>>>, <<<<>>, <<NotNil(y)>>>>,
               <<<<Guard(x)>>, <<>>>>}

AssignsX(nodes) == \E i \in DOMAIN nodes : nodes[i].kind = "assign" /\
                     \E j \in DOMAIN nodes[i].pairs : nodes[i].pairs[j].lhs = x

\* A check of x's guard follows the call that x comes from.
GuardFollowsCall(f, branch) ==
  f.ifTrue[branch] = <<Guard(x)>> =>
    \/ f.nodes[branch] = <<Call(x)>>
    \/ /\ f.nodes[0] = <<Call(x)>>
       /\ \A b \in DOMAIN f.nodes : b \in {1, 2} => ~AssignsX(f.nodes[b])

Variables ==
  {f \in WithNodes(Diamond, <<Middle, Middle, End>> @@ 0 :> First, 0, Conditions) :
     GuardFollowsCall(f, 0)}
  \cup {f \in WithNodes(Loop, <<Middle, Middle, End>> @@ 0 :> First, 1, Conditions) :
          GuardFollowsCall(f, 1)}
  \cup WithNodes(Infinite, 1 :> {a \o b : a, b \in Middle} @@ 0 :> First, 1, {<<<<>>, <<>>>>})

-----------------------------------------------------------------------------
\* Assignments and uses of a field.  A variable whose field is used is never
\* checked itself: such a check loses what is known of the field (see README).
FieldNodes ==
  {<<>>, <<Assign(<<Set(xf, "nil")>>)>>, <<Assign(<<Move(xf, y)>>)>>, <<Call(xf)>>,
   <<Assign(<<Move(x, y)>>)>>, <<Assign(<<Set(x, "new")>>)>>,
   <<Assign(<<Move(xf, x), Move(x, y)>>)>>, <<Assign(<<Move(x, y), Set(xf, "nil")>>)>>,
   <<Assign(<<Set(xf, "nil"), Move(x, y)>>)>>,
   <<Assign(<<Set(xf, "nil"), Set(y, "new")>>), Assign(<<Move(x, y), Move(xf, y)>>)>>}
FieldEnd == {<<Use(xf, "c1")>>, <<Use(xf, "c1"), Use(x, "c2"), Assign(<<Move(y, xf)>>),
                                  Use(y, "c2")>>}
FieldConditions == {<<<<>>, <<>>>>, <<<<>>, <<NotNil(xf)>>>>, <<<<NotNil(y)>>, <<>>>>}

Fields ==
  WithNodes(Diamond, <<FieldNodes, FieldNodes, FieldEnd>> @@ 0 :> FieldNodes, 0,
            FieldConditions)
  \cup WithNodes(Nested, <<{<<>>, <<Use(x, "c3")>>}, FieldNodes, FieldNodes, FieldEnd>>
                           @@ 0 :> {<<>>, <<Assign(<<Set(xf, "nil")>>)>>}, 2,
                 FieldConditions)

\* testdata loopflow.go, infiniteAssertion: the tree of the loop grows for ever.
\* for { use a.f; a = a.f } and the same with a = a.f.g, in one block or in two.
Growing(path, graph, body, end) ==
  [paths |-> MCPath, size |-> graph.size, succs |-> graph.succs, returns |-> graph.returns,
   nodes |-> [b \in 0..(graph.size - 1) |->
                IF b = body THEN <<Use(path, "c1"), Assign(<<Move(x, path)>>)>>
                ELSE IF b = end THEN <<Use(xf, "c2")>> ELSE <<>>],
   ifTrue |-> [b \in 0..(graph.size - 1) |-> <<>>],
   ifFalse |-> [b \in 0..(graph.size - 1) |-> <<>>]]

GrowingPaths == {xf, <<"x", "f", "x">>, <<"x", "f", "f">>, <<"x", "y", "f", "f">>}
GrowingTrees ==
  {Growing(path, Infinite, 1, 5) : path \in GrowingPaths}
  \cup {Growing(path, Loop, 2, 3) : path \in GrowingPaths}
  \cup {Growing(path, Nested, 3, 4) : path \in GrowingPaths}

-----------------------------------------------------------------------------
\* testdata loopflow.go, longRotNilLoop: a loop that moves n variables on by one,
\* of which the first is nil and the others are not.
LongRotNilLoop(n) ==
  [paths |-> {Var(i) : i \in 1..n}, size |-> 4, succs |-> Loop.succs, returns |-> {3},
   nodes |-> (0 :> [i \in 1..n |-> Assign(<<Set(Var(i), IF i = 1 THEN "nil" ELSE "new")>>)]
                @@ 1 :> <<>>
                @@ 2 :> [i \in 1..(n - 1) |-> Assign(<<Move(Var(n + 1 - i), Var(n - i))>>)]
                @@ 3 :> <<Use(Var(n), "c1")>>),
   ifTrue |-> [b \in 0..3 |-> <<>>], ifFalse |-> [b \in 0..3 |-> <<>>]]

\* The variables from..to take the values of the ones before them.
MoveOn(from, to) ==
  Assign([i \in 1..(to - from + 1) |-> Move(Var(from + i - 1), Var(from + i - 2))])

\* 0; for { use the last one; move all on }: every round finds one more of n
\* parameters.  Block 2, after the loop, is not live.
ManyParameters(n) ==
  [paths |-> {Var(i) : i \in 1..n},
   size |-> 3, succs |-> (0 :> <<1>> @@ 1 :> <<1>> @@ 2 :> <<>>), returns |-> {},
   nodes |-> (0 :> <<>> @@ 1 :> <<Use(Var(n), "c1"), MoveOn((2 * n) \div 3 + 1, n),
            MoveOn(n \div 3 + 1, (2 * n) \div 3), MoveOn(2, n \div 3)>> @@ 2 :> <<>>),
   ifTrue |-> [b \in 0..2 |-> <<>>], ifFalse |-> [b \in 0..2 |-> <<>>]]

\* Rotations that the stable rounds do not cut short, and loops on both sides of the
\* bound on the rounds.
ManyRounds == {LongRotNilLoop(n) : n \in 2..6} \cup {ManyParameters(n) : n \in 31..34}

Executable == Variables \cup Fields \cup GrowingTrees \cup ManyRounds

=============================================================================
