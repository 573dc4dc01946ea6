--------------------------- MODULE MCFunctionContracts ---------------------------
(****************************************************************************)
(* Packages for TLC.  The values of the functions: the parameter p, nil,    *)
(* a value made by the function (new), the result of a call (q), a phi (r), *)
(* and a conversion (v) of the parameter.                                   *)
(****************************************************************************)
EXTENDS FunctionContracts

FunctionWith(values, blocks) ==
  [param |-> "p", block |-> blocks,
   intrinsic |-> [v \in values |->
                    CASE v = "nil" -> isnil [] v = "new" -> isnonnil [] OTHER -> unknown],
   of |-> [v \in values |-> IF v = "v" THEN "p" ELSE None]]

Function(blocks) == FunctionWith({"p", "nil", "new", "q", "r", "v"}, blocks)

Block(phis, branch, succs, ret) ==
  [phis |-> phis, branch |-> branch, succs |-> succs, ret |-> ret]
If(op, x, y) == [op |-> op, x |-> x, y |-> y]
Goto(succ) == Block(<<>>, None, <<succ>>, None)
Return_(v) == Block(<<>>, None, <<>>, v)

Operands == {"p", "nil", "new", "q", "v"}
NilChecks == {If(op, x, "nil") : op \in {"==", "!="}, x \in {"p", "v"}} \cup {If("==", "nil", "p")}

\* The parameter is checked and either side returns.
Guards ==
  {Function(<<Block(<<>>, check, <<2, 3>>, None), Return_(a), Return_(b)>>) :
     check \in NilChecks, a, b \in Operands}

\* The parameter is checked, the sides join in a phi, which is checked again.
Joins ==
  {Function(<<Block(<<>>, If("==", "p", "nil"), <<2, 3>>, None), Goto(4), Goto(4),
              Block(<< <<"r", [pred \in {2, 3} |-> IF pred = 2 THEN a ELSE b]>> >>,
                    check, <<5, 6>>, None),
              Return_(c), Return_(d)>>) :
     check \in {If(op, "r", "nil") : op \in {"==", "!="}},
     a, b \in Operands, c, d \in {"p", "r", "nil"}}

\* A loop that only makes new values.
Loops ==
  {Function(<<Block(<<>>, If("==", "p", "nil"), <<2, 3>>, None), Return_("nil"), Goto(4),
              Block(<< <<"r", [pred \in {3, 5} |-> IF pred = 3 THEN "p" ELSE again]>> >>,
                    None, <<5, 6>>, None),
              Goto(4), Return_(c)>>) :
     again \in {"r", "new"}, c \in {"r", "p", "new", "nil"}}

\* Three tables meet in block 12, too many for the bound of 3, after block 8, which
\* returns, has been visited with two others.
Wide ==
  LET next == <<Block(<<>>, If("==", "q", "nil"), <<2, 3>>, None),
                Block(<<>>, If("==", "p", "nil"), <<4, 5>>, None),
                Block(<<>>, If("==", "p", "nil"), <<6, 7>>, None),
                Goto(8), Goto(8), Goto(11),
                Block(<<>>, If("==", "w", "nil"), <<9, 10>>, None)>>
  IN  FunctionWith({"p", "q", "w", "nil", "new", "r"}, next \o
        <<Block(<< <<"r", [pred \in {4, 5, 12} |-> IF pred = 5 THEN "new" ELSE "nil"]>> >>,
                None, <<>>, "r"),
          Goto(12), Goto(12), Goto(12), Goto(8)>>)

Decl_(name, kind, fn, panics, exported) ==
  [name |-> name, kind |-> kind, fn |-> fn, panics |-> panics, exported |-> exported]
Package(decls, upstream, inScope) == [decls |-> decls, upstream |-> upstream, inScope |-> inScope]

Identity == Function(<<Return_("p")>>)
Guard(a) == Function(<<Block(<<>>, If("==", "p", "nil"), <<2, 3>>, None), Return_("nil"), Return_(a)>>)

Alone == {Package(<<Decl_("f", "inferable", fn, FALSE, TRUE)>>, {}, TRUE) :
            fn \in Guards \cup Joins \cup Loops \cup {Wide}}
Together ==
  {Package(<<Decl_("f", first, Guard("p"), FALSE, FALSE),
             Decl_("g", "inferable", fn, panics, exported),
             Decl_("h", "inferable", Identity, third, TRUE)>>, {"up"}, inScope) :
     first \in {"unfit", "handwritten", "inferable"}, fn \in {Guard("p"), Guard("q")},
     panics, exported, third, inScope \in BOOLEAN}

CheckedPackages == Alone \cup Together
=============================================================================
