------------------------------ MODULE Preprocess ------------------------------
(****************************************************************************)
(* The passes over the control flow graph of a function before it is        *)
(* analysed (assertion/function/preprocess): calls that do not return cut   *)
(* their block, trusted calls and replaced conditions become branches,      *)
(* conditions become canonical, and the ranges, switches and type switches  *)
(* that the graph has lost are put back.  A block is a sequence of nodes;   *)
(* an expression that ends a block with two successors is its condition.    *)
(*                                                                          *)
(* The runs of a graph are defined here as well: which statement follows    *)
(* which, for given values of the variables.  They are what the passes      *)
(* must not change.                                                         *)
(****************************************************************************)
EXTENDS Hooks, FiniteSets, SequencesExt

CONSTANT
  Function     \* the functions that may be analysed

VARIABLES
  function,  \* the function, with its graph as it was built; never changes
  blocks,    \* the copy that is modified
  failure,   \* the block that a failing trusted call goes to
  phase,     \* the pass that runs
  at,        \* the next block of its loop
  bound,     \* the number of blocks when the loop began
  calls,     \* the calls that the pass has still to make for this block
  known,     \* knownCaseBlockIdxs
  panic      \* the pass has panicked

graph == <<blocks, failure>>
vars == <<function, graph, phase, at, bound, calls, known, panic>>

-----------------------------------------------------------------------------
(* Expressions and statements. *)

IsExpr(node) == node.op \in {"var", "lit", "call", "paren", "not", "and", "or", "eq", "ne"}
IsLiteral(e) == e.op = "lit"

\* A type switch without a binding has its operand's expression statement.
BindsNothing(stmt) == stmt.assign.to = None

-----------------------------------------------------------------------------
(* One call of each pass. *)

Cond(bs, b) == Last(bs[b].nodes)
Branches(bs, b) == Len(bs[b].nodes) > 0 /\ Len(bs[b].succs) = 2
WithCond(bs, b, e) == [bs EXCEPT ![b].nodes = Append(Front(@), e)]
Swapped(bs, b) == [bs EXCEPT ![b].succs = <<@[2], @[1]>>]
FirstOf(S) == CHOOSE i \in S : \A j \in S : i <= j

Call(name, b) == [call |-> name, block |-> b]
Outcome(bs, again) == [blocks |-> bs, again |-> again]

\* What follows a call that does not return is cut off.
CutAfter(bs, b) ==
  LET stops == {i \in DOMAIN bs[b].nodes : bs[b].nodes[i].op = "noreturn"}
  IN  IF stops = {} \/ bs[b].succs = <<>> THEN bs
      ELSE [bs EXCEPT ![b].nodes = SubSeq(@, 1, FirstOf(stops) - 1), ![b].succs = <<>>]

\* The first trusted call of a block ends it, with its condition; the rest is a new
\* block, to be split in turn.
SplitOn(bs, b, fail) ==
  LET nodes == bs[b].nodes
      trusted == {i \in DOMAIN nodes : nodes[i].op = "asserts" /\ SplitBlockOn(nodes[i].call) # None}
      i == FirstOf(trusted)
      new == Len(bs) + 1
      rest == [nodes |-> SubSeq(bs[b].nodes, i + 1, Len(bs[b].nodes)), succs |-> bs[b].succs, live |-> TRUE]
  IN  IF trusted = {} THEN Outcome(bs, <<>>)
      ELSE Outcome(Append([bs EXCEPT ![b].nodes = Append(SubSeq(@, 1, i), SplitBlockOn(@[i].call)),
                                     ![b].succs = <<new, fail>>,
                                     ![fail].live = TRUE], rest),
                   <<Call("split", new)>>)

\* x && y: the new block decides by y where x is true; x || y: where x is false.
ShortCircuitTo(bs, b, e) ==
  LET new == Len(bs) + 1
      side == IF e.op = "and" THEN 1 ELSE 2
      decidesY == [nodes |-> <<e.y>>, succs |-> bs[b].succs, live |-> TRUE]
  IN  Append([WithCond(bs, b, e.x) EXCEPT ![b].succs[side] = new], decidesY)
ShortCircuit(bs, b, e) ==
  Outcome(ShortCircuitTo(bs, b, e), <<Call("canonicalize", b), Call("canonicalize", Len(bs) + 1)>>)

ComparisonInPlace(bs, b, e) ==
  Outcome(WithCond(bs, b, IF e.op = "ne" /\ e.y = Nil THEN Eq(e.x, Nil) ELSE e), <<>>)
ComparisonSwapped(bs, b, e) ==
  Outcome(IF e.y = False THEN Swapped(bs, b) ELSE bs, IF e.y = False THEN <<Call("canonicalize", b)>> ELSE <<>>)

\* x == true is x, x == false is !x, and so on; a comparison with nil is one of
\* equality.  Only a negation is looked at again.
Comparison(bs, b, e) ==
  LET negated == Outcome(WithCond(bs, b, Not(e.x)), <<Call("canonicalize", b)>>)
      plain == Outcome(WithCond(bs, b, e.x), <<>>)
      equal == e.op = "eq"
  IN  CASE e.y = Nil /\ ~equal -> Outcome(Swapped(WithCond(bs, b, Eq(e.x, Nil)), b), <<>>)
        [] e.y = True -> IF equal THEN plain ELSE negated
        [] e.y = False -> IF equal THEN negated ELSE plain
        [] OTHER -> Outcome(WithCond(bs, b, e), <<>>)

\* The literal of a binary expression goes to its right.
LiteralRight(e) == IF IsLiteral(e.x) THEN [e EXCEPT !.x = e.y, !.y = e.x] ELSE e

Canonicalized(bs, b) ==
  LET e == Cond(bs, b)
      recur == <<Call("canonicalize", b)>>
  IN  CASE ~Branches(bs, b) -> Outcome(bs, <<>>)
        [] e.op = "paren" -> Outcome(WithCond(bs, b, e.x), recur)
        [] e.op = "not" -> Outcome(Swapped(WithCond(bs, b, e.x), b), recur)
        [] e.op \in {"and", "or"} -> ShortCircuit(bs, b, e)
        [] e.op \in {"eq", "ne"} -> Comparison(bs, b, LiteralRight(e))
        [] OTHER -> Outcome(bs, <<>>)

\* if f() { .. }, or if ok := f(); ok { .. }, for a call that the hooks know.
ReplacedCall(bs, b) ==
  LET nodes == bs[b].nodes
      before == nodes[Len(nodes) - 1]
  IN  CASE Last(nodes).op = "call" -> Last(nodes)
        [] Last(nodes).op = "var" /\ Len(nodes) >= 2 ->
             IF before.op = "assign" /\ before.lhs = <<Last(nodes).v>> THEN before.rhs ELSE None
        [] OTHER -> None
ConditionalReplaced(bs, b) ==
  LET call == IF Branches(bs, b) THEN ReplacedCall(bs, b) ELSE None
      replaced == IF call # None /\ call.op = "call" THEN ReplaceConditional(call) ELSE None
  IN  IF replaced = None THEN Outcome(bs, <<>>)
      ELSE Outcome(WithCond(bs, b, replaced), <<Call("canonicalize", b)>>)

-----------------------------------------------------------------------------
(* What was lost when the graph was built. *)

\* The operand, key and value of a range are the last nodes of the block before it.
RangeNodes(r) == <<r.x>> \o r.to
RangeMarked(bs, b) ==
  LET nodes == bs[b].nodes
      ends == {r \in function.ranges : IsSuffix(RangeNodes(r), nodes)}
      r == CHOOSE r \in ends : TRUE
  IN  IF ends = {} THEN bs
      ELSE [bs EXCEPT ![b].nodes = Append(SubSeq(@, 1, Len(@) - Len(RangeNodes(r))),
                                          [op |-> "range", x |-> r.x, to |-> [k \in DOMAIN r.to |-> r.to[k].v]])]

\* A block with the tag before its last node is the first case of a switch.
IsSwitch(bs, b) ==
  LET n == Len(bs[b].nodes)
  IN  n >= 2 /\ bs[b].nodes[n - 1] \in function.tags
SwitchMarked(bs, b) ==
  LET n == Len(bs[b].nodes)
  IN  [bs EXCEPT ![b].nodes = Append(SubSeq(@, 1, n - 2), Eq(@[n - 1], @[n]))]
FirstSuccessor(bs, b) == bs[b].succs[1]
NextCase(bs, b) == bs[b].succs[2]
CaseCall(b, tag) == [call |-> "case", block |-> b, tag |-> tag]
CaseMarked(bs, b, tag) == [bs EXCEPT ![b].nodes = <<Eq(tag, @[1])>>]

CanonicalCaseCond(operand, type) == IF type \in {"nil", "iface"} THEN <<Eq(operand, Nil)>> ELSE <<>>
\* nil is matched by case nil only; an interface type never matches nil.
TypeSwitchCaseCond(operand, type) ==
  CASE type = "nil" -> <<Eq(operand, Nil)>>
    [] type = "iface" -> <<Ne(operand, Nil)>>
    [] OTHER -> <<>>

TypeSwitchOf(bs, b) ==
  {s \in function.typeSwitches : Branches(bs, b) /\ Cond(bs, b) = s.assign}

\* The cases of a type switch in order, one for each type; the first of a clause
\* also gives its body the binding.
CasesOf(stmt) ==
  FlattenSeq([c \in DOMAIN stmt.clauses |->
    [i \in DOMAIN stmt.clauses[c] |-> [type |-> stmt.clauses[c][i], first |-> i = 1]]])
HasDefault(stmt) == \E c \in DOMAIN stmt.clauses : stmt.clauses[c] = <<>>
Rebound(bs, b, stmt) ==
  IF BindsNothing(stmt) THEN bs ELSE [bs EXCEPT ![b].nodes = <<stmt.assign>> \o @]

TypeSwitchMarked(bs, b, stmt) ==
  LET mark(walk, case) ==
        LET c == walk.at
            asserted == [walk.blocks EXCEPT ![c].nodes = @ \o TypeSwitchCaseCond(stmt.operand, case.type)]
        IN  IF walk.lost \/ (c # b /\ (walk.blocks[c].nodes # <<>> \/ Len(walk.blocks[c].succs) # 2))
              THEN [walk EXCEPT !.lost = TRUE]
              ELSE [walk EXCEPT !.at = asserted[c].succs[2],
                                !.blocks = IF case.first THEN Rebound(asserted, asserted[c].succs[1], stmt)
                                           ELSE asserted]
      end == FoldLeft(mark, [blocks |-> bs, at |-> b, lost |-> FALSE], CasesOf(stmt))
  IN  IF ~end.lost /\ HasDefault(stmt) THEN Rebound(end.blocks, end.at, stmt) ELSE end.blocks

\* The graph of the function literal of a templ component takes the place of the
\* component's: its returns return the component.
InlinedTempl(lit) ==
  [b \in DOMAIN lit |->
    [lit[b] EXCEPT !.nodes = [i \in DOMAIN @ |->
       IF lit[b].live /\ @[i].op = "return" THEN function.templ.ret ELSE @[i]]]]

-----------------------------------------------------------------------------
(* The passes. *)

Passes == <<"noreturn", "split", "canonicalize", "replace", "range", "switch", "typeswitch", "templ">>
LivePasses == {"noreturn", "split", "canonicalize", "replace"}

Init ==
  /\ function \in Function
  /\ blocks = Append(function.blocks, [nodes |-> <<>>, succs |-> <<>>, live |-> FALSE])
  /\ failure = Len(function.blocks) + 1
  /\ phase = "noreturn" /\ at = 1 /\ bound = Len(blocks)
  /\ calls = <<>> /\ known = {} /\ panic = FALSE

\* The loop of a pass over the blocks that there were when it began.
NextBlock ==
  /\ ~panic /\ phase \in Range(Passes) \ {"templ"} /\ calls = <<>> /\ at <= bound
  /\ calls' = IF phase \in LivePasses /\ ~blocks[at].live THEN <<>> ELSE <<Call(phase, at)>>
  /\ at' = at + 1
  /\ UNCHANGED <<function, graph, phase, bound, known, panic>>

NextPass ==
  /\ ~panic /\ phase \in Range(Passes) \ {"templ"} /\ calls = <<>> /\ at > bound
  /\ phase' = Passes[CHOOSE i \in 2..Len(Passes) : Passes[i - 1] = phase]
  /\ at' = 1 /\ bound' = Len(blocks) /\ known' = {}
  /\ UNCHANGED <<function, graph, calls, panic>>

\* The call on top, which leaves the blocks and the calls it makes in its turn.
Calling(name) == ~panic /\ calls # <<>> /\ calls[1].call = name
Continue(out) ==
  /\ blocks' = out.blocks /\ calls' = out.again \o Tail(calls)
  /\ UNCHANGED <<function, failure, phase, at, bound>>
Keeps == UNCHANGED <<known, panic>>

RestructureOnNoReturnCall ==
  Calling("noreturn") /\ Continue(Outcome(CutAfter(blocks, calls[1].block), <<>>)) /\ Keeps
SplitBlockOnTrustedFuncs ==
  Calling("split") /\ Continue(SplitOn(blocks, calls[1].block, failure)) /\ Keeps
CanonicalizeConditional ==
  Calling("canonicalize") /\ Continue(Canonicalized(blocks, calls[1].block)) /\ Keeps
ReplaceConditionalOfBlock ==
  Calling("replace") /\ Continue(ConditionalReplaced(blocks, calls[1].block)) /\ Keeps
MarkRangeStatements ==
  Calling("range") /\ Continue(Outcome(RangeMarked(blocks, calls[1].block), <<>>)) /\ Keeps

\* The first case of a switch; the second successor leads to the next one.
MarkSwitchStatements ==
  LET b == calls[1].block
      tag == blocks[b].nodes[Len(blocks[b].nodes) - 1]
      isSwitch == b \notin known /\ IsSwitch(blocks, b)
  IN  /\ Calling("switch")
      /\ panic' = (isSwitch /\ Len(blocks[b].succs) # 2)
      /\ known' = IF isSwitch THEN known \cup {b} ELSE known
      /\ Continue(IF ~isSwitch \/ panic' THEN Outcome(blocks, <<>>)
                  ELSE Outcome(SwitchMarked(blocks, b), <<CaseCall(NextCase(blocks, b), tag)>>))

\* A further case, as long as there are two successors.
MarkCase ==
  LET b == calls[1].block
      isCase == Len(blocks[b].succs) = 2
  IN  /\ Calling("case")
      /\ panic' = (isCase /\ Len(blocks[b].nodes) # 1)
      /\ known' = IF isCase THEN known \cup {b} ELSE known
      /\ Continue(IF ~isCase \/ panic' THEN Outcome(blocks, <<>>)
                  ELSE Outcome(CaseMarked(blocks, b, calls[1].tag),
                               <<CaseCall(NextCase(blocks, b), calls[1].tag)>>))

MarkTypeSwitchStatements ==
  LET b == calls[1].block
      stmts == TypeSwitchOf(blocks, b)
  IN  /\ Calling("typeswitch")
      /\ Continue(Outcome(IF stmts = {} THEN blocks
                          ELSE TypeSwitchMarked(blocks, b, CHOOSE s \in stmts : TRUE), <<>>))
      /\ Keeps

InlineTemplComponentFuncLit ==
  /\ ~panic /\ phase = "templ" /\ phase' = "ready"
  /\ blocks' = IF function.templ = None THEN blocks ELSE InlinedTempl(function.templ.blocks)
  /\ UNCHANGED <<function, failure, at, bound, calls, known, panic>>

Preprocessing ==
  \/ NextBlock \/ NextPass
  \/ RestructureOnNoReturnCall \/ SplitBlockOnTrustedFuncs
  \/ CanonicalizeConditional \/ ReplaceConditionalOfBlock
  \/ MarkRangeStatements \/ MarkSwitchStatements \/ MarkCase \/ MarkTypeSwitchStatements
  \/ InlineTemplComponentFuncLit

-----------------------------------------------------------------------------
(* The runs of a graph. *)

\* What a reader of the source sees of a node.
EventOf(node) ==
  CASE node.op \in {"stmt", "assign", "asserts", "return"} -> <<node.v>>
    [] node.op = "range" -> <<node.x.v>>
    [] \E r \in function.ranges : node = r.x -> <<node.v>>
    [] OTHER -> <<>>
EventsOf(nodes) == FlattenSeq([i \in DOMAIN nodes |-> EventOf(nodes[i])])

\* A block of the graph that was built: the nodes that are executed, and where to.
SourceLine(bs, b, val) ==
  LET nodes == bs[b].nodes
      stops == {i \in DOMAIN nodes : \/ nodes[i].op = "noreturn"
                                     \/ nodes[i].op = "asserts" /\ Value(nodes[i].call, val) # "true"}
      test == function.tests[b]
  IN  IF stops # {} THEN [events |-> EventsOf(SubSeq(nodes, 1, FirstOf(stops))), next |-> {}]
      ELSE [events |-> EventsOf(nodes),
            next |-> IF Len(bs[b].succs) # 2 \/ test = None THEN Range(bs[b].succs)
                     ELSE {bs[b].succs[IF Value(test, val) = "true" THEN 1 ELSE 2]}]

\* A block of the result, as the analysis reads it.  The condition v != nil that
\* stands for a case of a type switch says nothing where it fails.
ResultLine(bs, b, val) ==
  LET nodes == bs[b].nodes
      decides == Branches(bs, b) /\ IsExpr(Last(nodes))
      holds == Value(Last(nodes), val) = "true"
  IN  [events |-> EventsOf(nodes),
       next |-> CASE ~decides -> Range(bs[b].succs)
                  [] Last(nodes).op = "ne" /\ Last(nodes).y = Nil ->
                       {bs[b].succs[2]} \cup (IF holds THEN {bs[b].succs[1]} ELSE {})
                  [] OTHER -> {bs[b].succs[IF holds THEN 1 ELSE 2]}]

RECURSIVE Closure(_, _, _)
Closure(lines, S, through) ==
  LET more == S \cup UNION {lines[b].next : b \in {b \in S : b \in through}}
  IN  IF more = S THEN S ELSE Closure(lines, more, through)

\* Which statement may follow which, from the entry on.
Follows(lines) ==
  LET silent == {b \in DOMAIN lines : lines[b].events = <<>>}
      heads(S) == {lines[b].events[1] : b \in Closure(lines, S, silent) \ silent}
      reached == Closure(lines, {1}, DOMAIN lines) \ silent
      within(s) == {<<s[i], s[i + 1]>> : i \in 1..(Len(s) - 1)}
  IN  {<<"entry", e>> : e \in heads({1})}
      \cup UNION {within(lines[b].events) \cup {<<Last(lines[b].events), e>> : e \in heads(lines[b].next)} :
                    b \in reached}

Built == IF function.templ = None THEN function.blocks ELSE InlinedTempl(function.templ.blocks)
SourceRuns(val) == Follows([b \in DOMAIN Built |-> SourceLine(Built, b, val)])
ResultRuns(val) == Follows([b \in DOMAIN blocks |-> ResultLine(blocks, b, val)])

===============================================================================
