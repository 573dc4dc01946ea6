------------------------------ MODULE RichChecks ------------------------------
(****************************************************************************)
(* What a check of an error or of an ok says about the values that came     *)
(* with it (assertion/function/assertiontree/rich_check_effect.go and       *)
(* blocksAndPreprocessingFromCFG).  An assignment v, err := f() makes an    *)
(* effect; effects flow forward through the preprocessed graph as long as   *)
(* they are not invalidated; those that hold at a branch that checks their  *)
(* err or ok guard their value on the true side.                            *)
(****************************************************************************)
EXTENDS Preprocess

CONSTANT
  Results  \* for the functions that are called: "err", "ok" or "plain"

VARIABLES
  checks,  \* for each block, the effects at its end
  rounds,  \* roundCount
  facts    \* the effects triggered by the condition of a block

checkVars == <<checks, rounds, facts>>
allVars == <<vars, checkVars>>

-----------------------------------------------------------------------------
(* Effects. *)

Blank == "_"
Assigned(node) ==
  CASE node.op = "assign" -> Range(node.lhs)
    [] node.op = "range" -> Range(node.to)
    [] node.op = "bind" -> {node.to}
    [] OTHER -> {}

\* The values that an ok or an error speaks about.
OkValues(node) ==
  LET lhs == Range(Front(node.lhs))
      two == Len(node.lhs) = 2
  IN  CASE node.rhs.op = "index" /\ two -> lhs \cup {node.rhs.v, node.rhs.elem}
        [] node.rhs.op = "recv" /\ two -> lhs \cup {node.rhs.v}
        [] node.rhs.op = "call" -> IF Results[node.rhs.fn] = "ok" THEN lhs ELSE {}
        [] OTHER -> {}
ErrValues(node) ==
  IF node.rhs.op = "call" /\ Results[node.rhs.fn] = "err" THEN Range(Front(node.lhs)) ELSE {}
ErrArgs(node) ==
  IF node.rhs.op = "call" /\ Results[node.rhs.fn] = "err" /\ ErrorReturnNonnilArg(node.rhs) # None
    THEN {ErrorReturnNonnilArg(node.rhs).v} ELSE {}

Effect(kind, node, value) == [kind |-> kind, check |-> Last(node.lhs), value |-> value, by |-> node]

\* RichCheckFromNode
EffectsOf(node) ==
  IF node.op # "assign" THEN {}
  ELSE IF node.lhs = <<>> \/ Last(node.lhs) = Blank THEN {}
  ELSE {Effect("ok", node, v) : v \in OkValues(node) \ {Blank}}
       \cup {Effect("err", node, v) : v \in ErrValues(node) \ {Blank}}
       \cup {Effect("arg", node, v) : v \in ErrArgs(node)}

\* nodeAssignsOneWithoutOther and nodeAssignsAny
InvalidatedBy(effect, node) ==
  IF effect.kind = "arg" THEN {effect.check, effect.value} \cap Assigned(node) # {}
  ELSE effect.check \in Assigned(node) /\ effect.value \notin Assigned(node)

TriggeredByEither(effect, cond) ==
  IF effect.kind = "ok" THEN cond = [op |-> "var", v |-> effect.check]
  ELSE cond.op \in {"eq", "ne"} /\ cond.y = Nil /\ cond.x = [op |-> "var", v |-> effect.check]
TriggeredBy(effect, cond) ==
  IF effect.kind = "ok" THEN cond = [op |-> "var", v |-> effect.check]
  ELSE cond.op = "eq" /\ cond = Eq([op |-> "var", v |-> effect.check], Nil)

\* The effects that survive the nodes, and those that the nodes add.
Surviving(effects, nodes) == {e \in effects : \A i \in DOMAIN nodes : ~InvalidatedBy(e, nodes[i])}
GenInitial(nodes) ==
  LET after(effects, node) == {e \in effects : ~InvalidatedBy(e, node)} \cup EffectsOf(node)
  IN  FoldLeft(after, {}, nodes)

-----------------------------------------------------------------------------
(* Propagation. *)

Succs(b) == Range(blocks[b].succs)
Preds(b) == {p \in DOMAIN blocks : blocks[p].live /\ b \in Succs(p)}

\* The blocks that an effect may reach, whatever invalidates it.
Origin(e) == CHOOSE b \in DOMAIN blocks : e.by \in Range(blocks[b].nodes)
Lines == [b \in DOMAIN blocks |-> [next |-> Succs(b)]]
Reachable(from) == Closure(Lines, {from}, DOMAIN blocks)

IncomingFromAny(b) == UNION {checks[p] : p \in Preds(b)}

\* An effect comes into a block when every predecessor that it may reach has it.
Incoming(b) ==
  LET arriving == UNION {checks[p] : p \in Preds(b)}
      masked(e) == \E p \in Preds(b) : p \in Reachable(Origin(e)) /\ e \notin checks[p]
  IN  {e \in arriving : ~masked(e)}

\* A round gives every block what came in at the end of the round before.
Propagated ==
  [b \in DOMAIN blocks |-> checks[b] \cup Surviving(Incoming(b), blocks[b].nodes)]

-----------------------------------------------------------------------------
(* The steps. *)

ChecksInit == checks = <<>> /\ rounds = 0 /\ facts = {}

GenInitialRichCheckEffects ==
  /\ ~panic /\ phase = "ready" /\ phase' = "propagate"
  /\ checks' = [b \in DOMAIN blocks |-> GenInitial(blocks[b].nodes)]
  /\ UNCHANGED <<function, graph, at, bound, calls, known, panic, rounds, facts>>

PropagateRichChecks ==
  /\ ~panic /\ phase = "propagate"
  /\ checks' = Propagated
  /\ rounds' = rounds + 1
  /\ phase' = IF checks' = checks THEN "branches" ELSE "propagate"
  /\ panic' = (rounds' > 2 * Len(blocks) * Len(blocks))
  /\ UNCHANGED <<function, graph, at, bound, calls, known, facts>>

\* The block at the end of all returns is appended, and what is learned on the
\* branches is set down.  A range stands before its loop.
Returning(b) ==
  \/ blocks[b].nodes # <<>> /\ Last(blocks[b].nodes).op = "return"
  \/ blocks[b].succs = <<b>>
Conditional(b) == Branches(blocks, b) /\ IsExpr(Cond(blocks, b))
EndsWithRange(b) == blocks[b].nodes # <<>> /\ Last(blocks[b].nodes).op = "range"
RangeLoop(b) ==
  /\ Len(blocks[b].succs) = 1
  /\ LET loop == blocks[b].succs[1] IN blocks[loop].nodes = <<>> /\ Len(blocks[loop].succs) = 2

BlocksAndPreprocessing ==
  /\ ~panic /\ phase = "branches" /\ phase' = "done"
  /\ blocks' = Append([b \in DOMAIN blocks |->
                         IF Returning(b) THEN [blocks[b] EXCEPT !.succs = Append(@, Len(blocks) + 1)] ELSE blocks[b]],
                      [nodes |-> <<>>, succs |-> <<>>, live |-> TRUE])
  /\ facts' = UNION {{[block |-> b, effect |-> e] : e \in {e \in checks[b] : TriggeredBy(e, Cond(blocks, b))}} :
                       b \in {b \in DOMAIN blocks : Conditional(b)}}
  /\ panic' = (\E b \in DOMAIN blocks : EndsWithRange(b) /\ ~RangeLoop(b))
  /\ UNCHANGED <<function, failure, at, bound, calls, known, checks, rounds>>

Checking == GenInitialRichCheckEffects \/ PropagateRichChecks \/ BlocksAndPreprocessing

AllInit == Init /\ ChecksInit
AllNext == (Preprocessing /\ UNCHANGED checkVars) \/ Checking
Spec == AllInit /\ [][AllNext]_allVars
FairSpec == Spec /\ WF_allVars(AllNext)

-----------------------------------------------------------------------------
(* Properties. *)

Ready == phase = "ready" /\ ~panic
OnlyCaseNil == \A s \in function.typeSwitches : Range(FlattenSeq(s.clauses)) \subseteq {"nil"}
Asserted == {n \in UNION {Range(function.blocks[b].nodes) : b \in DOMAIN function.blocks} : n.op = "asserts"}
ExactAssertions ==
  \A n \in Asserted : SplitBlockOn(n.call) # None /\ \A val \in function.vals : Value(SplitBlockOn(n.call), val) = Value(n.call, val)

\* The passes of preprocess.CFG keep every run of the function, in the order of the
\* source: whatever the variables are, a statement is followed by what followed it.
\* A call that asserts goes on where its library lets it go on.  They invent no run
\* either, except where the cases of a type switch, which have no condition for a
\* concrete type, an inlined literal, which is not made canonical, or an assertion of
\* which only a part is understood leave both branches open.
SameRuns ==
  Ready => \A val \in function.vals :
    LET source == SourceRuns(val)  result == ResultRuns(val)
    IN  IF OnlyCaseNil /\ function.templ = None /\ ExactAssertions THEN source = result ELSE source \subseteq result

\* markTypeSwitchStatements: no run of a nil operand enters a body all of whose types
\* are interfaces, no run of another operand enters the body of case nil, and the
\* binding is made again on the way into every body.
TypeSwitchesKnown ==
  Ready => \A s \in function.typeSwitches : \A val \in function.vals :
    LET entered == {pair[2] : pair \in ResultRuns(val)}
        isNil == val[s.operand.v] = "nil"
    IN  \A c \in DOMAIN s.clauses :
          LET types == Range(s.clauses[c])
              body == s.bodies[c]
          IN  /\ types # {} /\ (IF isNil THEN types = {"iface"} ELSE types = {"nil"}) => body \notin entered
              /\ ~BindsNothing(s) =>
                   \E b \in DOMAIN blocks : Head(blocks[b].nodes \o <<Nil>>) = s.assign
                                            /\ EventsOf(blocks[b].nodes) # <<>> /\ EventsOf(blocks[b].nodes)[1] = body

\* Neither the walk along the cases of a switch, nor the rounds of the propagation, nor
\* the shape of a range loop comes to one of the panics of the code.
NoPanic == ~panic

\* The ends of blocks where an effect holds, or no longer, on some path from its
\* assignment that does not come back to it.
RECURSIVE Paths(_, _)
Paths(e, S) ==
  LET step(pair) ==
        {[block |-> s, bad |-> pair.bad \/ Surviving({e}, blocks[s].nodes) = {}] : s \in Succs(pair.block) \ {Origin(e)}}
      more == S \cup UNION {step(pair) : pair \in S}
  IN  IF more = S THEN S ELSE Paths(e, more)
PathsOf(e) ==
  LET b == Origin(e)
      nodes == blocks[b].nodes
      rest == SubSeq(nodes, FirstOf({i \in DOMAIN nodes : nodes[i] = e.by}) + 1, Len(nodes))
  IN  Paths(e, {[block |-> b, bad |-> Surviving({e}, rest) = {}]})

Propagating == phase \in {"propagate", "branches"} /\ ~panic
AllEffects == UNION {EffectsOf(n) : n \in UNION {Range(blocks[b].nodes) : b \in DOMAIN blocks}}
Acyclic == \A b \in DOMAIN blocks : \A s \in Succs(b) : b \notin Reachable(s)

\* An effect at the end of a block has survived every path from its assignment (to the
\* last time it was made).
ChecksSound ==
  Propagating => \A b \in DOMAIN checks : \A e \in checks[b] : [block |-> b, bad |-> TRUE] \notin PathsOf(e)

\* An effect that survives every path to a block is there at the end, where there is no loop.
ChecksComplete ==
  phase = "branches" /\ ~panic /\ Acyclic =>
    \A e \in AllEffects : \A b \in DOMAIN blocks :
      blocks[Origin(e)].live /\ {p.bad : p \in {p \in PathsOf(e) : p.block = b}} = {FALSE} => e \in checks[b]

\* propagateRichChecks: "A check created by a node in block A is determined to flow to
\* block B if every path from A to B does not invalidate the check", so that the error
\* that is checked is the one that came with the value.  No effect is there that does
\* not flow so; all that do are there where the graph has no loop.
ChecksExact == ChecksSound /\ ChecksComplete

\* A value is guarded on the true branch only where the run on which the error is nil,
\* or ok is true, goes.
GuardedSide ==
  phase = "done" /\ ~panic => \A f \in facts : \A val \in function.vals :
    (f.effect.check \in DOMAIN val /\ Value(Cond(blocks, f.block), val) = "true")
      => val[f.effect.check] \in {"nil", "true"}

\* The analysis of every function comes to its end.
Preprocessed == <>(phase = "done" \/ panic)

===============================================================================
