---------------------------- MODULE Backpropagation ----------------------------
(****************************************************************************)
(* BackpropAcrossFunc (assertion/function/assertiontree/backprop.go): the   *)
(* assertions of one function are propagated backwards over its control     *)
(* flow graph, round by round in postorder, until the full triggers at the  *)
(* entry block are stable.                                                  *)
(*                                                                          *)
(* An assertion says that the value of a trackable expression, a path like  *)
(* x or x.f, will reach a consumer.  The assertion tree of a block is the   *)
(* set of its assertions; a node of the tree without consumers carries no   *)
(* information and is left out.  The statements of the function are the     *)
(* ones that treat assertions differently: assignments of trackable and of  *)
(* other expressions, and consumptions.  The size of a function counts the  *)
(* blocks of its CFG, also the ones that are not live; its paths are the    *)
(* trackable expressions in it.                                             *)
(****************************************************************************)
EXTENDS Naturals, Sequences, SequencesExt

CONSTANTS
  Function,          \* the functions that may be analysed
  Default,           \* DefaultTrigger: the producer of a variable or field by name
  Guarded,           \* producers that need a guard match
  Checked,           \* the producer of a successful nil check
  StableRoundLimit,  \* config.StableRoundLimit
  None               \* no assertion tree, no triggers, no nonce

VARIABLES
  function,          \* the function; never changes
  postOrder,
  currAssertions, nextAssertions,      \* the assertion tree of each block, or None
  updatedLastRound, updatedThisRound,  \* sets of blocks
  next,              \* how many blocks of postOrder the round has processed
  currTriggers, nextTriggers,          \* the full triggers at the entry, or None
  roundCount, stableRoundCount,
  stage

vars == <<function, postOrder, currAssertions, nextAssertions, updatedLastRound,
          updatedThisRound, next, currTriggers, nextTriggers, roundCount,
          stableRoundCount, stage>>

Entry == 0

-----------------------------------------------------------------------------
(****************************************************************************)
(* The control flow graph: blocksAndPreprocessingFromCFG.                   *)
(****************************************************************************)

\* The "return" block comes after the blocks of the CFG.
Return(f) == f.size
Blocks(f) == 0..f.size

IsSelfLoop(f, b) == f.succs[b] = <<b>>

Succs(f, b) ==
  IF b = Return(f) THEN <<>>
  ELSE IF b \in f.returns \/ IsSelfLoop(f, b) THEN Append(f.succs[b], Return(f))
  ELSE f.succs[b]

\* The postorder of the depth first search from the entry block.
ComputePostOrder(f) ==
  LET visit[b \in Blocks(f), visited \in SUBSET Blocks(f)] ==
        LET VisitNew(done, c) ==
              IF c \in done.visited THEN done
              ELSE LET below == visit[c, done.visited]
                   IN  [visited |-> below.visited, order |-> done.order \o below.order]
            all == FoldLeft(VisitNew, [visited |-> visited \cup {b}, order |-> <<>>],
                            Succs(f, b))
        IN  [all EXCEPT !.order = Append(@, b)]
  IN  visit[Entry, {}].order

-----------------------------------------------------------------------------
(****************************************************************************)
(* Assertion trees: for every path and consumer at most one assertion, with *)
(* the guards of the consumer and whether one of them was matched; and the  *)
(* full triggers found so far.                                              *)
(****************************************************************************)

NewRootAssertionNode == [assertions |-> {}, triggers |-> {}]

SameAssertion(a, b) == a.path = b.path /\ a.consumer = b.consumer
SameTrigger(t, u) == t.producer = u.producer /\ t.consumer = u.consumer

\* MergeConsumeTriggerSlices: a guard counts only if both branches have it.
BothGuarded(a, b) ==
  [a EXCEPT !.guards = @ \cap b.guards, !.matched = @ /\ b.matched]

BothMatched(t, u) == [t EXCEPT !.matched = @ /\ u.matched]

\* The union of both; two members that are the same are replaced by both of them.
MergeInto(left, right) ==
  LET Merged(s, t, Same(_, _), Both(_, _)) ==
        {a \in s : \A b \in t : ~Same(a, b)} \cup {b \in t : \A a \in s : ~Same(a, b)}
          \cup {Both(p[1], p[2]) : p \in {q \in s \X t : Same(q[1], q[2])}}
  IN  [assertions |-> Merged(left.assertions, right.assertions, SameAssertion, BothGuarded),
       triggers |-> Merged(left.triggers, right.triggers, SameTrigger, BothMatched)]

\* The assertions on path and on the expressions below it.
Subtree(root, path) == {a \in root.assertions : IsPrefix(path, a.path)}

LiftFromPath(root, path) ==
  [root EXCEPT !.assertions = {a \in @ : ~IsPrefix(path, a.path)}]

\* The consumers of exactly this path, with their guards.
ConsumersAt(root, path) ==
  {[a EXCEPT !.path = <<>>] : a \in {b \in root.assertions : b.path = path}}

\* A child of the lifted node that equals the node it would land below is not
\* added, so that a loop like a = a.f does not let the tree grow for ever.
IsRepeated(root, lhs, rhs) ==
  LET child == Append(lhs, Last(rhs))
  IN  /\ ConsumersAt(root, child) = ConsumersAt(root, lhs)
      /\ \A a \in Subtree(root, child) : a.path = child

\* The assertions below lhs, moved to rhs.
LandAtPath(root, lhs, rhs) ==
  LET moved == {a \in Subtree(root, lhs) :
                  ~(IsRepeated(root, lhs, rhs) /\ a.path = Append(lhs, Last(rhs)))}
  IN  [assertions |-> {[a EXCEPT !.path = rhs \o SubSeq(@, Len(lhs) + 1, Len(@))] :
                         a \in moved},
       triggers |-> {}]

AddConsumption(root, path, consumer) ==
  MergeInto(root,
    [assertions |-> {[path |-> path, consumer |-> consumer, guards |-> {},
                      matched |-> FALSE]},
     triggers |-> {}])

\* The consumers of the path get the producer, the ones below it the producers
\* that their names have by default.
TriggerProductions(root, assertions, path, producer) ==
  LET Producer(a) == IF a.path = path THEN producer ELSE Default[Last(a.path)]
      found == {[producer |-> Producer(a), consumer |-> a.consumer,
                 matched |-> \A b \in assertions :
                               Producer(b) = Producer(a) /\ b.consumer = a.consumer
                                 => b.matched] : a \in assertions}
  IN  MergeInto([root EXCEPT !.assertions = {a \in @ : a \notin assertions}],
                [assertions |-> {}, triggers |-> found])

\* Mutant: the assertions on the fields of the expression stay in the tree.
AddProductionShallow(root, path, producer) ==
  TriggerProductions(root, {a \in root.assertions : a.path = path}, path, producer)

\* The subtree is removed with its consumers.
AddProduction(root, path, producer) ==
  TriggerProductions(root, Subtree(root, path), path, producer)

AddGuardMatch(root, path, nonce) ==
  [root EXCEPT !.assertions =
     {IF a.path = path /\ nonce \in a.guards THEN [a EXCEPT !.matched = TRUE] ELSE a :
        a \in @}]

\* guardExpr: the consumers of the path are guarded by the nonce.
GuardExpr(root, path, nonce) ==
  [root EXCEPT !.assertions =
     {IF a.path = path THEN [a EXCEPT !.guards = @ \cup {nonce}] ELSE a : a \in @}]

-----------------------------------------------------------------------------
(****************************************************************************)
(* Statements and conditions.                                               *)
(****************************************************************************)

\* The assignment at i has no effect when a strict prefix of its left-hand side
\* is assigned in the same statement, or the same expression further right.
IsShadowed(pairs, i) ==
  \/ \E j \in 1..(i - 1) : IsStrictPrefix(pairs[j].lhs, pairs[i].lhs)
  \/ \E j \in (i + 1)..Len(pairs) : IsPrefix(pairs[j].lhs, pairs[i].lhs)

IsTrackable(pair) == pair.rhs # <<>>

\* Mutant: each assignment lands before the next one is lifted.
BackpropAcrossAssignmentInSequence(root, pairs) ==
  LET Assign(r, pair) ==
        IF IsTrackable(pair)
        THEN MergeInto(LiftFromPath(r, pair.lhs), LandAtPath(r, pair.lhs, pair.rhs))
        ELSE AddProduction(r, pair.lhs, pair.producer)
  IN  FoldLeft(Assign, root, pairs)

\* The left-hand sides that are tracked are all lifted, or produced, before the
\* first one lands.
BackpropAcrossAssignment(root, pairs) ==
  LET Tracked(i) == ~IsShadowed(pairs, i) /\ Subtree(root, pairs[i].lhs) # {}
      indices == SelectSeq([i \in DOMAIN pairs |-> i], Tracked)
      Lift(r, i) ==
        IF IsTrackable(pairs[i]) THEN LiftFromPath(r, pairs[i].lhs)
        ELSE AddProduction(r, pairs[i].lhs, pairs[i].producer)
      Land(r, i) ==
        IF IsTrackable(pairs[i])
        THEN MergeInto(r, LandAtPath(root, pairs[i].lhs, pairs[i].rhs))
        ELSE r
  IN  FoldLeft(Land, FoldLeft(Lift, root, indices), indices)

\* An assignment with a nonce comes from a call, or a map read, whose result is
\* guarded by its last value.
BackpropAcrossNode(root, node) ==
  IF node.kind = "use" THEN AddConsumption(root, node.path, node.consumer)
  ELSE BackpropAcrossAssignment(
         IF node.nonce = None THEN root
         ELSE AddGuardMatch(root, node.pairs[1].lhs, node.nonce), node.pairs)

BackpropAcrossBlock(root, f, b) ==
  IF b = Return(f) THEN root
  ELSE FoldLeft(BackpropAcrossNode, root, Reverse(f.nodes[b]))

\* What a condition says of one branch: a path is not nil, or guarded.
Learn(root, effect) ==
  IF effect.nonce = None THEN AddProduction(root, effect.path, Checked)
  ELSE GuardExpr(root, effect.path, effect.nonce)

Preprocess(root, f, b, branch) ==
  FoldLeft(Learn, root, IF branch = 1 THEN f.ifTrue[b] ELSE f.ifFalse[b])

\* What is left at the entry gets its default producer; a producer that needs a
\* guard match and has none becomes an instance of GuardMissing.
ProcessEntry(root) ==
  LET triggers == TriggerProductions(root, root.assertions, <<>>, None).triggers
  IN  {[producer |-> t.producer, consumer |-> t.consumer, matched |-> t.matched,
        guardMissing |-> t.producer \in Guarded /\ ~t.matched] : t \in triggers}

-----------------------------------------------------------------------------
(****************************************************************************)
(* The rounds.                                                              *)
(****************************************************************************)

Init ==
  /\ function \in Function
  /\ postOrder = ComputePostOrder(function)
  /\ currAssertions = [b \in Blocks(function) |->
                         IF b = Return(function) THEN NewRootAssertionNode ELSE None]
  /\ nextAssertions = [b \in Blocks(function) |-> None]
  /\ updatedLastRound = {Return(function)}
  /\ updatedThisRound = {}
  /\ next = 0
  /\ currTriggers = None
  /\ nextTriggers = None
  /\ roundCount = 0
  /\ stableRoundCount = 0
  /\ stage = "betweenRounds"

StartRound ==
  /\ stage = "betweenRounds" /\ updatedLastRound # {}
  /\ roundCount' = roundCount + 1
  /\ next' = 0
  /\ stage' = "inRound"
  /\ UNCHANGED <<function, postOrder, currAssertions, nextAssertions,
                 updatedLastRound, updatedThisRound, currTriggers, nextTriggers,
                 stableRoundCount>>

\* The context is done: the analysis of the function ends with an error.
Cancel ==
  /\ stage = "betweenRounds" /\ updatedLastRound # {}
  /\ roundCount' = roundCount + 1
  /\ stage' = "cancelled"
  /\ UNCHANGED <<function, postOrder, currAssertions, nextAssertions,
                 updatedLastRound, updatedThisRound, next, currTriggers,
                 nextTriggers, stableRoundCount>>

\* Mutant: only successors that were processed before the block count.
HasUpdatedThisRound(b) ==
  \E i \in DOMAIN Succs(function, b) : Succs(function, b)[i] \in updatedThisRound

HasUpdated(b) ==
  \E i \in DOMAIN Succs(function, b) :
    Succs(function, b)[i] \in updatedThisRound \cup updatedLastRound

\* The successor as processed in this round, if it was, else as of the last one.
Latest(b) == IF nextAssertions[b] # None THEN nextAssertions[b] ELSE currAssertions[b]

\* The trees of the successors that have one, after the branch condition.
SuccNodes(b) ==
  LET succs == Succs(function, b)
      known == SelectSeq([i \in DOMAIN succs |-> i], LAMBDA i : Latest(succs[i]) # None)
  IN  [j \in DOMAIN known |->
         Preprocess(Latest(succs[known[j]]), function, b, known[j])]

SkipBlock(b) ==
  /\ ~HasUpdated(b)
  /\ nextAssertions' = [nextAssertions EXCEPT ![b] = currAssertions[b]]
  /\ UNCHANGED <<updatedThisRound, stage>>

\* That there is no assertion tree for any successor is an internal error.
PropagateBlock(b) ==
  /\ HasUpdated(b)
  /\ LET succs == SuccNodes(b)
         merged == IF Len(succs) = 2 THEN MergeInto(succs[1], succs[2]) ELSE succs[1]
         result == BackpropAcrossBlock(merged, function, b)
     IN  IF succs = <<>>
         THEN stage' = "error" /\ UNCHANGED <<nextAssertions, updatedThisRound>>
         ELSE IF result = currAssertions[b]
         THEN /\ nextAssertions' = [nextAssertions EXCEPT ![b] = result]
              /\ UNCHANGED <<updatedThisRound, stage>>
         ELSE /\ nextAssertions' =
                   [nextAssertions EXCEPT ![b] =
                      IF currAssertions[b] = None THEN result
                      ELSE MergeInto(result, currAssertions[b])]
              /\ updatedThisRound' = updatedThisRound \cup {b}
              /\ UNCHANGED stage

ProcessBlock ==
  /\ stage = "inRound" /\ next < Len(postOrder)
  /\ LET b == postOrder[next + 1]
     IN  SkipBlock(b) \/ PropagateBlock(b)
  /\ next' = next + 1
  /\ UNCHANGED <<function, postOrder, currAssertions, updatedLastRound,
                 currTriggers, nextTriggers, roundCount, stableRoundCount>>

TriggersThisRound ==
  IF nextAssertions[Entry] # None THEN ProcessEntry(nextAssertions[Entry]) ELSE None

\* Mutant: the whole tree at the entry must be stable.
StableRoundsOfTree ==
  IF nextAssertions[Entry] = currAssertions[Entry] THEN stableRoundCount + 1 ELSE 0

StableRounds == IF TriggersThisRound = currTriggers THEN stableRoundCount + 1 ELSE 0

\* checkCFGFixedPointRuntime
MaxRound == (function.size + 1) * (function.size + 1) * 2

\* The triggers at the entry have not changed for StableRoundLimit rounds.
StopStable ==
  /\ stage = "inRound" /\ next = Len(postOrder)
  /\ StableRounds >= StableRoundLimit
  /\ stableRoundCount' = StableRounds
  /\ nextTriggers' = TriggersThisRound
  /\ stage' = "stable"
  /\ UNCHANGED <<function, postOrder, currAssertions, nextAssertions,
                 updatedLastRound, updatedThisRound, next, currTriggers, roundCount>>

\* checkCFGFixedPointRuntime gives up with a panic.
Panic ==
  /\ stage = "inRound" /\ next = Len(postOrder)
  /\ StableRounds < StableRoundLimit /\ roundCount > MaxRound
  /\ stage' = "panic"
  /\ UNCHANGED <<function, postOrder, currAssertions, nextAssertions,
                 updatedLastRound, updatedThisRound, next, currTriggers,
                 nextTriggers, roundCount, stableRoundCount>>

EndRound ==
  /\ stage = "inRound" /\ next = Len(postOrder)
  /\ StableRounds < StableRoundLimit /\ roundCount <= MaxRound
  /\ stableRoundCount' = StableRounds
  /\ currAssertions' = nextAssertions
  /\ nextAssertions' = [b \in Blocks(function) |-> None]
  /\ updatedLastRound' = updatedThisRound
  /\ updatedThisRound' = {}
  /\ currTriggers' = TriggersThisRound
  /\ nextTriggers' = None
  /\ stage' = "betweenRounds"
  /\ UNCHANGED <<function, postOrder, next, roundCount>>

\* No block was updated in the last round.
StopUnchanged ==
  /\ stage = "betweenRounds" /\ updatedLastRound = {}
  /\ stage' = "unchanged"
  /\ UNCHANGED <<function, postOrder, currAssertions, nextAssertions,
                 updatedLastRound, updatedThisRound, next, currTriggers,
                 nextTriggers, roundCount, stableRoundCount>>

Next ==
  \/ StartRound
  \/ Cancel
  \/ ProcessBlock
  \/ StopStable
  \/ Panic
  \/ EndRound
  \/ StopUnchanged

Spec == Init /\ [][Next]_vars

Finished == stage \in {"stable", "unchanged"}

\* The full triggers that BackpropAcrossFunc returns.
Result == IF currTriggers = None THEN {} ELSE currTriggers

=============================================================================
