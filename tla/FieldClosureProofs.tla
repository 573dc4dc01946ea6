---------------------------- MODULE FieldClosureProofs ----------------------------
(****************************************************************************)
(* Whatever the edges are and in whatever order the worklist is emptied,    *)
(* FieldClosure ends with the least effects that contain those it starts    *)
(* with and are closed: it forgets nothing and invents nothing.             *)
(****************************************************************************)
EXTENDS FieldClosure, TLAPS

\* A function that is not in the worklist has nothing left to inherit.
Settled == \A f \in Function \ work : Inherited(f, effects) \subseteq effects[f]

IInv == TypeOK /\ Settled

\* The callees of a function decide what it inherits.
LEMMA SameCallees ==
  ASSUME NEW f, NEW before, NEW after,
         \A edge \in edges[f] : after[edge.callee] = before[edge.callee]
  PROVE  Inherited(f, after) = Inherited(f, before)
BY DEF Inherited

\* More in the callees, more to inherit.
LEMMA Monotone ==
  ASSUME NEW f, NEW less, NEW more,
         \A edge \in edges[f] : less[edge.callee] \subseteq more[edge.callee]
  PROVE  Inherited(f, less) \subseteq Inherited(f, more)
BY DEF Inherited

\* What is inherited early is inherited along an edge of the function to itself.
LEMMA EarlyIsInherited ==
  ASSUME NEW f \in Function, NEW all,
         Inherited(f, effects) \subseteq all[f]
  PROVE  Early(f) \subseteq Inherited(f, all)
BY DEF Early, Inherited

\* Effects stay effects.
LEMMA TypeCorrect == IInv /\ [Next]_<<edges, effects, work>> => TypeOK'
<1> SUFFICES ASSUME IInv, [Next]_<<edges, effects, work>> PROVE TypeOK'
  OBVIOUS
<1>1. CASE UNCHANGED <<edges, effects, work>>
  BY <1>1 DEF IInv, TypeOK
<1>2. ASSUME NEW f \in work, NEW early \in SUBSET Early(f), Visit(f, early), UNCHANGED edges
      PROVE  TypeOK'
  <2>1. f \in Function /\ effects = [h \in Function |-> effects[h]]
    BY DEF IInv, TypeOK
  <2>2. effects' = [h \in Function |-> effects'[h]]
    BY <1>2, <2>1 DEF Visit
  <2>3. work' \subseteq Function
    BY <1>2 DEF IInv, TypeOK, Visit, Callers
  <2> QED
    BY <1>2, <2>2, <2>3 DEF IInv, TypeOK
<1> QED
  BY <1>1, <1>2 DEF Next, Step

\* A function whose callee has grown is in the worklist.
LEMMA StaysSettled == IInv /\ [Next]_<<edges, effects, work>> => Settled'
<1> SUFFICES ASSUME IInv, [Next]_<<edges, effects, work>> PROVE Settled'
  OBVIOUS
<1>1. CASE UNCHANGED <<edges, effects, work>>
  BY <1>1 DEF IInv, Settled, Inherited
<1>2. ASSUME NEW f \in work, NEW early \in SUBSET Early(f), Visit(f, early), UNCHANGED edges,
             NEW g \in Function \ work'
      PROVE  Inherited(g, effects)' \subseteq effects'[g]
  <2> DEFINE grown == effects[f] \cup Inherited(f, effects) \cup early
  <2>1. f \in Function /\ effects = [h \in Function |-> effects[h]]
    BY DEF IInv, TypeOK
  <2>2. effects' = [effects EXCEPT ![f] = grown]
    BY <1>2 DEF Visit
  <2>3. Inherited(g, effects)' = Inherited(g, effects')
    BY <1>2 DEF Inherited
  <2>4. \A edge \in edges[g] : edge.callee \in Function
    BY DEF IInv, TypeOK
  <2>5. \A edge \in edges[g] : effects'[edge.callee] = effects[edge.callee]
    <3>1. CASE grown = effects[f]
      BY <2>1, <2>2, <2>4, <3>1
    <3>2. CASE grown # effects[f]
      <4>1. g \notin Callers(f)
        BY <1>2, <3>2 DEF Visit
      <4>2. \A edge \in edges[g] : edge.callee # f
        BY <4>1 DEF Callers
      <4> QED
        BY <2>1, <2>2, <2>4, <4>2
    <3> QED
      BY <3>1, <3>2
  <2>6. Inherited(g, effects') = Inherited(g, effects)
    BY <2>5, SameCallees
  <2>7. CASE g = f
    BY <2>1, <2>2, <2>3, <2>6, <2>7
  <2>8. CASE g # f
    <3>1. g \in Function \ work
      BY <1>2, <2>8 DEF Visit
    <3>2. Inherited(g, effects) \subseteq effects[g]
      BY <3>1 DEF IInv, Settled
    <3> QED
      BY <2>1, <2>2, <2>3, <2>6, <2>8, <3>2
  <2> QED
    BY <2>7, <2>8
<1> QED
  BY <1>1, <1>2 DEF Next, Step, Settled

\* When closeParamFieldSets or closeReturnEffects has emptied its worklist, every
\* caller has inherited all that its callees have, however calls are nested.
THEOREM NothingForgotten == Spec => []NothingMissing
<1>1. Init => IInv
  BY DEF Init, IInv, Settled, Forwarding, Inherited
<1>2. IInv /\ [Next]_<<edges, effects, work>> => IInv'
  BY TypeCorrect, StaysSettled DEF IInv
<1>3. IInv => NothingMissing
  BY DEF IInv, Settled, NothingMissing, Closed
<1> QED
  BY <1>1, <1>2, <1>3, PTL DEF Spec

\* Nothing is inherited that some closed effects above the first ones do not have:
\* with the other theorem, the result is the least closed one.
THEOREM NothingInvented ==
  ASSUME NEW CONSTANT all
  PROVE  Spec /\ Within(all) => []Within(all)
<1>1. TypeOK /\ Settled /\ [Next]_<<edges, effects, work>> => (TypeOK /\ Settled)'
  BY TypeCorrect, StaysSettled DEF IInv
<1>2. Init => TypeOK /\ Settled
  BY DEF Init, Settled, Forwarding, Inherited
<1>3. TypeOK /\ Within(all) /\ [Next]_<<edges, effects, work>> => Within(all)'
  <2> SUFFICES ASSUME TypeOK, Within(all), [Next]_<<edges, effects, work>> PROVE Within(all)'
    OBVIOUS
  <2>1. CASE UNCHANGED <<edges, effects, work>>
    BY <2>1 DEF Within, Closed, Inherited
  <2>2. ASSUME NEW f \in work, NEW early \in SUBSET Early(f), Visit(f, early), UNCHANGED edges
        PROVE  Within(all)'
    <3>1. f \in Function /\ effects = [h \in Function |-> effects[h]]
      BY DEF TypeOK
    <3>2. Inherited(f, effects) \subseteq all[f]
      <4>1. \A edge \in edges[f] : effects[edge.callee] \subseteq all[edge.callee]
        BY <3>1 DEF TypeOK, Within
      <4>2. Inherited(f, effects) \subseteq Inherited(f, all)
        BY <4>1, Monotone
      <4> QED
        BY <3>1, <4>2 DEF Within, Closed
    <3>3. Early(f) \subseteq all[f]
      BY <3>1, <3>2, EarlyIsInherited DEF Within, Closed
    <3>4. \A g \in Function : effects'[g] \subseteq all[g]
      BY <2>2, <3>1, <3>2, <3>3 DEF Visit, Within
    <3>5. Closed(all)'
      BY <2>2 DEF Within, Closed, Inherited
    <3> QED
      BY <3>4, <3>5 DEF Within
  <2> QED
    BY <2>1, <2>2 DEF Next, Step
<1> QED
  BY <1>1, <1>2, <1>3, PTL DEF Spec
===================================================================================
