------------------------------ MODULE FieldClosure ------------------------------
(****************************************************************************)
(* The worklist that closes the field effects of functions over the edges   *)
(* along which they are forwarded (assertion/function/structfieldeffects/   *)
(* effects.go): closeParamFieldSets and closeReturnEffects differ only in   *)
(* what a caller inherits from an effect of its callee.                     *)
(*                                                                          *)
(* The worklist is a set: the order of the slice is that of a map.          *)
(****************************************************************************)
CONSTANTS
  Function,         \* the functions
  Inherit(_, _, _)  \* what a caller inherits along an edge from an effect of the callee

VARIABLES
  edges,    \* the edges of each caller; never changes
  effects,  \* the effects of each function
  work      \* the functions that are in the worklist

\* All that f inherits along its edges, its callees having the effects in from.
Inherited(f, from) ==
  UNION {UNION {Inherit(f, edge, effect) : effect \in from[edge.callee]} : edge \in edges[f]}

\* A range over a map that grows meanwhile may deliver the new entries or not: what
\* f may inherit early along an edge to itself.
Early(f) ==
  UNION {UNION {Inherit(f, edge, effect) : effect \in Inherited(f, effects)} :
           edge \in {e \in edges[f] : e.callee = f}}

Callers(f) == {caller \in Function : \E edge \in edges[caller] : edge.callee = f}

\* The worklist at the start: every function with an edge.
Forwarding == {f \in Function : edges[f] # {}}

VisitOnce(f, early) ==
  LET grown == effects[f] \cup Inherited(f, effects) \cup early
  IN  effects' = [effects EXCEPT ![f] = grown] /\ work' = work \ {f}
VisitAlways(f, early) ==
  LET grown == effects[f] \cup Inherited(f, effects) \cup early
  IN  effects' = [effects EXCEPT ![f] = grown] /\ work' = (work \ {f}) \cup Callers(f)

\* f is taken from the worklist; when its effects grow its callers are put back.
Visit(f, early) ==
  LET grown == effects[f] \cup Inherited(f, effects) \cup early
  IN  /\ effects' = [effects EXCEPT ![f] = grown]
      /\ work' = (work \ {f}) \cup (IF grown = effects[f] THEN {} ELSE Callers(f))

Step == \E f \in work : \E early \in SUBSET Early(f) : Visit(f, early)

Next == Step /\ UNCHANGED edges

-----------------------------------------------------------------------------
(* The closure by itself, for any edges. *)

TypeOK ==
  /\ effects = [f \in Function |-> effects[f]]
  /\ work \subseteq Function
  /\ \A f \in Function : \A edge \in edges[f] : edge.callee \in Function

Init == TypeOK /\ work = Forwarding

Spec == Init /\ [][Next]_<<edges, effects, work>>

\* Every caller has inherited all it can.
Closed(all) == \A f \in Function : Inherited(f, all) \subseteq all[f]

\* When the worklist is empty nothing is missing.
NothingMissing == work = {} => Closed(effects)

\* The effects are not more than some that are closed.
Within(all) == Closed(all) /\ \A f \in Function : effects[f] \subseteq all[f]
=================================================================================
