---------------------------- MODULE InferenceEngine ----------------------------
(****************************************************************************)
(* The inference engine of NilAway (inference/engine.go) analysing one      *)
(* package.                                                                 *)
(*                                                                          *)
(* A full trigger says "if its producer is nil then its consumer must       *)
(* accept nil".  The two ends are annotation sites (parameters, results,    *)
(* fields, ...) or the fixed ends Nil (a producer that is always nilable),  *)
(* Never (a producer that is never nil) and Deref (a consumer that always   *)
(* needs a non-nil value).  The engine keeps, for every site it has seen,   *)
(* either a determined nilability with its explanation or the implication   *)
(* edges of a site that is still undetermined; a newly determined site      *)
(* spreads its value by recursive calls, depth first.                       *)
(*                                                                          *)
(* The Go call stack is explicit: a frame of callStack is one activation of *)
(* observeSiteExplanation that still has controlled triggers to activate or *)
(* edges to walk.  One step of the model is one call of                     *)
(* observeSiteExplanation, made from a loop of the code.                    *)
(****************************************************************************)
EXTENDS Naturals, Sequences, FiniteSets

CONSTANTS
  Site,         \* annotation sites (primitiveSite)
  ReturnStmt,   \* return statements of error returning functions
  Nil,          \* a producer of kind Always
  Never,        \* a producer of kind Never
  Deref,        \* a consumer of kind Always
  Annotated,    \* the fixed end of a constraint that is a syntactic annotation
  None,         \* no controller, no return statement
  Trigger,      \* the full triggers that may occur
  Package       \* the packages that may be analysed

Role == {"plain", "guardMissing", "alwaysSafe", "errorReturn", "nonErrorReturn"}

FullTrigger ==
  [producer : Site \cup {Nil, Never}, consumer : Site \cup {Deref},
   controller : Site \cup {None}, role : Role, at : Site \cup ReturnStmt \cup {None}]

Annotation == [site : Site, nilable : BOOLEAN]

\* The constraint that a syntactic annotation puts on its site.
AnnotationConstraint(a) ==
  [producer |-> IF a.nilable THEN Annotated ELSE a.site,
   consumer |-> IF a.nilable THEN a.site ELSE Annotated,
   controller |-> None, role |-> "plain", at |-> None]

Constraint == Trigger \cup {AnnotationConstraint(a) : a \in Annotation}

Controller == {t.controller : t \in Trigger} \ {None}

ASSUME EndsAssumption ==
  /\ {Nil, Never, Deref, Annotated, None} \cap (Site \cup ReturnStmt) = {}
  /\ Never # Nil /\ None # Deref /\ Annotated \notin {Nil, Never, Deref}

ASSUME TriggerAssumption == Trigger \subseteq FullTrigger

\* duplicateFullTrigger controls only triggers whose consumer is the call-site
\* result of a contracted call; their controller is a call-site parameter.
ASSUME ControlAssumption ==
  \A t \in Trigger : t.controller # None =>
    t.consumer \in Site \ Controller /\ t.role = "plain"

ASSUME PackageAssumption ==
  Package \subseteq [triggers : SUBSET Trigger, annotations : SUBSET Annotation]

VARIABLES
  pkg,          \* the package being analysed; never changes
  nilability,   \* InferredMap.mapping: what is known of each site
  reason,       \* ... the explanation of a determined site
  implicates,   \* ... the edges from an undetermined site, in insertion order
  implicants,   \* ... the edges to an undetermined site, in insertion order
  controlledTriggersBySite,
  callStack,    \* activations of observeSiteExplanation, innermost first
  conflicts,    \* the conflicts handed to the diagnostic engine
  stage,        \* how far accumulation.run and ObservePackage have come
  pending,      \* what the loop of the current stage has still to observe
  observed      \* history: every constraint the engine has taken in

mapping == <<nilability, reason, implicates, implicants>>
vars == <<pkg, mapping, controlledTriggersBySite, callStack, conflicts, stage,
          pending, observed>>

-----------------------------------------------------------------------------
(****************************************************************************)
(* Data.                                                                    *)
(****************************************************************************)

Nilness(val) == IF val THEN "nilable" ELSE "nonnil"

\* An ExplainedBool: the value and the constraints that force it.  The chain
\* of a nilable site leads from the nil source to the site; the chain of a
\* nonnil site leads from the consumer that needs non-nil back to the site.
ExplainedBool == [val : BOOLEAN, chain : Seq(Constraint)]

BecauseShallow(val, t) == [val |-> val, chain |-> <<t>>]
BecauseDeep(e, t) == [val |-> e.val, chain |-> Append(e.chain, t)]

Edge == [site : Site, assertion : Constraint]

Frame == [triggers : SUBSET Trigger, edges : Seq(Edge), explained : ExplainedBool]

\* Calls without work left return at once.
Push(frame, below) ==
  IF frame.triggers = {} /\ frame.edges = <<>> THEN below ELSE <<frame>> \o below

\* Mutant: storing an edge drops the edges stored before it.
StoreEdgeKeepsOne(edges, s, t) == <<[site |-> s, assertion |-> t]>>

\* OrderedMap.Store: a key that is present keeps its place.
StoreEdge(edges, s, t) ==
  LET edge == [site |-> s, assertion |-> t]
  IN  IF \E i \in DOMAIN edges : edges[i].site = s
      THEN [i \in DOMAIN edges |-> IF edges[i].site = s THEN edge ELSE edges[i]]
      ELSE Append(edges, edge)

-----------------------------------------------------------------------------
(****************************************************************************)
(* The implication graph.  Each operator of this section says what one      *)
(* function of the engine does to the mapping, the conflicts and the call   *)
(* stack; below is the call stack without the call itself.                  *)
(****************************************************************************)

StoreDetermined(s, e) ==
  /\ nilability' = [nilability EXCEPT ![s] = Nilness(e.val)]
  /\ reason' = [reason EXCEPT ![s] = e.chain]
  /\ implicates' = [implicates EXCEPT ![s] = <<>>]
  /\ implicants' = [implicants EXCEPT ![s] = <<>>]

\* Mutant: the UndeterminedVal is not created.
StoreImplicationUncreated(from, to, t) ==
  /\ implicates' = [implicates EXCEPT ![from] = StoreEdge(@, to, t)]
  /\ implicants' = [implicants EXCEPT ![to] = StoreEdge(@, from, t)]
  /\ UNCHANGED <<nilability, reason>>

StoreImplication(from, to, t) ==
  /\ nilability' = [nilability EXCEPT ![from] = "undetermined", ![to] = "undetermined"]
  /\ implicates' = [implicates EXCEPT ![from] = StoreEdge(@, to, t)]
  /\ implicants' = [implicants EXCEPT ![to] = StoreEdge(@, from, t)]
  /\ UNCHANGED reason

\* Mutant: a nonnil site is taken for one that may still be determined.
IsDeterminedNilable(s) == nilability[s] = "nilable"

IsDetermined(s) == nilability[s] \in {"nilable", "nonnil"}

\* Mutant: a controller that is determined to be nonnil activates, too.
ActivatedAlways(s, e) == controlledTriggersBySite[s]

\* activateControlledTriggers: only a nilable controller activates, in any order.
Activated(s, e) == IF e.val THEN controlledTriggersBySite[s] ELSE {}

\* Mutant: a nonnil value is not walked backwards.
SpreadForwardOnly(s, e) == IF e.val THEN implicates[s] ELSE <<>>

\* Where the value of an undetermined site spreads: nilable forwards, nonnil backwards.
Spread(s, e) == IF e.val THEN implicates[s] ELSE implicants[s]

\* Mutant: the explanations are not swapped when the site was nonnil before.
OverconstraintUnswapped(s, e) == [nilPath |-> reason[s], nonnilPath |-> e.chain]

\* The chains of an overconstraint conflict at site s, which now also has to be e.
Overconstraint(s, e) ==
  [nilPath |-> IF e.val THEN e.chain ELSE reason[s],
   nonnilPath |-> IF e.val THEN reason[s] ELSE e.chain]

SingleAssertion(t) == [nilPath |-> <<>>, nonnilPath |-> <<t>>]

Conflict == [nilPath : Seq(Constraint), nonnilPath : Seq(Constraint)]

ObserveSiteExplanation(s, e, below) ==
  \/ /\ ~IsDetermined(s)
     /\ StoreDetermined(s, e)
     /\ callStack' = Push([triggers |-> Activated(s, e), edges |-> Spread(s, e),
                           explained |-> e], below)
     /\ UNCHANGED conflicts
  \/ /\ nilability[s] = Nilness(e.val)
     /\ callStack' = below
     /\ UNCHANGED <<mapping, conflicts>>
  \/ /\ nilability[s] = Nilness(~e.val)
     /\ conflicts' = conflicts \cup {Overconstraint(s, e)}
     /\ callStack' = Push([triggers |-> Activated(s, e), edges |-> <<>>,
                           explained |-> e], below)
     /\ UNCHANGED mapping

Explained(s) == [val |-> nilability[s] = "nilable", chain |-> reason[s]]

\* Mutant: a consumer that is already nonnil does not constrain the producer.
ObserveImplicationForward(p, c, t, below) ==
  \/ /\ nilability[p] = "nilable"
     /\ ObserveSiteExplanation(c, BecauseDeep(Explained(p), t), below)
  \/ /\ nilability[p] = "nonnil" \/ (~IsDetermined(p) /\ IsDetermined(c))
     /\ callStack' = below
     /\ UNCHANGED <<mapping, conflicts>>
  \/ /\ ~IsDetermined(p) /\ ~IsDetermined(c)
     /\ StoreImplication(p, c, t)
     /\ callStack' = below
     /\ UNCHANGED conflicts

\* A nilable producer forces the consumer, a nonnil consumer forces the
\* producer, and an edge is kept only between two sites that are still open.
ObserveImplication(p, c, t, below) ==
  \/ /\ nilability[p] = "nilable"
     /\ ObserveSiteExplanation(c, BecauseDeep(Explained(p), t), below)
  \/ /\ ~IsDetermined(p) /\ nilability[c] = "nonnil"
     /\ ObserveSiteExplanation(p, BecauseDeep(Explained(c), t), below)
  \/ /\ nilability[p] = "nonnil" \/ (~IsDetermined(p) /\ nilability[c] = "nilable")
     /\ callStack' = below
     /\ UNCHANGED <<mapping, conflicts>>
  \/ /\ ~IsDetermined(p) /\ ~IsDetermined(c)
     /\ StoreImplication(p, c, t)
     /\ callStack' = below
     /\ UNCHANGED conflicts

BuildFromSingleFullTrigger(t, below) ==
  /\ observed' = observed \cup {t}
  /\ \/ /\ t.producer = Nil /\ t.consumer = Deref
        /\ conflicts' = conflicts \cup {SingleAssertion(t)}
        /\ callStack' = below
        /\ UNCHANGED mapping
     \/ /\ t.producer = Nil /\ t.consumer \in Site
        /\ ObserveSiteExplanation(t.consumer, BecauseShallow(TRUE, t), below)
     \/ /\ t.producer \in Site /\ t.consumer = Deref
        /\ ObserveSiteExplanation(t.producer, BecauseShallow(FALSE, t), below)
     \/ /\ t.producer \in Site /\ t.consumer \in Site
        /\ ObserveImplication(t.producer, t.consumer, t, below)
     \/ /\ t.producer = Never
        /\ callStack' = below
        /\ UNCHANGED <<mapping, conflicts>>

-----------------------------------------------------------------------------
(****************************************************************************)
(* ObservePackage: what becomes of the triggers of the package.             *)
(****************************************************************************)

\* Step 1.  A function is always safe when all its tracked returns are non-nil.
AlwaysSafe(s) ==
  LET returns == {t \in pkg.triggers : t.role = "alwaysSafe" /\ t.consumer = s}
  IN  returns # {} /\ \A t \in returns : t.producer = Never

KeptTriggers ==
  {t \in pkg.triggers : /\ t.role # "alwaysSafe"
                        /\ ~(t.role = "guardMissing" /\ AlwaysSafe(t.at))}

NonErrRetTriggers == {t \in KeptTriggers : t.role = "nonErrorReturn"}
OtherTriggers == KeptTriggers \ NonErrRetTriggers

\* Step 3.  FilterTriggersForErrorReturn with the nilabilities inferred so far:
\* a site that is not determined counts as non-nil.
ErrRetProducers(stmt) ==
  {t.producer : t \in {u \in KeptTriggers : u.role = "errorReturn" /\ u.at = stmt}} \cap Site

\* Mutant: one error value that may be non-nil is enough to drop the results.
ErrorIsNonNilSomewhere(stmt) ==
  \E p \in ErrRetProducers(stmt) : nilability[p] # "nilable"

ErrorIsNonNil(stmt) ==
  /\ ErrRetProducers(stmt) # {}
  /\ \A p \in ErrRetProducers(stmt) : nilability[p] # "nilable"

FilteredTriggers == {t \in NonErrRetTriggers : ~ErrorIsNonNil(t.at)}

BuildPkgInferenceMap(triggers) ==
  /\ controlledTriggersBySite' = [s \in Site |-> {t \in triggers : t.controller = s}]
  /\ pending' = {t \in triggers : t.controller = None}

-----------------------------------------------------------------------------
(****************************************************************************)
(* The state machine.                                                       *)
(****************************************************************************)

\* A new engine that is about to loop over the annotations of the package.
NewEngine ==
  /\ nilability = [s \in Site |-> "absent"]
  /\ reason = [s \in Site |-> <<>>]
  /\ implicates = [s \in Site |-> <<>>]
  /\ implicants = [s \in Site |-> <<>>]
  /\ controlledTriggersBySite = [s \in Site |-> {}]
  /\ callStack = <<>>
  /\ conflicts = {}
  /\ stage = "annotations"
  /\ pending = {AnnotationConstraint(a) : a \in pkg.annotations}
  /\ observed = {}

Init == pkg \in Package /\ NewEngine

Quiescent == callStack = <<>>

\* Mutant: the loop over the annotations mixes up the two nilabilities.
ObserveAnnotationSwapped ==
  /\ stage = "annotations" /\ Quiescent
  /\ \E t \in pending :
       /\ pending' = pending \ {t}
       /\ observed' = observed \cup {t}
       /\ IF t.producer = Annotated
          THEN ObserveSiteExplanation(t.consumer, BecauseShallow(FALSE, t), <<>>)
          ELSE ObserveSiteExplanation(t.producer, BecauseShallow(TRUE, t), <<>>)
  /\ UNCHANGED <<pkg, controlledTriggersBySite, stage>>

\* One iteration of the loop of ObserveAnnotations.
ObserveAnnotation ==
  /\ stage = "annotations" /\ Quiescent
  /\ \E t \in pending :
       /\ pending' = pending \ {t}
       /\ observed' = observed \cup {t}
       /\ IF t.producer = Annotated
          THEN ObserveSiteExplanation(t.consumer, BecauseShallow(TRUE, t), <<>>)
          ELSE ObserveSiteExplanation(t.producer, BecauseShallow(FALSE, t), <<>>)
  /\ UNCHANGED <<pkg, controlledTriggersBySite, stage>>

\* Steps 1 and 2 of ObservePackage, up to the loop of buildPkgInferenceMap.
ObservePackage ==
  /\ stage = "annotations" /\ Quiescent /\ pending = {}
  /\ BuildPkgInferenceMap(OtherTriggers)
  /\ stage' = "otherTriggers"
  /\ UNCHANGED <<pkg, mapping, callStack, conflicts, observed>>

\* One iteration of the loop of buildPkgInferenceMap.
ObserveTrigger ==
  /\ stage \in {"otherTriggers", "nonErrRetTriggers"} /\ Quiescent
  /\ \E t \in pending :
       /\ pending' = pending \ {t}
       /\ BuildFromSingleFullTrigger(t, <<>>)
  /\ UNCHANGED <<pkg, controlledTriggersBySite, stage>>

\* Steps 3 and 4, up to the loop of buildPkgInferenceMap.
ObserveNonErrRet ==
  /\ stage = "otherTriggers" /\ Quiescent /\ pending = {}
  /\ BuildPkgInferenceMap(FilteredTriggers)
  /\ stage' = "nonErrRetTriggers"
  /\ UNCHANGED <<pkg, mapping, callStack, conflicts, observed>>

\* One iteration of the loop of activateControlledTriggers.
ActivateControlled ==
  /\ ~Quiescent
  /\ LET frame == Head(callStack)
     IN  \E t \in frame.triggers :
           BuildFromSingleFullTrigger(
             t, Push([frame EXCEPT !.triggers = @ \ {t}], Tail(callStack)))
  /\ UNCHANGED <<pkg, controlledTriggersBySite, stage, pending>>

\* Mutant: the loop does not go on to the next edge.
PropagateAgain ==
  /\ ~Quiescent
  /\ LET frame == Head(callStack)
         edge == Head(frame.edges)
     IN  /\ frame.triggers = {}
         /\ ObserveSiteExplanation(
              edge.site, BecauseDeep(frame.explained, edge.assertion), callStack)
  /\ UNCHANGED <<pkg, controlledTriggersBySite, stage, pending, observed>>

\* One iteration of a loop over Implicates or Implicants.
Propagate ==
  /\ ~Quiescent
  /\ LET frame == Head(callStack)
         edge == Head(frame.edges)
     IN  /\ frame.triggers = {}
         /\ ObserveSiteExplanation(
              edge.site, BecauseDeep(frame.explained, edge.assertion),
              Push([frame EXCEPT !.edges = Tail(@)], Tail(callStack)))
  /\ UNCHANGED <<pkg, controlledTriggersBySite, stage, pending, observed>>

Finish ==
  /\ stage = "nonErrRetTriggers" /\ Quiescent /\ pending = {}
  /\ stage' = "done"
  /\ UNCHANGED <<pkg, mapping, controlledTriggersBySite, callStack, conflicts,
                 pending, observed>>

\* The engine is not used any more once the package is observed.
Finished == stage = "done" /\ UNCHANGED vars

Next ==
  \/ ObserveAnnotation
  \/ ObservePackage
  \/ ObserveTrigger
  \/ ObserveNonErrRet
  \/ ActivateControlled
  \/ Propagate
  \/ Finish
  \/ Finished

Spec == Init /\ [][Next]_vars

\* The analyzer is sequential code that does not wait for anything.
FairSpec == Spec /\ WF_vars(Next)

-----------------------------------------------------------------------------
(****************************************************************************)
(* What the engine promises.                                                *)
(****************************************************************************)

\* Every variable has its type; an edge list belongs to an undetermined site
\* (StoreImplication creates the UndeterminedVal before it stores the edge) and
\* an explanation to a determined one.
TypeOK ==
  /\ pkg \in [triggers : SUBSET Trigger, annotations : SUBSET Annotation]
  /\ nilability \in [Site -> {"absent", "undetermined", "nilable", "nonnil"}]
  /\ reason \in [Site -> Seq(Constraint)]
  /\ implicates \in [Site -> Seq(Edge)]
  /\ implicants \in [Site -> Seq(Edge)]
  /\ controlledTriggersBySite \in [Site -> SUBSET Trigger]
  /\ callStack \in Seq(Frame)
  /\ conflicts \subseteq Conflict
  /\ stage \in {"annotations", "otherTriggers", "nonErrRetTriggers", "done"}
  /\ pending \subseteq Constraint
  /\ observed \subseteq Constraint
  /\ \A s \in Site :
       /\ nilability[s] # "undetermined" => implicates[s] = <<>> /\ implicants[s] = <<>>
       /\ IsDetermined(s) <=> reason[s] # <<>>

FixedProducer == {Nil, Annotated}
FixedConsumer == {Deref, Annotated}

\* A chain that forces site s to be nilable: it starts at a source of nil, each
\* constraint hands over to the next one, and the last one ends at s.
NilableChain(chain, s) ==
  /\ chain # <<>>
  /\ chain[1].producer \in FixedProducer
  /\ chain[Len(chain)].consumer = s
  /\ \A i \in 1..(Len(chain) - 1) : chain[i].consumer = chain[i + 1].producer

\* A chain that forces site s to be nonnil, from the consumer back to s.
NonnilChain(chain, s) ==
  /\ chain # <<>>
  /\ chain[1].consumer \in FixedConsumer
  /\ chain[Len(chain)].producer = s
  /\ \A i \in 1..(Len(chain) - 1) : chain[i].producer = chain[i + 1].consumer

ChainFor(val, chain, s) == IF val THEN NilableChain(chain, s) ELSE NonnilChain(chain, s)

\* Every conflict that reaches the diagnostic engine is a real nil flow: its two
\* explanations join, constraint by constraint and at one site, to a path from a
\* source of nil to a consumer that needs non-nil, and every constraint on the
\* path was observed in this package (no explanation is mixed up on the way
\* through the recursive calls of observeSiteExplanation).
FlowsAreReal ==
  \A k \in conflicts :
    \/ \E t \in observed : k = SingleAssertion(t) /\ t.producer = Nil /\ t.consumer = Deref
    \/ /\ k.nilPath \in Seq(observed) /\ k.nonnilPath \in Seq(observed)
       /\ \E s \in Site : NilableChain(k.nilPath, s) /\ NonnilChain(k.nonnilPath, s)

\* A nilability assignment (the set of nilable sites) that satisfies constraint t.
Satisfies(N, t) ==
  t.producer \in FixedProducer \/ t.producer \in N => t.consumer \in N

\* The assignments that satisfy all of the constraints.
Solutions(constraints) ==
  {N \in SUBSET Site : \A t \in constraints : Satisfies(N, t)}

\* Whenever the engine is between two triggers, it has recorded a conflict if
\* and only if the constraints observed so far have no solution: no nil flow is
\* missed and none is invented, whatever the order of the triggers, the cycles
\* of the graph, and the sites determined before the edges that use them came.
ErrorsExactlyWhenNilFlow ==
  Quiescent => (conflicts = {} <=> Solutions(observed) # {})

\* Without conflicts, the engine has determined exactly what the constraints
\* force: a site is nilable (nonnil) if and only if it is in every (no) solution.
\* A site left undetermined really is open, so that it may be exported for a
\* downstream package to decide.
DeterminedExactlyWhenForced ==
  Quiescent /\ conflicts = {} =>
    \A s \in Site :
      /\ nilability[s] = "nilable" <=> \A N \in Solutions(observed) : s \in N
      /\ nilability[s] = "nonnil" <=> \A N \in Solutions(observed) : s \notin N

ProducerIsNil(t) ==
  t.producer \in FixedProducer \/ (t.producer \in Site /\ nilability[t.producer] = "nilable")
ConsumerIsNonnil(t) ==
  t.consumer \in FixedConsumer \/ (t.consumer \in Site /\ nilability[t.consumer] = "nonnil")

SameEnds(t, u) == t.producer = u.producer /\ t.consumer = u.consumer

\* The conflict that speaks of t, or of a constraint between the same two sites
\* (an edge of the graph keeps only the last assertion stored for it).
Reports(k, t) ==
  \/ k.nilPath # <<>> /\ SameEnds(k.nilPath[Len(k.nilPath)], t)
  \/ k.nonnilPath # <<>> /\ SameEnds(k.nonnilPath[Len(k.nonnilPath)], t)

\* The edge s -> c is in the graph, seen from both ends.
HasEdge(p, c) ==
  /\ \E i \in DOMAIN implicates[p] : implicates[p][i].site = c
  /\ \E i \in DOMAIN implicants[c] : implicants[c][i].site = p

\* What must have become of an observed constraint when no call is under way: a
\* nilable producer has reached the consumer, a nonnil consumer has reached the
\* producer, a constraint broken in the map is reported, and a constraint
\* between two open sites is an edge that a later value can follow.
AccountedFor(t) ==
  /\ ProducerIsNil(t) /\ t.consumer \in Site => IsDetermined(t.consumer)
  /\ ConsumerIsNonnil(t) /\ t.producer \in Site => IsDetermined(t.producer)
  /\ ProducerIsNil(t) /\ ConsumerIsNonnil(t) => \E k \in conflicts : Reports(k, t)
  /\ (t.producer \in Site /\ t.consumer \in Site /\ ~IsDetermined(t.producer)
        /\ ~IsDetermined(t.consumer)) => HasEdge(t.producer, t.consumer)

\* No observed constraint is forgotten by the engine, also after conflicts: each
\* broken constraint is reported, not only the first one.
EveryConstraintAccountedFor == Quiescent => \A t \in observed : AccountedFor(t)

\* A determined site keeps its value and its explanation, also through a
\* conflict (downstream packages rely on it: inferredValDiff panics when an
\* exported value does not supersede the upstream one), and no site is forgotten.
DeterminedIsFinal ==
  [][\A s \in Site :
       /\ nilability[s] \in {"nilable", "nonnil"} =>
            nilability'[s] = nilability[s] /\ reason'[s] = reason[s]
       /\ nilability[s] = "undetermined" => nilability'[s] # "absent"]_vars

\* A constraint forces the controller of t to be nilable: the map says so, or a
\* conflict at a controller that was nonnil before.
ForcedNilable(s) ==
  \/ nilability[s] = "nilable"
  \/ \E k \in conflicts : k.nilPath # <<>> /\ k.nilPath[Len(k.nilPath)].consumer = s

IsAnnotated(s) == \E a \in pkg.annotations : a.site = s

\* Until the non-error returns are taken up, a controlled trigger is observed
\* as soon as the calls that found its controller nilable have returned, even
\* when that was a conflict, and not before some constraint forces it.  (A
\* controller that an annotation at the call makes nilable is determined before
\* the table of the controlled triggers is built, and activates nothing.)
ControlledExactlyWhenNilable ==
  stage = "otherTriggers" /\ Quiescent =>
    \A t \in OtherTriggers :
      t.controller # None =>
        /\ ForcedNilable(t.controller) /\ ~IsAnnotated(t.controller) => t \in observed
        /\ t \in observed => \A N \in Solutions(observed) : t.controller \in N

\* The filter of the error returns decides by what the other constraints mean,
\* not by the order they came in: a non-error result is dropped only if an error
\* of its return statement comes from an annotation site, and they have a solution
\* in which no such error is nil; it is kept only if there is no such error, or
\* one of them is nil in every solution.  The results themselves may be a conflict.
ErrorContractFollowed ==
  stage = "done" /\ Solutions(observed \ NonErrRetTriggers) # {} =>
    \A t \in NonErrRetTriggers :
      LET Errors == ErrRetProducers(t.at)
          Contexts == Solutions(observed \ NonErrRetTriggers)
      IN  IF t \in observed
          THEN Errors = {} \/ \A N \in Contexts : Errors \cap N # {}
          ELSE Errors # {} /\ \E N \in Contexts : Errors \cap N = {}

\* The walk of the graph ends although the graph may have cycles and conflicts
\* may activate controlled triggers again: every package is finished.
Termination == <>(stage = "done")

=============================================================================
