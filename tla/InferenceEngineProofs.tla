------------------------- MODULE InferenceEngineProofs -------------------------
(****************************************************************************)
(* Theorems about InferenceEngine, for every value of its constants: any    *)
(* set of sites, any triggers and any package.                              *)
(*                                                                          *)
(* First, types, and that what is determined stays.  Then: the conflicts    *)
(* are exactly the nil flows.  Two invariants carry that proof.             *)
(* GraphReal: every explanation and every edge, in the map and on the call  *)
(* stack, stems from observed constraints, so what they say holds in every  *)
(* solution (soundness).  Settled: every observed constraint has done its   *)
(* work, is stored as an edge, or is awaited by an activation on the call   *)
(* stack (completeness).                                                    *)
(****************************************************************************)
EXTENDS InferenceEngine, SequenceTheorems, TLAPS

-----------------------------------------------------------------------------
(****************************************************************************)
(* Type correctness.  TypeOK is not inductive: an activation on the call    *)
(* stack must have work left (or Propagate takes the head of an empty       *)
(* sequence) and an explanation that is not empty, and what is pending must *)
(* fit the loop of its stage.                                               *)
(****************************************************************************)

SomeExplained == {e \in ExplainedBool : e.chain # <<>>}

LiveFrame ==
  {f \in Frame : f.explained \in SomeExplained /\ (f.triggers # {} \/ f.edges # <<>>)}

MappingType ==
  /\ nilability \in [Site -> {"absent", "undetermined", "nilable", "nonnil"}]
  /\ reason \in [Site -> Seq(Constraint)]
  /\ implicates \in [Site -> Seq(Edge)]
  /\ implicants \in [Site -> Seq(Edge)]
  /\ \A s \in Site :
       /\ nilability[s] # "undetermined" => implicates[s] = <<>> /\ implicants[s] = <<>>
       /\ IsDetermined(s) <=> reason[s] # <<>>

GraphType ==
  /\ MappingType
  /\ callStack \in Seq(LiveFrame)
  /\ conflicts \subseteq Conflict

PendingType ==
  IF stage = "annotations"
  THEN pending \subseteq {AnnotationConstraint(a) : a \in Annotation}
  ELSE pending \subseteq Trigger

\* What the functions of the engine rely on, whoever calls them.
EngineType ==
  /\ pkg \in [triggers : SUBSET Trigger, annotations : SUBSET Annotation]
  /\ GraphType
  /\ controlledTriggersBySite \in [Site -> SUBSET Trigger]
  /\ PendingType
  /\ observed \subseteq Constraint

TypeInv == TypeOK /\ EngineType

\* The steps of the engine.
Work ==
  \/ ObserveAnnotation
  \/ ObservePackage
  \/ ObserveTrigger
  \/ ObserveNonErrRet
  \/ ActivateControlled
  \/ Propagate
  \/ Finish

LEMMA PushType ==
  ASSUME NEW f \in Frame, f.explained \in SomeExplained, NEW below \in Seq(LiveFrame)
  PROVE  Push(f, below) \in Seq(LiveFrame)
<1>1. CASE f.triggers = {} /\ f.edges = <<>>
  BY <1>1 DEF Push
<1>2. CASE ~(f.triggers = {} /\ f.edges = <<>>)
  <2>1. f \in LiveFrame
    BY <1>2 DEF LiveFrame
  <2>2. <<f>> \in Seq(LiveFrame)
    BY <2>1
  <2>3. <<f>> \o below \in Seq(LiveFrame)
    BY <2>2, ConcatProperties
  <2> QED  BY <1>2, <2>3 DEF Push
<1> QED  BY <1>1, <1>2

LEMMA StoreEdgeType ==
  ASSUME NEW edges \in Seq(Edge), NEW s \in Site, NEW t \in Constraint
  PROVE  StoreEdge(edges, s, t) \in Seq(Edge)
<1> DEFINE edge == [site |-> s, assertion |-> t]
<1>1. edge \in Edge
  BY DEF Edge
<1>2. CASE \E i \in DOMAIN edges : edges[i].site = s
  <2> DEFINE new == [i \in DOMAIN edges |-> IF edges[i].site = s THEN edge ELSE edges[i]]
  <2>1. DOMAIN edges = 1..Len(edges) /\ Len(edges) \in Nat
    BY LenProperties
  <2>2. new \in [1..Len(edges) -> Edge]
    BY <1>1, <2>1, ElementOfSeq
  <2>3. new \in Seq(Edge)
    BY <2>1, <2>2, SeqDef
  <2> QED  BY <1>2, <2>3 DEF StoreEdge
<1>3. CASE ~\E i \in DOMAIN edges : edges[i].site = s
  <2>1. Append(edges, edge) \in Seq(Edge)
    BY <1>1, AppendProperties
  <2> QED  BY <1>3, <2>1 DEF StoreEdge
<1> QED  BY <1>2, <1>3

LEMMA BecauseType ==
  ASSUME NEW t \in Constraint
  PROVE  /\ \A val \in BOOLEAN : BecauseShallow(val, t) \in SomeExplained
         /\ \A e \in SomeExplained : BecauseDeep(e, t) \in SomeExplained
<1>1. \A val \in BOOLEAN : BecauseShallow(val, t) \in SomeExplained
  <2> SUFFICES ASSUME NEW val \in BOOLEAN
               PROVE  BecauseShallow(val, t) \in SomeExplained
    OBVIOUS
  <2>1. <<t>> \in Seq(Constraint) /\ <<t>> # <<>>
    OBVIOUS
  <2> QED  BY <2>1 DEF BecauseShallow, SomeExplained, ExplainedBool
<1>2. \A e \in SomeExplained : BecauseDeep(e, t) \in SomeExplained
  <2> SUFFICES ASSUME NEW e \in SomeExplained
               PROVE  BecauseDeep(e, t) \in SomeExplained
    OBVIOUS
  <2>1. e.val \in BOOLEAN /\ e.chain \in Seq(Constraint)
    BY DEF SomeExplained, ExplainedBool
  <2>2. Append(e.chain, t) \in Seq(Constraint) /\ Append(e.chain, t) # <<>>
    BY <2>1, AppendProperties
  <2> QED  BY <2>1, <2>2 DEF BecauseDeep, SomeExplained, ExplainedBool
<1> QED  BY <1>1, <1>2

LEMMA StoreDeterminedType ==
  ASSUME MappingType, NEW s \in Site, NEW e \in SomeExplained, StoreDetermined(s, e)
  PROVE  MappingType'
<1>1. e.val \in BOOLEAN /\ e.chain \in Seq(Constraint) /\ e.chain # <<>>
  BY DEF SomeExplained, ExplainedBool
<1>2. Nilness(e.val) \in {"nilable", "nonnil"}
  BY DEF Nilness
<1>3. nilability' \in [Site -> {"absent", "undetermined", "nilable", "nonnil"}]
  BY <1>2 DEF MappingType, StoreDetermined
<1>4. reason' \in [Site -> Seq(Constraint)]
  BY <1>1 DEF MappingType, StoreDetermined
<1>5. implicates' \in [Site -> Seq(Edge)] /\ implicants' \in [Site -> Seq(Edge)]
  BY DEF MappingType, StoreDetermined
<1>6. ASSUME NEW r \in Site
      PROVE  /\ nilability'[r] # "undetermined" =>
                  implicates'[r] = <<>> /\ implicants'[r] = <<>>
             /\ nilability'[r] \in {"nilable", "nonnil"} <=> reason'[r] # <<>>
  BY <1>1, <1>2 DEF MappingType, StoreDetermined, IsDetermined
<1> QED  BY <1>3, <1>4, <1>5, <1>6 DEF MappingType, IsDetermined

LEMMA StoreImplicationType ==
  ASSUME MappingType, NEW p \in Site, NEW c \in Site, NEW t \in Constraint,
         ~IsDetermined(p), ~IsDetermined(c), StoreImplication(p, c, t)
  PROVE  MappingType'
<1>1. /\ StoreEdge(implicates[p], c, t) \in Seq(Edge)
      /\ StoreEdge(implicants[c], p, t) \in Seq(Edge)
  BY StoreEdgeType DEF MappingType
<1>2. nilability' \in [Site -> {"absent", "undetermined", "nilable", "nonnil"}]
  BY DEF MappingType, StoreImplication
<1>3. implicates' \in [Site -> Seq(Edge)] /\ implicants' \in [Site -> Seq(Edge)]
  BY <1>1 DEF MappingType, StoreImplication
<1>4. ASSUME NEW r \in Site
      PROVE  /\ nilability'[r] # "undetermined" =>
                  implicates'[r] = <<>> /\ implicants'[r] = <<>>
             /\ nilability'[r] \in {"nilable", "nonnil"} <=> reason'[r] # <<>>
  BY DEF MappingType, StoreImplication, IsDetermined
<1> QED  BY <1>2, <1>3, <1>4 DEF MappingType, StoreImplication, IsDetermined

LEMMA ObserveSiteExplanationType ==
  ASSUME MappingType, conflicts \subseteq Conflict,
         NEW s \in Site, NEW e \in SomeExplained, NEW below \in Seq(LiveFrame),
         \A r \in Site : controlledTriggersBySite[r] \subseteq Trigger,
         ObserveSiteExplanation(s, e, below)
  PROVE  GraphType'
<1>1. e \in ExplainedBool /\ e.val \in BOOLEAN /\ e.chain \in Seq(Constraint)
  BY DEF SomeExplained, ExplainedBool
<1>2. reason[s] \in Seq(Constraint) /\ implicates[s] \in Seq(Edge) /\ implicants[s] \in Seq(Edge)
  BY DEF MappingType
<1>3. Activated(s, e) \subseteq Trigger /\ Spread(s, e) \in Seq(Edge)
  BY <1>1, <1>2 DEF Activated, Spread
<1>4. CASE /\ ~IsDetermined(s)
           /\ StoreDetermined(s, e)
           /\ callStack' = Push([triggers |-> Activated(s, e), edges |-> Spread(s, e),
                                 explained |-> e], below)
           /\ UNCHANGED conflicts
  <2>1. [triggers |-> Activated(s, e), edges |-> Spread(s, e), explained |-> e] \in Frame
    BY <1>1, <1>3 DEF Frame
  <2>2. callStack' \in Seq(LiveFrame)
    BY <1>4, <2>1, PushType
  <2>3. MappingType'
    BY <1>4, StoreDeterminedType
  <2> QED  BY <1>4, <2>2, <2>3 DEF GraphType
<1>5. CASE callStack' = below /\ UNCHANGED <<mapping, conflicts>>
  BY <1>5 DEF GraphType, MappingType, IsDetermined, mapping
<1>6. CASE /\ conflicts' = conflicts \cup {Overconstraint(s, e)}
           /\ callStack' = Push([triggers |-> Activated(s, e), edges |-> <<>>,
                                 explained |-> e], below)
           /\ UNCHANGED mapping
  <2>1. [triggers |-> Activated(s, e), edges |-> <<>>, explained |-> e] \in Frame
    BY <1>1, <1>3 DEF Frame
  <2>2. callStack' \in Seq(LiveFrame)
    BY <1>6, <2>1, PushType
  <2>3. Overconstraint(s, e) \in Conflict
    BY <1>1, <1>2 DEF Overconstraint, Conflict
  <2> QED  BY <1>6, <2>2, <2>3 DEF GraphType, MappingType, IsDetermined, mapping
<1> QED  BY <1>4, <1>5, <1>6 DEF ObserveSiteExplanation

LEMMA ExplainedType ==
  ASSUME MappingType, NEW s \in Site, IsDetermined(s)
  PROVE  Explained(s) \in SomeExplained
BY DEF MappingType, Explained, SomeExplained, ExplainedBool

LEMMA ObserveImplicationType ==
  ASSUME MappingType, conflicts \subseteq Conflict,
         NEW p \in Site, NEW c \in Site, NEW t \in Constraint, NEW below \in Seq(LiveFrame),
         \A r \in Site : controlledTriggersBySite[r] \subseteq Trigger,
         ObserveImplication(p, c, t, below)
  PROVE  GraphType'
<1>1. CASE /\ nilability[p] = "nilable"
           /\ ObserveSiteExplanation(c, BecauseDeep(Explained(p), t), below)
  <2>1. BecauseDeep(Explained(p), t) \in SomeExplained
    BY <1>1, ExplainedType, BecauseType DEF IsDetermined
  <2> QED  BY <1>1, <2>1, ObserveSiteExplanationType
<1>2. CASE /\ nilability[c] = "nonnil"
           /\ ObserveSiteExplanation(p, BecauseDeep(Explained(c), t), below)
  <2>1. BecauseDeep(Explained(c), t) \in SomeExplained
    BY <1>2, ExplainedType, BecauseType DEF IsDetermined
  <2> QED  BY <1>2, <2>1, ObserveSiteExplanationType
<1>3. CASE callStack' = below /\ UNCHANGED <<mapping, conflicts>>
  BY <1>3 DEF GraphType, MappingType, IsDetermined, mapping
<1>4. CASE /\ ~IsDetermined(p) /\ ~IsDetermined(c)
           /\ StoreImplication(p, c, t)
           /\ callStack' = below
           /\ UNCHANGED conflicts
  <2>1. MappingType'
    BY <1>4, StoreImplicationType
  <2> QED  BY <1>4, <2>1 DEF GraphType
<1> QED  BY <1>1, <1>2, <1>3, <1>4 DEF ObserveImplication

LEMMA BuildFromSingleFullTriggerType ==
  ASSUME MappingType, conflicts \subseteq Conflict,
         NEW t \in Trigger, NEW below \in Seq(LiveFrame),
         \A r \in Site : controlledTriggersBySite[r] \subseteq Trigger,
         BuildFromSingleFullTrigger(t, below)
  PROVE  GraphType' /\ observed' = observed \cup {t}
<1>1. t \in Constraint
  BY DEF Constraint
<1>2. CASE /\ conflicts' = conflicts \cup {SingleAssertion(t)}
           /\ callStack' = below
           /\ UNCHANGED mapping
  <2>1. SingleAssertion(t) \in Conflict
    BY <1>1 DEF SingleAssertion, Conflict
  <2> QED
    BY <1>2, <2>1 DEF GraphType, MappingType, IsDetermined, mapping, BuildFromSingleFullTrigger
<1>3. CASE /\ t.consumer \in Site
           /\ ObserveSiteExplanation(t.consumer, BecauseShallow(TRUE, t), below)
  <2>1. BecauseShallow(TRUE, t) \in SomeExplained
    BY <1>1, BecauseType
  <2> QED  BY <1>3, <2>1, ObserveSiteExplanationType DEF BuildFromSingleFullTrigger
<1>4. CASE /\ t.producer \in Site
           /\ ObserveSiteExplanation(t.producer, BecauseShallow(FALSE, t), below)
  <2>1. BecauseShallow(FALSE, t) \in SomeExplained
    BY <1>1, BecauseType
  <2> QED  BY <1>4, <2>1, ObserveSiteExplanationType DEF BuildFromSingleFullTrigger
<1>5. CASE /\ t.producer \in Site /\ t.consumer \in Site
           /\ ObserveImplication(t.producer, t.consumer, t, below)
  BY <1>1, <1>5, ObserveImplicationType DEF BuildFromSingleFullTrigger
<1>6. CASE callStack' = below /\ UNCHANGED <<mapping, conflicts>>
  BY <1>6 DEF GraphType, MappingType, IsDetermined, mapping, BuildFromSingleFullTrigger
<1> QED  BY <1>2, <1>3, <1>4, <1>5, <1>6 DEF BuildFromSingleFullTrigger

\* What is left of the innermost activation when a loop has taken its next item.
LEMMA FrameType ==
  ASSUME NEW stack \in Seq(LiveFrame), stack # <<>>
  PROVE  /\ Head(stack) \in LiveFrame
         /\ \A t : Push([Head(stack) EXCEPT !.triggers = @ \ {t}], Tail(stack))
                     \in Seq(LiveFrame)
         /\ Head(stack).triggers = {} =>
              /\ Head(Head(stack).edges) \in Edge
              /\ Push([Head(stack) EXCEPT !.edges = Tail(@)], Tail(stack)) \in Seq(LiveFrame)
<1> DEFINE frame == Head(stack)
<1>1. frame \in LiveFrame /\ Tail(stack) \in Seq(LiveFrame)
  BY HeadTailProperties
<1>2. /\ frame \in Frame /\ frame.explained \in SomeExplained
      /\ frame.edges \in Seq(Edge) /\ frame.triggers \in SUBSET Trigger
      /\ frame.triggers # {} \/ frame.edges # <<>>
  BY <1>1 DEF LiveFrame, Frame
<1>3. ASSUME NEW t
      PROVE  Push([frame EXCEPT !.triggers = @ \ {t}], Tail(stack)) \in Seq(LiveFrame)
  <2>1. /\ [frame EXCEPT !.triggers = @ \ {t}] \in Frame
        /\ [frame EXCEPT !.triggers = @ \ {t}].explained \in SomeExplained
    BY <1>2 DEF Frame
  <2> QED  BY <1>1, <2>1, PushType
<1>4. ASSUME frame.triggers = {}
      PROVE  /\ Head(frame.edges) \in Edge
             /\ Push([frame EXCEPT !.edges = Tail(@)], Tail(stack)) \in Seq(LiveFrame)
  <2>1. Head(frame.edges) \in Edge /\ Tail(frame.edges) \in Seq(Edge)
    BY <1>2, <1>4, HeadTailProperties
  <2>2. /\ [frame EXCEPT !.edges = Tail(@)] \in Frame
        /\ [frame EXCEPT !.edges = Tail(@)].explained \in SomeExplained
    BY <1>2, <2>1 DEF Frame
  <2> QED  BY <1>1, <2>1, <2>2, PushType
<1> QED  BY <1>1, <1>3, <1>4

LEMMA AnnotationConstraintType ==
  ASSUME NEW a \in Annotation
  PROVE  LET t == AnnotationConstraint(a)
         IN  /\ t \in Constraint
             /\ t.producer = Annotated => t.consumer \in Site
             /\ t.producer # Annotated => t.producer \in Site
BY DEF AnnotationConstraint, Annotation, Constraint

LEMMA ObserveAnnotationType ==
  ASSUME EngineType, ObserveAnnotation
  PROVE  GraphType' /\ observed' \subseteq Constraint /\ pending' \subseteq pending
<1>1. PICK t \in pending :
        /\ pending' = pending \ {t}
        /\ observed' = observed \cup {t}
        /\ IF t.producer = Annotated
           THEN ObserveSiteExplanation(t.consumer, BecauseShallow(TRUE, t), <<>>)
           ELSE ObserveSiteExplanation(t.producer, BecauseShallow(FALSE, t), <<>>)
  BY DEF ObserveAnnotation
<1>2. /\ t \in Constraint
      /\ t.producer = Annotated => t.consumer \in Site
      /\ t.producer # Annotated => t.producer \in Site
  BY AnnotationConstraintType DEF EngineType, PendingType, ObserveAnnotation
<1>3. \A val \in BOOLEAN : BecauseShallow(val, t) \in SomeExplained
  BY <1>2, BecauseType
<1>4. <<>> \in Seq(LiveFrame)
  BY EmptySeq
<1>5. /\ MappingType /\ conflicts \subseteq Conflict
      /\ \A r \in Site : controlledTriggersBySite[r] \subseteq Trigger
  BY DEF EngineType, GraphType
<1>6. GraphType'
  <2>1. CASE t.producer = Annotated
    BY <1>1, <1>2, <1>3, <1>4, <1>5, <2>1, ObserveSiteExplanationType
  <2>2. CASE t.producer # Annotated
    BY <1>1, <1>2, <1>3, <1>4, <1>5, <2>2, ObserveSiteExplanationType
  <2> QED  BY <2>1, <2>2
<1> QED  BY <1>1, <1>2, <1>6 DEF EngineType

LEMMA BuildPkgInferenceMapType ==
  ASSUME NEW triggers \in SUBSET Trigger, BuildPkgInferenceMap(triggers)
  PROVE  /\ controlledTriggersBySite' \in [Site -> SUBSET Trigger]
         /\ pending' \subseteq Trigger
BY DEF BuildPkgInferenceMap

LEMMA EngineTypeStep ==
  ASSUME EngineType, Work \/ UNCHANGED vars
  PROVE  EngineType'
<1>1. /\ MappingType /\ conflicts \subseteq Conflict /\ callStack \in Seq(LiveFrame)
      /\ \A r \in Site : controlledTriggersBySite[r] \subseteq Trigger
      /\ <<>> \in Seq(LiveFrame)
  BY EmptySeq DEF EngineType, GraphType
<1>2. KeptTriggers \subseteq Trigger
  BY DEF EngineType, KeptTriggers
<1>3. /\ GraphType' /\ PendingType'
      /\ pkg' \in [triggers : SUBSET Trigger, annotations : SUBSET Annotation]
      /\ controlledTriggersBySite' \in [Site -> SUBSET Trigger]
      /\ observed' \subseteq Constraint
  <2>1. CASE ObserveAnnotation
    BY <2>1, ObserveAnnotationType DEF EngineType, ObserveAnnotation, PendingType
  <2>2. CASE ObservePackage
    <3>1. OtherTriggers \in SUBSET Trigger
      BY <1>2 DEF OtherTriggers
    <3>2. /\ controlledTriggersBySite' \in [Site -> SUBSET Trigger]
          /\ pending' \subseteq Trigger
      BY <2>2, <3>1, BuildPkgInferenceMapType DEF ObservePackage
    <3> QED
      BY <1>1, <2>2, <3>2
      DEF EngineType, ObservePackage, PendingType, GraphType, MappingType, IsDetermined,
          mapping, Constraint
  <2>3. CASE ObserveTrigger
    <3>1. PICK t \in pending : pending' = pending \ {t} /\ BuildFromSingleFullTrigger(t, <<>>)
      BY <2>3 DEF ObserveTrigger
    <3>2. pending \subseteq Trigger /\ stage # "annotations"
      BY <2>3 DEF EngineType, PendingType, ObserveTrigger
    <3>3. GraphType' /\ observed' = observed \cup {t}
      BY <1>1, <3>1, <3>2, BuildFromSingleFullTriggerType
    <3> QED
      BY <2>3, <3>1, <3>2, <3>3 DEF EngineType, ObserveTrigger, PendingType, Constraint
  <2>4. CASE ObserveNonErrRet
    <3>1. FilteredTriggers \in SUBSET Trigger
      BY <1>2 DEF FilteredTriggers, NonErrRetTriggers
    <3>2. /\ controlledTriggersBySite' \in [Site -> SUBSET Trigger]
          /\ pending' \subseteq Trigger
      BY <2>4, <3>1, BuildPkgInferenceMapType DEF ObserveNonErrRet
    <3> QED
      BY <1>1, <2>4, <3>2
      DEF EngineType, ObserveNonErrRet, PendingType, GraphType, MappingType, IsDetermined,
          mapping, Constraint
  <2>5. CASE ActivateControlled
    <3>1. callStack # <<>>
      BY <2>5 DEF ActivateControlled, Quiescent
    <3>2. PICK t \in Head(callStack).triggers :
            BuildFromSingleFullTrigger(
              t, Push([Head(callStack) EXCEPT !.triggers = @ \ {t}], Tail(callStack)))
      BY <2>5 DEF ActivateControlled
    <3>3. t \in Trigger
      BY <1>1, <3>1, FrameType DEF LiveFrame, Frame
    <3>4. Push([Head(callStack) EXCEPT !.triggers = @ \ {t}], Tail(callStack)) \in Seq(LiveFrame)
      BY <1>1, <3>1, FrameType
    <3>5. GraphType' /\ observed' = observed \cup {t}
      BY <1>1, <3>2, <3>3, <3>4, BuildFromSingleFullTriggerType
    <3> QED
      BY <2>5, <3>3, <3>5 DEF EngineType, ActivateControlled, PendingType, Constraint
  <2>6. CASE Propagate
    <3> DEFINE frame == Head(callStack)
               edge == Head(frame.edges)
               below == Push([frame EXCEPT !.edges = Tail(@)], Tail(callStack))
    <3>1. callStack # <<>> /\ frame.triggers = {}
      BY <2>6 DEF Propagate, Quiescent
    <3>2. frame \in LiveFrame /\ edge \in Edge /\ below \in Seq(LiveFrame)
      BY <1>1, <3>1, FrameType
    <3>3. edge.site \in Site /\ BecauseDeep(frame.explained, edge.assertion) \in SomeExplained
      BY <3>2, BecauseType DEF LiveFrame, Edge
    <3>4. ObserveSiteExplanation(edge.site, BecauseDeep(frame.explained, edge.assertion), below)
      BY <2>6 DEF Propagate
    <3>5. GraphType'
      BY <1>1, <3>2, <3>3, <3>4, ObserveSiteExplanationType
    <3> QED
      BY <2>6, <3>5 DEF EngineType, Propagate, PendingType
  <2>7. CASE Finish
    BY <2>7 DEF EngineType, Finish, PendingType, GraphType, MappingType, IsDetermined, mapping
  <2>8. CASE UNCHANGED vars
    BY <2>8 DEF EngineType, vars, PendingType, GraphType, MappingType, IsDetermined, mapping
  <2> QED
    BY <2>1, <2>2, <2>3, <2>4, <2>5, <2>6, <2>7, <2>8 DEF Work
<1> QED  BY <1>3 DEF EngineType

LEMMA TypeInvStep ==
  ASSUME TypeInv, [Next]_vars
  PROVE  TypeInv'
<1>1. EngineType'
  BY EngineTypeStep DEF TypeInv, Next, Work, Finished
<1>2. stage' \in {"annotations", "otherTriggers", "nonErrRetTriggers", "done"}
  BY DEF TypeInv, TypeOK, Next, vars, ObserveAnnotation, ObservePackage, ObserveTrigger,
         ObserveNonErrRet, ActivateControlled, Propagate, Finish, Finished
<1>3. callStack' \in Seq(Frame)
  BY <1>1, SeqMonotonic DEF EngineType, GraphType, LiveFrame
<1>4. pending' \subseteq Constraint
  BY <1>1 DEF EngineType, PendingType, Constraint
<1> QED  BY <1>1, <1>2, <1>3, <1>4 DEF TypeInv, TypeOK, EngineType, GraphType, MappingType

LEMMA TypeInvInit ==
  ASSUME Init
  PROVE  TypeInv
<1>1. pkg \in [triggers : SUBSET Trigger, annotations : SUBSET Annotation]
  BY PackageAssumption DEF Init, NewEngine
<1>2. \A s \in Site : <<>> \in Seq(Constraint) /\ <<>> \in Seq(Edge)
  BY EmptySeq
<1>3. GraphType
  BY <1>2, EmptySeq DEF Init, NewEngine, GraphType, MappingType, IsDetermined
<1>4. pending \subseteq {AnnotationConstraint(a) : a \in Annotation}
  BY <1>1 DEF Init, NewEngine
<1>5. callStack \in Seq(Frame)
  BY EmptySeq DEF Init, NewEngine
<1> QED
  BY <1>1, <1>3, <1>4, <1>5
  DEF Init, NewEngine, TypeInv, TypeOK, EngineType, GraphType, MappingType, PendingType, Constraint

\* The engine's map, its call stack and its conflicts keep their types, for any
\* package: the asserted accesses of engine.go never meet a missing value.
THEOREM TypeCorrect == Spec => []TypeOK
<1>1. Init => TypeInv
  BY TypeInvInit
<1>2. TypeInv /\ [Next]_vars => TypeInv'
  BY TypeInvStep
<1>3. TypeInv => TypeOK
  BY DEF TypeInv
<1> QED  BY <1>1, <1>2, <1>3, PTL DEF Spec

-----------------------------------------------------------------------------
(****************************************************************************)
(* A determined site keeps its value.                                       *)
(****************************************************************************)

Extends ==
  \A s \in Site :
    /\ IsDetermined(s) => nilability'[s] = nilability[s] /\ reason'[s] = reason[s]
    /\ nilability[s] = "undetermined" => nilability'[s] # "absent"

LEMMA UnchangedExtends ==
  ASSUME UNCHANGED mapping
  PROVE  Extends
BY DEF Extends, mapping

LEMMA ObserveSiteExplanationExtends ==
  ASSUME MappingType, NEW s \in Site, NEW e, NEW below, ObserveSiteExplanation(s, e, below)
  PROVE  Extends
<1>1. CASE ~IsDetermined(s) /\ StoreDetermined(s, e)
  <2>1. Nilness(e.val) # "absent"
    BY DEF Nilness
  <2> QED  BY <1>1, <2>1 DEF Extends, StoreDetermined, MappingType, IsDetermined
<1>2. CASE UNCHANGED mapping
  BY <1>2, UnchangedExtends
<1> QED  BY <1>1, <1>2 DEF ObserveSiteExplanation, mapping

LEMMA ObserveImplicationExtends ==
  ASSUME MappingType, NEW p \in Site, NEW c \in Site, NEW t, NEW below,
         ObserveImplication(p, c, t, below)
  PROVE  Extends
<1>1. CASE ~IsDetermined(p) /\ ~IsDetermined(c) /\ StoreImplication(p, c, t)
  BY <1>1 DEF Extends, StoreImplication, MappingType, IsDetermined
<1>2. CASE UNCHANGED mapping
  BY <1>2, UnchangedExtends
<1>3. CASE ObserveSiteExplanation(c, BecauseDeep(Explained(p), t), below)
  BY <1>3, ObserveSiteExplanationExtends
<1>4. CASE ObserveSiteExplanation(p, BecauseDeep(Explained(c), t), below)
  BY <1>4, ObserveSiteExplanationExtends
<1> QED  BY <1>1, <1>2, <1>3, <1>4 DEF ObserveImplication, mapping

LEMMA BuildFromSingleFullTriggerExtends ==
  ASSUME MappingType, NEW t, NEW below, BuildFromSingleFullTrigger(t, below)
  PROVE  Extends
BY UnchangedExtends, ObserveSiteExplanationExtends, ObserveImplicationExtends
   DEF BuildFromSingleFullTrigger, mapping

LEMMA StepExtends ==
  ASSUME EngineType, Work \/ UNCHANGED vars
  PROVE  Extends
<1>1. MappingType
  BY DEF EngineType, GraphType
<1>2. CASE ObserveAnnotation
  <2>1. PICK t \in pending :
          IF t.producer = Annotated
          THEN ObserveSiteExplanation(t.consumer, BecauseShallow(TRUE, t), <<>>)
          ELSE ObserveSiteExplanation(t.producer, BecauseShallow(FALSE, t), <<>>)
    BY <1>2 DEF ObserveAnnotation
  <2>2. /\ t.producer = Annotated => t.consumer \in Site
        /\ t.producer # Annotated => t.producer \in Site
    BY <1>2, AnnotationConstraintType DEF EngineType, PendingType, ObserveAnnotation
  <2> QED  BY <1>1, <2>1, <2>2, ObserveSiteExplanationExtends
<1>3. CASE ObserveTrigger
  BY <1>1, <1>3, BuildFromSingleFullTriggerExtends DEF ObserveTrigger
<1>4. CASE ActivateControlled
  BY <1>1, <1>4, BuildFromSingleFullTriggerExtends DEF ActivateControlled
<1>5. CASE Propagate
  <2>1. callStack \in Seq(LiveFrame) /\ callStack # <<>> /\ Head(callStack).triggers = {}
    BY <1>5 DEF EngineType, GraphType, Propagate, Quiescent
  <2>2. Head(Head(callStack).edges).site \in Site
    BY <2>1, FrameType DEF Edge
  <2> QED  BY <1>1, <1>5, <2>2, ObserveSiteExplanationExtends DEF Propagate
<1>6. CASE UNCHANGED mapping
  BY <1>6, UnchangedExtends
<1> QED
  BY <1>2, <1>3, <1>4, <1>5, <1>6
  DEF Work, ObservePackage, ObserveNonErrRet, Finish, vars

LEMMA WorkKeepsConflicts ==
  ASSUME Work \/ UNCHANGED vars
  PROVE  conflicts \subseteq conflicts'
BY DEF Work, ObserveAnnotation, ObservePackage, ObserveTrigger, ObserveNonErrRet,
       ActivateControlled, Propagate, Finish, BuildFromSingleFullTrigger, ObserveImplication,
       ObserveSiteExplanation, vars

\* A site that is determined keeps its value and its explanation for good, and
\* an undetermined site is never forgotten, whatever conflicts are found.
THEOREM DeterminedStays == Spec => DeterminedIsFinal
<1>1. Init => TypeInv
  BY TypeInvInit
<1>2. TypeInv /\ [Next]_vars => TypeInv'
  BY TypeInvStep
<1>3. TypeInv /\ [Next]_vars =>
        [\A s \in Site :
           /\ nilability[s] \in {"nilable", "nonnil"} =>
                nilability'[s] = nilability[s] /\ reason'[s] = reason[s]
           /\ nilability[s] = "undetermined" => nilability'[s] # "absent"]_vars
  BY StepExtends DEF Extends, IsDetermined, TypeInv, Next, Work, Finished
<1> QED  BY <1>1, <1>2, <1>3, PTL DEF Spec, DeterminedIsFinal

-----------------------------------------------------------------------------
(****************************************************************************)
(* The triggers on the call stack are controlled triggers of the map: if    *)
(* all of these are in a set T, so are all triggers of the activations.     *)
(****************************************************************************)

FrameWithin(T) == {f \in Frame : f.triggers \subseteq T}

LEMMA PushIn ==
  ASSUME NEW S, NEW f \in S, NEW below \in Seq(S)
  PROVE  Push(f, below) \in Seq(S)
<1>1. <<f>> \in Seq(S)
  OBVIOUS
<1>2. <<f>> \o below \in Seq(S)
  BY <1>1, ConcatProperties
<1> QED  BY <1>2 DEF Push

LEMMA ObserveSiteExplanationWithin ==
  ASSUME MappingType, NEW T \in SUBSET Trigger,
         \A r \in Site : controlledTriggersBySite[r] \subseteq T,
         NEW s \in Site, NEW e \in SomeExplained, NEW below \in Seq(FrameWithin(T)),
         ObserveSiteExplanation(s, e, below)
  PROVE  callStack' \in Seq(FrameWithin(T))
<1>1. Spread(s, e) \in Seq(Edge) /\ <<>> \in Seq(Edge) /\ Activated(s, e) \subseteq T
  BY EmptySeq DEF Spread, Activated, MappingType
<1>2. \A edges \in Seq(Edge) :
        [triggers |-> Activated(s, e), edges |-> edges, explained |-> e] \in FrameWithin(T)
  BY <1>1 DEF FrameWithin, Frame, SomeExplained
<1> QED  BY <1>1, <1>2, PushIn DEF ObserveSiteExplanation

LEMMA ObserveImplicationWithin ==
  ASSUME MappingType, NEW T \in SUBSET Trigger,
         \A r \in Site : controlledTriggersBySite[r] \subseteq T,
         NEW p \in Site, NEW c \in Site, NEW t \in Constraint, NEW below \in Seq(FrameWithin(T)),
         ObserveImplication(p, c, t, below)
  PROVE  callStack' \in Seq(FrameWithin(T))
<1>1. CASE /\ nilability[p] = "nilable"
           /\ ObserveSiteExplanation(c, BecauseDeep(Explained(p), t), below)
  <2>1. BecauseDeep(Explained(p), t) \in SomeExplained
    BY <1>1, ExplainedType, BecauseType DEF IsDetermined
  <2> QED  BY <1>1, <2>1, ObserveSiteExplanationWithin
<1>2. CASE /\ nilability[c] = "nonnil"
           /\ ObserveSiteExplanation(p, BecauseDeep(Explained(c), t), below)
  <2>1. BecauseDeep(Explained(c), t) \in SomeExplained
    BY <1>2, ExplainedType, BecauseType DEF IsDetermined
  <2> QED  BY <1>2, <2>1, ObserveSiteExplanationWithin
<1>3. CASE callStack' = below
  BY <1>3
<1> QED  BY <1>1, <1>2, <1>3 DEF ObserveImplication

LEMMA BuildFromSingleFullTriggerWithin ==
  ASSUME MappingType, NEW T \in SUBSET Trigger,
         \A r \in Site : controlledTriggersBySite[r] \subseteq T,
         NEW t \in Constraint, NEW below \in Seq(FrameWithin(T)),
         BuildFromSingleFullTrigger(t, below)
  PROVE  callStack' \in Seq(FrameWithin(T))
<1>1. \A val \in BOOLEAN : BecauseShallow(val, t) \in SomeExplained
  BY BecauseType
<1> QED
  BY <1>1, ObserveSiteExplanationWithin, ObserveImplicationWithin DEF BuildFromSingleFullTrigger

LEMMA WorkWithin ==
  ASSUME EngineType, Work \/ UNCHANGED vars, NEW T \in SUBSET Trigger,
         \A r \in Site : controlledTriggersBySite[r] \subseteq T,
         callStack \in Seq(FrameWithin(T))
  PROVE  /\ callStack' \in Seq(FrameWithin(T))
         /\ observed' \subseteq observed \cup pending \cup T
<1>1. /\ MappingType /\ callStack \in Seq(LiveFrame)
      /\ <<>> \in Seq(FrameWithin(T))
  BY EmptySeq DEF EngineType, GraphType
<1>2. pending \subseteq Constraint
  BY AnnotationConstraintType DEF EngineType, PendingType, Constraint
<1>3. CASE ObserveAnnotation
  <2>1. PICK t \in pending :
          /\ observed' = observed \cup {t}
          /\ IF t.producer = Annotated
             THEN ObserveSiteExplanation(t.consumer, BecauseShallow(TRUE, t), <<>>)
             ELSE ObserveSiteExplanation(t.producer, BecauseShallow(FALSE, t), <<>>)
    BY <1>3 DEF ObserveAnnotation
  <2>2. /\ t.producer = Annotated => t.consumer \in Site
        /\ t.producer # Annotated => t.producer \in Site
        /\ \A val \in BOOLEAN : BecauseShallow(val, t) \in SomeExplained
    BY <1>2, <1>3, AnnotationConstraintType, BecauseType
    DEF EngineType, PendingType, ObserveAnnotation
  <2> QED  BY <1>1, <2>1, <2>2, ObserveSiteExplanationWithin
<1>4. CASE ObserveTrigger
  <2>1. PICK t \in pending : BuildFromSingleFullTrigger(t, <<>>)
    BY <1>4 DEF ObserveTrigger
  <2>2. observed' = observed \cup {t}
    BY <2>1 DEF BuildFromSingleFullTrigger
  <2> QED  BY <1>1, <1>2, <2>1, <2>2, BuildFromSingleFullTriggerWithin
<1>5. CASE ActivateControlled
  <2> DEFINE frame == Head(callStack)
  <2>1. callStack # <<>>
    BY <1>5 DEF ActivateControlled, Quiescent
  <2>2. PICK t \in frame.triggers :
          BuildFromSingleFullTrigger(t, Push([frame EXCEPT !.triggers = @ \ {t}], Tail(callStack)))
    BY <1>5 DEF ActivateControlled
  <2>3. frame \in FrameWithin(T) /\ Tail(callStack) \in Seq(FrameWithin(T))
    BY <2>1, HeadTailProperties
  <2>4. [frame EXCEPT !.triggers = @ \ {t}] \in FrameWithin(T) /\ t \in T
    BY <2>3 DEF FrameWithin, Frame
  <2>5. Push([frame EXCEPT !.triggers = @ \ {t}], Tail(callStack)) \in Seq(FrameWithin(T))
    BY <2>3, <2>4, PushIn
  <2>6. t \in Constraint /\ observed' = observed \cup {t}
    BY <2>2, <2>4 DEF Constraint, BuildFromSingleFullTrigger
  <2> QED  BY <1>1, <2>2, <2>4, <2>5, <2>6, BuildFromSingleFullTriggerWithin
<1>6. CASE Propagate
  <2> DEFINE frame == Head(callStack)
             edge == Head(frame.edges)
             rest == [frame EXCEPT !.edges = Tail(@)]
  <2>1. callStack # <<>> /\ frame.triggers = {}
    BY <1>6 DEF Propagate, Quiescent
  <2>2. frame \in LiveFrame /\ edge \in Edge /\ Tail(callStack) \in Seq(FrameWithin(T))
    BY <1>1, <2>1, FrameType, HeadTailProperties
  <2>3. Tail(frame.edges) \in Seq(Edge)
    BY <2>1, <2>2, HeadTailProperties DEF LiveFrame, Frame
  <2>4. rest \in FrameWithin(T)
    BY <2>1, <2>2, <2>3 DEF FrameWithin, LiveFrame, Frame
  <2>5. Push(rest, Tail(callStack)) \in Seq(FrameWithin(T))
    BY <2>2, <2>4, PushIn
  <2>6. edge.site \in Site /\ BecauseDeep(frame.explained, edge.assertion) \in SomeExplained
    BY <2>2, BecauseType DEF LiveFrame, Edge
  <2>7. /\ ObserveSiteExplanation(edge.site, BecauseDeep(frame.explained, edge.assertion),
                                  Push(rest, Tail(callStack)))
        /\ observed' = observed
    BY <1>6 DEF Propagate
  <2> QED  BY <1>1, <2>5, <2>6, <2>7, ObserveSiteExplanationWithin
<1>7. CASE UNCHANGED <<callStack, observed>>
  BY <1>7
<1> QED
  BY <1>3, <1>4, <1>5, <1>6, <1>7
  DEF Work, ObservePackage, ObserveNonErrRet, Finish, vars


-----------------------------------------------------------------------------
(****************************************************************************)
(* Chains of constraints.                                                   *)
(****************************************************************************)

Forced(val, s, obs) == \A N \in Solutions(obs) : s \in N <=> val

RealExplanation(e, s, obs) ==
  /\ ChainFor(e.val, e.chain, s)
  /\ e.chain \in Seq(obs)
  /\ Forced(e.val, s, obs)

\* The edge leads from site s (val) or to site s (~val).
RealEdge(x, val, s, obs) ==
  /\ x.assertion \in obs
  /\ x.assertion.producer = IF val THEN s ELSE x.site
  /\ x.assertion.consumer = IF val THEN x.site ELSE s

RealFrame(obs) ==
  {f \in LiveFrame :
     \E s \in Site :
       /\ RealExplanation(f.explained, s, obs)
       /\ \A i \in DOMAIN f.edges : RealEdge(f.edges[i], f.explained.val, s, obs)}

RealConflict(k, obs) ==
  /\ \/ \E t \in obs : k = SingleAssertion(t) /\ t.producer = Nil /\ t.consumer = Deref
     \/ /\ k.nilPath \in Seq(obs) /\ k.nonnilPath \in Seq(obs)
        /\ \E s \in Site : NilableChain(k.nilPath, s) /\ NonnilChain(k.nonnilPath, s)
  /\ Solutions(obs) = {}

GraphReal(obs) ==
  /\ \A s \in Site : IsDetermined(s) => RealExplanation(Explained(s), s, obs)
  /\ \A s \in Site : \A i \in DOMAIN implicates[s] : RealEdge(implicates[s][i], TRUE, s, obs)
  /\ \A s \in Site : \A i \in DOMAIN implicants[s] : RealEdge(implicants[s][i], FALSE, s, obs)
  /\ \A k \in conflicts : RealConflict(k, obs)

LEMMA SolutionsMonotone ==
  ASSUME NEW obs, NEW more, obs \subseteq more
  PROVE  Solutions(more) \subseteq Solutions(obs)
BY DEF Solutions

LEMMA RealExplanationMonotone ==
  ASSUME NEW obs, NEW more, obs \subseteq more, NEW e, NEW s, RealExplanation(e, s, obs)
  PROVE  RealExplanation(e, s, more)
BY SolutionsMonotone, SeqMonotonic DEF RealExplanation, Forced

LEMMA RealFrameMonotone ==
  ASSUME NEW obs, NEW more, obs \subseteq more
  PROVE  RealFrame(obs) \subseteq RealFrame(more)
<1> SUFFICES ASSUME NEW f \in RealFrame(obs)
             PROVE  f \in RealFrame(more)
  OBVIOUS
<1>1. PICK s \in Site :
        /\ RealExplanation(f.explained, s, obs)
        /\ \A i \in DOMAIN f.edges : RealEdge(f.edges[i], f.explained.val, s, obs)
  BY DEF RealFrame
<1>2. RealExplanation(f.explained, s, more)
  BY <1>1, RealExplanationMonotone
<1>3. \A i \in DOMAIN f.edges : RealEdge(f.edges[i], f.explained.val, s, more)
  BY <1>1 DEF RealEdge
<1> QED  BY <1>2, <1>3 DEF RealFrame

LEMMA GraphRealMonotone ==
  ASSUME NEW obs, NEW more, obs \subseteq more, GraphReal(obs)
  PROVE  GraphReal(more)
<1>1. \A s \in Site : IsDetermined(s) => RealExplanation(Explained(s), s, more)
  BY RealExplanationMonotone DEF GraphReal
<1>2. \A s \in Site : \A i \in DOMAIN implicates[s] : RealEdge(implicates[s][i], TRUE, s, more)
  BY DEF GraphReal, RealEdge
<1>3. \A s \in Site : \A i \in DOMAIN implicants[s] : RealEdge(implicants[s][i], FALSE, s, more)
  BY DEF GraphReal, RealEdge
<1>4. \A k \in conflicts : RealConflict(k, more)
  BY SolutionsMonotone, SeqMonotonic DEF GraphReal, RealConflict
<1> QED  BY <1>1, <1>2, <1>3, <1>4 DEF GraphReal

\* A constraint that ends at a site and starts or ends at a fixed end.
LEMMA ShallowReal ==
  ASSUME NEW obs \in SUBSET Constraint, NEW t \in obs, NEW s \in Site, NEW val \in BOOLEAN,
         val => t.producer \in FixedProducer /\ t.consumer = s,
         ~val => t.consumer \in FixedConsumer /\ t.producer = s
  PROVE  RealExplanation(BecauseShallow(val, t), s, obs)
<1>1. <<t>> \in Seq(obs) /\ Len(<<t>>) = 1 /\ <<t>>[1] = t /\ <<t>> # <<>>
  OBVIOUS
<1>2. ChainFor(val, <<t>>, s)
  BY <1>1 DEF ChainFor, NilableChain, NonnilChain
<1>3. Forced(val, s, obs)
  BY EndsAssumption DEF Forced, Solutions, Satisfies, FixedProducer, FixedConsumer
<1> QED  BY <1>1, <1>2, <1>3 DEF BecauseShallow, RealExplanation

\* A value follows a constraint from one site to another.
LEMMA DeepReal ==
  ASSUME NEW obs \in SUBSET Constraint, NEW t \in obs,
         NEW r \in Site, NEW s \in Site, NEW e \in SomeExplained, RealExplanation(e, r, obs),
         e.val => t.producer = r /\ t.consumer = s,
         ~e.val => t.consumer = r /\ t.producer = s
  PROVE  RealExplanation(BecauseDeep(e, t), s, obs)
<1> DEFINE chain == Append(e.chain, t)
<1>1. e.val \in BOOLEAN /\ e.chain \in Seq(obs) /\ e.chain # <<>>
  BY DEF SomeExplained, ExplainedBool, RealExplanation
<1>2. /\ chain \in Seq(obs) /\ chain # <<>> /\ Len(chain) = Len(e.chain) + 1
      /\ \A i \in 1..Len(e.chain) : chain[i] = e.chain[i]
      /\ chain[Len(e.chain) + 1] = t
      /\ Len(e.chain) \in Nat \ {0}
  BY <1>1, AppendProperties, EmptySeq
<1>3. ChainFor(e.val, chain, s)
  <2>1. CASE e.val
    <3>1. NilableChain(e.chain, r)
      BY <2>1 DEF RealExplanation, ChainFor
    <3>2. \A i \in 1..(Len(chain) - 1) : chain[i].consumer = chain[i + 1].producer
      <4> SUFFICES ASSUME NEW i \in 1..Len(e.chain)
                   PROVE  chain[i].consumer = chain[i + 1].producer
        BY <1>2
      <4>1. CASE i = Len(e.chain)
        BY <1>2, <2>1, <3>1, <4>1 DEF NilableChain
      <4>2. CASE i # Len(e.chain)
        <5>1. i \in 1..(Len(e.chain) - 1) /\ i + 1 \in 1..Len(e.chain)
          BY <1>2, <4>2
        <5> QED  BY <1>2, <3>1, <5>1 DEF NilableChain
      <4> QED  BY <4>1, <4>2
    <3>3. chain[1].producer \in FixedProducer /\ chain[Len(chain)].consumer = s
      BY <1>2, <2>1, <3>1 DEF NilableChain
    <3> QED  BY <1>2, <2>1, <3>2, <3>3 DEF ChainFor, NilableChain
  <2>2. CASE ~e.val
    <3>1. NonnilChain(e.chain, r)
      BY <2>2 DEF RealExplanation, ChainFor
    <3>2. \A i \in 1..(Len(chain) - 1) : chain[i].producer = chain[i + 1].consumer
      <4> SUFFICES ASSUME NEW i \in 1..Len(e.chain)
                   PROVE  chain[i].producer = chain[i + 1].consumer
        BY <1>2
      <4>1. CASE i = Len(e.chain)
        BY <1>2, <2>2, <3>1, <4>1 DEF NonnilChain
      <4>2. CASE i # Len(e.chain)
        <5>1. i \in 1..(Len(e.chain) - 1) /\ i + 1 \in 1..Len(e.chain)
          BY <1>2, <4>2
        <5> QED  BY <1>2, <3>1, <5>1 DEF NonnilChain
      <4> QED  BY <4>1, <4>2
    <3>3. chain[1].consumer \in FixedConsumer /\ chain[Len(chain)].producer = s
      BY <1>2, <2>2, <3>1 DEF NonnilChain
    <3> QED  BY <1>2, <2>2, <3>2, <3>3 DEF ChainFor, NonnilChain
  <2> QED  BY <2>1, <2>2
<1>4. Forced(e.val, s, obs)
  <2> SUFFICES ASSUME NEW N \in Solutions(obs)
               PROVE  s \in N <=> e.val
    BY DEF Forced
  <2>1. (r \in N <=> e.val) /\ Satisfies(N, t)
    BY DEF RealExplanation, Forced, Solutions
  <2> QED  BY <1>1, <2>1 DEF Satisfies
<1> QED  BY <1>2, <1>3, <1>4 DEF BecauseDeep, RealExplanation

-----------------------------------------------------------------------------
(****************************************************************************)
(* Controlled triggers that an activation on the call stack has still to    *)
(* activate, and what a call makes of them.                                 *)
(****************************************************************************)

Waiting(t, stack) == \E i \in DOMAIN stack : t \in stack[i].triggers

\* A call forgets no trigger; those it adds to the stack have a controller that
\* is forced to be nilable; and it adds those of a controller it finds nilable.
Activates(obs, below) ==
  /\ \A t : Waiting(t, below) => Waiting(t, callStack') \/ t \in observed'
  /\ \A t : Waiting(t, callStack') =>
       Waiting(t, below) \/ \E s \in Site : t \in controlledTriggersBySite[s] /\ Forced(TRUE, s, obs)
  /\ \A s \in Site : ForcedNilable(s)' =>
       ForcedNilable(s) \/ \A t \in controlledTriggersBySite[s] : Waiting(t, callStack')

LEMMA PushWaiting ==
  ASSUME NEW f \in Frame, f.explained \in SomeExplained, NEW below \in Seq(LiveFrame)
  PROVE  \A t : Waiting(t, Push(f, below)) <=> t \in f.triggers \/ Waiting(t, below)
<1>1. CASE f.triggers = {} /\ f.edges = <<>>
  BY <1>1 DEF Push
<1>2. CASE ~(f.triggers = {} /\ f.edges = <<>>)
  <2>1. f \in LiveFrame /\ Push(f, below) = <<f>> \o below
    BY <1>2 DEF LiveFrame, Push
  <2>2. <<f>> \in Seq(LiveFrame) /\ Len(<<f>>) = 1 /\ <<f>>[1] = f
    BY <2>1
  <2>3. Len(below) \in Nat /\ DOMAIN below = 1..Len(below)
    BY LenProperties
  <2> DEFINE stack == <<f>> \o below
  <2>4. /\ DOMAIN stack = 1..(Len(below) + 1)
        /\ stack[1] = f
        /\ \A i \in DOMAIN below : stack[i + 1] = below[i]
    BY <2>2, <2>3, ConcatProperties, LenProperties
  <2> HIDE DEF stack
  <2>5. /\ \A i \in DOMAIN below : i + 1 \in DOMAIN stack
        /\ \A i \in DOMAIN stack : i = 1 \/ (i - 1 \in DOMAIN below /\ stack[i] = below[i - 1])
        /\ 1 \in DOMAIN stack
    BY <2>3, <2>4
  <2>6. \A t : Waiting(t, stack) <=> t \in f.triggers \/ Waiting(t, below)
    BY <2>4, <2>5 DEF Waiting
  <2> QED  BY <2>1, <2>6 DEF stack
<1> QED  BY <1>1, <1>2

LEMMA TailWaiting ==
  ASSUME NEW stack \in Seq(LiveFrame), stack # <<>>
  PROVE  \A t : Waiting(t, stack) <=> t \in Head(stack).triggers \/ Waiting(t, Tail(stack))
<1> DEFINE below == Tail(stack)
<1>1. /\ Head(stack) = stack[1] /\ below \in Seq(LiveFrame)
      /\ Len(below) = Len(stack) - 1 /\ Len(stack) \in Nat \ {0}
      /\ DOMAIN stack = 1..Len(stack) /\ DOMAIN below = 1..Len(below)
      /\ \A i \in 1..Len(below) : below[i] = stack[i + 1]
  BY HeadTailProperties, LenProperties, EmptySeq
<1> HIDE DEF below
<1>2. /\ \A i \in DOMAIN below : i + 1 \in DOMAIN stack /\ below[i] = stack[i + 1]
      /\ \A i \in DOMAIN stack : i = 1 \/ (i - 1 \in DOMAIN below /\ stack[i] = below[i - 1])
      /\ 1 \in DOMAIN stack
  BY <1>1
<1>3. \A t : Waiting(t, stack) <=> t \in Head(stack).triggers \/ Waiting(t, below)
  BY <1>1, <1>2 DEF Waiting
<1> QED  BY <1>3 DEF below

\* A loop that takes an item drops no trigger but the one it takes.
LEMMA RestWaiting ==
  ASSUME NEW stack \in Seq(LiveFrame), stack # <<>>, NEW t
  PROVE  LET frame == Head(stack)
         IN  /\ \A u : Waiting(t, Push([frame EXCEPT !.triggers = @ \ {u}], Tail(stack))) \/ t = u
                      <=> Waiting(t, stack) \/ t = u
             /\ frame.triggers = {} =>
                  (Waiting(t, Push([frame EXCEPT !.edges = Tail(@)], Tail(stack)))
                      <=> Waiting(t, stack))
<1> DEFINE frame == Head(stack)
<1>1. /\ frame \in Frame /\ frame.explained \in SomeExplained
      /\ frame.edges \in Seq(Edge) /\ frame.triggers \in SUBSET Trigger
      /\ frame.triggers # {} \/ frame.edges # <<>>
      /\ Tail(stack) \in Seq(LiveFrame)
  BY HeadTailProperties DEF LiveFrame, Frame
<1>2. ASSUME NEW u
      PROVE  Waiting(t, Push([frame EXCEPT !.triggers = @ \ {u}], Tail(stack))) \/ t = u
               <=> Waiting(t, stack) \/ t = u
  <2> DEFINE rest == [frame EXCEPT !.triggers = @ \ {u}]
  <2>1. /\ rest \in Frame /\ rest.explained \in SomeExplained
        /\ rest.triggers = frame.triggers \ {u}
    BY <1>1 DEF Frame
  <2>2. Waiting(t, Push(rest, Tail(stack))) <=> t \in rest.triggers \/ Waiting(t, Tail(stack))
    BY <1>1, <2>1, PushWaiting
  <2> QED  BY <2>1, <2>2, TailWaiting
<1>3. ASSUME frame.triggers = {}
      PROVE  Waiting(t, Push([frame EXCEPT !.edges = Tail(@)], Tail(stack))) <=> Waiting(t, stack)
  <2> DEFINE rest == [frame EXCEPT !.edges = Tail(@)]
  <2>1. Tail(frame.edges) \in Seq(Edge)
    BY <1>1, <1>3, HeadTailProperties
  <2>2. /\ rest \in Frame /\ rest.explained \in SomeExplained /\ rest.triggers = {}
    BY <1>1, <1>3, <2>1 DEF Frame
  <2>3. Waiting(t, Push(rest, Tail(stack))) <=> t \in rest.triggers \/ Waiting(t, Tail(stack))
    BY <1>1, <2>2, PushWaiting
  <2> QED  BY <1>3, <2>2, <2>3, TailWaiting
<1> QED  BY <1>2, <1>3

-----------------------------------------------------------------------------
(****************************************************************************)
(* Soundness: GraphReal is kept by each function of the engine.             *)
(****************************************************************************)

LEMMA PushReal ==
  ASSUME NEW obs, NEW f \in Frame, f.explained \in SomeExplained, NEW s \in Site,
         RealExplanation(f.explained, s, obs),
         \A i \in DOMAIN f.edges : RealEdge(f.edges[i], f.explained.val, s, obs),
         NEW below \in Seq(RealFrame(obs))
  PROVE  Push(f, below) \in Seq(RealFrame(obs))
<1>1. CASE f.triggers = {} /\ f.edges = <<>>
  BY <1>1 DEF Push
<1>2. CASE ~(f.triggers = {} /\ f.edges = <<>>)
  <2>1. f \in RealFrame(obs)
    BY <1>2 DEF RealFrame, LiveFrame
  <2>2. <<f>> \in Seq(RealFrame(obs))
    BY <2>1
  <2>3. <<f>> \o below \in Seq(RealFrame(obs))
    BY <2>2, ConcatProperties
  <2> QED  BY <1>2, <2>3 DEF Push
<1> QED  BY <1>1, <1>2

LEMMA ObserveSiteExplanationReal ==
  ASSUME MappingType, NEW obs \in SUBSET Constraint, GraphReal(obs),
         \A r \in Site : controlledTriggersBySite[r] \subseteq Trigger,
         NEW s \in Site, NEW e \in SomeExplained, RealExplanation(e, s, obs),
         NEW below \in Seq(RealFrame(obs)),
         ObserveSiteExplanation(s, e, below)
  PROVE  /\ GraphReal(obs)' /\ callStack' \in Seq(RealFrame(obs))
         /\ Activates(obs, below)
<1>1. e \in ExplainedBool /\ e.val \in BOOLEAN /\ e.chain \in Seq(Constraint)
  BY DEF SomeExplained, ExplainedBool
<1>2. implicates[s] \in Seq(Edge) /\ implicants[s] \in Seq(Edge)
  BY DEF MappingType
<1>3. Activated(s, e) \subseteq Trigger /\ Spread(s, e) \in Seq(Edge)
  BY <1>1, <1>2 DEF Activated, Spread
<1>0. below \in Seq(LiveFrame)
  BY SeqMonotonic DEF RealFrame
<1>4. CASE /\ ~IsDetermined(s)
           /\ StoreDetermined(s, e)
           /\ callStack' = Push([triggers |-> Activated(s, e), edges |-> Spread(s, e),
                                 explained |-> e], below)
           /\ UNCHANGED conflicts
  <2> DEFINE frame == [triggers |-> Activated(s, e), edges |-> Spread(s, e), explained |-> e]
  <2>1. frame \in Frame
    BY <1>1, <1>3 DEF Frame
  <2>2. \A i \in DOMAIN frame.edges : RealEdge(frame.edges[i], e.val, s, obs)
    BY <1>1 DEF Spread, GraphReal
  <2>3. callStack' \in Seq(RealFrame(obs))
    BY <1>4, <2>1, <2>2, PushReal
  <2>4. ASSUME NEW r \in Site, IsDetermined(r)'
        PROVE  RealExplanation(Explained(r)', r, obs)
    <3>1. CASE r = s
      <4>1. Explained(r)' = e
        BY <1>1, <1>4, <3>1
        DEF Explained, StoreDetermined, Nilness, MappingType, ExplainedBool
      <4> QED  BY <3>1, <4>1
    <3>2. CASE r # s
      <4>1. IsDetermined(r) /\ Explained(r)' = Explained(r)
        BY <1>4, <2>4, <3>2 DEF Explained, IsDetermined, StoreDetermined, MappingType
      <4> QED  BY <4>1 DEF GraphReal
    <3> QED  BY <3>1, <3>2
  <2>5. /\ \A r \in Site : implicates'[r] = IF r = s THEN <<>> ELSE implicates[r]
        /\ \A r \in Site : implicants'[r] = IF r = s THEN <<>> ELSE implicants[r]
    BY <1>4 DEF StoreDetermined, MappingType
  <2>6. ASSUME NEW r \in Site
        PROVE  /\ \A i \in DOMAIN implicates'[r] : RealEdge(implicates'[r][i], TRUE, r, obs)
               /\ \A i \in DOMAIN implicants'[r] : RealEdge(implicants'[r][i], FALSE, r, obs)
    <3>1. CASE r = s
      <4>1. DOMAIN implicates'[r] = {} /\ DOMAIN implicants'[r] = {}
        BY <2>5, <3>1
      <4> QED  BY <4>1
    <3>2. CASE r # s
      BY <2>5, <3>2 DEF GraphReal
    <3> QED  BY <3>1, <3>2
  <2>7. \A k \in conflicts' : RealConflict(k, obs)
    BY <1>4 DEF GraphReal
  <2>8. \A t : Waiting(t, callStack') <=> t \in Activated(s, e) \/ Waiting(t, below)
    BY <1>0, <1>4, <2>1, PushWaiting
  <2>9. \A r \in Site : ForcedNilable(r)' => ForcedNilable(r) \/ (r = s /\ e.val)
    BY <1>1, <1>4 DEF ForcedNilable, StoreDetermined, MappingType, Nilness
  <2>10. Activates(obs, below)
    BY <2>8, <2>9 DEF Activates, Activated, RealExplanation
  <2> QED  BY <2>3, <2>4, <2>6, <2>7, <2>10 DEF GraphReal
<1>5. CASE callStack' = below /\ UNCHANGED <<mapping, conflicts>>
  BY <1>5 DEF GraphReal, mapping, IsDetermined, Explained, Activates, ForcedNilable
<1>6. CASE /\ nilability[s] = Nilness(~e.val)
           /\ conflicts' = conflicts \cup {Overconstraint(s, e)}
           /\ callStack' = Push([triggers |-> Activated(s, e), edges |-> <<>>,
                                 explained |-> e], below)
           /\ UNCHANGED mapping
  <2> DEFINE frame == [triggers |-> Activated(s, e), edges |-> <<>>, explained |-> e]
  <2>1. frame \in Frame
    BY <1>1, <1>3 DEF Frame
  <2>2. callStack' \in Seq(RealFrame(obs))
    BY <1>6, <2>1, PushReal
  <2>3. /\ IsDetermined(s) /\ Explained(s).chain = reason[s]
        /\ Explained(s).val = ~e.val
    BY <1>1, <1>6 DEF IsDetermined, Explained, Nilness
  <2>4. RealExplanation(Explained(s), s, obs)
    BY <2>3 DEF GraphReal
  <2>5. Solutions(obs) = {}
    BY <1>1, <2>3, <2>4 DEF RealExplanation, Forced
  <2>6. RealConflict(Overconstraint(s, e), obs)
    BY <1>1, <2>3, <2>4, <2>5 DEF RealConflict, Overconstraint, RealExplanation, ChainFor
  <2>7. \A t : Waiting(t, callStack') <=> t \in Activated(s, e) \/ Waiting(t, below)
    BY <1>0, <1>6, <2>1, PushWaiting
  <2>8. ASSUME NEW r \in Site, ForcedNilable(r)', ~ForcedNilable(r)
        PROVE  r = s /\ e.val
    <3> DEFINE k == Overconstraint(s, e)
    <3>1. k.nilPath # <<>> /\ k.nilPath[Len(k.nilPath)].consumer = r
      BY <1>6, <2>8 DEF ForcedNilable, mapping
    <3>2. NilableChain(k.nilPath, s)
      BY <1>1, <2>3, <2>4 DEF Overconstraint, RealExplanation, ChainFor
    <3>3. CASE ~e.val
      BY <1>1, <1>6, <2>8, <3>1, <3>2, <3>3 DEF ForcedNilable, NilableChain, Nilness
    <3> QED  BY <1>1, <3>1, <3>2, <3>3 DEF NilableChain
  <2>9. Activates(obs, below)
    BY <2>7, <2>8 DEF Activates, Activated, RealExplanation
  <2> QED  BY <1>6, <2>2, <2>6, <2>9 DEF GraphReal, mapping, IsDetermined, Explained
<1> QED  BY <1>4, <1>5, <1>6 DEF ObserveSiteExplanation

LEMMA StoreEdgeReal ==
  ASSUME NEW obs, NEW edges \in Seq(Edge), NEW val \in BOOLEAN, NEW r \in Site,
         \A i \in DOMAIN edges : RealEdge(edges[i], val, r, obs),
         NEW s \in Site, NEW t \in Constraint, RealEdge([site |-> s, assertion |-> t], val, r, obs)
  PROVE  \A i \in DOMAIN StoreEdge(edges, s, t) : RealEdge(StoreEdge(edges, s, t)[i], val, r, obs)
<1> DEFINE edge == [site |-> s, assertion |-> t]
<1>1. edge \in Edge /\ DOMAIN edges = 1..Len(edges) /\ Len(edges) \in Nat
  BY LenProperties DEF Edge
<1>2. CASE \E i \in DOMAIN edges : edges[i].site = s
  BY <1>2 DEF StoreEdge
<1>3. CASE ~\E i \in DOMAIN edges : edges[i].site = s
  <2>1. /\ DOMAIN Append(edges, edge) = 1..(Len(edges) + 1)
        /\ \A i \in 1..Len(edges) : Append(edges, edge)[i] = edges[i]
        /\ Append(edges, edge)[Len(edges) + 1] = edge
    BY <1>1, AppendProperties, LenProperties
  <2>2. \A i \in 1..(Len(edges) + 1) : i \in 1..Len(edges) \/ i = Len(edges) + 1
    BY <1>1
  <2> QED  BY <1>1, <1>3, <2>1, <2>2 DEF StoreEdge
<1> QED  BY <1>2, <1>3

LEMMA ObserveImplicationReal ==
  ASSUME MappingType, NEW obs \in SUBSET Constraint, GraphReal(obs),
         \A r \in Site : controlledTriggersBySite[r] \subseteq Trigger,
         NEW t \in obs, t.producer \in Site, t.consumer \in Site,
         NEW below \in Seq(RealFrame(obs)),
         ObserveImplication(t.producer, t.consumer, t, below)
  PROVE  /\ GraphReal(obs)' /\ callStack' \in Seq(RealFrame(obs))
         /\ Activates(obs, below)
<1> DEFINE p == t.producer
           c == t.consumer
<1>0. t \in Constraint
  OBVIOUS
<1>1. CASE /\ nilability[p] = "nilable"
           /\ ObserveSiteExplanation(c, BecauseDeep(Explained(p), t), below)
  <2>1. Explained(p) \in SomeExplained /\ RealExplanation(Explained(p), p, obs)
    BY <1>1, ExplainedType DEF IsDetermined, GraphReal
  <2>2. Explained(p).val = TRUE
    BY <1>1 DEF Explained
  <2>3. /\ BecauseDeep(Explained(p), t) \in SomeExplained
        /\ RealExplanation(BecauseDeep(Explained(p), t), c, obs)
    BY <1>0, <2>1, <2>2, BecauseType, DeepReal
  <2> QED  BY <1>1, <2>3, ObserveSiteExplanationReal
<1>2. CASE /\ nilability[c] = "nonnil"
           /\ ObserveSiteExplanation(p, BecauseDeep(Explained(c), t), below)
  <2>1. Explained(c) \in SomeExplained /\ RealExplanation(Explained(c), c, obs)
    BY <1>2, ExplainedType DEF IsDetermined, GraphReal
  <2>2. Explained(c).val = FALSE
    BY <1>2 DEF Explained
  <2>3. /\ BecauseDeep(Explained(c), t) \in SomeExplained
        /\ RealExplanation(BecauseDeep(Explained(c), t), p, obs)
    BY <1>0, <2>1, <2>2, BecauseType, DeepReal
  <2> QED  BY <1>2, <2>3, ObserveSiteExplanationReal
<1>3. CASE callStack' = below /\ UNCHANGED <<mapping, conflicts>>
  BY <1>3 DEF GraphReal, mapping, IsDetermined, Explained, Activates, ForcedNilable
<1>4. CASE /\ ~IsDetermined(p) /\ ~IsDetermined(c)
           /\ StoreImplication(p, c, t)
           /\ callStack' = below
           /\ UNCHANGED conflicts
  <2>1. \A r \in Site : IsDetermined(r)' => IsDetermined(r) /\ Explained(r)' = Explained(r)
    BY <1>4 DEF IsDetermined, Explained, StoreImplication, MappingType
  <2>2. /\ \A r \in Site :
             implicates'[r] = IF r = p THEN StoreEdge(implicates[p], c, t) ELSE implicates[r]
        /\ \A r \in Site :
             implicants'[r] = IF r = c THEN StoreEdge(implicants[c], p, t) ELSE implicants[r]
    BY <1>4 DEF StoreImplication, MappingType
  <2>3. /\ RealEdge([site |-> c, assertion |-> t], TRUE, p, obs)
        /\ RealEdge([site |-> p, assertion |-> t], FALSE, c, obs)
    BY DEF RealEdge
  <2>4. \A i \in DOMAIN StoreEdge(implicates[p], c, t) :
          RealEdge(StoreEdge(implicates[p], c, t)[i], TRUE, p, obs)
    BY <1>0, <2>3, StoreEdgeReal DEF GraphReal, MappingType
  <2>5. \A i \in DOMAIN StoreEdge(implicants[c], p, t) :
          RealEdge(StoreEdge(implicants[c], p, t)[i], FALSE, c, obs)
    BY <1>0, <2>3, StoreEdgeReal DEF GraphReal, MappingType
  <2>6. /\ \A r \in Site : \A i \in DOMAIN implicates'[r] :
             RealEdge(implicates'[r][i], TRUE, r, obs)
        /\ \A r \in Site : \A i \in DOMAIN implicants'[r] :
             RealEdge(implicants'[r][i], FALSE, r, obs)
    BY <2>2, <2>4, <2>5 DEF GraphReal
  <2>7. \A r \in Site : IsDetermined(r)' => RealExplanation(Explained(r)', r, obs)
    BY <2>1 DEF GraphReal
  <2>8. Activates(obs, below)
    BY <1>4 DEF Activates, ForcedNilable, StoreImplication, MappingType
  <2> QED  BY <1>4, <2>6, <2>7, <2>8 DEF GraphReal
<1> QED  BY <1>1, <1>2, <1>3, <1>4 DEF ObserveImplication

LEMMA BuildFromSingleFullTriggerReal ==
  ASSUME MappingType, NEW obs \in SUBSET Constraint, GraphReal(obs),
         \A r \in Site : controlledTriggersBySite[r] \subseteq Trigger,
         NEW t \in Trigger, t \in obs,
         NEW below \in Seq(RealFrame(obs)),
         BuildFromSingleFullTrigger(t, below)
  PROVE  /\ GraphReal(obs)' /\ callStack' \in Seq(RealFrame(obs))
         /\ Activates(obs, below)
<1>0. t \in Constraint
  BY DEF Constraint
<1>1. CASE /\ t.producer = Nil /\ t.consumer = Deref
           /\ conflicts' = conflicts \cup {SingleAssertion(t)}
           /\ callStack' = below
           /\ UNCHANGED mapping
  <2>1. Solutions(obs) = {}
    BY <1>1, EndsAssumption DEF Solutions, Satisfies, FixedProducer
  <2>2. RealConflict(SingleAssertion(t), obs)
    BY <1>1, <2>1 DEF RealConflict
  <2>3. \A s \in Site : ForcedNilable(s)' => ForcedNilable(s)
    <3>1. SingleAssertion(t).nilPath = <<>>
      BY DEF SingleAssertion
    <3> HIDE DEF SingleAssertion
    <3> QED  BY <1>1, <3>1 DEF ForcedNilable, mapping
  <2>4. Activates(obs, below)
    BY <1>1, <2>3 DEF Activates
  <2> QED  BY <1>1, <2>2, <2>4 DEF GraphReal, mapping, IsDetermined, Explained
<1>2. CASE /\ t.producer = Nil /\ t.consumer \in Site
           /\ ObserveSiteExplanation(t.consumer, BecauseShallow(TRUE, t), below)
  <2>1. /\ BecauseShallow(TRUE, t) \in SomeExplained
        /\ RealExplanation(BecauseShallow(TRUE, t), t.consumer, obs)
    BY <1>0, <1>2, BecauseType, ShallowReal DEF FixedProducer
  <2> QED  BY <1>2, <2>1, ObserveSiteExplanationReal
<1>3. CASE /\ t.producer \in Site /\ t.consumer = Deref
           /\ ObserveSiteExplanation(t.producer, BecauseShallow(FALSE, t), below)
  <2>1. /\ BecauseShallow(FALSE, t) \in SomeExplained
        /\ RealExplanation(BecauseShallow(FALSE, t), t.producer, obs)
    BY <1>0, <1>3, BecauseType, ShallowReal DEF FixedConsumer
  <2> QED  BY <1>3, <2>1, ObserveSiteExplanationReal
<1>4. CASE /\ t.producer \in Site /\ t.consumer \in Site
           /\ ObserveImplication(t.producer, t.consumer, t, below)
  BY <1>4, ObserveImplicationReal
<1>5. CASE callStack' = below /\ UNCHANGED <<mapping, conflicts>>
  BY <1>5 DEF GraphReal, mapping, IsDetermined, Explained, Activates, ForcedNilable
<1> QED  BY <1>1, <1>2, <1>3, <1>4, <1>5 DEF BuildFromSingleFullTrigger

\* What is left of the innermost activation is as real as the activation was.
LEMMA FrameReal ==
  ASSUME NEW obs \in SUBSET Constraint, NEW stack \in Seq(RealFrame(obs)), stack # <<>>
  PROVE  /\ \A t : Push([Head(stack) EXCEPT !.triggers = @ \ {t}], Tail(stack))
                     \in Seq(RealFrame(obs))
         /\ Head(stack).triggers = {} =>
              LET e == Head(stack).explained
                  edge == Head(Head(stack).edges)
              IN  /\ edge.site \in Site
                  /\ BecauseDeep(e, edge.assertion) \in SomeExplained
                  /\ RealExplanation(BecauseDeep(e, edge.assertion), edge.site, obs)
                  /\ Push([Head(stack) EXCEPT !.edges = Tail(@)], Tail(stack))
                       \in Seq(RealFrame(obs))
<1> DEFINE frame == Head(stack)
<1>1. frame \in RealFrame(obs) /\ Tail(stack) \in Seq(RealFrame(obs))
  BY HeadTailProperties
<1>2. /\ frame \in Frame /\ frame.explained \in SomeExplained
      /\ frame.edges \in Seq(Edge) /\ frame.triggers \in SUBSET Trigger
      /\ frame.triggers # {} \/ frame.edges # <<>>
  BY <1>1 DEF RealFrame, LiveFrame, Frame
<1>3. PICK s \in Site :
        /\ RealExplanation(frame.explained, s, obs)
        /\ \A i \in DOMAIN frame.edges : RealEdge(frame.edges[i], frame.explained.val, s, obs)
  BY <1>1 DEF RealFrame
<1>4. ASSUME NEW t
      PROVE  Push([frame EXCEPT !.triggers = @ \ {t}], Tail(stack)) \in Seq(RealFrame(obs))
  <2> DEFINE rest == [frame EXCEPT !.triggers = @ \ {t}]
  <2>1. rest \in Frame /\ rest.explained = frame.explained /\ rest.edges = frame.edges
    BY <1>2 DEF Frame
  <2> QED  BY <1>1, <1>2, <1>3, <2>1, PushReal
<1>5. ASSUME frame.triggers = {}
      PROVE  LET e == frame.explained
                 edge == Head(frame.edges)
             IN  /\ edge.site \in Site
                 /\ BecauseDeep(e, edge.assertion) \in SomeExplained
                 /\ RealExplanation(BecauseDeep(e, edge.assertion), edge.site, obs)
                 /\ Push([frame EXCEPT !.edges = Tail(@)], Tail(stack)) \in Seq(RealFrame(obs))
  <2> DEFINE e == frame.explained
             edge == Head(frame.edges)
             rest == [frame EXCEPT !.edges = Tail(@)]
  <2>1. /\ edge \in Edge /\ edge = frame.edges[1] /\ 1 \in DOMAIN frame.edges
        /\ Tail(frame.edges) \in Seq(Edge)
        /\ \A i \in DOMAIN Tail(frame.edges) :
             Tail(frame.edges)[i] = frame.edges[i + 1] /\ i + 1 \in DOMAIN frame.edges
    BY <1>2, <1>5, HeadTailProperties, LenProperties
  <2>2. RealEdge(edge, e.val, s, obs) /\ e.val \in BOOLEAN
    BY <1>2, <1>3, <2>1 DEF SomeExplained, ExplainedBool
  <2>3. edge.site \in Site /\ edge.assertion \in obs /\ edge.assertion \in Constraint
    BY <2>1, <2>2 DEF Edge, RealEdge
  <2>4. BecauseDeep(e, edge.assertion) \in SomeExplained
    BY <1>2, <2>3, BecauseType
  <2>5. RealExplanation(BecauseDeep(e, edge.assertion), edge.site, obs)
    BY <1>2, <1>3, <2>2, <2>3, DeepReal DEF RealEdge
  <2>6. rest \in Frame /\ rest.explained = e /\ rest.edges = Tail(frame.edges)
    BY <1>2, <2>1 DEF Frame
  <2>7. \A i \in DOMAIN rest.edges : RealEdge(rest.edges[i], rest.explained.val, s, obs)
    BY <1>3, <2>1, <2>6
  <2>8. Push(rest, Tail(stack)) \in Seq(RealFrame(obs))
    BY <1>1, <1>2, <1>3, <2>6, <2>7, PushReal
  <2> QED  BY <2>3, <2>4, <2>5, <2>8
<1> QED  BY <1>4, <1>5

RealInv == GraphReal(observed) /\ callStack \in Seq(RealFrame(observed))

LEMMA RealInvInit ==
  ASSUME Init
  PROVE  RealInv
BY EmptySeq DEF Init, NewEngine, RealInv, GraphReal, IsDetermined

\* A step keeps everything real with regard to any set obs of constraints that
\* holds those observed in this package; it may hold more, of other packages.
LEMMA WorkReal ==
  ASSUME EngineType, Work \/ UNCHANGED vars,
         NEW obs \in SUBSET Constraint, observed' \subseteq obs,
         GraphReal(obs), callStack \in Seq(RealFrame(obs))
  PROVE  /\ GraphReal(obs)' /\ callStack' \in Seq(RealFrame(obs))
         /\ Activates(obs, callStack)
<1>0. /\ MappingType /\ <<>> \in Seq(RealFrame(obs))
      /\ \A r \in Site : controlledTriggersBySite[r] \subseteq Trigger
  BY EmptySeq DEF EngineType, GraphType
<1>1. CASE ObserveAnnotation
  <2>1. PICK a \in Annotation :
          LET t == AnnotationConstraint(a)
          IN  /\ observed' = observed \cup {t}
              /\ IF t.producer = Annotated
                 THEN ObserveSiteExplanation(t.consumer, BecauseShallow(TRUE, t), <<>>)
                 ELSE ObserveSiteExplanation(t.producer, BecauseShallow(FALSE, t), <<>>)
    BY <1>1 DEF ObserveAnnotation, EngineType, PendingType
  <2> DEFINE t == AnnotationConstraint(a)
  <2>2. t \in obs /\ t \in Constraint /\ callStack = <<>>
    BY <1>1, <2>1, AnnotationConstraintType DEF ObserveAnnotation, Quiescent
  <2>3. CASE t.producer = Annotated
    <3>1. t.consumer \in Site
      BY <2>3, AnnotationConstraintType
    <3>2. /\ BecauseShallow(TRUE, t) \in SomeExplained
          /\ RealExplanation(BecauseShallow(TRUE, t), t.consumer, obs)
      BY <2>2, <2>3, <3>1, BecauseType, ShallowReal DEF FixedProducer
    <3> QED  BY <1>0, <2>1, <2>2, <2>3, <3>1, <3>2, ObserveSiteExplanationReal
  <2>4. CASE t.producer # Annotated
    <3>1. t.producer \in Site /\ t.consumer = Annotated
      BY <2>4, AnnotationConstraintType DEF AnnotationConstraint
    <3>2. /\ BecauseShallow(FALSE, t) \in SomeExplained
          /\ RealExplanation(BecauseShallow(FALSE, t), t.producer, obs)
      BY <2>2, <2>4, <3>1, BecauseType, ShallowReal DEF FixedConsumer
    <3> QED  BY <1>0, <2>1, <2>2, <2>4, <3>1, <3>2, ObserveSiteExplanationReal
  <2> QED  BY <2>3, <2>4
<1>2. CASE ObserveTrigger
  <2>1. PICK t \in pending : BuildFromSingleFullTrigger(t, <<>>)
    BY <1>2 DEF ObserveTrigger
  <2>2. t \in Trigger /\ t \in obs
    BY <1>2, <2>1 DEF EngineType, PendingType, ObserveTrigger, BuildFromSingleFullTrigger
  <2>3. callStack = <<>>
    BY <1>2 DEF ObserveTrigger, Quiescent
  <2> QED  BY <1>0, <2>1, <2>2, <2>3, BuildFromSingleFullTriggerReal
<1>3. CASE ActivateControlled
  <2>1. callStack # <<>> /\ callStack \in Seq(LiveFrame)
    BY <1>3 DEF ActivateControlled, Quiescent, EngineType, GraphType
  <2>2. PICK t \in Head(callStack).triggers :
          BuildFromSingleFullTrigger(
            t, Push([Head(callStack) EXCEPT !.triggers = @ \ {t}], Tail(callStack)))
    BY <1>3 DEF ActivateControlled
  <2>3. t \in Trigger /\ t \in obs
    BY <2>1, <2>2, FrameType DEF LiveFrame, Frame, BuildFromSingleFullTrigger
  <2>4. Push([Head(callStack) EXCEPT !.triggers = @ \ {t}], Tail(callStack))
          \in Seq(RealFrame(obs))
    BY <2>1, FrameReal
  <2> DEFINE below == Push([Head(callStack) EXCEPT !.triggers = @ \ {t}], Tail(callStack))
  <2>5. GraphReal(obs)' /\ callStack' \in Seq(RealFrame(obs)) /\ Activates(obs, below)
    BY <1>0, <2>2, <2>3, <2>4, BuildFromSingleFullTriggerReal
  <2>6. t \in observed' /\ Waiting(t, callStack)
    BY <2>1, <2>2, TailWaiting DEF BuildFromSingleFullTrigger
  <2>7. \A u : Waiting(u, below) \/ u = t <=> Waiting(u, callStack) \/ u = t
    BY <2>1, RestWaiting
  <2>8. Activates(obs, callStack)
    BY <2>5, <2>6, <2>7 DEF Activates
  <2> QED  BY <2>5, <2>8
<1>4. CASE Propagate
  <2> DEFINE frame == Head(callStack)
             edge == Head(frame.edges)
             below == Push([frame EXCEPT !.edges = Tail(@)], Tail(callStack))
  <2>1. callStack # <<>> /\ frame.triggers = {}
    BY <1>4 DEF Propagate, Quiescent
  <2>2. /\ edge.site \in Site
        /\ BecauseDeep(frame.explained, edge.assertion) \in SomeExplained
        /\ RealExplanation(BecauseDeep(frame.explained, edge.assertion), edge.site, obs)
        /\ below \in Seq(RealFrame(obs))
    BY <2>1, FrameReal
  <2>3. ObserveSiteExplanation(edge.site, BecauseDeep(frame.explained, edge.assertion), below)
    BY <1>4 DEF Propagate
  <2>4. GraphReal(obs)' /\ callStack' \in Seq(RealFrame(obs)) /\ Activates(obs, below)
    BY <1>0, <2>2, <2>3, ObserveSiteExplanationReal
  <2>5. \A t : Waiting(t, below) <=> Waiting(t, callStack)
    BY <2>1, RestWaiting DEF EngineType, GraphType
  <2>6. Activates(obs, callStack)
    BY <2>4, <2>5 DEF Activates
  <2> QED  BY <2>4, <2>6
<1>5. CASE UNCHANGED <<mapping, callStack, conflicts>>
  BY <1>5 DEF GraphReal, mapping, IsDetermined, Explained, Activates, ForcedNilable
<1> QED
  BY <1>1, <1>2, <1>3, <1>4, <1>5
  DEF Work, ObservePackage, ObserveNonErrRet, Finish, vars, mapping

LEMMA RealInvStep ==
  ASSUME TypeInv, RealInv, [Next]_vars
  PROVE  RealInv'
<1>1. PICK obs : obs = observed'
  OBVIOUS
<1>2. TypeInv' /\ EngineType /\ (Work \/ UNCHANGED vars)
  BY TypeInvStep DEF TypeInv, Next, Work, Finished
<1>3. obs \in SUBSET Constraint /\ observed \subseteq obs
  BY <1>1, <1>2
  DEF TypeInv, TypeOK, Work, vars, ObserveAnnotation, ObservePackage, ObserveTrigger,
      ObserveNonErrRet, ActivateControlled, Propagate, Finish, BuildFromSingleFullTrigger
<1>4. GraphReal(obs) /\ callStack \in Seq(RealFrame(obs))
  BY <1>3, GraphRealMonotone, RealFrameMonotone, SeqMonotonic DEF RealInv
<1>5. GraphReal(obs)' /\ callStack' \in Seq(RealFrame(obs))
  BY <1>1, <1>2, <1>3, <1>4, WorkReal
<1> QED  BY <1>1, <1>5 DEF RealInv

\* Every conflict is a nil flow made of observed constraints, from a source of
\* nil to a consumer that needs non-nil, whatever the graph and the order of
\* the triggers: the explanations that observeSiteExplanation hands down never
\* get mixed up.
THEOREM ConflictsAreFlows == Spec => []FlowsAreReal
<1>1. Init => TypeInv /\ RealInv
  BY TypeInvInit, RealInvInit
<1>2. TypeInv /\ RealInv /\ [Next]_vars => (TypeInv /\ RealInv)'
  BY TypeInvStep, RealInvStep
<1>3. RealInv => FlowsAreReal
  BY DEF RealInv, GraphReal, RealConflict, FlowsAreReal
<1> QED  BY <1>1, <1>2, <1>3, PTL DEF Spec

-----------------------------------------------------------------------------
(****************************************************************************)
(* Completeness.  A call is awaited when an activation on the call stack    *)
(* still has to make it for a constraint with the ends of t.                *)
(****************************************************************************)

Awaited(t, val, stack) ==
  \E i \in DOMAIN stack :
    /\ stack[i].explained.val = val
    /\ \E j \in DOMAIN stack[i].edges : SameEnds(stack[i].edges[j].assertion, t)

Open(s) == s \in Site /\ ~IsDetermined(s)

ReportedIn(t) == \E k \in conflicts : Reports(k, t)

\* The four parts: a nilable producer, a nonnil consumer, both, or neither.
Settled(t, stack) ==
  /\ ProducerIsNil(t) /\ Open(t.consumer) => Awaited(t, TRUE, stack)
  /\ ConsumerIsNonnil(t) /\ Open(t.producer) => Awaited(t, FALSE, stack)
  /\ ProducerIsNil(t) /\ ConsumerIsNonnil(t) =>
       ReportedIn(t) \/ Awaited(t, TRUE, stack) \/ Awaited(t, FALSE, stack)
  /\ Open(t.producer) /\ Open(t.consumer) => HasEdge(t.producer, t.consumer)

LEMMA ElementsOfSeq ==
  ASSUME NEW S, NEW stack \in Seq(S)
  PROVE  \A i \in DOMAIN stack : stack[i] \in S
BY ElementOfSeq, LenProperties

LEMMA PushAwaited ==
  ASSUME NEW f \in Frame, NEW below \in Seq(LiveFrame), f.explained \in SomeExplained
  PROVE  /\ \A t, val : Awaited(t, val, below) => Awaited(t, val, Push(f, below))
         /\ \A t : \A j \in DOMAIN f.edges :
              SameEnds(f.edges[j].assertion, t) => Awaited(t, f.explained.val, Push(f, below))
<1>1. CASE f.triggers = {} /\ f.edges = <<>>
  BY <1>1 DEF Push
<1>2. CASE ~(f.triggers = {} /\ f.edges = <<>>)
  <2>1. f \in LiveFrame /\ Push(f, below) = <<f>> \o below
    BY <1>2 DEF LiveFrame, Push
  <2>2. <<f>> \in Seq(LiveFrame) /\ Len(<<f>>) = 1 /\ <<f>>[1] = f
    BY <2>1
  <2>3. Len(below) \in Nat /\ DOMAIN below = 1..Len(below)
    BY LenProperties
  <2>4. /\ DOMAIN (<<f>> \o below) = 1..(Len(below) + 1)
        /\ (<<f>> \o below)[1] = f
        /\ \A i \in DOMAIN below : (<<f>> \o below)[i + 1] = below[i]
    BY <2>2, <2>3, ConcatProperties, LenProperties
  <2> DEFINE stack == Push(f, below)
  <2>5. /\ 1 \in DOMAIN stack /\ stack[1] = f
        /\ \A i \in DOMAIN below : i + 1 \in DOMAIN stack /\ stack[i + 1] = below[i]
    BY <2>1, <2>3, <2>4
  <2> HIDE DEF stack
  <2>6. ASSUME NEW t, NEW val, Awaited(t, val, below)
        PROVE  Awaited(t, val, stack)
    BY <2>5, <2>6 DEF Awaited
  <2>7. ASSUME NEW t, NEW j \in DOMAIN f.edges, SameEnds(f.edges[j].assertion, t)
        PROVE  Awaited(t, f.explained.val, stack)
    BY <2>5, <2>7 DEF Awaited
  <2> QED  BY <2>6, <2>7 DEF stack
<1> QED  BY <1>1, <1>2

\* A loop that takes an item drops no call but the one it makes.
LEMMA RestAwaited ==
  ASSUME NEW stack \in Seq(LiveFrame), stack # <<>>, NEW t, NEW val, Awaited(t, val, stack)
  PROVE  LET frame == Head(stack)
         IN  /\ \A u : Awaited(t, val, Push([frame EXCEPT !.triggers = @ \ {u}], Tail(stack)))
             /\ frame.triggers = {} =>
                  \/ frame.explained.val = val /\ SameEnds(Head(frame.edges).assertion, t)
                  \/ Awaited(t, val, Push([frame EXCEPT !.edges = Tail(@)], Tail(stack)))
<1> DEFINE frame == Head(stack)
           below == Tail(stack)
<1>1. /\ frame \in LiveFrame /\ below \in Seq(LiveFrame) /\ frame = stack[1]
      /\ Len(below) = Len(stack) - 1 /\ Len(stack) \in Nat
      /\ DOMAIN stack = 1..Len(stack) /\ DOMAIN below = 1..Len(below)
      /\ \A i \in 1..Len(below) : below[i] = stack[i + 1]
  BY HeadTailProperties, LenProperties
<1>2. /\ frame \in Frame /\ frame.explained \in SomeExplained
      /\ frame.edges \in Seq(Edge) /\ frame.triggers \in SUBSET Trigger
      /\ frame.triggers # {} \/ frame.edges # <<>>
  BY <1>1 DEF LiveFrame, Frame
<1>3. PICK i \in DOMAIN stack, j \in Nat :
        /\ stack[i].explained.val = val
        /\ j \in DOMAIN stack[i].edges /\ SameEnds(stack[i].edges[j].assertion, t)
  <2>1. PICK i \in DOMAIN stack :
          /\ stack[i].explained.val = val
          /\ \E j \in DOMAIN stack[i].edges : SameEnds(stack[i].edges[j].assertion, t)
    BY DEF Awaited
  <2>2. stack[i].edges \in Seq(Edge)
    BY ElementsOfSeq DEF LiveFrame, Frame
  <2>3. DOMAIN stack[i].edges \subseteq Nat
    BY <2>2, LenProperties
  <2> QED  BY <2>1, <2>3
<1>4. CASE i # 1
  <2>1. i - 1 \in DOMAIN below /\ below[i - 1] = stack[i]
    BY <1>1, <1>4
  <2>2. Awaited(t, val, below)
    BY <1>3, <2>1 DEF Awaited
  <2>3. ASSUME NEW u
        PROVE  Awaited(t, val, Push([frame EXCEPT !.triggers = @ \ {u}], below))
    <3>1. /\ [frame EXCEPT !.triggers = @ \ {u}] \in Frame
          /\ [frame EXCEPT !.triggers = @ \ {u}].explained \in SomeExplained
      BY <1>2 DEF Frame
    <3> QED  BY <1>1, <2>2, <3>1, PushAwaited
  <2>4. ASSUME frame.triggers = {}
        PROVE  Awaited(t, val, Push([frame EXCEPT !.edges = Tail(@)], below))
    <3>1. Tail(frame.edges) \in Seq(Edge)
      BY <1>2, <2>4, HeadTailProperties
    <3>2. /\ [frame EXCEPT !.edges = Tail(@)] \in Frame
          /\ [frame EXCEPT !.edges = Tail(@)].explained \in SomeExplained
      BY <1>2, <3>1 DEF Frame
    <3> QED  BY <1>1, <2>2, <3>2, PushAwaited
  <2> QED  BY <2>3, <2>4
<1>5. CASE i = 1
  <2>1. /\ frame.explained.val = val /\ j \in DOMAIN frame.edges
        /\ SameEnds(frame.edges[j].assertion, t)
    BY <1>1, <1>3, <1>5
  <2>2. ASSUME NEW u
        PROVE  Awaited(t, val, Push([frame EXCEPT !.triggers = @ \ {u}], below))
    <3> DEFINE rest == [frame EXCEPT !.triggers = @ \ {u}]
    <3>1. rest \in Frame /\ rest.explained = frame.explained /\ rest.edges = frame.edges
      BY <1>2 DEF Frame
    <3>2. Awaited(t, rest.explained.val, Push(rest, below))
      BY <1>1, <1>2, <2>1, <3>1, PushAwaited
    <3> QED  BY <2>1, <3>1, <3>2
  <2>3. ASSUME frame.triggers = {}, ~SameEnds(Head(frame.edges).assertion, t)
        PROVE  Awaited(t, val, Push([frame EXCEPT !.edges = Tail(@)], below))
    <3> DEFINE rest == [frame EXCEPT !.edges = Tail(@)]
    <3>1. /\ frame.edges # <<>> /\ Head(frame.edges) = frame.edges[1]
          /\ Tail(frame.edges) \in Seq(Edge)
          /\ Len(Tail(frame.edges)) = Len(frame.edges) - 1 /\ Len(frame.edges) \in Nat
          /\ DOMAIN frame.edges = 1..Len(frame.edges)
          /\ DOMAIN Tail(frame.edges) = 1..Len(Tail(frame.edges))
          /\ \A m \in 1..Len(Tail(frame.edges)) : Tail(frame.edges)[m] = frame.edges[m + 1]
      BY <1>2, <2>3, HeadTailProperties, LenProperties
    <3>2. rest \in Frame /\ rest.explained = frame.explained /\ rest.edges = Tail(frame.edges)
      BY <1>2, <3>1 DEF Frame
    <3>3. j # 1
      BY <2>1, <2>3, <3>1
    <3>4. j - 1 \in DOMAIN Tail(frame.edges) /\ Tail(frame.edges)[j - 1] = frame.edges[j]
      BY <2>1, <3>1, <3>3
    <3>5. j - 1 \in DOMAIN rest.edges /\ SameEnds(rest.edges[j - 1].assertion, t)
      BY <2>1, <3>2, <3>4
    <3>6. Awaited(t, rest.explained.val, Push(rest, below))
      BY <1>1, <1>2, <3>2, <3>5, PushAwaited
    <3> QED  BY <2>1, <3>2, <3>6
  <2> QED  BY <2>1, <2>2, <2>3
<1> QED  BY <1>4, <1>5

LEMMA HasEdgeSameEnds ==
  ASSUME NEW obs, GraphReal(obs), NEW t, t.producer \in Site, t.consumer \in Site,
         HasEdge(t.producer, t.consumer)
  PROVE  /\ \E i \in DOMAIN implicates[t.producer] :
              SameEnds(implicates[t.producer][i].assertion, t)
         /\ \E i \in DOMAIN implicants[t.consumer] :
              SameEnds(implicants[t.consumer][i].assertion, t)
<1>1. \E i \in DOMAIN implicates[t.producer] : SameEnds(implicates[t.producer][i].assertion, t)
  BY DEF HasEdge, GraphReal, RealEdge, SameEnds
<1>2. \E i \in DOMAIN implicants[t.consumer] : SameEnds(implicants[t.consumer][i].assertion, t)
  BY DEF HasEdge, GraphReal, RealEdge, SameEnds
<1> QED  BY <1>1, <1>2

\* Determining a site leaves every constraint settled that was settled without
\* the call: what the new value obliges to is on the call stack.
LEMMA DeterminedSettled ==
  ASSUME MappingType, NEW obs, GraphReal(obs),
         \A r \in Site : controlledTriggersBySite[r] \subseteq Trigger,
         NEW s \in Site, NEW e \in SomeExplained, NEW below \in Seq(LiveFrame),
         ~IsDetermined(s), StoreDetermined(s, e), UNCHANGED conflicts,
         callStack' = Push([triggers |-> Activated(s, e), edges |-> Spread(s, e),
                            explained |-> e], below),
         NEW t \in Constraint, Settled(t, below)
  PROVE  Settled(t, callStack)'
<1> DEFINE frame == [triggers |-> Activated(s, e), edges |-> Spread(s, e), explained |-> e]
           p == t.producer
           c == t.consumer
<1>1. e.val \in BOOLEAN /\ e \in ExplainedBool
  BY DEF SomeExplained, ExplainedBool
<1>2. frame \in Frame
  BY <1>1 DEF Frame, Activated, Spread, MappingType
<1>3. /\ \A u, val : Awaited(u, val, below) => Awaited(u, val, callStack')
      /\ \A u : \A j \in DOMAIN frame.edges :
           SameEnds(frame.edges[j].assertion, u) => Awaited(u, e.val, callStack')
  BY <1>2, PushAwaited
<1>4. /\ \A r \in Site : nilability'[r] = IF r = s THEN Nilness(e.val) ELSE nilability[r]
      /\ \A r \in Site : implicates'[r] = IF r = s THEN <<>> ELSE implicates[r]
      /\ \A r \in Site : implicants'[r] = IF r = s THEN <<>> ELSE implicants[r]
  BY DEF StoreDetermined, MappingType
<1>5. \A r : Open(r)' <=> Open(r) /\ r # s
  BY <1>1, <1>4 DEF Open, IsDetermined, Nilness
<1>6. /\ ProducerIsNil(t)' => ProducerIsNil(t) \/ (p = s /\ e.val = TRUE)
      /\ ConsumerIsNonnil(t)' => ConsumerIsNonnil(t) \/ (c = s /\ e.val = FALSE)
  BY <1>1, <1>4 DEF ProducerIsNil, ConsumerIsNonnil, Nilness
<1>7. Open(s)
  BY DEF Open
<1>8. ASSUME ProducerIsNil(t)', Open(c)'
      PROVE  Awaited(t, TRUE, callStack')
  <2>1. CASE ProducerIsNil(t)
    BY <1>3, <1>5, <1>8, <2>1 DEF Settled
  <2>2. CASE p = s /\ e.val = TRUE
    <3>1. HasEdge(p, c) /\ p \in Site /\ c \in Site
      BY <1>5, <1>7, <1>8, <2>2 DEF Settled, Open
    <3>2. \E i \in DOMAIN implicates[s] : SameEnds(implicates[s][i].assertion, t)
      BY <2>2, <3>1, HasEdgeSameEnds
    <3> QED  BY <1>3, <2>2, <3>2 DEF Spread
  <2> QED  BY <1>6, <1>8, <2>1, <2>2
<1>9. ASSUME ConsumerIsNonnil(t)', Open(p)'
      PROVE  Awaited(t, FALSE, callStack')
  <2>1. CASE ConsumerIsNonnil(t)
    BY <1>3, <1>5, <1>9, <2>1 DEF Settled
  <2>2. CASE c = s /\ e.val = FALSE
    <3>1. HasEdge(p, c) /\ p \in Site /\ c \in Site
      BY <1>5, <1>7, <1>9, <2>2 DEF Settled, Open
    <3>2. \E i \in DOMAIN implicants[s] : SameEnds(implicants[s][i].assertion, t)
      BY <2>2, <3>1, HasEdgeSameEnds
    <3> QED  BY <1>3, <2>2, <3>2 DEF Spread
  <2> QED  BY <1>6, <1>9, <2>1, <2>2
<1>10. ASSUME ProducerIsNil(t)', ConsumerIsNonnil(t)'
       PROVE  ReportedIn(t)' \/ Awaited(t, TRUE, callStack') \/ Awaited(t, FALSE, callStack')
  <2>1. CASE ProducerIsNil(t) /\ ConsumerIsNonnil(t)
    BY <1>3, <2>1 DEF Settled, ReportedIn
  <2>2. CASE p = s /\ ConsumerIsNonnil(t)
    BY <1>3, <1>7, <2>2 DEF Settled
  <2>3. CASE ProducerIsNil(t) /\ c = s
    BY <1>3, <1>7, <2>3 DEF Settled
  <2> QED  BY <1>6, <1>10, <2>1, <2>2, <2>3
<1>11. ASSUME Open(p)', Open(c)'
       PROVE  HasEdge(p, c)'
  <2>1. HasEdge(p, c) /\ p \in Site /\ c \in Site /\ p # s /\ c # s
    BY <1>5, <1>11 DEF Settled, Open
  <2> QED  BY <1>4, <2>1 DEF HasEdge
<1> QED  BY <1>8, <1>9, <1>10, <1>11 DEF Settled

\* So does any call of observeSiteExplanation.
LEMMA SiteExplanationKeepsSettled ==
  ASSUME MappingType, NEW obs, GraphReal(obs),
         \A r \in Site : controlledTriggersBySite[r] \subseteq Trigger,
         NEW s \in Site, NEW e \in SomeExplained, NEW below \in Seq(LiveFrame),
         ObserveSiteExplanation(s, e, below),
         NEW t \in Constraint, Settled(t, below)
  PROVE  Settled(t, callStack)'
<1>1. CASE /\ ~IsDetermined(s)
           /\ StoreDetermined(s, e)
           /\ callStack' = Push([triggers |-> Activated(s, e), edges |-> Spread(s, e),
                                 explained |-> e], below)
           /\ UNCHANGED conflicts
  BY <1>1, DeterminedSettled
<1>2. ASSUME UNCHANGED mapping, conflicts \subseteq conflicts',
             \A u, val : Awaited(u, val, below) => Awaited(u, val, callStack')
      PROVE  Settled(t, callStack)'
  BY <1>2
  DEF Settled, Open, IsDetermined, ProducerIsNil, ConsumerIsNonnil, ReportedIn, HasEdge, mapping
<1>3. CASE callStack' = below /\ UNCHANGED <<mapping, conflicts>>
  BY <1>2, <1>3
<1>4. CASE /\ conflicts' = conflicts \cup {Overconstraint(s, e)}
           /\ callStack' = Push([triggers |-> Activated(s, e), edges |-> <<>>,
                                 explained |-> e], below)
           /\ UNCHANGED mapping
  <2>1. [triggers |-> Activated(s, e), edges |-> <<>>, explained |-> e] \in Frame
    BY DEF Frame, Activated, SomeExplained
  <2> QED  BY <1>2, <1>4, <2>1, PushAwaited
<1> QED  BY <1>1, <1>3, <1>4 DEF ObserveSiteExplanation

\* And it settles the constraint t that it is made for: the last one of the
\* explanation e has the ends of t.
LEMMA SiteExplanationSettles ==
  ASSUME MappingType, NEW s \in Site, NEW e \in SomeExplained, NEW below \in Seq(LiveFrame),
         \A r \in Site : controlledTriggersBySite[r] \subseteq Trigger,
         ObserveSiteExplanation(s, e, below),
         NEW t \in Constraint, SameEnds(e.chain[Len(e.chain)], t),
         e.val => t.consumer = s
                  /\ (ConsumerIsNonnil(t) /\ Open(t.producer) => Awaited(t, FALSE, below)),
         ~e.val => t.producer = s
                   /\ (ProducerIsNil(t) /\ Open(t.consumer) => Awaited(t, TRUE, below))
  PROVE  Settled(t, callStack)'
<1> DEFINE p == t.producer
           c == t.consumer
<1>1. e.val \in BOOLEAN /\ e.chain # <<>> /\ e \in ExplainedBool
  BY DEF SomeExplained, ExplainedBool
<1>2. \A r \in Site : ~Open(r) => nilability'[r] = nilability[r]
  BY ObserveSiteExplanationExtends DEF Extends, Open
<1>3. nilability'[s] \in {"nilable", "nonnil"}
  BY <1>1
  DEF ObserveSiteExplanation, StoreDetermined, Nilness, mapping, MappingType, IsDetermined
<1>4. \A r \in Site : r # s => nilability'[r] = nilability[r]
  BY DEF ObserveSiteExplanation, StoreDetermined, mapping, MappingType
<1>5. \A u, val : Awaited(u, val, below) => Awaited(u, val, callStack')
  <2>1. \A edges \in Seq(Edge) : [triggers |-> Activated(s, e), edges |-> edges, explained |-> e] \in Frame
    BY <1>1 DEF Frame, Activated
  <2>2. Spread(s, e) \in Seq(Edge) /\ <<>> \in Seq(Edge)
    BY EmptySeq DEF Spread, MappingType
  <2> QED  BY <2>1, <2>2, PushAwaited DEF ObserveSiteExplanation
<1>6. ASSUME nilability[s] = Nilness(~e.val)
      PROVE  Overconstraint(s, e) \in conflicts'
  BY <1>1, <1>6 DEF ObserveSiteExplanation, Nilness, IsDetermined
<1>7. ASSUME ~(nilability[s] = Nilness(~e.val))
      PROVE  nilability'[s] = Nilness(e.val)
  BY <1>1, <1>7 DEF ObserveSiteExplanation, StoreDetermined, mapping, MappingType
<1>8. CASE e.val
  <2>1. c = s /\ ~Open(c)' /\ c \in Site
    BY <1>3, <1>8 DEF Open, IsDetermined
  <2>2. ASSUME ConsumerIsNonnil(t)', Open(p)'
        PROVE  Awaited(t, FALSE, callStack')
    <3>1. p # s /\ p \in Site /\ Open(p)
      BY <1>3, <1>4, <2>2 DEF Open, IsDetermined
    <3>2. nilability'[s] = "nonnil"
      BY <2>1, <2>2, EndsAssumption DEF ConsumerIsNonnil, FixedConsumer
    <3>3. nilability[s] = "nonnil"
      BY <1>1, <1>7, <1>8, <3>2 DEF Nilness
    <3>4. ConsumerIsNonnil(t)
      BY <2>1, <3>3 DEF ConsumerIsNonnil
    <3> QED  BY <1>5, <1>8, <3>1, <3>4
  <2>3. ASSUME ConsumerIsNonnil(t)'
        PROVE  ReportedIn(t)'
    <3>1. nilability'[s] = "nonnil"
      BY <2>1, <2>3, EndsAssumption DEF ConsumerIsNonnil, FixedConsumer
    <3>2. Overconstraint(s, e) \in conflicts'
      BY <1>1, <1>6, <1>7, <1>8, <3>1 DEF Nilness
    <3>3. Overconstraint(s, e).nilPath = e.chain
      BY <1>8 DEF Overconstraint
    <3> QED  BY <1>1, <3>2, <3>3 DEF ReportedIn, Reports
  <2> QED  BY <2>1, <2>2, <2>3 DEF Settled
<1>9. CASE ~e.val
  <2>1. p = s /\ ~Open(p)' /\ p \in Site
    BY <1>3, <1>9 DEF Open, IsDetermined
  <2>2. ASSUME ProducerIsNil(t)', Open(c)'
        PROVE  Awaited(t, TRUE, callStack')
    <3>1. c # s /\ c \in Site /\ Open(c)
      BY <1>3, <1>4, <2>2 DEF Open, IsDetermined
    <3>2. nilability'[s] = "nilable"
      BY <2>1, <2>2, EndsAssumption DEF ProducerIsNil, FixedProducer
    <3>3. nilability[s] = "nilable"
      BY <1>1, <1>7, <1>9, <3>2 DEF Nilness
    <3>4. ProducerIsNil(t)
      BY <2>1, <3>3 DEF ProducerIsNil
    <3> QED  BY <1>5, <1>9, <3>1, <3>4
  <2>3. ASSUME ProducerIsNil(t)'
        PROVE  ReportedIn(t)'
    <3>1. nilability'[s] = "nilable"
      BY <2>1, <2>3, EndsAssumption DEF ProducerIsNil, FixedProducer
    <3>2. Overconstraint(s, e) \in conflicts'
      BY <1>1, <1>6, <1>7, <1>9, <3>1 DEF Nilness
    <3>3. Overconstraint(s, e).nonnilPath = e.chain
      BY <1>9 DEF Overconstraint
    <3> QED  BY <1>1, <3>2, <3>3 DEF ReportedIn, Reports
  <2> QED  BY <2>1, <2>2, <2>3 DEF Settled
<1> QED  BY <1>1, <1>8, <1>9

LeadTo(edges, s) == \E i \in DOMAIN edges : edges[i].site = s

LEMMA StoreEdgeSites ==
  ASSUME NEW edges \in Seq(Edge), NEW s, NEW t
  PROVE  /\ LeadTo(StoreEdge(edges, s, t), s)
         /\ \A r : LeadTo(edges, r) => LeadTo(StoreEdge(edges, s, t), r)
<1> DEFINE edge == [site |-> s, assertion |-> t]
<1>1. CASE \E i \in DOMAIN edges : edges[i].site = s
  BY <1>1 DEF StoreEdge, LeadTo
<1>2. CASE ~\E i \in DOMAIN edges : edges[i].site = s
  <2>1. DOMAIN edges = 1..Len(edges) /\ Len(edges) \in Nat
    BY LenProperties
  <2>2. edges \in Seq(Edge \cup {edge}) /\ edge \in Edge \cup {edge}
    BY SeqMonotonic
  <2>3. /\ DOMAIN Append(edges, edge) = 1..(Len(edges) + 1)
        /\ \A i \in 1..Len(edges) : Append(edges, edge)[i] = edges[i]
        /\ Append(edges, edge)[Len(edges) + 1] = edge
    BY <2>2, AppendProperties, LenProperties
  <2>4. /\ \A i \in 1..Len(edges) : i \in 1..(Len(edges) + 1)
        /\ Len(edges) + 1 \in 1..(Len(edges) + 1)
    BY <2>1
  <2> QED  BY <1>2, <2>1, <2>3, <2>4 DEF StoreEdge, LeadTo
<1> QED  BY <1>1, <1>2

LEMMA UnchangedSettled ==
  ASSUME NEW t, NEW below, Settled(t, below), callStack' = below, UNCHANGED mapping,
         conflicts \subseteq conflicts'
  PROVE  Settled(t, callStack)'
BY DEF Settled, Open, IsDetermined, ProducerIsNil, ConsumerIsNonnil, ReportedIn, HasEdge, mapping

LEMMA StoreImplicationSettles ==
  ASSUME MappingType, NEW p \in Site, NEW c \in Site, NEW u, NEW below,
         ~IsDetermined(p), ~IsDetermined(c), StoreImplication(p, c, u),
         callStack' = below, UNCHANGED conflicts,
         NEW t, Settled(t, below) \/ (t.producer = p /\ t.consumer = c)
  PROVE  Settled(t, callStack)'
<1>1. /\ \A r : Open(r)' <=> Open(r)
      /\ \A r \in Site : nilability'[r] = "nilable" <=> nilability[r] = "nilable"
      /\ \A r \in Site : nilability'[r] = "nonnil" <=> nilability[r] = "nonnil"
  BY DEF Open, IsDetermined, StoreImplication, MappingType
<1>2. /\ \A r \in Site :
           implicates'[r] = IF r = p THEN StoreEdge(implicates[p], c, u) ELSE implicates[r]
      /\ \A r \in Site :
           implicants'[r] = IF r = c THEN StoreEdge(implicants[c], p, u) ELSE implicants[r]
      /\ implicates[p] \in Seq(Edge) /\ implicants[c] \in Seq(Edge)
  BY DEF StoreImplication, MappingType
<1>3. HasEdge(p, c)'
  <2>1. LeadTo(implicates'[p], c) /\ LeadTo(implicants'[c], p)
    BY <1>2, StoreEdgeSites
  <2> QED  BY <2>1 DEF HasEdge, LeadTo
<1>4. ASSUME NEW q \in Site, NEW r \in Site, HasEdge(q, r)
      PROVE  HasEdge(q, r)'
  <2>0. LeadTo(implicates[q], r) /\ LeadTo(implicants[r], q)
    BY <1>4 DEF HasEdge, LeadTo
  <2>1. LeadTo(implicates'[q], r)
    BY <1>2, <2>0, StoreEdgeSites
  <2>2. LeadTo(implicants'[r], q)
    BY <1>2, <2>0, StoreEdgeSites
  <2> QED  BY <2>1, <2>2 DEF HasEdge, LeadTo
<1>5. /\ ProducerIsNil(t)' <=> ProducerIsNil(t)
      /\ ConsumerIsNonnil(t)' <=> ConsumerIsNonnil(t)
  BY <1>1 DEF ProducerIsNil, ConsumerIsNonnil
<1>6. CASE Settled(t, below)
  BY <1>1, <1>4, <1>5, <1>6 DEF Settled, ReportedIn, Open
<1>7. CASE t.producer = p /\ t.consumer = c
  <2>1. Open(p)' /\ Open(c)'
    BY <1>1 DEF Open
  <2>2. ~ProducerIsNil(t)' /\ ~ConsumerIsNonnil(t)'
    BY <1>5, <1>7, EndsAssumption
    DEF ProducerIsNil, ConsumerIsNonnil, FixedProducer, FixedConsumer, IsDetermined
  <2> QED  BY <1>3, <1>7, <2>2 DEF Settled
<1> QED  BY <1>6, <1>7

\* The constraint that a call of buildFromSingleFullTrigger observes is settled
\* by it, and the others stay settled.
LEMMA ObserveImplicationSettles ==
  ASSUME MappingType, NEW obs \in SUBSET Constraint, GraphReal(obs),
         \A r \in Site : controlledTriggersBySite[r] \subseteq Trigger,
         NEW u \in Constraint, u.producer \in Site, u.consumer \in Site,
         NEW below \in Seq(LiveFrame),
         ObserveImplication(u.producer, u.consumer, u, below),
         NEW t \in Constraint, Settled(t, below) \/ t = u
  PROVE  Settled(t, callStack)'
<1> DEFINE p == u.producer
           c == u.consumer
<1>1. CASE /\ nilability[p] = "nilable"
           /\ ObserveSiteExplanation(c, BecauseDeep(Explained(p), u), below)
  <2> DEFINE e == BecauseDeep(Explained(p), u)
  <2>1. Explained(p) \in SomeExplained /\ Explained(p).val = TRUE
    BY <1>1, ExplainedType DEF IsDetermined, Explained
  <2>2. e \in SomeExplained /\ e.val = TRUE
    BY <2>1, BecauseType DEF BecauseDeep
  <2>3. e.chain[Len(e.chain)] = u
    BY <2>1, AppendProperties DEF BecauseDeep, SomeExplained, ExplainedBool
  <2>4. ~Open(p)
    BY <1>1 DEF Open, IsDetermined
  <2>5. CASE Settled(t, below)
    BY <1>1, <2>2, <2>5, SiteExplanationKeepsSettled
  <2>6. CASE t = u
    BY <1>1, <2>2, <2>3, <2>4, <2>6, SiteExplanationSettles DEF SameEnds
  <2> QED  BY <2>5, <2>6
<1>2. CASE /\ ~IsDetermined(p) /\ nilability[c] = "nonnil"
           /\ ObserveSiteExplanation(p, BecauseDeep(Explained(c), u), below)
  <2> DEFINE e == BecauseDeep(Explained(c), u)
  <2>1. Explained(c) \in SomeExplained /\ Explained(c).val = FALSE
    BY <1>2, ExplainedType DEF IsDetermined, Explained
  <2>2. e \in SomeExplained /\ e.val = FALSE
    BY <2>1, BecauseType DEF BecauseDeep
  <2>3. e.chain[Len(e.chain)] = u
    BY <2>1, AppendProperties DEF BecauseDeep, SomeExplained, ExplainedBool
  <2>4. ~Open(c)
    BY <1>2 DEF Open, IsDetermined
  <2>5. CASE Settled(t, below)
    BY <1>2, <2>2, <2>5, SiteExplanationKeepsSettled
  <2>6. CASE t = u
    BY <1>2, <2>2, <2>3, <2>4, <2>6, SiteExplanationSettles DEF SameEnds
  <2> QED  BY <2>5, <2>6
<1>3. CASE /\ nilability[p] = "nonnil" \/ (~IsDetermined(p) /\ nilability[c] = "nilable")
           /\ callStack' = below
           /\ UNCHANGED <<mapping, conflicts>>
  <2>1. Settled(u, below)
    BY <1>3, EndsAssumption
    DEF Settled, Open, IsDetermined, ProducerIsNil, ConsumerIsNonnil, FixedProducer, FixedConsumer
  <2> QED  BY <1>3, <2>1, UnchangedSettled
<1>4. CASE /\ ~IsDetermined(p) /\ ~IsDetermined(c)
           /\ StoreImplication(p, c, u)
           /\ callStack' = below
           /\ UNCHANGED conflicts
  BY <1>4, StoreImplicationSettles
<1> QED  BY <1>1, <1>2, <1>3, <1>4 DEF ObserveImplication

LEMMA BuildFromSingleFullTriggerSettles ==
  ASSUME MappingType, NEW obs \in SUBSET Constraint, GraphReal(obs),
         \A r \in Site : controlledTriggersBySite[r] \subseteq Trigger,
         NEW u \in Trigger, NEW below \in Seq(LiveFrame),
         BuildFromSingleFullTrigger(u, below),
         NEW t \in Constraint, Settled(t, below) \/ t = u
  PROVE  Settled(t, callStack)'
<1>0. u \in Constraint /\ \A val \in BOOLEAN : BecauseShallow(val, u) \in SomeExplained
  BY BecauseType DEF Constraint
<1>1. \A val \in BOOLEAN : /\ BecauseShallow(val, u).val = val
                           /\ BecauseShallow(val, u).chain[Len(BecauseShallow(val, u).chain)] = u
  BY DEF BecauseShallow
<1>2. CASE /\ u.producer = Nil /\ u.consumer = Deref
           /\ conflicts' = conflicts \cup {SingleAssertion(u)}
           /\ callStack' = below
           /\ UNCHANGED mapping
  <2>1. CASE Settled(t, below)
    BY <1>2, <2>1, UnchangedSettled
  <2>2. CASE t = u
    <3>1. Reports(SingleAssertion(u), u)
      BY DEF Reports, SingleAssertion, SameEnds
    <3>2. ReportedIn(t)'
      BY <1>2, <2>2, <3>1 DEF ReportedIn
    <3>3. ~Open(u.producer)' /\ ~Open(u.consumer)'
      BY <1>2, EndsAssumption DEF Open
    <3> QED  BY <2>2, <3>2, <3>3 DEF Settled
  <2> QED  BY <2>1, <2>2
<1>3. CASE /\ u.producer = Nil /\ u.consumer \in Site
           /\ ObserveSiteExplanation(u.consumer, BecauseShallow(TRUE, u), below)
  <2>1. CASE Settled(t, below)
    BY <1>0, <1>3, <2>1, SiteExplanationKeepsSettled
  <2>2. CASE t = u
    <3>1. ~Open(u.producer)
      BY <1>3, EndsAssumption DEF Open
    <3> QED  BY <1>0, <1>1, <1>3, <2>2, <3>1, SiteExplanationSettles DEF SameEnds
  <2> QED  BY <2>1, <2>2
<1>4. CASE /\ u.producer \in Site /\ u.consumer = Deref
           /\ ObserveSiteExplanation(u.producer, BecauseShallow(FALSE, u), below)
  <2>1. CASE Settled(t, below)
    BY <1>0, <1>4, <2>1, SiteExplanationKeepsSettled
  <2>2. CASE t = u
    <3>1. ~Open(u.consumer)
      BY <1>4, EndsAssumption DEF Open
    <3> QED  BY <1>0, <1>1, <1>4, <2>2, <3>1, SiteExplanationSettles DEF SameEnds
  <2> QED  BY <2>1, <2>2
<1>5. CASE /\ u.producer \in Site /\ u.consumer \in Site
           /\ ObserveImplication(u.producer, u.consumer, u, below)
  BY <1>0, <1>5, ObserveImplicationSettles
<1>6. CASE /\ u.producer = Never
           /\ callStack' = below
           /\ UNCHANGED <<mapping, conflicts>>
  <2>1. ~ProducerIsNil(u) /\ ~Open(u.producer)
    BY <1>6, EndsAssumption DEF ProducerIsNil, FixedProducer, Open
  <2>2. Settled(u, below)
    BY <2>1 DEF Settled
  <2> QED  BY <1>6, <2>2, UnchangedSettled
<1> QED  BY <1>2, <1>3, <1>4, <1>5, <1>6 DEF BuildFromSingleFullTrigger

SettledInv == \A t \in observed : Settled(t, callStack)

\* A step settles the constraint that it observes, and no step unsettles one.
LEMMA WorkSettles ==
  ASSUME EngineType, Work \/ UNCHANGED vars,
         NEW obs \in SUBSET Constraint, GraphReal(obs), callStack \in Seq(RealFrame(obs)),
         NEW t \in Constraint, Settled(t, callStack) \/ t \in observed' \ observed
  PROVE  Settled(t, callStack)'
<1>2. /\ MappingType
      /\ callStack \in Seq(LiveFrame) /\ <<>> \in Seq(LiveFrame)
      /\ \A r \in Site : controlledTriggersBySite[r] \subseteq Trigger
  BY EmptySeq DEF EngineType, GraphType
<1>5. t \notin observed' \/ t \in observed => Settled(t, callStack)
  OBVIOUS
<1>6. CASE ObserveAnnotation
  <2>1. PICK a \in Annotation :
          LET u == AnnotationConstraint(a)
          IN  /\ observed' = observed \cup {u}
              /\ IF u.producer = Annotated
                 THEN ObserveSiteExplanation(u.consumer, BecauseShallow(TRUE, u), <<>>)
                 ELSE ObserveSiteExplanation(u.producer, BecauseShallow(FALSE, u), <<>>)
    BY <1>6 DEF ObserveAnnotation, EngineType, PendingType
  <2> DEFINE u == AnnotationConstraint(a)
  <2>2. u \in Constraint /\ \A val \in BOOLEAN : BecauseShallow(val, u) \in SomeExplained
    BY AnnotationConstraintType, BecauseType
  <2>3. \A val \in BOOLEAN : /\ BecauseShallow(val, u).val = val
                             /\ BecauseShallow(val, u).chain[Len(BecauseShallow(val, u).chain)] = u
    BY DEF BecauseShallow
  <2>4. callStack = <<>>
    BY <1>6 DEF ObserveAnnotation, Quiescent
  <2>5. Settled(t, <<>>) \/ t = u
    BY <1>5, <2>1, <2>4
  <2>6. CASE u.producer = Annotated
    <3>1. u.consumer \in Site /\ ~Open(u.producer)
      BY <2>6, AnnotationConstraintType, EndsAssumption DEF Open
    <3>2. ObserveSiteExplanation(u.consumer, BecauseShallow(TRUE, u), <<>>)
      BY <2>1, <2>6
    <3>3. CASE Settled(t, <<>>)
      BY <1>2, <2>2, <3>1, <3>2, <3>3, SiteExplanationKeepsSettled
    <3>4. CASE t = u
      BY <1>2, <2>2, <2>3, <3>1, <3>2, <3>4, SiteExplanationSettles DEF SameEnds
    <3> QED  BY <2>5, <3>3, <3>4
  <2>7. CASE u.producer # Annotated
    <3>1. u.producer \in Site /\ ~Open(u.consumer)
      BY <2>7, AnnotationConstraintType, EndsAssumption DEF Open, AnnotationConstraint
    <3>2. ObserveSiteExplanation(u.producer, BecauseShallow(FALSE, u), <<>>)
      BY <2>1, <2>7
    <3>3. CASE Settled(t, <<>>)
      BY <1>2, <2>2, <3>1, <3>2, <3>3, SiteExplanationKeepsSettled
    <3>4. CASE t = u
      BY <1>2, <2>2, <2>3, <3>1, <3>2, <3>4, SiteExplanationSettles DEF SameEnds
    <3> QED  BY <2>5, <3>3, <3>4
  <2> QED  BY <2>6, <2>7
<1>7. CASE ObserveTrigger
  <2>1. PICK u \in pending : BuildFromSingleFullTrigger(u, <<>>)
    BY <1>7 DEF ObserveTrigger
  <2>2. u \in Trigger /\ callStack = <<>> /\ observed' = observed \cup {u}
    BY <1>7, <2>1 DEF EngineType, PendingType, ObserveTrigger, Quiescent, BuildFromSingleFullTrigger
  <2>3. Settled(t, <<>>) \/ t = u
    BY <1>5, <2>2
  <2> QED  BY <1>2, <2>1, <2>2, <2>3, BuildFromSingleFullTriggerSettles
<1>8. CASE ActivateControlled
  <2>1. callStack # <<>>
    BY <1>8 DEF ActivateControlled, Quiescent
  <2>2. PICK u \in Head(callStack).triggers :
          BuildFromSingleFullTrigger(
            u, Push([Head(callStack) EXCEPT !.triggers = @ \ {u}], Tail(callStack)))
    BY <1>8 DEF ActivateControlled
  <2> DEFINE below == Push([Head(callStack) EXCEPT !.triggers = @ \ {u}], Tail(callStack))
  <2>3. u \in Trigger /\ below \in Seq(LiveFrame) /\ observed' = observed \cup {u}
    BY <1>2, <2>1, <2>2, FrameType DEF LiveFrame, Frame, BuildFromSingleFullTrigger
  <2>4. \A val : Awaited(t, val, callStack) => Awaited(t, val, below)
    BY <1>2, <2>1, RestAwaited
  <2>5. Settled(t, below) \/ t = u
    BY <1>5, <2>3, <2>4 DEF Settled
  <2> QED  BY <1>2, <2>2, <2>3, <2>5, BuildFromSingleFullTriggerSettles
<1>9. CASE Propagate
  <2> DEFINE frame == Head(callStack)
             edge == Head(frame.edges)
             e == BecauseDeep(frame.explained, edge.assertion)
             below == Push([frame EXCEPT !.edges = Tail(@)], Tail(callStack))
  <2>1. callStack # <<>> /\ frame.triggers = {} /\ Settled(t, callStack)
    BY <1>5, <1>9 DEF Propagate, Quiescent
  <2>2. /\ edge.site \in Site /\ e \in SomeExplained /\ below \in Seq(LiveFrame)
        /\ edge.assertion \in Constraint /\ frame.explained \in SomeExplained
    BY <1>2, <2>1, FrameType, BecauseType DEF LiveFrame, Edge
  <2>3. e.val = frame.explained.val /\ e.val \in BOOLEAN /\ e.chain[Len(e.chain)] = edge.assertion
    BY <2>2, AppendProperties DEF BecauseDeep, SomeExplained, ExplainedBool
  <2>4. ObserveSiteExplanation(edge.site, e, below)
    BY <1>9 DEF Propagate
  <2>5. \A val : Awaited(t, val, callStack) =>
          Awaited(t, val, below) \/ (e.val = val /\ SameEnds(edge.assertion, t))
    BY <1>2, <2>1, <2>3, RestAwaited
  <2>6. CASE ~SameEnds(edge.assertion, t)
    <3>1. Settled(t, below)
      BY <1>5, <2>1, <2>5, <2>6 DEF Settled
    <3> QED  BY <1>2, <2>2, <2>4, <3>1, SiteExplanationKeepsSettled
  <2>7. CASE SameEnds(edge.assertion, t)
    <3>1. PICK s \in Site : RealEdge(edge, e.val, s, obs)
      <4>1. frame \in RealFrame(obs)
        BY <2>1, HeadTailProperties
      <4>2. frame.edges # <<>> /\ frame.edges \in Seq(Edge)
        BY <2>1, <4>1 DEF RealFrame, LiveFrame, Frame
      <4>3. edge = frame.edges[1] /\ 1 \in DOMAIN frame.edges
        BY <4>2, LenProperties, EmptySeq
      <4> QED  BY <2>3, <4>1, <4>3 DEF RealFrame
    <3>2. /\ e.val => t.consumer = edge.site
          /\ ~e.val => t.producer = edge.site
      BY <2>3, <2>7, <3>1 DEF RealEdge, SameEnds
    <3>3. /\ e.val => (ConsumerIsNonnil(t) /\ Open(t.producer) => Awaited(t, FALSE, below))
          /\ ~e.val => (ProducerIsNil(t) /\ Open(t.consumer) => Awaited(t, TRUE, below))
      BY <1>5, <2>1, <2>3, <2>5 DEF Settled
    <3> QED
      BY <1>2, <2>2, <2>3, <2>4, <2>7, <3>2, <3>3, SiteExplanationSettles
  <2> QED  BY <2>6, <2>7
<1>10. CASE UNCHANGED <<mapping, callStack, conflicts, observed>>
  BY <1>5, <1>10, UnchangedSettled
<1> QED
  BY <1>6, <1>7, <1>8, <1>9, <1>10
  DEF Work, ObservePackage, ObserveNonErrRet, Finish, vars

LEMMA SettledInvStep ==
  ASSUME TypeInv, RealInv, SettledInv, [Next]_vars
  PROVE  SettledInv'
<1>1. PICK obs : obs = observed
  OBVIOUS
<1>2. /\ EngineType /\ (Work \/ UNCHANGED vars) /\ observed' \subseteq Constraint
      /\ obs \in SUBSET Constraint
  BY <1>1, TypeInvStep DEF TypeInv, TypeOK, Next, Work, Finished
<1>3. GraphReal(obs) /\ callStack \in Seq(RealFrame(obs))
  BY <1>1 DEF RealInv
<1>4. \A t \in observed' : Settled(t, callStack) \/ t \in observed' \ observed
  BY DEF SettledInv
<1>5. \A t \in observed' : Settled(t, callStack)'
  BY <1>2, <1>3, <1>4, WorkSettles
<1> QED  BY <1>5 DEF SettledInv

EngineInv == TypeInv /\ RealInv /\ SettledInv

LEMMA EngineInvariant == Spec => []EngineInv
<1>1. Init => EngineInv
  BY TypeInvInit, RealInvInit DEF EngineInv, SettledInv, Init, NewEngine
<1>2. EngineInv /\ [Next]_vars => EngineInv'
  BY TypeInvStep, RealInvStep, SettledInvStep DEF EngineInv
<1> QED  BY <1>1, <1>2, PTL DEF Spec

LEMMA QuiescentSettled ==
  ASSUME EngineInv, Quiescent
  PROVE  \A t \in observed : AccountedFor(t)
<1> SUFFICES ASSUME NEW t \in observed
             PROVE  AccountedFor(t)
  OBVIOUS
<1>1. \A val : ~Awaited(t, val, callStack)
  BY DEF Quiescent, Awaited
<1>2. Settled(t, callStack)
  BY DEF EngineInv, SettledInv
<1> QED  BY <1>1, <1>2 DEF Settled, Open, ReportedIn, AccountedFor

\* Nothing is forgotten: between two triggers every observed constraint has
\* reached both its ends, is reported if the map breaks it, or is an edge.
THEOREM NothingForgotten == Spec => []EveryConstraintAccountedFor
<1>1. EngineInv => EveryConstraintAccountedFor
  BY QuiescentSettled DEF EveryConstraintAccountedFor
<1> QED  BY <1>1, EngineInvariant, PTL

-----------------------------------------------------------------------------
(****************************************************************************)
(* What the two invariants say together.                                    *)
(****************************************************************************)

LEMMA ConstraintEnds ==
  ASSUME NEW t \in Constraint
  PROVE  /\ t.producer \in Site \cup {Nil, Never, Annotated}
         /\ t.consumer \in Site \cup {Deref, Annotated}
BY TriggerAssumption DEF Constraint, FullTrigger, AnnotationConstraint, Annotation

\* Without conflicts the nilable sites are a solution, and so are the sites
\* that are not nonnil.
LEMMA AccountedSolutions ==
  ASSUME NEW accounted \in SUBSET Constraint, \A t \in accounted : AccountedFor(t),
         conflicts = {}
  PROVE  /\ {s \in Site : nilability[s] = "nilable"} \in Solutions(accounted)
         /\ {s \in Site : nilability[s] # "nonnil"} \in Solutions(accounted)
<1>1. ASSUME NEW t \in accounted
      PROVE  /\ Satisfies({s \in Site : nilability[s] = "nilable"}, t)
             /\ Satisfies({s \in Site : nilability[s] # "nonnil"}, t)
  <2>1. t.producer \in Site \cup {Nil, Never, Annotated} /\ t.consumer \in Site \cup {Deref, Annotated}
    BY ConstraintEnds
  <2>2. AccountedFor(t)
    OBVIOUS
  <2>3. ~(ProducerIsNil(t) /\ ConsumerIsNonnil(t))
    BY <2>2 DEF AccountedFor
  <2>4. CASE ProducerIsNil(t)
    <3>1. t.consumer \in Site /\ IsDetermined(t.consumer)
      BY <2>1, <2>2, <2>3, <2>4 DEF AccountedFor, ConsumerIsNonnil, FixedConsumer
    <3>2. nilability[t.consumer] = "nilable"
      BY <2>3, <2>4, <3>1 DEF IsDetermined, ConsumerIsNonnil
    <3> QED  BY <3>1, <3>2 DEF Satisfies
  <2>5. CASE ~ProducerIsNil(t)
    <3>1. t.producer \notin FixedProducer
          /\ (t.producer \in Site => nilability[t.producer] # "nilable")
      BY <2>5 DEF ProducerIsNil
    <3>2. CASE ConsumerIsNonnil(t)
      <4>1. t.producer \in Site => nilability[t.producer] = "nonnil"
        BY <2>2, <3>1, <3>2 DEF AccountedFor, IsDetermined
      <4> QED  BY <3>1, <4>1 DEF Satisfies
    <3>3. CASE ~ConsumerIsNonnil(t)
      BY <2>1, <3>1, <3>3 DEF Satisfies, ConsumerIsNonnil, FixedConsumer
    <3> QED  BY <3>2, <3>3
  <2> QED  BY <2>4, <2>5
<1> QED  BY <1>1 DEF Solutions

LEMMA QuiescentSolutions ==
  ASSUME EngineInv, Quiescent, conflicts = {}
  PROVE  /\ {s \in Site : nilability[s] = "nilable"} \in Solutions(observed)
         /\ {s \in Site : nilability[s] # "nonnil"} \in Solutions(observed)
<1>1. observed \in SUBSET Constraint
  BY DEF EngineInv, TypeInv, TypeOK
<1> QED  BY <1>1, QuiescentSettled, AccountedSolutions

LEMMA QuiescentConflicts ==
  ASSUME EngineInv, Quiescent
  PROVE  conflicts = {} <=> Solutions(observed) # {}
<1>1. ASSUME conflicts = {}
      PROVE  Solutions(observed) # {}
  BY <1>1, QuiescentSolutions
<1>2. ASSUME conflicts # {}
      PROVE  Solutions(observed) = {}
  BY <1>2 DEF EngineInv, RealInv, GraphReal, RealConflict
<1> QED  BY <1>1, <1>2

\* The verdict of the engine is right for every package: between two triggers
\* it has recorded a conflict if and only if the constraints observed so far
\* have no solution, whatever their order and the cycles of the graph.
THEOREM VerdictIsExact == Spec => []ErrorsExactlyWhenNilFlow
<1>1. EngineInv => ErrorsExactlyWhenNilFlow
  BY QuiescentConflicts DEF ErrorsExactlyWhenNilFlow
<1> QED  BY <1>1, EngineInvariant, PTL

LEMMA QuiescentDetermined ==
  ASSUME EngineInv, Quiescent, conflicts = {}, NEW s \in Site
  PROVE  /\ nilability[s] = "nilable" <=> \A N \in Solutions(observed) : s \in N
         /\ nilability[s] = "nonnil" <=> \A N \in Solutions(observed) : s \notin N
<1>1. IsDetermined(s) => Forced(nilability[s] = "nilable", s, observed)
  BY DEF EngineInv, RealInv, GraphReal, RealExplanation, Explained
<1>2. ASSUME nilability[s] = "nilable"
      PROVE  \A N \in Solutions(observed) : s \in N
  BY <1>1, <1>2 DEF IsDetermined, Forced
<1>3. ASSUME nilability[s] = "nonnil"
      PROVE  \A N \in Solutions(observed) : s \notin N
  BY <1>1, <1>3 DEF IsDetermined, Forced
<1>4. ASSUME nilability[s] # "nilable"
      PROVE  \E N \in Solutions(observed) : s \notin N
  BY <1>4, QuiescentSolutions
<1>5. ASSUME nilability[s] # "nonnil"
      PROVE  \E N \in Solutions(observed) : s \in N
  BY <1>5, QuiescentSolutions
<1> QED  BY <1>2, <1>3, <1>4, <1>5

\* Without conflicts the engine has determined what the constraints force and
\* nothing else, so a site it exports as undetermined really is open.
THEOREM DeterminedIsExact == Spec => []DeterminedExactlyWhenForced
<1>1. EngineInv => DeterminedExactlyWhenForced
  BY QuiescentDetermined DEF DeterminedExactlyWhenForced
<1> QED  BY <1>1, EngineInvariant, PTL

-----------------------------------------------------------------------------
(****************************************************************************)
(* The error contract.  When the second batch is built, the first one is    *)
(* settled, so what the map says of an error is what the constraints force; *)
(* and from then on only non-error returns are observed.                    *)
(****************************************************************************)

\* Whether t belongs to those that are taken up is right for the contexts.
RightlyDecided(t, taken, contexts) ==
  IF t \in taken
  THEN ErrRetProducers(t.at) = {} \/ \A N \in contexts : ErrRetProducers(t.at) \cap N # {}
  ELSE ErrRetProducers(t.at) # {} /\ \E N \in contexts : ErrRetProducers(t.at) \cap N = {}

PackageAnnotations == {AnnotationConstraint(a) : a \in pkg.annotations}

\* The triggers of the first batch.
FirstBatch == {t \in OtherTriggers : t.controller = None}

ErrorInv ==
  /\ pending \cup observed \subseteq KeptTriggers \cup PackageAnnotations
  /\ stage \in {"annotations", "otherTriggers"} =>
       /\ \A r \in Site : controlledTriggersBySite[r] \subseteq OtherTriggers
       /\ callStack \in Seq(FrameWithin(OtherTriggers))
       /\ (pending \cup observed) \cap NonErrRetTriggers = {}
  /\ stage = "otherTriggers" => FirstBatch \subseteq pending \cup observed
  /\ stage \in {"nonErrRetTriggers", "done"} =>
       /\ \A r \in Site : controlledTriggersBySite[r] \subseteq {}
       /\ callStack \in Seq(FrameWithin({}))
       /\ pending \subseteq NonErrRetTriggers
       /\ FirstBatch \subseteq observed
       /\ Solutions(observed \ NonErrRetTriggers) # {} =>
            \A t \in NonErrRetTriggers :
              RightlyDecided(t, observed \cup pending, Solutions(observed \ NonErrRetTriggers))
  /\ stage = "done" => pending = {} /\ Quiescent

\* The triggers that are kept, and the error returns, depend on the package only.
LEMMA TriggersFixed ==
  ASSUME UNCHANGED pkg
  PROVE  /\ OtherTriggers' = OtherTriggers /\ NonErrRetTriggers' = NonErrRetTriggers
         /\ FirstBatch' = FirstBatch /\ KeptTriggers' = KeptTriggers
         /\ PackageAnnotations' = PackageAnnotations
         /\ \A stmt : ErrRetProducers(stmt)' = ErrRetProducers(stmt)
BY DEF OtherTriggers, NonErrRetTriggers, FirstBatch, ErrRetProducers, KeptTriggers, AlwaysSafe,
       PackageAnnotations

LEMMA TriggerKinds ==
  ASSUME pkg \in [triggers : SUBSET Trigger, annotations : SUBSET Annotation]
  PROVE  /\ OtherTriggers \in SUBSET Trigger /\ NonErrRetTriggers \in SUBSET Trigger
         /\ OtherTriggers \cap NonErrRetTriggers = {}
         /\ KeptTriggers = OtherTriggers \cup NonErrRetTriggers
         /\ \A t \in NonErrRetTriggers : t.controller = None
         /\ \A a \in Annotation : AnnotationConstraint(a) \notin NonErrRetTriggers
BY ControlAssumption
DEF OtherTriggers, NonErrRetTriggers, KeptTriggers, AnnotationConstraint

LEMMA ErrorInvInit ==
  ASSUME Init
  PROVE  ErrorInv
<1>1. pkg \in [triggers : SUBSET Trigger, annotations : SUBSET Annotation]
  BY PackageAssumption DEF Init
<1>2. /\ stage = "annotations" /\ observed = {} /\ callStack = <<>>
      /\ \A r \in Site : controlledTriggersBySite[r] = {}
      /\ pending = PackageAnnotations
  BY <1>1 DEF Init, NewEngine, PackageAnnotations
<1>3. pending \cap NonErrRetTriggers = {}
  BY <1>1, <1>2, TriggerKinds DEF PackageAnnotations
<1> QED  BY <1>2, <1>3, EmptySeq DEF ErrorInv

\* The decision about a return statement, taken from the map of the first batch.
LEMMA DecisionRight ==
  ASSUME EngineInv, Quiescent, Solutions(observed) # {}, observed \cap NonErrRetTriggers = {},
         NEW t \in NonErrRetTriggers
  PROVE  RightlyDecided(t, observed \cup FilteredTriggers, Solutions(observed \ NonErrRetTriggers))
<1> DEFINE Errors == ErrRetProducers(t.at)
           N1 == {s \in Site : nilability[s] = "nilable"}
<1>1. observed \ NonErrRetTriggers = observed /\ t \notin observed /\ conflicts = {}
  BY QuiescentConflicts
<1>2. Errors \subseteq Site
  BY DEF ErrRetProducers
<1>3. CASE ErrorIsNonNil(t.at)
  <2>1. t \notin observed \cup FilteredTriggers
    BY <1>1, <1>3 DEF FilteredTriggers
  <2>2. N1 \in Solutions(observed)
    BY <1>1, QuiescentSolutions
  <2>3. Errors # {} /\ Errors \cap N1 = {}
    BY <1>3 DEF ErrorIsNonNil
  <2> QED  BY <1>1, <2>1, <2>2, <2>3 DEF RightlyDecided
<1>4. CASE ~ErrorIsNonNil(t.at)
  <2>1. t \in observed \cup FilteredTriggers
    BY <1>4 DEF FilteredTriggers
  <2>2. Errors = {} \/ \E p \in Errors : nilability[p] = "nilable"
    BY <1>4 DEF ErrorIsNonNil
  <2>3. Errors = {} \/ \E p \in Errors : \A N \in Solutions(observed) : p \in N
    BY <1>1, <1>2, <2>2, QuiescentDetermined
  <2> QED  BY <1>1, <2>1, <2>3 DEF RightlyDecided
<1> QED  BY <1>3, <1>4

LEMMA ErrorInvStep ==
  ASSUME EngineInv, ErrorInv, [Next]_vars
  PROVE  ErrorInv'
<1>1. /\ EngineType /\ (Work \/ UNCHANGED vars) /\ pkg' = pkg
      /\ pkg \in [triggers : SUBSET Trigger, annotations : SUBSET Annotation]
      /\ stage \in {"annotations", "otherTriggers", "nonErrRetTriggers", "done"}
  BY DEF EngineInv, TypeInv, TypeOK, EngineType, Next, Work, Finished, vars, ObserveAnnotation,
         ObservePackage, ObserveTrigger, ObserveNonErrRet, ActivateControlled, Propagate, Finish
<1>2. /\ OtherTriggers' = OtherTriggers /\ NonErrRetTriggers' = NonErrRetTriggers
      /\ FirstBatch' = FirstBatch /\ KeptTriggers' = KeptTriggers
      /\ PackageAnnotations' = PackageAnnotations
      /\ KeptTriggers = OtherTriggers \cup NonErrRetTriggers
      /\ \A t, taken, contexts :
           RightlyDecided(t, taken, contexts) => RightlyDecided(t, taken, contexts)'
  BY <1>1, TriggersFixed, TriggerKinds DEF RightlyDecided
<1>3. CASE ObservePackage
  <2>1. /\ stage = "annotations" /\ stage' = "otherTriggers"
        /\ UNCHANGED <<callStack, observed>>
        /\ pending' \subseteq OtherTriggers /\ FirstBatch \subseteq pending'
        /\ \A r \in Site : controlledTriggersBySite'[r] \subseteq OtherTriggers
    BY <1>3 DEF ObservePackage, BuildPkgInferenceMap, FirstBatch
  <2> QED  BY <1>1, <1>2, <2>1, TriggerKinds DEF ErrorInv
<1>4. CASE ObserveNonErrRet
  <2>1. /\ stage = "otherTriggers" /\ stage' = "nonErrRetTriggers" /\ Quiescent
        /\ pending = {} /\ UNCHANGED <<callStack, observed, conflicts>>
        /\ pending' = {t \in FilteredTriggers : t.controller = None}
        /\ \A r \in Site : controlledTriggersBySite'[r] = {t \in FilteredTriggers : t.controller = r}
    BY <1>4 DEF ObserveNonErrRet, BuildPkgInferenceMap
  <2>2. FilteredTriggers \subseteq NonErrRetTriggers /\ \A r \in Site : r # None
    BY EndsAssumption DEF FilteredTriggers
  <2>3. /\ pending' = FilteredTriggers
        /\ \A r \in Site : controlledTriggersBySite'[r] \subseteq {}
    BY <1>1, <2>1, <2>2, TriggerKinds
  <2>4. observed \cap NonErrRetTriggers = {} /\ FirstBatch \subseteq observed
    BY <2>1 DEF ErrorInv
  <2>5. Solutions(observed \ NonErrRetTriggers) # {} =>
          \A t \in NonErrRetTriggers :
            RightlyDecided(t, observed \cup FilteredTriggers, Solutions(observed \ NonErrRetTriggers))
    <3>1. observed \ NonErrRetTriggers = observed
      BY <2>4
    <3> QED  BY <2>1, <2>4, <3>1, DecisionRight
  <2>6. callStack' \in Seq(FrameWithin({}))
    BY <2>1, EmptySeq DEF Quiescent
  <2> QED  BY <1>2, <2>1, <2>2, <2>3, <2>4, <2>5, <2>6 DEF ErrorInv
<1>5. CASE /\ Work \/ UNCHANGED vars
           /\ UNCHANGED <<stage, controlledTriggersBySite>> /\ pending' \subseteq pending
           /\ pending \subseteq pending' \cup observed' /\ observed \subseteq observed'
  <2>1. CASE stage \in {"annotations", "otherTriggers"}
    <3>1. /\ OtherTriggers \in SUBSET Trigger
          /\ \A r \in Site : controlledTriggersBySite[r] \subseteq OtherTriggers
          /\ callStack \in Seq(FrameWithin(OtherTriggers))
      BY <1>1, <2>1, TriggerKinds DEF ErrorInv
    <3>2. /\ callStack' \in Seq(FrameWithin(OtherTriggers))
          /\ observed' \subseteq observed \cup pending \cup OtherTriggers
      BY <1>1, <3>1, WorkWithin
    <3> QED  BY <1>1, <1>2, <1>5, <2>1, <3>1, <3>2, TriggerKinds DEF ErrorInv
  <2>2. CASE stage \in {"nonErrRetTriggers", "done"}
    <3>1. /\ \A r \in Site : controlledTriggersBySite[r] \subseteq {}
          /\ callStack \in Seq(FrameWithin({})) /\ pending \subseteq NonErrRetTriggers
      BY <2>2 DEF ErrorInv
    <3>2. callStack' \in Seq(FrameWithin({})) /\ observed' \subseteq observed \cup pending \cup {}
      BY <1>1, <3>1, WorkWithin
    <3>4. /\ observed' \cup pending' = observed \cup pending
          /\ observed' \ NonErrRetTriggers = observed \ NonErrRetTriggers
      BY <1>5, <3>1, <3>2
    <3>5. Solutions(observed \ NonErrRetTriggers)' # {} =>
            \A t \in NonErrRetTriggers' :
              RightlyDecided(t, observed \cup pending, Solutions(observed \ NonErrRetTriggers))'
      <4>1. PICK taken, contexts :
              /\ taken = observed \cup pending
              /\ contexts = Solutions(observed \ NonErrRetTriggers)
        OBVIOUS
      <4>2. /\ (observed \cup pending)' = taken
            /\ Solutions(observed \ NonErrRetTriggers)' = contexts
        BY <1>2, <3>4, <4>1 DEF Solutions, Satisfies
      <4>3. contexts # {} => \A t \in NonErrRetTriggers : RightlyDecided(t, taken, contexts)'
        BY <1>2, <2>2, <4>1 DEF ErrorInv
      <4> QED  BY <1>2, <4>2, <4>3 DEF RightlyDecided
    <3>6. ASSUME stage = "done"
          PROVE  Quiescent'
      <4>1. callStack = <<>>
        BY <3>6 DEF ErrorInv, Quiescent
      <4>2. callStack' = callStack
        BY <1>1, <3>6, <4>1
        DEF Work, vars, Quiescent, ObserveAnnotation, ObservePackage, ObserveTrigger,
            ObserveNonErrRet, ActivateControlled, Propagate, Finish
      <4> QED  BY <4>1, <4>2 DEF Quiescent
    <3>7. (pending \cup observed)' \subseteq KeptTriggers' \cup PackageAnnotations'
      BY <1>2, <1>5, <3>2 DEF ErrorInv
    <3> QED  BY <1>2, <1>5, <2>2, <3>1, <3>2, <3>5, <3>6, <3>7 DEF ErrorInv
  <2> QED  BY <1>1, <2>1, <2>2
<1>6. CASE Finish
  <2>1. /\ stage = "nonErrRetTriggers" /\ stage' = "done" /\ pending = {}
        /\ UNCHANGED <<callStack, observed, conflicts, pending, controlledTriggersBySite>>
        /\ Quiescent /\ Quiescent'
    BY <1>6 DEF Finish, Quiescent
  <2> QED  BY <1>2, <2>1 DEF ErrorInv
<1> QED
  BY <1>1, <1>3, <1>4, <1>5, <1>6
  DEF Work, vars, ObserveAnnotation, ObserveTrigger, ActivateControlled, Propagate,
      BuildFromSingleFullTrigger

\* The results of a failing return are dropped exactly when the error cannot be
\* nil there: a dropped one has a solution of the other constraints in which
\* the error is never nil, a kept one none, whatever the order in which
\* FilterTriggersForErrorReturn and the batches see the triggers.
THEOREM ErrorContractHolds == Spec => []ErrorContractFollowed
<1>1. Init => ErrorInv
  BY ErrorInvInit
<1>2. EngineInv /\ ErrorInv /\ [Next]_vars => ErrorInv'
  BY ErrorInvStep
<1>3. ErrorInv => ErrorContractFollowed
  BY DEF ErrorInv, ErrorContractFollowed, RightlyDecided
<1> QED  BY <1>1, <1>2, <1>3, EngineInvariant, PTL DEF Spec

-----------------------------------------------------------------------------
(****************************************************************************)
(* Controlled triggers.  Those observed have a controller that is forced to *)
(* be nilable; and while the table of the first batch stands, those of a    *)
(* controller forced to be nilable are observed, or wait on the call stack. *)
(* Annotations are taken in before the table is built, hence the exception. *)
(****************************************************************************)

ControlInv ==
  /\ \A t \in pending : t.controller = None
  /\ \A s \in Site : \A t \in controlledTriggersBySite[s] : t.controller = s
  /\ \A t \in observed : t.controller # None => Forced(TRUE, t.controller, observed)
  /\ \A t : Waiting(t, callStack) => Forced(TRUE, t.controller, observed)
  /\ stage = "annotations" =>
       /\ \A s \in Site : controlledTriggersBySite[s] = {}
       /\ callStack \in Seq(FrameWithin({}))
       /\ pending \cup observed \subseteq PackageAnnotations
  /\ stage = "otherTriggers" =>
       /\ \A s \in Site : controlledTriggersBySite[s] = {t \in OtherTriggers : t.controller = s}
       /\ \A s \in Site : ForcedNilable(s) /\ ~IsAnnotated(s) =>
            \A t \in controlledTriggersBySite[s] : t \in observed \/ Waiting(t, callStack)

LEMMA ControlInvInit ==
  ASSUME Init
  PROVE  ControlInv
BY EmptySeq
DEF Init, NewEngine, ControlInv, AnnotationConstraint, PackageAnnotations, Waiting

\* What forces a site before any trigger is taken in is an annotation of the site.
LEMMA ForcedByAnnotation ==
  ASSUME EngineInv, observed \subseteq PackageAnnotations, NEW s \in Site, ForcedNilable(s)
  PROVE  IsAnnotated(s)
<1>1. PICK chain \in Seq(observed) : chain # <<>> /\ chain[Len(chain)].consumer = s
  <2>1. CASE nilability[s] = "nilable"
    <3>1. IsDetermined(s) /\ Explained(s) = [val |-> TRUE, chain |-> reason[s]]
      BY <2>1 DEF IsDetermined, Explained
    <3>2. RealExplanation(Explained(s), s, observed)
      BY <3>1 DEF EngineInv, RealInv, GraphReal
    <3> QED  BY <3>1, <3>2 DEF RealExplanation, ChainFor, NilableChain
  <2>2. CASE \E k \in conflicts : k.nilPath # <<>> /\ k.nilPath[Len(k.nilPath)].consumer = s
    <3>1. PICK k \in conflicts : k.nilPath # <<>> /\ k.nilPath[Len(k.nilPath)].consumer = s
      BY <2>2
    <3>2. RealConflict(k, observed)
      BY DEF EngineInv, RealInv, GraphReal
    <3>3. k.nilPath \in Seq(observed)
      BY <3>1, <3>2 DEF RealConflict, SingleAssertion
    <3> QED  BY <3>1, <3>3
  <2> QED  BY <2>1, <2>2 DEF ForcedNilable
<1>2. chain[Len(chain)] \in observed
  <2>1. Len(chain) \in DOMAIN chain
    BY <1>1, LenProperties, EmptySeq
  <2> QED  BY <2>1, ElementsOfSeq
<1>3. PICK a \in pkg.annotations : AnnotationConstraint(a).consumer = s
  BY <1>1, <1>2 DEF PackageAnnotations
<1>4. a.site = s
  BY <1>3, EndsAssumption DEF AnnotationConstraint
<1> QED  BY <1>4 DEF IsAnnotated

LEMMA ControlInvStep ==
  ASSUME EngineInv, EngineInv', ControlInv, [Next]_vars
  PROVE  ControlInv'
<1>1. /\ EngineType /\ (Work \/ UNCHANGED vars) /\ pkg' = pkg
      /\ observed \subseteq observed' /\ observed' \subseteq Constraint
  BY DEF EngineInv, TypeInv, TypeOK, EngineType, Next, Work, Finished, vars, ObserveAnnotation,
         ObservePackage, ObserveTrigger, ObserveNonErrRet, ActivateControlled, Propagate, Finish,
         BuildFromSingleFullTrigger
<1>2. /\ OtherTriggers' = OtherTriggers /\ PackageAnnotations' = PackageAnnotations
      /\ \A s : IsAnnotated(s)' <=> IsAnnotated(s)
  BY <1>1, TriggersFixed DEF IsAnnotated, PackageAnnotations
<1>3. PICK obs : obs = observed'
  OBVIOUS
<1>4. GraphReal(obs) /\ callStack \in Seq(RealFrame(obs))
  BY <1>1, <1>3, GraphRealMonotone, RealFrameMonotone, SeqMonotonic DEF EngineInv, RealInv
<1>5. Activates(obs, callStack)
  BY <1>1, <1>3, <1>4, WorkReal
<1>6. \A s : Forced(TRUE, s, observed) => Forced(TRUE, s, obs)
  BY <1>1, <1>3, SolutionsMonotone DEF Forced
<1>7. \A t : Waiting(t, callStack') => Forced(TRUE, t.controller, obs)
  BY <1>5, <1>6 DEF Activates, ControlInv
<1>8. \A t \in observed' : t \in observed \/ t \in pending \/ Waiting(t, callStack)
  <2>1. CASE ActivateControlled
    <3>1. PICK t \in Head(callStack).triggers : observed' = observed \cup {t}
      BY <2>1 DEF ActivateControlled, BuildFromSingleFullTrigger
    <3>2. callStack \in Seq(LiveFrame) /\ callStack # <<>>
      BY <1>1, <2>1 DEF EngineType, GraphType, ActivateControlled, Quiescent
    <3> QED  BY <3>1, <3>2, TailWaiting
  <2>2. CASE \E t \in pending : observed' = observed \cup {t}
    BY <2>2
  <2>3. CASE observed' = observed
    BY <2>3
  <2> QED
    BY <1>1, <2>1, <2>2, <2>3
    DEF Work, vars, ObserveAnnotation, ObservePackage, ObserveTrigger, ObserveNonErrRet,
        Propagate, Finish, BuildFromSingleFullTrigger
<1>9. \A t \in observed' : t.controller # None => Forced(TRUE, t.controller, obs)
  BY <1>6, <1>8 DEF ControlInv
<1>10. /\ \A t : Waiting(t, callStack') => Forced(TRUE, t.controller, observed')
       /\ \A t \in observed' : t.controller # None => Forced(TRUE, t.controller, observed')
  BY <1>3, <1>7, <1>9
<1>11. CASE ObservePackage
  <2>1. /\ stage = "annotations" /\ stage' = "otherTriggers"
        /\ UNCHANGED <<callStack, observed, mapping, conflicts>>
        /\ \A t \in pending' : t.controller = None
        /\ \A s \in Site : controlledTriggersBySite'[s] = {t \in OtherTriggers' : t.controller = s}
    BY <1>2, <1>11 DEF ObservePackage, BuildPkgInferenceMap
  <2>2. \A s \in Site : ForcedNilable(s)' => IsAnnotated(s)
    BY <2>1, ForcedByAnnotation DEF ControlInv, ForcedNilable, mapping
  <2>3. \A s \in Site : \A t \in controlledTriggersBySite'[s] : t.controller = s
    BY <2>1
  <2> QED  BY <1>2, <1>10, <2>1, <2>2, <2>3 DEF ControlInv
<1>12. CASE ObserveNonErrRet
  <2>1. /\ stage' = "nonErrRetTriggers"
        /\ \A t \in pending' : t.controller = None
        /\ \A s \in Site : \A t \in controlledTriggersBySite'[s] : t.controller = s
    BY <1>12 DEF ObserveNonErrRet, BuildPkgInferenceMap
  <2> QED  BY <1>10, <2>1 DEF ControlInv
<1>13. CASE UNCHANGED <<stage, controlledTriggersBySite>> /\ pending' \subseteq pending
  <2>1. /\ \A t \in pending' : t.controller = None
        /\ \A s \in Site : \A t \in controlledTriggersBySite'[s] : t.controller = s
    BY <1>13 DEF ControlInv
  <2>2. ASSUME stage' = "annotations"
        PROVE  /\ \A s \in Site : controlledTriggersBySite'[s] = {}
               /\ callStack' \in Seq(FrameWithin({}))
               /\ pending' \cup observed' \subseteq PackageAnnotations'
    <3>1. /\ \A s \in Site : controlledTriggersBySite[s] = {}
          /\ callStack \in Seq(FrameWithin({}))
          /\ pending \cup observed \subseteq PackageAnnotations
      BY <1>13, <2>2 DEF ControlInv
    <3>2. callStack' \in Seq(FrameWithin({})) /\ observed' \subseteq observed \cup pending \cup {}
      BY <1>1, <3>1, WorkWithin
    <3> QED  BY <1>2, <1>13, <3>1, <3>2
  <2>3. ASSUME stage' = "otherTriggers"
        PROVE  /\ \A s \in Site :
                    controlledTriggersBySite'[s] = {t \in OtherTriggers' : t.controller = s}
               /\ \A s \in Site : ForcedNilable(s)' /\ ~IsAnnotated(s)' =>
                    \A t \in controlledTriggersBySite'[s] : t \in observed' \/ Waiting(t, callStack')
    BY <1>1, <1>2, <1>5, <1>13, <2>3 DEF ControlInv, Activates
  <2> QED  BY <1>10, <2>1, <2>2, <2>3 DEF ControlInv
<1>14. CASE Finish
  <2>1. /\ stage' = "done" /\ UNCHANGED <<pending, controlledTriggersBySite>>
    BY <1>14 DEF Finish
  <2> QED  BY <1>10, <2>1 DEF ControlInv
<1> QED
  BY <1>1, <1>11, <1>12, <1>13, <1>14
  DEF Work, vars, ObserveAnnotation, ObserveTrigger, ActivateControlled, Propagate

\* Between two triggers of the first batch, a controlled trigger whose
\* controller is forced to be nilable has been observed (unless an annotation at
\* the call forces it), even when that was a conflict, and none is observed
\* whose controller some solution keeps non-nil: contracts are used when, and
\* only when, activateControlledTriggers may use them.
THEOREM ContractsActivatedExactly == Spec => []ControlledExactlyWhenNilable
<1>1. Init => ControlInv
  BY ControlInvInit
<1>2. EngineInv /\ EngineInv' /\ ControlInv /\ [Next]_vars => ControlInv'
  BY ControlInvStep
<1>3. EngineInv /\ ControlInv => ControlledExactlyWhenNilable
  <2> SUFFICES ASSUME EngineInv, ControlInv, stage = "otherTriggers", Quiescent,
                      NEW t \in OtherTriggers, t.controller # None
               PROVE  /\ ForcedNilable(t.controller) /\ ~IsAnnotated(t.controller) => t \in observed
                      /\ t \in observed => \A N \in Solutions(observed) : t.controller \in N
    BY DEF ControlledExactlyWhenNilable
  <2>1. t \in Trigger
    BY TriggerKinds DEF EngineInv, TypeInv, TypeOK
  <2>2. t.controller \in Site
    BY <2>1, TriggerAssumption DEF FullTrigger
  <2>3. ~Waiting(t, callStack)
    BY DEF Quiescent, Waiting
  <2> QED  BY <2>2, <2>3 DEF ControlInv, Forced
<1> QED  BY <1>1, <1>2, <1>3, EngineInvariant, PTL DEF Spec

=============================================================================
