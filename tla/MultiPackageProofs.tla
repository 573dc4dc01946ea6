--------------------------- MODULE MultiPackageProofs ---------------------------
(****************************************************************************)
(* Theorems about MultiPackage: separate analysis with facts is analysis of *)
(* the whole program, for every set of packages and every program.          *)
(****************************************************************************)
EXTENDS MultiPackage, InferenceEngineProofs

-----------------------------------------------------------------------------
(****************************************************************************)
(* Types, and what the stages mean for the driver.                          *)
(****************************************************************************)

Fact ==
  {v \in [nilability : {"absent", "undetermined", "nilable", "nonnil"},
          reason : Seq(Constraint), implicates : SUBSET Edge, implicants : SUBSET Edge] :
     DeterminedIn(v) => v.reason # <<>>}

PackageImports(p) == UNION {SiteImports(q) \cup EdgeImports(q) : q \in Dependencies[p]}

MultiType ==
  /\ EngineType
  /\ program \in Program /\ path \in Path /\ analysed \subseteq Path
  /\ facts \in [Path -> [Site -> Fact]]
  /\ upstreamMapping \in [Site -> Fact]
  /\ assertions \in [Path -> SUBSET Constraint]
  /\ reported \in [Path -> SUBSET Conflict]

StageInv ==
  /\ stage = "idle" =>
       /\ \A s \in Site : nilability[s] = "absent"
       /\ callStack = <<>> /\ conflicts = {}
  /\ stage # "idle" =>
       path \notin analysed /\ Dependencies[path] \subseteq analysed /\ pkg = program[path]
  /\ stage \in {"idle", "upstream"} =>
       /\ observed = {} /\ pending = {}
       /\ \A s \in Site : controlledTriggersBySite[s] = {}
       /\ callStack \in Seq(FrameWithin({}))
       /\ upstreamMapping = EmptyMap
  /\ IF stage = "upstream" THEN imports \subseteq PackageImports(path) ELSE imports = {}
  /\ \A q \in Path \ analysed : assertions[q] = {}

LEMMA AbsentType == Absent \in Fact /\ EmptyMap \in [Site -> Fact]
<1>1. Absent \in Fact
  BY EmptySeq DEF Absent, Fact, DeterminedIn
<1> QED  BY <1>1 DEF EmptyMap

LEMMA InferredType ==
  ASSUME MappingType, NEW s \in Site
  PROVE  Inferred(s) \in Fact
<1>1. implicates[s] \in Seq(Edge) /\ implicants[s] \in Seq(Edge)
  BY DEF MappingType
<1>2. Range(implicates[s]) \subseteq Edge /\ Range(implicants[s]) \subseteq Edge
  BY <1>1, ElementsOfSeq DEF Range
<1> QED  BY <1>2 DEF Inferred, Fact, MappingType, DeterminedIn, IsDetermined

LEMMA InferredValDiffType ==
  ASSUME NEW val \in Fact, NEW old \in Fact
  PROVE  InferredValDiff(val, old) \in Fact
<1> DEFINE new == [val EXCEPT !.implicates = NewEdges(val.implicates, old.implicates),
                              !.implicants = NewEdges(val.implicants, old.implicants)]
<1>1. /\ NewEdges(val.implicates, old.implicates) \subseteq Edge
      /\ NewEdges(val.implicants, old.implicants) \subseteq Edge
  BY DEF NewEdges, Fact
<1>2. new \in Fact
  BY <1>1 DEF Fact, DeterminedIn
<1> QED  BY <1>2, AbsentType DEF InferredValDiff

LEMMA ExportedMapType ==
  ASSUME MappingType, upstreamMapping \in [Site -> Fact]
  PROVE  ExportedMap \in [Site -> Fact]
BY AbsentType, InferredType, InferredValDiffType DEF ExportedMap

LEMMA ImportType ==
  ASSUME MultiType, NEW i \in PackageImports(path)
  PROVE  /\ i.from \in Dependencies[path] /\ i.from \in Path /\ i.site \in Site
         /\ facts[i.from][i.site] \in Fact
         /\ i.call = "explanation" => DeterminedIn(facts[i.from][i.site])
         /\ i.call = "implicate" => i.edge \in facts[i.from][i.site].implicates /\ i.edge \in Edge
         /\ i.call = "implicant" => i.edge \in facts[i.from][i.site].implicants /\ i.edge \in Edge
<1>1. PICK q \in Dependencies[path] : i \in SiteImports(q) \cup EdgeImports(q)
  BY DEF PackageImports
<1>2. q \in Path
  BY PathAssumption DEF MultiType
<1>3. \A s \in Site : facts[q][s] \in Fact
  BY <1>2 DEF MultiType
<1>4. CASE i \in SiteImports(q)
  BY <1>1, <1>2, <1>3, <1>4 DEF SiteImports
<1>5. CASE i \in EdgeImports(q)
  <2>1. PICK s \in Site :
          \/ \E x \in facts[q][s].implicates :
               i = [from |-> q, site |-> s, call |-> "implicate", edge |-> x]
          \/ \E x \in facts[q][s].implicants :
               i = [from |-> q, site |-> s, call |-> "implicant", edge |-> x]
    BY <1>5 DEF EdgeImports
  <2> QED  BY <1>1, <1>2, <1>3, <2>1 DEF Fact
<1> QED  BY <1>1, <1>4, <1>5

\* The value and the chain of a determined fact.
FactExplained(v) == [val |-> v.nilability = "nilable", chain |-> v.reason]

LEMMA FactExplainedType ==
  ASSUME NEW v \in Fact, DeterminedIn(v)
  PROVE  FactExplained(v) \in SomeExplained
BY DEF Fact, FactExplained, SomeExplained, ExplainedBool

\* The three calls of ObserveUpstream.
LEMMA ObserveFactCases ==
  ASSUME MultiType, StageInv, ObserveFact
  PROVE  \E i \in PackageImports(path) :
           /\ imports' = imports \ {i}
           /\ \/ /\ i.call = "explanation"
                 /\ ObserveSiteExplanation(i.site, FactExplained(facts[i.from][i.site]), <<>>)
              \/ /\ i.call = "implicate"
                 /\ ObserveImplication(i.site, i.edge.site, i.edge.assertion, <<>>)
              \/ /\ i.call = "implicant"
                 /\ ObserveImplication(i.edge.site, i.site, i.edge.assertion, <<>>)
BY DEF ObserveFact, FactExplained, StageInv

LEMMA ObserveFactType ==
  ASSUME MultiType, StageInv, ObserveFact
  PROVE  GraphType' /\ Extends
<1>1. /\ MappingType /\ conflicts \subseteq Conflict /\ <<>> \in Seq(LiveFrame)
      /\ \A r \in Site : controlledTriggersBySite[r] \subseteq Trigger
      /\ stage = "upstream"
  BY EmptySeq DEF MultiType, EngineType, GraphType, ObserveFact
<1>2. PICK i \in PackageImports(path) :
        \/ /\ i.call = "explanation"
           /\ ObserveSiteExplanation(i.site, FactExplained(facts[i.from][i.site]), <<>>)
        \/ /\ i.call = "implicate"
           /\ ObserveImplication(i.site, i.edge.site, i.edge.assertion, <<>>)
        \/ /\ i.call = "implicant"
           /\ ObserveImplication(i.edge.site, i.site, i.edge.assertion, <<>>)
  BY ObserveFactCases
<1>3. CASE i.call = "explanation"
  <2>1. FactExplained(facts[i.from][i.site]) \in SomeExplained /\ i.site \in Site
    BY <1>1, <1>3, ImportType, FactExplainedType
  <2> QED
    BY <1>1, <1>2, <1>3, <2>1, ObserveSiteExplanationType, ObserveSiteExplanationExtends
<1>4. CASE i.call # "explanation"
  <2>1. i.site \in Site /\ i.edge.site \in Site /\ i.edge.assertion \in Constraint
    BY <1>1, <1>2, <1>4, ImportType DEF Edge
  <2> QED  BY <1>1, <1>2, <1>4, <2>1, ObserveImplicationType, ObserveImplicationExtends
<1> QED  BY <1>3, <1>4

LEMMA ObserveFactWithin ==
  ASSUME MultiType, StageInv, ObserveFact
  PROVE  callStack' \in Seq(FrameWithin({}))
<1>1. /\ MappingType /\ <<>> \in Seq(FrameWithin({}))
      /\ \A r \in Site : controlledTriggersBySite[r] \subseteq {}
      /\ stage = "upstream"
  BY EmptySeq DEF MultiType, EngineType, GraphType, ObserveFact, StageInv
<1>2. PICK i \in PackageImports(path) :
        \/ /\ i.call = "explanation"
           /\ ObserveSiteExplanation(i.site, FactExplained(facts[i.from][i.site]), <<>>)
        \/ /\ i.call = "implicate"
           /\ ObserveImplication(i.site, i.edge.site, i.edge.assertion, <<>>)
        \/ /\ i.call = "implicant"
           /\ ObserveImplication(i.edge.site, i.site, i.edge.assertion, <<>>)
  BY ObserveFactCases
<1>3. CASE i.call = "explanation"
  <2>1. FactExplained(facts[i.from][i.site]) \in SomeExplained /\ i.site \in Site
    BY <1>1, <1>3, ImportType, FactExplainedType
  <2> QED  BY <1>1, <1>2, <1>3, <2>1, ObserveSiteExplanationWithin
<1>4. CASE i.call # "explanation"
  <2>1. i.site \in Site /\ i.edge.site \in Site /\ i.edge.assertion \in Constraint
    BY <1>1, <1>2, <1>4, ImportType DEF Edge
  <2> QED  BY <1>1, <1>2, <1>4, <2>1, ObserveImplicationWithin
<1> QED  BY <1>3, <1>4

LEMMA EndPackageType ==
  ASSUME MultiType, NEW map \in [Site -> Fact], EndPackage(map)
  PROVE  /\ EngineType' /\ program' \in Program /\ path' \in Path /\ analysed' \subseteq Path
         /\ facts' \in [Path -> [Site -> Fact]] /\ upstreamMapping' \in [Site -> Fact]
<1>1. MappingType'
  BY EmptySeq DEF EndPackage, MappingType, IsDetermined
<1>2. GraphType'
  BY <1>1, EmptySeq DEF EndPackage, GraphType
<1>3. EngineType'
  BY <1>2 DEF EndPackage, MultiType, EngineType, PendingType
<1> QED  BY <1>3, AbsentType DEF EndPackage, MultiType

LEMMA MultiTypeInit ==
  ASSUME InitMulti
  PROVE  MultiType /\ StageInv
<1>1. path \in Path /\ pkg \in Package
  BY PathAssumption, ProgramAssumption DEF InitMulti
<1>2. pkg \in [triggers : SUBSET Trigger, annotations : SUBSET Annotation]
  BY <1>1, PackageAssumption
<1>3. MappingType
  BY EmptySeq DEF InitMulti, MappingType, IsDetermined
<1>4. GraphType
  BY <1>3, EmptySeq DEF InitMulti, GraphType
<1>5. EngineType
  BY <1>2, <1>4 DEF InitMulti, EngineType, PendingType
<1>6. MultiType
  BY <1>1, <1>5, AbsentType DEF InitMulti, MultiType
<1> QED  BY <1>6, EmptySeq DEF InitMulti, StageInv

LEMMA MultiTypeStep ==
  ASSUME MultiType, StageInv, [NextMulti]_allVars
  PROVE  MultiType'
<1>1. CASE StartPackage
  <2>1. PICK p \in Path \ analysed : path' = p /\ pkg' = program[p]
    BY <1>1 DEF StartPackage
  <2>2. pkg' \in [triggers : SUBSET Trigger, annotations : SUBSET Annotation]
    BY <2>1, ProgramAssumption, PackageAssumption DEF MultiType
  <2>3. GraphType'
    BY <1>1 DEF StartPackage, MultiType, EngineType, GraphType, MappingType, IsDetermined, mapping
  <2>4. EngineType'
    BY <1>1, <2>2, <2>3 DEF StartPackage, StageInv, MultiType, EngineType, PendingType
  <2> QED  BY <1>1, <2>1, <2>4 DEF StartPackage, MultiType
<1>2. CASE ObserveFact
  <2>1. EngineType'
    BY <1>2, ObserveFactType DEF ObserveFact, MultiType, EngineType, PendingType
  <2> QED  BY <1>2, <2>1 DEF ObserveFact, MultiType, driver
<1>3. CASE CopyUpstream
  <2>1. GraphType'
    BY <1>3 DEF CopyUpstream, MultiType, EngineType, GraphType, MappingType, IsDetermined, mapping
  <2>2. pending' \subseteq {AnnotationConstraint(a) : a \in Annotation}
    BY <1>3 DEF CopyUpstream, MultiType, EngineType
  <2>3. EngineType'
    BY <1>3, <2>1, <2>2 DEF CopyUpstream, MultiType, EngineType, PendingType
  <2>4. MappingType
    BY DEF MultiType, EngineType, GraphType
  <2>5. upstreamMapping' \in [Site -> Fact]
    BY <1>3, <2>4, InferredType DEF CopyUpstream
  <2> QED  BY <1>3, <2>3, <2>5 DEF CopyUpstream, MultiType, driver
<1>4. CASE Analyse
  <2>1. EngineType'
    BY <1>4, EngineTypeStep DEF Analyse, Work, MultiType
  <2> QED  BY <1>4, <2>1 DEF Analyse, MultiType, driver
<1>5. CASE Export
  <2>1. ExportedMap \in [Site -> Fact]
    BY ExportedMapType DEF MultiType, EngineType, GraphType
  <2>2. EndPackage(ExportedMap)
    BY <1>5 DEF Export
  <2>3. assertions' \in [Path -> SUBSET Constraint] /\ reported' \in [Path -> SUBSET Conflict]
    BY <1>5 DEF Export, MultiType, EngineType, GraphType
  <2> QED  BY <2>1, <2>2, <2>3, EndPackageType DEF MultiType
<1>6. CASE Fail
  <2>1. assertions' \in [Path -> SUBSET Constraint] /\ reported' \in [Path -> SUBSET Conflict]
    BY <1>6 DEF Fail, MultiType
  <2>2. EndPackage(EmptyMap)
    BY <1>6 DEF Fail
  <2> QED  BY <2>1, <2>2, AbsentType, EndPackageType DEF MultiType
<1>7. CASE UNCHANGED allVars
  BY <1>7
  DEF allVars, vars, driver, MultiType, EngineType, GraphType, MappingType, IsDetermined,
      PendingType, mapping
<1> QED
  BY <1>1, <1>2, <1>3, <1>4, <1>5, <1>6, <1>7 DEF NextMulti, AllAnalysed

LEMMA EndPackageStage ==
  ASSUME MultiType, StageInv, stage # "idle", NEW map, EndPackage(map),
         \A q \in Path : q # path => assertions'[q] = assertions[q]
  PROVE  StageInv'
BY EmptySeq DEF EndPackage, StageInv, MultiType

LEMMA StageInvStep ==
  ASSUME MultiType, StageInv, [NextMulti]_allVars
  PROVE  StageInv'
<1>1. CASE StartPackage
  BY <1>1 DEF StartPackage, StageInv, PackageImports, SiteImports, EdgeImports, mapping
<1>2. CASE ObserveFact
  <2>1. PackageImports(path)' = PackageImports(path)
    BY <1>2 DEF ObserveFact, driver, PackageImports, SiteImports, EdgeImports
  <2> QED  BY <1>2, <2>1, ObserveFactWithin DEF ObserveFact, StageInv, driver
<1>3. CASE CopyUpstream
  BY <1>3 DEF CopyUpstream, StageInv, driver
<1>4. CASE Analyse
  <2>1. PackageImports(path)' = PackageImports(path)
    BY <1>4 DEF Analyse, driver, PackageImports, SiteImports, EdgeImports
  <2>2. /\ stage # "idle" /\ stage' # "idle" /\ pkg' = pkg
        /\ stage' = "upstream" <=> stage = "upstream"
        /\ UNCHANGED <<driver, imports>>
    <3>1. stage # "idle"
      BY <1>4
      DEF Analyse, StageInv, ObserveAnnotation, ObservePackage, ObserveTrigger, ObserveNonErrRet,
          ActivateControlled, Propagate, Finish, Quiescent
    <3> QED
      BY <1>4, <3>1
      DEF Analyse, ObserveAnnotation, ObservePackage, ObserveTrigger, ObserveNonErrRet,
          ActivateControlled, Propagate, Finish
  <2>3. ASSUME stage = "upstream"
        PROVE  /\ observed' = {} /\ pending' = {}
               /\ \A s \in Site : controlledTriggersBySite'[s] = {}
               /\ callStack' \in Seq(FrameWithin({}))
               /\ upstreamMapping' = EmptyMap
    <3>1. /\ upstreamMapping = EmptyMap
          /\ \A r \in Site : controlledTriggersBySite[r] \subseteq {}
          /\ callStack \in Seq(FrameWithin({})) /\ observed = {} /\ pending = {}
      BY <2>3 DEF StageInv
    <3>2. Work
      BY <1>4 DEF Analyse, Work
    <3>3. callStack' \in Seq(FrameWithin({})) /\ observed' \subseteq {}
      BY <3>1, <3>2, WorkWithin DEF MultiType
    <3>4. pending' \subseteq {} /\ controlledTriggersBySite' = controlledTriggersBySite
      BY <1>4, <2>3, <3>1
      DEF Analyse, ObserveAnnotation, ObservePackage, ObserveTrigger, ObserveNonErrRet,
          ActivateControlled, Propagate, Finish
    <3>5. upstreamMapping' = upstreamMapping
      BY <1>4 DEF Analyse
    <3> QED  BY <3>1, <3>3, <3>4, <3>5
  <2> QED  BY <2>1, <2>2, <2>3 DEF StageInv, driver
<1>5. CASE Export
  <2>1. \A q \in Path : q # path => assertions'[q] = assertions[q]
    BY <1>5 DEF Export, MultiType
  <2> QED  BY <1>5, <2>1, EndPackageStage DEF Export
<1>6. CASE Fail
  <2>1. \A q \in Path : q # path => assertions'[q] = assertions[q]
    BY <1>6 DEF Fail, MultiType
  <2> QED  BY <1>6, <2>1, EndPackageStage DEF Fail
<1>7. CASE UNCHANGED allVars
  BY <1>7
  DEF allVars, vars, driver, mapping, StageInv, EmptyMap, PackageImports, SiteImports, EdgeImports
<1> QED
  BY <1>1, <1>2, <1>3, <1>4, <1>5, <1>6, <1>7 DEF NextMulti, AllAnalysed

MultiTypeInv == MultiType /\ StageInv

LEMMA MultiTypeInvariant ==
  /\ InitMulti => MultiTypeInv
  /\ MultiTypeInv /\ [NextMulti]_allVars => MultiTypeInv'
<1>1. InitMulti => MultiTypeInv
  BY MultiTypeInit DEF MultiTypeInv
<1>2. MultiTypeInv /\ [NextMulti]_allVars => MultiTypeInv'
  BY MultiTypeStep, StageInvStep DEF MultiTypeInv
<1> QED  BY <1>1, <1>2

-----------------------------------------------------------------------------
(****************************************************************************)
(* The upstream value of a site is never contradicted.                      *)
(****************************************************************************)

UpstreamInv ==
  \A s \in Site : DeterminedIn(upstreamMapping[s]) => nilability[s] = upstreamMapping[s].nilability

LEMMA UpstreamInvStep ==
  ASSUME MultiTypeInv, UpstreamInv, [NextMulti]_allVars
  PROVE  UpstreamInv'
<1>1. ASSUME Extends, UNCHANGED upstreamMapping
      PROVE  UpstreamInv'
  <2> SUFFICES ASSUME NEW s \in Site, DeterminedIn(upstreamMapping[s])
               PROVE  nilability'[s] = upstreamMapping[s].nilability
    BY <1>1 DEF UpstreamInv
  <2>1. nilability[s] = upstreamMapping[s].nilability /\ IsDetermined(s)
    BY DEF UpstreamInv, DeterminedIn, IsDetermined
  <2> QED  BY <1>1, <2>1 DEF Extends
<1>2. CASE StartPackage
  BY <1>1, <1>2, UnchangedExtends DEF StartPackage
<1>3. CASE ObserveFact
  BY <1>1, <1>3, ObserveFactType DEF ObserveFact, MultiTypeInv
<1>4. CASE CopyUpstream
  BY <1>4 DEF CopyUpstream, UpstreamInv, Inferred, mapping
<1>5. CASE Analyse
  <2>1. EngineType /\ Work
    BY <1>5 DEF Analyse, Work, MultiTypeInv, MultiType
  <2> QED  BY <1>1, <1>5, <2>1, StepExtends DEF Analyse
<1>6. CASE Export \/ Fail
  BY <1>6 DEF Export, Fail, EndPackage, UpstreamInv, EmptyMap, Absent, DeterminedIn
<1>7. CASE UNCHANGED allVars
  BY <1>7 DEF allVars, vars, mapping, UpstreamInv, DeterminedIn
<1> QED
  BY <1>2, <1>3, <1>4, <1>5, <1>6, <1>7 DEF NextMulti, AllAnalysed

\* The panic of inferredValDiff is unreachable: what the dependencies told of a
\* site is still what the package says of it at the export, for any facts, also
\* when facts contradict each other and the package reports conflicts.
THEOREM UpstreamIsSuperseded == SpecMulti => []UpstreamSuperseded
<1>1. InitMulti => UpstreamInv
  BY DEF InitMulti, UpstreamInv, EmptyMap, Absent, DeterminedIn
<1>2. MultiTypeInv /\ UpstreamInv /\ [NextMulti]_allVars => UpstreamInv'
  BY UpstreamInvStep
<1>3. UpstreamInv => UpstreamSuperseded
  BY DEF UpstreamInv, UpstreamSuperseded
<1> QED  BY <1>1, <1>2, <1>3, MultiTypeInvariant, PTL DEF SpecMulti

-----------------------------------------------------------------------------
(****************************************************************************)
(* Soundness: what a package knows, and what it tells the others, stems     *)
(* from its own constraints and from those of its dependencies.             *)
(****************************************************************************)

RealFact(v, s, obs) ==
  /\ DeterminedIn(v) => RealExplanation(FactExplained(v), s, obs)
  /\ \A x \in v.implicates : RealEdge(x, TRUE, s, obs)
  /\ \A x \in v.implicants : RealEdge(x, FALSE, s, obs)

Contributed(q) == assertions[q] \cup UNION {assertions[r] : r \in Dependencies[q]}

RealAcross ==
  /\ GraphReal(WholeProgram)
  /\ callStack \in Seq(RealFrame(WholeProgram))
  /\ \A s \in Site : RealFact(upstreamMapping[s], s, WholeProgram)
  /\ \A q \in Path : \A s \in Site : RealFact(facts[q][s], s, Contributed(q))

LEMMA AbsentReal ==
  ASSUME NEW s, NEW obs
  PROVE  RealFact(Absent, s, obs)
BY DEF RealFact, Absent, DeterminedIn

LEMMA RealFactMonotone ==
  ASSUME NEW v, NEW s, NEW obs, NEW more, obs \subseteq more, RealFact(v, s, obs)
  PROVE  RealFact(v, s, more)
BY RealExplanationMonotone DEF RealFact, RealEdge

LEMMA InferredReal ==
  ASSUME MappingType, NEW obs, GraphReal(obs), NEW s \in Site
  PROVE  RealFact(Inferred(s), s, obs)
<1>1. DeterminedIn(Inferred(s)) => RealExplanation(FactExplained(Inferred(s)), s, obs)
  BY DEF DeterminedIn, Inferred, FactExplained, GraphReal, IsDetermined, Explained
<1>2. /\ \A x \in Inferred(s).implicates : RealEdge(x, TRUE, s, obs)
      /\ \A x \in Inferred(s).implicants : RealEdge(x, FALSE, s, obs)
  BY DEF Inferred, Range, GraphReal
<1> QED  BY <1>1, <1>2 DEF RealFact

LEMMA InferredValDiffReal ==
  ASSUME NEW val \in Fact, NEW old \in Fact, NEW s, NEW obs, RealFact(val, s, obs)
  PROVE  RealFact(InferredValDiff(val, old), s, obs)
<1> DEFINE new == [val EXCEPT !.implicates = NewEdges(val.implicates, old.implicates),
                              !.implicants = NewEdges(val.implicants, old.implicants)]
<1>1. /\ new.nilability = val.nilability /\ new.reason = val.reason
      /\ new.implicates \subseteq val.implicates /\ new.implicants \subseteq val.implicants
  BY DEF Fact, NewEdges
<1>2. RealFact(new, s, obs)
  BY <1>1 DEF RealFact, FactExplained, DeterminedIn
<1> QED  BY <1>2, AbsentReal DEF InferredValDiff

LEMMA ExportedMapReal ==
  ASSUME MappingType, upstreamMapping \in [Site -> Fact], NEW obs, GraphReal(obs), NEW s \in Site
  PROVE  RealFact(ExportedMap[s], s, obs)
BY AbsentReal, InferredReal, InferredType, InferredValDiffReal DEF ExportedMap

\* The facts of a dependency are real for the whole program of the package.
LEMMA FactReal ==
  ASSUME MultiTypeInv, RealAcross, NEW q \in Dependencies[path], NEW s \in Site
  PROVE  q \in Path /\ RealFact(facts[q][s], s, WholeProgram)
<1>1. q \in Path /\ Dependencies[q] \subseteq Dependencies[path]
  BY PathAssumption DEF MultiTypeInv, MultiType
<1>2. Contributed(q) \subseteq WholeProgram
  BY <1>1 DEF Contributed, WholeProgram
<1> QED  BY <1>1, <1>2, RealFactMonotone DEF RealAcross

LEMMA WholeProgramType ==
  ASSUME MultiTypeInv
  PROVE  WholeProgram \in SUBSET Constraint
BY PathAssumption DEF MultiTypeInv, MultiType, EngineType, WholeProgram

LEMMA NothingKnownReal ==
  ASSUME MappingType, \A s \in Site : nilability[s] = "absent", conflicts = {}, NEW obs
  PROVE  GraphReal(obs)
<1>1. \A s \in Site : DOMAIN implicates[s] = {} /\ DOMAIN implicants[s] = {}
  BY DEF MappingType
<1> QED  BY <1>1 DEF GraphReal, IsDetermined

LEMMA ObserveFactReal ==
  ASSUME MultiTypeInv, RealAcross, ObserveFact
  PROVE  GraphReal(WholeProgram)' /\ (callStack \in Seq(RealFrame(WholeProgram)))'
<1>1. PICK obs : obs = WholeProgram
  OBVIOUS
<1>2. WholeProgram' = obs
  BY <1>1 DEF ObserveFact, WholeProgram, driver
<1>3. /\ MappingType /\ <<>> \in Seq(RealFrame(obs))
      /\ obs \in SUBSET Constraint /\ GraphReal(obs)
      /\ \A r \in Site : controlledTriggersBySite[r] \subseteq Trigger
      /\ stage = "upstream" /\ MultiType /\ StageInv
  BY <1>1, EmptySeq, WholeProgramType
  DEF MultiTypeInv, MultiType, EngineType, GraphType, ObserveFact, RealAcross
<1>4. PICK i \in PackageImports(path) :
        \/ /\ i.call = "explanation"
           /\ ObserveSiteExplanation(i.site, FactExplained(facts[i.from][i.site]), <<>>)
        \/ /\ i.call = "implicate"
           /\ ObserveImplication(i.site, i.edge.site, i.edge.assertion, <<>>)
        \/ /\ i.call = "implicant"
           /\ ObserveImplication(i.edge.site, i.site, i.edge.assertion, <<>>)
  BY <1>3, ObserveFactCases
<1>5. /\ i.site \in Site /\ RealFact(facts[i.from][i.site], i.site, obs)
      /\ facts[i.from][i.site] \in Fact
  BY <1>1, <1>3, ImportType, FactReal
<1>6. GraphReal(obs)' /\ callStack' \in Seq(RealFrame(obs))
  <2>1. CASE i.call = "explanation"
    <3>1. /\ FactExplained(facts[i.from][i.site]) \in SomeExplained
          /\ RealExplanation(FactExplained(facts[i.from][i.site]), i.site, obs)
      BY <1>3, <1>5, <2>1, ImportType, FactExplainedType DEF RealFact
    <3> QED  BY <1>3, <1>4, <1>5, <2>1, <3>1, ObserveSiteExplanationReal
  <2>2. CASE i.call # "explanation"
    <3> DEFINE t == i.edge.assertion
    <3>1. /\ i.edge.site \in Site /\ t \in obs
          /\ i.call = "implicate" => t.producer = i.site /\ t.consumer = i.edge.site
          /\ i.call = "implicant" => t.producer = i.edge.site /\ t.consumer = i.site
      BY <1>3, <1>4, <1>5, <2>2, ImportType DEF RealFact, RealEdge, Edge
    <3>2. ObserveImplication(t.producer, t.consumer, t, <<>>)
      BY <1>4, <2>2, <3>1
    <3> QED  BY <1>3, <1>5, <3>1, <3>2, <1>4, <2>2, ObserveImplicationReal
  <2> QED  BY <2>1, <2>2
<1> QED  BY <1>2, <1>6

\* What a package leaves behind when the driver goes on to the next one.
LEMMA EndPackageReal ==
  ASSUME MultiTypeInv, RealAcross, stage # "idle", NEW map \in [Site -> Fact], EndPackage(map),
         \A q \in Path : assertions'[q] = IF q = path THEN assertions'[path] ELSE assertions[q],
         NEW obs, obs = assertions'[path] \cup UNION {assertions[r] : r \in Dependencies[path]},
         \A s \in Site : RealFact(map[s], s, obs)
  PROVE  RealAcross'
<1>1. GraphReal(WholeProgram)'
  <2>1. PICK more : more = WholeProgram'
    OBVIOUS
  <2>2. \A s \in Site : nilability'[s] = "absent" /\ implicates'[s] = <<>> /\ implicants'[s] = <<>>
    BY DEF EndPackage
  <2>3. conflicts' = {} /\ \A s \in Site : DOMAIN implicates'[s] = {} /\ DOMAIN implicants'[s] = {}
    BY <2>2 DEF EndPackage
  <2>4. GraphReal(more)'
    BY <2>2, <2>3 DEF GraphReal, IsDetermined
  <2> QED  BY <2>1, <2>4
<1>2. (callStack \in Seq(RealFrame(WholeProgram)))'
  BY EmptySeq DEF EndPackage
<1>3. \A s \in Site : RealFact(upstreamMapping'[s], s, WholeProgram')
  BY AbsentReal DEF EndPackage, EmptyMap
<1>4. ASSUME NEW q \in Path, NEW s \in Site
      PROVE  RealFact(facts'[q][s], s, Contributed(q)')
  <2>1. path \in Path /\ path \notin analysed /\ path \notin Dependencies[path]
    BY PathAssumption DEF MultiTypeInv, MultiType, StageInv
  <2>2. CASE q = path
    <3>1. \A r \in Dependencies[q] : assertions'[r] = assertions[r]
      BY <2>1, <2>2, PathAssumption
    <3>2. Contributed(q)' = obs
      BY <2>2, <3>1 DEF Contributed
    <3>3. facts'[q][s] = map[s]
      BY <2>1, <2>2 DEF EndPackage, MultiTypeInv, MultiType
    <3> QED  BY <2>2, <3>2, <3>3
  <2>3. CASE q # path
    <3>1. facts'[q] = facts[q]
      BY <2>3 DEF EndPackage, MultiTypeInv, MultiType
    <3>2. \A r \in Path : assertions[r] \subseteq assertions'[r]
      BY <2>1 DEF MultiTypeInv, StageInv
    <3>3. Dependencies[q] \subseteq Path
      BY PathAssumption
    <3>4. Contributed(q) \subseteq Contributed(q)'
      BY <3>2, <3>3 DEF Contributed
    <3> QED  BY <3>1, <3>4, RealFactMonotone DEF RealAcross
  <2> QED  BY <2>2, <2>3
<1> QED  BY <1>1, <1>2, <1>3, <1>4 DEF RealAcross

LEMMA RealAcrossStep ==
  ASSUME MultiTypeInv, RealAcross, [NextMulti]_allVars
  PROVE  RealAcross'
<1>1. /\ MappingType /\ upstreamMapping \in [Site -> Fact] /\ WholeProgram \in SUBSET Constraint
  BY WholeProgramType DEF MultiTypeInv, MultiType, EngineType, GraphType
<1>2. ASSUME UNCHANGED <<facts, assertions>>
      PROVE  \A q \in Path : \A s \in Site : RealFact(facts'[q][s], s, Contributed(q)')
  BY <1>2 DEF Contributed, RealAcross
<1>3. CASE StartPackage
  <2>1. /\ \A s \in Site : nilability[s] = "absent"
        /\ conflicts = {} /\ upstreamMapping = EmptyMap /\ callStack = <<>>
    BY <1>3 DEF StartPackage, MultiTypeInv, StageInv
  <2>2. PICK more : more = WholeProgram'
    OBVIOUS
  <2>3. GraphReal(more)
    BY <1>1, <2>1, NothingKnownReal
  <2>4. GraphReal(WholeProgram)'
    BY <1>3, <2>2, <2>3 DEF StartPackage, GraphReal, mapping, IsDetermined, Explained
  <2>5. \A s \in Site : RealFact(upstreamMapping'[s], s, WholeProgram')
    BY <1>3, <2>1, AbsentReal DEF StartPackage, EmptyMap
  <2>6. (callStack \in Seq(RealFrame(WholeProgram)))'
    BY <1>3, <2>1, EmptySeq DEF StartPackage
  <2>7. UNCHANGED <<facts, assertions>>
    BY <1>3 DEF StartPackage
  <2> QED  BY <1>2, <2>4, <2>5, <2>6, <2>7 DEF RealAcross
<1>4. CASE ObserveFact
  <2>1. UNCHANGED <<facts, assertions, upstreamMapping>> /\ WholeProgram' = WholeProgram
    BY <1>4 DEF ObserveFact, driver, WholeProgram
  <2>2. \A s \in Site : RealFact(upstreamMapping'[s], s, WholeProgram')
    BY <2>1 DEF RealAcross
  <2> QED  BY <1>2, <1>4, <2>1, <2>2, ObserveFactReal DEF RealAcross
<1>5. CASE CopyUpstream
  <2>1. /\ UNCHANGED <<facts, assertions, mapping, callStack, conflicts>>
        /\ WholeProgram' = WholeProgram
    BY <1>5 DEF CopyUpstream, driver, WholeProgram
  <2>2. \A s \in Site : RealFact(upstreamMapping'[s], s, WholeProgram)
    BY <1>1, <1>5, InferredReal DEF CopyUpstream, RealAcross
  <2>3. GraphReal(WholeProgram)'
    BY <2>1 DEF GraphReal, mapping, IsDetermined, Explained, RealAcross
  <2> QED  BY <1>2, <2>1, <2>2, <2>3 DEF RealAcross
<1>6. CASE Analyse
  <2>1. PICK more : more = WholeProgram'
    OBVIOUS
  <2>2. Work /\ EngineType /\ UNCHANGED <<driver, upstreamMapping>>
    BY <1>6 DEF Analyse, Work, MultiTypeInv, MultiType
  <2>3. more \in SUBSET Constraint
    <3>1. /\ assertions' \in [Path -> SUBSET Constraint] /\ path' \in Path
          /\ observed' \subseteq Constraint
      BY MultiTypeInvariant DEF MultiTypeInv, MultiType, EngineType
    <3> QED  BY <2>1, <3>1, PathAssumption DEF WholeProgram
  <2>4. observed \subseteq observed'
    BY <2>2
    DEF Work, ObserveAnnotation, ObservePackage, ObserveTrigger, ObserveNonErrRet,
        ActivateControlled, Propagate, Finish, BuildFromSingleFullTrigger
  <2>5. observed' \subseteq more /\ WholeProgram \subseteq more
    BY <2>1, <2>2, <2>4 DEF WholeProgram, driver
  <2>6. GraphReal(more) /\ callStack \in Seq(RealFrame(more))
    BY <2>5, GraphRealMonotone, RealFrameMonotone, SeqMonotonic DEF RealAcross
  <2>7. GraphReal(more)' /\ callStack' \in Seq(RealFrame(more))
    BY <2>2, <2>3, <2>5, <2>6, WorkReal
  <2>8. \A s \in Site : RealFact(upstreamMapping'[s], s, more)
    BY <2>2, <2>5, RealFactMonotone DEF RealAcross
  <2>9. UNCHANGED <<facts, assertions>>
    BY <2>2 DEF driver
  <2> QED  BY <1>2, <2>1, <2>7, <2>8, <2>9 DEF RealAcross
<1>7. CASE Export
  <2>1. /\ assertions' = [assertions EXCEPT ![path] = observed] /\ stage # "idle"
        /\ assertions \in [Path -> SUBSET Constraint] /\ path \in Path
        /\ EndPackage(ExportedMap)
    BY <1>7 DEF Export, MultiTypeInv, MultiType
  <2>2. /\ \A q \in Path : assertions'[q] = IF q = path THEN assertions'[path] ELSE assertions[q]
        /\ WholeProgram = assertions'[path] \cup UNION {assertions[r] : r \in Dependencies[path]}
    BY <2>1 DEF WholeProgram
  <2>3. /\ ExportedMap \in [Site -> Fact]
        /\ \A s \in Site : RealFact(ExportedMap[s], s, WholeProgram)
    BY <1>1, ExportedMapType, ExportedMapReal DEF RealAcross
  <2> QED  BY <2>1, <2>2, <2>3, EndPackageReal
<1>8. CASE Fail
  <2>1. /\ assertions' = [assertions EXCEPT ![path] = {}] /\ stage # "idle"
        /\ assertions \in [Path -> SUBSET Constraint] /\ path \in Path
        /\ EndPackage(EmptyMap)
    BY <1>8 DEF Fail, MultiTypeInv, MultiType
  <2>2. \A q \in Path : assertions'[q] = IF q = path THEN assertions'[path] ELSE assertions[q]
    BY <2>1
  <2>3. PICK obs : obs = assertions'[path] \cup UNION {assertions[r] : r \in Dependencies[path]}
    OBVIOUS
  <2>4. EmptyMap \in [Site -> Fact] /\ \A s \in Site : RealFact(EmptyMap[s], s, obs)
    BY AbsentType, AbsentReal DEF EmptyMap
  <2> QED  BY <2>1, <2>2, <2>3, <2>4, EndPackageReal
<1>9. CASE UNCHANGED allVars
  <2>1. /\ UNCHANGED <<facts, assertions, upstreamMapping, mapping, callStack, conflicts>>
        /\ WholeProgram' = WholeProgram
    BY <1>9 DEF allVars, vars, driver, WholeProgram
  <2>2. GraphReal(WholeProgram)'
    BY <2>1 DEF GraphReal, mapping, IsDetermined, Explained, RealAcross
  <2>3. \A s \in Site : RealFact(upstreamMapping'[s], s, WholeProgram')
    BY <2>1 DEF RealAcross
  <2> QED  BY <1>2, <2>1, <2>2, <2>3 DEF RealAcross
<1> QED
  BY <1>3, <1>4, <1>5, <1>6, <1>7, <1>8, <1>9 DEF NextMulti, AllAnalysed

LEMMA RealAcrossInit ==
  ASSUME InitMulti
  PROVE  RealAcross
<1>1. MappingType /\ \A s \in Site : nilability[s] = "absent"
  BY MultiTypeInit DEF InitMulti, MultiType, EngineType, GraphType
<1>2. GraphReal(WholeProgram)
  BY <1>1, NothingKnownReal DEF InitMulti
<1>3. /\ \A s \in Site : RealFact(upstreamMapping[s], s, WholeProgram)
      /\ \A q \in Path : \A s \in Site : RealFact(facts[q][s], s, Contributed(q))
  BY AbsentReal DEF InitMulti, EmptyMap
<1> QED  BY <1>2, <1>3, EmptySeq DEF InitMulti, RealAcross

-----------------------------------------------------------------------------
(****************************************************************************)
(* A package observes only its own triggers and annotations.                *)
(****************************************************************************)

Own(package) == package.triggers \cup {AnnotationConstraint(a) : a \in package.annotations}

LocalInv ==
  /\ pending \subseteq Own(pkg) /\ observed \subseteq Own(pkg)
  /\ \A r \in Site : controlledTriggersBySite[r] \subseteq pkg.triggers
  /\ callStack \in Seq(FrameWithin(pkg.triggers))
  /\ \A q \in Path : assertions[q] \subseteq Own(program[q])

LEMMA LocalInvStep ==
  ASSUME MultiTypeInv, LocalInv, [NextMulti]_allVars
  PROVE  LocalInv'
<1>1. CASE StartPackage
  <2>1. /\ pending' = {} /\ observed' = {} /\ callStack' = <<>>
        /\ \A r \in Site : controlledTriggersBySite'[r] = {}
        /\ UNCHANGED <<assertions, program>>
    BY <1>1 DEF StartPackage, MultiTypeInv, StageInv
  <2>2. callStack' \in Seq(FrameWithin(pkg'.triggers))
    BY <2>1, EmptySeq
  <2> QED  BY <2>1, <2>2 DEF LocalInv
<1>2. CASE ObserveFact
  <2>1. callStack' \in Seq(FrameWithin({}))
    BY <1>2, ObserveFactWithin DEF MultiTypeInv
  <2>2. FrameWithin({}) \subseteq FrameWithin(pkg.triggers)
    BY DEF FrameWithin
  <2>3. callStack' \in Seq(FrameWithin(pkg.triggers))
    BY <2>1, <2>2, SeqMonotonic
  <2> QED  BY <1>2, <2>3 DEF ObserveFact, driver, LocalInv
<1>3. CASE CopyUpstream
  BY <1>3 DEF CopyUpstream, driver, LocalInv, Own
<1>4. CASE Analyse
  <2> DEFINE T == pkg.triggers
  <2>1. Work /\ EngineType /\ T \in SUBSET Trigger /\ UNCHANGED <<program, assertions>>
    BY <1>4 DEF Analyse, Work, MultiTypeInv, MultiType, EngineType, driver
  <2>2. callStack' \in Seq(FrameWithin(T)) /\ observed' \subseteq observed \cup pending \cup T
    BY <2>1, WorkWithin DEF LocalInv
  <2>3. T \subseteq Own(pkg) /\ pkg' = pkg
    BY <2>1
    DEF Own, Work, ObserveAnnotation, ObservePackage, ObserveTrigger, ObserveNonErrRet,
        ActivateControlled, Propagate, Finish
  <2>4. OtherTriggers \subseteq T /\ FilteredTriggers \subseteq T
    BY DEF OtherTriggers, FilteredTriggers, NonErrRetTriggers, KeptTriggers
  <2>5. ASSUME NEW kept \in SUBSET T, BuildPkgInferenceMap(kept)
        PROVE  pending' \subseteq T /\ \A r \in Site : controlledTriggersBySite'[r] \subseteq T
    BY <2>5 DEF BuildPkgInferenceMap
  <2>6. /\ pending' \subseteq pending \cup T
        /\ \A r \in Site : controlledTriggersBySite'[r] \subseteq T
    <3>1. CASE ObservePackage
      BY <2>4, <2>5, <3>1 DEF ObservePackage
    <3>2. CASE ObserveNonErrRet
      BY <2>4, <2>5, <3>2 DEF ObserveNonErrRet
    <3>3. CASE pending' \subseteq pending /\ UNCHANGED controlledTriggersBySite
      BY <3>3 DEF LocalInv
    <3> QED
      BY <2>1, <3>1, <3>2, <3>3
      DEF Work, ObserveAnnotation, ObserveTrigger, ActivateControlled, Propagate, Finish
  <2> QED  BY <2>1, <2>2, <2>3, <2>6 DEF LocalInv
<1>5. CASE Export \/ Fail
  <2>1. /\ pending' = {} /\ observed' = {} /\ callStack' = <<>>
        /\ \A r \in Site : controlledTriggersBySite'[r] = {}
        /\ UNCHANGED program
    BY <1>5 DEF Export, Fail, EndPackage
  <2>2. callStack' \in Seq(FrameWithin(pkg'.triggers))
    BY <2>1, EmptySeq
  <2>3. pkg = program[path]
    BY <1>5 DEF Export, Fail, MultiTypeInv, StageInv
  <2>4. \A q \in Path : assertions'[q] \subseteq Own(program[q])
    BY <1>5, <2>3 DEF Export, Fail, LocalInv, MultiTypeInv, MultiType
  <2> QED  BY <2>1, <2>2, <2>4 DEF LocalInv
<1>6. CASE UNCHANGED allVars
  BY <1>6 DEF allVars, vars, driver, LocalInv
<1> QED
  BY <1>1, <1>2, <1>3, <1>4, <1>5, <1>6 DEF NextMulti, AllAnalysed

-----------------------------------------------------------------------------
(****************************************************************************)
(* Completeness inside a package: what it was told and what it observed is  *)
(* settled.                                                                 *)
(****************************************************************************)

\* The fact of import i has done its work.
ImportDone(i) ==
  IF i.call = "explanation"
  THEN nilability[i.site] = facts[i.from][i.site].nilability \/ conflicts # {}
  ELSE Settled(i.edge.assertion, callStack)

SettledAcross ==
  /\ \A t \in observed : Settled(t, callStack)
  /\ stage # "idle" => \A i \in PackageImports(path) : i \in imports \/ ImportDone(i)

\* What is done stays done.
LEMMA ImportStaysDone ==
  ASSUME MultiType, NEW i \in PackageImports(path), ImportDone(i), UNCHANGED facts, Extends,
         conflicts \subseteq conflicts',
         \A t \in Constraint : Settled(t, callStack) => Settled(t, callStack)'
  PROVE  ImportDone(i)'
<1>1. CASE i.call = "explanation"
  <2>1. i.site \in Site /\ DeterminedIn(facts[i.from][i.site])
    BY <1>1, ImportType
  <2> QED  BY <1>1, <2>1 DEF ImportDone, Extends, DeterminedIn, IsDetermined
<1>2. CASE i.call # "explanation"
  <2>1. i.edge.assertion \in Constraint
    BY <1>2, ImportType DEF Edge, PackageImports, SiteImports, EdgeImports
  <2> QED  BY <1>2, <2>1 DEF ImportDone
<1> QED  BY <1>1, <1>2

LEMMA ObserveFactSettles ==
  ASSUME MultiTypeInv, RealAcross, ObserveFact
  PROVE  /\ conflicts \subseteq conflicts'
         /\ \A t \in Constraint : Settled(t, callStack) => Settled(t, callStack)'
         /\ \A i \in imports : i \in imports' \/ ImportDone(i)'
<1>1. PICK obs : obs = WholeProgram
  OBVIOUS
<1>2. /\ MappingType /\ <<>> \in Seq(LiveFrame)
      /\ obs \in SUBSET Constraint /\ GraphReal(obs)
      /\ \A r \in Site : controlledTriggersBySite[r] \subseteq Trigger
      /\ MultiType /\ StageInv /\ callStack = <<>> /\ UNCHANGED facts
  BY <1>1, EmptySeq, WholeProgramType
  DEF MultiTypeInv, MultiType, EngineType, GraphType, ObserveFact, RealAcross, Quiescent, driver
<1>3. PICK i \in PackageImports(path) :
        /\ imports' = imports \ {i}
        /\ \/ /\ i.call = "explanation"
              /\ ObserveSiteExplanation(i.site, FactExplained(facts[i.from][i.site]), <<>>)
           \/ /\ i.call = "implicate"
              /\ ObserveImplication(i.site, i.edge.site, i.edge.assertion, <<>>)
           \/ /\ i.call = "implicant"
              /\ ObserveImplication(i.edge.site, i.site, i.edge.assertion, <<>>)
  BY <1>2, ObserveFactCases
<1>4. conflicts \subseteq conflicts'
  BY <1>3 DEF ObserveImplication, ObserveSiteExplanation
<1>5. /\ \A t \in Constraint : Settled(t, callStack) => Settled(t, callStack)'
      /\ ImportDone(i)'
  <2>1. CASE i.call = "explanation"
    <3> DEFINE v == facts[i.from][i.site]
               e == FactExplained(v)
    <3>1. /\ i.site \in Site /\ v \in Fact /\ DeterminedIn(v)
          /\ e \in SomeExplained /\ e.val \in BOOLEAN
      BY <1>2, <2>1, ImportType, FactExplainedType DEF FactExplained
    <3>2. ObserveSiteExplanation(i.site, e, <<>>)
      BY <1>3, <2>1
    <3>3. Nilness(e.val) = v.nilability
      BY <3>1 DEF Nilness, FactExplained, DeterminedIn
    <3>4. nilability'[i.site] = v.nilability \/ conflicts' # {}
      BY <1>2, <3>1, <3>2, <3>3 DEF ObserveSiteExplanation, StoreDetermined, MappingType, mapping
    <3>5. \A t \in Constraint : Settled(t, callStack) => Settled(t, callStack)'
      BY <1>2, <3>1, <3>2, SiteExplanationKeepsSettled
    <3> QED  BY <1>2, <2>1, <3>4, <3>5 DEF ImportDone
  <2>2. CASE i.call # "explanation"
    <3> DEFINE u == i.edge.assertion
    <3>1. /\ i.edge.site \in Site /\ u \in Constraint /\ i.site \in Site
          /\ i.call = "implicate" => u.producer = i.site /\ u.consumer = i.edge.site
          /\ i.call = "implicant" => u.producer = i.edge.site /\ u.consumer = i.site
      BY <1>1, <1>2, <1>3, <2>2, ImportType, FactReal DEF RealFact, RealEdge, Edge
    <3>2. /\ u.producer \in Site /\ u.consumer \in Site
          /\ ObserveImplication(u.producer, u.consumer, u, <<>>)
      BY <1>3, <2>2, <3>1
    <3>3. \A t \in Constraint : Settled(t, <<>>) \/ t = u => Settled(t, callStack)'
      BY <1>2, <3>1, <3>2, ObserveImplicationSettles
    <3> QED  BY <1>2, <2>2, <3>1, <3>3 DEF ImportDone
  <2> QED  BY <2>1, <2>2
<1> QED  BY <1>3, <1>4, <1>5

LEMMA SettledAcrossStep ==
  ASSUME MultiTypeInv, RealAcross, SettledAcross, [NextMulti]_allVars
  PROVE  SettledAcross'
<1>1. /\ MultiType /\ StageInv /\ EngineType /\ observed \subseteq Constraint
      /\ WholeProgram \in SUBSET Constraint
  BY WholeProgramType DEF MultiTypeInv, MultiType, EngineType
<1>2. CASE StartPackage
  <2>1. /\ imports' = PackageImports(path)' /\ observed' = {}
    BY <1>2
    DEF StartPackage, PackageImports, SiteImports, EdgeImports, MultiTypeInv, StageInv
  <2> QED  BY <2>1 DEF SettledAcross
<1>3. CASE ObserveFact
  <2>1. /\ observed' = observed /\ UNCHANGED facts /\ stage # "idle"
        /\ PackageImports(path)' = PackageImports(path)
    BY <1>3 DEF ObserveFact, driver, PackageImports, SiteImports, EdgeImports
  <2>2. Extends
    BY <1>1, <1>3, ObserveFactType
  <2>3. /\ conflicts \subseteq conflicts'
        /\ \A t \in Constraint : Settled(t, callStack) => Settled(t, callStack)'
        /\ \A i \in imports : i \in imports' \/ ImportDone(i)'
    BY <1>3, ObserveFactSettles
  <2>4. \A i \in PackageImports(path) : ImportDone(i) => ImportDone(i)'
    BY <1>1, <2>1, <2>2, <2>3, ImportStaysDone
  <2> QED  BY <1>1, <2>1, <2>3, <2>4 DEF SettledAcross
<1>4. CASE Analyse
  <2>1. Work /\ UNCHANGED <<facts, imports>> /\ PackageImports(path)' = PackageImports(path)
    BY <1>4 DEF Analyse, Work, driver, PackageImports, SiteImports, EdgeImports
  <2>2. Extends /\ conflicts \subseteq conflicts'
    BY <1>1, <2>1, StepExtends, WorkKeepsConflicts
  <2>3. \A t \in Constraint :
          Settled(t, callStack) \/ t \in observed' \ observed => Settled(t, callStack)'
    BY <1>1, <2>1, WorkSettles DEF RealAcross
  <2>4. observed' \subseteq Constraint
    BY MultiTypeInvariant DEF MultiTypeInv, MultiType, EngineType
  <2>5. \A t \in observed' : Settled(t, callStack)'
    BY <2>3, <2>4 DEF SettledAcross
  <2>6. \A i \in PackageImports(path) : ImportDone(i) => ImportDone(i)'
    BY <1>1, <2>1, <2>2, <2>3, ImportStaysDone
  <2>7. stage # "idle"
    BY <1>4
    DEF Analyse, MultiTypeInv, StageInv, ObserveAnnotation, ObservePackage, ObserveTrigger,
        ObserveNonErrRet, ActivateControlled, Propagate, Finish, Quiescent
  <2> QED  BY <2>1, <2>5, <2>6, <2>7 DEF SettledAcross
<1>5. CASE CopyUpstream \/ UNCHANGED allVars
  <2>1. /\ UNCHANGED <<facts, imports, mapping, callStack, conflicts, observed>>
        /\ PackageImports(path)' = PackageImports(path)
        /\ stage' # "idle" => stage # "idle"
    BY <1>5
    DEF CopyUpstream, driver, allVars, vars, PackageImports, SiteImports, EdgeImports
  <2>2. \A t : Settled(t, callStack) => Settled(t, callStack)'
    BY <2>1, UnchangedSettled
  <2>3. \A i \in PackageImports(path) : ImportDone(i) => ImportDone(i)'
    BY <2>1, <2>2 DEF ImportDone, mapping
  <2> QED  BY <2>1, <2>2, <2>3 DEF SettledAcross
<1>6. CASE Export \/ Fail
  BY <1>6 DEF Export, Fail, EndPackage, SettledAcross
<1> QED
  BY <1>2, <1>3, <1>4, <1>5, <1>6 DEF NextMulti, AllAnalysed

-----------------------------------------------------------------------------
(****************************************************************************)
(* What the facts force.  While a package observes its facts it derives     *)
(* nothing but their consequences: whatever satisfies the facts of its      *)
(* dependencies satisfies the upstream map that it keeps.                   *)
(****************************************************************************)

SatisfiesFact(N, s, v) ==
  /\ v.nilability = "nilable" => s \in N
  /\ v.nilability = "nonnil" => s \notin N
  /\ \A x \in v.implicates \cup v.implicants : Satisfies(N, x.assertion)

FactSolutions(p) ==
  {N \in SUBSET Site : \A q \in Dependencies[p] : \A s \in Site : SatisfiesFact(N, s, facts[q][s])}

\* The map of the engine is true of N, and so is what is still to be propagated.
MapHolds(N) ==
  /\ \A s \in Site : /\ nilability[s] = "nilable" => s \in N
                     /\ nilability[s] = "nonnil" => s \notin N
  /\ \A s \in Site : \A j \in DOMAIN implicates[s] : Satisfies(N, implicates[s][j].assertion)
  /\ \A s \in Site : \A j \in DOMAIN implicants[s] : Satisfies(N, implicants[s][j].assertion)

FrameHolds(N) ==
  {f \in Frame : \A j \in DOMAIN f.edges : f.edges[j].site \in N <=> f.explained.val}

LEMMA ObserveSiteExplanationHolds ==
  ASSUME MappingType, NEW obs, GraphReal(obs), NEW N \in SUBSET Site, MapHolds(N),
         \A r \in Site : controlledTriggersBySite[r] \subseteq Trigger,
         NEW s \in Site, NEW e \in SomeExplained, s \in N <=> e.val,
         NEW below \in Seq(FrameHolds(N)),
         ObserveSiteExplanation(s, e, below)
  PROVE  MapHolds(N)' /\ callStack' \in Seq(FrameHolds(N))
<1>1. e.val \in BOOLEAN /\ e \in ExplainedBool
  BY DEF SomeExplained, ExplainedBool
<1>2. Spread(s, e) \in Seq(Edge) /\ <<>> \in Seq(Edge) /\ Activated(s, e) \subseteq Trigger
  BY EmptySeq DEF Spread, Activated, MappingType
<1>3. \A j \in DOMAIN Spread(s, e) : Spread(s, e)[j].site \in N <=> e.val
  <2>1. CASE e.val
    <3>1. ASSUME NEW j \in DOMAIN implicates[s]
          PROVE  implicates[s][j].site \in N
      BY <2>1 DEF GraphReal, RealEdge, MapHolds, Satisfies
    <3> QED  BY <2>1, <3>1 DEF Spread
  <2>2. CASE ~e.val
    <3>1. ASSUME NEW j \in DOMAIN implicants[s]
          PROVE  implicants[s][j].site \notin N
      BY <2>2 DEF GraphReal, RealEdge, MapHolds, Satisfies
    <3> QED  BY <1>1, <2>2, <3>1 DEF Spread
  <2> QED  BY <2>1, <2>2
<1>4. /\ [triggers |-> Activated(s, e), edges |-> Spread(s, e), explained |-> e] \in FrameHolds(N)
      /\ [triggers |-> Activated(s, e), edges |-> <<>>, explained |-> e] \in FrameHolds(N)
  BY <1>1, <1>2, <1>3 DEF FrameHolds, Frame
<1>5. callStack' \in Seq(FrameHolds(N))
  BY <1>4, PushIn DEF ObserveSiteExplanation
<1>6. CASE StoreDetermined(s, e)
  <2>1. /\ \A r \in Site : nilability'[r] = IF r = s THEN Nilness(e.val) ELSE nilability[r]
        /\ \A r \in Site : implicates'[r] = IF r = s THEN <<>> ELSE implicates[r]
        /\ \A r \in Site : implicants'[r] = IF r = s THEN <<>> ELSE implicants[r]
    BY <1>6 DEF StoreDetermined, MappingType
  <2>2. ASSUME NEW r \in Site
        PROVE  /\ nilability'[r] = "nilable" => r \in N
               /\ nilability'[r] = "nonnil" => r \notin N
    BY <1>1, <2>1 DEF Nilness, MapHolds
  <2>3. ASSUME NEW r \in Site
        PROVE  /\ \A j \in DOMAIN implicates'[r] : Satisfies(N, implicates'[r][j].assertion)
               /\ \A j \in DOMAIN implicants'[r] : Satisfies(N, implicants'[r][j].assertion)
    <3>1. CASE r = s
      <4>1. DOMAIN implicates'[r] = {} /\ DOMAIN implicants'[r] = {}
        BY <2>1, <3>1
      <4> QED  BY <4>1
    <3>2. CASE r # s
      BY <2>1, <3>2 DEF MapHolds
    <3> QED  BY <3>1, <3>2
  <2> QED  BY <1>5, <2>2, <2>3 DEF MapHolds
<1>7. CASE UNCHANGED mapping
  BY <1>5, <1>7 DEF mapping, MapHolds
<1> QED  BY <1>6, <1>7 DEF ObserveSiteExplanation, mapping

LEMMA StoreEdgeHolds ==
  ASSUME NEW N, NEW edges \in Seq(Edge), \A j \in DOMAIN edges : Satisfies(N, edges[j].assertion),
         NEW s \in Site, NEW t \in Constraint, Satisfies(N, t)
  PROVE  \A j \in DOMAIN StoreEdge(edges, s, t) :
           Satisfies(N, StoreEdge(edges, s, t)[j].assertion)
<1> DEFINE edge == [site |-> s, assertion |-> t]
<1>1. edge \in Edge /\ DOMAIN edges = 1..Len(edges) /\ Len(edges) \in Nat
  BY LenProperties DEF Edge
<1>2. CASE \E i \in DOMAIN edges : edges[i].site = s
  BY <1>2 DEF StoreEdge
<1>3. CASE ~\E i \in DOMAIN edges : edges[i].site = s
  <2>1. /\ DOMAIN Append(edges, edge) = 1..(Len(edges) + 1)
        /\ \A i \in 1..Len(edges) : Append(edges, edge)[i] = edges[i]
        /\ Append(edges, edge)[Len(edges) + 1] = edge
    BY <1>1, AppendProperties, LenProperties
  <2>2. \A i \in 1..(Len(edges) + 1) : i \in 1..Len(edges) \/ i = Len(edges) + 1
    BY <1>1
  <2>3. edge.assertion = t
    OBVIOUS
  <2> HIDE DEF edge
  <2>4. \A i \in 1..(Len(edges) + 1) : Satisfies(N, Append(edges, edge)[i].assertion)
    BY <1>1, <2>1, <2>2, <2>3
  <2>5. StoreEdge(edges, s, t) = Append(edges, edge)
    BY <1>3 DEF StoreEdge, edge
  <2> QED  BY <2>1, <2>4, <2>5
<1> QED  BY <1>2, <1>3

LEMMA ObserveImplicationHolds ==
  ASSUME MappingType, NEW obs, GraphReal(obs), NEW N \in SUBSET Site, MapHolds(N),
         \A r \in Site : controlledTriggersBySite[r] \subseteq Trigger,
         NEW t \in Constraint, t.producer \in Site, t.consumer \in Site, Satisfies(N, t),
         NEW below \in Seq(FrameHolds(N)),
         ObserveImplication(t.producer, t.consumer, t, below)
  PROVE  MapHolds(N)' /\ callStack' \in Seq(FrameHolds(N))
<1> DEFINE p == t.producer
           c == t.consumer
<1>1. CASE /\ nilability[p] = "nilable"
           /\ ObserveSiteExplanation(c, BecauseDeep(Explained(p), t), below)
  <2>1. /\ BecauseDeep(Explained(p), t) \in SomeExplained
        /\ BecauseDeep(Explained(p), t).val = TRUE
    BY <1>1, ExplainedType, BecauseType DEF IsDetermined, BecauseDeep, Explained
  <2>2. c \in N
    BY <1>1 DEF MapHolds, Satisfies
  <2> QED  BY <1>1, <2>1, <2>2, ObserveSiteExplanationHolds
<1>2. CASE /\ nilability[c] = "nonnil"
           /\ ObserveSiteExplanation(p, BecauseDeep(Explained(c), t), below)
  <2>1. /\ BecauseDeep(Explained(c), t) \in SomeExplained
        /\ BecauseDeep(Explained(c), t).val = FALSE
    BY <1>2, ExplainedType, BecauseType DEF IsDetermined, BecauseDeep, Explained
  <2>2. p \notin N
    BY <1>2 DEF MapHolds, Satisfies
  <2> QED  BY <1>2, <2>1, <2>2, ObserveSiteExplanationHolds
<1>3. CASE callStack' = below /\ UNCHANGED <<mapping, conflicts>>
  BY <1>3 DEF MapHolds, mapping
<1>4. CASE /\ ~IsDetermined(p) /\ ~IsDetermined(c)
           /\ StoreImplication(p, c, t)
           /\ callStack' = below
  <2>1. /\ \A r \in Site : nilability'[r] =
             IF r \in {p, c} THEN "undetermined" ELSE nilability[r]
        /\ \A r \in Site :
             implicates'[r] = IF r = p THEN StoreEdge(implicates[p], c, t) ELSE implicates[r]
        /\ \A r \in Site :
             implicants'[r] = IF r = c THEN StoreEdge(implicants[c], p, t) ELSE implicants[r]
    BY <1>4 DEF StoreImplication, MappingType
  <2>2. \A j \in DOMAIN StoreEdge(implicates[p], c, t) :
          Satisfies(N, StoreEdge(implicates[p], c, t)[j].assertion)
    BY StoreEdgeHolds DEF MapHolds, MappingType
  <2>3. \A j \in DOMAIN StoreEdge(implicants[c], p, t) :
          Satisfies(N, StoreEdge(implicants[c], p, t)[j].assertion)
    BY StoreEdgeHolds DEF MapHolds, MappingType
  <2> QED  BY <1>4, <2>1, <2>2, <2>3 DEF MapHolds
<1> QED  BY <1>1, <1>2, <1>3, <1>4 DEF ObserveImplication

LEMMA ObserveFactHolds ==
  ASSUME MultiTypeInv, RealAcross, ObserveFact, NEW N \in FactSolutions(path), MapHolds(N)
  PROVE  MapHolds(N)' /\ callStack' \in Seq(FrameHolds(N))
<1>1. PICK obs : obs = WholeProgram
  OBVIOUS
<1>2. /\ MappingType /\ <<>> \in Seq(FrameHolds(N))
      /\ GraphReal(obs) /\ N \in SUBSET Site /\ MultiType /\ StageInv
      /\ \A r \in Site : controlledTriggersBySite[r] \subseteq Trigger
  BY <1>1, EmptySeq
  DEF MultiTypeInv, MultiType, EngineType, GraphType, RealAcross, FactSolutions
<1>3. PICK i \in PackageImports(path) :
        \/ /\ i.call = "explanation"
           /\ ObserveSiteExplanation(i.site, FactExplained(facts[i.from][i.site]), <<>>)
        \/ /\ i.call = "implicate"
           /\ ObserveImplication(i.site, i.edge.site, i.edge.assertion, <<>>)
        \/ /\ i.call = "implicant"
           /\ ObserveImplication(i.edge.site, i.site, i.edge.assertion, <<>>)
  BY <1>2, ObserveFactCases
<1> DEFINE v == facts[i.from][i.site]
<1>4. /\ i.from \in Dependencies[path] /\ i.site \in Site
      /\ SatisfiesFact(N, i.site, v) /\ RealFact(v, i.site, obs)
  BY <1>1, <1>2, ImportType, FactReal DEF FactSolutions
<1>5. CASE i.call = "explanation"
  <2>1. /\ FactExplained(v) \in SomeExplained
        /\ i.site \in N <=> FactExplained(v).val
    BY <1>2, <1>4, <1>5, ImportType, FactExplainedType DEF FactExplained, SatisfiesFact, DeterminedIn
  <2> QED  BY <1>2, <1>3, <1>4, <1>5, <2>1, ObserveSiteExplanationHolds
<1>6. CASE i.call # "explanation"
  <2> DEFINE t == i.edge.assertion
  <2>1. /\ i.edge.site \in Site /\ t \in Constraint /\ Satisfies(N, t)
        /\ i.call = "implicate" => t.producer = i.site /\ t.consumer = i.edge.site
        /\ i.call = "implicant" => t.producer = i.edge.site /\ t.consumer = i.site
    BY <1>2, <1>3, <1>4, <1>6, ImportType DEF RealFact, RealEdge, Edge, SatisfiesFact
  <2>2. t.producer \in Site /\ t.consumer \in Site /\ ObserveImplication(t.producer, t.consumer, t, <<>>)
    BY <1>3, <1>4, <1>6, <2>1
  <2> QED  BY <1>2, <2>1, <2>2, ObserveImplicationHolds
<1> QED  BY <1>5, <1>6

LEMMA PropagateHolds ==
  ASSUME MultiTypeInv, RealAcross, Propagate, NEW N \in SUBSET Site,
         MapHolds(N), callStack \in Seq(FrameHolds(N))
  PROVE  MapHolds(N)' /\ callStack' \in Seq(FrameHolds(N))
<1>1. PICK obs : obs = WholeProgram
  OBVIOUS
<1>2. /\ MappingType /\ callStack \in Seq(LiveFrame) /\ GraphReal(obs)
      /\ \A r \in Site : controlledTriggersBySite[r] \subseteq Trigger
  BY <1>1 DEF MultiTypeInv, MultiType, EngineType, GraphType, RealAcross
<1> DEFINE frame == Head(callStack)
           edge == Head(frame.edges)
           rest == [frame EXCEPT !.edges = Tail(@)]
<1>3. callStack # <<>> /\ frame.triggers = {}
  BY DEF Propagate, Quiescent
<1>4. frame \in LiveFrame /\ frame \in FrameHolds(N) /\ Tail(callStack) \in Seq(FrameHolds(N))
  BY <1>2, <1>3, HeadTailProperties
<1>5. /\ edge \in Edge /\ edge = frame.edges[1] /\ 1 \in DOMAIN frame.edges
      /\ Tail(frame.edges) \in Seq(Edge)
      /\ \A j \in DOMAIN Tail(frame.edges) :
           Tail(frame.edges)[j] = frame.edges[j + 1] /\ j + 1 \in DOMAIN frame.edges
  BY <1>3, <1>4, HeadTailProperties, LenProperties DEF LiveFrame, Frame
<1>6. rest \in Frame /\ rest.explained = frame.explained /\ rest.edges = Tail(frame.edges)
  BY <1>4, <1>5 DEF LiveFrame, Frame
<1>7. rest \in FrameHolds(N)
  BY <1>4, <1>5, <1>6 DEF FrameHolds
<1>8. Push(rest, Tail(callStack)) \in Seq(FrameHolds(N))
  BY <1>4, <1>7, PushIn
<1> DEFINE e == BecauseDeep(frame.explained, edge.assertion)
<1>9. /\ edge.site \in Site /\ e \in SomeExplained /\ e.val = frame.explained.val
      /\ edge.site \in N <=> frame.explained.val
  BY <1>4, <1>5, BecauseType DEF LiveFrame, Edge, FrameHolds, BecauseDeep
<1>10. ObserveSiteExplanation(edge.site, e, Push(rest, Tail(callStack)))
  BY DEF Propagate
<1> HIDE DEF e, edge, rest, frame
<1> QED  BY <1>2, <1>8, <1>9, <1>10, ObserveSiteExplanationHolds

UpstreamHolds ==
  \A N \in FactSolutions(path) :
    /\ stage = "upstream" => MapHolds(N) /\ callStack \in Seq(FrameHolds(N))
    /\ \A s \in Site : SatisfiesFact(N, s, upstreamMapping[s])

LEMMA AbsentSatisfied ==
  ASSUME NEW N, NEW s
  PROVE  SatisfiesFact(N, s, Absent)
BY DEF SatisfiesFact, Absent

LEMMA InferredSatisfied ==
  ASSUME MappingType, NEW N, MapHolds(N), NEW s \in Site
  PROVE  SatisfiesFact(N, s, Inferred(s))
BY DEF MapHolds, SatisfiesFact, Inferred, Range

LEMMA UpstreamHoldsStep ==
  ASSUME MultiTypeInv, RealAcross, UpstreamHolds, [NextMulti]_allVars
  PROVE  UpstreamHolds'
<1>1. /\ MappingType /\ StageInv
  BY DEF MultiTypeInv, MultiType, EngineType, GraphType
<1>2. CASE StartPackage
  <2>1. /\ \A s \in Site : nilability[s] = "absent"
        /\ callStack = <<>> /\ upstreamMapping = EmptyMap
    BY <1>1, <1>2 DEF StartPackage, StageInv
  <2>2. \A s \in Site : DOMAIN implicates[s] = {} /\ DOMAIN implicants[s] = {}
    BY <1>1, <2>1 DEF MappingType
  <2>3. ASSUME NEW N
        PROVE  MapHolds(N)' /\ callStack' \in Seq(FrameHolds(N))
    BY <1>2, <2>1, <2>2, EmptySeq DEF StartPackage, mapping, MapHolds
  <2>4. ASSUME NEW N, NEW s \in Site
        PROVE  SatisfiesFact(N, s, upstreamMapping'[s])
    BY <1>2, <2>1, AbsentSatisfied DEF StartPackage, EmptyMap
  <2> QED  BY <2>3, <2>4 DEF UpstreamHolds
<1>3. CASE ObserveFact
  <2>1. FactSolutions(path)' = FactSolutions(path) /\ UNCHANGED upstreamMapping /\ stage = "upstream"
    BY <1>3 DEF ObserveFact, driver, FactSolutions
  <2> QED  BY <1>3, <2>1, ObserveFactHolds DEF UpstreamHolds
<1>4. CASE CopyUpstream
  <2>1. /\ FactSolutions(path)' = FactSolutions(path) /\ stage = "upstream" /\ stage' # "upstream"
        /\ upstreamMapping' = [s \in Site |-> Inferred(s)]
    BY <1>4 DEF CopyUpstream, driver, FactSolutions
  <2> QED  BY <1>1, <2>1, InferredSatisfied DEF UpstreamHolds
<1>5. CASE Analyse
  <2>1. FactSolutions(path)' = FactSolutions(path) /\ UNCHANGED upstreamMapping
    BY <1>5 DEF Analyse, driver, FactSolutions
  <2>2. ASSUME stage' = "upstream"
        PROVE  stage = "upstream" /\ Propagate
    <3>1. stage = "upstream"
      BY <1>5, <2>2
      DEF Analyse, ObserveAnnotation, ObservePackage, ObserveTrigger, ObserveNonErrRet,
          ActivateControlled, Propagate, Finish
    <3>2. ~ActivateControlled
      <4> SUFFICES ASSUME ActivateControlled
                   PROVE  FALSE
        OBVIOUS
      <4>1. callStack \in Seq(FrameWithin({})) /\ callStack # <<>>
        BY <1>1, <3>1 DEF StageInv, ActivateControlled, Quiescent
      <4>2. Head(callStack) \in FrameWithin({})
        BY <4>1, HeadTailProperties
      <4> QED  BY <4>2 DEF ActivateControlled, FrameWithin
    <3> QED
      BY <1>5, <3>1, <3>2
      DEF Analyse, ObserveAnnotation, ObservePackage, ObserveTrigger, ObserveNonErrRet, Finish
  <2>3. FactSolutions(path) \subseteq SUBSET Site
    BY DEF FactSolutions
  <2> QED  BY <2>1, <2>2, <2>3, PropagateHolds DEF UpstreamHolds
<1>6. CASE Export \/ Fail
  <2>1. upstreamMapping' = EmptyMap /\ stage' = "idle"
    BY <1>6 DEF Export, Fail, EndPackage
  <2> QED  BY <2>1, AbsentSatisfied DEF UpstreamHolds, EmptyMap
<1>7. CASE UNCHANGED allVars
  BY <1>7 DEF allVars, vars, driver, mapping, FactSolutions, UpstreamHolds, MapHolds
<1> QED
  BY <1>2, <1>3, <1>4, <1>5, <1>6, <1>7 DEF NextMulti, AllAnalysed

LEMMA UpstreamHoldsInit ==
  ASSUME InitMulti
  PROVE  UpstreamHolds
BY AbsentSatisfied DEF InitMulti, UpstreamHolds, EmptyMap

-----------------------------------------------------------------------------
(****************************************************************************)
(* What the export may leave out.  A choice for the exported sites that     *)
(* agrees with the facts of a package extends to its inner sites.           *)
(****************************************************************************)

\* A site that a walk comes to: one step further from where the walk has been.
LEMMA WalkStep ==
  ASSUME NEW edges, NEW r \in Exported \cup Walk(edges), nilability[r] = "undetermined",
         NEW n \in Site, Inner(n), Leads(Range(edges[r]), n)
  PROVE  n \in Walk(edges)
<1> SUFFICES ASSUME NEW C \in SUBSET Site,
                    \A q \in Exported \cup C, m \in Site :
                      nilability[q] = "undetermined" /\ Inner(m) /\ Leads(Range(edges[q]), m) => m \in C
             PROVE  n \in C
  BY DEF Walk
<1>1. r \in Exported \cup C
  BY DEF Walk
<1> QED  BY <1>1

LEMMA HasEdgeLeads ==
  ASSUME MappingType, NEW p \in Site, NEW c \in Site, HasEdge(p, c)
  PROVE  /\ Leads(Range(implicates[p]), c) /\ nilability[p] = "undetermined"
         /\ Leads(Range(implicants[c]), p) /\ nilability[c] = "undetermined"
<1>1. DOMAIN implicates[p] # {} /\ DOMAIN implicants[c] # {}
  BY DEF HasEdge
<1>2. implicates[p] # <<>> /\ implicants[c] # <<>>
  BY <1>1
<1>3. nilability[p] = "undetermined" /\ nilability[c] = "undetermined"
  BY <1>2 DEF MappingType
<1>4. Leads(Range(implicates[p]), c) /\ Leads(Range(implicants[c]), p)
  BY DEF HasEdge, Leads, Range
<1> QED  BY <1>3, <1>4

\* Of a site that is chosen for the export, the facts of the package and of its
\* dependencies tell all that the package knows.
LEMMA ChosenIsTold ==
  ASSUME MultiTypeInv, UpstreamInv, RealAcross, UpstreamHolds,
         NEW N \in FactSolutions(path), NEW s \in Site, s \in ChooseSitesToExport,
         SatisfiesFact(N, s, ExportedMap[s])
  PROVE  /\ nilability[s] = "nilable" => s \in N
         /\ nilability[s] = "nonnil" => s \notin N
         /\ \A c \in Site : ~IsDetermined(s) /\ Leads(Range(implicates[s]), c) /\ s \in N => c \in N
<1> DEFINE val == Inferred(s)
           old == upstreamMapping[s]
<1>1. /\ MappingType /\ val \in Fact /\ old \in Fact
      /\ val.nilability = nilability[s] /\ val.implicates = Range(implicates[s])
  BY InferredType DEF MultiTypeInv, MultiType, EngineType, GraphType, Inferred
<1>2. /\ SatisfiesFact(N, s, old)
      /\ DeterminedIn(old) => nilability[s] = old.nilability
  BY DEF UpstreamHolds, UpstreamInv
<1>3. ASSUME NEW x \in val.implicates \cup old.implicates, Satisfies(N, x.assertion), s \in N
      PROVE  x.site \in N
  <2>1. RealEdge(x, TRUE, s, WholeProgram)
    BY <1>1 DEF RealAcross, GraphReal, Range, RealFact
  <2> QED  BY <1>3, <2>1 DEF RealEdge, Satisfies
<1>4. ExportedMap[s] = IF old = Absent THEN val ELSE InferredValDiff(val, old)
  BY DEF ExportedMap
<1> HIDE DEF val, old
<1>5. CASE ExportedMap[s] = val
  <2>1. ASSUME NEW x \in val.implicates, s \in N
        PROVE  x.site \in N
    BY <1>3, <1>5, <2>1 DEF SatisfiesFact
  <2> QED  BY <1>1, <1>5, <2>1 DEF SatisfiesFact, Leads
<1>6. CASE DeterminedIn(old)
  BY <1>2, <1>6 DEF SatisfiesFact, DeterminedIn, IsDetermined
<1>7. CASE ~DeterminedIn(old) /\ ~DeterminedIn(val) /\ ExportedMap[s] = InferredValDiff(val, old)
  <2> DEFINE new == [val EXCEPT !.implicates = NewEdges(val.implicates, old.implicates),
                                !.implicants = NewEdges(val.implicants, old.implicants)]
  <2>1. new.implicates = NewEdges(val.implicates, old.implicates)
    BY <1>1 DEF Fact
  <2>2. NewEdges(val.implicates, old.implicates) # {} => ExportedMap[s] = new
    BY <1>7, <2>1 DEF InferredValDiff
  <2>3. ASSUME NEW x \in val.implicates, s \in N
        PROVE  x.site \in N
    <3>1. CASE Leads(old.implicates, x.site)
      BY <1>2, <1>3, <2>3, <3>1 DEF Leads, SatisfiesFact
    <3>2. CASE ~Leads(old.implicates, x.site)
      <4>1. x \in NewEdges(val.implicates, old.implicates)
        BY <3>2 DEF NewEdges
      <4>2. x \in ExportedMap[s].implicates
        BY <2>1, <2>2, <4>1
      <4> QED  BY <1>3, <2>3, <4>2 DEF SatisfiesFact
    <3> QED  BY <3>1, <3>2
  <2> QED  BY <1>1, <1>7, <2>3 DEF Leads, DeterminedIn, IsDetermined
<1> QED  BY <1>4, <1>5, <1>6, <1>7 DEF InferredValDiff

\* At a quiet moment what was settled is accounted for.
LEMMA QuietAccounted ==
  ASSUME callStack = <<>>, NEW t, Settled(t, callStack)
  PROVE  AccountedFor(t)
<1>1. \A val : ~Awaited(t, val, callStack)
  BY DEF Awaited
<1> QED  BY <1>1 DEF Settled, Open, ReportedIn, AccountedFor

\* A site that is told of keeps the value of N.  An inner site that is not told
\* of is nilable if a walk from an exported site comes to it.
Extension(N) ==
  {s \in Site : \/ nilability[s] = "nilable"
                \/ /\ ~IsDetermined(s)
                   /\ IF s \in Exported \cup (Walk(implicates) \cap Walk(implicants))
                      THEN s \in N ELSE s \in Walk(implicates)}

LEMMA ExtensionSatisfies ==
  ASSUME MultiTypeInv, UpstreamInv, RealAcross, UpstreamHolds,
         NEW N \in FactSolutions(path), \A s \in Site : SatisfiesFact(N, s, ExportedMap[s]),
         NEW t \in Constraint, AccountedFor(t), conflicts = {}
  PROVE  Satisfies(Extension(N), t)
<1> DEFINE p == t.producer
           c == t.consumer
           Both == Walk(implicates) \cap Walk(implicants)
           M == Extension(N)
<1>1. /\ p \in Site \cup {Nil, Never, Annotated} /\ c \in Site \cup {Deref, Annotated}
      /\ ~(ProducerIsNil(t) /\ ConsumerIsNonnil(t))
      /\ MappingType
  BY ConstraintEnds DEF AccountedFor, MultiTypeInv, MultiType, EngineType, GraphType
<1>2. CASE ProducerIsNil(t)
  <2>1. c \in Site /\ nilability[c] = "nilable"
    BY <1>1, <1>2 DEF AccountedFor, ConsumerIsNonnil, FixedConsumer, IsDetermined
  <2> QED  BY <2>1 DEF Extension, Satisfies
<1>3. CASE ~ProducerIsNil(t) /\ p \in M
  <2>1. p \in Site /\ ~IsDetermined(p)
    BY <1>3 DEF Extension, ProducerIsNil
  <2>2. c \in Site /\ nilability[c] # "nonnil"
    BY <1>1, <2>1 DEF AccountedFor, ConsumerIsNonnil, FixedConsumer
  <2>3. CASE nilability[c] = "nilable"
    BY <2>2, <2>3 DEF Extension, Satisfies
  <2>4. CASE ~IsDetermined(c)
    <3>1. /\ Leads(Range(implicates[p]), c) /\ nilability[p] = "undetermined"
          /\ Leads(Range(implicants[c]), p) /\ nilability[c] = "undetermined"
      BY <1>1, <2>1, <2>2, <2>4, HasEdgeLeads DEF AccountedFor
    <3>2. /\ p \in Exported \cup Walk(implicates) /\ c \notin Exported => c \in Walk(implicates)
          /\ c \in Exported \cup Walk(implicants) /\ p \notin Exported => p \in Walk(implicants)
      BY <2>1, <2>2, <3>1, WalkStep DEF Inner
    <3>3. CASE p \in Exported \cup Both
      <4>1. p \in N /\ p \in ChooseSitesToExport
        BY <1>3, <2>1, <3>1, <3>3 DEF Extension, ChooseSitesToExport
      <4>2. c \in N
        BY <2>1, <2>2, <3>1, <4>1, ChosenIsTold
      <4>3. c \in M
        BY <2>2, <2>4, <3>2, <3>3, <4>2 DEF Extension
      <4> QED  BY <4>3 DEF Satisfies
    <3>4. CASE p \notin Exported \cup Both
      <4>1. p \in Walk(implicates) /\ p \notin Walk(implicants)
        BY <1>3, <2>1, <3>4 DEF Extension, IsDetermined
      <4>2. c \notin Exported /\ c \notin Walk(implicants) /\ c \in Walk(implicates)
        BY <3>2, <3>4, <4>1
      <4>3. c \in M
        BY <2>2, <2>4, <4>2 DEF Extension
      <4> QED  BY <4>3 DEF Satisfies
    <3> QED  BY <3>3, <3>4
  <2> QED  BY <2>2, <2>3, <2>4 DEF IsDetermined, MappingType
<1>4. CASE ~ProducerIsNil(t) /\ p \notin M
  BY <1>4 DEF Satisfies, ProducerIsNil
<1> QED  BY <1>2, <1>3, <1>4

LEMMA ExtensionAgrees ==
  ASSUME MultiTypeInv, UpstreamInv, RealAcross, UpstreamHolds,
         NEW N \in FactSolutions(path), \A s \in Site : SatisfiesFact(N, s, ExportedMap[s])
  PROVE  Extension(N) \in SUBSET Site /\ Extension(N) \cap Exported = N \cap Exported
<1>1. MappingType /\ Exported \subseteq Site
  BY ProgramAssumption DEF MultiTypeInv, MultiType, EngineType, GraphType
<1>2. ASSUME NEW s \in Exported
      PROVE  s \in Extension(N) <=> s \in N
  <2>1. CASE IsDetermined(s)
    <3>1. s \in ChooseSitesToExport
      BY <2>1 DEF ChooseSitesToExport, IsDetermined
    <3>2. /\ nilability[s] = "nilable" => s \in N
          /\ nilability[s] = "nonnil" => s \notin N
      BY <1>1, <3>1, ChosenIsTold
    <3> QED  BY <1>1, <2>1, <3>2 DEF Extension, IsDetermined
  <2>2. CASE ~IsDetermined(s)
    BY <1>1, <2>2 DEF Extension, IsDetermined
  <2> QED  BY <2>1, <2>2
<1> QED  BY <1>2 DEF Extension

-----------------------------------------------------------------------------
(****************************************************************************)
(* What an analysed package has left behind.                                *)
(****************************************************************************)

ExtendsTo(q, N) == \E M \in Solutions(assertions[q]) : M \cap Exported = N \cap Exported

FactsInv ==
  \A q \in analysed :
    /\ Dependencies[q] \subseteq analysed
    /\ reported[q] = {} =>
         \A N \in FactSolutions(q) :
           (\A s \in Site : SatisfiesFact(N, s, facts[q][s])) => ExtendsTo(q, N)

\* Between two packages, and at the end of one, no call is under way.
DoneInv == stage = "done" => Quiescent

LEMMA DoneInvStep ==
  ASSUME MultiTypeInv, DoneInv, [NextMulti]_allVars
  PROVE  DoneInv'
<1>1. CASE Analyse
  BY <1>1
  DEF Analyse, DoneInv, Quiescent, ObserveAnnotation, ObservePackage, ObserveTrigger,
      ObserveNonErrRet, ActivateControlled, Propagate, Finish
<1>2. CASE ~Analyse
  BY <1>2
  DEF NextMulti, AllAnalysed, StartPackage, ObserveFact, CopyUpstream, Export, Fail, EndPackage,
      allVars, vars, DoneInv, Quiescent
<1> QED  BY <1>1, <1>2

\* Nothing changes for the packages that were analysed before.
LEMMA EndPackageFacts ==
  ASSUME MultiTypeInv, FactsInv, stage # "idle", NEW map, EndPackage(map),
         \A q \in Path : q # path => assertions'[q] = assertions[q] /\ reported'[q] = reported[q],
         reported'[path] = {} =>
           \A N \in FactSolutions(path) :
             (\A s \in Site : SatisfiesFact(N, s, map[s])) =>
               \E M \in Solutions(assertions'[path]) : M \cap Exported = N \cap Exported
  PROVE  FactsInv'
<1>1. /\ path \in Path /\ path \notin analysed /\ Dependencies[path] \subseteq analysed
      /\ analysed \subseteq Path /\ analysed' = analysed \cup {path}
      /\ \A r \in Path : r # path => facts'[r] = facts[r]
      /\ facts'[path] = map
  BY DEF MultiTypeInv, MultiType, StageInv, EndPackage
<1>2. ASSUME NEW q \in analysed'
      PROVE  /\ Dependencies[q] \subseteq analysed /\ q \in Path
             /\ \A r \in Dependencies[q] : r # path /\ r \in Path
  BY <1>1, PathAssumption DEF FactsInv
<1>3. ASSUME NEW q \in analysed'
      PROVE  FactSolutions(q)' = FactSolutions(q)
  BY <1>1, <1>2 DEF FactSolutions
<1>4. ASSUME NEW q \in analysed', reported'[q] = {}, NEW N \in FactSolutions(q),
             \A s \in Site : SatisfiesFact(N, s, facts'[q][s])
      PROVE  ExtendsTo(q, N)'
  <2>1. CASE q = path
    BY <1>1, <1>4, <2>1 DEF ExtendsTo
  <2>2. CASE q # path
    <3>1. /\ q \in analysed /\ facts'[q] = facts[q]
          /\ assertions'[q] = assertions[q] /\ reported'[q] = reported[q]
      BY <1>1, <2>2
    <3>2. ExtendsTo(q, N)
      BY <1>4, <3>1 DEF FactsInv
    <3> QED  BY <3>1, <3>2 DEF ExtendsTo
  <2> QED  BY <2>1, <2>2
<1>5. \A q \in analysed' : Dependencies[q] \subseteq analysed'
  BY <1>1, <1>2
<1> QED  BY <1>3, <1>4, <1>5 DEF FactsInv

LEMMA FactsInvStep ==
  ASSUME MultiTypeInv, DoneInv, UpstreamInv, RealAcross, UpstreamHolds, SettledAcross, FactsInv,
         [NextMulti]_allVars
  PROVE  FactsInv'
<1>1. CASE Export
  <2>1. ASSUME conflicts = {}, NEW N \in FactSolutions(path),
               \A s \in Site : SatisfiesFact(N, s, ExportedMap[s])
        PROVE  \E M \in Solutions(observed) : M \cap Exported = N \cap Exported
    <3>1. \A t \in observed : t \in Constraint /\ AccountedFor(t)
      BY <1>1, QuietAccounted
      DEF Export, DoneInv, Quiescent, SettledAcross, MultiTypeInv, MultiType, EngineType
    <3>2. \A t \in observed : Satisfies(Extension(N), t)
      BY <2>1, <3>1, ExtensionSatisfies
    <3>3. Extension(N) \in SUBSET Site /\ Extension(N) \cap Exported = N \cap Exported
      BY <2>1, ExtensionAgrees
    <3>4. Extension(N) \in Solutions(observed)
      BY <3>2, <3>3 DEF Solutions
    <3> QED  BY <3>3, <3>4
  <2>2. /\ path \in Path /\ stage # "idle" /\ EndPackage(ExportedMap)
        /\ assertions' = [assertions EXCEPT ![path] = observed]
        /\ reported' = [reported EXCEPT ![path] = conflicts]
        /\ assertions \in [Path -> SUBSET Constraint] /\ reported \in [Path -> SUBSET Conflict]
    BY <1>1 DEF Export, MultiTypeInv, MultiType
  <2>3. /\ assertions'[path] = observed /\ reported'[path] = conflicts
        /\ \A q \in Path : q # path => assertions'[q] = assertions[q] /\ reported'[q] = reported[q]
    BY <2>2
  <2> QED  BY <2>1, <2>2, <2>3, EndPackageFacts
<1>2. CASE Fail
  <2>1. /\ path \in Path /\ stage # "idle" /\ EndPackage(EmptyMap)
        /\ assertions' = [assertions EXCEPT ![path] = {}]
        /\ reported' = [reported EXCEPT ![path] = {}]
        /\ assertions \in [Path -> SUBSET Constraint] /\ reported \in [Path -> SUBSET Conflict]
    BY <1>2 DEF Fail, MultiTypeInv, MultiType
  <2>2. /\ assertions'[path] = {}
        /\ \A q \in Path : q # path => assertions'[q] = assertions[q] /\ reported'[q] = reported[q]
    BY <2>1
  <2>3. \A N \in FactSolutions(path) : N \in Solutions({})
    BY DEF FactSolutions, Solutions
  <2> QED  BY <2>1, <2>2, <2>3, EndPackageFacts
<1>3. CASE UNCHANGED <<analysed, facts, assertions, reported>>
  BY <1>3 DEF FactsInv, FactSolutions, ExtendsTo
<1> QED
  BY <1>1, <1>2, <1>3
  DEF NextMulti, AllAnalysed, StartPackage, ObserveFact, CopyUpstream, Analyse, driver, allVars

-----------------------------------------------------------------------------
(****************************************************************************)
(* The parts of a solution.  A solution of the package that satisfies the   *)
(* facts extends to each dependency; as packages share only exported sites, *)
(* the extensions fit together.                                             *)
(****************************************************************************)

MultiInv ==
  /\ MultiTypeInv /\ DoneInv /\ UpstreamInv /\ RealAcross /\ LocalInv
  /\ SettledAcross /\ UpstreamHolds /\ FactsInv

LEMMA MultiInvariant == SpecMulti => []MultiInv
<1>1. InitMulti => MultiInv
  <2> SUFFICES ASSUME InitMulti
               PROVE  MultiInv
    OBVIOUS
  <2>1. UpstreamInv /\ FactsInv /\ DoneInv /\ SettledAcross
    BY DEF InitMulti, UpstreamInv, EmptyMap, Absent, DeterminedIn, FactsInv, DoneInv, SettledAcross
  <2>2. LocalInv
    BY EmptySeq DEF InitMulti, LocalInv
  <2> QED
    BY <2>1, <2>2, MultiTypeInvariant, RealAcrossInit, UpstreamHoldsInit DEF MultiInv
<1>2. MultiInv /\ [NextMulti]_allVars => MultiInv'
  BY MultiTypeInvariant, DoneInvStep, UpstreamInvStep, RealAcrossStep, LocalInvStep,
     SettledAcrossStep, UpstreamHoldsStep, FactsInvStep
  DEF MultiInv
<1> QED  BY <1>1, <1>2, PTL DEF SpecMulti

\* A constraint of a package speaks of sites of the package only.
LEMMA OwnSites ==
  ASSUME NEW package, NEW t \in Own(package), NEW N, NEW M,
         \A s \in SitesOf(package) : s \in N <=> s \in M,
         N \subseteq Site, M \subseteq Site, Satisfies(N, t)
  PROVE  Satisfies(M, t)
<1>1. /\ t.producer \in Site => t.producer \in SitesOf(package)
      /\ t.consumer \in Site => t.consumer \in SitesOf(package)
  <2>1. CASE t \in package.triggers
    BY <2>1 DEF SitesOf
  <2>2. CASE \E a \in package.annotations : t = AnnotationConstraint(a)
    <3>1. PICK a \in package.annotations : t = AnnotationConstraint(a)
      BY <2>2
    <3>2. t.producer \in {Annotated, a.site} /\ t.consumer \in {Annotated, a.site}
      BY <3>1 DEF AnnotationConstraint
    <3>3. a.site \in SitesOf(package) /\ Annotated \notin Site
      BY <3>1, EndsAssumption DEF SitesOf
    <3> QED  BY <3>2, <3>3
  <2> QED  BY <2>1, <2>2 DEF Own
<1> QED  BY <1>1 DEF Satisfies

LEMMA Glue ==
  ASSUME MultiInv, stage = "done", CleanUpstream,
         NEW N \in Solutions(observed), N \in FactSolutions(path)
  PROVE  \E M \in Solutions(WholeProgram) : M \cap Exported = N \cap Exported
<1>1. /\ path \in Path /\ program \in Program /\ pkg = program[path]
      /\ path \notin analysed /\ Dependencies[path] \subseteq analysed /\ analysed \subseteq Path
      /\ N \in SUBSET Site
  BY DEF MultiInv, MultiTypeInv, MultiType, StageInv, Solutions
<1>2. ASSUME NEW q \in Dependencies[path]
      PROVE  \E M \in Solutions(assertions[q]) : M \cap Exported = N \cap Exported
  <2>1. q \in analysed /\ Dependencies[q] \subseteq Dependencies[path] /\ reported[q] = {}
    BY <1>1, PathAssumption DEF CleanUpstream
  <2>2. N \in FactSolutions(q) /\ \A s \in Site : SatisfiesFact(N, s, facts[q][s])
    BY <2>1 DEF FactSolutions
  <2> QED  BY <2>1, <2>2 DEF MultiInv, FactsInv, ExtendsTo
<1> DEFINE Part == [q \in Dependencies[path] |->
                      CHOOSE M \in Solutions(assertions[q]) : M \cap Exported = N \cap Exported]
           Whole == {s \in Site : IF s \in Exported \cup SitesOf(program[path]) THEN s \in N
                                  ELSE \E q \in Dependencies[path] :
                                         s \in SitesOf(program[q]) /\ s \in Part[q]}
<1>3. ASSUME NEW q \in Dependencies[path]
      PROVE  Part[q] \in Solutions(assertions[q]) /\ Part[q] \cap Exported = N \cap Exported
  BY <1>2
<1> HIDE DEF Part
<1>4. ASSUME NEW p \in Path, NEW q \in Path, p # q
      PROVE  SitesOf(program[p]) \cap SitesOf(program[q]) \subseteq Exported
  BY <1>1, <1>4, LocalAssumption
<1>5. ASSUME NEW t \in observed
      PROVE  Satisfies(Whole, t)
  <2>1. t \in Own(program[path]) /\ Satisfies(N, t)
    BY <1>1 DEF MultiInv, LocalInv, Solutions
  <2>2. \A s \in SitesOf(program[path]) \cap Site : s \in N <=> s \in Whole
    OBVIOUS
  <2>3. \A s \in SitesOf(program[path]) : s \in N <=> s \in Whole
    BY <1>1, <2>2
  <2> HIDE DEF Whole
  <2>4. Whole \subseteq Site
    BY DEF Whole
  <2> QED  BY <1>1, <2>1, <2>3, <2>4, OwnSites
<1>6. ASSUME NEW q \in Dependencies[path], NEW t \in assertions[q]
      PROVE  Satisfies(Whole, t)
  <2>1. /\ q \in Path /\ q # path /\ Dependencies[path] \subseteq Path
        /\ t \in Own(program[q]) /\ Satisfies(Part[q], t) /\ Part[q] \subseteq Site
    BY <1>1, <1>3, PathAssumption DEF MultiInv, LocalInv, Solutions
  <2>2. ASSUME NEW s \in SitesOf(program[q]), s \in Site
        PROVE  s \in Part[q] <=> s \in Whole
    <3>1. CASE s \in Exported
      BY <1>3, <2>2, <3>1
    <3>2. CASE s \notin Exported
      <4>1. s \notin SitesOf(program[path])
        BY <1>1, <1>4, <2>1, <2>2, <3>2
      <4>2. \A r \in Dependencies[path] : s \in SitesOf(program[r]) => r = q
        BY <1>4, <2>1, <2>2, <3>2
      <4> QED  BY <2>2, <3>2, <4>1, <4>2
    <3> QED  BY <3>1, <3>2
  <2>3. Whole \subseteq Site
    OBVIOUS
  <2> HIDE DEF Whole
  <2>4. \A s \in SitesOf(program[q]) : s \in Part[q] <=> s \in Whole
    BY <2>1, <2>2, <2>3
  <2> QED  BY <2>1, <2>3, <2>4, OwnSites
<1>7. Whole \in Solutions(WholeProgram)
  BY <1>5, <1>6 DEF Solutions, WholeProgram
<1>8. Whole \cap Exported = N \cap Exported
  BY <1>1
<1> QED  BY <1>7, <1>8

\* The two extreme readings of the map, nilable only where it must be and
\* wherever it may be, satisfy the package and the facts it was told.
LEMMA DoneSolutions ==
  ASSUME MultiInv, stage = "done", conflicts = {}, NEW N \in SUBSET Site,
         \/ N = {s \in Site : nilability[s] = "nilable"}
         \/ N = {s \in Site : nilability[s] # "nonnil"}
  PROVE  N \in Solutions(observed) /\ N \in FactSolutions(path)
<1>1. /\ MultiType /\ callStack = <<>> /\ imports = {} /\ observed \subseteq Constraint
      /\ \A t \in observed : Settled(t, callStack)
      /\ \A i \in PackageImports(path) : ImportDone(i)
  BY DEF MultiInv, MultiTypeInv, MultiType, EngineType, StageInv, DoneInv, Quiescent, SettledAcross
<1>2. ASSUME NEW accounted \in SUBSET Constraint, \A t \in accounted : AccountedFor(t)
      PROVE  N \in Solutions(accounted)
  BY <1>2, AccountedSolutions
<1>3. N \in Solutions(observed)
  BY <1>1, <1>2, QuietAccounted
<1>4. ASSUME NEW q \in Dependencies[path], NEW s \in Site
      PROVE  SatisfiesFact(N, s, facts[q][s])
  <2>1. facts[q][s] \in Fact
    BY <1>1, PathAssumption DEF MultiType
  <2>2. ASSUME DeterminedIn(facts[q][s])
        PROVE  nilability[s] = facts[q][s].nilability
    <3> DEFINE i == [from |-> q, site |-> s, call |-> "explanation", edge |-> None]
    <3>1. i \in PackageImports(path)
      BY <2>2 DEF PackageImports, SiteImports
    <3> QED  BY <1>1, <3>1 DEF ImportDone
  <2>3. ASSUME NEW x \in facts[q][s].implicates \cup facts[q][s].implicants
        PROVE  Satisfies(N, x.assertion)
    <3>1. x.assertion \in Constraint
      BY <2>1 DEF Fact, Edge
    <3>2. \E i \in PackageImports(path) : i.call # "explanation" /\ i.edge = x
      <4>1. CASE x \in facts[q][s].implicates
        <5> DEFINE i == [from |-> q, site |-> s, call |-> "implicate", edge |-> x]
        <5>1. i \in PackageImports(path)
          BY <4>1 DEF PackageImports, EdgeImports
        <5> QED  BY <5>1
      <4>2. CASE x \in facts[q][s].implicants
        <5> DEFINE i == [from |-> q, site |-> s, call |-> "implicant", edge |-> x]
        <5>1. i \in PackageImports(path)
          BY <4>2 DEF PackageImports, EdgeImports
        <5> QED  BY <5>1
      <4> QED  BY <4>1, <4>2
    <3>3. AccountedFor(x.assertion)
      BY <1>1, <3>2, QuietAccounted DEF ImportDone
    <3>4. N \in Solutions({x.assertion})
      BY <1>2, <3>1, <3>3
    <3> QED  BY <3>4 DEF Solutions
  <2> QED  BY <2>1, <2>2, <2>3 DEF SatisfiesFact, DeterminedIn, Fact
<1> QED  BY <1>3, <1>4 DEF FactSolutions

\* Separate analysis loses and invents no nil flow, for every program and every
\* order of the packages: if no dependency reported a conflict, a package ends
\* with a conflict if and only if its constraints and those of all of its
\* dependencies, taken together, have no solution.  So what Export leaves out
\* (inner sites, edges that the importer knows, packages that failed, which
\* have no constraints) never changes a verdict downstream.
THEOREM SeparateAnalysisIsWhole == SpecMulti => []ModularIsWhole
<1>1. MultiInv => ModularIsWhole
  <2> SUFFICES ASSUME MultiInv, stage = "done", CleanUpstream
               PROVE  conflicts = {} <=> Solutions(WholeProgram) # {}
    BY DEF ModularIsWhole
  <2>1. ASSUME conflicts # {}
        PROVE  Solutions(WholeProgram) = {}
    BY <2>1 DEF MultiInv, RealAcross, GraphReal, RealConflict
  <2>2. ASSUME conflicts = {}
        PROVE  Solutions(WholeProgram) # {}
    <3>1. PICK N : N = {s \in Site : nilability[s] = "nilable"}
      OBVIOUS
    <3> QED  BY <2>2, <3>1, DoneSolutions, Glue
  <2> QED  BY <2>1, <2>2
<1> QED  BY <1>1, MultiInvariant, PTL

\* What a package without conflicts knows of an exported site is what the whole
\* program forces, also when facts of several packages came together, so that
\* its own fact tells the packages downstream neither too much nor too little.
THEOREM ExportedSitesAreExact == SpecMulti => []ExportedSitesExact
<1>1. MultiInv => ExportedSitesExact
  <2> SUFFICES ASSUME MultiInv, stage = "done", CleanUpstream, conflicts = {}, NEW s \in Exported
               PROVE  /\ nilability[s] = "nilable" <=> \A N \in Solutions(WholeProgram) : s \in N
                      /\ nilability[s] = "nonnil" <=> \A N \in Solutions(WholeProgram) : s \notin N
    BY DEF ExportedSitesExact
  <2>1. s \in Site
    BY ProgramAssumption
  <2>2. IsDetermined(s) => Forced(nilability[s] = "nilable", s, WholeProgram)
    BY <2>1 DEF MultiInv, RealAcross, GraphReal, RealExplanation, Explained
  <2>3. /\ nilability[s] = "nilable" => \A N \in Solutions(WholeProgram) : s \in N
        /\ nilability[s] = "nonnil" => \A N \in Solutions(WholeProgram) : s \notin N
    BY <2>2 DEF IsDetermined, Forced
  <2>4. ASSUME nilability[s] # "nilable"
        PROVE  \E M \in Solutions(WholeProgram) : s \notin M
    <3>1. PICK N : N = {r \in Site : nilability[r] = "nilable"}
      OBVIOUS
    <3>2. \E M \in Solutions(WholeProgram) : M \cap Exported = N \cap Exported
      BY <3>1, DoneSolutions, Glue
    <3> QED  BY <2>4, <3>1, <3>2
  <2>5. ASSUME nilability[s] # "nonnil"
        PROVE  \E M \in Solutions(WholeProgram) : s \in M
    <3>1. PICK N : N = {r \in Site : nilability[r] # "nonnil"}
      OBVIOUS
    <3>2. \E M \in Solutions(WholeProgram) : M \cap Exported = N \cap Exported
      BY <3>1, DoneSolutions, Glue
    <3> QED  BY <2>1, <2>5, <3>1, <3>2
  <2> QED  BY <2>3, <2>4, <2>5
<1> QED  BY <1>1, MultiInvariant, PTL

=============================================================================
