------------------------------ MODULE MultiPackage ------------------------------
(****************************************************************************)
(* Inference across packages: one engine per package, and the facts that    *)
(* carry an inferred map from a package to the packages that import it      *)
(* (ObserveUpstream and Export in inference/, run in accumulation/).        *)
(*                                                                          *)
(* The driver analyses a package when the packages it depends on have been  *)
(* analysed.  The engine of the package first observes the facts of all of  *)
(* them, then works as module InferenceEngine says, and exports what it has *)
(* learnt beyond the facts.  A package that fails exports nothing.          *)
(****************************************************************************)
EXTENDS InferenceEngine, Functions

CONSTANTS
  Path,          \* package paths, numbered in their lexical order
  Dependencies,  \* the packages a package depends on, transitively
  Exported,      \* the sites whose Go object is exported
  Program        \* the programs that may be analysed

ASSUME PathAssumption ==
  /\ Path \subseteq Nat /\ Path # {}
  /\ Dependencies \in [Path -> SUBSET Path]
  /\ \A p \in Path : \A q \in Dependencies[p] : q # p /\ Dependencies[q] \subseteq Dependencies[p]

ASSUME ProgramAssumption == Exported \subseteq Site /\ Program \subseteq [Path -> Package]

\* The sites that the constraints of a package speak of.
SitesOf(package) ==
  {a.site : a \in package.annotations}
  \cup UNION {{t.producer, t.consumer} \cap Site : t \in package.triggers}

\* Go lets no package name an object of another package that is not exported, and
\* a site names its package and position (primitiveSite).
ASSUME LocalAssumption ==
  \A prog \in Program : \A p, q \in Path :
    p # q => SitesOf(prog[p]) \cap SitesOf(prog[q]) \subseteq Exported

VARIABLES
  program,          \* the packages of the program; never changes
  path,             \* the package that is being analysed
  analysed,         \* the packages the driver is done with
  facts,            \* the inferred map that each package exported
  upstreamMapping,  \* InferredMap.upstreamMapping of the current engine
  imports,          \* calls that ObserveUpstream has still to make
  assertions,       \* history: the constraints each analysed package observed
  reported          \* history: the conflicts of each analysed package

driver == <<program, path, analysed, facts, assertions, reported>>
allVars == <<vars, driver, upstreamMapping, imports>>

-----------------------------------------------------------------------------
(****************************************************************************)
(* Inferred maps as values.                                                 *)
(****************************************************************************)

\* What an inferred map says of one site; the edges of a fact have no order.
Absent == [nilability |-> "absent", reason |-> <<>>, implicates |-> {}, implicants |-> {}]

Inferred(s) ==
  [nilability |-> nilability[s], reason |-> reason[s],
   implicates |-> Range(implicates[s]), implicants |-> Range(implicants[s])]

EmptyMap == [s \in Site |-> Absent]

DeterminedIn(val) == val.nilability \in {"nilable", "nonnil"}

-----------------------------------------------------------------------------
(****************************************************************************)
(* ObserveUpstream.                                                         *)
(****************************************************************************)

\* The calls for the facts of package q: one for a determined site, one for
\* each edge of an undetermined site.
SiteImports(q) ==
  {[from |-> q, site |-> s, call |-> "explanation", edge |-> None] :
     s \in {r \in Site : DeterminedIn(facts[q][r])}}

EdgeImports(q) ==
  UNION {{[from |-> q, site |-> s, call |-> "implicate", edge |-> x] :
            x \in facts[q][s].implicates}
         \cup {[from |-> q, site |-> s, call |-> "implicant", edge |-> x] :
            x \in facts[q][s].implicants} : s \in Site}

\* The driver starts a package whose dependencies are done.
StartPackage ==
  /\ stage = "idle"
  /\ \E p \in Path \ analysed :
       /\ Dependencies[p] \subseteq analysed
       /\ path' = p
       /\ pkg' = program[p]
       /\ imports' = UNION {SiteImports(q) \cup EdgeImports(q) : q \in Dependencies[p]}
  /\ stage' = "upstream"
  /\ UNCHANGED <<mapping, controlledTriggersBySite, callStack, conflicts, pending, observed,
                 program, analysed, facts, assertions, reported, upstreamMapping>>

\* One iteration of the loops of ObserveUpstream: the facts in the order of their
\* package paths, the sites and edges of one map in any order.
ObserveFact ==
  /\ stage = "upstream" /\ Quiescent
  /\ \E i \in imports :
       /\ \A j \in imports : i.from <= j.from
       /\ imports' = imports \ {i}
       /\ \/ /\ i.call = "explanation"
             /\ LET fact == facts[i.from][i.site]
                IN  ObserveSiteExplanation(
                      i.site, [val |-> fact.nilability = "nilable", chain |-> fact.reason], <<>>)
          \/ /\ i.call = "implicate"
             /\ ObserveImplication(i.site, i.edge.site, i.edge.assertion, <<>>)
          \/ /\ i.call = "implicant"
             /\ ObserveImplication(i.edge.site, i.site, i.edge.assertion, <<>>)
  /\ UNCHANGED <<pkg, controlledTriggersBySite, stage, pending, observed, driver,
                 upstreamMapping>>

\* The end of ObserveUpstream, and the start of ObserveAnnotations.
CopyUpstream ==
  /\ stage = "upstream" /\ Quiescent /\ imports = {}
  /\ upstreamMapping' = [s \in Site |-> Inferred(s)]
  /\ stage' = "annotations"
  /\ pending' = {AnnotationConstraint(a) : a \in pkg.annotations}
  /\ UNCHANGED <<pkg, mapping, controlledTriggersBySite, callStack, conflicts, observed,
                 driver, imports>>

\* Walking the graph while the facts are observed, and the whole work on the
\* package itself, as in InferenceEngine.
Analyse ==
  /\ \/ ObserveAnnotation
     \/ ObservePackage
     \/ ObserveTrigger
     \/ ObserveNonErrRet
     \/ ActivateControlled
     \/ Propagate
     \/ Finish
  /\ UNCHANGED <<driver, upstreamMapping, imports>>

-----------------------------------------------------------------------------
(****************************************************************************)
(* Export.                                                                  *)
(****************************************************************************)

Inner(s) == nilability[s] = "undetermined" /\ s \notin Exported

Leads(edges, s) == \E x \in edges : x.site = s

\* The inner sites that a walk along edges, from the exported undetermined
\* sites and on through inner sites, comes to.
Walk(edges) ==
  {s \in Site : Inner(s) /\ \A C \in SUBSET Site :
     (\A r \in Exported \cup C, n \in Site :
        nilability[r] = "undetermined" /\ Inner(n) /\ Leads(Range(edges[r]), n) => n \in C)
     => s \in C}

\* Mutant: only the exported sites themselves.
ChooseExportedOnly == {s \in Exported : nilability[s] # "absent"}

ChooseSitesToExport ==
  {s \in Exported : nilability[s] # "absent"} \cup (Walk(implicates) \cap Walk(implicants))

NewEdges(edges, old) == {x \in edges : ~Leads(old, x.site)}

\* Mutant: an undetermined site is exported only when it was not there before.
InferredValDiffNoEdges(val, old) ==
  IF DeterminedIn(old) \/ ~DeterminedIn(val) THEN Absent ELSE val

\* The part of val that is not in old; Absent when nothing is new.
InferredValDiff(val, old) ==
  IF DeterminedIn(old) THEN Absent
  ELSE IF DeterminedIn(val) THEN val
  ELSE LET new == [val EXCEPT !.implicates = NewEdges(val.implicates, old.implicates),
                              !.implicants = NewEdges(val.implicants, old.implicants)]
       IN  IF new.implicates = {} /\ new.implicants = {} THEN Absent ELSE new

ExportedMap ==
  [s \in Site |->
     IF s \notin ChooseSitesToExport THEN Absent
     ELSE IF upstreamMapping[s] = Absent THEN Inferred(s)
     ELSE InferredValDiff(Inferred(s), upstreamMapping[s])]

\* The engine and its map are dropped, so that the next package gets new ones.
EndPackage(map) ==
  /\ facts' = [facts EXCEPT ![path] = map]
  /\ analysed' = analysed \cup {path}
  /\ stage' = "idle"
  /\ nilability' = [s \in Site |-> "absent"]
  /\ reason' = [s \in Site |-> <<>>]
  /\ implicates' = [s \in Site |-> <<>>]
  /\ implicants' = [s \in Site |-> <<>>]
  /\ upstreamMapping' = EmptyMap
  /\ controlledTriggersBySite' = [s \in Site |-> {}]
  /\ callStack' = <<>> /\ conflicts' = {} /\ pending' = {} /\ observed' = {} /\ imports' = {}
  /\ UNCHANGED <<pkg, program, path>>

Export ==
  /\ stage = "done"
  /\ assertions' = [assertions EXCEPT ![path] = observed]
  /\ reported' = [reported EXCEPT ![path] = conflicts]
  /\ EndPackage(ExportedMap)

\* An error of a sub-analyzer, or a panic that run recovers: the diagnostics are
\* one internal error, and nothing is exported.  (An error is found before the
\* engine is built; a panic may come at any time before the export; a package
\* that is out of scope is left at once.)
Fail ==
  /\ stage # "idle"
  /\ assertions' = [assertions EXCEPT ![path] = {}]
  /\ reported' = [reported EXCEPT ![path] = {}]
  /\ EndPackage(EmptyMap)

-----------------------------------------------------------------------------
InitMulti ==
  /\ program \in Program
  /\ path = CHOOSE p \in Path : TRUE
  /\ analysed = {}
  /\ facts = [p \in Path |-> EmptyMap]
  /\ upstreamMapping = EmptyMap
  /\ imports = {}
  /\ assertions = [p \in Path |-> {}]
  /\ reported = [p \in Path |-> {}]
  /\ pkg = program[path]
  /\ nilability = [s \in Site |-> "absent"]
  /\ reason = [s \in Site |-> <<>>]
  /\ implicates = [s \in Site |-> <<>>]
  /\ implicants = [s \in Site |-> <<>>]
  /\ controlledTriggersBySite = [s \in Site |-> {}]
  /\ callStack = <<>>
  /\ conflicts = {}
  /\ stage = "idle"
  /\ pending = {}
  /\ observed = {}

AllAnalysed == analysed = Path /\ UNCHANGED allVars

NextMulti ==
  \/ StartPackage
  \/ ObserveFact
  \/ CopyUpstream
  \/ Analyse
  \/ Export
  \/ Fail
  \/ AllAnalysed

SpecMulti == InitMulti /\ [][NextMulti]_allVars

-----------------------------------------------------------------------------
(****************************************************************************)
(* What the exchange of facts promises.                                     *)
(****************************************************************************)

\* The constraints of the package and of everything it depends on.
WholeProgram == observed \cup UNION {assertions[q] : q \in Dependencies[path]}

CleanUpstream == \A q \in Dependencies[path] : reported[q] = {}

\* Separate analysis loses and invents nothing: if no dependency reported a
\* conflict, the package ends with a conflict if and only if its constraints and
\* those of its dependencies, taken together, have no solution.  The sites and
\* edges that were not exported, and the edges that a later fact left out, did
\* not matter.
ModularIsWhole ==
  stage = "done" /\ CleanUpstream =>
    (conflicts = {} <=> Solutions(WholeProgram) # {})

\* Without conflicts the package knows of each exported site what the whole
\* program forces, also when several packages contributed to it.
ExportedSitesExact ==
  stage = "done" /\ CleanUpstream /\ conflicts = {} =>
    \A s \in Exported :
      /\ nilability[s] = "nilable" <=> \A N \in Solutions(WholeProgram) : s \in N
      /\ nilability[s] = "nonnil" <=> \A N \in Solutions(WholeProgram) : s \notin N

\* inferredValDiff never has to panic: at the export every upstream value is
\* superseded by the value of the package, even after conflicts between facts.
UpstreamSuperseded ==
  stage = "done" =>
    \A s \in Site :
      DeterminedIn(upstreamMapping[s]) => nilability[s] = upstreamMapping[s].nilability

=============================================================================
