------------------------- MODULE StructFieldEffectsProofs -------------------------
(****************************************************************************)
(* The summaries that packages make of their functions one after another,   *)
(* with the facts of the packages they import, are those of the whole       *)
(* program: for any packages, functions, struct types and field paths.      *)
(*                                                                          *)
(* The reads and writes of the whole program are the least that are closed  *)
(* under calls.  What a package collects, imports and inherits stays below  *)
(* them.  When its worklist is empty, its effects, together with those of   *)
(* the whole program for all other functions, are closed, too: so they are  *)
(* no less.                                                                 *)
(*                                                                          *)
(* The nil fields of results are those of results: what a function builds   *)
(* or passes on it returns.  So are the sources of results: each is what    *)
(* one result has, and those of a whole result that are not dropped are     *)
(* what all have, by induction on the calls below each other.               *)
(****************************************************************************)
EXTENDS StructFieldEffects, WellFoundedInduction, TLAPS

-----------------------------------------------------------------------------
(****************************************************************************)
(* Counting up.                                                             *)
(****************************************************************************)

\* Numbers have a least one.
LEMMA Smallest ==
  ASSUME NEW T \in SUBSET Nat, T # {}
  PROVE  \E m \in T : \A n \in T : m <= n
<1>1. IsWellFoundedOn(OpToRel(<, Nat), Nat)
  BY NatLessThanWellFounded
<1>2. PICK m \in T : \A n \in T : <<n, m>> \notin OpToRel(<, Nat)
  BY <1>1, WFMin
<1>3. m \in T /\ \A n \in T : ~(n < m)
  BY <1>2 DEF OpToRel
<1>4. \A n \in T : n \in Nat /\ m \in Nat
  BY <1>3
<1> QED  BY <1>3, <1>4

\* A set with 0 that is left by no step up has all numbers to the bound.
LEMMA CountUp ==
  ASSUME NEW d \in Nat, NEW S, 0 \in S, \A n \in 1..d : n - 1 \in S => n \in S
  PROVE  0..d \subseteq S
<1> DEFINE Missing == (0..d) \ S
<1>1. ASSUME Missing # {} PROVE FALSE
  <2>1. Missing \in SUBSET Nat
    OBVIOUS
  <2>2. \E m \in Missing : \A n \in Missing : m <= n
    <3> HIDE DEF Missing
    <3> QED  BY <1>1, <2>1, Smallest
  <2>3. PICK m \in Missing : \A n \in Missing : m <= n
    BY <2>2
  <2>4. m \in 1..d /\ m - 1 \in 0..d /\ m - 1 < m
    BY <2>3
  <2> QED  BY <2>3, <2>4
<1> QED  BY <1>1

-----------------------------------------------------------------------------
(****************************************************************************)
(* The effects of the whole program.                                        *)
(****************************************************************************)

\* at of Whole exists, so that Whole is what it seems to be.
LEMMA WholeUnfolds ==
  ASSUME NEW own, NEW edges
  PROVE  \E at : /\ at[0] = own
                 /\ \A n \in 1..Depth : at[n] = WithCallees(edges, at[n - 1])
                 /\ Whole(own, edges) = at[Depth]
<1> DEFINE Value(g, k) == IF k = 0 THEN own ELSE WithCallees(edges, g[k - 1])
           S == {n \in Nat : \E g : g = [k \in 0..n |-> Value(g, k)]}
<1>1. 0 \in S
  <2>1. [k \in 0..0 |-> own] = [k \in 0..0 |-> Value([k_1 \in 0..0 |-> own], k)]
    OBVIOUS
  <2> QED  BY <2>1
<1>2. ASSUME NEW n \in Nat, n \in S
      PROVE  n + 1 \in S
  <2>1. PICK g : g = [k \in 0..n |-> Value(g, k)]
    BY <1>2
  <2> DEFINE h == [k \in 0..(n + 1) |-> IF k <= n THEN g[k] ELSE WithCallees(edges, g[n])]
  <2>2. ASSUME NEW k \in 0..(n + 1)
        PROVE  h[k] = Value(h, k)
    <3>1. CASE k = 0
      BY <2>1, <3>1
    <3>2. CASE k \in 1..n
      <4>1. g[k] = WithCallees(edges, g[k - 1])
        BY <2>1, <3>2
      <4>2. h[k] = g[k] /\ h[k - 1] = g[k - 1]
        BY <3>2
      <4> QED  BY <3>2, <4>1, <4>2
    <3>3. CASE k = n + 1
      <4>1. h[k] = WithCallees(edges, g[n]) /\ h[k - 1] = g[n]
        BY <3>3
      <4> QED  BY <3>3, <4>1
    <3> QED  BY <3>1, <3>2, <3>3
  <2>3. h = [k \in 0..(n + 1) |-> Value(h, k)]
    <3>1. h = [k \in 0..(n + 1) |-> h[k]]
      OBVIOUS
    <3> HIDE DEF h, Value
    <3> QED  BY <2>2, <3>1
  <2> HIDE DEF h, Value
  <2> QED  BY <2>3
<1>3. Depth \in S
  <2> HIDE DEF S
  <2>1. \A n \in 1..Depth : n - 1 \in S => n \in S
    <3> TAKE n \in 1..Depth
    <3>1. n - 1 \in Nat /\ (n - 1) + 1 = n
      BY DepthAssumption
    <3> QED  BY <1>2, <3>1
  <2> QED  BY <1>1, <2>1, CountUp, DepthAssumption
<1> DEFINE at == CHOOSE g : g = [k \in 0..Depth |-> Value(g, k)]
<1>4. at = [k \in 0..Depth |-> Value(at, k)]
  <2>1. \E g : g = [k \in 0..Depth |-> Value(g, k)]
    BY <1>3
  <2> QED  BY <2>1
<1>5. Whole(own, edges) = at[Depth]
  BY DEF Whole
<1>6. at[0] = own /\ \A n \in 1..Depth : at[n] = WithCallees(edges, at[n - 1])
  <2> HIDE DEF at
  <2> QED  BY <1>4, DepthAssumption
<1> QED  BY <1>5, <1>6

\* The whole program has what each function does itself, and nothing else of a
\* function that passes nothing on.
LEMMA WholeContains ==
  ASSUME NEW own, NEW edges, own = [f \in Function |-> own[f]]
  PROVE  \A f \in Function :
           /\ own[f] \subseteq Whole(own, edges)[f]
           /\ edges[f] = {} => Whole(own, edges)[f] = own[f]
<1>1. PICK at : /\ at[0] = own
                /\ \A n \in 1..Depth : at[n] = WithCallees(edges, at[n - 1])
                /\ Whole(own, edges) = at[Depth]
  BY WholeUnfolds
<1> DEFINE Has(n) == \A f \in Function : own[f] \subseteq at[n][f] /\ (edges[f] = {} => at[n][f] = own[f])
           S == {n \in 0..Depth : Has(n)}
<1>2. 0 \in S
  BY <1>1, DepthAssumption
<1>3. ASSUME NEW n \in 1..Depth, n - 1 \in S
      PROVE  n \in S
  <2>1. at[n] = WithCallees(edges, at[n - 1]) /\ Has(n - 1)
    BY <1>1, <1>3
  <2>2. Has(n)
    BY <2>1 DEF WithCallees
  <2> QED  BY <2>2, DepthAssumption
<1>4. Depth \in S
  <2> HIDE DEF S
  <2>1. 0..Depth \subseteq S
    BY <1>2, <1>3, CountUp, DepthAssumption
  <2> QED  BY <2>1, DepthAssumption
<1> QED  BY <1>1, <1>4

\* It has no more than anything that is closed under calls.
LEMMA WholeIsLeast ==
  ASSUME NEW own, NEW edges, NEW all,
         \A f \in Function : own[f] \subseteq all[f],
         \A f \in Function : WithCallees(edges, all)[f] \subseteq all[f],
         \A f \in Function : \A edge \in edges[f] : edge.callee \in Function
  PROVE  \A f \in Function : Whole(own, edges)[f] \subseteq all[f]
<1>1. PICK at : /\ at[0] = own
                /\ \A n \in 1..Depth : at[n] = WithCallees(edges, at[n - 1])
                /\ Whole(own, edges) = at[Depth]
  BY WholeUnfolds
<1> DEFINE Below(n) == \A f \in Function : at[n][f] \subseteq all[f]
           S == {n \in 0..Depth : Below(n)}
<1>2. 0 \in S
  BY <1>1, DepthAssumption
<1>3. ASSUME NEW n \in 1..Depth, n - 1 \in S
      PROVE  n \in S
  <2>1. at[n] = WithCallees(edges, at[n - 1]) /\ Below(n - 1)
    BY <1>1, <1>3
  <2>2. ASSUME NEW f \in Function
        PROVE  at[n][f] \subseteq all[f]
    <3>1. WithCallees(edges, at[n - 1])[f] \subseteq WithCallees(edges, all)[f]
      BY <2>1 DEF WithCallees
    <3> QED  BY <2>1, <3>1
  <2> QED  BY <2>2, DepthAssumption
<1>4. Depth \in S
  <2> HIDE DEF S
  <2>1. 0..Depth \subseteq S
    BY <1>2, <1>3, CountUp, DepthAssumption
  <2> QED  BY <2>1, DepthAssumption
<1> QED  BY <1>1, <1>4

-----------------------------------------------------------------------------
(****************************************************************************)
(* The invariant.                                                           *)
(****************************************************************************)

ReadClosure == INSTANCE FieldClosureProofs WITH
  effects <- paramReads, edges <- OfLocal(ParamEdges), Inherit <- InheritParam
WriteClosure == INSTANCE FieldClosureProofs WITH
  effects <- paramWrites, edges <- OfLocal(ParamEdges), Inherit <- InheritParam

ASequence(s) == s \in Seq(Range(s))

Imported == {"writes", "reads", "effects", "sources", "drop", "export"}

\* Where run is, and what it has returned so far.
RunInv ==
  /\ program \in Program
  /\ pkg \in DOMAIN program.order
  /\ phase \in {"collect", "import", "done"} \cup Imported
  /\ phase \notin {"collect", "done"} => Package \in program.scope
  /\ paramReads = [f \in Function |-> paramReads[f]]
  /\ paramWrites = [f \in Function |-> paramWrites[f]]
  /\ ASequence(facts) /\ ASequence(summaries)
  /\ Len(facts) = IF phase = "done" THEN pkg ELSE pkg - 1
  /\ Len(summaries) = Len(facts)

\* A fact says of a function what it does in the whole program; of an exported one
\* that it does not list there is nothing to say.
FactsInv ==
  \A n \in 1..Len(facts) :
    /\ \A f \in DOMAIN facts[n] \cap Function :
         facts[n][f].reads = WholeReads[f] /\ facts[n][f].writes = WholeWrites[f]
    /\ \A f \in Function :
         Of(f).pkg = program.order[n] /\ Of(f).exported /\ f \notin DOMAIN facts[n] =>
           WholeReads[f] = {} /\ WholeWrites[f] = {}

\* The effects are between what the bodies say and those of the whole program.
Between(own(_), effects, whole) ==
  /\ \A f \in Local : own(f) \subseteq effects[f]
  /\ \A f \in Function : effects[f] \subseteq whole[f]

\* Those of the functions of other packages are all there.
Told(effects, whole) ==
  \A f \in Local : \A edge \in ParamEdges(f) :
    edge.callee \notin Local => effects[edge.callee] = whole[edge.callee]

CollectedInv ==
  /\ phase \notin {"collect", "done"} =>
       Between(ReadsOf, paramReads, WholeReads) /\ Between(WritesOf, paramWrites, WholeWrites)
  /\ phase \in Imported => Told(paramReads, WholeReads) /\ Told(paramWrites, WholeWrites)

ClosedInv ==
  /\ phase = "writes" => WriteClosure!IInv
  /\ phase = "reads" => ReadClosure!IInv
  /\ phase \in Imported \ {"writes"} => WriteClosure!Closed(paramWrites)
  /\ phase \in Imported \ {"writes", "reads"} => ReadClosure!Closed(paramReads)

FieldInv == RunInv /\ FactsInv /\ CollectedInv /\ ClosedInv /\ WholeProgram /\ DepthSuffices

-----------------------------------------------------------------------------
(****************************************************************************)
(* What depends on the program only, stays.                                 *)
(****************************************************************************)

LEMMA BodiesStay ==
  ASSUME program' = program, NEW f
  PROVE  /\ ReadsOf(f)' = ReadsOf(f) /\ WritesOf(f)' = WritesOf(f)
         /\ ParamEdges(f)' = ParamEdges(f)
         /\ Of(f)' = Of(f) /\ InScope(f)' = InScope(f)
<1>1. Of(f)' = Of(f) /\ Statements(f)' = Statements(f) /\ InScope(f)' = InScope(f)
  BY DEF Statements, Of, InScope
<1>2. ASSUME NEW v, NEW type
      PROVE  Demand(f, v, type)' = Demand(f, v, type)
  BY DEF Statements, Of, Demand
<1>3. ReadsOf(f)' = ReadsOf(f)
  BY <1>1, <1>2 DEF ReadsOf
<1>4. WritesOf(f)' = WritesOf(f)
  BY DEF WritesOf, Statements, Of, IsParam
<1>5. ParamEdges(f)' = ParamEdges(f)
  BY DEF Statements, Of, Calls, ParamEdges, IsParam
<1> QED  BY <1>1, <1>3, <1>4, <1>5

LEMMA ProgramStays ==
  ASSUME program' = program
  PROVE  /\ WholeReads' = WholeReads /\ WholeWrites' = WholeWrites
         /\ DepthSuffices' = DepthSuffices
<1>1. AllParamEdges' = AllParamEdges
  BY BodiesStay DEF AllParamEdges, OfScope
<1>2. OfScope(ReadsOf)' = OfScope(ReadsOf) /\ OfScope(WritesOf)' = OfScope(WritesOf)
  BY BodiesStay DEF OfScope
<1>3. WholeReads' = WholeReads /\ WholeWrites' = WholeWrites
  BY <1>1, <1>2 DEF WholeReads, WholeWrites
<1> QED  BY <1>1, <1>3 DEF DepthSuffices

LEMMA PackageStays ==
  ASSUME program' = program, pkg' = pkg
  PROVE  /\ Package' = Package /\ Local' = Local
         /\ OfLocal(ParamEdges)' = OfLocal(ParamEdges)
<1>1. Package' = Package /\ Local' = Local
  BY DEF Package, Local, Of
<1> QED  BY <1>1, BodiesStay DEF OfLocal

LEMMA BodyKnown ==
  ASSUME program \in Program, NEW f \in Function, NEW s \in Range(program.func[f].body)
  PROVE  /\ s.value.kind = "call" =>
              LET g == s.value.callee
              IN  /\ g \in Function
                  /\ \/ Of(g).pkg = Of(f).pkg
                     \/ /\ Of(g).exported
                        /\ \E i, j \in DOMAIN program.order :
                             i < j /\ program.order[i] = Of(g).pkg /\ program.order[j] = Of(f).pkg
         /\ s.value.kind = "alloc" => Root \notin DOMAIN s.value.init
BY ProgramAssumption DEF Of, Root

\* What a function calls is in its package, or exported by one that comes before.
LEMMA CalleeKnown ==
  ASSUME program \in Program, NEW f \in Function, NEW edge \in ParamEdges(f)
  PROVE  /\ edge.callee \in Function
         /\ \/ Of(edge.callee).pkg = Of(f).pkg
            \/ /\ Of(edge.callee).exported
               /\ \E i, j \in DOMAIN program.order :
                    i < j /\ program.order[i] = Of(edge.callee).pkg /\ program.order[j] = Of(f).pkg
<1>1. PICK call \in Calls(f) : edge.callee = call.callee
  BY DEF ParamEdges
<1>2. PICK s \in Range(program.func[f].body) : s.value = call /\ s.value.kind = "call"
  BY <1>1 DEF Calls, Statements, Of
<1> QED  BY <1>1, <1>2, BodyKnown

\* What a function in scope does itself is done by the whole program, which does
\* nothing for one out of scope; and one more call adds nothing.
LEMMA WholeBounds ==
  ASSUME NEW own, own = [f \in Function |-> own[f]], NEW whole, whole = Whole(own, AllParamEdges),
         WithCallees(AllParamEdges, whole) = whole,
         \A f \in Function : ~InScope(f) => own[f] = {}
  PROVE  \A f \in Function :
           /\ own[f] \subseteq whole[f]
           /\ ~InScope(f) => whole[f] = {}
           /\ InScope(f) => \A edge \in ParamEdges(f) : \A effect \in whole[edge.callee] :
                              InheritParam(f, edge, effect) \subseteq whole[f]
<1> TAKE f \in Function
<1>1. own[f] \subseteq whole[f] /\ (AllParamEdges[f] = {} => whole[f] = own[f])
  BY WholeContains
<1>2. ~InScope(f) => AllParamEdges[f] = {}
  BY DEF AllParamEdges, OfScope
<1>3. ASSUME InScope(f), NEW edge \in ParamEdges(f), NEW effect \in whole[edge.callee]
      PROVE  InheritParam(f, edge, effect) \subseteq whole[f]
  <2>1. AllParamEdges[f] = ParamEdges(f)
    BY <1>3 DEF AllParamEdges, OfScope
  <2>2. InheritParam(f, edge, effect) \subseteq WithCallees(AllParamEdges, whole)[f]
    BY <1>3, <2>1 DEF WithCallees
  <2> QED  BY <2>2
<1> QED  BY <1>1, <1>2, <1>3

LEMMA EffectBounds ==
  ASSUME DepthSuffices, NEW f \in Function
  PROVE  /\ InScope(f) => ReadsOf(f) \subseteq WholeReads[f] /\ WritesOf(f) \subseteq WholeWrites[f]
         /\ ~InScope(f) => WholeReads[f] = {} /\ WholeWrites[f] = {}
         /\ InScope(f) => \A edge \in ParamEdges(f) :
              /\ \A effect \in WholeReads[edge.callee] : InheritParam(f, edge, effect) \subseteq WholeReads[f]
              /\ \A effect \in WholeWrites[edge.callee] : InheritParam(f, edge, effect) \subseteq WholeWrites[f]
<1> DEFINE R == OfScope(ReadsOf)
           W == OfScope(WritesOf)
<1>1. /\ R = [g \in Function |-> R[g]] /\ W = [g \in Function |-> W[g]]
      /\ \A g \in Function : ~InScope(g) => R[g] = {} /\ W[g] = {}
      /\ \A g \in Function : InScope(g) => R[g] = ReadsOf(g) /\ W[g] = WritesOf(g)
  BY DEF OfScope
<1>2. WholeReads = Whole(R, AllParamEdges) /\ WholeWrites = Whole(W, AllParamEdges)
  BY DEF WholeReads, WholeWrites
<1> HIDE DEF R, W
<1>3. /\ R[f] \subseteq WholeReads[f]
      /\ ~InScope(f) => WholeReads[f] = {}
      /\ InScope(f) => \A edge \in ParamEdges(f) : \A effect \in WholeReads[edge.callee] :
                         InheritParam(f, edge, effect) \subseteq WholeReads[f]
  BY <1>1, <1>2, WholeBounds DEF DepthSuffices
<1>4. /\ W[f] \subseteq WholeWrites[f]
      /\ ~InScope(f) => WholeWrites[f] = {}
      /\ InScope(f) => \A edge \in ParamEdges(f) : \A effect \in WholeWrites[edge.callee] :
                         InheritParam(f, edge, effect) \subseteq WholeWrites[f]
  BY <1>1, <1>2, WholeBounds DEF DepthSuffices
<1> QED  BY <1>1, <1>3, <1>4

-----------------------------------------------------------------------------
(****************************************************************************)
(* A package that has closed its effects has those of the whole program.    *)
(****************************************************************************)

LEMMA ClosedIsWhole ==
  ASSUME program \in Program, Package \in program.scope,
         NEW own, NEW effects, NEW whole, whole = Whole(own, AllParamEdges),
         \A f \in Local : own[f] \subseteq effects[f],
         \A f \in Function :
           /\ effects[f] \subseteq whole[f]
           /\ own[f] \subseteq whole[f]
           /\ ~InScope(f) => whole[f] = {}
           /\ InScope(f) => \A edge \in ParamEdges(f) : \A effect \in whole[edge.callee] :
                              InheritParam(f, edge, effect) \subseteq whole[f],
         Told(effects, whole),
         \A f \in Local : \A edge \in ParamEdges(f) : \A effect \in effects[edge.callee] :
           InheritParam(f, edge, effect) \subseteq effects[f]
  PROVE  \A f \in Local : effects[f] = whole[f]
<1> DEFINE all == [f \in Function |-> IF f \in Local THEN effects[f] ELSE whole[f]]
<1>1. \A f \in Local : f \in Function /\ InScope(f)
  BY DEF Local, InScope
<1>2. \A f \in Function : own[f] \subseteq all[f] /\ all[f] \subseteq whole[f]
  OBVIOUS
<1>3. \A f \in Function : \A edge \in AllParamEdges[f] :
        InScope(f) /\ edge \in ParamEdges(f) /\ edge.callee \in Function
  BY CalleeKnown DEF AllParamEdges, OfScope
<1>4. ASSUME NEW f \in Function, NEW edge \in AllParamEdges[f], NEW effect \in all[edge.callee]
      PROVE  InheritParam(f, edge, effect) \subseteq all[f]
  <2>1. InScope(f) /\ edge \in ParamEdges(f) /\ edge.callee \in Function
    BY <1>3
  <2>2. CASE f \in Local
    <3>1. effect \in effects[edge.callee]
      BY <1>4, <2>1, <2>2 DEF Told
    <3> QED  BY <2>1, <2>2, <3>1
  <2>3. CASE f \notin Local
    <3>1. effect \in whole[edge.callee]
      BY <1>2, <1>4, <2>1
    <3> QED  BY <2>1, <2>3, <3>1
  <2> QED  BY <2>2, <2>3
<1>5. \A f \in Function : WithCallees(AllParamEdges, all)[f] \subseteq all[f]
  <2> HIDE DEF all
  <2> QED  BY <1>4 DEF WithCallees
<1>6. \A f \in Function : whole[f] \subseteq all[f]
  <2> HIDE DEF all
  <2> QED  BY <1>2, <1>3, <1>5, WholeIsLeast
<1> QED  BY <1>1, <1>2, <1>6

\* ... at the end of run.
LEMMA LocalIsWhole ==
  ASSUME FieldInv, phase \in {"effects", "sources", "drop", "export"}
  PROVE  \A f \in Local : paramReads[f] = WholeReads[f] /\ paramWrites[f] = WholeWrites[f]
<1>1. /\ program \in Program /\ Package \in program.scope /\ DepthSuffices
      /\ Between(ReadsOf, paramReads, WholeReads) /\ Between(WritesOf, paramWrites, WholeWrites)
      /\ Told(paramReads, WholeReads) /\ Told(paramWrites, WholeWrites)
      /\ ReadClosure!Closed(paramReads) /\ WriteClosure!Closed(paramWrites)
  BY DEF FieldInv, RunInv, CollectedInv, ClosedInv, Imported
<1>2. \A f \in Local : f \in Function /\ InScope(f)
  BY <1>1 DEF Local, InScope
<1>3. /\ \A f \in Local : \A edge \in ParamEdges(f) : \A effect \in paramReads[edge.callee] :
           InheritParam(f, edge, effect) \subseteq paramReads[f]
      /\ \A f \in Local : \A edge \in ParamEdges(f) : \A effect \in paramWrites[edge.callee] :
           InheritParam(f, edge, effect) \subseteq paramWrites[f]
  <2>1. \A f \in Local : /\ ReadClosure!Inherited(f, paramReads) \subseteq paramReads[f]
                         /\ WriteClosure!Inherited(f, paramWrites) \subseteq paramWrites[f]
    BY <1>1, <1>2 DEF ReadClosure!Closed, WriteClosure!Closed
  <2>2. ASSUME NEW f \in Local, NEW edge \in ParamEdges(f), NEW effect
        PROVE  /\ effect \in paramReads[edge.callee] =>
                    InheritParam(f, edge, effect) \subseteq paramReads[f]
               /\ effect \in paramWrites[edge.callee] =>
                    InheritParam(f, edge, effect) \subseteq paramWrites[f]
    BY <1>2, <2>1 DEF ReadClosure!Inherited, WriteClosure!Inherited, OfLocal
  <2> QED  BY <2>2
<1> DEFINE R == OfScope(ReadsOf)
           W == OfScope(WritesOf)
<1>4. WholeReads = Whole(R, AllParamEdges) /\ WholeWrites = Whole(W, AllParamEdges)
  BY DEF WholeReads, WholeWrites
<1>5. \A f \in Function : IF InScope(f) THEN R[f] = ReadsOf(f) /\ W[f] = WritesOf(f)
                                        ELSE R[f] = {} /\ W[f] = {}
  BY DEF OfScope
<1> HIDE DEF R, W
<1>6. \A f \in Function : R[f] \subseteq WholeReads[f] /\ W[f] \subseteq WholeWrites[f]
  BY <1>1, <1>5, EffectBounds
<1>7. \A f \in Local : paramReads[f] = WholeReads[f]
  <2>1. \A f \in Local : R[f] \subseteq paramReads[f]
    BY <1>1, <1>2, <1>5 DEF Between
  <2>2. \A f \in Function : paramReads[f] \subseteq WholeReads[f]
    BY <1>1 DEF Between
  <2> QED  BY <1>1, <1>3, <1>4, <1>6, <2>1, <2>2, EffectBounds, ClosedIsWhole
<1>8. \A f \in Local : paramWrites[f] = WholeWrites[f]
  <2>1. \A f \in Local : W[f] \subseteq paramWrites[f]
    BY <1>1, <1>2, <1>5 DEF Between
  <2>2. \A f \in Function : paramWrites[f] \subseteq WholeWrites[f]
    BY <1>1 DEF Between
  <2> QED  BY <1>1, <1>3, <1>4, <1>6, <2>1, <2>2, EffectBounds, ClosedIsWhole
<1> QED  BY <1>7, <1>8

-----------------------------------------------------------------------------
(****************************************************************************)
(* One function taken from a worklist.                                      *)
(****************************************************************************)

\* Only functions of the package have edges, and these go to known functions.
LEMMA EdgesOfLocal ==
  ASSUME program \in Program, NEW f \in Function, NEW edge \in OfLocal(ParamEdges)[f]
  PROVE  f \in Local /\ edge \in ParamEdges(f) /\ edge.callee \in Function
BY CalleeKnown DEF OfLocal

LEMMA ReadsStep ==
  ASSUME FieldInv, phase = "reads", Reads!Step, UNCHANGED <<program, pkg>>
  PROVE  /\ ReadClosure!IInv'
         /\ paramReads' = [f \in Function |-> paramReads'[f]]
         /\ \A f \in Function :
              /\ paramReads[f] \subseteq paramReads'[f]
              /\ paramReads'[f] \subseteq WholeReads[f]
              /\ f \notin Local => paramReads'[f] = paramReads[f]
<1>1. /\ program \in Program /\ Package \in program.scope /\ DepthSuffices
      /\ ReadClosure!IInv /\ \A f \in Function : paramReads[f] \subseteq WholeReads[f]
      /\ paramReads = [f \in Function |-> paramReads[f]]
  BY DEF FieldInv, RunInv, CollectedInv, ClosedInv, Between
<1>2. ReadClosure!Step
  BY DEF Reads!Step, ReadClosure!Step, Reads!Visit, ReadClosure!Visit, Reads!Early,
         ReadClosure!Early, Reads!Inherited, ReadClosure!Inherited, Reads!Callers, ReadClosure!Callers
<1>3. ReadClosure!Next
  BY <1>2, PackageStays DEF ReadClosure!Next
<1>4. ReadClosure!IInv'
  BY <1>1, <1>3, ReadClosure!TypeCorrect, ReadClosure!StaysSettled DEF ReadClosure!IInv
<1>5. PICK f \in work : \E early \in SUBSET ReadClosure!Early(f) : ReadClosure!Visit(f, early)
  BY <1>2 DEF ReadClosure!Step
<1>6. PICK early \in SUBSET ReadClosure!Early(f) : ReadClosure!Visit(f, early)
  BY <1>5
<1>7. f \in Function
  BY <1>1 DEF ReadClosure!IInv, ReadClosure!TypeOK
<1>8. paramReads' = [paramReads EXCEPT ![f] = paramReads[f] \cup ReadClosure!Inherited(f, paramReads) \cup early]
  BY <1>6 DEF ReadClosure!Visit
<1>9. ASSUME NEW edge \in OfLocal(ParamEdges)[f], NEW effect \in WholeReads[edge.callee]
      PROVE  InheritParam(f, edge, effect) \subseteq WholeReads[f]
  <2>1. f \in Local /\ edge \in ParamEdges(f)
    BY <1>1, <1>7, <1>9, EdgesOfLocal
  <2>2. InScope(f)
    BY <1>1, <2>1 DEF Local, InScope
  <2> QED  BY <1>1, <1>7, <1>9, <2>1, <2>2, EffectBounds
<1>10. \A edge \in OfLocal(ParamEdges)[f] : f \in Local /\ edge.callee \in Function
  BY <1>1, <1>7, EdgesOfLocal
<1>11. /\ ReadClosure!Inherited(f, paramReads) \subseteq WholeReads[f]
       /\ f \notin Local => ReadClosure!Inherited(f, paramReads) = {}
  BY <1>1, <1>9, <1>10 DEF ReadClosure!Inherited
<1>12. early \subseteq WholeReads[f] /\ (f \notin Local => early = {})
  BY <1>6, <1>9, <1>10, <1>11 DEF ReadClosure!Early
<1> QED  BY <1>1, <1>4, <1>7, <1>8, <1>11, <1>12

LEMMA WritesStep ==
  ASSUME FieldInv, phase = "writes", Writes!Step, UNCHANGED <<program, pkg>>
  PROVE  /\ WriteClosure!IInv'
         /\ paramWrites' = [f \in Function |-> paramWrites'[f]]
         /\ \A f \in Function :
              /\ paramWrites[f] \subseteq paramWrites'[f]
              /\ paramWrites'[f] \subseteq WholeWrites[f]
              /\ f \notin Local => paramWrites'[f] = paramWrites[f]
<1>1. /\ program \in Program /\ Package \in program.scope /\ DepthSuffices
      /\ WriteClosure!IInv /\ \A f \in Function : paramWrites[f] \subseteq WholeWrites[f]
      /\ paramWrites = [f \in Function |-> paramWrites[f]]
  BY DEF FieldInv, RunInv, CollectedInv, ClosedInv, Between
<1>2. WriteClosure!Step
  BY DEF Writes!Step, WriteClosure!Step, Writes!Visit, WriteClosure!Visit, Writes!Early,
         WriteClosure!Early, Writes!Inherited, WriteClosure!Inherited, Writes!Callers, WriteClosure!Callers
<1>3. WriteClosure!Next
  BY <1>2, PackageStays DEF WriteClosure!Next
<1>4. WriteClosure!IInv'
  BY <1>1, <1>3, WriteClosure!TypeCorrect, WriteClosure!StaysSettled DEF WriteClosure!IInv
<1>5. PICK f \in work : \E early \in SUBSET WriteClosure!Early(f) : WriteClosure!Visit(f, early)
  BY <1>2 DEF WriteClosure!Step
<1>6. PICK early \in SUBSET WriteClosure!Early(f) : WriteClosure!Visit(f, early)
  BY <1>5
<1>7. f \in Function
  BY <1>1 DEF WriteClosure!IInv, WriteClosure!TypeOK
<1>8. paramWrites' = [paramWrites EXCEPT ![f] = paramWrites[f] \cup WriteClosure!Inherited(f, paramWrites) \cup early]
  BY <1>6 DEF WriteClosure!Visit
<1>9. ASSUME NEW edge \in OfLocal(ParamEdges)[f], NEW effect \in WholeWrites[edge.callee]
      PROVE  InheritParam(f, edge, effect) \subseteq WholeWrites[f]
  <2>1. f \in Local /\ edge \in ParamEdges(f)
    BY <1>1, <1>7, <1>9, EdgesOfLocal
  <2>2. InScope(f)
    BY <1>1, <2>1 DEF Local, InScope
  <2> QED  BY <1>1, <1>7, <1>9, <2>1, <2>2, EffectBounds
<1>10. \A edge \in OfLocal(ParamEdges)[f] : f \in Local /\ edge.callee \in Function
  BY <1>1, <1>7, EdgesOfLocal
<1>11. /\ WriteClosure!Inherited(f, paramWrites) \subseteq WholeWrites[f]
       /\ f \notin Local => WriteClosure!Inherited(f, paramWrites) = {}
  BY <1>1, <1>9, <1>10 DEF WriteClosure!Inherited
<1>12. early \subseteq WholeWrites[f] /\ (f \notin Local => early = {})
  BY <1>6, <1>9, <1>10, <1>11 DEF WriteClosure!Early
<1> QED  BY <1>1, <1>4, <1>7, <1>8, <1>11, <1>12

-----------------------------------------------------------------------------
(****************************************************************************)
(* The invariant holds at every step.                                       *)
(****************************************************************************)

LEMMA AppendedTo ==
  ASSUME NEW s, ASequence(s), NEW x
  PROVE  /\ ASequence(Append(s, x)) /\ Len(Append(s, x)) = Len(s) + 1
         /\ Append(s, x)[Len(s) + 1] = x
         /\ \A n \in 1..Len(s) : Append(s, x)[n] = s[n]
<1> DEFINE T == Range(s) \cup {x}
           t == Append(s, x)
<1>1. Len(s) \in Nat /\ \A n \in 1..Len(s) : s[n] \in T
  BY DEF ASequence, Range
<1>2. s \in Seq(T)
  BY <1>1 DEF ASequence
<1>3. t \in Seq(T) /\ Len(t) = Len(s) + 1 /\ t[Len(s) + 1] = x /\ \A n \in 1..Len(s) : t[n] = s[n]
  <2> HIDE DEF T
  <2>1. x \in T
    BY DEF T
  <2> QED  BY <1>2, <2>1
<1>4. t \in Seq(Range(t))
  <2> HIDE DEF t, T
  <2> QED  BY <1>3 DEF Range
<1> QED  BY <1>3, <1>4 DEF ASequence

\* The worklist of a closure decides nothing about the other variables.
LEMMA StepKeepsFunction ==
  /\ Reads!Step /\ paramReads = [f \in Function |-> paramReads[f]] =>
       paramReads' = [f \in Function |-> paramReads'[f]]
  /\ Writes!Step /\ paramWrites = [f \in Function |-> paramWrites[f]] =>
       paramWrites' = [f \in Function |-> paramWrites'[f]]
BY DEF Reads!Step, Reads!Visit, Writes!Step, Writes!Visit

LEMMA OrderIsSequence ==
  ASSUME program \in Program
  PROVE  Len(program.order) \in Nat /\ DOMAIN program.order = 1..Len(program.order)
<1>1. program.order \in Seq({program.func[f].pkg : f \in Function})
  BY ProgramAssumption
<1> QED  BY <1>1

LEMMA RunInvStep == RunInv /\ [Next]_vars => RunInv'
<1> SUFFICES ASSUME RunInv, [Next]_vars
             PROVE  RunInv'
  OBVIOUS
<1> USE DEF RunInv
<1>1. CASE OutOfScope
  <2>1. \E x : facts' = Append(facts, x)
    BY <1>1 DEF OutOfScope
  <2>2. \E y : summaries' = Append(summaries, y)
    BY <1>1 DEF OutOfScope
  <2>3. ASequence(facts)' /\ Len(facts') = Len(facts) + 1
    BY <2>1, AppendedTo
  <2>4. ASequence(summaries)' /\ Len(summaries') = Len(summaries) + 1
    BY <2>2, AppendedTo
  <2>5. /\ phase # "done" /\ phase' = "done"
        /\ UNCHANGED <<program, pkg, paramReads, paramWrites>>
    BY <1>1 DEF OutOfScope, summary
  <2>6. pkg \in Nat
    BY OrderIsSequence
  <2> QED  BY <2>3, <2>4, <2>5, <2>6 DEF Package
<1>2. CASE Collect
  <2>1. Package' = Package
    BY <1>2 DEF Collect, Package
  <2>2. paramReads' = [f \in Function |-> paramReads'[f]]
    BY <1>2 DEF Collect, OfLocal
  <2>3. paramWrites' = [f \in Function |-> paramWrites'[f]]
    BY <1>2 DEF Collect, OfLocal
  <2> QED  BY <1>2, <2>1, <2>2, <2>3 DEF Collect
<1>3. CASE Import
  <2>1. Package' = Package
    BY <1>3 DEF Import, Package
  <2>2. paramReads' = [f \in Function |-> paramReads'[f]]
    BY <1>3 DEF Import
  <2>3. paramWrites' = [f \in Function |-> paramWrites'[f]]
    BY <1>3 DEF Import
  <2> QED  BY <1>3, <2>1, <2>2, <2>3 DEF Import, Imported
<1>4. CASE CloseWrites
  <2>1. Package' = Package /\ paramWrites' = [f \in Function |-> paramWrites'[f]]
    BY <1>4, StepKeepsFunction DEF CloseWrites, Package
  <2> QED  BY <1>4, <2>1 DEF CloseWrites, Imported
<1>5. CASE CloseReads
  <2>1. Package' = Package /\ paramReads' = [f \in Function |-> paramReads'[f]]
    BY <1>5, StepKeepsFunction DEF CloseReads, Package
  <2> QED  BY <1>5, <2>1 DEF CloseReads, Imported
<1>6. CASE CloseEffects
  BY <1>6 DEF CloseEffects, Imported, Package
<1>7. CASE CloseSources
  BY <1>7 DEF CloseSources, Imported, Package
<1>8. CASE DropMixed
  BY <1>8 DEF DropMixed, Imported, Package
<1>9. CASE Export
  <2>1. \E x : facts' = Append(facts, x)
    BY <1>9 DEF Export
  <2>2. \E y : summaries' = Append(summaries, y)
    BY <1>9 DEF Export
  <2>3. ASequence(facts)' /\ Len(facts') = Len(facts) + 1
    BY <2>1, AppendedTo
  <2>4. ASequence(summaries)' /\ Len(summaries') = Len(summaries) + 1
    BY <2>2, AppendedTo
  <2>5. /\ phase # "done" /\ phase' = "done"
        /\ UNCHANGED <<program, pkg, paramReads, paramWrites>>
    BY <1>9 DEF Export, summary
  <2>6. pkg \in Nat
    BY OrderIsSequence
  <2> QED  BY <2>3, <2>4, <2>5, <2>6 DEF Package
<1>10. CASE NextPackage
  BY <1>10, OrderIsSequence DEF NextPackage, Nothing
<1>11. CASE UNCHANGED vars
  BY <1>11 DEF vars, summary, Package
<1> QED
  BY <1>1, <1>2, <1>3, <1>4, <1>5, <1>6, <1>7, <1>8, <1>9, <1>10, <1>11 DEF Next

\* Only OutOfScope and Export make a fact.
LEMMA FactsChange ==
  ASSUME [Next]_vars
  PROVE  /\ program' = program
         /\ OutOfScope \/ Export \/ UNCHANGED <<facts, summaries>>
BY DEF Next, vars, summary, OutOfScope, Collect, Import, CloseWrites, CloseReads, CloseEffects,
       CloseSources, DropMixed, Export, NextPackage

LEMMA FactsInvStep == FieldInv /\ [Next]_vars => FactsInv'
<1> SUFFICES ASSUME FieldInv, [Next]_vars
             PROVE  FactsInv'
  OBVIOUS
<1>1. RunInv /\ FactsInv /\ DepthSuffices
  BY DEF FieldInv
<1>2. /\ program' = program /\ WholeReads' = WholeReads /\ WholeWrites' = WholeWrites
      /\ \A f : Of(f)' = Of(f)
  BY FactsChange, ProgramStays, BodiesStay
<1>3. CASE UNCHANGED <<facts, summaries>>
  BY <1>1, <1>2, <1>3 DEF FactsInv
<1>4. ASSUME NEW fact, facts' = Append(facts, fact), phase # "done",
             \A f \in DOMAIN fact \cap Function :
               fact[f].reads = WholeReads[f] /\ fact[f].writes = WholeWrites[f],
             \A f \in Function : Of(f).pkg = Package /\ Of(f).exported /\ f \notin DOMAIN fact =>
               WholeReads[f] = {} /\ WholeWrites[f] = {}
      PROVE  FactsInv'
  <2>1. ASequence(facts) /\ Len(facts) \in Nat /\ pkg \in Nat /\ Len(facts) = pkg - 1
    BY <1>1, <1>4, OrderIsSequence DEF RunInv, ASequence
  <2>2. /\ Len(facts') = Len(facts) + 1 /\ facts'[Len(facts) + 1] = fact
        /\ \A n \in 1..Len(facts) : facts'[n] = facts[n]
    BY <1>4, <2>1, AppendedTo
  <2>3. ASSUME NEW n \in 1..Len(facts')
        PROVE  /\ \A f \in DOMAIN facts'[n] \cap Function :
                    facts'[n][f].reads = WholeReads[f] /\ facts'[n][f].writes = WholeWrites[f]
               /\ \A f \in Function :
                    Of(f).pkg = program.order[n] /\ Of(f).exported /\ f \notin DOMAIN facts'[n] =>
                      WholeReads[f] = {} /\ WholeWrites[f] = {}
    <3>1. CASE n \in 1..Len(facts)
      BY <1>1, <2>2, <3>1 DEF FactsInv
    <3>2. CASE n = Len(facts) + 1
      BY <1>4, <2>1, <2>2, <3>2 DEF Package
    <3> QED  BY <2>1, <2>2, <3>1, <3>2
  <2> QED  BY <1>2, <2>3 DEF FactsInv
<1>5. CASE OutOfScope
  <2>1. facts' = Append(facts, <<>>) /\ phase # "done" /\ Package \notin program.scope
    BY <1>5 DEF OutOfScope
  <2>2. \A f \in Function : Of(f).pkg = Package => WholeReads[f] = {} /\ WholeWrites[f] = {}
    BY <1>1, <2>1, EffectBounds DEF InScope
  <2>3. DOMAIN <<>> = {}
    OBVIOUS
  <2> QED  BY <1>4, <2>1, <2>2, <2>3
<1>6. CASE Export
  <2> DEFINE entry == [f \in {f \in Local : Of(f).exported} |->
                         [reads |-> paramReads[f], writes |-> paramWrites[f],
                          effects |-> returnEffects[f], sources |-> returnParamSources[f]]]
             told == {f \in DOMAIN entry : \E part \in DOMAIN entry[f] : entry[f][part] # {}}
             fact == [f \in told |-> entry[f]]
  <2>1. facts' = Append(facts, fact) /\ phase = "export"
    BY <1>6 DEF Export
  <2>2. \A f \in Local : paramReads[f] = WholeReads[f] /\ paramWrites[f] = WholeWrites[f]
    BY <2>1, LocalIsWhole
  <2>3. \A f \in DOMAIN entry :
          /\ f \in Local /\ entry[f].reads = WholeReads[f] /\ entry[f].writes = WholeWrites[f]
          /\ DOMAIN entry[f] = {"reads", "writes", "effects", "sources"}
          /\ entry[f].reads = entry[f]["reads"] /\ entry[f].writes = entry[f]["writes"]
    BY <2>2
  <2>4. DOMAIN entry = {f \in Local : Of(f).exported}
    OBVIOUS
  <2>5. DOMAIN fact = told /\ \A f \in told : f \in DOMAIN entry /\ fact[f] = entry[f]
    OBVIOUS
  <2>6. \A f \in DOMAIN entry \ told : entry[f].reads = {} /\ entry[f].writes = {}
    <3> HIDE DEF entry
    <3> QED  BY <2>3
  <2>7. \A f \in Function : Of(f).pkg = Package /\ Of(f).exported => f \in DOMAIN entry
    BY <2>4 DEF Local
  <2> HIDE DEF entry, told, fact
  <2>8. \A f \in DOMAIN fact \cap Function :
          fact[f].reads = WholeReads[f] /\ fact[f].writes = WholeWrites[f]
    BY <2>3, <2>5
  <2>9. \A f \in Function : Of(f).pkg = Package /\ Of(f).exported /\ f \notin DOMAIN fact =>
          WholeReads[f] = {} /\ WholeWrites[f] = {}
    BY <2>3, <2>5, <2>6, <2>7
  <2> QED  BY <1>4, <2>1, <2>8, <2>9
<1> QED  BY <1>3, <1>5, <1>6, FactsChange

\* What Import takes from the facts is what the functions do in the whole program.
LEMMA ImportIsWhole ==
  ASSUME FieldInv, Import
  PROVE  /\ \A f \in Function : paramReads'[f] \subseteq WholeReads[f] /\ paramReads[f] \subseteq paramReads'[f]
         /\ \A f \in Function : paramWrites'[f] \subseteq WholeWrites[f] /\ paramWrites[f] \subseteq paramWrites'[f]
         /\ \A f \in Local : \A edge \in ParamEdges(f) : edge.callee \notin Local =>
              /\ paramReads'[edge.callee] = WholeReads[edge.callee]
              /\ paramWrites'[edge.callee] = WholeWrites[edge.callee]
<1> DEFINE known(f) == f \in Called \ Local /\ \E n \in DOMAIN facts : f \in DOMAIN facts[n]
           fact(f) == IF known(f) THEN facts[CHOOSE n \in DOMAIN facts : f \in DOMAIN facts[n]][f]
                      ELSE [reads |-> {}, writes |-> {}, effects |-> {}, sources |-> {}]
<1>1. /\ program \in Program /\ pkg \in Nat /\ Len(facts) = pkg - 1 /\ DOMAIN facts = 1..Len(facts)
      /\ FactsInv /\ DepthSuffices
      /\ \A f \in Function : paramReads[f] \subseteq WholeReads[f] /\ paramWrites[f] \subseteq WholeWrites[f]
  BY OrderIsSequence DEF FieldInv, RunInv, Import, CollectedInv, Between, ASequence
<1>2. /\ \A f \in Function : paramReads'[f] = paramReads[f] \cup fact(f).reads
      /\ \A f \in Function : paramWrites'[f] = paramWrites[f] \cup fact(f).writes
  BY DEF Import
<1>3. ASSUME NEW f \in Function, known(f)
      PROVE  fact(f).reads = WholeReads[f] /\ fact(f).writes = WholeWrites[f]
  <2>1. PICK n \in DOMAIN facts : f \in DOMAIN facts[n] /\ fact(f) = facts[n][f]
    BY <1>3
  <2> HIDE DEF fact
  <2> QED  BY <1>1, <2>1 DEF FactsInv
<1>4. \A f : ~known(f) => fact(f).reads = {} /\ fact(f).writes = {}
  OBVIOUS
<1>5. ASSUME NEW f \in Local, NEW edge \in ParamEdges(f), edge.callee \notin Local
      PROVE  /\ edge.callee \in Function
             /\ known(edge.callee) \/ (WholeReads[edge.callee] = {} /\ WholeWrites[edge.callee] = {})
  <2>1. f \in Function /\ Of(f).pkg = Package
    BY DEF Local
  <2>2. edge.callee \in Function
    BY <1>1, <2>1, CalleeKnown
  <2>3. edge.callee \in Called
    <3>1. \E call \in Calls(f) : call.callee = edge.callee
      BY DEF ParamEdges
    <3> QED  BY <3>1 DEF Called
  <2>4. PICK i, j \in DOMAIN program.order :
          i < j /\ program.order[i] = Of(edge.callee).pkg /\ program.order[j] = Package
    BY <1>1, <1>5, <2>1, <2>2, CalleeKnown DEF Local
  <2>5. pkg \in DOMAIN program.order /\ program.order[pkg] = Package
    BY DEF FieldInv, RunInv, Package
  <2>6. i \in DOMAIN facts
    <3>1. \A m, n \in DOMAIN program.order : program.order[m] = program.order[n] => m = n
      BY <1>1, ProgramAssumption
    <3>2. j = pkg
      BY <2>4, <2>5, <3>1
    <3>3. i \in Nat \ {0}
      BY <1>1, <2>4, OrderIsSequence
    <3> QED  BY <1>1, <2>4, <3>2, <3>3
  <2>7. Of(edge.callee).exported
    BY <1>1, <1>5, <2>1, <2>2, CalleeKnown DEF Local
  <2>8. CASE edge.callee \in DOMAIN facts[i]
    BY <1>5, <2>2, <2>3, <2>6, <2>8
  <2>9. CASE edge.callee \notin DOMAIN facts[i]
    BY <1>1, <2>2, <2>4, <2>6, <2>7, <2>9 DEF FactsInv
  <2> QED  BY <2>2, <2>8, <2>9
<1> HIDE DEF fact, known
<1>6. \A f \in Function : paramReads'[f] \subseteq WholeReads[f] /\ paramReads[f] \subseteq paramReads'[f]
  BY <1>1, <1>2, <1>3, <1>4
<1>7. \A f \in Function : paramWrites'[f] \subseteq WholeWrites[f] /\ paramWrites[f] \subseteq paramWrites'[f]
  BY <1>1, <1>2, <1>3, <1>4
<1>8. ASSUME NEW f \in Local, NEW edge \in ParamEdges(f), edge.callee \notin Local
      PROVE  /\ paramReads'[edge.callee] = WholeReads[edge.callee]
             /\ paramWrites'[edge.callee] = WholeWrites[edge.callee]
  <2> DEFINE g == edge.callee
  <2>1. g \in Function /\ (known(g) \/ (WholeReads[g] = {} /\ WholeWrites[g] = {}))
    BY <1>5, <1>8
  <2>2. paramReads'[g] \subseteq WholeReads[g] /\ paramWrites'[g] \subseteq WholeWrites[g]
    BY <1>6, <1>7, <2>1
  <2>3. WholeReads[g] \subseteq paramReads'[g] /\ WholeWrites[g] \subseteq paramWrites'[g]
    <3>1. CASE known(g)
      BY <1>2, <1>3, <2>1, <3>1
    <3>2. CASE WholeReads[g] = {} /\ WholeWrites[g] = {}
      BY <3>2
    <3> QED  BY <2>1, <3>1, <3>2
  <2> QED  BY <2>2, <2>3
<1> QED  BY <1>6, <1>7, <1>8

LEMMA CollectedInvStep == FieldInv /\ [Next]_vars => CollectedInv'
<1> SUFFICES ASSUME FieldInv, [Next]_vars
             PROVE  CollectedInv'
  OBVIOUS
<1>1. /\ program' = program /\ WholeReads' = WholeReads /\ WholeWrites' = WholeWrites
      /\ \A f : ReadsOf(f)' = ReadsOf(f) /\ WritesOf(f)' = WritesOf(f) /\ ParamEdges(f)' = ParamEdges(f)
  BY FactsChange, ProgramStays, BodiesStay
<1>2. CASE phase' \in {"collect", "done"}
  BY <1>2 DEF CollectedInv, Imported
<1>3. pkg' = pkg => Local' = Local
  BY <1>1, PackageStays
<1>4. CASE Collect
  <2>1. /\ pkg' = pkg /\ phase' = "import" /\ Package \in program.scope
        /\ \A f \in Function : paramReads'[f] = IF f \in Local THEN ReadsOf(f) ELSE {}
        /\ \A f \in Function : paramWrites'[f] = IF f \in Local THEN WritesOf(f) ELSE {}
    BY <1>4 DEF Collect, OfLocal
  <2>2. \A f \in Local : f \in Function /\ InScope(f)
    BY <2>1 DEF Local, InScope
  <2>3. \A f \in Local : ReadsOf(f) \subseteq WholeReads[f] /\ WritesOf(f) \subseteq WholeWrites[f]
    BY <2>2, EffectBounds DEF FieldInv
  <2> QED  BY <1>1, <1>3, <2>1, <2>2, <2>3 DEF CollectedInv, Between, Imported
<1>5. CASE Import
  <2>1. pkg' = pkg /\ phase' = "writes" /\ phase = "import"
    BY <1>5 DEF Import
  <2>2. \A f \in Local : f \in Function
    BY DEF Local
  <2>3. /\ \A f \in Local : ReadsOf(f) \subseteq paramReads[f]
        /\ \A f \in Local : WritesOf(f) \subseteq paramWrites[f]
    BY <2>1 DEF FieldInv, CollectedInv, Between
  <2>4. Between(ReadsOf, paramReads, WholeReads)' /\ Between(WritesOf, paramWrites, WholeWrites)'
    BY <1>1, <1>3, <1>5, <2>1, <2>2, <2>3, ImportIsWhole DEF Between
  <2>5. Told(paramReads, WholeReads)' /\ Told(paramWrites, WholeWrites)'
    BY <1>1, <1>3, <1>5, <2>1, ImportIsWhole DEF Told
  <2> QED  BY <2>1, <2>4, <2>5 DEF CollectedInv
<1>6. ASSUME phase \in Imported, pkg' = pkg,
             \A f \in Function :
               /\ paramReads[f] \subseteq paramReads'[f]
               /\ paramReads'[f] \subseteq WholeReads[f]
               /\ f \notin Local => paramReads'[f] = paramReads[f],
             \A f \in Function :
               /\ paramWrites[f] \subseteq paramWrites'[f]
               /\ paramWrites'[f] \subseteq WholeWrites[f]
               /\ f \notin Local => paramWrites'[f] = paramWrites[f]
      PROVE  CollectedInv'
  <2>1. /\ Between(ReadsOf, paramReads, WholeReads) /\ Between(WritesOf, paramWrites, WholeWrites)
        /\ Told(paramReads, WholeReads) /\ Told(paramWrites, WholeWrites)
        /\ program \in Program
    BY <1>6 DEF FieldInv, RunInv, CollectedInv, Imported
  <2>2. \A f \in Local : f \in Function /\ \A edge \in ParamEdges(f) : edge.callee \in Function
    BY <2>1, CalleeKnown DEF Local
  <2>3. Between(ReadsOf, paramReads, WholeReads)' /\ Between(WritesOf, paramWrites, WholeWrites)'
    BY <1>1, <1>3, <1>6, <2>1, <2>2 DEF Between
  <2>4. Told(paramReads, WholeReads)' /\ Told(paramWrites, WholeWrites)'
    BY <1>1, <1>3, <1>6, <2>1, <2>2 DEF Told
  <2> QED  BY <2>3, <2>4 DEF CollectedInv
<1>7. phase \in Imported =>
        /\ \A f \in Function : paramReads[f] \subseteq WholeReads[f]
        /\ \A f \in Function : paramWrites[f] \subseteq WholeWrites[f]
  BY DEF FieldInv, CollectedInv, Between, Imported
<1>8. CASE CloseWrites
  <2>1. phase = "writes" /\ pkg' = pkg /\ paramReads' = paramReads /\ phase \in Imported
    BY <1>8 DEF CloseWrites, Imported
  <2>2. CASE Writes!Step
    BY <1>1, <1>6, <1>7, <2>1, <2>2, WritesStep
  <2>3. CASE paramWrites' = paramWrites
    BY <1>6, <1>7, <2>1, <2>3
  <2> QED  BY <1>8, <2>2, <2>3 DEF CloseWrites
<1>9. CASE CloseReads
  <2>1. phase = "reads" /\ pkg' = pkg /\ paramWrites' = paramWrites /\ phase \in Imported
    BY <1>9 DEF CloseReads, Imported
  <2>2. CASE Reads!Step
    BY <1>1, <1>6, <1>7, <2>1, <2>2, ReadsStep
  <2>3. CASE paramReads' = paramReads
    BY <1>6, <1>7, <2>1, <2>3
  <2> QED  BY <1>9, <2>2, <2>3 DEF CloseReads
<1>10. CASE CloseEffects \/ CloseSources \/ DropMixed
  <2>1. phase \in Imported /\ pkg' = pkg /\ paramReads' = paramReads /\ paramWrites' = paramWrites
    BY <1>10 DEF CloseEffects, CloseSources, DropMixed, Imported
  <2> QED  BY <1>6, <1>7, <2>1
<1>11. CASE OutOfScope \/ Export \/ NextPackage
  BY <1>2, <1>11 DEF OutOfScope, Export, NextPackage
<1>12. CASE UNCHANGED vars
  BY <1>1, <1>3, <1>12 DEF vars, summary, FieldInv, CollectedInv, Between, Told
<1> QED
  BY <1>4, <1>5, <1>8, <1>9, <1>10, <1>11, <1>12 DEF Next

\* A closure starts with every function that forwards, and is closed at the end.
LEMMA ClosureStarts ==
  ASSUME RunInv, pkg' = pkg, program' = program
  PROVE  /\ paramWrites' = [f \in Function |-> paramWrites'[f]] /\ work' = (Writes!Forwarding)' =>
              WriteClosure!IInv'
         /\ paramReads' = [f \in Function |-> paramReads'[f]] /\ work' = (Reads!Forwarding)' =>
              ReadClosure!IInv'
<1>1. program \in Program
  BY DEF RunInv
<1>2. OfLocal(ParamEdges)' = OfLocal(ParamEdges)
  BY PackageStays
<1>3. \A f \in Function : \A edge \in OfLocal(ParamEdges)[f] : edge.callee \in Function
  BY <1>1, EdgesOfLocal
<1>4. ASSUME paramWrites' = [f \in Function |-> paramWrites'[f]], work' = (Writes!Forwarding)'
      PROVE  WriteClosure!IInv'
  <2>1. work' = {f \in Function : OfLocal(ParamEdges)[f] # {}}
    BY <1>2, <1>4 DEF Writes!Forwarding
  <2>2. WriteClosure!TypeOK'
    BY <1>2, <1>3, <1>4, <2>1 DEF WriteClosure!TypeOK
  <2>3. WriteClosure!Settled'
    BY <1>2, <2>1 DEF WriteClosure!Settled, WriteClosure!Inherited
  <2> QED  BY <2>2, <2>3 DEF WriteClosure!IInv
<1>5. ASSUME paramReads' = [f \in Function |-> paramReads'[f]], work' = (Reads!Forwarding)'
      PROVE  ReadClosure!IInv'
  <2>1. work' = {f \in Function : OfLocal(ParamEdges)[f] # {}}
    BY <1>2, <1>5 DEF Reads!Forwarding
  <2>2. ReadClosure!TypeOK'
    BY <1>2, <1>3, <1>5, <2>1 DEF ReadClosure!TypeOK
  <2>3. ReadClosure!Settled'
    BY <1>2, <2>1 DEF ReadClosure!Settled, ReadClosure!Inherited
  <2> QED  BY <2>2, <2>3 DEF ReadClosure!IInv
<1> QED  BY <1>4, <1>5

LEMMA ClosedStays ==
  ASSUME program' = program, pkg' = pkg
  PROVE  /\ WriteClosure!Closed(paramWrites) /\ paramWrites' = paramWrites =>
              WriteClosure!Closed(paramWrites)'
         /\ ReadClosure!Closed(paramReads) /\ paramReads' = paramReads =>
              ReadClosure!Closed(paramReads)'
<1>1. OfLocal(ParamEdges)' = OfLocal(ParamEdges)
  BY PackageStays
<1> QED
  BY <1>1 DEF WriteClosure!Closed, WriteClosure!Inherited, ReadClosure!Closed, ReadClosure!Inherited

LEMMA ClosedInvStep == FieldInv /\ [Next]_vars => ClosedInv'
<1> SUFFICES ASSUME FieldInv, [Next]_vars
             PROVE  ClosedInv'
  OBVIOUS
<1>1. /\ RunInv /\ RunInv' /\ ClosedInv /\ program' = program
      /\ paramReads' = [f \in Function |-> paramReads'[f]]
      /\ paramWrites' = [f \in Function |-> paramWrites'[f]]
  BY RunInvStep, FactsChange DEF FieldInv, RunInv
<1>2. CASE phase' \in {"collect", "import", "done"}
  BY <1>2 DEF ClosedInv, Imported
<1>3. CASE Import
  <2>1. /\ pkg' = pkg /\ phase' = "writes" /\ work' = Writes!Forwarding
    BY <1>3 DEF Import
  <2>2. (Writes!Forwarding)' = Writes!Forwarding
    BY <1>1, <2>1, PackageStays DEF Writes!Forwarding
  <2> QED  BY <1>1, <2>1, <2>2, ClosureStarts DEF ClosedInv, Imported
<1>4. CASE CloseWrites
  <2>1. phase = "writes" /\ pkg' = pkg /\ WriteClosure!IInv /\ paramReads' = paramReads
    BY <1>1, <1>4 DEF CloseWrites, ClosedInv
  <2>2. CASE Writes!Step /\ UNCHANGED phase
    BY <1>1, <2>1, <2>2, WritesStep DEF ClosedInv, Imported
  <2>3. CASE work = {} /\ work' = Reads!Forwarding /\ phase' = "reads" /\ UNCHANGED paramWrites
    <3>1. WriteClosure!Closed(paramWrites)
      BY <2>1, <2>3 DEF WriteClosure!IInv, WriteClosure!Settled, WriteClosure!Closed
    <3>2. WriteClosure!Closed(paramWrites)'
      BY <1>1, <2>1, <2>3, <3>1, ClosedStays
    <3>3. (Reads!Forwarding)' = Reads!Forwarding
      BY <1>1, <2>1, PackageStays DEF Reads!Forwarding
    <3>4. ReadClosure!IInv'
      BY <1>1, <2>1, <2>3, <3>3, ClosureStarts
    <3> QED  BY <2>3, <3>2, <3>4 DEF ClosedInv, Imported
  <2> QED  BY <1>4, <2>2, <2>3 DEF CloseWrites
<1>5. CASE CloseReads
  <2>1. /\ phase = "reads" /\ pkg' = pkg /\ ReadClosure!IInv /\ paramWrites' = paramWrites
        /\ WriteClosure!Closed(paramWrites)
    BY <1>1, <1>5 DEF CloseReads, ClosedInv, Imported
  <2>2. WriteClosure!Closed(paramWrites)'
    BY <1>1, <2>1, ClosedStays
  <2>3. CASE Reads!Step /\ UNCHANGED phase
    BY <1>1, <2>1, <2>2, <2>3, ReadsStep DEF ClosedInv, Imported
  <2>4. CASE work = {} /\ phase' = "effects" /\ UNCHANGED paramReads
    <3>1. ReadClosure!Closed(paramReads)
      BY <2>1, <2>4 DEF ReadClosure!IInv, ReadClosure!Settled, ReadClosure!Closed
    <3>2. ReadClosure!Closed(paramReads)'
      BY <1>1, <2>1, <2>4, <3>1, ClosedStays
    <3> QED  BY <2>2, <2>4, <3>2 DEF ClosedInv, Imported
  <2> QED  BY <1>5, <2>3, <2>4 DEF CloseReads
<1>6. ASSUME phase \in {"effects", "sources", "drop"}, phase' \in {"effects", "sources", "drop", "export"},
             pkg' = pkg, paramReads' = paramReads, paramWrites' = paramWrites
      PROVE  ClosedInv'
  <2>1. WriteClosure!Closed(paramWrites) /\ ReadClosure!Closed(paramReads)
    BY <1>1, <1>6 DEF ClosedInv, Imported
  <2>2. (WriteClosure!Closed(paramWrites))' /\ (ReadClosure!Closed(paramReads))'
    BY <1>1, <1>6, <2>1, ClosedStays
  <2> QED  BY <1>6, <2>2 DEF ClosedInv, Imported
<1>7. CASE CloseEffects \/ CloseSources \/ DropMixed
  BY <1>6, <1>7 DEF CloseEffects, CloseSources, DropMixed
<1>8. CASE OutOfScope \/ Collect \/ Export \/ NextPackage
  BY <1>2, <1>8 DEF OutOfScope, Collect, Export, NextPackage
<1>9. CASE UNCHANGED vars
  BY <1>1, <1>9, PackageStays
  DEF vars, summary, ClosedInv, WriteClosure!IInv, WriteClosure!TypeOK, WriteClosure!Settled,
      WriteClosure!Closed, WriteClosure!Inherited, ReadClosure!IInv, ReadClosure!TypeOK,
      ReadClosure!Settled, ReadClosure!Closed, ReadClosure!Inherited
<1> QED
  BY <1>3, <1>4, <1>5, <1>7, <1>8, <1>9 DEF Next

LEMMA WholeProgramStep == FieldInv /\ [Next]_vars => WholeProgram'
<1> SUFFICES ASSUME FieldInv, [Next]_vars
             PROVE  WholeProgram'
  OBVIOUS
<1>1. /\ program' = program /\ WholeReads' = WholeReads /\ WholeWrites' = WholeWrites
  BY FactsChange, ProgramStays
<1>2. CASE Export
  <2>1. /\ phase = "export" /\ pkg' = pkg /\ Local' = Local
        /\ summaries' = Append(summaries, [reads |-> paramReads, writes |-> paramWrites,
                                           effects |-> returnEffects, sources |-> returnParamSources])
    BY <1>1, <1>2, PackageStays DEF Export
  <2>2. ASequence(summaries) /\ Len(summaries) = pkg - 1 /\ pkg \in Nat
    BY <2>1, OrderIsSequence DEF FieldInv, RunInv
  <2>3. summaries'[pkg].reads = paramReads /\ summaries'[pkg].writes = paramWrites
    BY <2>1, <2>2, AppendedTo
  <2>4. \A f \in Local : paramReads[f] = WholeReads[f] /\ paramWrites[f] = WholeWrites[f]
    BY <2>1, LocalIsWhole
  <2> QED  BY <1>1, <2>1, <2>3, <2>4 DEF WholeProgram, Summary
<1>3. CASE OutOfScope
  <2>1. Package' \notin program'.scope
    BY <1>3 DEF OutOfScope, Package
  <2> QED  BY <2>1 DEF WholeProgram
<1>4. CASE UNCHANGED vars
  <2>1. pkg' = pkg /\ phase' = phase /\ summaries' = summaries
    BY <1>4 DEF vars
  <2>2. Local' = Local /\ Package' = Package
    BY <1>1, <2>1, PackageStays
  <2> QED  BY <1>1, <2>1, <2>2 DEF FieldInv, WholeProgram, Done, Summary
<1>5. CASE \/ Collect \/ Import \/ CloseWrites \/ CloseReads \/ CloseEffects
           \/ CloseSources \/ DropMixed \/ NextPackage
  <2>1. phase' # "done"
    BY <1>5
    DEF Collect, Import, CloseWrites, CloseReads, CloseEffects, CloseSources, DropMixed, NextPackage
  <2> QED  BY <2>1 DEF WholeProgram, Done
<1> QED  BY <1>2, <1>3, <1>4, <1>5 DEF Next

LEMMA FieldInvInit == Init /\ DepthSuffices => FieldInv
<1> SUFFICES ASSUME Init, DepthSuffices
             PROVE  FieldInv
  OBVIOUS
<1>1. program \in Program /\ 1 \in DOMAIN program.order
  <2>1. program.order \in Seq({program.func[f].pkg : f \in Function}) \ {<<>>}
    BY ProgramAssumption DEF Init
  <2> QED  BY <2>1 DEF Init
<1>2. <<>> \in Seq(Range(<<>>)) /\ Len(<<>>) = 0
  OBVIOUS
<1>3. RunInv
  BY <1>1, <1>2 DEF Init, RunInv, Nothing, ASequence
<1>4. FactsInv /\ CollectedInv /\ ClosedInv /\ WholeProgram
  BY DEF Init, FactsInv, CollectedInv, ClosedInv, WholeProgram, Done, Imported
<1> QED  BY <1>3, <1>4 DEF FieldInv

LEMMA FieldInvStep == FieldInv /\ [Next]_vars => FieldInv'
<1> SUFFICES ASSUME FieldInv, [Next]_vars
             PROVE  FieldInv'
  OBVIOUS
<1>1. RunInv' /\ FactsInv' /\ CollectedInv' /\ ClosedInv' /\ WholeProgram'
  BY RunInvStep, FactsInvStep, CollectedInvStep, ClosedInvStep, WholeProgramStep DEF FieldInv
<1>2. DepthSuffices'
  BY FactsChange, ProgramStays DEF FieldInv
<1> QED  BY <1>1, <1>2 DEF FieldInv

\* Analyzer.run over the packages, with facts of exported functions only: when the
\* reference follows calls deep enough, the summaries of parameter reads and writes
\* are those of the whole program, for every program, every order of the worklists,
\* and whatever packages are out of scope.
THEOREM SummariesAreWhole == Spec /\ DepthSuffices => []WholeProgram
<1>1. FieldInv => WholeProgram
  BY DEF FieldInv
<1> QED  BY <1>1, FieldInvInit, FieldInvStep, PTL DEF Spec

-----------------------------------------------------------------------------
(****************************************************************************)
(* Prefixes of field paths.                                                 *)
(****************************************************************************)

LEMMA PrefixKnown ==
  ASSUME NEW S, NEW path \in Seq(S) \ {<<>>}
  PROVE  /\ path \in Prefixes(path)
         /\ \A p \in Prefixes(path) :
              /\ Len(p) \in 0..Len(path)
              /\ Len(p) = 0 => p = <<>>
              /\ Len(p) = Len(path) => p = path
              /\ p # path /\ p # <<>> => p \in Above(path)
         /\ \A p \in Above(path) : p \in Prefixes(path) /\ p # <<>> /\ p # path
<1> DEFINE Upto(n) == SubSeq(path, 1, n)
<1>1. /\ Len(path) \in Nat \ {0} /\ Upto(Len(path)) = path /\ Upto(0) = <<>>
      /\ \A n \in 0..Len(path) : Len(Upto(n)) = n
  OBVIOUS
<1>2. Len(<<>>) = 0
  OBVIOUS
<1>3. Len(Front(path)) = Len(path) - 1 /\ \A n \in 0..(Len(path) - 1) : SubSeq(Front(path), 1, n) = Upto(n)
  <2>1. Front(path) = Upto(Len(path) - 1)
    BY DEF Front
  <2>2. Len(Front(path)) = Len(path) - 1
    BY <1>1, <2>1
  <2>3. ASSUME NEW n \in 0..(Len(path) - 1)
        PROVE  SubSeq(Front(path), 1, n) = Upto(n)
    BY <1>1, <2>1, <2>2
  <2> QED  BY <2>2, <2>3
<1>4. Prefixes(path) = {Upto(n) : n \in 0..Len(path)}
  BY DEF Prefixes
<1>5. Above(path) = {Upto(n) : n \in 0..(Len(path) - 1)} \ {<<>>}
  BY <1>3 DEF Prefixes, Above, Root
<1> HIDE DEF Upto
<1>6. ASSUME NEW p \in Prefixes(path)
      PROVE  /\ Len(p) \in 0..Len(path)
             /\ Len(p) = 0 => p = <<>>
             /\ Len(p) = Len(path) => p = path
             /\ p # path /\ p # <<>> => p \in Above(path)
  BY <1>1, <1>4, <1>5
<1>7. ASSUME NEW p \in Above(path)
      PROVE  p \in Prefixes(path) /\ p # <<>> /\ p # path
  BY <1>1, <1>4, <1>5
<1>8. path \in Prefixes(path)
  BY <1>1, <1>4
<1> QED  BY <1>6, <1>7, <1>8

\* Some prefixes of a path have a longest one.
LEMMA Longest ==
  ASSUME NEW S, NEW path \in Seq(S) \ {<<>>}, NEW P \in SUBSET Prefixes(path), P # {}
  PROVE  \E p \in P : \A r \in P : Len(r) <= Len(p)
<1> DEFINE T == {Len(path) - Len(p) : p \in P}
<1>1. Len(path) \in Nat /\ \A p \in P : Len(p) \in 0..Len(path)
  BY PrefixKnown
<1>2. T \in SUBSET Nat /\ T # {}
  BY <1>1
<1>3. \E m \in T : \A n \in T : m <= n
  <2> HIDE DEF T
  <2> QED  BY <1>2, Smallest
<1>4. PICK p \in P : \A r \in P : Len(path) - Len(p) <= Len(path) - Len(r)
  BY <1>3
<1> QED  BY <1>1, <1>4

-----------------------------------------------------------------------------
(****************************************************************************)
(* Nil fields of results.                                                   *)
(****************************************************************************)

\* A field that collectStructInit leaves nil is nil in the struct that is built: all
\* literals on the way are given, and all structs that are not are values.
LEMMA NilFieldIsNil ==
  ASSUME NEW f, NEW alloc, Root \notin DOMAIN alloc.init, NEW path \in NilFields(f, alloc)
  PROVE  path \in Shape /\ Allocated(f, alloc, path) = Nil
<1> DEFINE inits == {p \in Prefixes(path) : p \in DOMAIN alloc.init}
           last == IF inits = {} THEN Root
                   ELSE CHOOSE p \in inits : \A r \in inits : Len(r) <= Len(p)
           omitted == {p \in Prefixes(path) : Len(p) > Len(last) /\ FieldAt(alloc.type, p).nilable}
           S == UNION {DOMAIN Fields[type] : type \in DOMAIN Fields}
<1>1. /\ path \in Path /\ path \in Seq(S) \ {<<>>}
      /\ FieldAt(alloc.type, path).nilable
      /\ path \in DOMAIN alloc.init => alloc.init[path].kind = "nil"
      /\ \A p \in Above(path) : p \in DOMAIN alloc.init => alloc.init[p].kind = "alloc"
      /\ \A p \in Above(path) : p \notin DOMAIN alloc.init => ~FieldAt(alloc.type, p).nilable
  BY PathAssumption DEF NilFields, Enumerated
<1>2. /\ path \in Prefixes(path) /\ Len(path) \in Nat \ {0}
      /\ \A p \in Prefixes(path) :
           /\ Len(p) \in 0..Len(path)
           /\ Len(p) = 0 => p = Root
           /\ Len(p) = Len(path) => p = path
           /\ p # path /\ p # Root => p \in Above(path)
  <2> HIDE DEF S
  <2>1. Len(path) \in Nat \ {0}
    BY <1>1
  <2> QED  BY <1>1, <2>1, PrefixKnown DEF Root
<1>3. inits # {} => last \in inits /\ \A r \in inits : Len(r) <= Len(last)
  <2>1. inits \subseteq Prefixes(path)
    OBVIOUS
  <2> HIDE DEF inits, S
  <2>2. inits # {} => \E p \in inits : \A r \in inits : Len(r) <= Len(p)
    BY <1>1, <2>1, Longest
  <2> QED  BY <2>2
<1>4. Allocated(f, alloc, path) =
        IF inits # {} /\ alloc.init[last].kind # "alloc"
          THEN Simple(f, alloc.init[last], After(last, path))
        ELSE IF omitted = {} THEN New ELSE IF omitted = {path} THEN Nil ELSE Other
  BY DEF Allocated
<1>5. inits = {} => last = Root
  OBVIOUS
<1>6. inits = {p \in Prefixes(path) : p \in DOMAIN alloc.init}
  OBVIOUS
<1>7. omitted = {p \in Prefixes(path) : Len(p) > Len(last) /\ FieldAt(alloc.type, p).nilable}
  OBVIOUS
<1> HIDE DEF inits, last, omitted, S
<1>8. CASE path \in DOMAIN alloc.init
  <2>1. path \in inits
    BY <1>2, <1>6, <1>8
  <2>2. last = path
    BY <1>2, <1>3, <1>6, <2>1
  <2>3. After(path, path) = Root
    BY <1>1 DEF After, Root
  <2>4. Simple(f, alloc.init[path], Root) = Nil
    BY <1>1, <1>8 DEF Simple
  <2> QED  BY <1>1, <1>4, <1>8, <2>1, <2>2, <2>3, <2>4 DEF Shape
<1>9. CASE path \notin DOMAIN alloc.init
  <2>1. inits # {} => last \in Above(path) /\ alloc.init[last].kind = "alloc"
    BY <1>1, <1>2, <1>3, <1>6, <1>9
  <2>2. Len(last) \in Nat /\ Len(last) < Len(path)
    <3>1. CASE inits = {}
      <4>1. Len(Root) = 0
        BY DEF Root
      <4> QED  BY <1>2, <1>5, <3>1, <4>1
    <3>2. CASE inits # {}
      BY <1>2, <1>3, <1>6, <1>9, <3>2
    <3> QED  BY <3>1, <3>2
  <2>3. path \in omitted
    BY <1>1, <1>2, <1>7, <2>2
  <2>4. ASSUME NEW p \in omitted, p # path PROVE FALSE
    <3>1. p \in Prefixes(path) /\ Len(p) > Len(last) /\ FieldAt(alloc.type, p).nilable
      BY <1>7, <2>4
    <3>2. p # Root
      <4>1. Len(Root) = 0
        BY DEF Root
      <4> QED  BY <2>2, <3>1, <4>1
    <3>3. p \in Above(path)
      BY <1>2, <2>4, <3>1, <3>2
    <3>4. p \notin inits
      BY <1>2, <1>3, <2>2, <3>1
    <3> QED  BY <1>1, <1>6, <3>1, <3>3, <3>4
  <2>5. omitted = {path}
    BY <2>3, <2>4
  <2> QED  BY <1>1, <1>4, <2>1, <2>5 DEF Shape
<1> QED  BY <1>8, <1>9

\* The results that an expression stands for, its callees having those given.
Meant(f, e, given) ==
  CASE e.kind = "alloc" -> {All(LAMBDA path : Allocated(f, e, path))}
    [] e.kind = "call" -> {Substitute(f, e, result) : result \in given[e.callee]}
    [] OTHER -> {All(LAMBDA path : Simple(f, e, path))}

\* What is returned directly, or by way of a local that nothing else touches, is a
\* result.
LEMMA ReturnedIsResult ==
  ASSUME NEW f, NEW s \in Sites(f), NEW given
  PROVE  /\ s.value.kind # "chain" => Meant(f, s.value, given) \subseteq ResultsGiven(f, given)
         /\ s.value.kind = "chain" /\ s.value.path = Root /\ StableLocal(f, s.value.base) =>
              \A e \in BoundTo(f, s.value.base) : \A value \in Meant(f, e, given) :
                \E result \in ResultsGiven(f, given) : \A path \in Shape : result[path] = value[path]
<1> DEFINE local(e) == e.kind = "chain" /\ e.path = Root /\ BoundTo(f, e.base) # {}
           values == {t.value : t \in {t \in Statements(f) : t.do = "return" /\ ~ReturnsErr(f, t)}}
           direct == {Meant(f, e, given) : e \in {e \in values : ~local(e)}}
           bound == {{Overwritten(f, e.base, value) :
                        value \in UNION {Meant(f, b, given) : b \in BoundTo(f, e.base)}} :
                       e \in {e \in values : local(e)}}
<1>1. ResultsGiven(f, given) = UNION (direct \cup bound)
  BY DEF ResultsGiven, Meant
<1>2. s.value \in values
  BY DEF Sites, Returns, Statements, Range
<1>3. ASSUME s.value.kind # "chain"
      PROVE  Meant(f, s.value, given) \subseteq ResultsGiven(f, given)
  BY <1>1, <1>2, <1>3
<1>4. ASSUME s.value.kind = "chain", s.value.path = Root, StableLocal(f, s.value.base),
             NEW e \in BoundTo(f, s.value.base), NEW value \in Meant(f, e, given)
      PROVE  \E result \in ResultsGiven(f, given) : \A path \in Shape : result[path] = value[path]
  <2>1. Overwritten(f, s.value.base, value) \in ResultsGiven(f, given)
    <3>1. s.value \in {v \in values : local(v)}
      <4>1. local(s.value)
        BY <1>4
      <4> HIDE DEF values
      <4> QED  BY <1>2, <4>1
    <3>2. value \in UNION {Meant(f, b, given) : b \in BoundTo(f, s.value.base)}
      BY <1>4
    <3> DEFINE mine == {Overwritten(f, s.value.base, v) :
                          v \in UNION {Meant(f, b, given) : b \in BoundTo(f, s.value.base)}}
    <3> HIDE DEF values, local, direct
    <3>3. mine \in bound
      BY <3>1, Zenon
    <3>4. Overwritten(f, s.value.base, value) \in mine
      BY <3>2, Zenon
    <3> HIDE DEF bound, mine
    <3> QED  BY <1>1, <3>3, <3>4, Zenon
  <2>2. {t \in Statements(f) : t.do \in {"write", "assign"} /\ t.to.base = s.value.base} = {}
    BY <1>4 DEF StableLocal
  <2>3. \A path \in Shape : Overwritten(f, s.value.base, value)[path] = value[path]
    BY <2>2 DEF Overwritten, All
  <2> QED  BY <2>1, <2>3
<1> QED  BY <1>3, <1>4

\* A nil field of a struct that a function builds is one of its results.
LEMMA BuiltNilFields ==
  ASSUME program \in Program, NEW f \in Function, NEW given,
         NEW alloc \in Constructions(f), NEW path \in NilFields(f, alloc)
  PROVE  path \in NilIn(ResultsGiven(f, given))
<1> DEFINE built == All(LAMBDA p : Allocated(f, alloc, p))
<1>1. PICK s \in Sites(f) : alloc \in AllocationsAt(f, s)
  BY DEF Constructions
<1>2. /\ alloc.kind = "alloc" /\ \E t \in Range(program.func[f].body) : t.value = alloc
      /\ \/ s.value.kind # "chain" /\ alloc = s.value
         \/ /\ s.value.kind = "chain" /\ s.value.path = Root /\ StableLocal(f, s.value.base)
            /\ alloc \in BoundTo(f, s.value.base)
  <2>1. CASE s.value.kind = "alloc"
    BY <1>1, <2>1 DEF AllocationsAt, Sites, Returns, Of, Range
  <2>2. CASE s.value.kind # "alloc"
    BY <1>1, <2>2 DEF AllocationsAt, BoundTo, Statements, Of
  <2> QED  BY <2>1, <2>2
<1>3. Root \notin DOMAIN alloc.init
  BY <1>2, BodyKnown
<1>4. path \in Shape /\ Allocated(f, alloc, path) = Nil
  BY <1>3, NilFieldIsNil
<1>5. built \in Meant(f, alloc, given) /\ built[path] = Nil
  BY <1>2, <1>4 DEF Meant, All
<1> HIDE DEF built
<1>6. \E result \in ResultsGiven(f, given) : result[path] = Nil
  BY <1>2, <1>4, <1>5, ReturnedIsResult
<1> QED  BY <1>4, <1>6 DEF NilIn

\* A nil field of what a function returns of another one is one of its results.
LEMMA ReturnedNilFields ==
  ASSUME NEW f, NEW given, NEW edge \in ReturnEdges(f), NEW path \in NilIn(given[edge.callee])
  PROVE  path \in NilIn(ResultsGiven(f, given))
<1>1. PICK call :
        /\ call.kind = "call" /\ call.callee = edge.callee
        /\ \E s \in Sites(f) :
             \/ s.value.kind # "chain" /\ call = s.value
             \/ /\ s.value.kind = "chain" /\ s.value.path = Root /\ StableLocal(f, s.value.base)
                /\ call \in BoundTo(f, s.value.base)
  BY DEF ReturnEdges
<1>2. PICK result \in given[call.callee] : path \in Shape /\ result[path] = Nil
  BY <1>1 DEF NilIn
<1>3. Substitute(f, call, result) \in Meant(f, call, given)
  BY <1>1, <1>2 DEF Meant
<1>4. Substitute(f, call, result)[path] = Nil
  BY <1>2 DEF Substitute, All, Nil
<1>5. \E r \in ResultsGiven(f, given) : r[path] = Nil
  BY <1>1, <1>2, <1>3, <1>4, ReturnedIsResult
<1> QED  BY <1>2, <1>5 DEF NilIn

-----------------------------------------------------------------------------
(****************************************************************************)
(* The nil fields of results.                                               *)
(****************************************************************************)

\* What is said to be nil in a result, by the summary, a fact or a package's summary,
\* is nil in one.
EffectInv ==
  /\ RunInv /\ NilDepthSuffices
  /\ returnEffects = [f \in Function |-> returnEffects[f]]
  /\ \A f \in Function : returnEffects[f] \subseteq NilIn(ActualResults[f])
  /\ \A n \in 1..Len(facts) : \A f \in DOMAIN facts[n] \cap Function :
       facts[n][f].effects \subseteq NilIn(ActualResults[f])
  /\ EffectsReal

LEMMA ResultsStay ==
  ASSUME program' = program
  PROVE  ActualResults' = ActualResults /\ NilDepthSuffices' = NilDepthSuffices
<1>1. ActualResults' = ActualResults
  BY DEF ActualResults, ResultsAt, ResultsGiven, All, Simple, Allocated, Substitute, Overwritten,
         BoundTo, Statements, ReturnsErr, Spreads, Of, IsParam
<1>2. ASSUME NEW f
      PROVE  ResultsGiven(f, ActualResults)' = ResultsGiven(f, ActualResults)
  BY <1>1 DEF ResultsGiven, All, Simple, Allocated, Substitute, Overwritten,
              BoundTo, Statements, ReturnsErr, Spreads, Of, IsParam
<1> QED  BY <1>1, <1>2 DEF NilDepthSuffices, NilIn

\* What a function returns of another one is that of a known function.
LEMMA ReturnedKnown ==
  ASSUME program \in Program, NEW f \in Function, NEW edge \in ReturnEdges(f)
  PROVE  edge.callee \in Function
<1>1. PICK call : call.kind = "call" /\ call.callee = edge.callee /\ call \in {s.value : s \in Statements(f)}
  BY DEF ReturnEdges, Sites, Returns, BoundTo, Statements, Range
<1>2. PICK s \in Range(program.func[f].body) : s.value = call
  BY <1>1 DEF Statements, Of
<1> QED  BY <1>1, <1>2, BodyKnown

\* What the bodies say of nil fields is so.
LEMMA CollectIsReal ==
  ASSUME EffectInv, Collect, NEW f \in Function
  PROVE  returnEffects'[f] \subseteq NilIn(ActualResults[f])
<1>1. returnEffects'[f] = IF f \in Local THEN UNION {NilFields(f, alloc) : alloc \in Constructions(f)} ELSE {}
  BY DEF Collect, OfLocal
<1>2. ASSUME NEW alloc \in Constructions(f), NEW path \in NilFields(f, alloc)
      PROVE  path \in NilIn(ActualResults[f])
  BY <1>2, BuiltNilFields DEF EffectInv, RunInv, NilDepthSuffices
<1> QED  BY <1>1, <1>2

\* What the facts say of nil fields is so.
LEMMA ImportIsReal ==
  ASSUME EffectInv, Import, NEW f \in Function
  PROVE  returnEffects'[f] \subseteq NilIn(ActualResults[f])
<1> DEFINE known == f \in Called \ Local /\ \E n \in DOMAIN facts : f \in DOMAIN facts[n]
           fact == IF known THEN facts[CHOOSE n \in DOMAIN facts : f \in DOMAIN facts[n]][f]
                   ELSE [reads |-> {}, writes |-> {}, effects |-> {}, sources |-> {}]
<1>1. returnEffects'[f] = returnEffects[f] \cup fact.effects
  BY DEF Import
<1>2. fact.effects \subseteq NilIn(ActualResults[f])
  <2>1. CASE known
    <3>1. PICK n \in DOMAIN facts : f \in DOMAIN facts[n] /\ fact = facts[n][f]
      BY <2>1
    <3>2. n \in 1..Len(facts)
      BY DEF EffectInv, RunInv, ASequence
    <3> QED  BY <3>1, <3>2 DEF EffectInv
  <2>2. CASE ~known
    BY <2>2
  <2> QED  BY <2>1, <2>2
<1> QED  BY <1>1, <1>2 DEF EffectInv

\* What is inherited along returned calls is so.
LEMMA CloseIsReal ==
  ASSUME EffectInv, Results!Step
  PROVE  /\ returnEffects' = [f \in Function |-> returnEffects'[f]]
         /\ \A f \in Function : returnEffects'[f] \subseteq NilIn(ActualResults[f])
<1> DEFINE edgesOf(f) == OfLocal(ReturnEdges)[f]
<1>1. /\ program \in Program /\ NilDepthSuffices
      /\ returnEffects = [f \in Function |-> returnEffects[f]]
      /\ \A f \in Function : returnEffects[f] \subseteq NilIn(ActualResults[f])
  BY DEF EffectInv, RunInv
<1>2. PICK f \in work : \E early \in SUBSET Results!Early(f) : Results!Visit(f, early)
  BY DEF Results!Step
<1>3. PICK early \in SUBSET Results!Early(f) : Results!Visit(f, early)
  BY <1>2
<1>4. returnEffects' = [returnEffects EXCEPT ![f] = returnEffects[f] \cup Results!Inherited(f, returnEffects) \cup early]
  BY <1>3 DEF Results!Visit
<1>5. ASSUME f \in Function, NEW edge \in edgesOf(f), NEW path \in NilIn(ActualResults[edge.callee])
      PROVE  edge.callee \in Function /\ InheritResult(f, edge, path) \subseteq NilIn(ActualResults[f])
  <2>1. edge \in ReturnEdges(f)
    BY <1>5 DEF OfLocal
  <2>2. path \in NilIn(ResultsGiven(f, ActualResults))
    BY <2>1, ReturnedNilFields
  <2>3. path \in NilIn(ActualResults[f])
    BY <1>1, <1>5, <2>2 DEF NilDepthSuffices
  <2> QED  BY <1>1, <1>5, <2>1, <2>3, ReturnedKnown DEF InheritResult
<1>6. ASSUME f \in Function, NEW edge \in edgesOf(f)
      PROVE  edge.callee \in Function
  BY <1>1, <1>6, ReturnedKnown DEF OfLocal
<1> HIDE DEF edgesOf
<1>7. f \in Function => Results!Inherited(f, returnEffects) \subseteq NilIn(ActualResults[f])
  <2>1. Results!Inherited(f, returnEffects) =
          UNION {UNION {InheritResult(f, edge, effect) : effect \in returnEffects[edge.callee]} : edge \in edgesOf(f)}
    BY DEF Results!Inherited, edgesOf
  <2> QED  BY <1>1, <1>5, <1>6, <2>1
<1>8. f \in Function => early \subseteq NilIn(ActualResults[f])
  <2>1. Results!Early(f) =
          UNION {UNION {InheritResult(f, edge, effect) : effect \in Results!Inherited(f, returnEffects)} :
                   edge \in {e \in edgesOf(f) : e.callee = f}}
    BY DEF Results!Early, edgesOf
  <2>2. f \in Function => Results!Early(f) \subseteq NilIn(ActualResults[f])
    BY <1>5, <1>7, <2>1
  <2> QED  BY <1>3, <2>2
<1> QED  BY <1>1, <1>4, <1>7, <1>8

\* What the summary says of nil fields is so after every step.
LEMMA EffectsStep ==
  ASSUME EffectInv, [Next]_vars
  PROVE  /\ returnEffects' = [f \in Function |-> returnEffects'[f]]
         /\ \A f \in Function : returnEffects'[f] \subseteq NilIn(ActualResults[f])
<1>1. /\ returnEffects = [f \in Function |-> returnEffects[f]]
      /\ \A f \in Function : returnEffects[f] \subseteq NilIn(ActualResults[f])
  BY DEF EffectInv
<1>2. CASE Collect
  BY <1>2, CollectIsReal DEF Collect, OfLocal
<1>3. CASE Import
  BY <1>3, ImportIsReal DEF Import
<1>4. CASE Results!Step
  BY <1>4, CloseIsReal
<1>5. CASE DropMixed
  BY <1>1, <1>5 DEF DropMixed
<1>6. CASE NextPackage
  BY <1>6 DEF NextPackage, Nothing
<1>7. CASE returnEffects' = returnEffects
  BY <1>1, <1>7
<1>8. \/ Collect \/ Import \/ Results!Step \/ DropMixed \/ NextPackage
      \/ returnEffects' = returnEffects
  BY DEF Next, vars, summary, OutOfScope, CloseWrites, CloseReads, CloseEffects, CloseSources, Export
<1> QED  BY <1>2, <1>3, <1>4, <1>5, <1>6, <1>7, <1>8

LEMMA EffectInvStep == EffectInv /\ [Next]_vars => EffectInv'
<1> SUFFICES ASSUME EffectInv, [Next]_vars
             PROVE  EffectInv'
  OBVIOUS
<1>1. RunInv' /\ program' = program /\ ActualResults' = ActualResults /\ NilDepthSuffices'
  BY RunInvStep, FactsChange, ResultsStay DEF EffectInv
<1> DEFINE NilOf(f) == NilIn(ActualResults[f])
<1>2. ASSUME NEW f
      PROVE  NilOf(f)' = NilOf(f)
  BY <1>1 DEF NilIn
<1>3. (returnEffects = [f \in Function |-> returnEffects[f]]
       /\ \A f \in Function : returnEffects[f] \subseteq NilOf(f))'
  BY <1>2, EffectsStep
<1>4. (\A n \in 1..Len(facts) : \A f \in DOMAIN facts[n] \cap Function :
         facts[n][f].effects \subseteq NilOf(f))'
  <2>1. ASSUME NEW fact, facts' = Append(facts, fact),
               \A f \in DOMAIN fact \cap Function : fact[f].effects \subseteq NilOf(f)
        PROVE  \A n \in 1..Len(facts') : \A f \in DOMAIN facts'[n] \cap Function :
                 facts'[n][f].effects \subseteq NilOf(f)
    <3>1. /\ Len(facts) \in Nat /\ Len(facts') = Len(facts) + 1
          /\ facts'[Len(facts) + 1] = fact
          /\ \A n \in 1..Len(facts) : facts'[n] = facts[n]
      BY <2>1, AppendedTo DEF EffectInv, RunInv, ASequence
    <3>2. \A n \in 1..Len(facts') : n \in 1..Len(facts) \/ n = Len(facts) + 1
      BY <3>1
    <3> HIDE DEF NilOf
    <3>3. \A n \in 1..Len(facts) : \A f \in DOMAIN facts[n] \cap Function :
            facts[n][f].effects \subseteq NilOf(f)
      BY DEF EffectInv, NilOf
    <3> QED  BY <2>1, <3>1, <3>2, <3>3
  <2>2. CASE OutOfScope
    <3>1. facts' = Append(facts, <<>>)
      BY <2>2 DEF OutOfScope
    <3>2. DOMAIN <<>> = {}
      OBVIOUS
    <3> QED  BY <1>2, <2>1, <3>1, <3>2
  <2>3. CASE Export
    <3> DEFINE entry == [f \in {f \in Local : Of(f).exported} |->
                           [reads |-> paramReads[f], writes |-> paramWrites[f],
                            effects |-> returnEffects[f], sources |-> returnParamSources[f]]]
               told == {f \in DOMAIN entry : \E part \in DOMAIN entry[f] : entry[f][part] # {}}
               fact == [f \in told |-> entry[f]]
    <3>1. facts' = Append(facts, fact)
      BY <2>3 DEF Export
    <3>2. \A f \in DOMAIN fact : fact[f].effects = returnEffects[f]
      OBVIOUS
    <3>3. \A f \in Function : returnEffects[f] \subseteq NilOf(f)
      BY DEF EffectInv
    <3> HIDE DEF fact, NilOf
    <3> QED  BY <1>2, <2>1, <3>1, <3>2, <3>3
  <2>4. CASE UNCHANGED <<facts, summaries>>
    BY <1>2, <2>4 DEF EffectInv
  <2> QED  BY <2>2, <2>3, <2>4, FactsChange
<1>5. EffectsReal'
  <2>1. CASE OutOfScope
    <3>1. /\ pkg' = pkg /\ Local' = Local
          /\ \E x : x.effects = Nothing /\ summaries' = Append(summaries, x)
      BY <1>1, <2>1, PackageStays DEF OutOfScope
    <3>2. phase = "collect"
      BY <2>1 DEF OutOfScope
    <3>3. ASequence(summaries) /\ Len(summaries) = pkg - 1 /\ pkg \in Nat
      BY <3>2, OrderIsSequence DEF EffectInv, RunInv
    <3>4. summaries'[pkg].effects = Nothing
      BY <3>1, <3>3, AppendedTo
    <3> QED  BY <3>1, <3>4 DEF EffectsReal, Summary, Nothing, Local
  <2>2. CASE Export
    <3>1. /\ pkg' = pkg /\ Local' = Local
          /\ summaries' = Append(summaries, [reads |-> paramReads, writes |-> paramWrites,
                                             effects |-> returnEffects, sources |-> returnParamSources])
      BY <1>1, <2>2, PackageStays DEF Export
    <3>2. phase = "export"
      BY <2>2 DEF Export
    <3>3. ASequence(summaries) /\ Len(summaries) = pkg - 1 /\ pkg \in Nat
      BY <3>2, OrderIsSequence DEF EffectInv, RunInv
    <3>4. summaries'[pkg].effects = returnEffects
      BY <3>1, <3>3, AppendedTo
    <3>5. \A f \in Local : returnEffects[f] \subseteq NilOf(f)'
      BY <1>2 DEF EffectInv, Local
    <3> QED  BY <3>1, <3>4, <3>5 DEF EffectsReal, Summary
  <2>3. CASE UNCHANGED vars
    <3>1. pkg' = pkg /\ phase' = phase /\ summaries' = summaries /\ Local' = Local
      BY <1>1, <2>3, PackageStays DEF vars
    <3> QED  BY <1>2, <3>1 DEF EffectInv, EffectsReal, Done, Summary
  <2>4. CASE \/ Collect \/ Import \/ CloseWrites \/ CloseReads \/ CloseEffects
             \/ CloseSources \/ DropMixed \/ NextPackage
    <3>1. phase' # "done"
      BY <2>4
      DEF Collect, Import, CloseWrites, CloseReads, CloseEffects, CloseSources, DropMixed, NextPackage
    <3> QED  BY <3>1 DEF EffectsReal, Done
  <2> QED  BY <2>1, <2>2, <2>3, <2>4 DEF Next
<1> QED  BY <1>1, <1>3, <1>4, <1>5 DEF EffectInv

LEMMA EffectInvInit == Init /\ NilDepthSuffices => EffectInv
<1> SUFFICES ASSUME Init, NilDepthSuffices
             PROVE  EffectInv
  OBVIOUS
<1>1. program \in Program /\ 1 \in DOMAIN program.order
  <2>1. program.order \in Seq({program.func[f].pkg : f \in Function}) \ {<<>>}
    BY ProgramAssumption DEF Init
  <2> QED  BY <2>1 DEF Init
<1>2. <<>> \in Seq(Range(<<>>)) /\ Len(<<>>) = 0
  OBVIOUS
<1>3. RunInv
  BY <1>1, <1>2 DEF Init, RunInv, Nothing, ASequence
<1> QED  BY <1>2, <1>3 DEF Init, EffectInv, EffectsReal, Done, Nothing

\* collectReturnEffects, the facts, closeReturnEffects and the dropping of mixtures:
\* when the reference follows calls deep enough, a field that a summary says to be nil
\* in a result is nil in one that the function returns, whoever built it and through
\* however many functions and packages it came.
THEOREM EffectsAreReal == Spec /\ NilDepthSuffices => []EffectsReal
<1>1. EffectInv => EffectsReal
  BY DEF EffectInv
<1> QED  BY <1>1, EffectInvInit, EffectInvStep, PTL DEF Spec
-----------------------------------------------------------------------------
(****************************************************************************)
(* The results of functions.                                                *)
(****************************************************************************)

LEMMA ResultsAtUnfolds ==
  /\ ResultsAt[0] = [f \in Function |-> {}]
  /\ \A n \in 1..Depth : ResultsAt[n] = [f \in Function |-> ResultsGiven(f, ResultsAt[n - 1])]
<1> DEFINE Above_(below) == [f \in Function |-> ResultsGiven(f, below)]
           First == [f \in Function |-> {}]
           Value(g, k) == IF k = 0 THEN First ELSE Above_(g[k - 1])
           S == {n \in Nat : \E g : g = [k \in 0..n |-> Value(g, k)]}
<1>5. ResultsAt = CHOOSE g : g = [k \in 0..Depth |-> Value(g, k)]
  BY DEF ResultsAt
<1> HIDE DEF Above_, First
<1>1. 0 \in S
  <2>1. [k \in 0..0 |-> First] = [k \in 0..0 |-> Value([k_1 \in 0..0 |-> First], k)]
    OBVIOUS
  <2> QED  BY <2>1
<1>2. ASSUME NEW n \in Nat, n \in S
      PROVE  n + 1 \in S
  <2>1. PICK g : g = [k \in 0..n |-> Value(g, k)]
    BY <1>2
  <2> DEFINE h == [k \in 0..(n + 1) |-> IF k <= n THEN g[k] ELSE Above_(g[n])]
  <2>2. ASSUME NEW k \in 0..(n + 1)
        PROVE  h[k] = Value(h, k)
    <3>1. CASE k = 0
      BY <2>1, <3>1
    <3>2. CASE k \in 1..n
      <4>1. g[k] = Above_(g[k - 1])
        BY <2>1, <3>2
      <4>2. h[k] = g[k] /\ h[k - 1] = g[k - 1]
        BY <3>2
      <4> QED  BY <3>2, <4>1, <4>2
    <3>3. CASE k = n + 1
      <4>1. h[k] = Above_(g[n]) /\ h[k - 1] = g[n]
        BY <3>3
      <4> QED  BY <3>3, <4>1
    <3> QED  BY <3>1, <3>2, <3>3
  <2>3. h = [k \in 0..(n + 1) |-> Value(h, k)]
    <3>1. h = [k \in 0..(n + 1) |-> h[k]]
      OBVIOUS
    <3> HIDE DEF h, Value
    <3> QED  BY <2>2, <3>1
  <2> HIDE DEF h, Value
  <2> QED  BY <2>3
<1>3. Depth \in S
  <2> HIDE DEF S
  <2>1. \A n \in 1..Depth : n - 1 \in S => n \in S
    <3> TAKE n \in 1..Depth
    <3>1. n - 1 \in Nat /\ (n - 1) + 1 = n
      BY DepthAssumption
    <3> QED  BY <1>2, <3>1
  <2> QED  BY <1>1, <2>1, CountUp, DepthAssumption
<1>4. ResultsAt = [k \in 0..Depth |-> Value(ResultsAt, k)]
  <2>1. \E g : g = [k \in 0..Depth |-> Value(g, k)]
    BY <1>3
  <2> HIDE DEF Value
  <2> QED  BY <1>5, <2>1
<1>6. ResultsAt[0] = First /\ \A n \in 1..Depth : ResultsAt[n] = Above_(ResultsAt[n - 1])
  BY <1>4, DepthAssumption
<1> QED  BY <1>6 DEF Above_, First

\* What the type checker knows of a value.
LEMMA ValueKnown ==
  ASSUME program \in Program, NEW f \in Function, NEW s \in Statements(f)
  PROVE  /\ s.do = "bind" => ~IsParam(f, s.to.base)
         /\ s.value.kind = "chain" => s.value.path \in Seq(FieldName)
         /\ s.value.kind = "call" =>
              /\ s.value.callee \in Function
              /\ DOMAIN s.value.args = DOMAIN Of(s.value.callee).params
              /\ \A a \in DOMAIN s.value.args :
                   s.value.args[a].kind = "chain" => s.value.args[a].path \in Seq(FieldName)
         /\ s.value.kind = "alloc" =>
              /\ Root \notin DOMAIN s.value.init
              /\ \A path \in DOMAIN s.value.init :
                   /\ s.value.init[path].kind = "chain" => s.value.init[path].path \in Seq(FieldName)
                   /\ \A inner \in DOMAIN s.value.init :
                        path \in Above(inner) => s.value.init[path].kind = "alloc"
<1>1. s \in Range(program.func[f].body)
  BY DEF Statements, Of
<1> QED  BY <1>1, BodyAssumption, BodyKnown DEF Of, IsParam

LEMMA PathsKnown ==
  ASSUME NEW path \in Shape
  PROVE  /\ path \in Seq(FieldName)
         /\ Root \in Prefixes(path) /\ After(Root, path) = path
         /\ \A p \in Prefixes(path) : Len(p) \in 0..Len(path) /\ After(p, path) \in Seq(FieldName)
<1>1. path \in Seq(FieldName)
  <2>1. Path \subseteq Seq(FieldName) \ {<<>>}
    BY PathAssumption DEF FieldName
  <2>2. <<>> \in Seq(FieldName)
    OBVIOUS
  <2> QED  BY <2>1, <2>2 DEF Shape, Root
<1>2. Prefixes(path) = {SubSeq(path, 1, n) : n \in 0..Len(path)}
  BY DEF Prefixes
<1>3. /\ SubSeq(path, 1, 0) = <<>> /\ SubSeq(path, 1, Len(path)) = path
      /\ Len(path) \in Nat /\ Len(<<>>) = 0
      /\ \A n \in 0..Len(path) : Len(SubSeq(path, 1, n)) = n
  BY <1>1
<1>4. \A m \in 0..Len(path) : SubSeq(path, m + 1, Len(path)) \in Seq(FieldName)
  BY <1>1
<1>5. \A p \in Prefixes(path) : Len(p) \in 0..Len(path)
  BY <1>2, <1>3
<1> QED  BY <1>1, <1>2, <1>3, <1>4, <1>5 DEF After, Root

\* An expression that is a stable parameter or a field of one.
LEMMA SimpleIsArgument ==
  ASSUME NEW f, NEW e, NEW source \in ParamSource(f, e)
  PROVE  /\ e.kind = "chain" /\ IsParam(f, e.base)
         /\ source = [at |-> e.base, path |-> e.path]
         /\ \A path : Simple(f, e, path) = Arg(source.at, source.path \o path)
<1>1. /\ e.kind = "chain" /\ IsParam(f, e.base) /\ e.base \notin UnstableParams(f)
      /\ source = [at |-> e.base, path |-> e.path]
  BY DEF ParamSource
<1>2. \A s \in Statements(f) : s.do = "assign" => s.to.base # e.base
  BY <1>1 DEF UnstableParams
<1> QED  BY <1>1, <1>2 DEF Simple

\* The values of the returns that are no error.
Values(f) == {t.value : t \in {t \in Statements(f) : t.do = "return" /\ ~ReturnsErr(f, t)}}
IsLocal(f, e) == e.kind = "chain" /\ e.path = Root /\ BoundTo(f, e.base) # {}

LEMMA ResultsOfValues ==
  ASSUME NEW f, NEW given
  PROVE  /\ \A e \in Values(f) : ~IsLocal(f, e) => Meant(f, e, given) \subseteq ResultsGiven(f, given)
         /\ (\A e \in Values(f) : ~IsLocal(f, e)) =>
              \A r \in ResultsGiven(f, given) : \E e \in Values(f) : r \in Meant(f, e, given)
<1> DEFINE direct == {Meant(f, e, given) : e \in {e \in Values(f) : ~IsLocal(f, e)}}
           boundTo(e) == {Overwritten(f, e.base, value) :
                            value \in UNION {Meant(f, b, given) : b \in BoundTo(f, e.base)}}
           bound == {boundTo(e) : e \in {e \in Values(f) : IsLocal(f, e)}}
<1>1. ResultsGiven(f, given) = UNION (direct \cup bound)
  BY DEF ResultsGiven, Meant, Values, IsLocal
<1> HIDE DEF boundTo
<1>2. ASSUME NEW e \in Values(f), ~IsLocal(f, e)
      PROVE  Meant(f, e, given) \subseteq ResultsGiven(f, given)
  BY <1>1, <1>2
<1>3. ASSUME \A e \in Values(f) : ~IsLocal(f, e), NEW r \in ResultsGiven(f, given)
      PROVE  \E e \in Values(f) : r \in Meant(f, e, given)
  BY <1>1, <1>3
<1> QED  BY <1>2, <1>3

\* A parameter is no local.
LEMMA ParamIsNotLocal ==
  ASSUME program \in Program, NEW f \in Function, NEW e, ParamSource(f, e) # {}
  PROVE  ~IsLocal(f, e)
<1>1. IsParam(f, e.base)
  BY SimpleIsArgument
<1>2. \A s \in Statements(f) : s.do = "bind" => s.to.base # e.base
  BY <1>1, ValueKnown
<1> QED  BY <1>2 DEF IsLocal, BoundTo

\* What a return gives of a parameter is the result of the function there.
LEMMA ReturnedParam ==
  ASSUME program \in Program, NEW f \in Function, NEW e \in Values(f), NEW given,
         NEW source \in ParamSource(f, e)
  PROVE  /\ \E r \in ResultsGiven(f, given) :
              \A path \in Shape : r[path] = Arg(source.at, source.path \o path)
         /\ \A r \in Meant(f, e, given) :
              \A path \in Shape : r[path] = Arg(source.at, source.path \o path)
<1> DEFINE r0 == All(LAMBDA path : Simple(f, e, path))
<1>1. e.kind = "chain" /\ \A path : Simple(f, e, path) = Arg(source.at, source.path \o path)
  BY SimpleIsArgument
<1>2. Meant(f, e, given) = {r0}
  BY <1>1 DEF Meant
<1>3. \A path \in Shape : r0[path] = Simple(f, e, path)
  BY DEF All
<1> HIDE DEF r0
<1>4. r0 \in ResultsGiven(f, given)
  BY <1>2, ParamIsNotLocal, ResultsOfValues
<1> QED  BY <1>1, <1>2, <1>3, <1>4

\* Of two prefixes of a path one is above the other.
LEMMA PrefixesInLine ==
  ASSUME NEW S, NEW path \in Seq(S), NEW p \in Prefixes(path), NEW q \in Prefixes(path)
  PROVE  /\ Len(p) \in Nat /\ Len(q) \in Nat
         /\ Len(p) = Len(q) => p = q
         /\ Len(p) < Len(q) /\ p # <<>> => p \in Above(q)
<1> DEFINE Upto(n) == SubSeq(path, 1, n)
<1>1. PICK m \in 0..Len(path) : p = Upto(m)
  BY DEF Prefixes
<1>2. PICK n \in 0..Len(path) : q = Upto(n)
  BY DEF Prefixes
<1>3. \A k \in 0..Len(path) : Upto(k) \in Seq(S) /\ Len(Upto(k)) = k
  OBVIOUS
<1>4. Len(p) = m /\ Len(q) = n /\ q \in Seq(S)
  BY <1>1, <1>2, <1>3
<1>5. ASSUME m < n, p # <<>>
      PROVE  p \in Above(q)
  <2>1. SubSeq(q, 1, m) = p
    BY <1>1, <1>2, <1>5
  <2>2. p \in Prefixes(q)
    BY <1>4, <1>5, <2>1 DEF Prefixes
  <2>3. q # <<>>
    <3>1. Len(<<>>) = 0
      OBVIOUS
    <3> QED  BY <1>4, <1>5, <3>1
  <2>4. p # q
    BY <1>4, <1>5
  <2> QED  BY <1>4, <1>5, <2>2, <2>3, <2>4, PrefixKnown
<1> QED  BY <1>1, <1>2, <1>4, <1>5

-----------------------------------------------------------------------------
(****************************************************************************)
(* What a source says.                                                      *)
(****************************************************************************)

\* What a source says is so of a result, of one of some results, and of one of those
\* of a function, however many calls are followed.
Means(source, result) ==
  \A path \in Shape : source.result \in Prefixes(path) =>
    result[path] = Arg(source.param.at, source.param.path \o After(source.result, path))
RealIn(results, source) == results # {} => \E result \in results : Means(source, result)
Typed(f, source) == source.param.at \in DOMAIN Of(f).params /\ source.param.path \in Seq(FieldName)
Real(f, source) == Typed(f, source) /\ \A n \in 0..Depth : RealIn(ResultsAt[n][f], source)

\* What is so whatever the callees do is so.
LEMMA RealWhatever ==
  ASSUME NEW f \in Function, NEW source, Typed(f, source),
         \A given : RealIn(ResultsGiven(f, given), source)
  PROVE  Real(f, source)
<1>1. RealIn(ResultsAt[0][f], source)
  BY ResultsAtUnfolds DEF RealIn
<1>2. \A n \in 1..Depth : ResultsAt[n][f] = ResultsGiven(f, ResultsAt[n - 1])
  BY ResultsAtUnfolds
<1>3. \A n \in 0..Depth : n = 0 \/ n \in 1..Depth
  BY DepthAssumption
<1> QED  BY <1>1, <1>2, <1>3 DEF Real

\* An argument that is stored in a field, in a struct literal or one within it, is
\* there, and so is what it has in its fields.
LEMMA FieldSourceIsReal ==
  ASSUME program \in Program, NEW f \in Function, NEW alloc \in Constructions(f),
         NEW source \in FieldSources(f, alloc)
  PROVE  Real(f, source) /\ source.result # Root
<1> DEFINE at == source.result
           built == All(LAMBDA p : Allocated(f, alloc, p))
<1>1. /\ at \in Enumerated(f, alloc) /\ at \in DOMAIN alloc.init
      /\ source.param \in ParamSource(f, alloc.init[at])
  BY DEF FieldSources
<1>2. at # Root
  BY <1>1 DEF Enumerated
<1>3. PICK s \in Sites(f) : alloc \in AllocationsAt(f, s)
  BY DEF Constructions
<1>4. /\ alloc.kind = "alloc" /\ \E t \in Statements(f) : t.value = alloc
      /\ \/ s.value.kind # "chain" /\ alloc = s.value
         \/ /\ s.value.kind = "chain" /\ s.value.path = Root /\ StableLocal(f, s.value.base)
            /\ alloc \in BoundTo(f, s.value.base)
  <2>1. CASE s.value.kind = "alloc"
    BY <1>3, <2>1 DEF AllocationsAt, Sites, Returns, Statements, Range
  <2>2. CASE s.value.kind # "alloc"
    BY <1>3, <2>2 DEF AllocationsAt, BoundTo
  <2> QED  BY <2>1, <2>2
<1>5. /\ alloc.init[at].kind = "chain" => alloc.init[at].path \in Seq(FieldName)
      /\ \A inner \in DOMAIN alloc.init : at \in Above(inner) => alloc.init[at].kind = "alloc"
  BY <1>1, <1>4, ValueKnown
<1>6. /\ alloc.init[at].kind = "chain" /\ IsParam(f, alloc.init[at].base)
      /\ source.param = [at |-> alloc.init[at].base, path |-> alloc.init[at].path]
      /\ \A p : Simple(f, alloc.init[at], p) = Arg(source.param.at, source.param.path \o p)
  BY <1>1, SimpleIsArgument
<1>7. Typed(f, source)
  BY <1>5, <1>6 DEF Typed, IsParam
<1>8. ASSUME NEW path \in Shape, at \in Prefixes(path)
      PROVE  Allocated(f, alloc, path) = Simple(f, alloc.init[at], After(at, path))
  <2> DEFINE inits == {p \in Prefixes(path) : p \in DOMAIN alloc.init}
             longest == CHOOSE p \in inits : \A r \in inits : Len(r) <= Len(p)
             last == IF inits = {} THEN Root ELSE longest
             omitted == {p \in Prefixes(path) : Len(p) > Len(last) /\ FieldAt(alloc.type, p).nilable}
  <2>1. path \in Seq(FieldName)
    BY PathsKnown
  <2>2. at \in inits
    BY <1>1, <1>8
  <2>3. \A r \in inits : r \in Prefixes(path) /\ r \in DOMAIN alloc.init
    OBVIOUS
  <2>4. Allocated(f, alloc, path) =
          IF inits # {} /\ alloc.init[last].kind # "alloc"
            THEN Simple(f, alloc.init[last], After(last, path))
          ELSE IF omitted = {} THEN New ELSE IF omitted = {path} THEN Nil ELSE Other
    BY DEF Allocated
  <2> HIDE DEF inits, omitted
  <2>5. ASSUME NEW r \in inits
        PROVE  Len(r) \in Nat /\ Len(at) \in Nat /\ Len(r) <= Len(at) /\ (Len(r) = Len(at) => r = at)
    <3>1. /\ Len(r) \in Nat /\ Len(at) \in Nat
          /\ Len(r) = Len(at) => r = at
          /\ Len(at) < Len(r) => at \in Above(r)
      BY <1>2, <1>8, <2>1, <2>3, <2>5, PrefixesInLine DEF Root
    <3>2. at \notin Above(r)
      BY <1>5, <1>6, <2>3, <2>5
    <3> QED  BY <3>1, <3>2
  <2>6. longest \in inits /\ \A r \in inits : Len(r) <= Len(longest)
    BY <2>2, <2>5
  <2> HIDE DEF longest
  <2>7. Len(longest) = Len(at)
    BY <2>2, <2>5, <2>6
  <2>8. last = at
    BY <2>2, <2>5, <2>6, <2>7
  <2> HIDE DEF last
  <2> QED  BY <1>6, <2>2, <2>4, <2>8
<1>9. \A path \in Shape : built[path] = Allocated(f, alloc, path)
  BY DEF All
<1>10. \A given : built \in Meant(f, alloc, given)
  BY <1>4 DEF Meant
<1> HIDE DEF built
<1>11. ASSUME NEW given
       PROVE  RealIn(ResultsGiven(f, given), source)
  <2>1. \E r \in ResultsGiven(f, given) : \A path \in Shape : r[path] = built[path]
    BY <1>4, <1>10, ReturnedIsResult
  <2>2. PICK r \in ResultsGiven(f, given) : \A path \in Shape : r[path] = built[path]
    BY <2>1
  <2>3. Means(source, r)
    BY <1>6, <1>8, <1>9, <2>2 DEF Means
  <2> QED  BY <2>3 DEF RealIn
<1> QED  BY <1>2, <1>7, <1>11, RealWhatever

\* A parameter that is returned is a result, if not the only one.
LEMMA WholeSourceIsReal ==
  ASSUME program \in Program, NEW f \in Function, NEW source \in WholeSources(f)
  PROVE  Real(f, source) /\ source.result = Root
<1>1. PICK i \in Returns(f) :
        /\ Of(f).body[i] \in Sites(f) /\ source.result = Root
        /\ source.param \in ParamSource(f, Of(f).body[i].value)
  BY DEF WholeSources
<1> DEFINE e == Of(f).body[i].value
<1>2. e \in Values(f) /\ Of(f).body[i] \in Statements(f)
  BY <1>1 DEF Values, Sites, Returns, Statements, Range
<1>3. /\ e.kind = "chain" => e.path \in Seq(FieldName)
      /\ e.kind = "chain" /\ IsParam(f, e.base)
      /\ source.param = [at |-> e.base, path |-> e.path]
  BY <1>1, <1>2, ValueKnown, SimpleIsArgument
<1>4. Typed(f, source)
  BY <1>3 DEF Typed, IsParam
<1> HIDE DEF e
<1>5. ASSUME NEW given
      PROVE  RealIn(ResultsGiven(f, given), source)
  <2>1. PICK r \in ResultsGiven(f, given) :
          \A path \in Shape : r[path] = Arg(source.param.at, source.param.path \o path)
    BY <1>1, <1>2, ReturnedParam DEF e
  <2>2. Means(source, r)
    BY <1>1, <2>1, PathsKnown DEF Means
  <2> QED  BY <2>2 DEF RealIn
<1> QED  BY <1>1, <1>4, <1>5, RealWhatever

\* A function that forwards all arguments of a call, each a parameter or a field of
\* one, returns what the callee does of them and nothing else.
ForwardedBy(f, edge, call) ==
  /\ edge.callee \in Function
  /\ DOMAIN edge.args = DOMAIN call.args
  /\ \A a \in DOMAIN edge.args :
       /\ edge.args[a] \in ParamSource(f, call.args[a])
       /\ edge.args[a].at \in DOMAIN Of(f).params /\ edge.args[a].path \in Seq(FieldName)
  /\ \A given : ResultsGiven(f, given) = {Substitute(f, call, r) : r \in given[edge.callee]}

LEMMA Forwarded ==
  ASSUME program \in Program, NEW f \in Function, NEW edge \in ReturnEdges(f), edge.args # <<>>
  PROVE  \E call : ForwardedBy(f, edge, call)
<1>1. PICK s \in Sites(f) :
        /\ s.value.kind = "call" /\ edge.callee = s.value.callee
        /\ edge.args = ForwardedArgs(f, s.value)
  BY DEF ReturnEdges
<1> DEFINE call == s.value
<1>2. /\ OnlyReturn(f)
      /\ \A a \in DOMAIN call.args : ParamSource(f, call.args[a]) # {}
      /\ edge.args = [a \in DOMAIN call.args |-> CHOOSE source \in ParamSource(f, call.args[a]) : TRUE]
  BY <1>1 DEF ForwardedArgs
<1>3. s \in Statements(f) /\ s.do = "return" /\ ~ReturnsErr(f, s)
  BY DEF Sites, Returns, Statements, Range
<1>4. \A t \in Statements(f) : t.do = "return" => t = s
  BY <1>2 DEF Sites, Returns, Statements, Range, OnlyReturn
<1>5. Values(f) = {call}
  BY <1>3, <1>4 DEF Values
<1>6. /\ call.callee \in Function
      /\ \A a \in DOMAIN call.args :
           call.args[a].kind = "chain" => call.args[a].path \in Seq(FieldName)
  BY <1>1, <1>3, ValueKnown
<1> HIDE DEF call
<1>7. DOMAIN edge.args = DOMAIN call.args
  BY <1>2
<1>8. ASSUME NEW a \in DOMAIN edge.args
      PROVE  /\ edge.args[a] \in ParamSource(f, call.args[a])
             /\ edge.args[a].at \in DOMAIN Of(f).params /\ edge.args[a].path \in Seq(FieldName)
  <2>1. edge.args[a] \in ParamSource(f, call.args[a])
    BY <1>2, <1>8
  <2>2. /\ call.args[a].kind = "chain" /\ IsParam(f, call.args[a].base)
        /\ edge.args[a] = [at |-> call.args[a].base, path |-> call.args[a].path]
    BY <2>1, SimpleIsArgument
  <2> QED  BY <1>6, <1>7, <2>1, <2>2 DEF IsParam
<1>9. ASSUME NEW given
      PROVE  ResultsGiven(f, given) = {Substitute(f, call, r) : r \in given[edge.callee]}
  <2>1. call.kind = "call" /\ ~IsLocal(f, call)
    BY <1>1 DEF IsLocal, call
  <2>2. Meant(f, call, given) = {Substitute(f, call, r) : r \in given[call.callee]}
    BY <2>1 DEF Meant
  <2>3. \A e \in Values(f) : e = call /\ ~IsLocal(f, e)
    BY <1>5, <2>1
  <2>4. call \in Values(f)
    BY <1>5
  <2>5. Meant(f, call, given) \subseteq ResultsGiven(f, given)
    BY <2>1, <2>4, ResultsOfValues
  <2>6. \A r \in ResultsGiven(f, given) : r \in Meant(f, call, given)
    BY <2>3, ResultsOfValues
  <2> QED  BY <1>1, <2>2, <2>5, <2>6 DEF call
<1> QED  BY <1>1, <1>6, <1>7, <1>8, <1>9 DEF call, ForwardedBy

\* The caller's argument in the place of the callee's parameter.
LEMMA SubstitutedArgument ==
  ASSUME NEW f, NEW call, NEW a \in DOMAIN call.args, NEW arg \in ParamSource(f, call.args[a]),
         NEW result, NEW path \in Shape, NEW q, result[path] = Arg(a, q)
  PROVE  Substitute(f, call, result)[path] = Arg(arg.at, arg.path \o q)
<1>1. /\ Len(Arg(a, q)) # 1 /\ Arg(a, q)[2] = a /\ Arg(a, q)[3] = q
  BY DEF Arg
<1>2. Substitute(f, call, result)[path] = Simple(f, call.args[a], q)
  BY <1>1 DEF Substitute, All
<1> QED  BY <1>2, SimpleIsArgument

\* What is composed of an argument that is passed on and what the callee makes of it
\* is so, if what is said of the callee is.
LEMMA OneAfterAnother ==
  ASSUME NEW S, NEW p \in Seq(S), NEW q \in Seq(S), NEW r \in Seq(S)
  PROVE  p \o (q \o r) = (p \o q) \o r
OBVIOUS

LEMMA ComposedMeans ==
  ASSUME NEW f, NEW edge,
         NEW call, ForwardedBy(f, edge, call),
         NEW source, Typed(edge.callee, source), NEW composed \in Compose(edge, source),
         NEW result, Means(source, result)
  PROVE  Means(composed, Substitute(f, call, result))
<1> DEFINE at == source.param.at
           arg == edge.args[at]
<1>1. /\ at \in DOMAIN edge.args /\ composed.result = source.result
      /\ composed.param = [at |-> arg.at, path |-> arg.path \o source.param.path]
  <2>1. composed = [result |-> source.result, param |-> [at |-> arg.at, path |-> arg.path \o source.param.path]]
    BY DEF Compose
  <2>2. at \in DOMAIN edge.args
    BY DEF Compose
  <2> HIDE DEF at, arg
  <2> QED  BY <2>1, <2>2
<1>2. ASSUME NEW path \in Shape, source.result \in Prefixes(path)
      PROVE  Substitute(f, call, result)[path]
               = Arg(composed.param.at, composed.param.path \o After(source.result, path))
  <2> DEFINE rest == After(source.result, path)
  <2>1. rest \in Seq(FieldName)
    BY <1>2, PathsKnown
  <2>2. result[path] = Arg(at, source.param.path \o rest)
    BY <1>2 DEF Means
  <2> HIDE DEF rest
  <2>3. Substitute(f, call, result)[path] = Arg(arg.at, arg.path \o (source.param.path \o rest))
    <3>1. at \in DOMAIN call.args /\ arg \in ParamSource(f, call.args[at])
      BY <1>1 DEF ForwardedBy
    <3> HIDE DEF at, arg
    <3> QED  BY <2>2, <3>1, SubstitutedArgument
  <2>4. arg.path \o (source.param.path \o rest) = (arg.path \o source.param.path) \o rest
    <3>1. arg.path \in Seq(FieldName) /\ source.param.path \in Seq(FieldName)
      BY <1>1 DEF Typed, ForwardedBy
    <3>2. \A p, q \in Seq(FieldName) : p \o (q \o rest) = (p \o q) \o rest
      BY <2>1, OneAfterAnother
    <3> HIDE DEF arg
    <3> QED  BY <3>1, <3>2
  <2>5. composed.param.at = arg.at /\ composed.param.path = arg.path \o source.param.path
    <3> DEFINE long == arg.path \o source.param.path
    <3>1. composed.param = [at |-> arg.at, path |-> long]
      BY <1>1
    <3> HIDE DEF arg, long
    <3>2. composed.param.at = arg.at /\ composed.param.path = long
      BY <3>1
    <3> QED  BY <3>2 DEF long
  <2>6. Substitute(f, call, result)[path] = Arg(composed.param.at, composed.param.path \o rest)
    BY <2>3, <2>4, <2>5
  <2> QED  BY <2>6 DEF rest
<1> QED  BY <1>1, <1>2 DEF Means

LEMMA ComposedIsReal ==
  ASSUME program \in Program, NEW f \in Function, NEW edge \in ReturnEdges(f),
         NEW source, Real(edge.callee, source), NEW composed \in Compose(edge, source)
  PROVE  Real(f, composed) /\ composed.result = source.result /\ edge.args # <<>>
<1> DEFINE at == source.param.at
           arg == edge.args[at]
<1>1. /\ at \in DOMAIN edge.args /\ composed.result = source.result
      /\ composed.param = [at |-> arg.at, path |-> arg.path \o source.param.path]
  <2>1. composed = [result |-> source.result, param |-> [at |-> arg.at, path |-> arg.path \o source.param.path]]
    BY DEF Compose
  <2>2. at \in DOMAIN edge.args
    BY DEF Compose
  <2> HIDE DEF at, arg
  <2> QED  BY <2>1, <2>2
<1>2. edge.args # <<>>
  <2>1. DOMAIN <<>> = {}
    OBVIOUS
  <2> QED  BY <1>1, <2>1
<1>3. PICK call : ForwardedBy(f, edge, call)
  BY <1>2, Forwarded
<1>4. Typed(f, composed)
  <2>1. arg.at \in DOMAIN Of(f).params /\ arg.path \in Seq(FieldName)
    BY <1>1, <1>3 DEF ForwardedBy
  <2>2. source.param.path \in Seq(FieldName)
    BY DEF Real, Typed
  <2> HIDE DEF arg
  <2>3. arg.path \o source.param.path \in Seq(FieldName)
    BY <2>1, <2>2
  <2> QED  BY <1>1, <2>1, <2>3 DEF Typed
<1>5. ASSUME NEW n \in 0..Depth, ResultsAt[n][f] # {}
      PROVE  \E result \in ResultsAt[n][f] : Means(composed, result)
  <2>1. n \in 1..Depth /\ n - 1 \in 0..Depth
    BY <1>5, ResultsAtUnfolds, DepthAssumption
  <2>2. ResultsAt[n][f] = {Substitute(f, call, r) : r \in ResultsAt[n - 1][edge.callee]}
    <3>1. ResultsAt[n][f] = ResultsGiven(f, ResultsAt[n - 1])
      BY <2>1, ResultsAtUnfolds
    <3> QED  BY <1>3, <3>1 DEF ForwardedBy
  <2>3. PICK r \in ResultsAt[n - 1][edge.callee] : Means(source, r)
    BY <1>5, <2>1, <2>2 DEF Real, RealIn
  <2>4. Means(composed, Substitute(f, call, r))
    BY <1>2, <1>3, <2>3, ComposedMeans DEF Real
  <2> QED  BY <2>2, <2>3, <2>4
<1> QED  BY <1>1, <1>2, <1>4, <1>5 DEF Real, RealIn

\* Sources that say of the whole result that it is an argument, and what it takes for
\* them not to mislead: each result is one of the arguments they name.
Rooted(sources) == \E source \in sources : source.result = Root
Covers(sources, results) ==
  \A result \in results : \E source \in sources : source.result = Root /\ Means(source, result)
Faithful(f, sources) == Rooted(sources) => \A n \in 0..Depth : Covers(sources, ResultsAt[n][f])

\* Sources that are so hold of every path of which they say one thing.
LEMMA SourcesThatHold ==
  ASSUME NEW f \in Function, NEW sources, \A source \in sources : Real(f, source), Faithful(f, sources),
         NEW path \in Shape, Resolved(sources, path), NEW param \in ParamsOf(sources, path)
  PROVE  LET holds == {result \in ActualResults[f] : result[path] = Arg(param.at, param.path)}
         IN  /\ Rooted(sources) => holds = ActualResults[f]
             /\ ActualResults[f] # {} => holds # {}
<1> DEFINE holds == {result \in ActualResults[f] : result[path] = Arg(param.at, param.path)}
           of(s) == [at |-> s.param.at, path |-> s.param.path \o After(s.result, path)]
<1>1. Depth \in 0..Depth /\ ActualResults = ResultsAt[Depth]
  BY DepthAssumption DEF ActualResults
<1>2. \A s \in sources : s.result \in Prefixes(path) => of(s) \in ParamsOf(sources, path)
  BY DEF ParamsOf
<1>3. \A q \in ParamsOf(sources, path) : q = param
  BY DEF Resolved
<1>4. ASSUME NEW s \in sources, s.result \in Prefixes(path), NEW result, Means(s, result)
      PROVE  result[path] = Arg(param.at, param.path)
  <2> DEFINE long == s.param.path \o After(s.result, path)
  <2>1. result[path] = Arg(s.param.at, long)
    BY <1>4 DEF Means
  <2>2. [at |-> s.param.at, path |-> long] = param
    BY <1>2, <1>3, <1>4
  <2> HIDE DEF long
  <2>3. param.at = s.param.at /\ param.path = long
    BY <2>2
  <2> QED  BY <2>1, <2>3
<1>5. ASSUME Rooted(sources)
      PROVE  holds = ActualResults[f]
  <2>1. \A result \in ActualResults[f] : \E s \in sources : s.result = Root /\ Means(s, result)
    BY <1>1, <1>5 DEF Faithful, Covers
  <2> QED  BY <1>4, <2>1, PathsKnown
<1>6. ASSUME ActualResults[f] # {}
      PROVE  holds # {}
  <2>1. PICK s \in sources : s.result \in Prefixes(path)
    BY DEF ParamsOf
  <2>2. PICK result \in ActualResults[f] : Means(s, result)
    BY <1>1, <1>6, <2>1 DEF Real, RealIn
  <2> QED  BY <1>4, <2>1, <2>2
<1> QED  BY <1>5, <1>6

\* Where every return gives a parameter, every result is one.
LEMMA WholeSourcesCover ==
  ASSUME program \in Program, NEW f \in Function, WholeSources(f) # {}, ~HasConstructSite(f), NEW given
  PROVE  Covers(WholeSources(f), ResultsGiven(f, given))
<1> DEFINE direct == {i \in Returns(f) : Of(f).body[i] \in Sites(f) /\ ParamSource(f, Of(f).body[i].value) # {}}
           counted == {i \in Returns(f) : ~ReturnsErr(f, Of(f).body[i])}
           given_(i) == ParamSource(f, Of(f).body[i].value)
           told == UNION {given_(i) : i \in direct}
<1>1. /\ OnlyReturn(f) \/ direct = counted
      /\ WholeSources(f) = {[result |-> Root, param |-> source] : source \in told}
      /\ told # {}
  BY DEF WholeSources
<1>2. direct # {} /\ direct \subseteq Returns(f) /\ counted \subseteq Returns(f)
  BY <1>1
<1>3. ASSUME NEW e \in Values(f)
      PROVE  \E i \in direct : e = Of(f).body[i].value
  <2>1. PICK i \in Returns(f) : i \in counted /\ e = Of(f).body[i].value
    BY <1>3 DEF Values, Statements, Range, Returns
  <2> HIDE DEF direct, counted
  <2>2. i \in direct
    BY <1>1, <1>2, <2>1 DEF OnlyReturn
  <2> QED  BY <2>1, <2>2
<1>4. \A e \in Values(f) : ParamSource(f, e) # {} /\ ParamSource(f, e) \subseteq told
  BY <1>3
<1> HIDE DEF direct, counted, told
<1>5. \A e \in Values(f) : ~IsLocal(f, e)
  BY <1>4, ParamIsNotLocal
<1>6. ASSUME NEW r \in ResultsGiven(f, given)
      PROVE  \E s \in WholeSources(f) : s.result = Root /\ Means(s, r)
  <2>1. PICK e \in Values(f) : r \in Meant(f, e, given)
    BY <1>5, ResultsOfValues
  <2>2. PICK param \in ParamSource(f, e) : TRUE
    BY <1>4
  <2> DEFINE s == [result |-> Root, param |-> param]
  <2>3. s \in WholeSources(f)
    BY <1>1, <1>4
  <2>4. \A path \in Shape : r[path] = Arg(param.at, param.path \o path)
    BY <2>1, ReturnedParam
  <2>5. s.result = Root /\ s.param = param
    OBVIOUS
  <2> HIDE DEF s
  <2>6. Means(s, r)
    BY <2>4, <2>5, PathsKnown DEF Means
  <2> QED  BY <2>3, <2>5, <2>6
<1> QED  BY <1>6 DEF Covers

-----------------------------------------------------------------------------
(****************************************************************************)
(* The sources of results.                                                  *)
(****************************************************************************)

\* Why it is said of a function that its whole result is an argument: it returns one,
\* or passes on what another function makes of its arguments.
Grounded(f) ==
  /\ WholeSources(f) \subseteq returnParamSources[f]
  /\ \A s \in returnParamSources[f] : s.result = Root =>
       \/ s \in WholeSources(f)
       \/ \E edge \in ReturnEdges(f) :
            edge.args # <<>> /\ \E t \in returnParamSources[edge.callee] : t.result = Root

\* A pass over the function adds nothing.
Composed(f) == UNION {UNION {Compose(edge, s) : s \in returnParamSources[edge.callee]} : edge \in ReturnEdges(f)}
Settled(f) == Composed(f) \subseteq returnParamSources[f]

\* What is not dropped is one of the arguments on every return: by induction on the
\* calls that are followed, for all functions of the package at once.
LEMMA KeptAreFaithful ==
  ASSUME program \in Program, phase = "drop", ForwardersAgree,
         \A f \in Function : \A s \in returnParamSources[f] : Real(f, s),
         \A f \in Local : Grounded(f) /\ Settled(f),
         \A f \in Function \ Local : Faithful(f, returnParamSources[f]),
         NEW f \in Local, ~Mixed(f)
  PROVE  Faithful(f, returnParamSources[f])
<1> DEFINE Kept == {g \in Local : Rooted(returnParamSources[g]) /\ ~Mixed(g)}
           T == {n \in 0..Depth : \A g \in Kept : Covers(returnParamSources[g], ResultsAt[n][g])}
<1>1. \A g \in Local : g \in Function
  BY DEF Local
<1>2. 0 \in T
  BY <1>1, ResultsAtUnfolds, DepthAssumption DEF Covers
<1>3. ASSUME NEW n \in 1..Depth, n - 1 \in T, NEW g \in Kept
      PROVE  Covers(returnParamSources[g], ResultsAt[n][g])
  <2>1. /\ g \in Local /\ g \in Function /\ Rooted(returnParamSources[g]) /\ ~Mixed(g)
        /\ Grounded(g) /\ Settled(g)
    BY <1>1
  <2>2. ResultsAt[n][g] = ResultsGiven(g, ResultsAt[n - 1]) /\ n - 1 \in 0..Depth
    <3>1. n - 1 \in 0..Depth
      BY DepthAssumption
    <3>2. ResultsAt[n] = [h \in Function |-> ResultsGiven(h, ResultsAt[n - 1])]
      BY ResultsAtUnfolds
    <3> QED  BY <2>1, <3>1, <3>2
  <2>3. ~HasConstructSite(g)
    BY <2>1 DEF Mixed, Rooted
  <2>4. CASE WholeSources(g) # {}
    <3>1. Covers(WholeSources(g), ResultsAt[n][g])
      BY <2>1, <2>2, <2>3, <2>4, WholeSourcesCover
    <3> QED  BY <2>1, <3>1 DEF Covers, Grounded
  <2>5. CASE WholeSources(g) = {}
    <3>1. PICK edge \in ReturnEdges(g) :
            edge.args # <<>> /\ \E t \in returnParamSources[edge.callee] : t.result = Root
      BY <2>1, <2>5 DEF Rooted, Grounded
    <3> DEFINE h == edge.callee
    <3>2. PICK call : ForwardedBy(g, edge, call)
      BY <2>1, <3>1, Forwarded
    <3>3. h \in Function /\ Rooted(returnParamSources[h])
      BY <3>1, <3>2 DEF ForwardedBy, Rooted
    <3>4. ~Mixed(h) /\ \A s \in returnParamSources[h] : s.result = Root => Compose(edge, s) # {}
      BY <2>1, <3>1 DEF ForwardersAgree, Rooted
    <3>5. Covers(returnParamSources[h], ResultsAt[n - 1][h])
      BY <1>3, <2>2, <3>3, <3>4 DEF Faithful
    <3>6. ASSUME NEW r \in ResultsAt[n][g]
          PROVE  \E s \in returnParamSources[g] : s.result = Root /\ Means(s, r)
      <4>1. PICK below \in ResultsAt[n - 1][h] : r = Substitute(g, call, below)
        BY <2>2, <3>2 DEF ForwardedBy
      <4>2. PICK t \in returnParamSources[h] : t.result = Root /\ Means(t, below)
        BY <3>5, <4>1 DEF Covers
      <4>3. PICK s \in Compose(edge, t) : TRUE
        BY <3>4, <4>2
      <4>4. s \in returnParamSources[g]
        BY <2>1, <4>2, <4>3 DEF Settled, Composed
      <4>5. Real(h, t)
        BY <3>3, <4>2
      <4>6. s.result = Root
        BY <2>1, <4>2, <4>3, <4>5, ComposedIsReal
      <4>7. Means(s, r)
        BY <3>2, <4>1, <4>2, <4>3, <4>5, ComposedMeans DEF Real
      <4> QED  BY <4>4, <4>6, <4>7
    <3> QED  BY <3>6 DEF Covers
  <2> QED  BY <2>4, <2>5
<1>4. 0..Depth \subseteq T
  <2>1. \A n \in 1..Depth : n - 1 \in T => n \in T
    <3> TAKE n \in 1..Depth
    <3>1. n \in 0..Depth
      OBVIOUS
    <3> HIDE DEF Kept
    <3> QED  BY <1>3, <3>1
  <2> HIDE DEF T
  <2> QED  BY <1>2, <2>1, CountUp, DepthAssumption
<1> QED  BY <1>4 DEF Faithful

\* Sources of which no one is misled.
Truthful(f, sources) == (\A s \in sources : Real(f, s)) /\ Faithful(f, sources)

BeforeDrop == {"import", "writes", "reads", "effects", "sources", "drop"}

\* What is known of the sources on the way: those of the package are grounded, those
\* of other packages are as their facts say, and at the end of the passes over the
\* package nothing is missing.
StageInv ==
  /\ phase = "import" => \A f \in Function \ Local : returnParamSources[f] = {}
  /\ phase \in BeforeDrop =>
       /\ \A f \in Local : Grounded(f)
       /\ \A f \in Function \ Local : Faithful(f, returnParamSources[f])
  /\ phase = "sources" =>
       /\ work \subseteq Results!Forwarding
       /\ ~changed => \A f \in Results!Forwarding \ work : Settled(f)
  /\ phase = "drop" => \A f \in Local : Settled(f)
  /\ phase = "export" => \A f \in Local : Faithful(f, returnParamSources[f])
  /\ Done => \A f \in Local : Truthful(f, Summary.sources[f])

AllReal == \A f \in Function : \A s \in returnParamSources[f] : Real(f, s)

SourcesReal == returnParamSources = [f \in Function |-> returnParamSources[f]] /\ AllReal

SourcesKnown == SourcesReal /\ StageInv

RealInv ==
  /\ RunInv /\ SourcesReal
  /\ \A n \in 1..Len(facts) : \A f \in DOMAIN facts[n] \cap Function :
       \A s \in facts[n][f].sources : Real(f, s)
  /\ Done => \A f \in Local : \A s \in Summary.sources[f] : Real(f, s)

FactsTruthful ==
  \A n \in 1..Len(facts) : \A f \in DOMAIN facts[n] \cap Function : Truthful(f, facts[n][f].sources)

SourceInv == RunInv /\ SourcesKnown /\ FactsTruthful

-----------------------------------------------------------------------------
(* What depends on the program only, stays. *)

LEMMA BodySourcesStay ==
  ASSUME program' = program, NEW f
  PROVE  WholeSources(f)' = WholeSources(f) /\ ReturnEdges(f)' = ReturnEdges(f)
<1>1. /\ Of(f)' = Of(f) /\ Statements(f)' = Statements(f) /\ Returns(f)' = Returns(f)
      /\ Sites(f)' = Sites(f) /\ OnlyReturn(f)' = OnlyReturn(f)
  BY DEF Of, Statements, Returns, Sites, Spreads, ReturnsErr, OnlyReturn
<1>2. /\ \A e : ParamSource(f, e)' = ParamSource(f, e)
      /\ \A v : BoundTo(f, v)' = BoundTo(f, v) /\ StableLocal(f, v)' = StableLocal(f, v)
      /\ \A s : ReturnsErr(f, s)' = ReturnsErr(f, s)
  BY DEF Of, Statements, ParamSource, IsParam, UnstableParams, BoundTo, StableLocal, Spreads, ReturnsErr
<1>3. HasConstructSite(f)' = HasConstructSite(f)
  BY <1>1, <1>2 DEF HasConstructSite, Constructions, AllocationsAt
<1>4. WholeSources(f)' = WholeSources(f)
  BY <1>1, <1>2, <1>3 DEF WholeSources
<1>5. \A call : ForwardedArgs(f, call)' = ForwardedArgs(f, call)
  BY DEF ForwardedArgs, OnlyReturn, Returns, Of, ParamSource, IsParam, UnstableParams, Statements
<1>6. ReturnEdges(f)' = ReturnEdges(f)
  BY <1>1, <1>2, <1>5 DEF ReturnEdges, Of
<1> QED  BY <1>4, <1>6

LEMMA ResultsAtStay == program' = program => ResultsAt' = ResultsAt
BY DEF ResultsAt, ResultsGiven, All, Simple, Allocated, Substitute, Overwritten,
       BoundTo, Statements, ReturnsErr, Spreads, Of, IsParam

LEMMA SayingsStay ==
  ASSUME program' = program, NEW f, NEW x
  PROVE  Real(f, x)' = Real(f, x) /\ Faithful(f, x)' = Faithful(f, x) /\ Truthful(f, x)' = Truthful(f, x)
<1>1. ResultsAt' = ResultsAt /\ Of(f)' = Of(f)
  BY ResultsAtStay DEF Of
<1>2. \A s : Real(f, s)' = Real(f, s)
  BY <1>1 DEF Real, Typed, RealIn
<1>3. Faithful(f, x)' = Faithful(f, x)
  BY <1>1 DEF Faithful, Covers
<1> QED  BY <1>2, <1>3 DEF Truthful

-----------------------------------------------------------------------------
(* Where the sources of a fact and of a summary come from. *)

LEMMA FactsComeFrom ==
  ASSUME RunInv, [Next]_vars, NEW n \in 1..Len(facts'), NEW f \in DOMAIN facts'[n] \cap Function
  PROVE  \/ n \in 1..Len(facts) /\ facts'[n] = facts[n]
         \/ phase = "export" /\ f \in Local /\ facts'[n][f].sources = returnParamSources[f]
<1>1. ASSUME NEW fact, facts' = Append(facts, fact)
      PROVE  (n \in 1..Len(facts) /\ facts'[n] = facts[n]) \/ facts'[n] = fact
  <2>1. /\ Len(facts) \in Nat /\ Len(facts') = Len(facts) + 1
        /\ facts'[Len(facts) + 1] = fact
        /\ \A m \in 1..Len(facts) : facts'[m] = facts[m]
    BY <1>1, AppendedTo DEF RunInv, ASequence
  <2>2. n \in 1..Len(facts) \/ n = Len(facts) + 1
    BY <2>1
  <2> QED  BY <2>1, <2>2
<1>2. CASE OutOfScope
  <2>1. facts' = Append(facts, <<>>) /\ DOMAIN <<>> = {}
    BY <1>2 DEF OutOfScope
  <2> QED  BY <1>1, <2>1
<1>3. CASE Export
  <2> DEFINE entry == [g \in {g \in Local : Of(g).exported} |->
                         [reads |-> paramReads[g], writes |-> paramWrites[g],
                          effects |-> returnEffects[g], sources |-> returnParamSources[g]]]
             told == {g \in DOMAIN entry : \E part \in DOMAIN entry[g] : entry[g][part] # {}}
             fact == [g \in told |-> entry[g]]
  <2>1. facts' = Append(facts, fact) /\ phase = "export"
    BY <1>3 DEF Export
  <2>2. \A g \in DOMAIN fact : fact[g].sources = returnParamSources[g] /\ g \in Local
    OBVIOUS
  <2> HIDE DEF fact
  <2> QED  BY <1>1, <2>1, <2>2
<1>4. CASE UNCHANGED <<facts, summaries>>
  BY <1>4
<1> QED  BY <1>2, <1>3, <1>4, FactsChange

LEMMA SummaryComesFrom ==
  ASSUME RunInv, [Next]_vars, Done', NEW f \in Local'
  PROVE  /\ f \in Local
         /\ \/ Summary'.sources[f] = {}
            \/ phase = "export" /\ Summary'.sources[f] = returnParamSources[f]
            \/ Done /\ Summary' = Summary
<1>1. OutOfScope \/ Export \/ UNCHANGED vars
  BY DEF Next, Done, Collect, Import, CloseWrites, CloseReads, CloseEffects, CloseSources,
         DropMixed, NextPackage
<1>2. program' = program /\ pkg' = pkg /\ f \in Local /\ f \in Function
  <2>1. program' = program /\ pkg' = pkg
    BY <1>1 DEF OutOfScope, Export, vars
  <2> QED  BY <2>1, PackageStays DEF Local
<1>3. ASSUME NEW x, summaries' = Append(summaries, x), phase # "done"
      PROVE  Summary' = x
  <2>1. ASequence(summaries) /\ Len(summaries) = pkg - 1 /\ pkg \in Nat
    BY <1>3, OrderIsSequence DEF RunInv
  <2>2. summaries'[pkg] = x
    BY <1>3, <2>1, AppendedTo
  <2> QED  BY <1>2, <2>2 DEF Summary
<1>4. CASE OutOfScope
  <2>1. PICK x : x.sources = Nothing /\ summaries' = Append(summaries, x)
    BY <1>4 DEF OutOfScope
  <2>2. Summary'.sources = Nothing
    BY <1>3, <1>4, <2>1 DEF OutOfScope
  <2> QED  BY <1>2, <2>2 DEF Nothing
<1>5. CASE Export
  <2>1. PICK x : x.sources = returnParamSources /\ summaries' = Append(summaries, x)
    BY <1>5 DEF Export
  <2>2. Summary'.sources = returnParamSources /\ phase = "export"
    BY <1>3, <1>5, <2>1 DEF Export
  <2> QED  BY <1>2, <2>2
<1>6. CASE UNCHANGED vars
  BY <1>2, <1>6 DEF vars, Done, Summary
<1> QED  BY <1>1, <1>4, <1>5, <1>6

-----------------------------------------------------------------------------
(* No source is invented. *)

\* What a pass composes for a function is so, and says of the result what is said of
\* that of a function it calls.
LEMMA ComposedSources ==
  ASSUME program \in Program, AllReal, NEW f \in Function, NEW s \in Composed(f)
  PROVE  /\ Real(f, s)
         /\ \E edge \in ReturnEdges(f) :
              /\ edge.args # <<>>
              /\ \E t \in returnParamSources[edge.callee] : t.result = s.result
<1>1. PICK edge \in ReturnEdges(f) : \E t \in returnParamSources[edge.callee] : s \in Compose(edge, t)
  BY DEF Composed
<1>2. PICK t \in returnParamSources[edge.callee] : s \in Compose(edge, t)
  BY <1>1
<1>3. Real(edge.callee, t)
  BY ReturnedKnown DEF AllReal
<1>4. Real(f, s) /\ s.result = t.result /\ edge.args # <<>>
  BY <1>2, <1>3, ComposedIsReal
<1> QED  BY <1>4

LEMMA RealStep ==
  ASSUME RealInv, [Next]_vars
  PROVE  SourcesReal'
<1> DEFINE S == returnParamSources
<1>1. program \in Program /\ program' = program /\ SourcesReal
  BY FactsChange DEF RealInv, RunInv
<1>2. ASSUME S' = [f \in Function |-> S'[f]], \A f \in Function : \A s \in S'[f] : Real(f, s)
      PROVE  SourcesReal'
  <2>1. \A f, s : Real(f, s)' = Real(f, s)
    BY <1>1, SayingsStay
  <2> QED  BY <1>2, <2>1 DEF SourcesReal, AllReal
<1>3. CASE Collect
  <2> DEFINE fields(f) == UNION {FieldSources(f, alloc) : alloc \in Constructions(f)}
  <2>1. S' = [f \in Function |-> IF f \in Local THEN WholeSources(f) \cup fields(f) ELSE {}]
    BY <1>3 DEF Collect, OfLocal
  <2>2. \A f \in Function : \A s \in fields(f) : Real(f, s)
    BY <1>1, FieldSourceIsReal
  <2> HIDE DEF fields
  <2>3. ASSUME NEW f \in Function, NEW s \in S'[f]
        PROVE  Real(f, s)
    BY <1>1, <2>1, <2>2, <2>3, WholeSourceIsReal
  <2> QED  BY <1>2, <2>1, <2>3
<1>4. CASE Import
  <2> DEFINE known(f) == f \in Called \ Local /\ \E n \in DOMAIN facts : f \in DOMAIN facts[n]
             fact(f) == IF known(f) THEN facts[CHOOSE n \in DOMAIN facts : f \in DOMAIN facts[n]][f]
                        ELSE [reads |-> {}, writes |-> {}, effects |-> {}, sources |-> {}]
  <2>1. S' = [f \in Function |-> S[f] \cup fact(f).sources]
    BY <1>4 DEF Import
  <2>2. ASSUME NEW f \in Function
        PROVE  \A s \in fact(f).sources : Real(f, s)
    <3>1. CASE known(f)
      <4>1. PICK n \in DOMAIN facts : f \in DOMAIN facts[n] /\ fact(f) = facts[n][f]
        BY <3>1
      <4>2. n \in 1..Len(facts)
        BY DEF RealInv, RunInv, ASequence
      <4> QED  BY <2>2, <4>1, <4>2 DEF RealInv
    <3>2. CASE ~known(f)
      BY <3>2
    <3> QED  BY <3>1, <3>2
  <2> HIDE DEF fact
  <2>3. ASSUME NEW f \in Function, NEW s \in S'[f]
        PROVE  Real(f, s)
    BY <1>1, <2>1, <2>2, <2>3 DEF SourcesReal, AllReal
  <2> QED  BY <1>2, <2>1, <2>3
<1>5. CASE \E f \in work : S' = [S EXCEPT ![f] = @ \cup Composed(f)]
  <2>1. PICK g \in work : S' = [S EXCEPT ![g] = @ \cup Composed(g)]
    BY <1>5
  <2>2. /\ S' = [f \in Function |-> S'[f]]
        /\ \A f \in Function : S'[f] = S[f] \/ (f = g /\ S'[f] = S[f] \cup Composed(f))
    BY <1>1, <2>1 DEF SourcesReal
  <2>3. ASSUME NEW f \in Function, NEW s \in S'[f]
        PROVE  Real(f, s)
    <3>1. CASE s \in S[f]
      BY <1>1, <3>1 DEF SourcesReal, AllReal
    <3>2. CASE s \in Composed(f)
      BY <1>1, <3>2, ComposedSources DEF SourcesReal
    <3> QED  BY <2>2, <2>3, <3>1, <3>2
  <2> QED  BY <1>2, <2>2, <2>3
<1>6. CASE DropMixed
  <2>1. S' = [f \in Function |-> IF Mixed(f) THEN {} ELSE S[f]]
    BY <1>6 DEF DropMixed
  <2> QED  BY <1>1, <1>2, <2>1 DEF SourcesReal, AllReal
<1>7. CASE NextPackage
  BY <1>2, <1>7 DEF NextPackage, Nothing
<1>8. CASE S' = S
  BY <1>1, <1>2, <1>8 DEF SourcesReal, AllReal
<1>9. \/ Collect \/ Import \/ DropMixed \/ NextPackage \/ S' = S
      \/ \E f \in work : S' = [S EXCEPT ![f] = @ \cup Composed(f)]
  BY DEF Next, vars, summary, OutOfScope, CloseWrites, CloseReads, CloseEffects, CloseSources, Composed,
         Export
<1> QED  BY <1>3, <1>4, <1>5, <1>6, <1>7, <1>8, <1>9

LEMMA RealInvStep == RealInv /\ [Next]_vars => RealInv'
<1> SUFFICES ASSUME RealInv, [Next]_vars
             PROVE  RealInv'
  OBVIOUS
<1>1. program' = program /\ RunInv /\ SourcesReal
  BY FactsChange DEF RealInv
<1>2. \A f, s : Real(f, s)' = Real(f, s)
  BY <1>1, SayingsStay
<1>3. ASSUME NEW n \in 1..Len(facts'), NEW f \in DOMAIN facts'[n] \cap Function,
             NEW s \in facts'[n][f].sources
      PROVE  Real(f, s)
  BY <1>1, <1>3, FactsComeFrom DEF RealInv, SourcesReal, AllReal
<1>4. ASSUME Done', NEW f \in Local', NEW s \in Summary'.sources[f]
      PROVE  Real(f, s)
  BY <1>1, <1>4, SummaryComesFrom DEF RealInv, SourcesReal, AllReal, Local
<1> QED  BY <1>2, <1>3, <1>4, RealStep, RunInvStep DEF RealInv

LEMMA SourcesAreInReal == SourceInv => RealInv
BY DEF SourceInv, RealInv, SourcesKnown, StageInv, FactsTruthful, Truthful

-----------------------------------------------------------------------------
(* What is known of the sources after each step. *)

LEMMA NothingIsTruthful ==
  ASSUME NEW f
  PROVE  Truthful(f, {})
BY DEF Truthful, Faithful, Rooted

LEMMA CollectSources ==
  ASSUME SourceInv, Collect
  PROVE  StageInv'
<1> DEFINE fields(f) == UNION {FieldSources(f, alloc) : alloc \in Constructions(f)}
<1>1. /\ program \in Program /\ program' = program /\ pkg' = pkg /\ phase' = "import"
      /\ Local' = Local
  BY PackageStays DEF SourceInv, RunInv, Collect
<1>2. returnParamSources' = [f \in Function |-> IF f \in Local THEN WholeSources(f) \cup fields(f) ELSE {}]
  BY DEF Collect, OfLocal
<1>3. ASSUME NEW f \in Function, NEW s \in fields(f)
      PROVE  Real(f, s) /\ s.result # Root
  BY <1>1, <1>3, FieldSourceIsReal
<1> HIDE DEF fields
<1>4. ASSUME NEW f \in Local
      PROVE  Grounded(f)'
  <2>1. f \in Function /\ returnParamSources'[f] = WholeSources(f) \cup fields(f)
    BY <1>2 DEF Local
  <2>2. \A s \in returnParamSources'[f] : s.result = Root => s \in WholeSources(f)
    BY <1>3, <2>1
  <2>3. WholeSources(f)' = WholeSources(f)
    BY <1>1, BodySourcesStay
  <2> QED  BY <2>1, <2>2, <2>3 DEF Grounded
<1>5. \A f \in Function \ Local : returnParamSources'[f] = {} /\ Faithful(f, returnParamSources[f])'
  BY <1>2 DEF Faithful, Rooted
<1> QED  BY <1>1, <1>4, <1>5 DEF StageInv, Done

\* What a package says of one of its functions in its fact is so.
LEMMA ImportSources ==
  ASSUME SourceInv, Import
  PROVE  StageInv'
<1> DEFINE known(f) == f \in Called \ Local /\ \E n \in DOMAIN facts : f \in DOMAIN facts[n]
           fact(f) == IF known(f) THEN facts[CHOOSE n \in DOMAIN facts : f \in DOMAIN facts[n]][f]
                      ELSE [reads |-> {}, writes |-> {}, effects |-> {}, sources |-> {}]
<1>1. /\ program' = program /\ pkg' = pkg /\ phase = "import" /\ phase' = "writes"
      /\ Local' = Local
  BY PackageStays DEF Import
<1>2. returnParamSources' = [f \in Function |-> returnParamSources[f] \cup fact(f).sources]
  BY DEF Import
<1>3. ASSUME NEW f \in Function
      PROVE  /\ Truthful(f, fact(f).sources)
             /\ f \in Local => fact(f).sources = {}
  <2>1. CASE known(f)
    <3>1. PICK n \in DOMAIN facts : f \in DOMAIN facts[n] /\ fact(f) = facts[n][f]
      BY <2>1
    <3>2. n \in 1..Len(facts)
      BY DEF SourceInv, RunInv, ASequence
    <3>3. Truthful(f, facts[n][f].sources)
      BY <1>3, <3>1, <3>2 DEF SourceInv, FactsTruthful
    <3> QED  BY <2>1, <3>1, <3>3
  <2>2. CASE ~known(f)
    BY <2>2, NothingIsTruthful
  <2> QED  BY <2>1, <2>2
<1> HIDE DEF fact
<1>4. /\ \A f \in Function \ Local : returnParamSources[f] = {}
      /\ \A f \in Local : Grounded(f)
  BY <1>1 DEF SourceInv, SourcesKnown, StageInv, BeforeDrop
<1>5. ASSUME NEW f \in Local
      PROVE  Grounded(f)'
  <2>1. f \in Function /\ returnParamSources'[f] = returnParamSources[f]
    BY <1>2, <1>3 DEF Local
  <2>2. WholeSources(f)' = WholeSources(f) /\ ReturnEdges(f)' = ReturnEdges(f)
    BY <1>1, BodySourcesStay
  <2>3. \A edge \in ReturnEdges(f) : edge.callee \in Function
    BY <2>1, ReturnedKnown DEF SourceInv, RunInv
  <2>4. \A g \in Function : returnParamSources[g] \subseteq returnParamSources'[g]
    BY <1>2
  <2> QED  BY <1>4, <2>1, <2>2, <2>3, <2>4 DEF Grounded
<1>6. ASSUME NEW f \in Function \ Local
      PROVE  Faithful(f, returnParamSources[f])'
  <2>1. returnParamSources'[f] = fact(f).sources
    BY <1>2, <1>4
  <2>2. Faithful(f, returnParamSources'[f])
    BY <1>3, <2>1 DEF Truthful
  <2> QED  BY <1>1, <2>2, ResultsAtStay DEF Faithful, Covers, Rooted
<1> QED  BY <1>1, <1>5, <1>6 DEF StageInv, Done

LEMMA ForwardingStays ==
  ASSUME program' = program, pkg' = pkg
  PROVE  /\ Local' = Local
         /\ Results!Forwarding' = Results!Forwarding
         /\ Results!Forwarding = {f \in Local : ReturnEdges(f) # {}}
<1>1. Local' = Local /\ \A f : ReturnEdges(f)' = ReturnEdges(f)
  BY PackageStays, BodySourcesStay
<1>2. Results!Forwarding = {f \in Local : ReturnEdges(f) # {}}
  BY DEF Results!Forwarding, OfLocal, Local
<1>3. Results!Forwarding' = {f \in Local : ReturnEdges(f) # {}}
  BY <1>1 DEF Results!Forwarding, OfLocal, Local
<1> QED  BY <1>1, <1>2, <1>3

LEMMA SameSources ==
  ASSUME program' = program, pkg' = pkg, returnParamSources' = returnParamSources
  PROVE  /\ \A f : Grounded(f)' = Grounded(f) /\ Settled(f)' = Settled(f)
         /\ \A f : Faithful(f, returnParamSources[f])' = Faithful(f, returnParamSources[f])
<1>1. ASSUME NEW f
      PROVE  /\ WholeSources(f)' = WholeSources(f) /\ ReturnEdges(f)' = ReturnEdges(f)
             /\ Composed(f)' = Composed(f)
  <2>1. WholeSources(f)' = WholeSources(f) /\ ReturnEdges(f)' = ReturnEdges(f)
    BY BodySourcesStay
  <2> QED  BY <2>1 DEF Composed
<1>2. \A f : Grounded(f)' = Grounded(f) /\ Settled(f)' = Settled(f)
  BY <1>1 DEF Grounded, Settled
<1>3. \A f : Faithful(f, returnParamSources[f])' = Faithful(f, returnParamSources[f])
  BY ResultsAtStay DEF Faithful, Covers, Rooted
<1> QED  BY <1>2, <1>3

\* The closures of the other parts of the summary.
LEMMA CloseOthers ==
  ASSUME SourceInv, CloseWrites \/ CloseReads \/ CloseEffects
  PROVE  StageInv'
<1>1. /\ program' = program /\ pkg' = pkg /\ returnParamSources' = returnParamSources
      /\ phase \in {"writes", "reads", "effects"}
      /\ \/ phase' \in {"writes", "reads", "effects"}
         \/ phase' = "sources" /\ work' = Results!Forwarding
  BY DEF CloseWrites, CloseReads, CloseEffects
<1>2. /\ \A f \in Local : Grounded(f)
      /\ \A f \in Function \ Local : Faithful(f, returnParamSources[f])
  BY <1>1 DEF SourceInv, SourcesKnown, StageInv, BeforeDrop
<1>3. (/\ \A f \in Local : Grounded(f)
       /\ \A f \in Function \ Local : Faithful(f, returnParamSources[f]))'
  BY <1>1, <1>2, SameSources, ForwardingStays
<1>4. phase' = "sources" => work' = (Results!Forwarding)'
  BY <1>1, ForwardingStays
<1> QED  BY <1>1, <1>3, <1>4 DEF StageInv, Done

\* A pass composes for one function what it passes on of others.
LEMMA CloseSourcesOf ==
  ASSUME SourceInv, phase = "sources", phase' = "sources", UNCHANGED <<program, pkg, facts, summaries>>,
         NEW f \in work,
         returnParamSources' = [returnParamSources EXCEPT ![f] = @ \cup Composed(f)],
         changed' = (changed \/ ~(Composed(f) \subseteq returnParamSources[f])),
         work' = work \ {f}
  PROVE  StageInv'
<1>1. /\ program \in Program
      /\ returnParamSources = [g \in Function |-> returnParamSources[g]] /\ AllReal
      /\ \A g \in Local : Grounded(g)
      /\ \A g \in Function \ Local : Faithful(g, returnParamSources[g])
      /\ work \subseteq Results!Forwarding
      /\ ~changed => \A g \in Results!Forwarding \ work : Settled(g)
  BY DEF SourceInv, RunInv, SourcesKnown, SourcesReal, StageInv, BeforeDrop
<1>2. f \in Local /\ f \in Function
  BY <1>1, ForwardingStays DEF Local
<1>3. /\ returnParamSources'[f] = returnParamSources[f] \cup Composed(f)
      /\ \A g \in Function \ {f} : returnParamSources'[g] = returnParamSources[g]
  BY <1>1, <1>2
<1>4. ASSUME NEW s \in Composed(f)
      PROVE  \E edge \in ReturnEdges(f) :
               edge.args # <<>> /\ \E t \in returnParamSources[edge.callee] : t.result = s.result
  BY <1>1, <1>2, ComposedSources
<1>5. ASSUME NEW g \in Local
      PROVE  Grounded(g)'
  <2>1. g \in Function /\ WholeSources(g)' = WholeSources(g) /\ ReturnEdges(g)' = ReturnEdges(g)
    BY BodySourcesStay DEF Local
  <2>2. \A edge \in ReturnEdges(g) : edge.callee \in Function
    BY <1>1, <2>1, ReturnedKnown
  <2>3. \A h \in Function : returnParamSources[h] \subseteq returnParamSources'[h]
    BY <1>3
  <2>4. Grounded(g)
    BY <1>1
  <2>5. \A s \in returnParamSources'[g] : s \in returnParamSources[g] \/ (g = f /\ s \in Composed(f))
    BY <1>3, <2>1
  <2>6. ASSUME NEW s \in returnParamSources'[g], s.result = Root, s \notin WholeSources(g)
        PROVE  \E edge \in ReturnEdges(g) :
                 edge.args # <<>> /\ \E t \in returnParamSources[edge.callee] : t.result = Root
    <3>1. CASE s \in returnParamSources[g]
      BY <2>4, <2>6, <3>1 DEF Grounded
    <3>2. CASE g = f /\ s \in Composed(f)
      BY <1>4, <2>6, <3>2
    <3> QED  BY <2>5, <2>6, <3>1, <3>2
  <2>7. WholeSources(g) \subseteq returnParamSources'[g]
    BY <2>1, <2>3, <2>4 DEF Grounded
  <2> QED  BY <2>1, <2>2, <2>3, <2>6, <2>7 DEF Grounded
<1>6. ASSUME NEW g \in Function \ Local
      PROVE  Faithful(g, returnParamSources[g])'
  <2>1. Faithful(g, returnParamSources[g]) /\ returnParamSources'[g] = returnParamSources[g]
    BY <1>1, <1>2, <1>3
  <2> QED  BY <2>1, ResultsAtStay DEF Faithful, Covers, Rooted
<1>7. ASSUME ~changed', NEW g \in Results!Forwarding \ work'
      PROVE  Settled(g)'
  <2>1. ~changed /\ Composed(f) \subseteq returnParamSources[f]
    BY <1>7
  <2>2. returnParamSources' = returnParamSources
    BY <1>1, <1>2, <2>1
  <2>3. Settled(g)
    BY <1>1, <1>7, <2>1 DEF Settled
  <2> QED  BY <2>2, <2>3, SameSources
<1>8. Local' = Local /\ (Results!Forwarding)' = Results!Forwarding
  BY ForwardingStays
<1>9. work' \subseteq Results!Forwarding
  BY <1>1
<1> QED  BY <1>5, <1>6, <1>7, <1>8, <1>9 DEF StageInv, Done

LEMMA CloseSourcesStep ==
  ASSUME SourceInv, CloseSources
  PROVE  StageInv'
<1>1. /\ program' = program /\ pkg' = pkg /\ phase = "sources"
      /\ UNCHANGED <<facts, summaries>>
  BY DEF CloseSources
<1>2. /\ \A f \in Local : Grounded(f)
      /\ \A f \in Function \ Local : Faithful(f, returnParamSources[f])
      /\ ~changed => \A f \in Results!Forwarding \ work : Settled(f)
  BY <1>1 DEF SourceInv, SourcesKnown, StageInv, BeforeDrop
<1>3. ASSUME returnParamSources' = returnParamSources
      PROVE  (/\ \A f \in Local : Grounded(f)
              /\ \A f \in Function \ Local : Faithful(f, returnParamSources[f]))'
  BY <1>1, <1>2, <1>3, SameSources, ForwardingStays
<1>4. CASE \E f \in work :
             /\ returnParamSources' = [returnParamSources EXCEPT ![f] = @ \cup Composed(f)]
             /\ changed' = (changed \/ ~(Composed(f) \subseteq returnParamSources[f]))
             /\ work' = work \ {f}
             /\ phase' = "sources"
  BY <1>1, <1>4, CloseSourcesOf
<1>5. CASE work' = Results!Forwarding /\ phase' = phase /\ returnParamSources' = returnParamSources
  <2>1. work' = (Results!Forwarding)'
    BY <1>1, <1>5, ForwardingStays
  <2> QED  BY <1>1, <1>3, <1>5, <2>1 DEF StageInv, Done
<1>6. CASE work = {} /\ ~changed /\ phase' = "drop" /\ returnParamSources' = returnParamSources
  <2>1. \A f \in Local : Settled(f)
    <3>1. \A f \in Local \ Results!Forwarding : ReturnEdges(f) = {}
      BY <1>1, ForwardingStays
    <3>2. \A f \in Local \ Results!Forwarding : Settled(f)
      BY <3>1 DEF Settled, Composed
    <3> QED  BY <1>2, <1>6, <3>2
  <2>2. (\A f \in Local : Settled(f))'
    BY <1>1, <1>6, <2>1, SameSources, ForwardingStays
  <2> QED  BY <1>3, <1>6, <2>2 DEF StageInv, Done
<1> QED  BY <1>1, <1>4, <1>5, <1>6 DEF CloseSources, Composed

LEMMA DropSources ==
  ASSUME SourceInv, ForwardersAgree, DropMixed
  PROVE  StageInv'
<1>1. /\ program \in Program /\ program' = program /\ pkg' = pkg
      /\ phase = "drop" /\ phase' = "export" /\ Local' = Local
      /\ returnParamSources' = [f \in Function |-> IF Mixed(f) THEN {} ELSE returnParamSources[f]]
  BY PackageStays DEF SourceInv, RunInv, DropMixed
<1>2. /\ AllReal
      /\ \A f \in Local : Grounded(f) /\ Settled(f)
      /\ \A f \in Function \ Local : Faithful(f, returnParamSources[f])
  BY <1>1 DEF SourceInv, SourcesKnown, SourcesReal, StageInv, BeforeDrop
<1>3. ASSUME NEW f \in Local
      PROVE  Faithful(f, returnParamSources[f])'
  <2>1. f \in Function
    BY DEF Local
  <2>2. CASE Mixed(f)
    BY <1>1, <2>1, <2>2 DEF Faithful, Rooted
  <2>3. CASE ~Mixed(f)
    <3>1. Faithful(f, returnParamSources[f]) /\ returnParamSources'[f] = returnParamSources[f]
      BY <1>1, <1>2, <2>1, <2>3, KeptAreFaithful DEF AllReal
    <3> QED  BY <1>1, <3>1, ResultsAtStay DEF Faithful, Covers, Rooted
  <2> QED  BY <2>2, <2>3
<1> QED  BY <1>1, <1>3 DEF StageInv, BeforeDrop, Done

\* What run returns is what the summary has come to.
LEMMA ReturnSources ==
  ASSUME SourceInv, [Next]_vars, Done'
  PROVE  StageInv'
<1>1. program' = program /\ RunInv
  BY FactsChange DEF SourceInv
<1>2. ASSUME NEW f \in Local'
      PROVE  Truthful(f, Summary.sources[f])'
  <2>1. Truthful(f, Summary'.sources[f])
    <3>1. CASE Summary'.sources[f] = {}
      BY <3>1, NothingIsTruthful
    <3>2. CASE f \in Local /\ phase = "export" /\ Summary'.sources[f] = returnParamSources[f]
      BY <3>2 DEF SourceInv, SourcesKnown, SourcesReal, StageInv, AllReal, Truthful, Local
    <3>3. CASE f \in Local /\ Done /\ Summary' = Summary
      BY <3>3 DEF SourceInv, SourcesKnown, StageInv
    <3> QED  BY <1>1, <1>2, <3>1, <3>2, <3>3, SummaryComesFrom
  <2>2. \A s : Real(f, s)' = Real(f, s)
    BY <1>1, SayingsStay
  <2> QED  BY <1>1, <2>1, <2>2, ResultsAtStay DEF Truthful, Faithful, Covers, Rooted
<1> QED  BY <1>2 DEF StageInv, BeforeDrop, Done

LEMMA StageStep ==
  ASSUME SourceInv, ForwardersAgree, [Next]_vars
  PROVE  StageInv'
<1>1. CASE OutOfScope \/ Export
  BY <1>1, ReturnSources DEF OutOfScope, Export, Done
<1>2. CASE Collect
  BY <1>2, CollectSources
<1>3. CASE Import
  BY <1>3, ImportSources
<1>4. CASE CloseWrites \/ CloseReads \/ CloseEffects
  BY <1>4, CloseOthers
<1>5. CASE CloseSources
  BY <1>5, CloseSourcesStep
<1>6. CASE DropMixed
  BY <1>6, DropSources
<1>7. CASE NextPackage
  BY <1>7 DEF NextPackage, StageInv, BeforeDrop, Done
<1>8. CASE UNCHANGED vars
  <2>1. /\ program' = program /\ pkg' = pkg /\ returnParamSources' = returnParamSources
        /\ phase' = phase /\ changed' = changed /\ work' = work /\ summaries' = summaries
    BY <1>8 DEF vars, summary
  <2>2. Local' = Local /\ (Results!Forwarding)' = Results!Forwarding /\ Summary' = Summary
    BY <2>1, ForwardingStays DEF Summary
  <2>3. \A f, s : Real(f, s)' = Real(f, s)
    BY <2>1, SayingsStay
  <2>4. \A f : Truthful(f, Summary.sources[f])' = Truthful(f, Summary.sources[f])
    BY <2>1, <2>2, <2>3, ResultsAtStay DEF Truthful, Faithful, Covers, Rooted
  <2>5. StageInv
    BY DEF SourceInv, SourcesKnown
  <2> QED  BY <2>1, <2>2, <2>4, <2>5, SameSources DEF StageInv, Done
<1> QED  BY <1>1, <1>2, <1>3, <1>4, <1>5, <1>6, <1>7, <1>8 DEF Next

LEMMA FactsTruthfulStep ==
  ASSUME SourceInv, [Next]_vars
  PROVE  FactsTruthful'
<1>1. program' = program /\ RunInv
  BY FactsChange DEF SourceInv
<1>2. ASSUME NEW n \in 1..Len(facts'), NEW f \in DOMAIN facts'[n] \cap Function
      PROVE  Truthful(f, facts[n][f].sources)'
  <2>1. Truthful(f, facts'[n][f].sources)
    <3>1. CASE n \in 1..Len(facts) /\ facts'[n] = facts[n]
      BY <1>2, <3>1 DEF SourceInv, FactsTruthful
    <3>2. CASE phase = "export" /\ f \in Local /\ facts'[n][f].sources = returnParamSources[f]
      BY <3>2 DEF SourceInv, SourcesKnown, SourcesReal, StageInv, AllReal, Truthful, Local
    <3> QED  BY <1>1, <1>2, <3>1, <3>2, FactsComeFrom
  <2>2. \A s : Real(f, s)' = Real(f, s)
    BY <1>1, SayingsStay
  <2> QED  BY <1>1, <2>1, <2>2, ResultsAtStay DEF Truthful, Faithful, Covers, Rooted
<1> QED  BY <1>2 DEF FactsTruthful

LEMMA SourceInvInit == Init => SourceInv
<1> SUFFICES ASSUME Init
             PROVE  SourceInv
  OBVIOUS
<1>1. program \in Program /\ 1 \in DOMAIN program.order
  <2>1. program.order \in Seq({program.func[f].pkg : f \in Function}) \ {<<>>}
    BY ProgramAssumption DEF Init
  <2> QED  BY <2>1 DEF Init
<1>2. <<>> \in Seq(Range(<<>>)) /\ Len(<<>>) = 0
  OBVIOUS
<1>3. RunInv
  BY <1>1, <1>2 DEF Init, RunInv, Nothing, ASequence
<1>4. SourcesKnown
  BY DEF Init, Nothing, SourcesKnown, SourcesReal, AllReal, StageInv, BeforeDrop, Done
<1> QED  BY <1>2, <1>3, <1>4 DEF Init, SourceInv, FactsTruthful

\* What a summary says of the sources of a result, whatever forwards it, is so of one
\* that the function returns without an error, if there is any.
SourcesMeant ==
  Done => \A f \in Local : \A s \in Summary.sources[f] : RealIn(ActualResults[f], s)

\* collectReturnSites, recordFieldParamSource, composeReturnParamSources and the facts
\* invent nothing: every argument that is said to be in a field of a result, or to be
\* the result, is there on one return at least.
THEOREM NoSourceInvented == Spec => []SourcesMeant
<1>1. Init => RealInv
  BY SourceInvInit, SourcesAreInReal
<1>2. RealInv => SourcesMeant
  <2>1. Depth \in 0..Depth /\ ActualResults = ResultsAt[Depth]
    BY DepthAssumption DEF ActualResults
  <2> QED  BY <2>1 DEF RealInv, SourcesMeant, Real
<1> QED  BY <1>1, <1>2, RealInvStep, PTL DEF Spec

\* collectReturnSites, recordFieldParamSource, the facts, closeReturnParamSources and
\* dropMixedResultParamSources: where forwarders agree with those they forward to, a
\* result that callers are told to be their argument is that argument on every return,
\* through however many functions, circles of them and packages it was passed; and a
\* field of which they are told so has it on one return at least.
THEOREM SourcesAreReal == Spec /\ []ForwardersAgree => []SourcesHold
<1>1. SourceInv => SourcesHold
  <2> SUFFICES ASSUME SourceInv, Done, NEW f \in Local, NEW path \in Shape,
                      Resolved(Summary.sources[f], path),
                      NEW param \in ParamsOf(Summary.sources[f], path)
               PROVE  LET holds == {result \in ActualResults[f] : result[path] = Arg(param.at, param.path)}
                      IN  /\ Rooted(Summary.sources[f]) => holds = ActualResults[f]
                          /\ ActualResults[f] # {} => holds # {}
    BY DEF SourcesHold, Rooted
  <2>1. Truthful(f, Summary.sources[f]) /\ f \in Function
    BY DEF SourceInv, SourcesKnown, StageInv, Local
  <2> QED  BY <2>1, SourcesThatHold DEF Truthful
<1>2. SourceInv /\ ForwardersAgree /\ [Next]_vars => SourceInv'
  BY RunInvStep, RealStep, StageStep, FactsTruthfulStep, SourcesAreInReal DEF SourceInv, SourcesKnown
<1> QED  BY <1>1, <1>2, SourceInvInit, PTL DEF Spec
===================================================================================
