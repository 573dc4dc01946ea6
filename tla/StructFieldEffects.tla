---------------------------- MODULE StructFieldEffects ----------------------------
(****************************************************************************)
(* The summary of what functions do to the fields of structs that cross     *)
(* their boundary (assertion/function/structfieldeffects): the fields they  *)
(* read and write through parameters, the fields of their results that are  *)
(* nil, and the results that are an argument of the caller.  Every package  *)
(* collects from its source, imports the facts of the packages it calls,    *)
(* closes the summary over forwarding calls and exports a fact.             *)
(*                                                                          *)
(* A function has at most one result besides an error.  An expression is a  *)
(* field chain from a variable, a call, an allocation (with an initializer  *)
(* for each path of its nested literals), nil, or something else.           *)
(****************************************************************************)
EXTENDS Naturals, Sequences, SequencesExt

CONSTANTS
  Program,   \* the programs that may be analysed
  Function,  \* the names of functions
  Fields,    \* for each struct type, the type and nilability of its fields
  Path,      \* the field paths that may occur
  None       \* no type, no value

\* A package comes after those that it imports, and calls what they export.
ASSUME ProgramAssumption ==
  \A p \in Program :
    /\ p.order \in Seq({p.func[f].pkg : f \in Function}) \ {<<>>}
    /\ \A i, j \in DOMAIN p.order : p.order[i] = p.order[j] => i = j
    /\ \A f \in Function : \E i \in DOMAIN p.order : p.func[f].pkg = p.order[i]
    /\ \A f \in Function : \A s \in Range(p.func[f].body) :
         /\ s.value.kind = "call" =>
              LET g == s.value.callee
              IN  /\ g \in Function
                  /\ \/ p.func[g].pkg = p.func[f].pkg
                     \/ /\ p.func[g].exported
                        /\ \E i, j \in DOMAIN p.order :
                             i < j /\ p.order[i] = p.func[g].pkg /\ p.order[j] = p.func[f].pkg
         /\ s.value.kind = "alloc" => <<>> \notin DOMAIN s.value.init

ASSUME PathAssumption == Path \subseteq Seq(UNION {DOMAIN Fields[type] : type \in DOMAIN Fields}) \ {<<>>}

VARIABLES
  program,        \* the program; never changes
  pkg,            \* the number of the package that is analysed
  phase,          \* where run is
  paramReads, paramWrites, returnReads, returnEffects, returnParamSources,  \* the summary
  work,           \* the worklist of the closure that runs, or what a pass has left
  changed,        \* whether the pass over the sources has added one
  facts,          \* the fact of each package, a function from what it lists
  summaries       \* what run has returned for each package

summary == <<paramReads, paramWrites, returnReads, returnEffects, returnParamSources>>
vars == <<program, pkg, phase, summary, work, changed, facts, summaries>>

-----------------------------------------------------------------------------
(* Field paths. *)

Struct == DOMAIN Fields
Root == <<>>

\* The field at the end of path in a value of the struct type, or None.
FieldAt(type, path) ==
  LET step(at, name) ==
        IF at # None /\ at.type \in Struct /\ name \in DOMAIN Fields[at.type]
          THEN Fields[at.type][name] ELSE None
  IN  FoldLeft(step, [type |-> type, nilable |-> TRUE], path)

\* The path can be followed without coming to a struct type twice.
FieldPathIsAcyclic(type, path) ==
  LET typeAt(i) == FieldAt(type, SubSeq(path, 1, i)).type
  IN  /\ type \in Struct /\ FieldAt(type, path) # None
      /\ \A i \in 1..(Len(path) - 1) : \A j \in 0..(i - 1) : typeAt(i) # typeAt(j)

\* The field paths above a path, the root aside.
Above(path) == Prefixes(Front(path)) \ {Root}

FieldName == UNION {DOMAIN Fields[type] : type \in DOMAIN Fields}

\* What the type checker knows of a statement: a chain selects fields, a call has an
\* argument for every parameter, a literal within a literal belongs to a field that
\* is given one, and what is bound to a call is a new local.
ASSUME BodyAssumption ==
  \A p \in Program : \A f \in Function : \A s \in Range(p.func[f].body) :
    LET e == s.value
        selects(x) == x.kind = "chain" => x.path \in Seq(FieldName)
    IN  /\ s.do = "bind" => s.to.base \notin DOMAIN p.func[f].params
        /\ selects(e)
        /\ e.kind = "call" => /\ DOMAIN e.args = DOMAIN p.func[e.callee].params
                              /\ \A a \in DOMAIN e.args : selects(e.args[a])
        /\ e.kind = "alloc" =>
             \A path \in DOMAIN e.init :
               /\ selects(e.init[path])
               /\ \A inner \in DOMAIN e.init : path \in Above(inner) => e.init[path].kind = "alloc"

-----------------------------------------------------------------------------
(* What a function's body says. *)

Of(f) == program.func[f]
Statements(f) == Range(Of(f).body)
Returns(f) == {i \in DOMAIN Of(f).body : Of(f).body[i].do = "return"}
IsParam(f, v) == v \in DOMAIN Of(f).params

\* The chains whose fields an expression reads.
ChainsIn(e) ==
  CASE e.kind = "chain" -> {e}
    [] e.kind = "call" -> {a \in Range(e.args) : a.kind = "chain"}
    [] e.kind = "alloc" -> {a \in Range(e.init) : a.kind = "chain"}
    [] OTHER -> {}

\* The read demand on a variable of a type: what must not be nil for the chains to
\* be followed, and the nilable fields whose value is read.
Demand(f, v, type) ==
  LET read == {c.path : c \in {c \in UNION {ChainsIn(s.value) : s \in Statements(f)} : c.base = v}}
      assigned == {s.to.path : s \in {s \in Statements(f) : s.do = "write" /\ s.to.base = v}}
  IN  {path \in read : path # Root /\ FieldAt(type, path).nilable}
      \cup UNION {Above(path) : path \in {p \in read \cup assigned : p # Root}}

\* Calls that occur anywhere in the body.
Calls(f) == {e \in {s.value : s \in Statements(f)} : e.kind = "call"}

\* A local that is bound to a call or an allocation, and used only as what is returned.
BoundTo(f, v) == {s.value : s \in {s \in Statements(f) : s.do = "bind" /\ s.to.base = v}}
AnyLocal(f, v) == TRUE
StableLocal(f, v) ==
  \A s \in Statements(f) :
    /\ s.do # "return" => v \notin {c.base : c \in ChainsIn(s.value)}
    /\ s.do \in {"write", "assign"} => s.to.base # v
    /\ (s.do = "return" /\ v \in {c.base : c \in ChainsIn(s.value)}) =>
         s.value.kind = "chain" /\ s.value.path = Root

\* A parameter that is reassigned or has its address taken.
UnstableParams(f) == {s.to.base : s \in {s \in Statements(f) : s.do = "assign"}}

\* The parameter, or the field of one, that an expression is.
ParamSource(f, e) ==
  IF e.kind = "chain" /\ IsParam(f, e.base) /\ e.base \notin UnstableParams(f)
    THEN {[at |-> e.base, path |-> e.path]} ELSE {}

-----------------------------------------------------------------------------
(* What is collected from the return statements. *)

\* return f(): one expression for every result; it is passed over.
Spreads(f, s) == s.value.kind = "call" /\ Of(f).errs /\ Of(s.value.callee).errs
ReturnsErr(f, s) == ~Spreads(f, s) /\ Of(f).errs /\ s.fails

\* The sites that describe the result.
Sites(f) ==
  IF Of(f).result = None THEN {}
  ELSE {s \in {Of(f).body[i] : i \in Returns(f)} : ~Spreads(f, s) /\ ~ReturnsErr(f, s)}

\* The allocation that a site returns, directly or through a stable local.
AllocationsAt(f, s) ==
  CASE s.value.kind = "alloc" -> {s.value}
    [] s.value.kind = "chain" /\ s.value.path = Root /\ StableLocal(f, s.value.base) ->
         {e \in BoundTo(f, s.value.base) : e.kind = "alloc"}
    [] OTHER -> {}
Constructions(f) == UNION {AllocationsAt(f, s) : s \in Sites(f)}
HasConstructSite(f) == Constructions(f) # {}

\* The fields that one allocation gives a value: a nested literal, or a value
\* struct that is left out, is entered.
Enumerated(f, alloc) ==
  {path \in Path :
     /\ path # Root /\ FieldPathIsAcyclic(Of(f).result, path)
     /\ \A outer \in Above(path) :
          IF outer \in DOMAIN alloc.init THEN alloc.init[outer].kind = "alloc"
          ELSE ~FieldAt(alloc.type, outer).nilable}

NilFields(f, alloc) ==
  {path \in Enumerated(f, alloc) :
     /\ FieldAt(alloc.type, path).nilable
     /\ path \in DOMAIN alloc.init => alloc.init[path].kind = "nil"}

FieldSources(f, alloc) ==
  UNION {{[result |-> path, param |-> source] :
            source \in {s \in ParamSource(f, alloc.init[path]) :
                          s.path = Root \/ FieldPathIsAcyclic(Of(f).params[s.at], s.path)}} :
           path \in Enumerated(f, alloc) \cap DOMAIN alloc.init}

OnlyReturn(f) == \E i \in Returns(f) : Returns(f) = {i}

\* The sources of the whole result stay when every site has one, or when the
\* mixture with constructions is still to be looked at.
WholeSources(f) ==
  LET direct == {i \in Returns(f) : Of(f).body[i] \in Sites(f) /\ ParamSource(f, Of(f).body[i].value) # {}}
      counted == {i \in Returns(f) : ~ReturnsErr(f, Of(f).body[i])}
  IN  IF OnlyReturn(f) \/ direct = counted \/ HasConstructSite(f)
        THEN {[result |-> Root, param |-> source] :
                source \in UNION {ParamSource(f, Of(f).body[i].value) : i \in direct}}
        ELSE {}

\* The arguments of a returned call, when each is a stable parameter and nothing
\* else is returned.
ForwardedArgs(f, call) ==
  IF OnlyReturn(f) /\ \A a \in DOMAIN call.args : ParamSource(f, call.args[a]) # {}
    THEN [a \in DOMAIN call.args |-> CHOOSE source \in ParamSource(f, call.args[a]) : TRUE]
    ELSE <<>>

\* The calls whose result a function returns, with what is needed to inherit.
ReturnEdges(f) ==
  LET edge(call, args) ==
        [callee |-> call.callee, args |-> args, params |-> Of(f).params, type |-> Of(f).result]
      direct == {s.value : s \in {s \in Sites(f) : s.value.kind = "call"}}
      bound == UNION {{e \in BoundTo(f, s.value.base) : e.kind = "call"} :
                        s \in {s \in Sites(f) : s.value.kind = "chain" /\ s.value.path = Root
                                                  /\ StableLocal(f, s.value.base)}}
  IN  {e \in {edge(call, ForwardedArgs(f, call)) : call \in {c \in direct : ~Of(c.callee).errs}}
             \cup {edge(call, <<>>) : call \in bound} : Of(e.callee).result # None}

-----------------------------------------------------------------------------
(* What is collected from the rest of the body. *)

ReadsOf(f) ==
  UNION {{[at |-> v, path |-> path] : path \in Demand(f, v, Of(f).params[v])} : v \in DOMAIN Of(f).params}

\* Only nilable fields behind a pointer parameter count as written.
WritesOf(f) ==
  {w \in {[at |-> s.to.base, path |-> s.to.path] : s \in {s \in Statements(f) : s.do = "write"}} :
     /\ IsParam(f, w.at) /\ w.at \notin Of(f).values
     /\ FieldPathIsAcyclic(Of(f).params[w.at], w.path)
     /\ FieldAt(Of(f).params[w.at], w.path).nilable}

\* The fields read of the results of other functions.
ReturnReadsOf(f) ==
  UNION {LET v == s.to.base
             callee == s.value.callee
         IN  {[callee |-> callee, path |-> path] : path \in Demand(f, v, Of(callee).result)} :
           s \in {s \in Statements(f) : s.do = "bind" /\ s.value.kind = "call"
                                          /\ Of(s.value.callee).result # None}}

\* The parameters that are passed on, whole or from a field.
ParamEdges(f) ==
  UNION {{[callee |-> call.callee, param |-> a, at |-> call.args[a].base,
           prefix |-> call.args[a].path, type |-> Of(f).params[call.args[a].base]] :
            a \in {a \in DOMAIN call.args : call.args[a].kind = "chain"
                                               /\ IsParam(f, call.args[a].base)}} :
           call \in Calls(f)}

-----------------------------------------------------------------------------
(* The closures. *)

InheritParam(f, edge, effect) ==
  LET path == edge.prefix \o effect.path
  IN  IF effect.at = edge.param /\ FieldPathIsAcyclic(edge.type, path)
        THEN {[at |-> edge.at, path |-> path]} ELSE {}

InheritResult(f, edge, path) == IF FieldPathIsAcyclic(edge.type, path) THEN {path} ELSE {}

\* A source of the callee, re-rooted at what the caller passes for its parameter.
Compose(edge, source) ==
  IF source.param.at \notin DOMAIN edge.args THEN {}
  ELSE LET arg == edge.args[source.param.at]
           path == arg.path \o source.param.path
       IN  IF path = Root \/ FieldPathIsAcyclic(edge.params[arg.at], path)
             THEN {[result |-> source.result, param |-> [at |-> arg.at, path |-> path]]} ELSE {}

Package == program.order[pkg]
Local == {f \in Function : Of(f).pkg = Package}
Called == UNION {{call.callee : call \in Calls(f)} : f \in Local}

\* Edges of the functions of the package; others have none.
OfLocal(edgesOf(_)) == [f \in Function |-> IF f \in Local THEN edgesOf(f) ELSE {}]

Writes == INSTANCE FieldClosure WITH
  effects <- paramWrites, edges <- OfLocal(ParamEdges), Inherit <- InheritParam
Reads == INSTANCE FieldClosure WITH
  effects <- paramReads, edges <- OfLocal(ParamEdges), Inherit <- InheritParam
Results == INSTANCE FieldClosure WITH
  effects <- returnEffects, edges <- OfLocal(ReturnEdges), Inherit <- InheritResult

-----------------------------------------------------------------------------
(* The run of the analyzer on each package, in the order of imports. *)

Nothing == [f \in Function |-> {}]

Init ==
  /\ program \in Program
  /\ pkg = 1
  /\ phase = "collect"
  /\ paramReads = Nothing /\ paramWrites = Nothing /\ returnReads = Nothing
  /\ returnEffects = Nothing /\ returnParamSources = Nothing
  /\ work = {}
  /\ changed = FALSE
  /\ facts = <<>>
  /\ summaries = <<>>

\* A package out of scope has an empty summary and no fact.
OutOfScope ==
  /\ phase = "collect" /\ Package \notin program.scope
  /\ facts' = Append(facts, <<>>)
  /\ summaries' = Append(summaries, [reads |-> Nothing, writes |-> Nothing,
                                     effects |-> Nothing, sources |-> Nothing])
  /\ phase' = "done"
  /\ UNCHANGED <<program, pkg, summary, work, changed>>

Collect ==
  /\ phase = "collect" /\ Package \in program.scope
  /\ paramReads' = OfLocal(ReadsOf)
  /\ paramWrites' = OfLocal(WritesOf)
  /\ returnReads' = [callee \in Function |->
       UNION {{r.path : r \in {r \in ReturnReadsOf(f) : r.callee = callee}} : f \in Local}]
  /\ returnEffects' = OfLocal(LAMBDA f : UNION {NilFields(f, alloc) : alloc \in Constructions(f)})
  /\ returnParamSources' =
       OfLocal(LAMBDA f : WholeSources(f) \cup UNION {FieldSources(f, alloc) : alloc \in Constructions(f)})
  /\ phase' = "import"
  /\ UNCHANGED <<program, pkg, work, changed, facts, summaries>>

\* The facts of the functions of other packages that are called.
Import ==
  /\ phase = "import"
  /\ LET fact(f) == IF f \in Called \ Local /\ \E n \in DOMAIN facts : f \in DOMAIN facts[n]
                      THEN facts[CHOOSE n \in DOMAIN facts : f \in DOMAIN facts[n]][f]
                      ELSE [reads |-> {}, writes |-> {}, effects |-> {}, sources |-> {}]
     IN  /\ paramReads' = [f \in Function |-> paramReads[f] \cup fact(f).reads]
         /\ paramWrites' = [f \in Function |-> paramWrites[f] \cup fact(f).writes]
         /\ returnEffects' = [f \in Function |-> returnEffects[f] \cup fact(f).effects]
         /\ returnParamSources' = [f \in Function |-> returnParamSources[f] \cup fact(f).sources]
  /\ work' = Writes!Forwarding
  /\ phase' = "writes"
  /\ UNCHANGED <<program, pkg, returnReads, changed, facts, summaries>>

CloseWrites ==
  /\ phase = "writes"
  /\ \/ Writes!Step /\ UNCHANGED phase
     \/ work = {} /\ work' = Reads!Forwarding /\ phase' = "reads" /\ UNCHANGED paramWrites
  /\ UNCHANGED <<program, pkg, paramReads, returnReads, returnEffects, returnParamSources,
                 changed, facts, summaries>>

CloseReads ==
  /\ phase = "reads"
  /\ \/ Reads!Step /\ UNCHANGED phase
     \/ work = {} /\ work' = Results!Forwarding /\ phase' = "effects" /\ UNCHANGED paramReads
  /\ UNCHANGED <<program, pkg, paramWrites, returnReads, returnEffects, returnParamSources,
                 changed, facts, summaries>>

CloseEffects ==
  /\ phase = "effects"
  /\ \/ Results!Step /\ UNCHANGED <<phase, changed>>
     \/ /\ work = {} /\ work' = Results!Forwarding
        /\ changed' = FALSE /\ phase' = "sources" /\ UNCHANGED returnEffects
  /\ UNCHANGED <<program, pkg, paramReads, paramWrites, returnReads, returnParamSources,
                 facts, summaries>>

\* Passes over the functions that forward a result, until one adds nothing.
CloseSources ==
  /\ phase = "sources"
  /\ \/ \E f \in work :
          LET composed == UNION {UNION {Compose(edge, source) : source \in returnParamSources[edge.callee]} :
                                   edge \in ReturnEdges(f)}
          IN  /\ returnParamSources' = [returnParamSources EXCEPT ![f] = @ \cup composed]
              /\ changed' = (changed \/ ~(composed \subseteq returnParamSources[f]))
              /\ work' = work \ {f}
              /\ UNCHANGED phase
     \/ /\ work = {} /\ changed
        /\ work' = Results!Forwarding /\ changed' = FALSE
        /\ UNCHANGED <<phase, returnParamSources>>
     \/ /\ work = {} /\ ~changed /\ phase' = "drop"
        /\ UNCHANGED <<work, changed, returnParamSources>>
  /\ UNCHANGED <<program, pkg, paramReads, paramWrites, returnReads, returnEffects, facts, summaries>>

MixedByConstruction(f) ==
  /\ f \in Local /\ HasConstructSite(f)
  /\ \E source \in returnParamSources[f] : source.result = Root

\* A result that is constructed, or has a nil field, and is an argument as a whole
\* on another path loses both summaries.
Mixed(f) ==
  /\ (f \in Local /\ HasConstructSite(f)) \/ returnEffects[f] # {}
  /\ \E source \in returnParamSources[f] : source.result = Root

DropMixed ==
  /\ phase = "drop"
  /\ returnParamSources' = [f \in Function |-> IF Mixed(f) THEN {} ELSE returnParamSources[f]]
  /\ returnEffects' = [f \in Function |-> IF Mixed(f) THEN {} ELSE returnEffects[f]]
  /\ phase' = "export"
  /\ UNCHANGED <<program, pkg, paramReads, paramWrites, returnReads, work, changed, facts, summaries>>

\* The fact lists the exported functions of the package that have something to tell.
Export ==
  /\ phase = "export"
  /\ LET entry == [f \in {f \in Local : Of(f).exported} |->
                     [reads |-> paramReads[f], writes |-> paramWrites[f],
                      effects |-> returnEffects[f], sources |-> returnParamSources[f]]]
         told == {f \in DOMAIN entry : \E part \in DOMAIN entry[f] : entry[f][part] # {}}
     IN  facts' = Append(facts, [f \in told |-> entry[f]])
  /\ summaries' = Append(summaries, [reads |-> paramReads, writes |-> paramWrites,
                                     effects |-> returnEffects, sources |-> returnParamSources])
  /\ phase' = "done"
  /\ UNCHANGED <<program, pkg, summary, work, changed>>

NextPackage ==
  /\ phase = "done" /\ pkg < Len(program.order)
  /\ pkg' = pkg + 1
  /\ phase' = "collect"
  /\ paramReads' = Nothing /\ paramWrites' = Nothing /\ returnReads' = Nothing
  /\ returnEffects' = Nothing /\ returnParamSources' = Nothing
  /\ UNCHANGED <<program, work, changed, facts, summaries>>

Next ==
  \/ OutOfScope \/ Collect \/ Import
  \/ CloseWrites \/ CloseReads \/ CloseEffects \/ CloseSources
  \/ DropMixed \/ Export \/ NextPackage

Spec == Init /\ [][Next]_vars
FairSpec == Spec /\ WF_vars(Next)

-----------------------------------------------------------------------------
(* What a program does, to compare the summaries with: calls are followed to a depth *)
(* that no call of the programs at hand exceeds without repeating itself.          *)

CONSTANT Depth

ASSUME DepthAssumption == Depth \in Nat

InScope(f) == Of(f).pkg \in program.scope
OfScope(of(_)) == [f \in Function |-> IF InScope(f) THEN of(f) ELSE {}]
AllParamEdges == OfScope(ParamEdges)

\* What functions do to fields of their parameters when their callees do what is in
\* below, whatever the packages.
WithCallees(edges, below) ==
  [f \in Function |-> below[f] \cup
     UNION {UNION {InheritParam(f, edge, effect) : effect \in below[edge.callee]} : edge \in edges[f]}]

Whole(own, edges) ==
  LET at[n \in 0..Depth] == IF n = 0 THEN own ELSE WithCallees(edges, at[n - 1])
  IN  at[Depth]

WholeReads == Whole(OfScope(ReadsOf), AllParamEdges)
WholeWrites == Whole(OfScope(WritesOf), AllParamEdges)

\* The depth is long enough: one more call adds nothing.
DepthSuffices ==
  /\ WithCallees(AllParamEdges, WholeReads) = WholeReads
  /\ WithCallees(AllParamEdges, WholeWrites) = WholeWrites

\* A result: for each field path, whether the value there is nil, new, the value
\* that an argument has at some path, or something else.
Nil == <<"nil">>
New == <<"new">>
Other == <<"other">>
Arg(v, path) == <<"arg", v, path>>
Shape == Path \cup {Root}
All(leaf(_)) == [path \in Shape |-> leaf(path)]

After(prefix, path) == SubSeq(path, Len(prefix) + 1, Len(path))

\* The value of a simple expression at a path.
Simple(f, e, path) ==
  CASE e.kind = "nil" -> IF path = Root THEN Nil ELSE Other
    [] e.kind = "chain" /\ IsParam(f, e.base)
         /\ \A s \in Statements(f) : s.do = "assign" => s.to.base # e.base ->
         Arg(e.base, e.path \o path)
    [] OTHER -> Other

Allocated(f, e, path) ==
  LET inits == {p \in Prefixes(path) : p \in DOMAIN e.init}
      last == IF inits = {} THEN Root ELSE CHOOSE p \in inits : \A r \in inits : Len(r) <= Len(p)
      omitted == {p \in Prefixes(path) : Len(p) > Len(last) /\ FieldAt(e.type, p).nilable}
  IN  IF inits # {} /\ e.init[last].kind # "alloc" THEN Simple(f, e.init[last], After(last, path))
      ELSE IF omitted = {} THEN New
      ELSE IF omitted = {path} THEN Nil ELSE Other

\* What a result of the callee is to the caller.
Substitute(f, call, result) ==
  All(LAMBDA path : LET leaf == result[path]
                    IN  IF Len(leaf) = 1 THEN leaf
                        ELSE IF leaf[2] \in DOMAIN call.args THEN Simple(f, call.args[leaf[2]], leaf[3])
                        ELSE Other)

\* The value of a local, with what is assigned to its fields after it is bound.
Overwritten(f, v, value) ==
  LET written == {s.to.path : s \in {s \in Statements(f) : s.do \in {"write", "assign"} /\ s.to.base = v}}
  IN  All(LAMBDA path : IF written \cap Prefixes(path) # {} THEN Other ELSE value[path])

\* The results of the returns of f that are no error, its callees having those given.
ResultsGiven(f, given) ==
  LET of(e) == CASE e.kind = "alloc" -> {All(LAMBDA path : Allocated(f, e, path))}
                 [] e.kind = "call" -> {Substitute(f, e, result) : result \in given[e.callee]}
                 [] OTHER -> {All(LAMBDA path : Simple(f, e, path))}
      local(e) == e.kind = "chain" /\ e.path = Root /\ BoundTo(f, e.base) # {}
      values == {s.value : s \in {s \in Statements(f) : s.do = "return" /\ ~ReturnsErr(f, s)}}
  IN  UNION ({of(e) : e \in {e \in values : ~local(e)}} \cup
             {{Overwritten(f, e.base, value) : value \in UNION {of(b) : b \in BoundTo(f, e.base)}} :
                e \in {e \in values : local(e)}})

\* The results that come about with a number of calls below each other at most.
ResultsAt[n \in 0..Depth] ==
  IF n = 0 THEN [f \in Function |-> {}]
  ELSE LET below == ResultsAt[n - 1] IN [f \in Function |-> ResultsGiven(f, below)]

ActualResults == ResultsAt[Depth]

\* The field paths at which a result is nil, and that the depth is long enough for them.
NilIn(results) == {path \in Shape : \E result \in results : result[path] = Nil}
NilDepthSuffices ==
  \A f \in Function : NilIn(ResultsGiven(f, ActualResults)) \subseteq NilIn(ActualResults[f])

Done == phase = "done"
Summary == summaries[pkg]

-----------------------------------------------------------------------------
\* The summaries of packages that see each other's facts only are those of the whole
\* program: whatever is read or written by way of any chain of calls, also through
\* functions that are not exported, recursion, or swapped parameters, and no more.
WholeProgram ==
  Done /\ Package \in program.scope =>
    /\ \A f \in Local : Summary.reads[f] = WholeReads[f]
    /\ \A f \in Local : Summary.writes[f] = WholeWrites[f]

\* ReturnParamSources.ParamPathFromResultPath: the parameter that the sources give
\* for a path of the result; none when they disagree.
ParamsOf(sources, path) ==
  {[at |-> s.param.at, path |-> s.param.path \o After(s.result, path)] :
     s \in {s \in sources : s.result \in Prefixes(path)}}

Resolved(sources, path) ==
  \E param \in ParamsOf(sources, path) : ParamsOf(sources, path) = {param}

\* A result that callers are told to be their argument as a whole is that argument,
\* on every return, however many calls it was passed through; what they are told of
\* one field is so on a return at least.
SourcesHold ==
  Done => \A f \in Local : \A path \in Shape :
    LET sources == Summary.sources[f]
    IN  Resolved(sources, path) =>
          \A param \in ParamsOf(sources, path) :
            LET holds == {result \in ActualResults[f] : result[path] = Arg(param.at, param.path)}
            IN  /\ (\E s \in sources : s.result = Root) => holds = ActualResults[f]
                /\ ActualResults[f] # {} => holds # {}

\* What SourcesHold needs of the programs: of a function that passes on what another
\* one makes of its parameters, and is said to return an argument, it is dropped if it
\* is dropped of that one, and what is said of that one can be said of it.
\* dropMixedResultParamSources and composeReturnParamSources do not see to it.
ForwardersAgree ==
  phase = "drop" =>
    \A f \in Local : (\E s \in returnParamSources[f] : s.result = Root) =>
      \A edge \in {e \in ReturnEdges(f) : e.args # <<>>} :
        /\ Mixed(edge.callee) => Mixed(f)
        /\ \A s \in returnParamSources[edge.callee] : s.result = Root => Compose(edge, s) # {}

\* A field that is said to be nil in the result of a function is nil in one that it
\* returns without an error, its own or one of a function it calls.
EffectsReal ==
  Done => \A f \in Local : Summary.effects[f] \subseteq NilIn(ActualResults[f])

\* The closures end, also where functions call each other with fields of their own
\* parameters, of which there are longer and longer ones.
EveryPackageDone == <>(Done /\ pkg = Len(program.order))
===================================================================================
