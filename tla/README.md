# A verification project for NilAway

NilAway is a static analysis that finds possible nil panics in Go programs. It
is a set of `go/analysis` analyzers: some find, inside each function, the *full
triggers* ("if this producer is nil, this consumer gets nil"), one infers from
the triggers of a package, and from the facts of the packages it imports, which
annotation sites (parameters, results, fields, globals) are nilable, and reports
a conflict for every flow of nil to a place that does not take it.

This directory holds TLA+ models of the parts of the program that decide what is
reported, TLC configurations that check them on small instances, and proofs that
hold for instances of every size: of the inference engine, of separate analysis
with facts, of the error contract, of the pool of goroutines, of the diagnostics
and of the summaries of field effects. Line numbers are those of the repository beside it.

## 1. Inventory

### Components

| Component | State | Operations | Talks to |
|---|---|---|---|
| Inference engine `inference/engine.go`, `inferred_map.go`, `inferred_value.go`, `explained_bool.go`, `util/orderedmap` | the inferred map (site → determined value with an explanation, or an undetermined one with ordered edges both ways), the controlled triggers | `ObserveAnnotations`, `ObservePackage`, `observeSiteExplanation`, `observeImplication`, the two error-return filters, `activateControlledTriggers` | gets triggers from the assertion analyzers, hands conflicts to the diagnostic engine |
| Facts between packages `accumulation/analyzer.go`, `ObserveUpstream`, `Export` | one fact for each analysed package; the upstream copy of the map | observe the facts of all dependencies, copy, export what is new | the driver, which analyses packages in dependency order |
| Function analyzer `assertion/function/analyzer.go` | goroutines, a wait group, an unbuffered channel, the results by function index | spawn, analyse, send, close, collect, duplicate the triggers of contracted functions into their callers | runs backpropagation for each function |
| Backpropagation `assertion/function/assertiontree/backprop.go`, `backprop_util.go` | for each block the assertion tree of this and the last round, what was updated, the triggers at the entry, the round counters | process a block, end a round, stop, give up | the CFG after preprocessing, the rich check effects |
| Assertion trees `root_assertion_node.go`, `*_assertion_node.go`, `parse_expr_producer.go`, `util.go`, `producer/` | a tree of trackable expressions with consumers and guards, a list of triggers | lift, land, produce, consume, guard, merge, resolve at the entry | backpropagation |
| Return statements `backprop.go`, `backprop_util.go`, `root_assertion_node.go`, `inference/engine.go` (the error contract) | the trackers of a function's returns, in the triggers | classify each return, make its consumers, filter at the end of the function, filter again in the engine | backpropagation, engine |
| Rich check effects `rich_check_effect.go`, `guard/` | for each block the effects that hold at its end | generate, propagate, invalidate, trigger | guards on consumers |
| CFG preprocessing `assertion/function/preprocess/` | a copy of the CFG | split conditions, mark ranges, switches and type switches, inline templ components, cut after calls that do not return | hooks |
| Hooks `hook/` | tables of functions of well-known libraries | the condition after an assertion, the condition a call stands for, non-nil errors | preprocessing, producers |
| Function contracts `assertion/function/functioncontracts/` | nilness tables of SSA blocks; goroutines and a channel | parse, infer, collect, export | function analyzer |
| Struct field effects `assertion/function/structfieldeffects/` | field reads and writes of functions, return contracts | collect, fixed point over calls, export | struct initialisation |
| Struct initialisation `structinit_util.go`, `structinitv2.go` | none of its own | extra producers and consumers for fields (off by default) | assertion trees |
| Annotations `annotation/` | the map of syntactic annotations | parse doc comments, look up | everything |
| Affiliation `assertion/affiliation/` | cache of (interface, implementation) pairs, as a fact | find casts, make triggers | accumulation |
| Anonymous functions `assertion/anonymousfunc/` | closure variables of every literal | collect, make fake declarations | function analyzer |
| Globals and struct fields `assertion/global/`, `assertion/structfield/` | none | one pass over declarations | accumulation |
| Primitivizer `inference/primitive.go` | caches of files and object paths | make sites that mean the same in every package | engine |
| Diagnostic engine `diagnostic/` | the conflicts, nolint ranges, the files of the pass and fake files | add, sort, group, filter, convert positions | the driver |
| Configuration, utilities, commands, test support | none | – | – |

### What is hard about them

* *Order.* Triggers reach the engine in the order of the functions, values
  spread depth first, contracts are activated in the random order of a Go map,
  and a site may be determined before or after the edges that use it. The
  verdict must not depend on any of it.
* *Separate analysis.* A package sees only what its dependencies exported, and
  two dependencies may have determined the same site without knowing of each
  other. The verdict must be the one of the whole program.
* *Concurrency.* The functions of a package are analysed by one goroutine each;
  a function may fail, panic or be cancelled.
* *Fixed points that need not exist.* The assertion trees of a loop may grow for
  ever; the rounds are ended by a heuristic, and by a panic.
* *Summaries.* Contracts, struct field effects, affiliations and error returns
  say in a few words what a function, a package or a pair of types does; a
  summary that is stale, merged too early or found under the wrong key hides a
  flow in another place.
* *Rewriting.* Conditions are split, swapped and replaced before anything looks at
  them; a later pass finds statements by the shape an earlier one left.
* *Late decisions.* The error-return filter asks the map, which is not finished;
  suppression and grouping of diagnostics happen after one another.

### What makes each component correct

* Engine: there is a conflict exactly when the observed constraints contain a
  flow of nil to a place that needs non-nil; without conflicts a site is
  determined exactly when the constraints force its value; nothing observed is
  forgotten, and a determined value is final.
* Facts: analysing packages one by one finds what analysing them together would.
* Function analyzer: the result is the one of a serial analysis; all goroutines
  end; nobody sends on the closed channel.
* Backpropagation: the triggers are the flows of the function's executions.
* Preprocessing: the rewritten graph has the runs of the source; an effect holds
  at a check exactly where it survives every path.
* Contracts: one that was inferred holds of every execution; none is lost.
* Field effects: what a package says of its functions is what the whole program
  does.
* Error returns: a nil is reported exactly where a use of a result may meet it.
* Affiliation, globals, literals: every conversion is compared, every variable
  that is nil after the start is known to be, captured variables are passed in one
  order.
* Diagnostics: a conflict is shown once, in order, unless something suppresses
  it; a position that was handed out stays valid.

## 2. Modules

| Module | What it is |
|---|---|
| `InferenceEngine` | the engine for one package, one call of `observeSiteExplanation` per step, with an explicit call stack |
| `InferenceEngineProofs` | theorems about it: types and finality; conflicts, error filters and controlled triggers |
| `MultiPackage` | extends the engine: packages in dependency order, facts, `ObserveUpstream` and `Export` |
| `MultiPackageProofs` | separate analysis is analysis of the whole |
| `ErrorReturns` | extends the engine: the triggers of return statements and of calls with an error or ok |
| `ErrorReturnsProofs` | the error contract hides nothing and blames nothing safe |
| `SerialFunctionAnalyzer` | abstract: what the analysis of a package promises, function after function |
| `FunctionAnalyzer` | the pool of goroutines, which implements it |
| `FunctionAnalyzerProofs` | the close of the channel, and the safety part of the refinement |
| `ContractPromise` | abstract: which contracts of a package may be in the map, over the executions of its functions |
| `ContractInference`, `FunctionContracts` | the worklist over an SSA form; the pool that runs it, which implements the promise |
| `FunctionContractsProofs` | the safety part of that refinement |
| `FieldClosure` | the worklist that closes effects over forwarding calls, with the callees' effects as a parameter |
| `FieldClosureProofs` | theorems about it |
| `StructFieldEffects` | collection, facts, and three closures, each an INSTANCE of `FieldClosure` |
| `StructFieldEffectsProofs` | the summaries of reads and writes are those of the whole program; the nil fields and the sources of results are real |
| `Hooks`, `Preprocess`, `RichChecks` | conditions of library calls; the passes over the CFG; effects of errors and oks on the result. Each extends the one before |
| `Backpropagation` | the rounds of `BackpropAcrossFunc` and the assertion trees |
| `FunctionExecution` | the execution of the same functions, as the reference for the result |
| `Affiliation`, `GlobalVars`, `Closures` | pure: what the three sub-analyzers make of one package |
| `Declarations` | runs them over packages in dependency order, with the facts of affiliation |
| `Diagnostics` | the diagnostic engine |
| `DiagnosticsProofs` | theorems about it |
| `MC*` | small instances |

Two abstract specifications are implemented by refinement: `ImplementsSerial`
(`FunctionAnalyzer`) and `KeepsPromise` (`FunctionContracts`). Elsewhere the
reference is an operator: the flows of the executions, the runs of the source,
the solutions of all constraints, the effects of the whole program.

### How state and actions correspond to the code

**InferenceEngine.** `nilability`, `reason`, `implicates` and `implicants` are
`InferredMap.mapping` taken apart. A Go recursion is a `callStack` of frames; a
frame holds the controlled triggers its activation has still to run and the
edges it has still to walk, so one step is one call made from a loop of the code
and every interleaving of "walk an edge" with "the map changed meanwhile" that
the recursion can produce occurs, and no other. `ObserveAnnotation`,
`ObserveTrigger` and `ObserveNonErrRet` are the loops that make the outermost
calls, `ObservePackage` prepares them with both error-return filters,
`ActivateControlled` and `Propagate` are the two loops inside
`observeSiteExplanation`. Orders that the code leaves open, and the orders of
slices that come from elsewhere, are chosen freely.

**MultiPackage.** `StartPackage`, `ObserveFact`, `CopyUpstream`, `Analyse` and
`EndPackage` are `accumulation.run`; a package that fails exports nothing.
Facts are observed in one order; the sites and the edges of one fact's map may
come in any, which includes the insertion order of the code.

**ErrorReturns.** A program is a function `f` with return statements, the
function `g` it calls, and a use of `f`'s result. What `computeAndConsumeResults`
and its helpers make of each return, and what `FilterTriggersForErrorReturn`
leaves of it at the end of the function, is computed as triggers of the engine,
and the engine then runs on them step by step. The reference runs the program.

**FunctionAnalyzer.** The main goroutine is `Spawn`, `Collect`, `Receive` and
`Finish`; each analysis is `AnalyzeFunc` (the send is part of the rendezvous in
`Receive`) and `Return` (the wait group); `CloseChannel` is the goroutine that
waits for them. What backpropagation finds for a function is an input.

**FunctionContracts, ContractInference.** One iteration of the loop over the
queue is a step of a goroutine; the tables of the predecessors are visited in
any order, as the map of the code is. Around them are the loop over the
declarations, the unbuffered channel, the closing goroutine and the collector. A
function is its SSA form: blocks, phis, comparisons, returned values.
`ContractPromise` executes the same form.

**StructFieldEffects.** A package collects from its bodies, imports facts, closes
parameter reads, writes and return effects, and exports. A step of a closure is
one function taken from the worklist, in any order; effects of callees that the
range over a growing map may or may not deliver are chosen freely.

**Preprocess, RichChecks, Hooks.** One call of a pass for one block is a step,
with the recursion of `canonicalizeConditional` as a list of calls to be made and
the walk along the cases of a switch as steps of its own. A round of
`propagateRichChecks` is a step. Values of variables are given by `val`, and the
runs of the source and of the result are compared under it.

**Backpropagation.** A tree is a set of assertions on paths. `ProcessBlock` is
the body of the loop over the postorder, with the skipped and the propagated
case; `StopStable`, `Panic` and `EndRound` are the ways on from the end of a
round; `StopUnchanged` and `Cancel` end the loop at its head. Statements are
uses, single and parallel assignments of trackable and other expressions, and
calls whose result is guarded; branches check a path for nil or check a guard.

**Declarations.** `Affiliations` is the affiliation analyzer on one package with
the facts of all that it imports, `Assertions` joins the triggers of the
sub-analyzers. The search for what init functions set is started once per init
function, as the code does it.

**Diagnostics.** `AddConflict`, `SortAndGroup`, `Skip`, `Report` and `Return`
are `AddSingleAssertionConflict`/`AddOverconstraintConflict` and `Diagnostics`;
`Padded` is the growing of fake files in `toPos`.

## 3. Runs

| Run | Checks | Bounds, and why they are enough |
|---|---|---|
| `inference` | types; conflicts are real; conflicts exactly when a nil flow; determined exactly when forced; nothing forgotten; values final; controlled triggers run exactly when the controller is nilable; a result is left out because of its error exactly when that error may be non-nil; the recursion ends | every set of at most four triggers over three sites, two assertions per pair of sites, every order: chains, cycles, self-loops, diamonds, a value before and after its edges; and sites fixed by annotations, one contracted call, one function with an error result. Larger graphs are the theorems' business |
| `packages` | modular is whole; exports exact; values supersede upstream ones | four packages: the smallest program with two paths between two packages, and a chain with annotations, contracts and error returns; any of them may fail |
| `error_returns` | a nil is reported where a use may meet it, and nowhere else | 8361 programs: at most two paths in `f` and in `g`, in one statement or two, a use with, without or against the check. A third return adds no combination: the filters look at one return, or at all |
| `function_pool` | implements `SerialFunctionAnalyzer`; all end; no send after close | three functions, every outcome |
| `contracts` | implements `ContractPromise`; tables cover the executions; all end | functions with a check of the parameter, joins and a loop, alone and in packages with handwritten, unfit, panicking and upstream contracts; a limit of tables small enough to be reached |
| `struct_fields` | a package's summary is that of the whole program; sources of effects hold; effects are real; every package ends | three functions in two packages that forward to each other down, up and in circles |
| `conditions` | the runs are kept; type switches teach what they should; no panic; effects hold exactly where they should; a guard lies on the true side; the passes end | 2372 functions: compound conditions to depth two, assertions of the libraries, switches of at most three cases, type switches, ranges, templ components, graphs with and without loops |
| `executions` | triggers are exactly the flows of the executions; no internal error, but for a function with as many variables as rounds | 10474 functions: branch, loop, endless loop over two variables, with nil checks, guarded calls, swaps; a field, in a branch and in nested loops, shadowed parallel assignments; loops whose trees grow for ever; rotations of up to six variables, which five stable rounds do not cut short, and loops over 31 to 34 variables around the round bound of 32 |
| `declarations` | every conversion compared; globals nil exactly where the start leaves them so; captured variables in order | about 17,700 programs: three packages that import each other, some out of scope; two files of init functions; literals nested twice |
| `diagnostics` | shown once, in order, none at nolint, positions stay valid | every list of three of eleven conflicts, every configuration |

In the functions of `executions` paths are independent of each other, as the
analysis takes them to be: after `x = y` the fields of both are followed
separately. Conditions are not evaluated; both branches may be taken.

Two runs show a violation. Each is a place where the code does something else
than a comment of the repository says:

| Run | What happens |
|---|---|
| `always_safe` | a return whose ok is not a constant makes no trigger that counts for "always safe": the guard of a use is dropped although one path returns nil |
| `affiliation_keys` | an interface is known by the type that declares its first method, so that after a conversion to `I` one to `J`, which embeds `I`, is skipped |

### Fairness

The engine's recursion, the passes over the graph and the closures are sequential
Go code that waits for nothing: weak fairness of `Next` says that it goes on. In
both pools every goroutine that can run is run by the Go scheduler, and an
analysis of a function ends, by its result, an error, a panic or the context:
weak fairness of the steps of the goroutines. Nothing relies on strong
fairness. That backpropagation ends is a safety property here: the rounds are
bounded by the panic, and `NoInternalError` says where they end before.

### Deadlock

TLC's deadlock check is off where the program ends, which most of these do; that
nobody is left waiting is `AllEnd`, `EveryoneEnds`, `EveryPackageDone`,
`Preprocessed` and `Termination`.

## Known limits

What was seen of the code while it was modelled, and what the properties leave
out because of it. A property that names an exception has its reason here.

*Engine.* The second batch of `ObservePackage` has no controlled triggers, so a
controller that becomes nilable there activates nothing (engine.go:320); nor does
one that the annotations determine, which are observed before the table is
built.
Undetermined sites keep edges to determined ones, against the doc of
`InferredMap` (inferred_map.go:31): `StoreDetermined` leaves the site in the edge
lists of its neighbours.

*Diagnostics.* A group vanishes when its first conflict is suppressed
(diagnostic/engine.go:116). Equal messages of two methods with one name are
grouped (conflict.go:94, 110).

*Backpropagation.* A loop that moves 32 variables on, in a function of four
blocks, reaches the round bound, which counts only blocks, and the function is
given up (util.go:35). The rounds
stop after five stable ones, not after as many as there are blocks
(backprop.go:996, 1127); `longRotNilLoop` (loopflow.go:92) is the false negative
that follows. A nil check of `x` resolves what is known of `x.f` by default, so
that an assignment to `x.f` before it is forgotten (root_assertion_node.go:357).
An endless loop of more than one block, in a function without a return, is not
analysed (backprop_util.go:717).

*Conditions.* A boolean switch one of whose cases compares with nil comes to a
panic (cfg.go:583-590), and with a tag a case `a && b` leads astray; the run has
neither. `(x != nil) == true` is left as it is. Effects never flow into loops,
although a path may bring them there (rich_check_effect.go:677, 721), so
completeness is stated for graphs without loops. An argument that a call sets
when its error is nil counts as set on paths without the call, too (:131).
Inlining a templ component changes the graph of the literal that others share,
against cfg.go:47-49. `NotEqual(nil, p)` of testify passes for a nil pointer `p`.

*Error returns.* An error result of which every return says nil gets no trigger;
its site stays open and is taken for non-nil, so `return nil, err` of it is not
reported. A return that has both a non-nil and an unknown error on its paths
counts as one with an error. Wrappers of a nil error count as errors
(assume_return.go:95). `func f() (_ *int, _ error) { return }` is not reported.
A forwarded `return g()` never counts as always safe. A return with an ok that is
no constant makes no trigger that the check for always safe paths would count
(inference/engine.go:182-193): `EveryNilUseReported` leaves such programs out
(`Trusted`), and `AlwaysSafeIsSafe` is violated by one. A function with only an
error result, which returns a nil error by way of a variable, has no trigger for
it: such callees are not in the programs (`WellFormed`). `return x, err` with `x`
unguarded is not in the programs.

*Contracts.* `isUpdated` is overwritten for every table (infer.go:130): with a new
table and then a known one the successors of a block are not told, and whether
that happens depends on the order of a map. A phi of a loop keeps a nilness it
had before (:474); a return block without a table is left out (:235); from
`x != y` the negation of a non-nil operand is learned (:189). A block that is reached
with an empty table and with another one forgets the empty one (:122-132), and
with it the executions that learned nothing: `r := q(); if b { if p == nil
{ return nil }; r = new(T) }; return r` may get a contract that it does not keep.
The functions of the run do not depend on these.

*Function analyzer.* A call without arguments of a variadic function with a
handwritten contract makes the duplication panic (analyzer.go:358). The serial
analysis that `ImplementsSerial` compares with meets the same panic: the property
shows that it ends as the error of one function, not that it never comes.

*Field effects.* The origin of a field of a result is recorded by construction
site (return_contracts.go:267). A wrapper of a function that builds its result,
without nil fields, or returns its argument is not marked as constructing, against
:282-283: of `type T struct { x *int }`, `func k(p *T, q *int) *T { if q == nil
{ return p }; return &T{x: q} }` and `func g(p *T, q *int) *T { return k(p, q) }`, the
source that the result is `p` is dropped for `k` and kept for `g`.
`SourcesHold` is violated by such a program; the run has none in which such a
construction and such a return meet. A composition whose path comes to a struct
type twice is left out without a trace (:247), and with it what made the callee's
sources disagree: of `func g(p, q *T) *T { if c { return p.x.t }; return q }` and
`func f(p, q *T) *T { return g(p.x.t, q) }` it is told of `f` that it returns `q`,
although it may return `p.x.t.x.t`, against :36-38. Such programs violate
`SourcesHold`, too, and are not in the run. `ForwardersAgree` excludes both. A struct
passed by value, one of whose fields is assigned, does not count as changed
(:387).

*Affiliation.* Interfaces whose first method has one declaring type share a key
(`affiliation_keys`). Grouped results `(a, b I)` are looked at by position in the
list of fields; `return g()` with several results, variadic parameters, keyed
array literals, package-level declarations and function literals are no casting
sites at all.

*Globals.* An assignment counts by name, be it to a local variable, and a method
hides the function of its name; `Obscured` leaves both out. What an init function
of another file sets is not seen. One name of a declaration that stays unset
makes all be reported. `var b = a` is judged by `a` at the declaration, also when
an init function sets it after. `pkg.Var` as a value is taken for a field.

*Literals.* A variable declared in an inner block of a literal is taken for a
captured one, and one that two nested literals need may be there twice.

## 4. Proofs

Checked by TLAPS. The theorems hold for every value of the constants that
satisfies the assumptions of the modules.

| Theorem | Says |
|---|---|
| *InferenceEngineProofs* `TypeCorrect` | the type invariant |
| `DeterminedStays` | a determined value is never replaced |
| `ConflictsAreFlows` | a reported conflict has an observed chain of constraints from nil to a consumer |
| `NothingForgotten` | between two triggers, every observed constraint is in the map or in a conflict |
| `VerdictIsExact` | between two triggers, there is a conflict exactly when the constraints contain a nil flow |
| `DeterminedIsExact` | without conflicts, a site is determined exactly when the constraints force it |
| `ErrorContractHolds` | a result is left out because of its error exactly when the other constraints have a solution in which that error is never nil |
| `ContractsActivatedExactly` | a controlled trigger is observed when its controller is nilable, and only then |
| *MultiPackageProofs* `UpstreamIsSuperseded` | at the export no value of the upstream copy is contradicted: `inferredValDiff` does not panic |
| `SeparateAnalysisIsWhole` | packages analysed one by one report a conflict exactly when their constraints and those of their dependencies have no solution together |
| `ExportedSitesAreExact` | what a package knows of an exported site is what all these constraints force |
| *ErrorReturnsProofs* `NoNilUseHidden` | a nil that a use of a result meets is reported |
| `NoSafeUseHeldAgainst` | a use that is reported may meet a nil, for a reader who takes the branches one by one |
| *FunctionAnalyzerProofs* `NothingSentAfterClose` | nobody sends on the closed channel |
| `SerialSafety` | every step is a step of the serial analysis or a stutter |
| *DiagnosticsProofs* `DiagnosticsInOrder`, `ConflictsShownOnce`, `NoLintRespected`, `FakeLinesStayValid` | order, exactly once, suppression, positions |
| *FieldClosureProofs* `NothingForgotten` | with an empty worklist, every caller has inherited all that its callees have |
| `NothingInvented` | the effects stay within every closed set above the first ones, so that the result is the least |
| *StructFieldEffectsProofs* `SummariesAreWhole` | when the reference follows calls deep enough, what a package says of the fields that its functions read and write is what the whole program does |
| `EffectsAreReal` | when the reference follows calls deep enough, a field that is said to be nil in a result is nil in one that is returned |
| `NoSourceInvented` | an argument that is said to be in a field of a result, or to be the result, is so on one return at least |
| `SourcesAreReal` | where forwarders agree with those they forward to, a result that is said to be an argument is that argument on every return |
| *FunctionContractsProofs* `ContractsKeepPromise` | where the worklists cover the executions, the pool returns contracts that every execution keeps, and loses none |

### The arguments

**Engine.** In the middle of the recursion the map says less than was observed,
so the properties are not inductive. The inductive invariant is
`EngineInv == TypeInv /\ RealInv /\ SettledInv`:

* `RealInv`: every explanation and every edge, in the map *and in the frames of
  the call stack*, stems from observed constraints. It gives soundness.
* `SettledInv`: every observed constraint has done its work, is stored as an
  edge, or is *awaited* by a frame of the call stack that has still to make its
  call. It gives completeness once the stack is empty: then the nilable sites,
  and the sites that are not nonnil, are both solutions of the constraints
  unless there is a conflict, so the verdict is exact and what is determined is
  forced.

The proof has a lemma for each function of the engine (store a value, store an
edge, one call of `observeSiteExplanation`, one of `observeImplication`) and a
step for each action. `ErrorInv` and `ControlInv` add what of the package is
still pending in each batch, and that a controlled trigger is observed, waits in
the table, or is about to be observed by a frame.

**Separate packages.** `MultiInv` says, of every analysed package without a
conflict, that whatever satisfies its fact extends to a solution of its own and
its dependencies' constraints that is the same on the exported sites
(`FactsInv`); of the package under analysis, that what it took over stems from
those constraints and that each of them is reflected in its map. Packages share
exported sites only (`LocalAssumption`), so the extensions for the dependencies
fit together to one solution of all (`Glue`). Packages that fail are part of it.

**Error contract.** `ReturnsInv` is the engine's invariant with the triggers of
the program as its package; the rest is about the sets of triggers that the two
filters leave. For `NoNilUseHidden`, a return that may
come with a nil error has its value observed: its error is nil by the statement
or by the function, and the value belongs to the first batch; or it comes from a
site that is nil in every solution of the first batch, and the engine keeps the
value in the second. For `NoSafeUseHeldAgainst`, the sites which a reader takes
for nilable are shown to be a solution; with a solution the engine's theorem
excludes a conflict. `WellFormedAssumption` lists what a program of Go has to be,
and which callees are left out (see the limits above).

**Pool.** The goroutines are those of the functions started so far, in order, and
each is where the wait group and the received results say (`SpawnedInv`,
`PhaseInv`, `CollectedInv`). The refinement follows: `Receive` of the last result
and an early `Collect` are the one step of the serial analysis.

**Contracts.** A contract is concluded from tables that a worklist has made of the
blocks of one function, and promised of the executions of that function. What joins
them is `ExecutionsCovered`: of the tables of a block that an execution reaches one
agrees with it. Since an execution gives every value what its instruction says
(`ReachedIsProper`, by induction on the steps), what such a table tells of an operand is
so (`NilnessIsRight`); and when no table of a return block is a counterexample, no
execution is (`DerivedHolds`, `ConcludedHolds`). `SpawnedInv`, `PhaseInv` and
`ContractsInv` say which goroutines run and that what was sent and received are conclusions, one for each
function that ended; when all are collected the map is one that the promise allows
(`StepsRefine`). The theorem's hypothesis is one of the run's invariants: some
functions of Go violate it (limits above), and of these nothing is claimed.
`SourceAssumption` asks that the functions are in SSA form: operands are defined,
branches end in known blocks.

**Diagnostics.** `GroupsInv`: the groups left are as they were made, and those that
are gone became diagnostics or are suppressed. `DiagnosticsInv`: those made are unsuppressed
groups in ascending order. That each conflict is in one group, led by its first
member, is a lemma about grouping.

**Closure.** The closure's invariant `IInv` says that every function that is not in the
worklist has inherited all that its callees have; a step that lets the effects of
one grow must put its callers back. It holds for every `Inherit`, which is how
one proof serves the closures of reads, of writes and of return effects.

**Summaries of fields.** The reference is what a program does when calls are
followed to a depth. That it is the least one closed under calls is proved by the
least depth at which something else would appear. `FieldInv` says: what a package
has collected, imported and inherited is within the whole program's (`CollectedInv`,
with the facts of earlier packages in `FactsInv`), and the closures that are over
are closed (`ClosedInv`, by the instances of the closure's theorems). For equality,
the effects of the package, completed by the whole program's for all other
functions, are closed and contain what the bodies say; so the least such effects
are within them. This is where it matters that the facts of other packages are
complete: of what a fact does not list there is nothing to say. `EffectInv` carries
the nil fields through the package, its fact and its summary; two lemmas say of
what a function builds, and of what it returns of another one, that it is among the
results of the reference. Nested literals and fields that are left out are followed
along the prefixes of a path.
The theorems about both assume that a call beyond the depth adds nothing (`DepthSuffices`,
`NilDepthSuffices`). Of the programs of the run, TLC found that to be so, with
`Done => DepthSuffices /\ NilDepthSuffices` as an invariant; it is not among the
run's properties, since it is about the reference and not about the code.

**Sources of results.** A source is `Real` when it is so of one result, for every number
of calls that are followed. What a function returns or stores in a literal is, and a
source that is composed of an argument and a real source of the callee is again: the
paths are put one after another. `RealInv` carries this through the passes, the fact
and the summary, without a hypothesis (`NoSourceInvented`). That a result is an
argument on *every* return cannot be carried along: in the middle of the passes it is
false. `StageInv` says instead why something is said of a whole result (`Grounded`: a
return gives a parameter, or all that is returned is what another function makes of
the arguments) and, when a pass has added nothing, that nothing is missing
(`Settled`). At the drop, `KeptAreFaithful` shows it by induction on the number of
calls, for all functions of the package at once, since they may call each other in
circles: a result of a function that is kept is one of a parameter that it returns, or
one of the callee's, of which an argument is known by induction or by the callee's
fact. The hypothesis `ForwardersAgree` is used in that step only. TLC found it to be
an invariant of the programs of the run, where functions forward at that point; which
programs violate it is said among the limits.

The assumptions on the constants are that packages come in the order of imports, that
what is called is in the package or exported by an earlier one, that a call has an
argument for every parameter, that literals are nested in fields that are given one,
and that a variable bound in the body is no parameter, as in any program that
compiles, and that field paths are sequences of names of fields.

### Only model-checked

* Liveness (`Termination`, `AllEnd`, `EveryoneEnds`, `EveryPackageDone`,
  `Preprocessed`), and with it the liveness part of the two refinements.
* `Preprocess`, `RichChecks`, `FunctionExecution`, `Declarations`: their references
  (the runs of the source, the executions of a function, the start of a program)
  explore with recursive operators, about which nothing can be proved here.
* `ExecutionsCovered` of the contracts, which does not hold of every function (limits
  above), only of those of the run. `ForwardersAgree` and the two conditions on the
  depth are no properties of a run, but TLC found them to hold of the run's programs.

## 5. Not modelled, and what comes next

Left out for good: the wording of diagnostics, flags, gob encoding and
compression, queries of syntax trees and types, and the commands. They keep no
state. The kinds of triggers (`annotation/*_trigger.go`) are data.

Not modelled yet:

* struct initialisation, both options, and the field context that the first one
  reads: the producers and consumers made of the summaries of
  `StructFieldEffects`;
* the annotation map, made of doc comments, and the primitivizer, of which
  `MultiPackage` assumes that it names a site alike in every package;
* what `accumulation` does with failures, panics and suppressed field assignments;
* the table of `AddNilCheck`, deep producers, index and function nodes, sends,
  ranges and type switches in `Backpropagation`.

Theorems that are left are those about the modules above that explore with recursive
operators, which would have to be written as recursive functions first.

`PROJECT.json` lists the components, the source lines of every definition, a
mutation for every property (an edit of one definition, like a bug in the code
it models, that makes the run fail), the hazards and the findings.
