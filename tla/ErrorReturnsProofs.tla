--------------------------- MODULE ErrorReturnsProofs ---------------------------
(****************************************************************************)
(* Proofs about the contract of the error result: for functions with any    *)
(* number of return statements, of paths to them, and of calls, leaving     *)
(* results out because of their error hides no nil from a use.              *)
(*                                                                          *)
(* A return that may come with a nil error has its value observed.  Either  *)
(* the error is nil by the return statement or by the function, and the     *)
(* value is a result of the first batch; or the error comes from a site     *)
(* that is nil in every solution of the first batch, and the engine keeps   *)
(* the value in the second one.                                             *)
(*                                                                          *)
(* Nothing safe is reported either: the sites that a reader of the two      *)
(* functions takes for nilable solve all constraints that are observed.     *)
(****************************************************************************)
EXTENDS ErrorReturns, InferenceEngineProofs

-----------------------------------------------------------------------------
(****************************************************************************)
(* FilterTriggersForErrorReturn at the end of a function.                   *)
(****************************************************************************)

\* A trigger that is not about one return statement is left alone.
LEMMA FilterLeaves ==
  ASSUME NEW T, NEW t \in T, t.role \in {"plain", "alwaysSafe"}, t.at \notin ReturnStmt
  PROVE  t \in Filter(T)
<1>1. Refined(T, t) = t
  BY DEF Refined, IsNil, IsNonNil
<1> QED  BY <1>1 DEF Filter

\* The results of a return with an error that is nil on a path stay, either for
\* good, or with no error at the return statement that could decide otherwise.
LEMMA FilterKeepsNil ==
  ASSUME NEW T, NEW at \in ReturnStmt, NEW q, NEW c, NEW e,
         Full(q, c, "nonErrorReturn", at) \in T,
         Full(Nil, e, "errorReturn", at) \in T
  PROVE  \/ Full(q, c, "plain", None) \in Filter(T)
         \/ /\ Full(q, c, "nonErrorReturn", at) \in Filter(T)
            /\ \A w \in Filter(T) : w.role = "errorReturn" => w.at # at
<1> DEFINE t == Full(q, c, "nonErrorReturn", at)
<1>1. t \in T /\ t.at = at /\ t.role = "nonErrorReturn"
  BY DEF Full
<1>2. Found(T, at, Nil)
  BY DEF Found, Full
<1>3. IsNil(T, at) /\ ~IsNonNil(T, at)
  BY <1>2 DEF IsNil, IsNonNil
<1>4. Refined(T, t) \in Filter(T)
  <2> HIDE DEF t
  <2> QED  BY <1>1, <1>3 DEF Filter
<1>5. CASE ~IsMixed(T, at)
  <2>1. Refined(T, t) = Full(t.producer, t.consumer, "plain", None)
    <3> HIDE DEF t
    <3> QED  BY <1>1, <1>3, <1>5 DEF Refined
  <2>2. t.producer = q /\ t.consumer = c
    BY DEF Full
  <2> QED  BY <1>4, <2>1, <2>2
<1>6. CASE IsMixed(T, at)
  <2>1. Refined(T, t) = t
    <3> HIDE DEF t
    <3> QED  BY <1>1, <1>3, <1>6 DEF Refined
  <2>2. ASSUME NEW w \in Filter(T), w.role = "errorReturn"
        PROVE  w.at # at
    <3>1. PICK u \in T : w = Refined(T, u) /\ ~(u.role = "errorReturn" /\ IsNil(T, u.at))
      BY DEF Filter
    <3>2. CASE w = u
      BY <1>3, <2>2, <3>1, <3>2
    <3>3. CASE w = Full(u.producer, u.consumer, "plain", None)
      BY <2>2, <3>3 DEF Full
    <3> QED  BY <3>1, <3>2, <3>3 DEF Refined
  <2> QED  BY <1>4, <2>1, <2>2
<1> QED  BY <1>5, <1>6

\* The results of a return with an error that nothing fixed stay with that error.
LEMMA FilterKeepsOpen ==
  ASSUME NEW T, NEW at \in ReturnStmt, NEW q, NEW c, NEW d, NEW e,
         Full(q, c, "nonErrorReturn", at) \in T,
         Full(d, e, "errorReturn", at) \in T,
         ~Found(T, at, Never)
  PROVE  \/ Full(q, c, "plain", None) \in Filter(T)
         \/ /\ Full(q, c, "nonErrorReturn", at) \in Filter(T)
            /\ Full(d, e, "errorReturn", at) \in Filter(T)
<1> DEFINE t == Full(q, c, "nonErrorReturn", at)
           u == Full(d, e, "errorReturn", at)
<1>1. /\ t \in T /\ t.at = at /\ t.role = "nonErrorReturn" /\ t.producer = q /\ t.consumer = c
      /\ u \in T /\ u.at = at
  BY DEF Full
<1>2. ~IsNonNil(T, at) /\ ~IsMixed(T, at)
  BY DEF IsNonNil, IsMixed
<1> HIDE DEF t, u
<1>3. CASE IsNil(T, at)
  <2>1. Refined(T, t) \in Filter(T)
    BY <1>1, <1>2 DEF Filter
  <2>2. Refined(T, t) = Full(q, c, "plain", None)
    BY <1>1, <1>2, <1>3 DEF Refined
  <2> QED  BY <2>1, <2>2
<1>4. CASE ~IsNil(T, at)
  <2>1. Refined(T, t) \in Filter(T) /\ Refined(T, u) \in Filter(T)
    BY <1>1, <1>2, <1>4 DEF Filter
  <2>2. Refined(T, t) = t /\ Refined(T, u) = u
    BY <1>1, <1>2, <1>4 DEF Refined
  <2> QED  BY <2>1, <2>2 DEF t, u
<1> QED  BY <1>3, <1>4

-----------------------------------------------------------------------------
(****************************************************************************)
(* The triggers of a return statement, of a function and of the program.    *)
(****************************************************************************)

LEMMA Consumptions ==
  ASSUME NEW P, NEW c, NEW role, NEW at, NEW t \in AddConsumption(P, c, role, at)
  PROVE  /\ t.controller = None /\ t.role = role /\ t.at = at /\ t.consumer = c
         /\ t.producer \in P \/ role = "alwaysSafe"
BY DEF AddConsumption, Full

LEMMA Consumed ==
  ASSUME NEW P, NEW q \in P, NEW c, NEW role, NEW at
  PROVE  Full(q, c, role, at) \in AddConsumption(P, c, role, at)
BY DEF AddConsumption

\* No trigger of a return statement is controlled, and the error triggers are
\* about its own errors.
LEMMA StatementTriggers ==
  ASSUME NEW p, NEW fn, NEW s, s.form \in {"literal", "variables", "forward", "blank"},
         NEW t \in ComputeAndConsumeResults(p, fn, s)
  PROVE  /\ t.controller = None
         /\ t.role = "errorReturn" => t.at = s.at /\ t.producer \in Producers(p, s, "last")
<1>1. CASE s.form = "forward"
  BY <1>1 DEF ComputeAndConsumeResults, ForwardReturns, Full
<1>2. CASE s.form = "blank"
  BY <1>2 DEF ComputeAndConsumeResults, BlankReturns, Full
<1>3. CASE s.form \in {"literal", "variables"}
  <2>1. \/ t \in HandleErrorReturns(p, fn, s)
        \/ t \in HandleBooleanReturns(p, fn, s)
        \/ t \in CreateGeneralReturnConsumers(p, fn, s)
    BY <1>3 DEF ComputeAndConsumeResults
  <2>2. \/ t \in CreateReturnConsumersForAlwaysSafe(p, fn, s)
        \/ t \in CreateConsumerForErrorReturn(p, fn, s)
        \/ t \in CreateGeneralReturnConsumers(p, fn, s)
        \/ t \in CreateSpecialConsumersForAllReturns(p, fn, s)
    BY <2>1 DEF HandleErrorReturns, HandleBooleanReturns
  <2>3. ASSUME t \in CreateSpecialConsumersForAllReturns(p, fn, s)
        PROVE  \/ t \in AddConsumption(Producers(p, s, "value"), fn.value, "nonErrorReturn", s.at)
               \/ t \in AddConsumption(Producers(p, s, "last"), fn.last, "errorReturn", s.at)
    BY <2>3 DEF CreateSpecialConsumersForAllReturns
  <2> QED
    BY <2>2, <2>3, Consumptions
    DEF CreateReturnConsumersForAlwaysSafe, CreateConsumerForErrorReturn,
        CreateGeneralReturnConsumers
<1> QED  BY <1>1, <1>2, <1>3

\* What a program is: the types and rules that the proofs use.
LEMMA ProgramTypes ==
  ASSUME NEW p \in Program
  PROVE  /\ p.f.value \in Site /\ p.f.last \in Site
         /\ p.g.value \in Site \cup {None} /\ p.g.last \in Site /\ p.g.kind = "error"
         /\ p.f.kind \in {"error", "ok", "plain"}
         /\ p.use \in {"checked", "unchecked", "failedBranch"}
         /\ p.argument \in {"nil", "notNil"} /\ Param \in Site
         /\ \A s \in p.f.returns \cup p.g.returns :
              /\ s.at \in ReturnStmt /\ s.at \notin Site
              /\ s.form \in {"literal", "variables", "forward", "blank"}
              /\ \A q \in s.paths :
                   /\ q.value \in {"nil", "composite", "x"}
                   /\ q.last \in Call \cup {"nil", "composite", "err", "failed", "param"} \cup Bool
         /\ WellFormed(p)
<1>1. p \in [f : Decl, g : Decl, argument : {"nil", "notNil"},
             use : {"checked", "unchecked", "failedBranch"}]
      /\ p.g.kind = "error" /\ p.f.value # None /\ Param \in Site
  BY ProgramAssumption
<1>2. /\ p.f \in Decl /\ p.g \in Decl
      /\ p.use \in {"checked", "unchecked", "failedBranch"} /\ p.argument \in {"nil", "notNil"}
  BY <1>1
<1>3. /\ p.f.returns \subseteq Return /\ p.g.returns \subseteq Return
      /\ p.f.value \in Site \cup {None} /\ p.g.value \in Site \cup {None}
      /\ p.f.last \in Site /\ p.g.last \in Site /\ p.f.kind \in {"error", "ok", "plain"}
  BY <1>2 DEF Decl
<1>4. ASSUME NEW s \in Return
      PROVE  /\ s.at \in ReturnStmt /\ s.at \notin Site
             /\ s.form \in {"literal", "variables", "forward", "blank"}
             /\ s.paths \subseteq Path
  BY NameAssumption DEF Return
<1>5. ASSUME NEW q \in Path
      PROVE  /\ q.value \in {"nil", "composite", "x"}
             /\ q.last \in Call \cup {"nil", "composite", "err", "failed", "param"} \cup Bool
  BY DEF Path, Bool
<1>6. WellFormed(p)
  BY WellFormedAssumption
<1> QED  BY <1>1, <1>2, <1>3, <1>4, <1>5, <1>6

LEMMA TriggersOfFunction ==
  ASSUME NEW p \in Program, NEW fn \in {p.f, p.g}
  PROVE  /\ \A s \in fn.returns : \A t \in ComputeAndConsumeResults(p, fn, s) :
              t.role \in {"plain", "alwaysSafe"} /\ t.at \notin ReturnStmt
                => t \in FunctionTriggers(p, fn)
         /\ \A t \in FunctionTriggers(p, fn) :
              /\ t.controller = None
              /\ t.role = "errorReturn" =>
                   \E s \in fn.returns : t \in ComputeAndConsumeResults(p, fn, s) /\ t.at = s.at
<1> DEFINE all == UNION {ComputeAndConsumeResults(p, fn, s) : s \in fn.returns}
<1>1. ASSUME NEW s \in fn.returns, NEW t \in ComputeAndConsumeResults(p, fn, s),
             t.role \in {"plain", "alwaysSafe"}, t.at \notin ReturnStmt
      PROVE  t \in FunctionTriggers(p, fn)
  <2>1. t \in all
    OBVIOUS
  <2> HIDE DEF all
  <2>2. t \in Filter(all)
    BY <1>1, <2>1, FilterLeaves
  <2> QED  BY <2>1, <2>2 DEF FunctionTriggers, all
<1>2. ASSUME NEW t \in all
      PROVE  /\ t.controller = None
             /\ t.role = "errorReturn" =>
                  \E s \in fn.returns : t \in ComputeAndConsumeResults(p, fn, s) /\ t.at = s.at
  <2>1. PICK s \in fn.returns : t \in ComputeAndConsumeResults(p, fn, s)
    OBVIOUS
  <2>2. s.form \in {"literal", "variables", "forward", "blank"}
    BY ProgramTypes
  <2> QED  BY <2>1, <2>2, StatementTriggers
<1>3. ASSUME NEW t \in Filter(all)
      PROVE  /\ t.controller = None
             /\ t.role = "errorReturn" =>
                  \E s \in fn.returns : t \in ComputeAndConsumeResults(p, fn, s) /\ t.at = s.at
  <2> HIDE DEF all
  <2>1. PICK u \in all : t = Refined(all, u)
    BY DEF Filter
  <2>2. CASE t = u
    BY <1>2, <2>2
  <2>3. CASE t = Full(u.producer, u.consumer, "plain", None)
    BY <2>3 DEF Full
  <2> QED  BY <2>1, <2>2, <2>3 DEF Refined
<1> QED  BY <1>1, <1>2, <1>3 DEF FunctionTriggers

\* An error trigger of a return statement is one of the function that it ends.
LEMMA ErrorTriggersAreOwn ==
  ASSUME NEW p \in Program, NEW fn \in {p.f, p.g}, NEW s \in fn.returns,
         NEW t \in ProgramTriggers(p), t.role = "errorReturn", t.at = s.at
  PROVE  t \in FunctionTriggers(p, fn)
<1>1. t \notin Use(p) \cup Arguments(p)
  BY DEF Use, Arguments, Full
<1>2. PICK gn \in {p.f, p.g} : t \in FunctionTriggers(p, gn)
  BY <1>1 DEF ProgramTriggers
<1>3. PICK r \in gn.returns : t.at = r.at
  BY <1>2, TriggersOfFunction
<1>4. /\ \A v, w \in p.f.returns \cup p.g.returns : v.at = w.at => v = w
      /\ p.f.returns \cap p.g.returns = {}
  BY WellFormedAssumption DEF WellFormed
<1>5. r = s
  BY <1>3, <1>4
<1> QED  BY <1>2, <1>4, <1>5

LEMMA NoneControlled ==
  ASSUME NEW p \in Program, NEW t \in ProgramTriggers(p)
  PROVE  t.controller = None
<1>1. CASE t \in FunctionTriggers(p, p.f) \cup FunctionTriggers(p, p.g)
  BY <1>1, TriggersOfFunction
<1>2. CASE t \in Use(p) \cup Arguments(p)
  BY <1>2 DEF Use, Arguments, Full
<1> QED  BY <1>1, <1>2 DEF ProgramTriggers

-----------------------------------------------------------------------------
(****************************************************************************)
(* What the engine makes of the triggers.                                   *)
(****************************************************************************)

ReturnsInv ==
  /\ EngineInv /\ ErrorInv
  /\ program \in Program
  /\ pkg = [triggers |-> ProgramTriggers(program), annotations |-> {}]

LEMMA ReturnsInvariant == ReturnsSpec => []ReturnsInv
<1>1. ReturnsInit => ReturnsInv
  <2> SUFFICES ASSUME ReturnsInit
               PROVE  ReturnsInv
    OBVIOUS
  <2>1. Init
    BY ProgramPackageAssumption DEF ReturnsInit, Init
  <2>2. EngineInv /\ ErrorInv
    BY <2>1, TypeInvInit, RealInvInit, ErrorInvInit DEF EngineInv, SettledInv, Init, NewEngine
  <2> QED  BY <2>2 DEF ReturnsInv, ReturnsInit, NewEngine
<1>2. ReturnsInv /\ [ReturnsNext]_<<vars, program>> => ReturnsInv'
  <2> SUFFICES ASSUME ReturnsInv, [ReturnsNext]_<<vars, program>>
               PROVE  ReturnsInv'
    OBVIOUS
  <2>1. [Next]_vars /\ program' = program
    BY DEF ReturnsNext
  <2>2. EngineInv' /\ ErrorInv'
    BY <2>1, TypeInvStep, RealInvStep, SettledInvStep, ErrorInvStep DEF ReturnsInv, EngineInv
  <2>3. pkg' = pkg
    BY <2>1
    DEF Next, Finished, vars, ObserveAnnotation, ObservePackage, ObserveTrigger, ObserveNonErrRet,
        ActivateControlled, Propagate, Finish
  <2> QED  BY <2>1, <2>2, <2>3 DEF ReturnsInv
<1> QED  BY <1>1, <1>2, PTL DEF ReturnsSpec

\* The engine is done and has found nothing.
Clean == ReturnsInv /\ stage = "done" /\ conflicts = {}

Contexts == Solutions(observed \ NonErrRetTriggers)

LEMMA CleanSolution ==
  ASSUME Clean
  PROVE  /\ Solutions(observed) # {} /\ Solutions(observed) \subseteq Contexts
         /\ pkg.triggers = ProgramTriggers(program) /\ program \in Program
<1>1. Solutions(observed) # {}
  BY QuiescentSolutions DEF Clean, ReturnsInv, ErrorInv
<1> QED  BY <1>1, SolutionsMonotone DEF Clean, ReturnsInv, Contexts

\* Every trigger that no filter is about is observed in the first batch.
LEMMA FirstBatchTaken ==
  ASSUME Clean, NEW t \in ProgramTriggers(program), t.role \in {"plain", "guardMissing"},
         t.role = "guardMissing" => ~AlwaysSafe(t.at)
  PROVE  t \in observed \ NonErrRetTriggers
<1>1. t \in OtherTriggers /\ t \notin NonErrRetTriggers
  BY CleanSolution DEF OtherTriggers, NonErrRetTriggers, KeptTriggers
<1>2. t.controller = None
  BY CleanSolution, NoneControlled
<1> QED  BY <1>1, <1>2 DEF Clean, ReturnsInv, ErrorInv, FirstBatch

\* A result that depends on an error is left out only if there is an error that
\* comes from a site, and a way for all such errors not to be nil.
LEMMA SecondBatchTaken ==
  ASSUME Clean, NEW t \in ProgramTriggers(program), t.role = "nonErrorReturn", t \notin observed
  PROVE  ErrRetProducers(t.at) # {} /\ \E N \in Contexts : ErrRetProducers(t.at) \cap N = {}
<1>1. t \in NonErrRetTriggers
  BY CleanSolution DEF NonErrRetTriggers, KeptTriggers
<1>2. stage = "done" /\ pending = {} /\ Contexts # {}
  BY CleanSolution DEF Clean, ReturnsInv, ErrorInv
<1>3. RightlyDecided(t, observed \cup pending, Contexts)
  BY <1>1, <1>2 DEF ReturnsInv, Clean, ErrorInv, Contexts
<1> QED  BY <1>2, <1>3 DEF RightlyDecided

-----------------------------------------------------------------------------
(****************************************************************************)
(* Values that are returned with a nil error.                               *)
(****************************************************************************)

LEMMA PlainObserved ==
  ASSUME Clean, NEW fn \in {program.f, program.g}, NEW q, NEW c,
         Full(q, c, "plain", None) \in FunctionTriggers(program, fn)
  PROVE  Full(q, c, "plain", None) \in observed \ NonErrRetTriggers
<1>1. Full(q, c, "plain", None).role = "plain"
  BY DEF Full
<1>2. Full(q, c, "plain", None) \in ProgramTriggers(program)
  BY DEF ProgramTriggers
<1> QED  BY <1>1, <1>2, FirstBatchTaken

LEMMA StatementObserved ==
  ASSUME Clean, NEW fn \in {program.f, program.g}, NEW s \in fn.returns, NEW q, NEW c,
         Full(q, c, "plain", None) \in ComputeAndConsumeResults(program, fn, s)
  PROVE  Full(q, c, "plain", None) \in observed \ NonErrRetTriggers
<1>1. Full(q, c, "plain", None).role = "plain" /\ Full(q, c, "plain", None).at = None
  BY DEF Full
<1>2. None \notin ReturnStmt
  BY EndsAssumption
<1>3. Full(q, c, "plain", None) \in FunctionTriggers(program, fn)
  BY <1>1, <1>2, CleanSolution, TriggersOfFunction
<1> QED  BY <1>3, PlainObserved

\* The producers of a return statement hold those of the nil that it may return.
LEMMA NilProducers ==
  ASSUME NEW p, NEW s, NEW path \in s.paths
  PROVE  /\ path.value \in {"nil", "x"} => Producer(p, path.value) \in Producers(p, s, "value")
         /\ path.last # "composite" => Producer(p, path.last) \in Producers(p, s, "last")
         /\ Producer(p, "nil") = Nil /\ Producer(p, "x") = p.g.value
<1>1. path.value \in Atoms(s, "value") /\ path.last \in Atoms(s, "last")
  BY DEF Atoms
<1>2. ~AssumeReturn("nil") /\ ~AssumeReturn("x")
  BY NameAssumption DEF AssumeReturn
<1>3. Producer(p, "nil") = Nil /\ Producer(p, "x") = p.g.value
  BY <1>2 DEF Producer
<1> QED  BY <1>1, <1>2, <1>3 DEF Producers

\* An error that is nil on a path makes the value of that path count.
LEMMA NilReturned ==
  ASSUME Clean, NEW fn \in {program.f, program.g}, fn.kind = "error", fn.value \in Site,
         NEW s \in fn.returns, s.form \in {"literal", "variables"},
         NEW path \in s.paths, path.last = "nil", path.value \in {"nil", "x"}
  PROVE  \E t \in observed : t.producer = Producer(program, path.value) /\ t.consumer = fn.value
<1> DEFINE q == Producer(program, path.value)
           all == UNION {ComputeAndConsumeResults(program, fn, r) : r \in fn.returns}
           value == Full(q, fn.value, "nonErrorReturn", s.at)
           error == Full(Nil, fn.last, "errorReturn", s.at)
<1>1. q \in Producers(program, s, "value") /\ Nil \in Producers(program, s, "last")
  BY NilProducers
<1>2. /\ ComputeAndConsumeResults(program, fn, s) = HandleErrorReturns(program, fn, s)
      /\ fn.value # None
  BY EndsAssumption DEF ComputeAndConsumeResults
<1>3. SUFFICES \/ Full(q, fn.value, "plain", None) \in observed
               \/ value \in observed
  BY DEF Full
<1>4. CASE IsErrorReturnNil(s)
  <2>1. Full(q, fn.value, "plain", None) \in CreateGeneralReturnConsumers(program, fn, s)
    BY <1>1, Consumed DEF CreateGeneralReturnConsumers
  <2>2. Full(q, fn.value, "plain", None) \in ComputeAndConsumeResults(program, fn, s)
    BY <1>2, <1>4, <2>1 DEF HandleErrorReturns
  <2> QED  BY <2>2, StatementObserved
<1>5. CASE ~IsErrorReturnNil(s)
  <2>1. ~IsErrorReturnNonnil(s)
    BY NameAssumption DEF IsErrorReturnNonnil, Atoms, AssumeReturn
  <2>2. /\ value \in CreateSpecialConsumersForAllReturns(program, fn, s)
        /\ error \in CreateSpecialConsumersForAllReturns(program, fn, s)
    BY <1>1, <1>2, Consumed DEF CreateSpecialConsumersForAllReturns
  <2>3. value \in all /\ error \in all
    BY <1>2, <1>5, <2>1, <2>2 DEF HandleErrorReturns
  <2>4. s.at \in ReturnStmt /\ FunctionTriggers(program, fn) = Filter(all)
    BY CleanSolution, ProgramTypes DEF FunctionTriggers
  <2>5. \/ Full(q, fn.value, "plain", None) \in FunctionTriggers(program, fn)
        \/ /\ value \in FunctionTriggers(program, fn)
           /\ \A w \in FunctionTriggers(program, fn) : w.role = "errorReturn" => w.at # s.at
    <3> HIDE DEF all, q
    <3> QED  BY <2>3, <2>4, FilterKeepsNil
  <2>6. ASSUME value \in FunctionTriggers(program, fn), value \notin observed
        PROVE  \E w \in FunctionTriggers(program, fn) : w.role = "errorReturn" /\ w.at = s.at
    <3>1. value \in ProgramTriggers(program) /\ value.role = "nonErrorReturn" /\ value.at = s.at
      BY <2>6 DEF ProgramTriggers, Full
    <3>2. ErrRetProducers(s.at) # {}
      BY <2>6, <3>1, SecondBatchTaken
    <3>3. PICK w \in pkg.triggers : w.role = "errorReturn" /\ w.at = s.at
      BY <3>2 DEF ErrRetProducers, KeptTriggers
    <3> QED  BY <3>3, CleanSolution, ErrorTriggersAreOwn
  <2> QED  BY <2>5, <2>6, PlainObserved
<1> QED  BY <1>4, <1>5

\* A value that a constraint hands to site s is nil in every solution.
LEMMA NilGoesOn ==
  ASSUME NEW obs, NEW t \in obs, NEW N \in Solutions(obs), t.producer = Nil \/ t.producer \in N
  PROVE  t.consumer \in N
BY DEF Solutions, Satisfies, FixedProducer

LEMMA CalleeReturns ==
  ASSUME NEW p \in Program, NEW o \in CalleeOutcomes(p)
  PROVE  \E s \in p.g.returns : \E path \in s.paths :
           /\ o.value = path.value /\ o.last = path.last
           /\ path.value \in {"nil", "composite"} /\ path.last \in Call \cup {"nil", "composite"}
           /\ s.form = "literal" \/ (s.form = "variables" /\ p.g.value # None)
           /\ s.form = "literal" => \A q \in s.paths : q.last = path.last
<1>1. PICK s \in p.g.returns : \E path \in s.paths : o = [value |-> path.value, last |-> path.last]
  BY DEF CalleeOutcomes
<1>2. PICK path \in s.paths : o = [value |-> path.value, last |-> path.last]
  BY <1>1
<1>3. /\ path.value # "x"
      /\ path.last \in {"nil", "composite"} \/ AssumeReturn(path.last)
      /\ s.form = "literal" \/ (s.form = "variables" /\ p.g.value # None)
      /\ s.form = "literal" => \A q, r \in s.paths : q.last = r.last
  BY WellFormedAssumption DEF WellFormed
<1>4. path.value \in {"nil", "composite", "x"}
  BY ProgramTypes
<1>5. path.last \in Call \cup {"nil", "composite"}
  BY <1>3 DEF AssumeReturn
<1> QED  BY <1>2, <1>3, <1>4, <1>5

\* When g may return nil with a nil error, its value is known to be nilable.
LEMMA CalleeNil ==
  ASSUME Clean, program.g.value # None, NEW o \in CalleeOutcomes(program),
         o.value = "nil", o.last = "nil", NEW N \in Solutions(observed)
  PROVE  program.g.value \in N
<1>1. PICK s \in program.g.returns : \E path \in s.paths :
        path.value = "nil" /\ path.last = "nil" /\ s.form \in {"literal", "variables"}
  BY CleanSolution, CalleeReturns
<1>2. PICK path \in s.paths :
        path.value = "nil" /\ path.last = "nil" /\ s.form \in {"literal", "variables"}
  BY <1>1
<1>3. program.g.kind = "error" /\ program.g.value \in Site
  BY CleanSolution, ProgramTypes
<1>4. PICK t \in observed :
        t.producer = Producer(program, path.value) /\ t.consumer = program.g.value
  BY <1>2, <1>3, NilReturned
<1>5. t.producer = Nil
  BY <1>2, <1>4, NilProducers
<1> QED  BY <1>4, <1>5, NilGoesOn

\* When a g that returns nothing but an error may return nil, so is its error, and
\* that by the first batch.
LEMMA CalleeErrorNil ==
  ASSUME Clean, program.g.value = None, NEW o \in CalleeOutcomes(program), o.last = "nil",
         NEW N \in Contexts
  PROVE  program.g.last \in N
<1> DEFINE t == Full(Nil, program.g.last, "plain", None)
<1>1. PICK s \in program.g.returns : \E path \in s.paths :
        path.last = "nil" /\ s.form = "literal" /\ \A q \in s.paths : q.last = "nil"
  BY CleanSolution, CalleeReturns
<1>2. PICK path \in s.paths : path.last = "nil"
  BY <1>1
<1>3. IsErrorReturnNil(s)
  BY <1>1, <1>2 DEF IsErrorReturnNil, Atoms
<1>4. /\ Nil \in Producers(program, s, "last")
      /\ program.g.kind = "error"
  <2>1. Producer(program, path.last) \in Producers(program, s, "last") /\ Producer(program, "nil") = Nil
    BY <1>2, NilProducers
  <2> QED  BY <1>2, <2>1, CleanSolution, ProgramTypes
<1>5. t \in CreateConsumerForErrorReturn(program, program.g, s)
  BY <1>4, Consumed DEF CreateConsumerForErrorReturn
<1> HIDE DEF t
<1>6. t \in HandleErrorReturns(program, program.g, s)
  BY <1>3, <1>5 DEF HandleErrorReturns
<1>7. t \in ComputeAndConsumeResults(program, program.g, s)
  BY <1>1, <1>2, <1>4, <1>6 DEF ComputeAndConsumeResults
<1>8. t \in observed \ NonErrRetTriggers
  BY <1>7, StatementObserved DEF t
<1>9. t.producer = Nil /\ t.consumer = program.g.last
  BY DEF Full, t
<1> QED  BY <1>8, <1>9, NilGoesOn DEF Contexts

\* Only an error that is known never to be nil has a producer that is never nil.
LEMMA NeverAtoms ==
  ASSUME NEW p \in Program,
         NEW atom \in Call \cup {"nil", "composite", "err", "failed", "param"},
         Producer(p, atom) = Never
  PROVE  atom \in {"composite", "failed"} \/ AssumeReturn(atom)
<1>1. p.g.last # Never /\ Param # Never /\ Nil # Never
  BY ProgramTypes, EndsAssumption
<1>2. atom \in Call => AssumeReturn(atom) \/ atom = "g()"
  BY WellFormedAssumption
<1>3. AssumeReturn(atom) => atom \in Call
  BY DEF AssumeReturn
<1> QED  BY <1>1, <1>2, <1>3, NameAssumption DEF Producer

\* A value comes with an error that may be nil as far as the return statement
\* tells, but really comes from a site that is known to be nilable.
LEMMA OpenReturned ==
  ASSUME Clean, program.f.kind = "error", NEW s \in program.f.returns,
         s.form \in {"literal", "variables"}, ~Trusted(program, s),
         NEW path \in s.paths, path.last \in {"err", "param", "g()"}, path.value \in {"nil", "x"},
         Producer(program, path.last) \in Site,
         \A N \in Contexts : Producer(program, path.last) \in N
  PROVE  \E t \in observed :
           t.producer = Producer(program, path.value) /\ t.consumer = program.f.value
<1> DEFINE fn == program.f
           q == Producer(program, path.value)
           d == Producer(program, path.last)
           all == UNION {ComputeAndConsumeResults(program, fn, r) : r \in fn.returns}
           value == Full(q, fn.value, "nonErrorReturn", s.at)
           error == Full(d, fn.last, "errorReturn", s.at)
<1>1. q \in Producers(program, s, "value") /\ d \in Producers(program, s, "last")
  BY NilProducers
<1>2. /\ program \in Program /\ fn.value \in Site /\ fn.value # None /\ s.at \in ReturnStmt
      /\ ComputeAndConsumeResults(program, fn, s) = HandleErrorReturns(program, fn, s)
  BY CleanSolution, ProgramTypes, EndsAssumption DEF ComputeAndConsumeResults
<1>3. ~AssumeReturn(path.last)
  BY WellFormedAssumption, NameAssumption DEF AssumeReturn
<1>4. ~IsErrorReturnNil(s) /\ ~IsErrorReturnNonnil(s)
  BY <1>3 DEF IsErrorReturnNil, IsErrorReturnNonnil, Atoms
<1>5. /\ value \in CreateSpecialConsumersForAllReturns(program, fn, s)
      /\ error \in CreateSpecialConsumersForAllReturns(program, fn, s)
  BY <1>1, <1>2, Consumed DEF CreateSpecialConsumersForAllReturns
<1>6. value \in all /\ error \in all
  BY <1>2, <1>4, <1>5 DEF HandleErrorReturns
<1>7. ASSUME NEW atom \in Atoms(s, "last")
      PROVE  Producer(program, atom) # Never
  <2>1. PICK r \in s.paths : atom = r.last
    BY DEF Atoms
  <2>2. atom \in Call \cup {"nil", "composite", "err", "failed", "param"} \cup Bool /\ atom \notin Bool
    BY <1>2, <2>1, ProgramTypes, WellFormedAssumption DEF WellFormed
  <2>3. CASE path.last \in {"err", "param"}
    <3>1. path.last \in Atoms(s, "last")
      BY DEF Atoms
    <3>2. /\ atom \notin NonnilAtom
          /\ atom \notin NonnilAtom => ~AssumeReturn(atom)
      BY <2>3, <3>1 DEF Trusted
    <3> QED  BY <1>2, <2>2, <3>2, NeverAtoms DEF NonnilAtom
  <2>4. CASE path.last = "g()"
    <3>1. s.form = "literal" /\ \A v, w \in s.paths : v.last = w.last
      BY <1>2, <2>4, WellFormedAssumption DEF WellFormed
    <3>2. atom = "g()"
      BY <2>1, <2>4, <3>1
    <3> QED  BY <2>4, <3>2, EndsAssumption
  <2> QED  BY <2>3, <2>4
<1>8. ~Found(all, s.at, Never)
  <2> SUFFICES ASSUME NEW t \in all, t.role = "errorReturn", t.at = s.at, t.producer = Never
               PROVE  FALSE
    BY DEF Found
  <2>1. PICK r \in fn.returns : t \in ComputeAndConsumeResults(program, fn, r)
    OBVIOUS
  <2>2. t.at = r.at /\ Never \in Producers(program, r, "last")
    BY <1>2, <2>1, StatementTriggers, ProgramTypes
  <2>3. \A v, w \in program.f.returns \cup program.g.returns : v.at = w.at => v = w
    BY <1>2, WellFormedAssumption DEF WellFormed
  <2>4. r = s
    <3> HIDE DEF all
    <3> QED  BY <2>2, <2>3
  <2> QED  BY <1>7, <2>2, <2>4 DEF Producers
<1>9. FunctionTriggers(program, fn) = Filter(all)
  BY DEF FunctionTriggers
<1>10. \/ Full(q, fn.value, "plain", None) \in FunctionTriggers(program, fn)
       \/ value \in FunctionTriggers(program, fn) /\ error \in FunctionTriggers(program, fn)
  <2> HIDE DEF all, q, d, fn
  <2> QED  BY <1>2, <1>6, <1>8, <1>9, FilterKeepsOpen
<1>11. CASE Full(q, fn.value, "plain", None) \in FunctionTriggers(program, fn)
  <2>1. Full(q, fn.value, "plain", None) \in observed
    BY <1>11, PlainObserved
  <2> QED  BY <2>1 DEF Full
<1>12. CASE value \in FunctionTriggers(program, fn) /\ error \in FunctionTriggers(program, fn)
  <2>1. /\ value.role = "nonErrorReturn" /\ value.at = s.at
        /\ value.producer = q /\ value.consumer = fn.value
        /\ error.role = "errorReturn" /\ error.at = s.at /\ error.producer = d
    BY DEF Full
  <2> HIDE DEF value, error
  <2>2. value \in ProgramTriggers(program) /\ error \in pkg.triggers
    BY <1>12, CleanSolution DEF ProgramTriggers
  <2>3. d \in ErrRetProducers(s.at)
    BY <2>1, <2>2 DEF ErrRetProducers, KeptTriggers
  <2>4. value \in observed
    BY <2>1, <2>2, <2>3, SecondBatchTaken
  <2> QED  BY <2>1, <2>4
<1> QED  BY <1>10, <1>11, <1>12

-----------------------------------------------------------------------------
(****************************************************************************)
(* Executions.                                                              *)
(****************************************************************************)

\* What comes of a way to a return statement, after what g returned.
LEMMA OutcomeFacts ==
  ASSUME NEW p \in Program, NEW path, path.last # "unknown", NEW o \in OutcomesOfPath(p, path)
  PROVE  \E c \in CalleeOutcomes(p) :
           /\ path.value = "x" => c.last = "nil" /\ o.value = c.value
           /\ path.value # "x" => o.value = path.value
           /\ path.last = "failed" => c.last # "nil"
           /\ path.last \in {"err", "failed"} \cup (Call \ NonnilAtom) => o.last = c.last
           /\ path.last = "param" => o.last = p.argument
           /\ path.last \notin {"err", "failed", "param"} \cup (Call \ NonnilAtom)
                => o.last = path.last
<1> DEFINE Goes(c) == /\ path.value = "x" => c.last = "nil"
                      /\ path.last = "failed" => c.last # "nil"
           Last(c) == CASE path.last \in {"err", "failed"} \cup (Call \ NonnilAtom) -> {c.last}
                        [] path.last = "param" -> {p.argument}
                        [] path.last = "unknown" -> {"true", "false"}
                        [] OTHER -> {path.last}
<1>1. PICK c \in CalleeOutcomes(p) :
        /\ Goes(c)
        /\ \E l \in Last(c) :
             o = [value |-> IF path.value = "x" THEN c.value ELSE path.value, last |-> l]
  BY DEF OutcomesOfPath
<1>2. /\ o.value = IF path.value = "x" THEN c.value ELSE path.value
      /\ o.last \in Last(c)
  <2> HIDE DEF Last
  <2> QED  BY <1>1
<1>3. "param" \notin Call /\ "param" \notin {"err", "failed"}
  BY NameAssumption
<1> QED  BY <1>1, <1>2, <1>3

\* With a clean result no use of a site is possible that may be nil.
LEMMA NothingDereferenced ==
  ASSUME Clean, NEW N \in Solutions(observed), NEW t \in ProgramTriggers(program),
         t.consumer = Deref, t.role \in {"plain", "guardMissing"},
         t.role = "guardMissing" => ~AlwaysSafe(t.at)
  PROVE  t.producer # Nil /\ t.producer \notin N
<1>1. t \in observed
  BY FirstBatchTaken
<1>2. Deref \notin N
  BY EndsAssumption DEF Solutions
<1> QED  BY <1>1, <1>2, NilGoesOn

\* A use without a check is left out only when all results of f that are tracked
\* are known never to be nil; a nil that f returns is among them.
LEMMA AlwaysSafeTracked ==
  ASSUME Clean, program.f.kind # "plain", NEW s \in program.f.returns, ~Trusted(program, s),
         NEW o \in Outcomes(program, s), o.value = "nil"
  PROVE  \E t \in pkg.triggers :
           t.role = "alwaysSafe" /\ t.consumer = program.f.value /\ t.producer # Never
<1> DEFINE fn == program.f
<1>1. /\ program \in Program /\ fn.value \in Site /\ fn.kind \in {"error", "ok"}
      /\ s.form \in {"literal", "variables", "forward"} /\ Nil # Never
      /\ pkg.triggers = ProgramTriggers(program)
  BY CleanSolution, ProgramTypes, EndsAssumption DEF Trusted
<1>2. program.g.value # None => program.g.value # Never
  BY <1>1, ProgramTypes, EndsAssumption
<1>3. SUFFICES \E q : q # Never /\ Full(q, fn.value, "alwaysSafe", fn.value)
                                     \in ComputeAndConsumeResults(program, fn, s)
  <2>1. PICK q : q # Never /\ Full(q, fn.value, "alwaysSafe", fn.value)
                                \in ComputeAndConsumeResults(program, fn, s)
    BY <1>3
  <2> DEFINE t == Full(q, fn.value, "alwaysSafe", fn.value)
  <2>2. t.role = "alwaysSafe" /\ t.at = fn.value /\ t.consumer = fn.value /\ t.producer = q
    BY DEF Full
  <2> HIDE DEF t
  <2>3. t.at \notin ReturnStmt
    BY <1>1, <2>2, NameAssumption
  <2>4. t \in FunctionTriggers(program, fn)
    BY <1>1, <2>1, <2>2, <2>3, TriggersOfFunction DEF t
  <2> QED  BY <1>1, <2>1, <2>2, <2>4 DEF ProgramTriggers
<1>4. CASE s.form = "forward"
  <2>1. program.g.value # None
    BY <1>1, <1>4, WellFormedAssumption DEF WellFormed
  <2> QED  BY <1>2, <1>4, <2>1 DEF ComputeAndConsumeResults, ForwardReturns
<1>5. CASE s.form \in {"literal", "variables"}
  <2>1. PICK path \in s.paths : o \in OutcomesOfPath(program, path)
    BY <1>5 DEF Outcomes
  <2>2. "unknown" \notin Atoms(s, "last") /\ path.last # "unknown"
    BY DEF Trusted, Atoms
  <2>3. path.value \in {"nil", "x"}
    BY <1>1, <2>1, <2>2, OutcomeFacts
  <2>4. path.value = "x" => program.g.value # None
    BY <1>1, WellFormedAssumption DEF WellFormed
  <2>5. /\ Producer(program, path.value) \in Producers(program, s, "value")
        /\ Producer(program, path.value) # Never
    BY <1>1, <1>2, <2>3, <2>4, NilProducers
  <2>6. Full(Producer(program, path.value), fn.value, "alwaysSafe", fn.value)
          \in CreateReturnConsumersForAlwaysSafe(program, fn, s)
    <3> HIDE DEF fn
    <3>1. Producers(program, s, "value") # {}
      BY <2>5
    <3> QED  BY <2>5, Consumed DEF CreateReturnConsumersForAlwaysSafe
  <2>7. CASE fn.kind = "error"
    <3>1. fn.value # None
      BY <1>1, EndsAssumption
    <3> QED  BY <1>5, <2>5, <2>6, <2>7, <3>1 DEF ComputeAndConsumeResults, HandleErrorReturns
  <2>8. CASE fn.kind = "ok"
    <3>1. s.form = "literal"
      BY <1>1, <1>5, <2>2, <2>8, WellFormedAssumption DEF WellFormed
    <3>2. ComputeAndConsumeResults(program, fn, s) = HandleBooleanReturns(program, fn, s)
      BY <2>2, <2>8, <3>1 DEF ComputeAndConsumeResults
    <3> QED  BY <2>5, <2>6, <3>2 DEF HandleBooleanReturns
  <2> QED  BY <1>1, <2>7, <2>8
<1> QED  BY <1>1, <1>4, <1>5

\* When an error returning function may return a nil with a nil error, this value is
\* observed as its result.
LEMMA ValueDelivered ==
  ASSUME Clean, program.f.kind = "error", NEW s \in program.f.returns,
         s.form \in {"literal", "variables"}, ~Trusted(program, s), NEW path \in s.paths,
         NEW o \in OutcomesOfPath(program, path), o.value = "nil", Succeeds(o)
  PROVE  \E t \in observed :
           t.producer = Producer(program, path.value) /\ t.consumer = program.f.value
<1>1. /\ program \in Program /\ program.f.value \in Site /\ Param \in Site
      /\ program.g.last \in Site /\ program.argument \in {"nil", "notNil"}
  BY CleanSolution, ProgramTypes
<1>2. /\ path.last \notin Bool
      /\ path.last = "g()" => program.g.value = None
  BY <1>1, WellFormedAssumption DEF WellFormed
<1>3. path.last \in Call \cup {"nil", "composite", "err", "failed", "param"}
  BY <1>1, <1>2, ProgramTypes
<1>4. path.last \in Atoms(s, "last")
  BY DEF Atoms
<1>5. PICK c \in CalleeOutcomes(program) :
        /\ path.value = "x" => c.last = "nil" /\ o.value = c.value
        /\ path.value # "x" => o.value = path.value
        /\ path.last = "failed" => c.last # "nil"
        /\ path.last \in {"err", "failed"} \cup (Call \ NonnilAtom) => o.last = c.last
        /\ path.last = "param" => o.last = program.argument
        /\ path.last \notin {"err", "failed", "param"} \cup (Call \ NonnilAtom)
             => o.last = path.last
  BY <1>1, <1>2, OutcomeFacts DEF Bool
<1>6. path.value \in {"nil", "x"}
  BY <1>5
<1>7. c.last \in Call \cup {"nil", "composite"}
  BY <1>1, CalleeReturns
<1>8. o.last \in {"nil", "true"} /\ "true" \notin Call /\ "nil" \notin Call
  BY NameAssumption DEF Succeeds
<1>9. ASSUME path.last \in {"err", "param", "g()"}, Producer(program, path.last) \in Site,
             \A N \in Contexts : Producer(program, path.last) \in N
      PROVE  \E t \in observed :
               t.producer = Producer(program, path.value) /\ t.consumer = program.f.value
  BY <1>6, <1>9, OpenReturned
<1>10. CASE path.last = "nil"
  BY <1>1, <1>6, <1>10, NilReturned
<1>11. CASE path.last \in {"composite", "failed"}
  <2>1. "composite" \notin Call /\ "failed" \notin Call
    BY NameAssumption
  <2> QED  BY <1>5, <1>7, <1>8, <1>11, <2>1
<1>12. CASE path.last = "err"
  <2>1. o.last = c.last /\ c.last = "nil"
    BY <1>5, <1>7, <1>8, <1>12
  <2>2. program.g.value = None
    BY <1>4, <1>12 DEF Trusted
  <2>3. Producer(program, "err") = program.g.last
    BY NameAssumption DEF Producer, AssumeReturn
  <2>4. \A N \in Contexts : program.g.last \in N
    BY <2>1, <2>2, CalleeErrorNil
  <2> QED  BY <1>1, <1>9, <1>12, <2>3, <2>4
<1>13. CASE path.last = "param"
  <2>1. program.argument = "nil"
    BY <1>1, <1>5, <1>8, <1>13
  <2>2. Producer(program, "param") = Param
    BY NameAssumption DEF Producer, AssumeReturn
  <2>3. ASSUME NEW N \in Contexts
        PROVE  Param \in N
    <3> DEFINE t == Full(Nil, Param, "plain", None)
    <3>1. t.role = "plain" /\ t.producer = Nil /\ t.consumer = Param
      BY DEF Full
    <3>2. t \in ProgramTriggers(program)
      BY <2>1 DEF ProgramTriggers, Arguments
    <3> HIDE DEF t
    <3>3. t \in observed \ NonErrRetTriggers
      BY <3>1, <3>2, FirstBatchTaken
    <3> QED  BY <3>1, <3>3, NilGoesOn DEF Contexts
  <2> QED  BY <1>1, <1>9, <1>13, <2>2, <2>3
<1>14. CASE path.last = "g()"
  <2>1. path.last \in Call \ NonnilAtom /\ ~AssumeReturn("g()")
    BY <1>14, WellFormedAssumption, ProgramAssumption
  <2>2. c.last = "nil"
    BY <1>5, <1>7, <1>8, <2>1
  <2>3. Producer(program, "g()") = program.g.last
    BY <2>1, NameAssumption DEF Producer
  <2>4. \A N \in Contexts : program.g.last \in N
    BY <1>2, <1>14, <2>2, CalleeErrorNil
  <2> QED  BY <1>1, <1>9, <1>14, <2>3, <2>4
<1>15. CASE path.last \in Call \ {"g()"}
  <2>1. AssumeReturn(path.last)
    BY <1>15, WellFormedAssumption
  <2>2. path.last \in NonnilAtom
    BY <1>4, <2>1 DEF Trusted
  <2>3. path.last \notin {"err", "failed", "param"}
    BY <1>15, NameAssumption
  <2> QED  BY <1>5, <1>8, <1>15, <2>2, <2>3
<1> QED  BY <1>3, <1>10, <1>11, <1>12, <1>13, <1>14, <1>15

\* A nil that f returns to a use behind the check of its error (or to any use,
\* without a contract) makes the result of f nilable in every solution.
LEMMA ResultNilable ==
  ASSUME Clean, NEW s \in program.f.returns, ~Trusted(program, s),
         NEW o \in Outcomes(program, s), o.value = "nil",
         program.f.kind = "plain" \/ Succeeds(o), NEW N \in Solutions(observed)
  PROVE  program.f.value \in N
<1> DEFINE fn == program.f
<1>1. /\ program \in Program /\ fn.value \in Site /\ fn.kind \in {"error", "ok", "plain"}
      /\ s.form \in {"literal", "variables", "forward"}
  BY CleanSolution, ProgramTypes DEF Trusted
<1>2. CASE s.form = "forward"
  <2>1. fn.kind = "error" /\ program.g.value # None
    BY <1>1, <1>2, WellFormedAssumption DEF WellFormed
  <2>2. o \in CalleeOutcomes(program)
    BY <1>2 DEF Outcomes
  <2>3. o.last = "nil"
    BY <1>1, <2>1, <2>2, CalleeReturns, NameAssumption DEF Succeeds
  <2>4. program.g.value \in N
    BY <2>1, <2>2, <2>3, CalleeNil
  <2> DEFINE t == Full(program.g.value, fn.value, "plain", None)
  <2>5. t \in observed
    BY <1>2, StatementObserved DEF ComputeAndConsumeResults, ForwardReturns
  <2>6. t.producer = program.g.value /\ t.consumer = fn.value
    BY DEF Full
  <2> HIDE DEF t
  <2> QED  BY <2>4, <2>5, <2>6, NilGoesOn
<1>3. CASE s.form \in {"literal", "variables"}
  <2>1. PICK path \in s.paths : o \in OutcomesOfPath(program, path)
    BY <1>3 DEF Outcomes
  <2>2. "unknown" \notin Atoms(s, "last") /\ path.last \in Atoms(s, "last") /\ path.last # "unknown"
    BY DEF Trusted, Atoms
  <2>3. PICK c \in CalleeOutcomes(program) :
          /\ path.value = "x" => c.last = "nil" /\ o.value = c.value
          /\ path.value # "x" => o.value = path.value
          /\ path.last \in Bool => o.last = path.last
    BY <1>1, <2>1, <2>2, OutcomeFacts, NameAssumption DEF Bool
  <2>4. path.value \in {"nil", "x"} /\ (path.value = "x" => program.g.value # None)
    BY <1>1, <2>3, WellFormedAssumption DEF WellFormed
  <2>5. Producer(program, path.value) = Nil \/ Producer(program, path.value) \in N
    <3>1. path.value = "x" => program.g.value \in N
      BY <2>3, <2>4, CalleeNil
    <3> QED  BY <2>4, <3>1, NilProducers
  <2>6. SUFFICES \E t \in observed :
                   t.producer = Producer(program, path.value) /\ t.consumer = fn.value
    BY <2>5, NilGoesOn
  <2>7. CASE fn.kind = "error"
    BY <1>3, <2>1, <2>7, ValueDelivered
  <2>8. CASE fn.kind # "error"
    <3>1. ComputeAndConsumeResults(program, fn, s) = CreateGeneralReturnConsumers(program, fn, s)
            \/ (fn.kind = "ok" /\ s.form = "literal")
      BY <1>3, <2>8 DEF ComputeAndConsumeResults
    <3>2. ASSUME fn.kind = "ok", s.form = "literal"
          PROVE  /\ ComputeAndConsumeResults(program, fn, s) = HandleBooleanReturns(program, fn, s)
                 /\ Atoms(s, "last") = {"true"}
      <4>1. \A v, w \in s.paths : v.last = w.last
        BY <1>1, <3>2, WellFormedAssumption DEF WellFormed
      <4>2. path.last \in Bool
        BY <1>1, <3>2, WellFormedAssumption DEF WellFormed
      <4>3. path.last = "true"
        BY <2>2, <2>3, <3>2, <4>2 DEF Succeeds, Bool
      <4> QED  BY <2>2, <3>2, <4>1, <4>3 DEF Atoms, ComputeAndConsumeResults
    <3> DEFINE t == Full(Producer(program, path.value), fn.value, "plain", None)
    <3>3. t \in CreateGeneralReturnConsumers(program, fn, s)
      BY <2>4, NilProducers, Consumed DEF CreateGeneralReturnConsumers
    <3>4. t \in ComputeAndConsumeResults(program, fn, s)
      BY <3>1, <3>2, <3>3 DEF HandleBooleanReturns
    <3>5. t \in observed
      BY <3>4, StatementObserved
    <3> QED  BY <3>5 DEF Full
  <2> QED  BY <2>7, <2>8
<1> QED  BY <1>1, <1>2, <1>3

\* handleErrorReturns, handleBooleanReturns, FilterTriggersForErrorReturn and the
\* batches of the engine: for functions with any number of returns and of paths
\* to them, and for every order of the constraints, leaving results out because
\* of their error never hides a nil that a use reaches, behind a check or not,
\* unless one of the documented assumptions on errors is made.
THEOREM NoNilUseHidden == ReturnsSpec => []EveryNilUseReported
<1>1. ReturnsInv => EveryNilUseReported
  <2> SUFFICES ASSUME Clean, NEW s \in program.f.returns, ~Trusted(program, s),
                      NEW o \in Outcomes(program, s), o.value = "nil", Reached(program, o)
               PROVE  FALSE
    BY DEF EveryNilUseReported, UsesNil, Clean
  <2>1. PICK N : N \in Solutions(observed)
    BY CleanSolution
  <2>2. program \in Program /\ program.f.value # None /\ None \notin ReturnStmt
    BY CleanSolution, ProgramAssumption, EndsAssumption
  <2>3. CASE program.f.kind = "plain" \/ program.use = "checked"
    <3> DEFINE t == Full(program.f.value, Deref, "plain", None)
    <3>1. t.role = "plain" /\ t.consumer = Deref /\ t.producer = program.f.value
      BY DEF Full
    <3>2. t \in ProgramTriggers(program)
      BY <2>3 DEF ProgramTriggers, Use
    <3> HIDE DEF t
    <3>3. program.f.value \notin N
      BY <2>1, <3>1, <3>2, NothingDereferenced
    <3>4. program.f.kind = "plain" \/ Succeeds(o)
      BY <2>3 DEF Reached
    <3> QED  BY <2>1, <3>3, <3>4, ResultNilable
  <2>4. CASE program.f.kind # "plain" /\ program.use # "checked"
    <3> DEFINE t == Full(Nil, Deref, "guardMissing", program.f.value)
    <3>1. /\ t.role = "guardMissing" /\ t.consumer = Deref /\ t.producer = Nil
          /\ t.at = program.f.value
      BY DEF Full
    <3>2. t \in ProgramTriggers(program)
      BY <2>4 DEF ProgramTriggers, Use
    <3> HIDE DEF t
    <3>3. AlwaysSafe(program.f.value)
      BY <2>1, <3>1, <3>2, NothingDereferenced
    <3> QED  BY <2>4, <3>3, AlwaysSafeTracked DEF AlwaysSafe
  <2> QED  BY <2>3, <2>4
<1> QED  BY <1>1, ReturnsInvariant, PTL

-----------------------------------------------------------------------------
(****************************************************************************)
(* The reverse.  When a reader finds no nil that f may return to a use, the *)
(* constraints have a solution: the sites that a reader finds nilable.      *)
(****************************************************************************)

\* Some return statement of g has an error that is nil.
ErrorMayBeNil(p) == \E s \in p.g.returns : "nil" \in Atoms(s, "last")

Counts(p) == p.f.kind = "plain" \/ p.use = "checked"

ReadersSites(p) ==
  {s \in Site : /\ s = p.f.value => ~Counts(p)
                /\ s = p.g.value => MayBeNil(p, "x")
                /\ s = p.g.last => ErrorMayBeNil(p)
                /\ s = Param => p.argument = "nil"}

LEMMA ReadersSite ==
  ASSUME NEW p \in Program
  PROVE  LET N == ReadersSites(p)
         IN  /\ N \in SUBSET Site /\ N \cap {Nil, Never, Deref, Annotated, None} = {}
             /\ p.f.last \in N
             /\ p.f.value \in N <=> ~Counts(p)
             /\ p.g.value \in N <=> p.g.value # None /\ MayBeNil(p, "x")
             /\ p.g.last \in N <=> ErrorMayBeNil(p)
             /\ Param \in N <=> p.argument = "nil"
<1>1. /\ p.f.value \notin {p.f.last, p.g.value, p.g.last, Param}
      /\ p.f.last \notin {p.g.value, p.g.last, Param}
      /\ p.g.value \notin {p.g.last, Param} /\ p.g.last # Param
  BY WellFormedAssumption DEF WellFormed
<1>2. /\ p.f.value \in Site /\ p.f.last \in Site /\ p.g.last \in Site /\ Param \in Site
      /\ p.g.value \in Site \cup {None} /\ None \notin Site
      /\ Site \cap {Nil, Never, Deref, Annotated, None} = {}
  BY ProgramTypes, EndsAssumption
<1> QED  BY <1>1, <1>2 DEF ReadersSites

\* Only nil has the producer that is always nil.
LEMMA NilAtoms ==
  ASSUME NEW p \in Program, NEW atom, Producer(p, atom) = Nil,
         atom \in Call \cup {"nil", "composite", "err", "failed", "param"}
  PROVE  atom = "nil"
<1>1. p.g.last # Nil /\ Param # Nil /\ Nil # Never
  BY ProgramTypes, EndsAssumption
<1>2. atom \in Call => AssumeReturn(atom) \/ atom = "g()"
  BY WellFormedAssumption
<1> QED  BY <1>1, <1>2, NameAssumption DEF Producer

\* What the value of a path can be, and which of it may be nil.
LEMMA ValueAtoms ==
  ASSUME NEW p \in Program, NEW fn \in {p.f, p.g}, NEW s \in fn.returns,
         NEW q \in Producers(p, s, "value"), q = Nil \/ q \in ReadersSites(p)
  PROVE  \E path \in s.paths : MayBeNil(p, path.value)
<1>1. PICK path \in s.paths : q = Producer(p, path.value)
  BY DEF Producers, Atoms
<1>2. path.value \in {"nil", "composite", "x"}
  BY ProgramTypes
<1>3. /\ Producer(p, "x") = p.g.value /\ Producer(p, "composite") = Never
  <2>1. ~AssumeReturn("x")
    BY NameAssumption DEF AssumeReturn
  <2> QED  BY <2>1 DEF Producer
<1>4. q # Never /\ (path.value = "x" => p.g.value # Nil)
  <2>1. Never \notin ReadersSites(p) /\ Never # Nil
    BY EndsAssumption DEF ReadersSites
  <2>2. path.value = "x" => p.g.value # None
    BY WellFormedAssumption DEF WellFormed
  <2>3. p.g.value \in Site => p.g.value # Nil
    BY EndsAssumption
  <2> QED  BY <2>1, <2>2, <2>3, ProgramTypes
<1>5. path.value = "x" => p.g.value \in ReadersSites(p)
  BY <1>1, <1>3, <1>4
<1>6. p.g.value \in ReadersSites(p) => MayBeNil(p, "x")
  BY ReadersSite
<1>7. MayBeNil(p, "nil")
  BY DEF MayBeNil
<1> QED  BY <1>1, <1>2, <1>3, <1>4, <1>5, <1>6, <1>7

\* Which ways through f may come to a nil error, or to true.
LEMMA CanSucceed ==
  ASSUME NEW p \in Program, NEW s \in p.f.returns, NEW path \in s.paths,
         \/ path.last \in {"nil", "true", "unknown"}
         \/ path.last = "param" /\ p.argument = "nil"
         \/ path.last \in {"err", "g()"} /\ ErrorMayBeNil(p)
  PROVE  MaySucceed(p, s)
<1> DEFINE q == [path EXCEPT !.value = "nil"]
<1>1. path \in Path
  BY ProgramAssumption DEF Decl, Return
<1>2. q.value = "nil" /\ q.last = path.last
  BY <1>1 DEF Path
<1>3. PICK c \in CalleeOutcomes(p) : path.last \in {"err", "g()"} => c.last = "nil"
  <2>1. CASE path.last \in {"err", "g()"}
    <3>1. path.last \notin {"nil", "true", "unknown", "param"}
      BY <2>1, NameAssumption, ProgramAssumption
    <3>2. PICK r \in p.g.returns : "nil" \in Atoms(r, "last")
      BY <2>1, <3>1 DEF ErrorMayBeNil
    <3>3. PICK w \in r.paths : w.last = "nil"
      BY <3>2 DEF Atoms
    <3>4. [value |-> w.value, last |-> w.last] \in CalleeOutcomes(p)
      BY <3>2 DEF CalleeOutcomes
    <3> QED  BY <3>3, <3>4
  <2>2. CASE path.last \notin {"err", "g()"}
    <3>1. PICK r \in p.g.returns : r.paths # {}
      BY WellFormedAssumption DEF WellFormed
    <3>2. PICK w \in r.paths : TRUE
      BY <3>1
    <3>3. [value |-> w.value, last |-> w.last] \in CalleeOutcomes(p)
      BY <3>1, <3>2 DEF CalleeOutcomes
    <3> QED  BY <2>2, <3>3
  <2> QED  BY <2>1, <2>2
<1>4. /\ "g()" \in Call \ NonnilAtom
      /\ Call \cap {"nil", "composite", "x", "err", "failed", "param", "true", "false", "unknown"} = {}
  BY NameAssumption, ProgramAssumption, WellFormedAssumption
<1>5. PICK l : /\ l \in {"nil", "true"}
               /\ l \in CASE q.last \in {"err", "failed"} \cup (Call \ NonnilAtom) -> {c.last}
                          [] q.last = "param" -> {p.argument}
                          [] q.last = "unknown" -> {"true", "false"}
                          [] OTHER -> {q.last}
  BY <1>2, <1>3, <1>4
<1>6. [value |-> IF q.value = "x" THEN c.value ELSE q.value, last |-> l] \in OutcomesOfPath(p, q)
  <2>1. q.value # "x" /\ q.last # "failed"
    BY <1>2, <1>4
  <2> HIDE DEF q
  <2> QED  BY <1>5, <2>1 DEF OutcomesOfPath
<1>7. Succeeds([value |-> IF q.value = "x" THEN c.value ELSE q.value, last |-> l])
  BY <1>5 DEF Succeeds
<1> QED  BY <1>6, <1>7 DEF MaySucceed

\* The consumers of a return statement are the results of the function.
LEMMA StatementEnds ==
  ASSUME NEW p \in Program, NEW fn \in {p.f, p.g}, NEW s \in fn.returns,
         NEW t \in ComputeAndConsumeResults(p, fn, s)
  PROVE  /\ t.consumer \in {fn.value, fn.last}
         /\ t.role \in {"plain", "alwaysSafe", "errorReturn", "nonErrorReturn"}
         /\ t.role = "alwaysSafe" => t.at = fn.value
         /\ t.role = "plain" => t.at = None
         /\ fn = p.g /\ t.consumer = fn.last => t.producer \in Producers(p, s, "last")
<1>1. /\ s.form \in {"literal", "variables", "forward", "blank"}
      /\ fn = p.g => s.form \in {"literal", "variables"} /\ fn.kind = "error"
                     /\ fn.value # fn.last
  BY ProgramTypes, WellFormedAssumption DEF WellFormed
<1>2. CASE s.form \in {"forward", "blank"}
  BY <1>1, <1>2 DEF ComputeAndConsumeResults, ForwardReturns, BlankReturns, Full
<1>3. CASE s.form \in {"literal", "variables"}
  <2>1. \/ t \in HandleErrorReturns(p, fn, s)
        \/ fn # p.g /\ t \in HandleBooleanReturns(p, fn, s)
        \/ fn # p.g /\ t \in CreateGeneralReturnConsumers(p, fn, s)
    BY <1>1, <1>3 DEF ComputeAndConsumeResults
  <2>2. \/ t \in CreateReturnConsumersForAlwaysSafe(p, fn, s)
        \/ t \in CreateConsumerForErrorReturn(p, fn, s)
        \/ t \in CreateGeneralReturnConsumers(p, fn, s)
        \/ t \in CreateSpecialConsumersForAllReturns(p, fn, s)
    BY <2>1 DEF HandleErrorReturns, HandleBooleanReturns
  <2>3. \/ t \in AddConsumption(Producers(p, s, "value"), fn.value, "alwaysSafe", fn.value)
        \/ t \in AddConsumption(Producers(p, s, "last"), fn.last, "plain", None)
        \/ t \in AddConsumption(Producers(p, s, "value"), fn.value, "plain", None)
        \/ t \in AddConsumption(Producers(p, s, "value"), fn.value, "nonErrorReturn", s.at)
        \/ t \in AddConsumption(Producers(p, s, "last"), fn.last, "errorReturn", s.at)
    BY <2>2
    DEF CreateReturnConsumersForAlwaysSafe, CreateConsumerForErrorReturn,
        CreateGeneralReturnConsumers, CreateSpecialConsumersForAllReturns
  <2>4. CASE t \in AddConsumption(Producers(p, s, "value"), fn.value, "alwaysSafe", fn.value)
    BY <1>1, <2>4, Consumptions
  <2>5. CASE t \in AddConsumption(Producers(p, s, "last"), fn.last, "plain", None)
    BY <2>5, Consumptions
  <2>6. CASE t \in AddConsumption(Producers(p, s, "value"), fn.value, "plain", None)
    BY <1>1, <2>6, Consumptions
  <2>7. CASE t \in AddConsumption(Producers(p, s, "value"), fn.value, "nonErrorReturn", s.at)
    BY <1>1, <2>7, Consumptions
  <2>8. CASE t \in AddConsumption(Producers(p, s, "last"), fn.last, "errorReturn", s.at)
    BY <2>8, Consumptions
  <2> QED  BY <2>3, <2>4, <2>5, <2>6, <2>7, <2>8
<1> QED  BY <1>1, <1>2, <1>3

\* What the filter leaves of a trigger: its ends, and its role unless it decides.
LEMMA FilterOrigin ==
  ASSUME NEW T, NEW t \in Filter(T)
  PROVE  \E u \in T :
           /\ t = Refined(T, u)
           /\ ~(u.role = "nonErrorReturn" /\ IsNonNil(T, u.at))
           /\ t.producer = u.producer /\ t.consumer = u.consumer
           /\ t = u \/ (t.role = "plain" /\ u.at \in ReturnStmt)
<1>1. PICK u \in T : /\ t = Refined(T, u)
                     /\ ~(u.role = "nonErrorReturn" /\ IsNonNil(T, u.at))
  BY DEF Filter
<1>2. CASE t = u
  BY <1>1, <1>2
<1>3. CASE t = Full(u.producer, u.consumer, "plain", None)
           /\ (IsNil(T, u.at) \/ IsNonNil(T, u.at))
  <2>1. u.at \in ReturnStmt
    BY <1>3 DEF IsNil, IsNonNil
  <2>2. t.role = "plain" /\ t.producer = u.producer /\ t.consumer = u.consumer
    BY <1>3 DEF Full
  <2> QED  BY <1>1, <2>1, <2>2
<1> QED  BY <1>1, <1>2, <1>3 DEF Refined

\* The triggers of a function are those of its return statements, up to the filter.
LEMMA FunctionEnds ==
  ASSUME NEW p \in Program, NEW fn \in {p.f, p.g}, NEW t \in FunctionTriggers(p, fn)
  PROVE  \E s \in fn.returns : \E u \in ComputeAndConsumeResults(p, fn, s) :
           /\ t.producer = u.producer /\ t.consumer = u.consumer
           /\ fn.kind # "error" => t = u
           /\ t.role # "plain" => t = u
           /\ t.role = "plain" => u.role # "alwaysSafe"
<1> DEFINE all == UNION {ComputeAndConsumeResults(p, fn, s) : s \in fn.returns}
<1>1. CASE fn.kind # "error"
  BY <1>1 DEF FunctionTriggers
<1>2. CASE fn.kind = "error"
  <2>1. t \in Filter(all)
    BY <1>2 DEF FunctionTriggers
  <2>2. PICK u \in all :
          /\ t.producer = u.producer /\ t.consumer = u.consumer
          /\ t = u \/ (t.role = "plain" /\ u.at \in ReturnStmt)
    <3> HIDE DEF all
    <3> QED  BY <2>1, FilterOrigin
  <2>3. PICK s \in fn.returns : u \in ComputeAndConsumeResults(p, fn, s)
    OBVIOUS
  <2>4. u.role = "alwaysSafe" => u.at = fn.value
    BY <2>3, StatementEnds
  <2>5. fn.value \notin ReturnStmt
    BY ProgramTypes, NameAssumption, EndsAssumption
  <2> HIDE DEF all
  <2> QED  BY <1>2, <2>2, <2>3, <2>4, <2>5
<1> QED  BY <1>1, <1>2

\* A use without a check is kept from the engine, when a reader finds no nil in f.
LEMMA ReaderFindsSafe ==
  ASSUME ReturnsInv, ~Counts(program), ~MayUseNil(program)
  PROVE  AlwaysSafe(program.f.value)
<1> DEFINE p == program
           fn == program.f
<1>1. /\ p \in Program /\ fn.kind \in {"error", "ok"} /\ p.use # "checked"
      /\ pkg.triggers = ProgramTriggers(p) /\ fn.value \in Site
  BY ProgramTypes DEF ReturnsInv, Counts
<1>2. ASSUME NEW s \in fn.returns
      PROVE  /\ s.form \in {"literal", "variables"}
             /\ \A path \in s.paths : ~MayBeNil(p, path.value)
  <2>1. s.form \notin {"blank", "forward"} /\ MaySucceed(p, s)
    BY <1>1 DEF MayUseNil, MayBeNil, MaySucceed
  <2> QED  BY <1>1, <2>1, ProgramTypes DEF MayUseNil, Atoms
<1>3. ASSUME NEW t \in pkg.triggers, t.role = "alwaysSafe", t.consumer = fn.value
      PROVE  t.producer = Never
  <2>1. t \notin Use(p) \cup Arguments(p)
    BY <1>3 DEF Use, Arguments, Full
  <2>2. PICK gn \in {p.f, p.g} : t \in FunctionTriggers(p, gn)
    BY <1>1, <2>1 DEF ProgramTriggers
  <2>3. PICK s \in gn.returns : t \in ComputeAndConsumeResults(p, gn, s)
    BY <1>1, <1>3, <2>2, FunctionEnds
  <2>4. gn = fn
    <3>1. t.consumer \in {gn.value, gn.last}
      BY <1>1, <2>3, StatementEnds
    <3>2. fn.value \notin {p.g.value, p.g.last}
      BY <1>1, WellFormedAssumption DEF WellFormed
    <3> QED  BY <1>3, <3>1, <3>2
  <2>5. t \in CreateReturnConsumersForAlwaysSafe(p, fn, s)
    <3>1. /\ t \notin CreateConsumerForErrorReturn(p, fn, s)
          /\ t \notin CreateGeneralReturnConsumers(p, fn, s)
      BY <1>3, Consumptions DEF CreateConsumerForErrorReturn, CreateGeneralReturnConsumers
    <3>2. t \notin CreateSpecialConsumersForAllReturns(p, fn, s)
      BY <1>3, Consumptions DEF CreateSpecialConsumersForAllReturns
    <3>3. \/ t \in HandleErrorReturns(p, fn, s) \/ t \in HandleBooleanReturns(p, fn, s)
          \/ t \in CreateGeneralReturnConsumers(p, fn, s)
      BY <1>2, <2>3, <2>4 DEF ComputeAndConsumeResults
    <3> QED  BY <3>1, <3>2, <3>3 DEF HandleErrorReturns, HandleBooleanReturns
  <2>6. t.producer \in Producers(p, s, "value") \/ t.producer = Never
    BY <2>5 DEF CreateReturnConsumersForAlwaysSafe, AddConsumption, Full
  <2>7. ASSUME t.producer \in Producers(p, s, "value")
        PROVE  t.producer = Never
    <3>1. PICK path \in s.paths : t.producer = Producer(p, path.value)
      BY <2>7 DEF Producers, Atoms
    <3>2. path.value = "composite"
      BY <1>1, <1>2, <2>4, <3>1, ProgramTypes DEF MayBeNil
    <3> QED  BY <3>1, <3>2, NameAssumption DEF Producer
  <2> QED  BY <2>6, <2>7
<1>4. \E t \in pkg.triggers : t.role = "alwaysSafe" /\ t.consumer = fn.value
  <2>1. PICK s \in fn.returns : Atoms(s, "last") # {"unknown"}
    BY <1>1 DEF MayUseNil
  <2>2. s.paths # {} /\ (s.form = "literal" => \A v, w \in s.paths : v.last = w.last)
    BY <1>1, <1>2, WellFormedAssumption DEF WellFormed
  <2>3. CreateReturnConsumersForAlwaysSafe(p, fn, s) # {}
    BY DEF CreateReturnConsumersForAlwaysSafe, AddConsumption
  <2>4. PICK t : t \in CreateReturnConsumersForAlwaysSafe(p, fn, s)
    BY <2>3
  <2>5. t.role = "alwaysSafe" /\ t.at = fn.value /\ t.consumer = fn.value
    BY <2>4, Consumptions DEF CreateReturnConsumersForAlwaysSafe
  <2>6. t \in ComputeAndConsumeResults(p, fn, s)
    <3>1. CASE fn.kind = "error"
      <4>1. fn.value # None
        BY <1>1, EndsAssumption
      <4> QED  BY <1>2, <2>4, <3>1, <4>1 DEF ComputeAndConsumeResults, HandleErrorReturns
    <3>2. CASE fn.kind = "ok"
      <4>1. "unknown" \notin Atoms(s, "last")
        BY <1>1, <1>2, <2>1, <2>2, <3>2, WellFormedAssumption DEF WellFormed, Atoms
      <4>2. s.form = "literal"
        BY <1>1, <1>2, <2>2, <3>2, <4>1, WellFormedAssumption DEF WellFormed, Atoms
      <4> QED  BY <2>4, <3>2, <4>1, <4>2 DEF ComputeAndConsumeResults, HandleBooleanReturns
    <3> QED  BY <1>1, <3>1, <3>2
  <2>7. t.at \notin ReturnStmt
    BY <1>1, <2>5, NameAssumption
  <2>8. t \in FunctionTriggers(p, fn)
    BY <1>1, <2>5, <2>6, <2>7, TriggersOfFunction
  <2> QED  BY <1>1, <2>5, <2>8 DEF ProgramTriggers
<1> QED  BY <1>3, <1>4 DEF AlwaysSafe

AllTriggers(p, fn) == UNION {ComputeAndConsumeResults(p, fn, s) : s \in fn.returns}

\* The errors that the filter finds for a return statement are those of the statement.
LEMMA FoundIsOwn ==
  ASSUME NEW p \in Program, NEW fn \in {p.f, p.g}, NEW s \in fn.returns, NEW q,
         Found(AllTriggers(p, fn), s.at, q)
  PROVE  q \in Producers(p, s, "last")
<1>1. PICK t \in AllTriggers(p, fn) : t.role = "errorReturn" /\ t.at = s.at /\ t.producer = q
  BY DEF Found
<1>2. PICK r \in fn.returns : t \in ComputeAndConsumeResults(p, fn, r)
  BY DEF AllTriggers
<1>3. t.at = r.at /\ q \in Producers(p, r, "last")
  BY <1>1, <1>2, StatementTriggers, ProgramTypes
<1>4. \A v, w \in p.f.returns \cup p.g.returns : v.at = w.at => v = w
  BY WellFormedAssumption DEF WellFormed
<1>5. r = s
  BY <1>1, <1>3, <1>4
<1> QED  BY <1>3, <1>5

\* When the value of an error returning function is kept, its return statement has
\* an error that is nil, or no error is known not to be nil and they are all kept.
LEMMA ErrorValueKept ==
  ASSUME NEW p \in Program, NEW fn \in {p.f, p.g}, fn.kind = "error", fn.value \in Site,
         NEW t \in FunctionTriggers(p, fn), t.consumer = fn.value, t.role # "alwaysSafe"
  PROVE  \E s \in fn.returns :
           \/ s.form = "forward" /\ t.producer = p.g.value
           \/ /\ s.form \in {"literal", "variables"} /\ t.producer \in Producers(p, s, "value")
              /\ \/ "nil" \in Atoms(s, "last")
                 \/ /\ t.role = "nonErrorReturn" /\ t.at = s.at
                    /\ \A path \in s.paths :
                         /\ path.last \in {"err", "param", "g()"}
                         /\ Full(Producer(p, path.last), fn.last, "errorReturn", s.at)
                              \in FunctionTriggers(p, fn)
<1> DEFINE all == AllTriggers(p, fn)
<1>1. FunctionTriggers(p, fn) = Filter(all)
  BY DEF FunctionTriggers, AllTriggers
<1>2. PICK u \in all :
        /\ t = Refined(all, u) /\ ~(u.role = "nonErrorReturn" /\ IsNonNil(all, u.at))
        /\ t.producer = u.producer /\ t.consumer = u.consumer
        /\ t = u \/ (t.role = "plain" /\ u.at \in ReturnStmt)
  <2> HIDE DEF all
  <2> QED  BY <1>1, FilterOrigin
<1>3. PICK s \in fn.returns : u \in ComputeAndConsumeResults(p, fn, s)
  BY DEF AllTriggers
<1>4. /\ s.form \in {"literal", "variables", "forward", "blank"} /\ s.at \in ReturnStmt
      /\ fn.value \notin ReturnStmt /\ fn.value # None /\ None \notin ReturnStmt
  BY ProgramTypes, NameAssumption, EndsAssumption
<1>5. fn.value # fn.last
  BY WellFormedAssumption DEF WellFormed
<1>6. u.role # "alwaysSafe"
  BY <1>2, <1>3, <1>4, StatementEnds
<1>7. CASE s.form \in {"forward", "blank"}
  <2>1. s.form = "forward" /\ u \in ForwardReturns(p, fn)
    BY <1>3, <1>7 DEF ComputeAndConsumeResults, BlankReturns
  <2>2. u.producer = p.g.value
    BY <1>2, <1>5, <2>1 DEF ForwardReturns, Full
  <2> QED  BY <1>2, <2>1, <2>2
<1>8. CASE s.form \in {"literal", "variables"}
  <2>1. u \in HandleErrorReturns(p, fn, s)
    BY <1>3, <1>8 DEF ComputeAndConsumeResults
  <2>2. /\ u \notin CreateReturnConsumersForAlwaysSafe(p, fn, s)
        /\ u \notin CreateConsumerForErrorReturn(p, fn, s)
    BY <1>2, <1>5, <1>6, Consumptions
    DEF CreateReturnConsumersForAlwaysSafe, CreateConsumerForErrorReturn
  <2>3. CASE IsErrorReturnNil(s)
    <3>1. u \in CreateGeneralReturnConsumers(p, fn, s)
      BY <1>4, <2>1, <2>2, <2>3 DEF HandleErrorReturns
    <3>2. u.producer \in Producers(p, s, "value")
      BY <3>1, Consumptions DEF CreateGeneralReturnConsumers
    <3> QED  BY <1>2, <1>8, <2>3, <3>2 DEF IsErrorReturnNil
  <2>4. CASE ~IsErrorReturnNil(s)
    <3>1. ~IsErrorReturnNonnil(s) /\ u \in CreateSpecialConsumersForAllReturns(p, fn, s)
      BY <1>4, <2>1, <2>2, <2>4 DEF HandleErrorReturns
    <3>2. u \in AddConsumption(Producers(p, s, "value"), fn.value, "nonErrorReturn", s.at)
      <4>1. u \notin AddConsumption(Producers(p, s, "last"), fn.last, "errorReturn", s.at)
        BY <1>2, <1>5, Consumptions
      <4> QED  BY <1>4, <3>1, <4>1 DEF CreateSpecialConsumersForAllReturns
    <3>3. u.producer \in Producers(p, s, "value") /\ u.role = "nonErrorReturn" /\ u.at = s.at
      BY <3>2, Consumptions
    <3>4. CASE "nil" \in Atoms(s, "last")
      BY <1>2, <1>8, <3>3, <3>4
    <3>5. CASE "nil" \notin Atoms(s, "last")
      <4>1. ASSUME NEW path \in s.paths
            PROVE  path.last \in Call \cup {"composite", "err", "failed", "param"}
        <5>1. path.last \in Call \cup {"nil", "composite", "err", "failed", "param"} \cup Bool
          BY ProgramTypes
        <5>2. path.last \notin Bool
          <6>1. fn = p.f => path.last \notin Bool
            BY WellFormedAssumption DEF WellFormed
          <6>2. fn = p.g => path.last \in {"nil", "composite"} \/ path.last \in Call
            BY WellFormedAssumption DEF WellFormed, AssumeReturn
          <6> QED  BY <6>1, <6>2, NameAssumption DEF Bool
        <5>3. path.last # "nil"
          BY <3>5 DEF Atoms
        <5> QED  BY <5>1, <5>2, <5>3
      <4>2. ~Found(all, s.at, Nil)
        <5> SUFFICES ASSUME Nil \in Producers(p, s, "last")
                     PROVE  FALSE
          BY FoundIsOwn
        <5>1. PICK path \in s.paths : Nil = Producer(p, path.last)
          BY DEF Producers, Atoms
        <5>2. path.last = "nil"
          BY <4>1, <5>1, NilAtoms
        <5> QED  BY <3>5, <5>2 DEF Atoms
      <4>3. ~Found(all, s.at, Never)
        <5>1. ~IsNonNil(all, s.at)
          BY <1>2, <3>3
        <5> QED  BY <1>4, <4>2, <5>1 DEF IsNonNil
      <4>4. t = u
        <5> HIDE DEF all
        <5> QED  BY <1>2, <3>3, <4>2, <4>3 DEF Refined, IsNil, IsNonNil, IsMixed
      <4>5. ASSUME NEW path \in s.paths
            PROVE  /\ path.last \in {"err", "param", "g()"}
                   /\ Full(Producer(p, path.last), fn.last, "errorReturn", s.at)
                        \in FunctionTriggers(p, fn)
        <5> DEFINE d == Producer(p, path.last)
                   w == Full(d, fn.last, "errorReturn", s.at)
        <5>1. ~(s.form = "literal" /\ path.last = "composite")
          <6> SUFFICES ASSUME s.form = "literal", path.last = "composite"
                       PROVE  FALSE
            OBVIOUS
          <6>1. \A v, r \in s.paths : v.last = r.last
            BY WellFormedAssumption DEF WellFormed
          <6>2. Atoms(s, "last") = {"composite"}
            BY <6>1 DEF Atoms
          <6> QED  BY <3>1, <6>2 DEF IsErrorReturnNonnil
        <5>2. d \in Producers(p, s, "last")
          BY <5>1 DEF Producers, Atoms
        <5>3. w \in AddConsumption(Producers(p, s, "last"), fn.last, "errorReturn", s.at)
          BY <5>2, Consumed
        <5>4. w \in CreateSpecialConsumersForAllReturns(p, fn, s)
          BY <5>3 DEF CreateSpecialConsumersForAllReturns
        <5>5. w \in HandleErrorReturns(p, fn, s)
          BY <2>4, <3>1, <5>4 DEF HandleErrorReturns
        <5>6. w \in all
          BY <1>8, <5>5 DEF AllTriggers, ComputeAndConsumeResults
        <5>7. w.role = "errorReturn" /\ w.at = s.at /\ w.producer = d
          BY DEF Full
        <5> HIDE DEF all, w
        <5>8. w \in Filter(all)
          <6>1. ~IsNil(all, s.at) /\ ~IsNonNil(all, s.at)
            BY <4>2, <4>3 DEF IsNil, IsNonNil
          <6>2. Refined(all, w) = w
            BY <5>7, <6>1 DEF Refined
          <6> QED  BY <5>6, <5>7, <6>1, <6>2 DEF Filter
        <5>9. d # Never
          BY <4>3, <5>6, <5>7 DEF Found
        <5>10. path.last \notin {"composite", "failed"} /\ ~AssumeReturn(path.last)
          <6>1. \/ path.last \in {"err", "param", "g()"}
                \/ path.last \notin {"nil", "x", "err", "param", "g()"}
            BY <4>1, NameAssumption
          <6>2. path.last \in {"err", "param", "g()"} => ~AssumeReturn(path.last)
            BY WellFormedAssumption, NameAssumption DEF AssumeReturn
          <6> QED  BY <5>9, <6>1, <6>2 DEF Producer
        <5>11. path.last \in {"err", "param", "g()"}
          BY <4>1, <5>10, WellFormedAssumption
        <5> QED  BY <1>1, <5>8, <5>11 DEF w
      <4> QED  BY <1>8, <3>3, <4>4, <4>5
    <3> QED  BY <3>4, <3>5
  <2> QED  BY <2>3, <2>4
<1> QED  BY <1>4, <1>7, <1>8

\* A value of f that a reader finds nilable comes with no error that may be nil.
LEMMA ReaderFindsFailing ==
  ASSUME NEW p \in Program, Counts(p), ~MayUseNil(p), NEW s \in p.f.returns,
         NEW q \in Producers(p, s, "value"), q = Nil \/ q \in ReadersSites(p)
  PROVE  ~MaySucceed(p, s)
<1>1. \E path \in s.paths : MayBeNil(p, path.value)
  BY ValueAtoms
<1> QED  BY <1>1 DEF MayUseNil, Atoms

\* The sites a reader finds nilable satisfy what is taken up of the values of f, as
\* long as they say of errors what the second batch was decided by.
LEMMA ResultSatisfied ==
  ASSUME ReturnsInv, Counts(program), ~MayUseNil(program),
         NEW t \in FunctionTriggers(program, program.f), t.consumer = program.f.value,
         t.role # "alwaysSafe",
         t.role = "nonErrorReturn" => \/ ErrRetProducers(t.at) = {}
                                      \/ ErrRetProducers(t.at) \cap ReadersSites(program) # {}
  PROVE  t.producer # Nil /\ t.producer \notin ReadersSites(program)
<1> DEFINE p == program
           fn == program.f
           N == ReadersSites(program)
<1>1. /\ p \in Program /\ fn.value \in Site /\ fn.kind \in {"error", "ok", "plain"}
      /\ pkg.triggers = ProgramTriggers(p) /\ fn.value # fn.last
      /\ p.g.value \in Site \cup {None} /\ p.g.last \in Site /\ Param \in Site
  BY ProgramTypes, WellFormedAssumption DEF ReturnsInv, WellFormed
<1> SUFFICES ASSUME t.producer = Nil \/ t.producer \in N
             PROVE  FALSE
  OBVIOUS
<1>2. ASSUME NEW s \in fn.returns
      PROVE  s.form # "blank" /\ (s.form = "forward" => ~MayBeNil(p, "x"))
  BY DEF MayUseNil
<1>3. ASSUME NEW s \in fn.returns, t.producer \in Producers(p, s, "value")
      PROVE  /\ ~MaySucceed(p, s)
             /\ s.paths # {}
             /\ \A path \in s.paths :
                  /\ path.last \notin {"nil", "true", "unknown"}
                  /\ path.last = "param" => p.argument # "nil"
                  /\ path.last \in {"err", "g()"} => ~ErrorMayBeNil(p)
  <2>1. ~MaySucceed(p, s)
    BY <1>1, <1>3, ReaderFindsFailing
  <2>2. s.paths # {}
    BY <1>3 DEF Producers, Atoms
  <2> QED  BY <1>1, <2>1, <2>2, CanSucceed
<1>4. CASE fn.kind = "error"
  <2>1. PICK s \in fn.returns :
          \/ s.form = "forward" /\ t.producer = p.g.value
          \/ /\ t.producer \in Producers(p, s, "value")
             /\ \/ "nil" \in Atoms(s, "last")
                \/ /\ t.role = "nonErrorReturn" /\ t.at = s.at
                   /\ \A path \in s.paths :
                        /\ path.last \in {"err", "param", "g()"}
                        /\ Full(Producer(p, path.last), fn.last, "errorReturn", s.at)
                             \in FunctionTriggers(p, fn)
    BY <1>1, <1>4, ErrorValueKept
  <2>2. CASE s.form = "forward" /\ t.producer = p.g.value
    <3>1. p.g.value # None /\ ~MayBeNil(p, "x")
      BY <1>1, <1>2, <2>2, WellFormedAssumption DEF WellFormed
    <3>2. p.g.value # Nil
      BY <1>1, <3>1, EndsAssumption
    <3> QED  BY <1>1, <2>2, <3>1, <3>2, ReadersSite
  <2>3. CASE t.producer \in Producers(p, s, "value") /\ "nil" \in Atoms(s, "last")
    BY <1>3, <2>3 DEF Atoms
  <2>4. CASE /\ t.producer \in Producers(p, s, "value")
             /\ t.role = "nonErrorReturn" /\ t.at = s.at
             /\ \A path \in s.paths :
                  /\ path.last \in {"err", "param", "g()"}
                  /\ Full(Producer(p, path.last), fn.last, "errorReturn", s.at)
                       \in FunctionTriggers(p, fn)
    <3>1. PICK path \in s.paths : TRUE
      BY <1>3, <2>4
    <3> DEFINE d == Producer(p, path.last)
               w == Full(d, fn.last, "errorReturn", s.at)
    <3>2. d \in Site
      <4>1. path.last \in {"err", "param", "g()"} /\ ~AssumeReturn(path.last)
        BY <2>4, WellFormedAssumption, NameAssumption DEF AssumeReturn
      <4>2. "g()" \in Call
        BY ProgramAssumption
      <4> QED  BY <1>1, <4>1, <4>2, NameAssumption DEF Producer
    <3>3. /\ w \in FunctionTriggers(p, fn)
          /\ w.role = "errorReturn" /\ w.at = s.at /\ w.producer = d
      BY <2>4 DEF Full
    <3> HIDE DEF w, d
    <3>4. d \in ErrRetProducers(s.at)
      BY <1>1, <3>2, <3>3 DEF ErrRetProducers, KeptTriggers, ProgramTriggers
    <3>5. PICK e \in ErrRetProducers(s.at) : e \in N
      BY <2>4, <3>4
    <3>6. PICK v \in ProgramTriggers(p) : v.role = "errorReturn" /\ v.at = s.at /\ v.producer = e
      BY <1>1, <3>5 DEF ErrRetProducers, KeptTriggers
    <3>7. e \in Producers(p, s, "last")
      <4>1. v \in FunctionTriggers(p, fn)
        BY <1>1, <3>6, ErrorTriggersAreOwn
      <4>2. PICK r \in fn.returns : v \in ComputeAndConsumeResults(p, fn, r) /\ v.at = r.at
        BY <1>1, <3>6, <4>1, TriggersOfFunction
      <4>3. \A x, y \in p.f.returns \cup p.g.returns : x.at = y.at => x = y
        BY <1>1, WellFormedAssumption DEF WellFormed
      <4>4. r = s
        BY <3>6, <4>2, <4>3
      <4> QED  BY <1>1, <3>6, <4>2, <4>4, StatementTriggers, ProgramTypes
    <3>8. PICK z \in s.paths : e = Producer(p, z.last)
      BY <3>7 DEF Producers, Atoms
    <3>9. /\ z.last \in {"err", "param", "g()"}
          /\ z.last = "param" => p.argument # "nil"
          /\ z.last \in {"err", "g()"} => ~ErrorMayBeNil(p)
      BY <1>3, <2>4
    <3>10. e = IF z.last = "param" THEN Param ELSE p.g.last
      <4>1. ~AssumeReturn(z.last)
        BY <3>9, WellFormedAssumption, NameAssumption DEF AssumeReturn
      <4>2. "g()" \in Call
        BY ProgramAssumption
      <4> QED  BY <3>8, <3>9, <4>1, <4>2, NameAssumption DEF Producer
    <3> QED  BY <1>1, <3>5, <3>9, <3>10, ReadersSite
  <2> QED  BY <2>1, <2>2, <2>3, <2>4
<1>5. CASE fn.kind # "error"
  <2>1. PICK s \in fn.returns : t \in ComputeAndConsumeResults(p, fn, s)
    BY <1>1, <1>5, FunctionEnds
  <2>2. s.form \in {"literal", "variables"}
    BY <1>1, <1>2, <1>5, ProgramTypes, WellFormedAssumption DEF WellFormed
  <2>3. \/ /\ t \in HandleBooleanReturns(p, fn, s)
           /\ fn.kind = "ok" /\ s.form = "literal" /\ "unknown" \notin Atoms(s, "last")
        \/ /\ t \in CreateGeneralReturnConsumers(p, fn, s)
           /\ ~(fn.kind = "ok" /\ s.form = "literal" /\ "unknown" \notin Atoms(s, "last"))
    BY <1>5, <2>1, <2>2 DEF ComputeAndConsumeResults
  <2>4. t \notin CreateReturnConsumersForAlwaysSafe(p, fn, s)
    BY Consumptions DEF CreateReturnConsumersForAlwaysSafe
  <2>5. /\ t \in CreateGeneralReturnConsumers(p, fn, s)
        /\ fn.kind = "ok" => \/ Atoms(s, "last") = {"true"} \/ s.form = "variables"
                             \/ "unknown" \in Atoms(s, "last")
    BY <2>2, <2>3, <2>4 DEF HandleBooleanReturns
  <2>6. t.producer \in Producers(p, s, "value")
    BY <2>5, Consumptions DEF CreateGeneralReturnConsumers
  <2>7. CASE fn.kind = "plain"
    BY <1>3, <2>6, <2>7 DEF MaySucceed
  <2>8. CASE fn.kind = "ok"
    <3>1. PICK path \in s.paths : TRUE
      BY <1>3, <2>6
    <3>2. s.form = "variables" => path.last = "unknown"
      BY <1>1, <2>8, WellFormedAssumption DEF WellFormed
    <3>3. "true" \in Atoms(s, "last") \/ "unknown" \in Atoms(s, "last")
      BY <2>5, <2>8, <3>2 DEF Atoms
    <3> QED  BY <1>3, <2>6, <3>3 DEF Atoms
  <2> QED  BY <1>1, <1>5, <2>7, <2>8
<1> QED  BY <1>4, <1>5

\* The values of g that are taken up, and its errors, are nilable for the reader.
LEMMA CalleeSatisfied ==
  ASSUME NEW p \in Program, NEW t \in FunctionTriggers(p, p.g), t.role # "alwaysSafe",
         t.consumer \in Site
  PROVE  Satisfies(ReadersSites(p), t)
<1>1. /\ p.g.kind = "error" /\ p.g.value \in Site \cup {None} /\ None \notin Site
      /\ Never \notin FixedProducer \cup ReadersSites(p)
  BY ProgramTypes, EndsAssumption DEF ReadersSites, FixedProducer
<1>2. ASSUME NEW s \in p.g.returns, NEW path \in s.paths
      PROVE  /\ s.form \in {"literal", "variables"} /\ path.value \in {"nil", "composite"}
             /\ path.last \in {"nil", "composite"} \/ AssumeReturn(path.last)
  <2>1. /\ s.form \in {"literal", "variables"}
        /\ path.last \in {"nil", "composite"} \/ AssumeReturn(path.last)
        /\ path.value # "x"
    BY WellFormedAssumption DEF WellFormed
  <2> QED  BY <2>1, ProgramTypes
<1>3. PICK s \in p.g.returns : \E u \in ComputeAndConsumeResults(p, p.g, s) :
        t.producer = u.producer /\ t.consumer = u.consumer
  BY FunctionEnds
<1>4. PICK u \in ComputeAndConsumeResults(p, p.g, s) :
        t.producer = u.producer /\ t.consumer = u.consumer
  BY <1>3
<1>5. CASE t.consumer = p.g.last
  <2>1. PICK path \in s.paths : t.producer = Producer(p, path.last)
    <3>1. u.consumer = p.g.last
      BY <1>4, <1>5
    <3>2. u.producer \in Producers(p, s, "last")
      BY <3>1, StatementEnds
    <3> QED  BY <1>4, <3>2 DEF Producers, Atoms
  <2>2. path.last = "nil" \/ t.producer = Never
    <3>1. path.last \in {"nil", "composite"} \/ AssumeReturn(path.last)
      BY <1>2
    <3>2. AssumeReturn(path.last) => path.last \notin {"nil", "x", "err", "param", "g()"}
      BY WellFormedAssumption, NameAssumption DEF AssumeReturn
    <3> QED  BY <2>1, <3>1, <3>2 DEF Producer
  <2>3. path.last = "nil" => p.g.last \in ReadersSites(p)
    <3>1. path.last = "nil" => ErrorMayBeNil(p)
      BY DEF ErrorMayBeNil, Atoms
    <3> QED  BY <3>1, ReadersSite
  <2> QED  BY <1>1, <1>5, <2>2, <2>3 DEF Satisfies
<1>6. CASE t.consumer = p.g.value
  <2>1. p.g.value \in Site
    BY <1>6
  <2>2. PICK r \in p.g.returns :
          \/ r.form = "forward"
          \/ /\ t.producer \in Producers(p, r, "value")
             /\ \/ "nil" \in Atoms(r, "last")
                \/ \A path \in r.paths : path.last \in {"err", "param", "g()"}
    BY <1>1, <1>6, <2>1, ErrorValueKept
  <2>3. r.form # "forward"
    BY WellFormedAssumption DEF WellFormed
  <2>4. PICK path \in r.paths : t.producer = Producer(p, path.value)
    BY <2>2, <2>3 DEF Producers, Atoms
  <2>5. "nil" \in Atoms(r, "last")
    <3>1. path.last \notin {"err", "param", "g()"}
      BY <1>2, WellFormedAssumption, NameAssumption DEF AssumeReturn
    <3> QED  BY <2>2, <2>3, <3>1
  <2>6. path.value = "composite" => t.producer = Never
    BY <2>4, NameAssumption DEF Producer
  <2>7. path.value = "nil" => p.g.value \in ReadersSites(p)
    <3>1. path.value = "nil" => MayBeNil(p, "x")
      BY <2>5 DEF MayBeNil, Atoms
    <3> QED  BY <1>1, <2>1, <3>1, ReadersSite
  <2> QED  BY <1>1, <1>2, <1>6, <2>6, <2>7 DEF Satisfies
<1> QED  BY <1>4, <1>5, <1>6, StatementEnds

LEMMA ReaderSatisfies ==
  ASSUME ReturnsInv, ~MayUseNil(program), NEW t \in KeptTriggers,
         t.role = "nonErrorReturn" => \/ ErrRetProducers(t.at) = {}
                                      \/ ErrRetProducers(t.at) \cap ReadersSites(program) # {}
  PROVE  Satisfies(ReadersSites(program), t)
<1> DEFINE p == program
           N == ReadersSites(program)
<1>1. /\ p \in Program /\ t \in ProgramTriggers(p) /\ pkg.triggers = ProgramTriggers(p)
      /\ t.role # "alwaysSafe" /\ (t.role = "guardMissing" => ~AlwaysSafe(t.at))
      /\ p.f.value \in Site /\ Annotated \notin Site
  BY ProgramTypes, EndsAssumption DEF ReturnsInv, KeptTriggers
<1>2. t.consumer \in Site \cup {Deref} /\ t.producer \in Site \cup {Nil, Never}
  <2>1. pkg.triggers \in SUBSET Trigger
    BY DEF ReturnsInv, EngineInv, TypeInv, TypeOK
  <2> QED  BY <1>1, <2>1, TriggerAssumption DEF FullTrigger
<1>3. t.producer # Annotated
  BY <1>1, <1>2, EndsAssumption
<1>4. CASE t \in Arguments(p)
  <2>1. p.argument = "nil" /\ t.consumer = Param
    BY <1>4 DEF Arguments, Full
  <2> QED  BY <1>1, <2>1, ReadersSite DEF Satisfies
<1>5. CASE t \in Use(p)
  <2>1. CASE Counts(p)
    <3>1. t.producer = p.f.value
      BY <1>5, <2>1 DEF Use, Counts, Full
    <3>2. p.f.value \notin N /\ p.f.value \notin FixedProducer
      BY <1>1, <2>1, ReadersSite, EndsAssumption DEF FixedProducer
    <3> QED  BY <3>1, <3>2 DEF Satisfies
  <2>2. CASE ~Counts(p)
    <3>1. t.role = "guardMissing" /\ t.at = p.f.value
      BY <1>5, <2>2 DEF Use, Counts, Full
    <3> QED  BY <1>1, <2>2, <3>1, ReaderFindsSafe
  <2> QED  BY <2>1, <2>2
<1>6. CASE t \in FunctionTriggers(p, p.g)
  <2>1. t.consumer \in Site
    <3>1. t.consumer \in {p.g.value, p.g.last}
      BY <1>1, <1>6, FunctionEnds, StatementEnds
    <3>2. p.g.value # Deref /\ p.g.last # Deref
      BY <1>1, ProgramTypes, EndsAssumption
    <3> QED  BY <1>2, <3>1, <3>2
  <2> QED  BY <1>1, <1>6, <2>1, CalleeSatisfied
<1>7. CASE t \in FunctionTriggers(p, p.f)
  <2>1. t.consumer \in {p.f.value, p.f.last}
    BY <1>1, <1>7, FunctionEnds, StatementEnds
  <2>2. CASE t.consumer = p.f.last \/ ~Counts(p)
    BY <1>1, <2>1, <2>2, ReadersSite DEF Satisfies
  <2>3. CASE t.consumer = p.f.value /\ Counts(p)
    BY <1>1, <1>3, <1>7, <2>3, ResultSatisfied DEF Satisfies, FixedProducer
  <2> QED  BY <2>1, <2>2, <2>3
<1> QED  BY <1>1, <1>4, <1>5, <1>6, <1>7 DEF ProgramTriggers

\* The reverse of NoNilUseHidden: what is reported is a nil that f returns with an
\* error that may be nil at the same return statement, or whose use no check
\* guards; for every program and every order, a value that comes with an error
\* only is not held against f.
THEOREM NoSafeUseHeldAgainst == ReturnsSpec => []NoSafeUseReported
<1>1. ReturnsInv => NoSafeUseReported
  <2> SUFFICES ASSUME ReturnsInv, stage = "done", ~MayUseNil(program)
               PROVE  conflicts = {}
    BY DEF NoSafeUseReported
  <2> DEFINE N == ReadersSites(program)
  <2>1. /\ observed \subseteq KeptTriggers /\ pending = {} /\ Quiescent /\ EngineInv
        /\ program \in Program /\ N \in SUBSET Site
    BY ReadersSite DEF ReturnsInv, ErrorInv, PackageAnnotations
  <2>2. N \in Contexts
    <3>1. ASSUME NEW t \in observed \ NonErrRetTriggers
          PROVE  Satisfies(N, t)
      <4>1. t \in KeptTriggers /\ t.role # "nonErrorReturn"
        BY <2>1 DEF NonErrRetTriggers
      <4> QED  BY <4>1, ReaderSatisfies
    <3> HIDE DEF N
    <3> QED  BY <2>1, <3>1 DEF Contexts, Solutions
  <2>3. N \in Solutions(observed)
    <3>1. ASSUME NEW t \in observed \cap NonErrRetTriggers
          PROVE  Satisfies(N, t)
      <4>1. RightlyDecided(t, observed \cup pending, Contexts)
        BY <2>2 DEF ReturnsInv, ErrorInv, Contexts
      <4>2. ErrRetProducers(t.at) = {} \/ ErrRetProducers(t.at) \cap N # {}
        BY <2>2, <4>1 DEF RightlyDecided
      <4> QED  BY <2>1, <4>2, ReaderSatisfies
    <3> HIDE DEF N
    <3> QED  BY <2>1, <2>2, <3>1 DEF Contexts, Solutions
  <2> QED  BY <2>1, <2>3, QuiescentConflicts
<1> QED  BY <1>1, ReturnsInvariant, PTL

=============================================================================
