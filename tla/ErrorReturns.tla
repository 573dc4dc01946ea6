------------------------------ MODULE ErrorReturns ------------------------------
(****************************************************************************)
(* The contract of the error (or ok) result.  The results of a function     *)
(* whose last result is an error are only to be used after a check of the   *)
(* error, so a return statement need not vouch for them when its error is   *)
(* not nil.  This module says which full triggers                           *)
(* function/assertiontree makes of the return statements of two functions   *)
(* and of the use of the result in a third one; the engine that it extends  *)
(* decides what is reported of them.                                        *)
(*                                                                          *)
(*   func f(param error) (T, error)   its return statements may call g:     *)
(*                                        x, err := g()                     *)
(*   func g() (T, error)              or  func g() error                    *)
(*   func use()                       v, e := f(argument), then uses v      *)
(****************************************************************************)
EXTENDS InferenceEngine

CONSTANTS
  Param,     \* the site of the error parameter of f
  CallExpr,  \* the calls that may be returned as an error, by name
  Program    \* the programs that may be analysed

(****************************************************************************)
(* What is returned: "nil", a "composite" literal, a call, or a variable    *)
(* that holds what g returned: "x" under the check err = nil, "err" without *)
(* a check and "failed" under the check err # nil.  "g()" calls g in the    *)
(* return statement; a call that is not nonnil returns an error exactly     *)
(* when g does (errors.Wrap maps nil to nil).                               *)
(****************************************************************************)
Call == DOMAIN CallExpr

Argument == {"error", "errorMethod", "other"}

NonnilAtom == {c \in Call : CallExpr[c].nonnil} \cup {"composite", "failed"}

\* One way through the function to a return statement.
Path == [value : {"nil", "composite", "x"},
         last : Call \cup {"nil", "composite", "err", "failed", "param",
                            "true", "false", "unknown"}]

\* The results are written out, are variables, or are forwarded ("return g()");
\* a blank return is a bare one of a function whose results are named _.
Return == [at : ReturnStmt, form : {"literal", "variables", "forward", "blank"},
           paths : SUBSET Path]

Decl == [kind : {"error", "ok", "plain"}, value : Site \cup {None}, last : Site,
         returns : SUBSET Return]

ASSUME ProgramAssumption ==
  /\ Param \in Site
  /\ "g()" \in Call
  /\ \A c \in Call : CallExpr[c] \in [trusted : BOOLEAN, errReturning : BOOLEAN,
       makesError : BOOLEAN, args : Seq(Argument \cup Call), nonnil : BOOLEAN]
  /\ Program \subseteq [f : Decl, g : Decl, argument : {"nil", "notNil"},
                        use : {"checked", "unchecked", "failedBranch"}]
  /\ \A p \in Program : p.g.kind = "error" /\ p.f.value # None

\* Names of calls are no other names, and return statements are no sites.
ASSUME NameAssumption ==
  /\ Call \cap {"nil", "composite", "x", "err", "failed", "param", "true", "false", "unknown"} = {}
  /\ ReturnStmt \cap Site = {}

Atoms(s, result) == {path[result] : path \in s.paths}

\* A function that takes an error and returns one is held to wrap it, and one that
\* takes a message and is called new...Error to make one.
IsErrorWrapperFunc[c \in Call] ==
  /\ CallExpr[c].errReturning
  /\ \/ CallExpr[c].makesError
     \/ \E i \in DOMAIN CallExpr[c].args :
          LET arg == CallExpr[c].args[i]
          IN  IF arg \in Call THEN CallExpr[arg].trusted \/ IsErrorWrapperFunc[arg]
                               ELSE arg \in {"error", "errorMethod"}

AssumeReturn(atom) == atom \in Call /\ (CallExpr[atom].trusted \/ IsErrorWrapperFunc[atom])

Bool == {"true", "false", "unknown"}

\* What Go demands of a program, and what is taken up of Go.  Results have sites, and
\* return statements labels of their own; a literal is one expression on all paths; a
\* variable is no constant; "g()" is returned as one result by a g that has one, and
\* forwarded by one that has two.  g returns, namely nil or an error that is known
\* not to be nil, and writes its error out when it returns nothing else.
WellFormed(p) ==
  /\ p.f.value \notin {p.f.last, p.g.value, p.g.last, Param}
  /\ p.f.last \notin {p.g.value, p.g.last, Param}
  /\ p.g.value \notin {p.g.last, Param} /\ p.g.last # Param
  /\ \E s \in p.g.returns : s.paths # {}
  /\ \A s, t \in p.f.returns \cup p.g.returns : s.at = t.at => s = t
  /\ p.f.returns \cap p.g.returns = {}
  /\ \A s \in p.f.returns \cup p.g.returns :
       /\ s.paths = {} <=> s.form \in {"forward", "blank"}
       /\ s.form = "literal" => \A q, r \in s.paths : q.last = r.last
  /\ \A s \in p.g.returns :
       /\ s.form = "literal" \/ (s.form = "variables" /\ p.g.value # None)
       /\ \A q \in s.paths :
            /\ q.value # "x"
            /\ \/ q.last \in {"nil", "composite"}
               \/ AssumeReturn(q.last) /\ q.last \in NonnilAtom
  /\ \A s \in p.f.returns :
       /\ s.form = "forward" => p.f.kind = "error" /\ p.g.value # None
       /\ \A q \in s.paths :
            /\ q.value = "x" => p.g.value # None
            /\ q.last = "g()" => s.form = "literal" /\ p.g.value = None
            /\ p.f.kind = "error" => q.last \notin Bool
            /\ p.f.kind = "ok" => q.last \in IF s.form = "literal" THEN Bool ELSE {"unknown"}

\* A call other than g() is one that is assumed to return an error.
ASSUME WellFormedAssumption ==
  /\ \A p \in Program : WellFormed(p)
  /\ \A c \in Call : AssumeReturn(c) <=> c # "g()"
  /\ "g()" \notin NonnilAtom

Producer(p, atom) ==
  CASE atom = "nil" -> Nil
    [] atom \in {"composite", "failed"} \/ AssumeReturn(atom) -> Never
    [] atom = "x" -> p.g.value
    [] atom \in {"err", "g()"} -> p.g.last
    [] atom = "param" -> Param

\* ParseExprAsProducer: a composite literal is no producer where it is consumed, and produces
\* ProduceTriggerNever for the variable it is assigned to.
Producers(p, s, result) ==
  {Producer(p, atom) :
     atom \in Atoms(s, result) \ (IF s.form = "literal" THEN {"composite"} ELSE {})}

Full(producer, consumer, role, at) ==
  [producer |-> producer, consumer |-> consumer, controller |-> None, role |-> role, at |-> at]

\* Mutant: an untracked expression makes no trigger, also for always safe paths.
AddConsumptionUntracked(producers, consumer, role, at) ==
  {Full(q, consumer, role, at) : q \in producers}

AddConsumption(producers, consumer, role, at) ==
  {Full(q, consumer, role, at) :
     q \in IF producers = {} /\ role = "alwaysSafe" THEN {Never} ELSE producers}

CreateConsumerForErrorReturn(p, fn, s) ==
  AddConsumption(Producers(p, s, "last"), fn.last, "plain", None)

CreateGeneralReturnConsumers(p, fn, s) ==
  AddConsumption(Producers(p, s, "value"), fn.value, "plain", None)

CreateReturnConsumersForAlwaysSafe(p, fn, s) ==
  AddConsumption(Producers(p, s, "value"), fn.value, "alwaysSafe", fn.value)

CreateSpecialConsumersForAllReturns(p, fn, s) ==
  LET values == IF fn.value = None THEN {}
                ELSE AddConsumption(Producers(p, s, "value"), fn.value, "nonErrorReturn", s.at)
  IN  values \cup AddConsumption(Producers(p, s, "last"), fn.last, "errorReturn", s.at)

IsErrorReturnNil(s) == s.form = "literal" /\ Atoms(s, "last") = {"nil"}

\* Mutant: a parameter that is an error is taken for non-nil.
IsErrorReturnNonnilAny(s) ==
  \A atom \in Atoms(s, "last") : AssumeReturn(atom) \/ atom \in {"composite", "param"}

IsErrorReturnNonnil(s) ==
  s.form = "literal" /\ \A atom \in Atoms(s, "last") : AssumeReturn(atom) \/ atom = "composite"

HandleErrorReturns(p, fn, s) ==
  LET values == IF fn.value = None THEN {} ELSE CreateReturnConsumersForAlwaysSafe(p, fn, s)
  IN  values \cup
      IF IsErrorReturnNil(s)
      THEN IF fn.value = None THEN CreateConsumerForErrorReturn(p, fn, s)
                              ELSE CreateGeneralReturnConsumers(p, fn, s)
      ELSE IF IsErrorReturnNonnil(s) THEN CreateConsumerForErrorReturn(p, fn, s)
      ELSE CreateSpecialConsumersForAllReturns(p, fn, s)

\* Only a constant ok result tells whether the value is vouched for.
HandleBooleanReturns(p, fn, s) ==
  CreateReturnConsumersForAlwaysSafe(p, fn, s)
    \cup IF Atoms(s, "last") = {"true"} THEN CreateGeneralReturnConsumers(p, fn, s) ELSE {}

\* backpropAcrossReturn for "return g()": the results of g count as guarded.
ForwardReturns(p, fn) ==
  {Full(p.g.value, fn.value, "plain", None), Full(p.g.value, fn.value, "alwaysSafe", fn.value),
   Full(p.g.last, fn.last, "plain", None)}

\* A bare return of a function with the results _: the error counts as nil, the
\* value is passed over, and only without a contract it is known to be nil.
BlankReturns(fn) ==
  IF fn.kind = "error" THEN {} ELSE {Full(Nil, fn.value, "plain", None)}

ComputeAndConsumeResults(p, fn, s) ==
  CASE s.form = "forward" -> ForwardReturns(p, fn)
    [] s.form = "blank" -> BlankReturns(fn)
    [] s.form \in {"literal", "variables"} /\ fn.kind = "error" -> HandleErrorReturns(p, fn, s)
    [] s.form = "literal" /\ fn.kind = "ok" /\ "unknown" \notin Atoms(s, "last") ->
         HandleBooleanReturns(p, fn, s)
    [] OTHER -> CreateGeneralReturnConsumers(p, fn, s)

-----------------------------------------------------------------------------
(****************************************************************************)
(* ProcessEntry: FilterTriggersForErrorReturn within the function, where    *)
(* only the fixed producers count and a site leaves the error unknown.      *)
(****************************************************************************)

Found(triggers, at, producer) ==
  \E t \in triggers : t.role = "errorReturn" /\ t.at = at /\ t.producer = producer

IsNil(triggers, at) == at \in ReturnStmt /\ Found(triggers, at, Nil)
IsNonNil(triggers, at) == at \in ReturnStmt /\ Found(triggers, at, Never) /\ ~Found(triggers, at, Nil)
IsMixed(triggers, at) == IsNil(triggers, at) /\ Found(triggers, at, Never)

Refined(triggers, t) ==
  IF (IsNil(triggers, t.at) /\ ~IsMixed(triggers, t.at)) \/ IsNonNil(triggers, t.at)
  THEN Full(t.producer, t.consumer, "plain", None) ELSE t

Filter(triggers) ==
  {Refined(triggers, t) : t \in
     {u \in triggers : /\ ~(u.role = "errorReturn" /\ IsNil(triggers, u.at))
                       /\ ~(u.role = "nonErrorReturn" /\ IsNonNil(triggers, u.at))}}

FunctionTriggers(p, fn) ==
  LET all == UNION {ComputeAndConsumeResults(p, fn, s) : s \in fn.returns}
  IN  IF fn.kind = "error" THEN Filter(all) ELSE all

\* The call of f and the use of its result (NeedsGuard of getFuncReturnProducers
\* and CheckGuardOnFullTrigger): without the check the result may be anything.
Use(p) ==
  IF p.f.kind = "plain" \/ p.use = "checked"
  THEN {Full(p.f.value, Deref, "plain", None)}
  ELSE {Full(Nil, Deref, "guardMissing", p.f.value)}

Arguments(p) == IF p.argument = "nil" THEN {Full(Nil, Param, "plain", None)} ELSE {}

\* All full triggers of the package.
ProgramTriggers(p) ==
  FunctionTriggers(p, p.f) \cup FunctionTriggers(p, p.g) \cup Use(p) \cup Arguments(p)

-----------------------------------------------------------------------------
(****************************************************************************)
(* What the program does when it runs.                                      *)
(****************************************************************************)

\* The results of g, of which all returns are written out.
CalleeOutcomes(p) ==
  UNION {{[value |-> path.value, last |-> path.last] : path \in s.paths} : s \in p.g.returns}

OutcomesOfPath(p, path) ==
  LET Goes(o) == /\ path.value = "x" => o.last = "nil"
                 /\ path.last = "failed" => o.last # "nil"
      Last(o) == CASE path.last \in {"err", "failed"} \cup (Call \ NonnilAtom) -> {o.last}
                   [] path.last = "param" -> {p.argument}
                   [] path.last = "unknown" -> {"true", "false"}
                   [] OTHER -> {path.last}
  IN  UNION {{[value |-> IF path.value = "x" THEN o.value ELSE path.value, last |-> l] :
                l \in Last(o)} : o \in {c \in CalleeOutcomes(p) : Goes(c)}}

Outcomes(p, s) ==
  CASE s.form = "forward" -> CalleeOutcomes(p)
    [] s.form = "blank" -> {[value |-> "nil", last |-> "nil"]}
    [] OTHER -> UNION {OutcomesOfPath(p, path) : path \in s.paths}

Succeeds(o) == o.last \in {"nil", "true"}

\* The use of the result is reached with the outcome o of f.
Reached(p, o) ==
  \/ p.f.kind = "plain" \/ p.use = "unchecked"
  \/ p.use = "checked" /\ Succeeds(o)
  \/ p.use = "failedBranch" /\ ~Succeeds(o)

\* The program dereferences nil in some execution.
UsesNil(p) ==
  \E s \in p.f.returns : \E o \in Outcomes(p, s) : o.value = "nil" /\ Reached(p, o)

\* The return is not seen for what it is: a wrapper is taken to return no nil, an
\* error of which one path is known to be like that on all, the error result of
\* a function that returns (value, nil) not to be nil; and a bare return of _ and
\* an ok result that is not a constant make no trigger for always safe paths.
Trusted(p, s) ==
  LET errors == Atoms(s, "last")
  IN  \/ s.form = "blank" \/ "unknown" \in errors
      \/ \E c \in errors \ NonnilAtom : AssumeReturn(c)
      \/ "err" \in errors /\ p.g.value # None
      \/ errors \cap {"err", "param"} # {} /\ errors \cap NonnilAtom # {}

\* What a reader of f and g sees who takes the values and the errors of a return
\* statement apart, and results of calls that no check guards for results that may be nil.
MayBeNil(p, value) ==
  \/ value = "nil"
  \/ /\ value = "x"
     /\ \/ p.use # "checked"
        \/ \E s \in p.g.returns : "nil" \in Atoms(s, "value") /\ "nil" \in Atoms(s, "last")

MaySucceed(p, s) ==
  \/ p.use # "checked" \/ p.f.kind = "plain"
  \/ \E path \in s.paths : \E o \in OutcomesOfPath(p, [path EXCEPT !.value = "nil"]) : Succeeds(o)

MayUseNil(p) ==
  \/ p.use # "checked" /\ \A s \in p.f.returns : Atoms(s, "last") = {"unknown"}
  \/ \E s \in p.f.returns :
       \/ s.form = "blank"
       \/ s.form = "forward" /\ MayBeNil(p, "x")
       \/ (\E v \in Atoms(s, "value") : MayBeNil(p, v)) /\ MaySucceed(p, s)

ASSUME ProgramPackageAssumption ==
  {[triggers |-> ProgramTriggers(p), annotations |-> {}] : p \in Program} \subseteq Package

VARIABLE program   \* the program that is analysed; never changes

ReturnsInit ==
  /\ program \in Program
  /\ pkg = [triggers |-> ProgramTriggers(program), annotations |-> {}]
  /\ NewEngine

ReturnsNext == Next /\ UNCHANGED program

ReturnsSpec == ReturnsInit /\ [][ReturnsNext]_<<vars, program>>

-----------------------------------------------------------------------------
(****************************************************************************)
(* What the contract promises.                                              *)
(****************************************************************************)

\* handleErrorReturns, handleBooleanReturns and the filters: leaving results
\* out because of their error never hides a nil that a use reaches, neither one
\* behind a check nor one without (always safe paths), unless one of the
\* documented assumptions on errors is made.
EveryNilUseReported ==
  stage = "done" /\ UsesNil(program) /\ (\A s \in program.f.returns : ~Trusted(program, s))
    => conflicts # {}

\* The reverse: what is reported is a nil that f returns together with a nil
\* error (or true), where the branches of f are taken one by one; a value that
\* comes with an error only is not held against f, and a result that is never
\* nil may be used without a check.
NoSafeUseReported ==
  stage = "done" /\ conflicts # {} => MayUseNil(program)

-----------------------------------------------------------------------------
(****************************************************************************)
(* What the documentation of the code says, and the code does not do.       *)
(****************************************************************************)

\* engine.go:183: "find all guard missing triggers reaching a function return
\* site, and then check if all the return triggers to that function site are
\* non-nil. If so, we can safely delete all the guard-missing triggers": a use
\* without a check of a result that may be nil is reported.
AlwaysSafeIsSafe ==
  stage = "done" /\ program.use = "unchecked" /\ UsesNil(program)
    /\ (\A s \in program.f.returns : s.form = "literal") => conflicts # {}

=============================================================================
