------------------------ MODULE SerialFunctionAnalyzer ------------------------
(****************************************************************************)
(* What the function analyzer (assertion/function/analyzer.go) promises to  *)
(* the analyzers that need it: the full triggers of the package "as if the  *)
(* analyses were done serially", in one step and without any goroutine.     *)
(****************************************************************************)
EXTENDS Naturals, Sequences, FiniteSets, SequencesExt

CONSTANTS
  Function,  \* functions of the package and of the packages it imports
  Source,    \* the sequences of function nodes a package may consist of
  None       \* no call; no result yet

\* How a full trigger of a function touches the function's interface: its
\* producer is a parameter, its consumer is a return, both, or neither.
Kind == {"param", "return", "both", "inner"}

Outcome == {"triggers", "error", "panic", "oversized", "bodiless"}

\* One function node in the order of the files: its name, whether it is a
\* function literal, whether it has the contract nonnil->nonnil, what becomes
\* of its analysis, its triggers, and its calls of contracted functions with
\* whether they pass an argument.
Node ==
  [name : Function, literal : BOOLEAN, contracted : BOOLEAN, outcome : Outcome,
   triggers : Seq(Kind), calls : Seq([callee : Function, argument : BOOLEAN])]

ASSUME SourceAssumption ==
  \A src \in Source :
    /\ src \in Seq(Node)
    /\ \A i, j \in DOMAIN src : src[i].name = src[j].name => i = j

VARIABLES
  source,  \* the function nodes of the package; never changes
  result   \* what run returns

serialVars == <<source, result>>

-----------------------------------------------------------------------------
\* A full trigger of function f; at is the call it was duplicated for, which is
\* then the end of the trigger that was the parameter or the return of f.
Trigger(f, kind, at) == [of |-> f, kind |-> kind, at |-> at]

Analysed == {i \in DOMAIN source : source[i].outcome = "triggers"}

Failures == {source[i].name : i \in {j \in DOMAIN source :
               source[j].outcome \in {"error", "panic", "oversized"}}}

OwnTriggers(node) == [k \in DOMAIN node.triggers |-> Trigger(node.name, node.triggers[k], None)]

\* duplicateFullTrigger, for every trigger at the interface of callee and every
\* call of it by node, in their order.
Duplicates(node, callee) ==
  LET calls == SelectSeq([k \in DOMAIN node.calls |-> k],
                         LAMBDA k : node.calls[k].callee = callee.name)
      kinds == SelectSeq(callee.triggers, LAMBDA kind : kind # "inner")
  IN  FlattenSeq([t \in DOMAIN kinds |->
        [c \in DOMAIN calls |-> Trigger(callee.name, kinds[t], <<node.name, calls[c]>>)]])

\* A call without an argument (of a variadic function with a handwritten
\* contract) makes duplicateFullTrigger panic.
ArgumentMissing(callers, callees) ==
  \E i \in callers, r \in callees :
    /\ \E t \in DOMAIN source[r].triggers : source[r].triggers[t] # "inner"
    /\ \E k \in DOMAIN source[i].calls :
         source[i].calls[k].callee = source[r].name /\ ~source[i].calls[k].argument

\* WrapRun makes an error of a panic and drops the triggers.
Panicked == [triggers |-> <<>>, err |-> {None}]

Declared == {i \in Analysed : ~source[i].literal}
Contracted == {i \in Declared : source[i].contracted}

\* The functions whose analysis is started, and the sequences of the elements of
\* a set in increasing order (there is one).
Started == {i \in DOMAIN source : source[i].outcome \in {"triggers", "error", "panic"}}

InOrder(S) == {s \in SetToSeqs(S) : \A a, b \in DOMAIN s : a < b => s[a] < s[b]}

\* The triggers of the i-th function: its own ones, and then the duplicates for
\* its calls of contracted functions, which a map holds and yields in any order.
TriggersOf(i, order) ==
  (IF i \in Analysed THEN OwnTriggers(source[i]) ELSE <<>>)
    \o (IF i \in Declared
        THEN FlattenSeq([o \in DOMAIN order |-> Duplicates(source[i], source[order[o]])])
        ELSE <<>>)

\* What run may return when the functions are analysed in order.
SerialResults ==
  IF ArgumentMissing(Declared, Contracted) THEN {Panicked}
  ELSE {[triggers |-> FlattenSeq([i \in DOMAIN slots |-> TriggersOf(slots[i], order)]),
         err |-> Failures] : slots \in InOrder(Started), order \in SetToSeqs(Contracted)}

SerialInit == source \in Source /\ result = None

Run == result = None /\ result' \in SerialResults /\ UNCHANGED source

SerialSpec == SerialInit /\ [][Run]_serialVars /\ WF_serialVars(Run)

=============================================================================
