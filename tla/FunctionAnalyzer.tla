---------------------------- MODULE FunctionAnalyzer ----------------------------
(****************************************************************************)
(* The function analyzer (assertion/function/analyzer.go): a goroutine for  *)
(* every function of the package, an unbuffered channel for their results,  *)
(* a goroutine that closes the channel when all of them have returned, and  *)
(* the main goroutine, which receives the results in the order they come    *)
(* and puts them back into the order of the functions.                      *)
(****************************************************************************)
EXTENDS SerialFunctionAnalyzer

VARIABLES
  main,          \* where run is
  visited,       \* the nodes the loop of run has passed
  spawned,       \* the node of each goroutine; its length is funcIndex
  goroutine,     \* the state of each goroutine
  closer,        \* the goroutine that closes funcChan
  err,           \* the errors joined so far
  funcTriggers,  \* the triggers received, by index
  funcResults    \* the indices of the results of declared functions

vars == <<source, result, main, visited, spawned, goroutine, closer, err,
          funcTriggers, funcResults>>

Init ==
  /\ source \in Source
  /\ result = None
  /\ main = "spawning"
  /\ visited = 0
  /\ spawned = <<>>
  /\ goroutine = <<>>
  /\ closer = "unstarted"
  /\ err = {}
  /\ funcTriggers = <<>>
  /\ funcResults = {}

\* One iteration of the loop over the function nodes.  A function without a body
\* (or without a control flow graph) is skipped, one that is too large is an
\* error; the goroutine of any other one starts.
Spawn ==
  /\ main = "spawning" /\ visited < Len(source)
  /\ visited' = visited + 1
  /\ LET node == source[visited + 1]
     IN  \/ /\ node.outcome = "bodiless"
            /\ UNCHANGED <<spawned, goroutine, err>>
         \/ /\ node.outcome = "oversized"
            /\ err' = err \cup {node.name}
            /\ UNCHANGED <<spawned, goroutine>>
         \/ /\ node.outcome \in {"triggers", "error", "panic"}
            /\ spawned' = Append(spawned, visited + 1)
            /\ goroutine' = Append(goroutine, "analysing")
            /\ UNCHANGED err
  /\ UNCHANGED <<source, result, main, closer, funcTriggers, funcResults>>

\* The loop is over: start the closing goroutine, make the slots for the results.
Collect ==
  /\ main = "spawning" /\ visited = Len(source)
  /\ main' = "collecting"
  /\ closer' = "waiting"
  /\ funcTriggers' = [i \in DOMAIN spawned |-> <<>>]
  /\ UNCHANGED <<source, result, visited, spawned, goroutine, err, funcResults>>

\* BackpropAcrossFunc returns, or panics and analyzeFunc recovers; either way
\* the goroutine goes on to send its result.
AnalyzeFunc(i) ==
  /\ goroutine[i] = "analysing"
  /\ goroutine' = [goroutine EXCEPT ![i] = "sending"]
  /\ UNCHANGED <<source, result, main, visited, spawned, closer, err, funcTriggers, funcResults>>

\* Mutant: the results are stored in the order in which they arrive.
ReceiveByArrival(i) ==
  /\ main = "collecting" /\ closer # "ended"
  /\ goroutine[i] = "sending"
  /\ goroutine' = [goroutine EXCEPT ![i] = "returning"]
  /\ LET node == source[spawned[i]]
         slot == Cardinality({j \in DOMAIN goroutine : goroutine[j] \in {"returning", "ended"}}) + 1
     IN  IF node.outcome # "triggers"
         THEN err' = err \cup {node.name} /\ UNCHANGED <<funcTriggers, funcResults>>
         ELSE /\ funcTriggers' = [funcTriggers EXCEPT ![slot] = OwnTriggers(node)]
              /\ funcResults' = IF node.literal THEN funcResults ELSE funcResults \cup {i}
              /\ UNCHANGED err
  /\ UNCHANGED <<source, result, main, visited, spawned, closer>>

\* The send of goroutine i meets the receive of the main goroutine, and the body
\* of the collecting loop.
Receive(i) ==
  /\ main = "collecting" /\ closer # "ended"
  /\ goroutine[i] = "sending"
  /\ goroutine' = [goroutine EXCEPT ![i] = "returning"]
  /\ LET node == source[spawned[i]]
     IN  IF node.outcome # "triggers"
         THEN err' = err \cup {node.name} /\ UNCHANGED <<funcTriggers, funcResults>>
         ELSE /\ funcTriggers' = [funcTriggers EXCEPT ![i] = OwnTriggers(node)]
              /\ funcResults' = IF node.literal THEN funcResults ELSE funcResults \cup {i}
              /\ UNCHANGED err
  /\ UNCHANGED <<source, result, main, visited, spawned, closer>>

\* Mutant: a goroutine that has failed does not call Done.
ReturnUnlessFailed(i) ==
  /\ goroutine[i] = "returning" /\ source[spawned[i]].outcome = "triggers"
  /\ goroutine' = [goroutine EXCEPT ![i] = "ended"]
  /\ UNCHANGED <<source, result, main, visited, spawned, closer, err, funcTriggers, funcResults>>

\* wg.Go calls Done when the goroutine returns.
Return(i) ==
  /\ goroutine[i] = "returning"
  /\ goroutine' = [goroutine EXCEPT ![i] = "ended"]
  /\ UNCHANGED <<source, result, main, visited, spawned, closer, err, funcTriggers, funcResults>>

\* Mutant: the channel is closed as soon as every goroutine has its result.
CloseChannelEarly ==
  /\ closer = "waiting"
  /\ \A i \in DOMAIN goroutine : goroutine[i] # "analysing"
  /\ closer' = "ended"
  /\ UNCHANGED <<source, result, main, visited, spawned, goroutine, err, funcTriggers, funcResults>>

\* wg.Wait returns and the channel is closed.
CloseChannel ==
  /\ closer = "waiting"
  /\ \A i \in DOMAIN goroutine : goroutine[i] = "ended"
  /\ closer' = "ended"
  /\ UNCHANGED <<source, result, main, visited, spawned, goroutine, err, funcTriggers, funcResults>>

\* The receive of a closed channel: duplicate the triggers of the contracted
\* functions, flatten the slots, and return.
Finish ==
  /\ main = "collecting" /\ closer = "ended"
  /\ main' = "returned"
  /\ LET declared == {spawned[i] : i \in funcResults}
         contracted == {n \in declared : source[n].contracted}
         duplicates(i, order) ==
           IF i \notin funcResults THEN <<>>
           ELSE FlattenSeq([o \in DOMAIN order |->
                  Duplicates(source[spawned[i]], source[order[o]])])
     IN  IF ArgumentMissing(declared, contracted) THEN result' = Panicked
         ELSE \E order \in SetToSeqs(contracted) :
                result' = [triggers |-> FlattenSeq([i \in DOMAIN funcTriggers |->
                                          funcTriggers[i] \o duplicates(i, order)]),
                           err |-> err]
  /\ UNCHANGED <<source, visited, spawned, goroutine, closer, err, funcTriggers, funcResults>>

Worker(i) == AnalyzeFunc(i) \/ Return(i)
Main == Spawn \/ Collect \/ (\E i \in DOMAIN goroutine : Receive(i)) \/ Finish

Next ==
  \/ Main
  \/ \E i \in DOMAIN goroutine : Worker(i)
  \/ CloseChannel

Spec == Init /\ [][Next]_vars

\* Go runs every goroutine that is ready, and the analysis of a function ends.
FairSpec ==
  /\ Spec
  /\ WF_vars(Main) /\ WF_vars(CloseChannel)
  /\ \A i \in 1..Cardinality(Function) : WF_vars(i \in DOMAIN goroutine /\ Worker(i))

-----------------------------------------------------------------------------
\* The goroutines, the channel and the collecting loop together do what a serial
\* analysis does: the triggers come in the order of the functions, those of a
\* failed function are missing and its error is there, every call of a contracted
\* function has its duplicates, and a result is always returned.
Serial == INSTANCE SerialFunctionAnalyzer WITH source <- source, result <- result
ImplementsSerial == Serial!SerialSpec

\* No goroutine is left that could send on the closed channel (which would be a
\* panic that nothing recovers), or wait for ever for a receiver that is gone.
NoSendAfterClose ==
  closer = "ended" => \A i \in DOMAIN goroutine : goroutine[i] = "ended"

\* All goroutines end, whatever the outcome of their analysis.
AllEnd ==
  <>(main = "returned" /\ closer = "ended" /\ \A i \in DOMAIN goroutine : goroutine[i] = "ended")

=============================================================================
