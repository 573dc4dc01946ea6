------------------------ MODULE FunctionAnalyzerProofs ------------------------
(****************************************************************************)
(* Theorems about FunctionAnalyzer, for every package: any number of        *)
(* functions, any outcomes, any triggers and calls, any interleaving.       *)
(****************************************************************************)
EXTENDS FunctionAnalyzer, FiniteSetTheorems, SequenceTheorems, TLAPS

-----------------------------------------------------------------------------
(****************************************************************************)
(* The inductive invariant.                                                 *)
(****************************************************************************)

Begun == {"triggers", "error", "panic"}

TypeInv ==
  /\ source \in Source
  /\ main \in {"spawning", "collecting", "returned"}
  /\ visited \in 0..Len(source)
  /\ spawned \in Seq(Nat)
  /\ goroutine \in Seq({"analysing", "sending", "returning", "ended"})
  /\ Len(goroutine) = Len(spawned)
  /\ closer \in {"unstarted", "waiting", "ended"}

\* The goroutines are those of the functions that run has passed and started, in
\* their order.
SpawnedInv ==
  /\ \A i \in 1..Len(spawned) :
       spawned[i] \in 1..visited /\ source[spawned[i]].outcome \in Begun
  /\ \A i, j \in 1..Len(spawned) : i < j => spawned[i] < spawned[j]
  /\ \A n \in 1..visited :
       source[n].outcome \in Begun => \E i \in 1..Len(spawned) : spawned[i] = n

\* Where run, the closing goroutine and the workers can be together: nothing is
\* received before the loop is over, and no worker is left after the close.
PhaseInv ==
  /\ main = "spawning" =>
       /\ closer = "unstarted"
       /\ \A i \in 1..Len(goroutine) : goroutine[i] \in {"analysing", "sending"}
  /\ main # "spawning" => closer # "unstarted" /\ visited = Len(source)
  /\ main # "returned" => result = None
  /\ closer = "ended" => \A i \in 1..Len(goroutine) : goroutine[i] = "ended"

Received == {i \in 1..Len(spawned) : goroutine[i] \in {"returning", "ended"}}

Successful == {i \in Received : source[spawned[i]].outcome = "triggers"}

Slots ==
  [i \in 1..Len(spawned) |-> IF i \in Successful THEN OwnTriggers(source[spawned[i]]) ELSE <<>>]

Unsuccessful ==
  {n \in 1..visited : source[n].outcome = "oversized"}
    \cup {spawned[i] : i \in Received \ Successful}

\* What the collecting loop knows is what has been received, each at the index of
\* its function and not in the order of arrival.
CollectedInv ==
  /\ main # "spawning" => funcTriggers = Slots
  /\ funcResults = {i \in Successful : ~source[spawned[i]].literal}
  /\ err = {source[n].name : n \in Unsuccessful}

IInv == TypeInv /\ SpawnedInv /\ PhaseInv /\ CollectedInv

-----------------------------------------------------------------------------
(****************************************************************************)
(* Every action keeps it.                                                   *)
(****************************************************************************)

LEMMA SourceType ==
  ASSUME source \in Source
  PROVE  /\ source \in Seq(Node) /\ Len(source) \in Nat
         /\ \A n \in 1..Len(source) : source[n].outcome \in Outcome /\ source[n].literal \in BOOLEAN
<1>1. source \in Seq(Node)
  BY SourceAssumption
<1>2. \A n \in 1..Len(source) : source[n] \in Node
  BY <1>1, ElementOfSeq
<1> QED  BY <1>1, <1>2, LenProperties DEF Node

LEMMA InitIInv == Init => IInv
<1> SUFFICES ASSUME Init PROVE IInv
  OBVIOUS
<1>1. Len(source) \in Nat
  BY SourceType DEF Init
<1>2. /\ spawned = <<>> /\ goroutine = <<>> /\ Len(spawned) = 0 /\ Len(goroutine) = 0
      /\ spawned \in Seq(Nat) /\ visited = 0
      /\ goroutine \in Seq({"analysing", "sending", "returning", "ended"})
  BY DEF Init
<1>3. TypeInv
  BY <1>1, <1>2 DEF Init, TypeInv
<1>4. SpawnedInv /\ PhaseInv
  BY <1>2 DEF Init, SpawnedInv, PhaseInv
<1>5. Received = {} /\ Successful = {} /\ Unsuccessful = {}
  BY <1>2 DEF Successful, Received, Unsuccessful
<1>6. CollectedInv
  BY <1>5 DEF Init, CollectedInv
<1> QED  BY <1>3, <1>4, <1>6 DEF IInv

LEMMA SpawnIInv == IInv /\ Spawn => IInv'
<1> SUFFICES ASSUME IInv, Spawn PROVE IInv'
  OBVIOUS
<1> DEFINE n == visited + 1
<1>1. /\ main = "spawning" /\ visited \in Nat /\ visited < Len(source) /\ Len(source) \in Nat
      /\ n \in 1..Len(source) /\ visited' = n
      /\ source' = source /\ main' = main /\ closer' = closer /\ result' = result
      /\ funcTriggers' = funcTriggers /\ funcResults' = funcResults
  BY SourceType DEF IInv, TypeInv, Spawn
<1>2. Len(spawned) \in Nat /\ Len(goroutine) = Len(spawned)
  BY LenProperties DEF IInv, TypeInv
<1>3. Received = {} /\ Successful = {}
  BY <1>1, <1>2 DEF IInv, PhaseInv, Received, Successful
<1>4. source[n].outcome \in Outcome
  BY <1>1, SourceType DEF IInv, TypeInv
<1>5. CASE /\ source[n].outcome \notin Begun
           /\ spawned' = spawned /\ goroutine' = goroutine
           /\ err' = IF source[n].outcome = "oversized" THEN err \cup {source[n].name} ELSE err
  <2>1. TypeInv'
    BY <1>1, <1>5 DEF IInv, TypeInv
  <2>2. SpawnedInv'
    BY <1>1, <1>2, <1>5 DEF IInv, SpawnedInv
  <2>3. PhaseInv'
    BY <1>1, <1>5 DEF IInv, PhaseInv
  <2>4. Received' = {} /\ Successful' = {}
    BY <1>1, <1>3, <1>5 DEF Received, Successful
  <2>5. err' = {source[k].name : k \in {k \in 1..n : source[k].outcome = "oversized"}}
    BY <1>1, <1>3, <1>5 DEF IInv, CollectedInv, Unsuccessful
  <2>6. CollectedInv'
    BY <1>1, <1>3, <2>4, <2>5 DEF IInv, CollectedInv, Unsuccessful
  <2> QED  BY <2>1, <2>2, <2>3, <2>6 DEF IInv
<1>6. CASE /\ source[n].outcome \in Begun
           /\ spawned' = Append(spawned, n) /\ goroutine' = Append(goroutine, "analysing")
           /\ err' = err
  <2>1. /\ spawned' \in Seq(Nat) /\ Len(spawned') = Len(spawned) + 1
        /\ spawned'[Len(spawned) + 1] = n
        /\ \A i \in 1..Len(spawned) : spawned'[i] = spawned[i]
    BY <1>1, <1>6, AppendProperties DEF IInv, TypeInv
  <2>2. /\ goroutine' \in Seq({"analysing", "sending", "returning", "ended"})
        /\ Len(goroutine') = Len(spawned) + 1
        /\ goroutine'[Len(spawned) + 1] = "analysing"
        /\ \A i \in 1..Len(spawned) : goroutine'[i] = goroutine[i]
    BY <1>2, <1>6, AppendProperties DEF IInv, TypeInv
  <2>3. TypeInv'
    BY <1>1, <2>1, <2>2 DEF IInv, TypeInv
  <2>4. SpawnedInv'
    <3>1. \A i \in 1..Len(spawned)' :
            spawned'[i] \in 1..n /\ source[spawned'[i]].outcome \in Begun
      BY <1>1, <1>2, <1>6, <2>1 DEF IInv, SpawnedInv
    <3>2. ASSUME NEW i \in 1..Len(spawned)', NEW j \in 1..Len(spawned)', i < j
          PROVE  spawned'[i] < spawned'[j]
      <4>1. i \in 1..Len(spawned) /\ spawned'[i] = spawned[i] /\ spawned[i] \in 1..visited
        BY <1>2, <2>1, <3>2 DEF IInv, SpawnedInv
      <4>2. CASE j = Len(spawned) + 1
        BY <1>1, <2>1, <4>1, <4>2
      <4>3. CASE j \in 1..Len(spawned)
        BY <2>1, <3>2, <4>1, <4>3 DEF IInv, SpawnedInv
      <4> QED  BY <1>2, <2>1, <4>2, <4>3
    <3>3. ASSUME NEW k \in 1..n, source[k].outcome \in Begun
          PROVE  \E i \in 1..Len(spawned)' : spawned'[i] = k
      <4>1. CASE k = n
        BY <1>2, <2>1, <4>1
      <4>2. CASE k \in 1..visited
        <5>1. PICK i \in 1..Len(spawned) : spawned[i] = k
          BY <3>3, <4>2 DEF IInv, SpawnedInv
        <5> QED  BY <1>2, <2>1, <5>1
      <4> QED  BY <1>1, <4>1, <4>2
    <3> QED  BY <1>1, <3>1, <3>2, <3>3 DEF SpawnedInv
  <2>5. PhaseInv'
    BY <1>1, <1>2, <2>2 DEF IInv, PhaseInv
  <2>6. Received' = {} /\ Successful' = {}
    <3>1. \A i \in 1..Len(spawned) : goroutine[i] \in {"analysing", "sending"}
      BY <1>1, <1>2 DEF IInv, PhaseInv
    <3>2. \A i \in 1..Len(spawned)' : goroutine'[i] \in {"analysing", "sending"}
      BY <1>2, <2>1, <2>2, <3>1
    <3> QED  BY <3>2 DEF Received, Successful
  <2>7. Unsuccessful' = Unsuccessful
    BY <1>1, <1>3, <1>6, <2>6 DEF Unsuccessful, Begun
  <2>8. CollectedInv'
    BY <1>1, <1>3, <1>6, <2>6, <2>7 DEF IInv, CollectedInv
  <2> QED  BY <2>3, <2>4, <2>5, <2>8 DEF IInv
<1> QED  BY <1>4, <1>5, <1>6 DEF Spawn, Begun, Outcome

LEMMA CollectIInv == IInv /\ Collect => IInv'
<1> SUFFICES ASSUME IInv, Collect PROVE IInv'
  OBVIOUS
<1>1. Len(spawned) \in Nat /\ Len(goroutine) = Len(spawned) /\ DOMAIN spawned = 1..Len(spawned)
  BY LenProperties DEF IInv, TypeInv
<1>2. Received = {} /\ Successful = {}
  BY <1>1 DEF IInv, PhaseInv, Collect, Received, Successful
<1>3. Received' = {} /\ Successful' = {}
  BY <1>2 DEF Collect, Received, Successful
<1>4. TypeInv' /\ SpawnedInv' /\ PhaseInv'
  BY DEF IInv, TypeInv, SpawnedInv, PhaseInv, Collect
<1>5. Slots' = [i \in 1..Len(spawned) |-> <<>>]
  BY <1>3 DEF Slots, Collect
<1>6. CollectedInv'
  BY <1>1, <1>2, <1>3, <1>5 DEF IInv, CollectedInv, Unsuccessful, Collect
<1> QED  BY <1>4, <1>6 DEF IInv

\* A worker's own step moves no result.
LEMMA WorkerIInv ==
  ASSUME IInv, NEW i \in DOMAIN goroutine, Worker(i)
  PROVE  IInv'
<1>1. /\ Len(spawned) \in Nat /\ Len(goroutine) = Len(spawned)
      /\ DOMAIN goroutine = 1..Len(spawned)
  BY LenProperties DEF IInv, TypeInv
<1>2. /\ goroutine' \in Seq({"analysing", "sending", "returning", "ended"})
      /\ Len(goroutine') = Len(spawned)
      /\ \A j \in 1..Len(spawned) \ {i} : goroutine'[j] = goroutine[j]
      /\ \/ goroutine[i] = "analysing" /\ goroutine'[i] = "sending"
         \/ goroutine[i] = "returning" /\ goroutine'[i] = "ended"
  <2>1. CASE AnalyzeFunc(i)
    BY <1>1, <2>1, ExceptSeq DEF IInv, TypeInv, AnalyzeFunc
  <2>2. CASE Return(i)
    BY <1>1, <2>2, ExceptSeq DEF IInv, TypeInv, Return
  <2> QED  BY <2>1, <2>2 DEF Worker
<1>3. UNCHANGED <<source, result, main, visited, spawned, closer, err, funcTriggers, funcResults>>
  BY DEF Worker, AnalyzeFunc, Return
<1>4. TypeInv' /\ SpawnedInv'
  BY <1>1, <1>2, <1>3 DEF IInv, TypeInv, SpawnedInv
<1>5. PhaseInv'
  BY <1>1, <1>2, <1>3 DEF IInv, PhaseInv
<1>6. Received' = Received
  BY <1>1, <1>2, <1>3 DEF Received
<1>7. Successful' = Successful
  BY <1>3, <1>6 DEF Successful
<1>8. CollectedInv'
  BY <1>3, <1>6, <1>7 DEF IInv, CollectedInv, Unsuccessful, Slots
<1> QED  BY <1>4, <1>5, <1>8 DEF IInv

LEMMA ReceiveIInv ==
  ASSUME IInv, NEW i \in DOMAIN goroutine, Receive(i)
  PROVE  IInv'
<1>1. /\ Len(spawned) \in Nat /\ Len(goroutine) = Len(spawned)
      /\ DOMAIN goroutine = 1..Len(spawned)
      /\ goroutine[i] = "sending" /\ closer # "ended" /\ main = "collecting"
  BY LenProperties DEF IInv, TypeInv, Receive
<1>2. /\ goroutine' \in Seq({"analysing", "sending", "returning", "ended"})
      /\ Len(goroutine') = Len(spawned)
      /\ \A j \in 1..Len(spawned) \ {i} : goroutine'[j] = goroutine[j]
      /\ goroutine'[i] = "returning"
  BY <1>1, ExceptSeq DEF IInv, TypeInv, Receive
<1>3. UNCHANGED <<source, result, main, visited, spawned, closer>>
  BY DEF Receive
<1>4. TypeInv' /\ SpawnedInv' /\ PhaseInv'
  BY <1>1, <1>2, <1>3 DEF IInv, TypeInv, SpawnedInv, PhaseInv
<1>5. Received' = Received \cup {i} /\ i \notin Received
  BY <1>1, <1>2, <1>3 DEF Received
<1>6. CASE source[spawned[i]].outcome # "triggers"
  <2>1. Successful' = Successful
    BY <1>3, <1>5, <1>6 DEF Successful
  <2>2. /\ err' = err \cup {source[spawned[i]].name}
        /\ UNCHANGED <<funcTriggers, funcResults>>
    BY <1>6 DEF Receive
  <2>3. Unsuccessful' = Unsuccessful \cup {spawned[i]}
    BY <1>3, <1>5, <1>6, <2>1 DEF Unsuccessful, Successful
  <2>4. CollectedInv'
    BY <1>1, <1>3, <2>1, <2>2, <2>3 DEF IInv, CollectedInv, Slots
  <2> QED  BY <1>4, <2>4 DEF IInv
<1>7. CASE source[spawned[i]].outcome = "triggers"
  <2>1. Successful' = Successful \cup {i}
    BY <1>3, <1>5, <1>7 DEF Successful
  <2>2. /\ err' = err
        /\ funcTriggers' = [funcTriggers EXCEPT ![i] = OwnTriggers(source[spawned[i]])]
        /\ funcResults' = IF source[spawned[i]].literal THEN funcResults ELSE funcResults \cup {i}
    BY <1>7 DEF Receive
  <2>3. Unsuccessful' = Unsuccessful
    BY <1>3, <1>5, <2>1 DEF Unsuccessful
  <2>4. Slots' = [Slots EXCEPT ![i] = OwnTriggers(source[spawned[i]])]
    BY <1>1, <1>3, <2>1 DEF Slots
  <2>5. funcResults' = {j \in Successful' : ~source[spawned[j]].literal}
    BY <2>1, <2>2 DEF IInv, CollectedInv
  <2>6. CollectedInv'
    BY <1>1, <1>3, <2>2, <2>3, <2>4, <2>5 DEF IInv, CollectedInv
  <2> QED  BY <1>4, <2>6 DEF IInv
<1> QED  BY <1>6, <1>7

LEMMA LastIInv == IInv /\ (CloseChannel \/ Finish \/ UNCHANGED vars) => IInv'
<1> SUFFICES ASSUME IInv, CloseChannel \/ Finish \/ UNCHANGED vars PROVE IInv'
  OBVIOUS
<1>1. UNCHANGED <<source, visited, spawned, goroutine, err, funcTriggers, funcResults>>
  BY DEF CloseChannel, Finish, vars
<1>2. DOMAIN goroutine = 1..Len(goroutine)
  BY LenProperties DEF IInv, TypeInv
<1>3. TypeInv' /\ SpawnedInv' /\ PhaseInv'
  BY <1>1, <1>2 DEF IInv, TypeInv, SpawnedInv, PhaseInv, CloseChannel, Finish, vars
<1>4. Received' = Received /\ Successful' = Successful /\ Unsuccessful' = Unsuccessful /\ Slots' = Slots
  BY <1>1 DEF Received, Successful, Unsuccessful, Slots
<1>5. main' # "spawning" => main # "spawning"
  BY DEF CloseChannel, Finish, vars
<1>6. CollectedInv'
  BY <1>1, <1>4, <1>5 DEF IInv, CollectedInv
<1> QED  BY <1>3, <1>6 DEF IInv

LEMMA NextIInv == IInv /\ [Next]_vars => IInv'
<1> SUFFICES ASSUME IInv, [Next]_vars PROVE IInv'
  OBVIOUS
<1>1. CASE Spawn
  BY <1>1, SpawnIInv
<1>2. CASE Collect
  BY <1>2, CollectIInv
<1>3. CASE \E i \in DOMAIN goroutine : Receive(i)
  BY <1>3, ReceiveIInv
<1>4. CASE \E i \in DOMAIN goroutine : Worker(i)
  BY <1>4, WorkerIInv
<1>5. CASE CloseChannel \/ Finish \/ UNCHANGED vars
  BY <1>5, LastIInv
<1> QED  BY <1>1, <1>2, <1>3, <1>4, <1>5 DEF Next, Main

LEMMA IInvHolds == Spec => []IInv
<1>1. Init => IInv
  BY InitIInv
<1>2. IInv /\ [Next]_vars => IInv'
  BY NextIInv
<1> QED  BY <1>1, <1>2, PTL DEF Spec

-----------------------------------------------------------------------------
(****************************************************************************)
(* What it gives.                                                           *)
(****************************************************************************)

\* The channel is closed by a goroutine of its own, after wg.Wait: whatever the
\* functions, their outcomes and the order of the goroutines, none of them is
\* then left that could send on the closed channel or wait for a receiver.
THEOREM NothingSentAfterClose == Spec => []NoSendAfterClose
<1>1. IInv => NoSendAfterClose
  BY LenProperties DEF IInv, TypeInv, PhaseInv, NoSendAfterClose
<1> QED  BY <1>1, IInvHolds, PTL

\* The promise is stated with an instance of the serial module; its operators are
\* those that the module of the goroutines uses.
LEMMA SameFlattenSeq ==
  ASSUME NEW seqs
  PROVE  Serial!FlattenSeq(seqs) = FlattenSeq(seqs)
BY DEF Serial!FlattenSeq, FlattenSeq

LEMMA SameSetToSeqs ==
  ASSUME NEW S
  PROVE  Serial!SetToSeqs(S) = SetToSeqs(S)
BY DEF Serial!SetToSeqs, SetToSeqs, Serial!Cardinality, Cardinality

LEMMA SameDuplicates ==
  ASSUME NEW node, NEW callee
  PROVE  Serial!Duplicates(node, callee) = Duplicates(node, callee)
BY DEF Serial!Duplicates, Duplicates, Serial!Trigger, Trigger, Serial!FlattenSeq, FlattenSeq

LEMMA SameOwnTriggers ==
  ASSUME NEW node
  PROVE  Serial!OwnTriggers(node) = OwnTriggers(node)
BY DEF Serial!OwnTriggers, OwnTriggers, Serial!Trigger, Trigger

LEMMA SameArgumentMissing ==
  ASSUME NEW callers, NEW callees
  PROVE  Serial!ArgumentMissing(callers, callees) <=> ArgumentMissing(callers, callees)
BY DEF Serial!ArgumentMissing, ArgumentMissing

\* When run returns, every function of the package has been passed, and the
\* result of every goroutine has been received.
LEMMA AllReceived ==
  ASSUME IInv, Finish
  PROVE  /\ visited = Len(source)
         /\ Received = 1..Len(spawned)
         /\ funcTriggers = Slots
         /\ DOMAIN funcTriggers = 1..Len(spawned)
BY DEF IInv, TypeInv, PhaseInv, CollectedInv, Finish, Received, Slots

\* The goroutines are, in their order, the functions that are to be analysed.
LEMMA SpawnedAll ==
  ASSUME IInv, visited = Len(source)
  PROVE  spawned \in Serial!InOrder(Serial!Started)
<1> DEFINE N == Len(spawned)
<1>1. /\ N \in Nat /\ spawned \in [1..N -> Nat] /\ DOMAIN spawned = 1..N
      /\ DOMAIN source = 1..Len(source)
  BY SourceType, LenProperties DEF IInv, TypeInv
<1>2. \A i \in 1..N : spawned[i] \in Serial!Started
  BY <1>1 DEF IInv, SpawnedInv, Serial!Started, Begun
<1>3. \A n \in Serial!Started : \E i \in 1..N : spawned[i] = n
  BY <1>1 DEF IInv, SpawnedInv, Serial!Started, Begun
<1>4. \A i, j \in 1..N : i < j => spawned[i] < spawned[j]
  BY DEF IInv, SpawnedInv
<1>5. \A i, j \in 1..N : i # j => spawned[i] # spawned[j]
  BY <1>1, <1>4
<1>6. spawned \in [1..N -> Serial!Started]
  BY <1>1, <1>2
<1>7. spawned \in Bijection(1..N, Serial!Started)
  BY <1>3, <1>5, <1>6 DEF Bijection, Injection, Surjection, IsInjective
<1>8. Cardinality(Serial!Started) = N
  BY <1>1, <1>7, FS_CountingElements DEF ExistsBijection
<1>9. spawned \in SetToSeqs(Serial!Started)
  BY <1>5, <1>6, <1>8 DEF SetToSeqs
<1> QED  BY <1>1, <1>4, <1>9, SameSetToSeqs DEF Serial!InOrder

LEMMA NamesAgree ==
  ASSUME IInv, visited = Len(source), Received = 1..Len(spawned)
  PROVE  /\ {spawned[i] : i \in funcResults} = Serial!Declared
         /\ err = Serial!Failures
         /\ \A i \in 1..Len(spawned) :
              /\ i \in Successful <=> spawned[i] \in Serial!Analysed
              /\ i \in funcResults <=> spawned[i] \in Serial!Declared
<1>1. /\ DOMAIN source = 1..Len(source)
      /\ \A n \in DOMAIN source : source[n].outcome \in Outcome
  BY SourceType, LenProperties DEF IInv, TypeInv
<1>2. \A i \in 1..Len(spawned) :
        spawned[i] \in DOMAIN source /\ source[spawned[i]].outcome \in Begun
  BY <1>1 DEF IInv, SpawnedInv
<1>3. \A n \in DOMAIN source :
        source[n].outcome \in Begun => \E i \in 1..Len(spawned) : spawned[i] = n
  BY <1>1 DEF IInv, SpawnedInv
<1>4. Successful = {i \in 1..Len(spawned) : source[spawned[i]].outcome = "triggers"}
  BY DEF Successful
<1>5. \A i \in 1..Len(spawned) :
        /\ i \in Successful <=> spawned[i] \in Serial!Analysed
        /\ i \in funcResults <=> spawned[i] \in Serial!Declared
  BY <1>2, <1>4 DEF IInv, CollectedInv, Serial!Analysed, Serial!Declared
<1>6. funcResults \subseteq 1..Len(spawned)
  BY <1>4 DEF IInv, CollectedInv
<1>7. \A n \in Serial!Declared : \E i \in 1..Len(spawned) : spawned[i] = n
  BY <1>3 DEF Serial!Declared, Serial!Analysed, Begun
<1>8. {spawned[i] : i \in funcResults} = Serial!Declared
  BY <1>5, <1>6, <1>7
<1>9. Unsuccessful = {n \in DOMAIN source : source[n].outcome \in {"error", "panic", "oversized"}}
  BY <1>1, <1>2, <1>3, <1>4 DEF Unsuccessful, Begun, Outcome
<1>10. err = Serial!Failures
  BY <1>9 DEF IInv, CollectedInv, Serial!Failures
<1> QED  BY <1>5, <1>8, <1>10

LEMMA FinishIsRun == IInv /\ Finish => Serial!Run
<1> SUFFICES ASSUME IInv, Finish PROVE Serial!Run
  OBVIOUS
<1>1. visited = Len(source) /\ Received = 1..Len(spawned)
      /\ funcTriggers = Slots /\ DOMAIN funcTriggers = 1..Len(spawned)
  BY AllReceived
<1>2. /\ {spawned[i] : i \in funcResults} = Serial!Declared
      /\ err = Serial!Failures
      /\ \A i \in 1..Len(spawned) :
           /\ i \in Successful <=> spawned[i] \in Serial!Analysed
           /\ i \in funcResults <=> spawned[i] \in Serial!Declared
  BY <1>1, NamesAgree
<1>3. spawned \in Serial!InOrder(Serial!Started) /\ DOMAIN spawned = 1..Len(spawned)
  BY <1>1, SpawnedAll, LenProperties DEF IInv, TypeInv
<1> DEFINE D == {spawned[i] : i \in funcResults}
           C == {n \in D : source[n].contracted}
           Dup(i, order) ==
             IF i \notin funcResults THEN <<>>
             ELSE FlattenSeq([o \in DOMAIN order |->
                    Duplicates(source[spawned[i]], source[order[o]])])
           Out(order) == [i \in DOMAIN funcTriggers |-> funcTriggers[i] \o Dup(i, order)]
<1>4. D = Serial!Declared /\ C = Serial!Contracted
  BY <1>2 DEF Serial!Contracted
<1>5. IF ArgumentMissing(D, C) THEN result' = Panicked
      ELSE \E order \in SetToSeqs(C) :
             result' = [triggers |-> FlattenSeq(Out(order)), err |-> err]
  BY DEF Finish
<1>6. result = None /\ UNCHANGED source
  BY DEF IInv, PhaseInv, Finish
<1>7. CASE ArgumentMissing(D, C)
  <2>1. result' \in Serial!SerialResults
    <3>1. result' = Serial!Panicked
      BY <1>5, <1>7 DEF Panicked, Serial!Panicked
    <3>2. Serial!ArgumentMissing(Serial!Declared, Serial!Contracted)
      BY <1>4, <1>7, SameArgumentMissing
    <3> QED  BY <3>1, <3>2 DEF Serial!SerialResults
  <2> QED  BY <1>6, <2>1 DEF Serial!Run
<1>8. CASE ~ArgumentMissing(D, C)
  <2>1. PICK order \in SetToSeqs(C) :
          result' = [triggers |-> FlattenSeq(Out(order)), err |-> err]
    BY <1>5, <1>8
  <2>2. ASSUME NEW i \in 1..Len(spawned)
        PROVE  Out(order)[i] = Serial!TriggersOf(spawned[i], order)
    <3> DEFINE node == source[spawned[i]]
               own == IF spawned[i] \in Serial!Analysed THEN Serial!OwnTriggers(node) ELSE <<>>
               dup == IF spawned[i] \in Serial!Declared
                      THEN Serial!FlattenSeq([o \in DOMAIN order |->
                             Serial!Duplicates(node, source[order[o]])])
                      ELSE <<>>
    <3>1. funcTriggers[i] = own
      BY <1>1, <1>2, SameOwnTriggers DEF Slots
    <3>2. [o \in DOMAIN order |-> Serial!Duplicates(node, source[order[o]])]
            = [o \in DOMAIN order |-> Duplicates(node, source[order[o]])]
      BY SameDuplicates
    <3>3. Dup(i, order) = dup
      BY <1>2, <3>2, SameFlattenSeq
    <3>4. Serial!TriggersOf(spawned[i], order) = own \o dup
      BY DEF Serial!TriggersOf
    <3>5. Out(order)[i] = funcTriggers[i] \o Dup(i, order)
      BY <1>1
    <3> HIDE DEF Dup, Out, own, dup
    <3> QED  BY <3>1, <3>3, <3>4, <3>5
  <2>3. Out(order) = [i \in DOMAIN spawned |-> Serial!TriggersOf(spawned[i], order)]
    <3>1. Out(order) = [i \in 1..Len(spawned) |-> Out(order)[i]]
      BY <1>1
    <3> HIDE DEF Out
    <3> QED  BY <1>3, <2>2, <3>1
  <2>4. ~Serial!ArgumentMissing(Serial!Declared, Serial!Contracted)
    BY <1>4, <1>8, SameArgumentMissing
  <2>5. order \in Serial!SetToSeqs(Serial!Contracted)
    BY <1>4, <2>1, SameSetToSeqs
  <2>6. result' = [triggers |-> Serial!FlattenSeq([i \in DOMAIN spawned |->
                                  Serial!TriggersOf(spawned[i], order)]),
                   err |-> Serial!Failures]
    BY <1>2, <2>1, <2>3, SameFlattenSeq
  <2>7. result' \in Serial!SerialResults
    <3> DEFINE R(slots, o) ==
                 [triggers |-> Serial!FlattenSeq([i \in DOMAIN slots |->
                                 Serial!TriggersOf(slots[i], o)]),
                  err |-> Serial!Failures]
    <3>1. Serial!SerialResults = {R(slots, o) : slots \in Serial!InOrder(Serial!Started),
                                               o \in Serial!SetToSeqs(Serial!Contracted)}
      BY <2>4 DEF Serial!SerialResults
    <3>2. result' = R(spawned, order)
      BY <2>6
    <3> HIDE DEF R
    <3> QED  BY <1>3, <2>5, <3>1, <3>2
  <2> QED  BY <1>6, <2>7 DEF Serial!Run
<1> QED  BY <1>7, <1>8

\* Every other step leaves the package and the result alone.
LEMMA StepsRefine == IInv /\ [Next]_vars => [Serial!Run]_(Serial!serialVars)
<1> SUFFICES ASSUME IInv, [Next]_vars PROVE [Serial!Run]_(Serial!serialVars)
  OBVIOUS
<1>1. CASE Finish
  BY <1>1, FinishIsRun
<1>2. CASE ~Finish
  BY <1>2 DEF Next, Main, Worker, Spawn, Collect, Receive, AnalyzeFunc, Return, CloseChannel,
              vars, Serial!serialVars
<1> QED  BY <1>1, <1>2

\* The promise of the comment on funcTriggers, that the result is the one of
\* functions analysed serially: every behaviour of the goroutines is, step by
\* step, one of the serial analyzer.  (That a result always comes is liveness.)
THEOREM SerialSafety == Spec => Serial!SerialInit /\ [][Serial!Run]_(Serial!serialVars)
<1>1. Init => Serial!SerialInit
  BY DEF Init, Serial!SerialInit
<1>2. IInv /\ [Next]_vars => [Serial!Run]_(Serial!serialVars)
  BY StepsRefine
<1> QED  BY <1>1, <1>2, IInvHolds, PTL DEF Spec

=============================================================================
