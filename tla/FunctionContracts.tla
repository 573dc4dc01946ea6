---------------------------- MODULE FunctionContracts ----------------------------
(****************************************************************************)
(* The analyzer of function contracts (assertion/function/functioncontracts/*)
(* analyzer.go): it reads the contracts written by hand while it walks over *)
(* the declarations of the package, starts a goroutine for every function   *)
(* that may have another one, each of which runs the worklist of            *)
(* ContractInference, collects what the goroutines send, and merges the     *)
(* contracts of the packages upstream.                                      *)
(****************************************************************************)
EXTENDS ContractInference

CONSTANT Source  \* the packages that may be analysed

\* What the SSA builder guarantees of a function: its values are known, what converts
\* another value and what joins values have no nilness of their own, and a block
\* that returns has no successor.
WellFormed(fn) ==
  /\ fn.param \in DOMAIN fn.intrinsic
  /\ \A v \in DOMAIN fn.intrinsic :
       /\ fn.intrinsic[v] \in Nilness
       /\ fn.of[v] # None => /\ fn.of[v] \in DOMAIN fn.intrinsic
                             /\ fn.of[fn.of[v]] = None
                             /\ fn.intrinsic[v] = unknown
  /\ fn.block \in Seq(Range(fn.block)) /\ fn.block # <<>>
  /\ \A b \in Blocks(fn) :
       /\ \A phi \in Range(fn.block[b].phis) : fn.intrinsic[phi[1]] = unknown
       /\ Range(fn.block[b].succs) \subseteq Blocks(fn)
       /\ fn.block[b].ret # None => /\ fn.block[b].ret \in DOMAIN fn.intrinsic
                                    /\ fn.block[b].succs = <<>>

ASSUME SourceAssumption ==
  \A s \in Source :
    /\ s.inScope \in BOOLEAN
    /\ s.decls \in Seq(Range(s.decls))
    /\ \A d \in Range(s.decls) :
         /\ d.kind \in {"unfit", "handwritten", "inferable"}
         /\ d.panics \in BOOLEAN
         /\ d.kind = "inferable" => WellFormed(d.fn)

VARIABLES
  source,     \* the package: its declarations, the contracts upstream; never changes
  result,     \* what run returns
  main,       \* where run is
  visited,    \* the declarations the loop has passed
  spawned,    \* the declaration of each goroutine
  goroutine,  \* the state of each goroutine
  work,       \* the worklist of each goroutine
  closer,     \* the goroutine that closes funcChan
  contracts,  \* the names that have a contract so far: the map m
  err         \* the functions whose inference has failed

vars == <<source, result, main, visited, spawned, goroutine, work, closer, contracts, err>>

Init ==
  /\ source \in Source
  /\ result = None
  /\ main = IF source.inScope THEN "declarations" ELSE "outOfScope"
  /\ visited = 0
  /\ spawned = <<>>
  /\ goroutine = <<>>
  /\ work = <<>>
  /\ closer = "unstarted"
  /\ contracts = {}
  /\ err = {}

Decl(i) == source.decls[spawned[i]]

\* A package that is out of scope has no contracts.
OutOfScope ==
  /\ main = "outOfScope"
  /\ main' = "returned"
  /\ result' = [contracts |-> {}, err |-> {}, facts |-> {}]
  /\ UNCHANGED <<source, visited, spawned, goroutine, work, closer, contracts, err>>

\* One iteration of the loop over the declarations: a contract written by hand is
\* taken; a function of one pointer to one pointer, with a body, is inferred;
\* anything else is passed over.
Declaration ==
  /\ main = "declarations" /\ visited < Len(source.decls)
  /\ visited' = visited + 1
  /\ LET decl == source.decls[visited + 1]
     IN  \/ /\ decl.kind = "unfit"
            /\ UNCHANGED <<spawned, goroutine, work, contracts>>
         \/ /\ decl.kind = "handwritten"
            /\ contracts' = contracts \cup {decl.name}
            /\ UNCHANGED <<spawned, goroutine, work>>
         \/ /\ decl.kind = "inferable"
            /\ spawned' = Append(spawned, visited + 1)
            /\ goroutine' = Append(goroutine, "starting")
            /\ work' = Append(work, Start(decl.fn))
            /\ UNCHANGED contracts
  /\ UNCHANGED <<source, result, main, closer, err>>

\* The loop is over: the goroutine that closes the channel starts.
Collect ==
  /\ main = "declarations" /\ visited = Len(source.decls)
  /\ main' = "collecting"
  /\ closer' = "waiting"
  /\ UNCHANGED <<source, result, visited, spawned, goroutine, work, contracts, err>>

\* inferContracts before its loop: it panics, or derives the contract at once.
Begin(i) ==
  /\ goroutine[i] = "starting"
  /\ goroutine' = [goroutine EXCEPT ![i] =
       IF Decl(i).panics \/ DerivedAtOnce(Decl(i).fn) THEN "sending" ELSE "inferring"]
  /\ UNCHANGED <<source, result, main, visited, spawned, work, closer, contracts, err>>

\* One block of the queue.
VisitBlock(i) ==
  /\ goroutine[i] = "inferring" /\ ~Finished(work[i])
  /\ \E next \in Visits(Decl(i).fn, work[i]) : work' = [work EXCEPT ![i] = next]
  /\ UNCHANGED <<source, result, main, visited, spawned, goroutine, closer, contracts, err>>

\* The queue is empty: a function without a contract sends nothing.
Conclude(i) ==
  /\ goroutine[i] = "inferring" /\ Finished(work[i])
  /\ goroutine' = [goroutine EXCEPT ![i] =
       IF HasContract(Decl(i).fn, work[i]) THEN "sending" ELSE "ended"]
  /\ UNCHANGED <<source, result, main, visited, spawned, work, closer, contracts, err>>

\* The send of goroutine i meets the receive of the main goroutine; a panic was
\* recovered and comes as an error.
Receive(i) ==
  /\ main = "collecting" /\ closer # "ended"
  /\ goroutine[i] = "sending"
  /\ goroutine' = [goroutine EXCEPT ![i] = "returning"]
  /\ contracts' = contracts \cup {Decl(i).name}
  /\ err' = IF Decl(i).panics THEN err \cup {Decl(i).name} ELSE err
  /\ UNCHANGED <<source, result, main, visited, spawned, work, closer>>

\* wg.Go calls Done when the goroutine returns.
Return(i) ==
  /\ goroutine[i] = "returning"
  /\ goroutine' = [goroutine EXCEPT ![i] = "ended"]
  /\ UNCHANGED <<source, result, main, visited, spawned, work, closer, contracts, err>>

\* wg.Wait returns and the channel is closed.
CloseChannel ==
  /\ closer = "waiting"
  /\ \A i \in DOMAIN goroutine : goroutine[i] = "ended"
  /\ closer' = "ended"
  /\ UNCHANGED <<source, result, main, visited, spawned, goroutine, work, contracts, err>>

\* The channel is closed: an error drops the map; otherwise the contracts upstream
\* are merged, and those of exported functions of the package become facts.
Finish ==
  /\ main = "collecting" /\ closer = "ended"
  /\ main' = "returned"
  /\ result' =
       IF err # {} THEN [contracts |-> {}, err |-> err, facts |-> {}]
       ELSE [contracts |-> contracts \cup source.upstream, err |-> {},
             facts |-> {d.name : d \in {e \in Range(source.decls) :
                                          e.exported /\ e.name \in contracts}}]
  /\ UNCHANGED <<source, visited, spawned, goroutine, work, closer, contracts, err>>

Worker(i) == Begin(i) \/ VisitBlock(i) \/ Conclude(i) \/ Return(i)
Main == OutOfScope \/ Declaration \/ Collect \/ (\E i \in DOMAIN goroutine : Receive(i)) \/ Finish

Next ==
  \/ Main
  \/ \E i \in DOMAIN goroutine : Worker(i)
  \/ CloseChannel

Spec == Init /\ [][Next]_vars

\* Go runs the goroutines that are ready.
FairSpec ==
  /\ Spec
  /\ WF_vars(Main) /\ WF_vars(CloseChannel)
  /\ WF_vars(\E i \in DOMAIN goroutine : Worker(i))

-----------------------------------------------------------------------------
Promise == INSTANCE ContractPromise WITH source <- source, result <- result

\* Whatever the order in which goroutines run, results arrive and maps are
\* visited, the result is what the analyzer promises: no contract is lost, none
\* is there that an execution of the function breaks, a panic is an error.
KeepsPromise == Promise!PromiseSpec

\* The tables of a block tell of every execution that reaches it: one of them has
\* no value with another nilness than the execution gives it.  A block may have no
\* table at all, but not one that returns from a function that gets a contract.
ExecutionsCovered ==
  \A i \in DOMAIN goroutine :
    (goroutine[i] = "inferring" /\ Finished(work[i]) /\ ~work[i].gaveUp) =>
      \A at \in Promise!Reached(Decl(i).fn) :
        LET fn == Decl(i).fn
            tables == Range(work[i].tables[at[1]])
            agrees(table) == \A v \in DOMAIN table :
              table[v] # unknown => (table[v] = isnil) = (at[2][v] = None)
        IN  \/ \E table \in tables : agrees(table)
            \/ /\ tables = {}
               /\ at[1] \in Returns(fn) \cap work[i].entered => ~HasContract(fn, work[i])

\* run returns and no goroutine is left behind, also where an inference panics,
\* gives up, or goes round a loop of the function.
EveryoneEnds ==
  <>(main = "returned" /\ \A i \in DOMAIN goroutine : goroutine[i] = "ended")
=============================================================================
