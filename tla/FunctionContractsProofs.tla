---------------------- MODULE FunctionContractsProofs ----------------------
(****************************************************************************)
(* The pool of goroutines that infers contracts implements the promise of   *)
(* ContractPromise: for any package, any number of declarations and any     *)
(* order in which goroutines run and send.                                  *)
(*                                                                          *)
(* A contract that is sent holds of the function: a block of an execution   *)
(* that returns has a table that agrees with the execution, by the tables   *)
(* of its worklist, and deriveContracts found no counterexample in it.  The *)
(* map has the contracts written by hand and those received, and when the   *)
(* channel is closed every goroutine has sent what it had.                  *)
(****************************************************************************)
EXTENDS FunctionContracts, WellFoundedInduction, TLAPS

(* Counting up.                                                             *)
(****************************************************************************)

\* Numbers have a least one.
LEMMA Smallest ==
  ASSUME NEW T \in SUBSET Nat, T # {}
  PROVE  \E m \in T : \A n \in T : m <= n
<1>1. IsWellFoundedOn(OpToRel(<, Nat), Nat)
  BY NatLessThanWellFounded
<1>2. PICK m \in T : \A n \in T : <<n, m>> \notin OpToRel(<, Nat)
  BY <1>1, WFMin
<1>3. m \in T /\ \A n \in T : ~(n < m)
  BY <1>2 DEF OpToRel
<1>4. \A n \in T : n \in Nat /\ m \in Nat
  BY <1>3
<1> QED  BY <1>3, <1>4

\* A set with 0 that is left by no step up has all numbers to the bound.
LEMMA CountUp ==
  ASSUME NEW d \in Nat, NEW S, 0 \in S, \A n \in 1..d : n - 1 \in S => n \in S
  PROVE  0..d \subseteq S
<1> DEFINE Missing == (0..d) \ S
<1>1. ASSUME Missing # {} PROVE FALSE
  <2>1. Missing \in SUBSET Nat
    OBVIOUS
  <2>2. \E m \in Missing : \A n \in Missing : m <= n
    <3> HIDE DEF Missing
    <3> QED  BY <1>1, <2>1, Smallest
  <2>3. PICK m \in Missing : \A n \in Missing : m <= n
    BY <2>2
  <2>4. m \in 1..d /\ m - 1 \in 0..d /\ m - 1 < m
    BY <2>3
  <2> QED  BY <2>3, <2>4
<1> QED  BY <1>1

-----------------------------------------------------------------------------
(****************************************************************************)
(* The effects of the whole program.                                        *)
-----------------------------------------------------------------------------
(****************************************************************************)
(* The executions of a function.                                            *)
(****************************************************************************)

\* What every execution gives the values: nil is nil, what is made is not, and a
\* value that converts another one is what that is.
Proper(fn, env) ==
  /\ DOMAIN env = DOMAIN fn.intrinsic
  /\ \A v \in DOMAIN fn.intrinsic :
       /\ fn.intrinsic[v] = isnil => env[v] = None
       /\ fn.intrinsic[v] = isnonnil => env[v] # None
       /\ fn.of[v] # None => env[v] = env[fn.of[v]]

ProperAt(fn, at) == at[1] \in Blocks(fn) /\ Proper(fn, at[2])

LEMMA EnvironmentsAreProper ==
  ASSUME NEW fn, WellFormed(fn), NEW env \in Promise!Environments(fn)
  PROVE  Proper(fn, env)
<1> DEFINE value == DOMAIN fn.intrinsic
           free == {v \in value : fn.of[v] = None}
<1> DEFINE fits(v, pointer) ==
             /\ fn.intrinsic[v] = 1 => pointer = None
             /\ fn.intrinsic[v] = -1 => pointer # None
             /\ v = fn.param => pointer # "made"
             /\ v \in Promise!Phis(fn) => pointer = None
           given(e) == [v \in value |-> IF v \in free THEN e[v] ELSE e[fn.of[v]]]
           Given == {e \in [free -> Promise!Pointer] : \A v \in free : fits(v, e[v])}
<1>0. Promise!Environments(fn) = {given(e) : e \in Given}
  BY DEF Promise!Environments
<1>1. PICK e \in Given : env = given(e)
  <2> HIDE DEF Given, given
  <2> QED  BY <1>0
<1>2. \A v \in free : /\ fn.intrinsic[v] = 1 => e[v] = None
                      /\ fn.intrinsic[v] = -1 => e[v] # None
  BY <1>1
<1>3. \A v \in value : fn.of[v] # None =>
        fn.of[v] \in free /\ fn.intrinsic[v] = unknown
  BY DEF WellFormed
<1> QED  BY <1>1, <1>2, <1>3 DEF Proper, isnil, isnonnil, unknown

LEMMA StepsAreProper ==
  ASSUME NEW fn, WellFormed(fn), NEW b \in Blocks(fn), NEW env, Proper(fn, env),
         NEW next \in Promise!Steps(fn, b, env)
  PROVE  ProperAt(fn, next)
<1>1. PICK k \in DOMAIN fn.block[b].succs : next = Promise!Enters(fn, b, env, k)
  BY DEF Promise!Steps
<1> DEFINE succ == fn.block[b].succs[k]
           phi(v) == {p \in Range(fn.block[succ].phis) : p[1] = v}
           own(v) == IF phi(v) = {} THEN env[v] ELSE env[(CHOOSE p \in phi(v) : TRUE)[2][b]]
           after == [v \in DOMAIN env |-> IF fn.of[v] = None THEN own(v) ELSE own(fn.of[v])]
<1>2. next = <<succ, after>>
  BY <1>1 DEF Promise!Enters, Promise!Range, Range
<1>3. succ \in Blocks(fn)
  BY DEF WellFormed, Range
<1>4. \A v \in DOMAIN fn.intrinsic : phi(v) # {} => fn.intrinsic[v] = unknown
  BY <1>3 DEF WellFormed
<1>5. \A v : phi(v) = {} => own(v) = env[v]
  OBVIOUS
<1> HIDE DEF own, phi
<1>6. DOMAIN after = DOMAIN fn.intrinsic
  BY DEF Proper
<1>7. ASSUME NEW v \in DOMAIN fn.intrinsic
      PROVE  /\ fn.intrinsic[v] = isnil => after[v] = None
             /\ fn.intrinsic[v] = isnonnil => after[v] # None
             /\ fn.of[v] # None => after[v] = after[fn.of[v]]
  <2>1. CASE fn.of[v] = None
    <3>1. after[v] = own(v)
      BY <2>1 DEF Proper
    <3> HIDE DEF after
    <3> QED  BY <1>4, <1>5, <2>1, <3>1 DEF Proper, isnil, isnonnil, unknown
  <2>2. CASE fn.of[v] # None
    <3>1. fn.of[v] \in DOMAIN fn.intrinsic /\ fn.of[fn.of[v]] = None /\ fn.intrinsic[v] = unknown
      BY <2>2 DEF WellFormed
    <3>2. after[v] = own(fn.of[v]) /\ after[fn.of[v]] = own(fn.of[v])
      BY <2>2, <3>1 DEF Proper
    <3> HIDE DEF after
    <3> QED  BY <3>1, <3>2 DEF isnil, isnonnil, unknown
  <2> QED  BY <2>1, <2>2
<1> HIDE DEF after, succ
<1>8. Proper(fn, after)
  BY <1>6, <1>7 DEF Proper
<1> QED  BY <1>2, <1>3, <1>8 DEF ProperAt

\* after of Reached exists, so that Reached is what it seems to be.
LEMMA ReachedUnfolds ==
  ASSUME NEW fn, Len(fn.block) \in Nat
  PROVE  \E after :
           /\ after[0] = {1} \X Promise!Environments(fn)
           /\ \A n \in 1..(Len(fn.block) + 2) :
                after[n] = UNION {{at} \cup Promise!Steps(fn, at[1], at[2]) : at \in after[n - 1]}
           /\ Promise!Reached(fn) = after[Len(fn.block) + 2]
<1> DEFINE d == Len(fn.block) + 2
           Onward(G) == UNION {{at} \cup Promise!Steps(fn, at[1], at[2]) : at \in G}
           Entry == {1} \X Promise!Environments(fn)
           Value(g, k) == IF k = 0 THEN Entry ELSE Onward(g[k - 1])
           S == {n \in Nat : \E g : g = [k \in 0..n |-> Value(g, k)]}
<1>0. d \in Nat
  OBVIOUS
<1>5. Promise!Reached(fn) = (CHOOSE g : g = [k \in 0..d |-> Value(g, k)])[d]
  BY DEF Promise!Reached
<1> HIDE DEF d, Onward, Entry
<1>1. 0 \in S
  <2>1. [k \in 0..0 |-> Entry] = [k \in 0..0 |-> Value([k_1 \in 0..0 |-> Entry], k)]
    OBVIOUS
  <2> QED  BY <2>1
<1>2. ASSUME NEW n \in Nat, n \in S
      PROVE  n + 1 \in S
  <2>1. PICK g : g = [k \in 0..n |-> Value(g, k)]
    BY <1>2
  <2> DEFINE h == [k \in 0..(n + 1) |-> IF k <= n THEN g[k] ELSE Onward(g[n])]
  <2>2. ASSUME NEW k \in 0..(n + 1)
        PROVE  h[k] = Value(h, k)
    <3>1. CASE k = 0
      BY <2>1, <3>1
    <3>2. CASE k \in 1..n
      <4>1. g[k] = Onward(g[k - 1])
        BY <2>1, <3>2
      <4>2. h[k] = g[k] /\ h[k - 1] = g[k - 1]
        BY <3>2
      <4> QED  BY <3>2, <4>1, <4>2
    <3>3. CASE k = n + 1
      <4>1. h[k] = Onward(g[n]) /\ h[k - 1] = g[n]
        BY <3>3
      <4> QED  BY <3>3, <4>1
    <3> QED  BY <3>1, <3>2, <3>3
  <2>3. h = [k \in 0..(n + 1) |-> Value(h, k)]
    <3>1. h = [k \in 0..(n + 1) |-> h[k]]
      OBVIOUS
    <3> HIDE DEF h, Value
    <3> QED  BY <2>2, <3>1
  <2> HIDE DEF h, Value
  <2> QED  BY <2>3
<1>3. d \in S
  <2> HIDE DEF S
  <2>1. \A n \in 1..d : n - 1 \in S => n \in S
    <3> TAKE n \in 1..d
    <3>1. n - 1 \in Nat /\ (n - 1) + 1 = n
      BY <1>0
    <3> QED  BY <1>2, <3>1
  <2>2. 0..d \subseteq S
    BY <1>0, <1>1, <2>1, CountUp
  <2> QED  BY <1>0, <2>2
<1> DEFINE after == CHOOSE g : g = [k \in 0..d |-> Value(g, k)]
<1>4. after = [k \in 0..d |-> Value(after, k)]
  <2>1. \E g : g = [k \in 0..d |-> Value(g, k)]
    BY <1>3
  <2> QED  BY <2>1
<1>6. after[0] = Entry /\ \A n \in 1..d : after[n] = Onward(after[n - 1])
  <2> HIDE DEF after
  <2> QED  BY <1>0, <1>4
<1>7. Promise!Reached(fn) = after[d]
  BY <1>5
<1> HIDE DEF after
<1> QED  BY <1>6, <1>7 DEF d, Onward, Entry

LEMMA ReachedIsProper ==
  ASSUME NEW fn, WellFormed(fn), NEW at \in Promise!Reached(fn)
  PROVE  ProperAt(fn, at)
<1> DEFINE d == Len(fn.block) + 2
<1>1. Len(fn.block) \in Nat /\ d \in Nat /\ 1 \in Blocks(fn)
  BY DEF WellFormed, Blocks
<1>2. PICK after :
        /\ after[0] = {1} \X Promise!Environments(fn)
        /\ \A n \in 1..d :
             after[n] = UNION {{a} \cup Promise!Steps(fn, a[1], a[2]) : a \in after[n - 1]}
        /\ Promise!Reached(fn) = after[d]
  BY <1>1, ReachedUnfolds
<1> DEFINE S == {n \in 0..d : \A a \in after[n] : ProperAt(fn, a)}
<1>3. 0 \in S
  <2>1. ASSUME NEW a \in after[0] PROVE ProperAt(fn, a)
    <3>1. a[1] = 1 /\ a[2] \in Promise!Environments(fn)
      BY <1>2
    <3> QED  BY <1>1, <3>1, EnvironmentsAreProper DEF ProperAt
  <2> QED  BY <1>1, <2>1
<1>4. ASSUME NEW n \in 1..d, n - 1 \in S
      PROVE  n \in S
  <2>1. ASSUME NEW a \in after[n] PROVE ProperAt(fn, a)
    <3>1. PICK b \in after[n - 1] : a \in {b} \cup Promise!Steps(fn, b[1], b[2])
      BY <1>2
    <3>2. ProperAt(fn, b)
      BY <1>4
    <3>3. CASE a \in Promise!Steps(fn, b[1], b[2])
      BY <3>2, <3>3, StepsAreProper DEF ProperAt
    <3> QED  BY <3>1, <3>2, <3>3
  <2> QED  BY <1>1, <2>1
<1>5. 0..d \subseteq S
  <2> HIDE DEF S
  <2> QED  BY <1>1, <1>3, <1>4, CountUp
<1>6. d \in 0..d
  BY <1>1
<1> QED  BY <1>2, <1>5, <1>6

-----------------------------------------------------------------------------
(****************************************************************************)
(* What the tables say of the executions.                                   *)
(****************************************************************************)

Agrees(table, env) ==
  \A v \in DOMAIN table : table[v] # unknown => (table[v] = isnil) = (env[v] = None)

\* nilnessOf by a table that agrees with an execution is right.
LEMMA NilnessIsRight ==
  ASSUME NEW fn, WellFormed(fn), NEW env, Proper(fn, env), NEW table, Agrees(table, env),
         NEW v \in DOMAIN fn.intrinsic
  PROVE  /\ NilnessOf(fn, table, v) = isnil => env[v] = None
         /\ NilnessOf(fn, table, v) = isnonnil => env[v] # None
<1> DEFINE own(w) == IF fn.intrinsic[w] # unknown THEN fn.intrinsic[w]
                     ELSE IF w \in DOMAIN table THEN table[w] ELSE unknown
           Right(nilness, w) == /\ nilness = isnil => env[w] = None
                                /\ nilness = isnonnil => env[w] # None
<1>1. ASSUME NEW w \in DOMAIN fn.intrinsic PROVE Right(own(w), w)
  BY DEF WellFormed, Nilness, Proper, Agrees, isnil, isnonnil, unknown
<1>2. NilnessOf(fn, table, v)
        = IF fn.of[v] # None /\ own(fn.of[v]) # unknown THEN own(fn.of[v]) ELSE own(v)
  BY DEF NilnessOf
<1> HIDE DEF own
<1>3. CASE fn.of[v] # None
  <2>1. fn.of[v] \in DOMAIN fn.intrinsic /\ env[v] = env[fn.of[v]]
    BY <1>3 DEF WellFormed, Proper
  <2> QED  BY <1>1, <1>2, <2>1
<1>4. CASE fn.of[v] = None
  BY <1>1, <1>2, <1>4
<1> QED  BY <1>3, <1>4

\* The tables of a worklist are enough of the executions: those that reach a block
\* that returns agree with one of its tables, or with none if it was not entered.
TablesTell(fn, tables, entered) ==
  \A at \in Promise!Reached(fn) :
    at[1] \in Returns(fn) =>
      \E table \in IF at[1] \in entered THEN Range(tables[at[1]]) ELSE {NoTable} :
        Agrees(table, at[2])

\* deriveContracts: nonnil -> nonnil, if no table is a counterexample, holds of the
\* executions that the tables tell of.
LEMMA DerivedHolds ==
  ASSUME NEW fn, WellFormed(fn), NEW worklist, DeriveContracts(fn, worklist),
         TablesTell(fn, worklist.tables, worklist.entered)
  PROVE  Promise!Holds(fn)
<1> SUFFICES ASSUME NEW at \in Promise!Reached(fn),
                    fn.block[at[1]].ret # None, at[2][fn.param] # None
             PROVE  at[2][fn.block[at[1]].ret] # None
  BY DEF Promise!Holds
<1> DEFINE b == at[1]
           env == at[2]
           ret == fn.block[b].ret
           TablesOf(a) == IF a \in worklist.entered THEN Range(worklist.tables[a]) ELSE {NoTable}
           Choice(a, table) ==
             [block |-> a, param |-> NilnessOf(fn, table, fn.param),
              ret |-> NilnessOf(fn, table, fn.block[a].ret),
              same |-> fn.block[a].ret = fn.param, table |-> table]
           counterexample(c) ==
             /\ c.param # isnil /\ c.ret # isnonnil
             /\ ~(c.param = unknown /\ c.ret = unknown /\ c.same)
<1>1. ProperAt(fn, at)
  BY ReachedIsProper
<1>2. /\ b \in Returns(fn)
      /\ ret \in DOMAIN fn.intrinsic /\ fn.param \in DOMAIN fn.intrinsic
  BY <1>1 DEF ProperAt, WellFormed, Returns
<1>3. PICK table \in TablesOf(b) : Agrees(table, env)
  BY <1>2 DEF TablesTell
<1>4. ~counterexample(Choice(b, table))
  <2> DEFINE choicesAt(a) == {Choice(a, t) : t \in TablesOf(a)}
             choices == UNION {choicesAt(a) : a \in Returns(fn)}
  <2>1. \A c \in choices : ~counterexample(c)
    BY DEF DeriveContracts
  <2>2. Choice(b, table) \in choicesAt(b)
    BY <1>3
  <2>3. Choice(b, table) \in choices
    <3> HIDE DEF choicesAt
    <3> QED  BY <1>2, <2>2
  <2> HIDE DEF choices, Choice, counterexample
  <2> QED  BY <2>1, <2>3
<1>5. \/ NilnessOf(fn, table, fn.param) = isnil
      \/ NilnessOf(fn, table, ret) = isnonnil
      \/ ret = fn.param
  BY <1>4
<1>6. /\ NilnessOf(fn, table, fn.param) = isnil => env[fn.param] = None
      /\ NilnessOf(fn, table, ret) = isnonnil => env[ret] # None
  BY <1>1, <1>2, <1>3, NilnessIsRight DEF ProperAt
<1> QED  BY <1>5, <1>6

\* Before the worklist starts there is no table; whatever is derived then holds.
LEMMA DerivedAtOnceHolds ==
  ASSUME NEW fn, WellFormed(fn), DerivedAtOnce(fn)
  PROVE  Promise!Holds(fn)
<1>1. Start(fn).entered = {}
  BY DEF Start
<1>2. \A env : Agrees(NoTable, env)
  BY DEF Agrees, NoTable
<1>3. TablesTell(fn, Start(fn).tables, Start(fn).entered)
  BY <1>1, <1>2 DEF TablesTell
<1> QED  BY <1>3, DerivedHolds DEF DerivedAtOnce

\* So does what is derived when the worklist is empty, if its tables cover every
\* execution.
LEMMA ConcludedHolds ==
  ASSUME ExecutionsCovered, NEW i \in DOMAIN goroutine, WellFormed(Decl(i).fn),
         goroutine[i] = "inferring", Finished(work[i]), HasContract(Decl(i).fn, work[i])
  PROVE  Promise!Holds(Decl(i).fn)
<1> DEFINE fn == Decl(i).fn
<1>1. ~work[i].gaveUp /\ DeriveContracts(fn, work[i])
  BY DEF HasContract
<1>2. ASSUME NEW at \in Promise!Reached(fn), at[1] \in Returns(fn)
      PROVE  \E table \in IF at[1] \in work[i].entered THEN Range(work[i].tables[at[1]])
                          ELSE {NoTable} : Agrees(table, at[2])
  <2>1. CASE at[1] \in work[i].entered
    <3>1. \E table \in Range(work[i].tables[at[1]]) : Agrees(table, at[2])
      BY <1>1, <1>2, <2>1 DEF ExecutionsCovered, Agrees
    <3> QED  BY <2>1, <3>1
  <2>2. CASE at[1] \notin work[i].entered
    BY <2>2 DEF Agrees, NoTable
  <2> QED  BY <2>1, <2>2
<1>3. TablesTell(fn, work[i].tables, work[i].entered)
  BY <1>2 DEF TablesTell
<1> QED  BY <1>1, <1>3, DerivedHolds

-----------------------------------------------------------------------------
(****************************************************************************)
(* The inductive invariant.                                                 *)
(****************************************************************************)

GoroutineState == {"starting", "inferring", "sending", "returning", "ended"}

\* Where run and the goroutine that closes the channel are.
PhaseInv ==
  /\ source \in Source
  /\ main \in {"declarations", "outOfScope", "collecting", "returned"}
  /\ main = "outOfScope" => ~source.inScope
  /\ main \in {"declarations", "collecting"} => source.inScope
  /\ main # "returned" => result = None
  /\ main = "declarations" => closer = "unstarted"
  /\ main = "collecting" => visited = Len(source.decls)
  /\ closer = "ended" => \A i \in 1..Len(spawned) : goroutine[i] = "ended"

\* The goroutines are those of the inferable functions that the loop has passed.
SpawnedInv ==
  /\ visited \in 0..Len(source.decls)
  /\ spawned \in Seq(1..Len(source.decls))
  /\ goroutine \in Seq(GoroutineState)
  /\ Len(goroutine) = Len(spawned)
  /\ \A i \in 1..Len(spawned) : Decl(i).kind = "inferable"
  /\ \A n \in 1..visited :
       source.decls[n].kind = "inferable" => \E i \in 1..Len(spawned) : spawned[i] = n

\* The goroutines that have sent something, or ended without.
Done == {i \in 1..Len(spawned) : goroutine[i] \in {"returning", "ended"}}

\* A goroutine sends a panic or a contract that holds; the map has the names of
\* contracts written by hand and of what was received, err those of panics.
ContractsInv ==
  /\ \A i \in 1..Len(spawned) :
       /\ goroutine[i] = "sending" => Decl(i).panics \/ Promise!Holds(Decl(i).fn)
       /\ goroutine[i] = "inferring" => ~Decl(i).panics
  /\ \A n \in 1..visited :
       source.decls[n].kind = "handwritten" => source.decls[n].name \in contracts
  /\ \A name \in contracts :
       \/ \E n \in 1..visited :
            source.decls[n].kind = "handwritten" /\ source.decls[n].name = name
       \/ \E i \in Done :
            Decl(i).name = name /\ (Decl(i).panics \/ Promise!Holds(Decl(i).fn))
  /\ err = {Decl(i).name : i \in {j \in Done : Decl(j).panics}}

IInv == PhaseInv /\ SpawnedInv /\ ContractsInv

\* What a goroutine works on is a function in SSA form.
LEMMA DeclIsWellFormed ==
  ASSUME IInv, NEW i \in 1..Len(spawned)
  PROVE  /\ WellFormed(Decl(i).fn)
         /\ Decl(i) \in Range(source.decls)
         /\ Decl(i).panics \in BOOLEAN
<1>1. Decl(i) \in Range(source.decls)
  BY SourceAssumption DEF IInv, PhaseInv, SpawnedInv, Decl, Range
<1> QED  BY <1>1, SourceAssumption DEF IInv, PhaseInv, SpawnedInv

LEMMA GoroutineDomain ==
  IInv => /\ DOMAIN goroutine = 1..Len(spawned)
          /\ DOMAIN spawned = 1..Len(spawned)
          /\ Len(spawned) \in Nat
          /\ Len(source.decls) \in Nat
          /\ DOMAIN source.decls = 1..Len(source.decls)
BY SourceAssumption DEF IInv, PhaseInv, SpawnedInv

LEMMA InitIInv == Init => IInv
<1> SUFFICES ASSUME Init PROVE IInv
  OBVIOUS
<1>1. source \in Source /\ source.inScope \in BOOLEAN /\ Len(source.decls) \in Nat
  BY SourceAssumption DEF Init
<1>2. PhaseInv
  BY <1>1 DEF Init, PhaseInv
<1>3. SpawnedInv
  BY <1>1 DEF Init, SpawnedInv
<1>4. ContractsInv
  BY DEF Init, ContractsInv, Done
<1> QED  BY <1>2, <1>3, <1>4 DEF IInv

LEMMA PhaseStep ==
  ASSUME IInv, [Next]_vars
  PROVE  PhaseInv'
<1>0. /\ DOMAIN goroutine = 1..Len(spawned) /\ Len(spawned) \in Nat
      /\ Len(source.decls) \in Nat
  BY GoroutineDomain
<1> USE DEF IInv, PhaseInv
<1>1. CASE OutOfScope
  BY <1>1 DEF OutOfScope
<1>2. CASE Declaration
  BY <1>2 DEF Declaration
<1>3. CASE Collect
  BY <1>3 DEF Collect
<1>4. CASE \E i \in DOMAIN goroutine : Begin(i) \/ VisitBlock(i) \/ Conclude(i) \/ Return(i)
                                       \/ Receive(i)
  <2>1. PICK i \in DOMAIN goroutine : Begin(i) \/ VisitBlock(i) \/ Conclude(i) \/ Return(i)
                                      \/ Receive(i)
    BY <1>4
  <2>2. closer # "ended"
    BY <1>0, <2>1 DEF Begin, VisitBlock, Conclude, Return, Receive
  <2> QED  BY <2>1, <2>2 DEF Begin, VisitBlock, Conclude, Return, Receive
<1>5. CASE CloseChannel
  BY <1>0, <1>5 DEF CloseChannel
<1>6. CASE Finish
  BY <1>6 DEF Finish
<1>7. CASE UNCHANGED vars
  BY <1>7 DEF vars
<1> QED  BY <1>1, <1>2, <1>3, <1>4, <1>5, <1>6, <1>7 DEF Next, Main, Worker

LEMMA SpawnedStep ==
  ASSUME IInv, [Next]_vars
  PROVE  SpawnedInv'
<1>0. /\ DOMAIN goroutine = 1..Len(spawned) /\ Len(spawned) \in Nat
      /\ Len(source.decls) \in Nat
  BY GoroutineDomain
<1> USE DEF IInv, SpawnedInv
<1>1. CASE Declaration
  <2> DEFINE decl == source.decls[visited + 1]
  <2>1. visited' = visited + 1 /\ visited' \in 1..Len(source'.decls) /\ source' = source
    BY <1>0, <1>1 DEF Declaration
  <2>2. CASE decl.kind # "inferable"
    <3>1. UNCHANGED <<spawned, goroutine>>
      BY <1>1, <2>2 DEF Declaration
    <3>2. \A i \in 1..Len(spawned) : Decl(i)' = Decl(i)
      BY <2>1, <3>1 DEF Decl
    <3>3. \A n \in 1..visited' : n \in 1..visited \/ n = visited + 1
      BY <1>0, <2>1
    <3> QED  BY <2>1, <2>2, <3>1, <3>2, <3>3
  <2>3. CASE decl.kind = "inferable"
    <3>1. spawned' = Append(spawned, visited + 1) /\ goroutine' = Append(goroutine, "starting")
      BY <1>1, <2>3 DEF Declaration
    <3>2. /\ Len(spawned') = Len(spawned) + 1
          /\ \A i \in 1..Len(spawned) : spawned'[i] = spawned[i]
          /\ spawned'[Len(spawned) + 1] = visited + 1
          /\ spawned' \in Seq(1..Len(source.decls))
          /\ goroutine' \in Seq(GoroutineState)
          /\ Len(goroutine') = Len(spawned')
      BY <1>0, <2>1, <3>1 DEF GoroutineState
    <3>3. \A i \in 1..Len(spawned') : Decl(i)'.kind = "inferable"
      <4>1. \A i \in 1..Len(spawned') : i \in 1..Len(spawned) \/ i = Len(spawned) + 1
        BY <1>0, <3>2
      <4>2. \A i \in 1..Len(spawned) : source.decls[spawned[i]].kind = "inferable"
        BY DEF Decl
      <4>3. \A i \in 1..Len(spawned') : source.decls[spawned'[i]].kind = "inferable"
        BY <2>3, <3>2, <4>1, <4>2
      <4> QED  BY <2>1, <4>3 DEF Decl
    <3>4. ASSUME NEW n \in 1..visited', source.decls[n].kind = "inferable"
          PROVE  \E i \in 1..Len(spawned') : spawned'[i] = n
      <4>1. CASE n = visited + 1
        <5>1. Len(spawned) + 1 \in 1..Len(spawned')
          BY <1>0, <3>2
        <5> QED  BY <3>2, <4>1, <5>1
      <4>2. CASE n \in 1..visited
        <5>1. PICK i \in 1..Len(spawned) : spawned[i] = n
          BY <3>4, <4>2
        <5>2. i \in 1..Len(spawned')
          BY <1>0, <3>2
        <5> QED  BY <3>2, <5>1, <5>2
      <4> QED  BY <1>0, <2>1, <4>1, <4>2
    <3> QED  BY <2>1, <3>2, <3>3, <3>4
  <2> QED  BY <2>2, <2>3
<1>2. CASE \E i \in DOMAIN goroutine : Begin(i) \/ Conclude(i) \/ Return(i) \/ Receive(i)
  <2>1. PICK i \in DOMAIN goroutine : Begin(i) \/ Conclude(i) \/ Return(i) \/ Receive(i)
    BY <1>2
  <2>2. /\ UNCHANGED <<source, visited, spawned>>
        /\ \E g \in GoroutineState : goroutine' = [goroutine EXCEPT ![i] = g]
    BY <2>1 DEF Begin, Conclude, Return, Receive, GoroutineState
  <2>3. goroutine' \in Seq(GoroutineState) /\ Len(goroutine') = Len(goroutine)
    BY <2>1, <2>2
  <2>4. \A j : Decl(j)' = Decl(j)
    BY <2>2 DEF Decl
  <2> QED  BY <2>2, <2>3, <2>4
<1>3. CASE UNCHANGED <<source, visited, spawned, goroutine>>
  <2>1. \A j : Decl(j)' = Decl(j)
    BY <1>3 DEF Decl
  <2> QED  BY <1>3, <2>1
<1>4. \/ Declaration
      \/ \E i \in DOMAIN goroutine : Begin(i) \/ Conclude(i) \/ Return(i) \/ Receive(i)
      \/ UNCHANGED <<source, visited, spawned, goroutine>>
  BY DEF Next, Main, Worker, OutOfScope, Collect, VisitBlock, CloseChannel, Finish, vars
<1> QED  BY <1>1, <1>2, <1>3, <1>4

LEMMA ContractsStep ==
  ASSUME IInv, ExecutionsCovered, [Next]_vars
  PROVE  ContractsInv'
<1>0. /\ DOMAIN goroutine = 1..Len(spawned) /\ Len(spawned) \in Nat
      /\ Len(source.decls) \in Nat
  BY GoroutineDomain
<1> DEFINE Sound(d) == d.panics \/ Promise!Holds(d.fn)
<1>1. CASE Declaration
  <2> DEFINE decl == source.decls[visited + 1]
  <2>1. /\ visited' = visited + 1 /\ visited \in Nat
        /\ UNCHANGED <<source, err>>
        /\ contracts' = IF decl.kind = "handwritten" THEN contracts \cup {decl.name} ELSE contracts
        /\ \/ UNCHANGED <<spawned, goroutine>>
           \/ spawned' = Append(spawned, visited + 1) /\ goroutine' = Append(goroutine, "starting")
    BY <1>1 DEF Declaration, IInv, SpawnedInv
  <2>2. /\ 1..Len(spawned) \subseteq 1..Len(spawned')
        /\ \A i \in 1..Len(spawned) : Decl(i)' = Decl(i) /\ goroutine'[i] = goroutine[i]
        /\ \A i \in 1..Len(spawned') : i \in 1..Len(spawned) \/ goroutine'[i] = "starting"
    BY <1>0, <2>1 DEF Decl, IInv, SpawnedInv
  <2>3. Done' = Done
    BY <2>2 DEF Done
  <2>4. /\ err' = {Decl(i)'.name : i \in {j \in Done' : Decl(j)'.panics}}
        /\ \A i \in Done : Decl(i)' = Decl(i)
    <3>1. \A i \in Done : Decl(i)' = Decl(i)
      BY <2>2 DEF Done
    <3> QED  BY <2>1, <2>3, <3>1 DEF IInv, ContractsInv
  <2>5. \A i \in 1..Len(spawned') :
          /\ goroutine'[i] = "sending" => Sound(Decl(i)')
          /\ goroutine'[i] = "inferring" => ~Decl(i)'.panics
    BY <2>2 DEF IInv, ContractsInv
  <2>6. 1..visited' = 1..visited \cup {visited + 1}
    BY <2>1
  <2>7. \A n \in 1..visited' :
          source'.decls[n].kind = "handwritten" => source'.decls[n].name \in contracts'
    BY <2>1, <2>6 DEF IInv, ContractsInv
  <2>8. ASSUME NEW name \in contracts'
        PROVE  \/ \E n \in 1..visited' :
                    source'.decls[n].kind = "handwritten" /\ source'.decls[n].name = name
               \/ \E i \in Done' : Decl(i)'.name = name /\ Sound(Decl(i)')
    <3>1. CASE name \in contracts
      BY <2>1, <2>3, <2>4, <2>6, <3>1 DEF IInv, ContractsInv
    <3>2. CASE name \notin contracts
      BY <2>1, <2>6, <3>2
    <3> QED  BY <3>1, <3>2
  <2> QED  BY <2>4, <2>5, <2>7, <2>8 DEF ContractsInv
<1>2. ASSUME NEW i \in DOMAIN goroutine,
             Begin(i) \/ Conclude(i) \/ Return(i) \/ Receive(i)
      PROVE  ContractsInv'
  <2>1. /\ UNCHANGED <<source, visited, spawned>>
        /\ \A j : Decl(j)' = Decl(j)
        /\ i \in 1..Len(spawned)
    BY <1>0, <1>2 DEF Begin, Conclude, Return, Receive, Decl
  <2>2. WellFormed(Decl(i).fn) /\ Decl(i).panics \in BOOLEAN
    BY <2>1, DeclIsWellFormed
  <2>3. \A j \in 1..Len(spawned) : j # i => goroutine'[j] = goroutine[j]
    BY <1>0, <1>2 DEF Begin, Conclude, Return, Receive
  <2>4. CASE Begin(i)
    <3>1. goroutine'[i] = "sending" => Sound(Decl(i))
      BY <2>2, <2>4, DerivedAtOnceHolds DEF Begin
    <3>2. goroutine'[i] = "inferring" => ~Decl(i).panics
      BY <1>0, <2>4 DEF Begin
    <3>3. Done' = Done /\ UNCHANGED <<contracts, err>>
      BY <1>0, <2>1, <2>3, <2>4 DEF Begin, Done
    <3> QED  BY <2>1, <2>3, <3>1, <3>2, <3>3 DEF IInv, ContractsInv
  <2>5. CASE Conclude(i)
    <3>1. goroutine'[i] = "sending" => Sound(Decl(i))
      BY <1>0, <2>2, <2>5, ConcludedHolds DEF Conclude
    <3>2. goroutine'[i] \in {"sending", "ended"} /\ ~Decl(i).panics
      BY <1>0, <2>1, <2>5 DEF Conclude, IInv, ContractsInv
    <3>3. /\ Done \subseteq Done' /\ Done' \subseteq Done \cup {i}
          /\ UNCHANGED <<contracts, err>>
      BY <1>0, <2>1, <2>3, <2>5 DEF Conclude, Done
    <3>4. {j \in Done' : Decl(j)'.panics} = {j \in Done : Decl(j).panics}
      BY <2>1, <3>2, <3>3
    <3> QED  BY <2>1, <2>3, <3>1, <3>2, <3>3, <3>4 DEF IInv, ContractsInv
  <2>6. CASE Return(i)
    <3>1. goroutine'[i] = "ended"
      BY <1>0, <2>6 DEF Return
    <3>2. Done' = Done /\ UNCHANGED <<contracts, err>>
      BY <1>0, <2>1, <2>3, <2>6 DEF Return, Done
    <3> QED  BY <2>1, <2>3, <3>1, <3>2 DEF IInv, ContractsInv
  <2>7. CASE Receive(i)
    <3>1. goroutine'[i] = "returning" /\ Sound(Decl(i)) /\ i \notin Done
      BY <1>0, <2>1, <2>7 DEF Receive, IInv, ContractsInv, Done
    <3>2. Done' = Done \cup {i}
      BY <2>1, <2>3, <3>1 DEF Done
    <3>3. /\ contracts' = contracts \cup {Decl(i).name}
          /\ err' = IF Decl(i).panics THEN err \cup {Decl(i).name} ELSE err
      BY <2>7 DEF Receive
    <3>4. err' = {Decl(j)'.name : j \in {k \in Done' : Decl(k)'.panics}}
      BY <2>1, <3>2, <3>3 DEF IInv, ContractsInv
    <3>5. ASSUME NEW name \in contracts'
          PROVE  \/ \E n \in 1..visited' :
                      source'.decls[n].kind = "handwritten" /\ source'.decls[n].name = name
                 \/ \E j \in Done' : Decl(j)'.name = name /\ Sound(Decl(j)')
      BY <2>1, <3>1, <3>2, <3>3 DEF IInv, ContractsInv
    <3>6. \A j \in 1..Len(spawned') :
            /\ goroutine'[j] = "sending" => Sound(Decl(j)')
            /\ goroutine'[j] = "inferring" => ~Decl(j)'.panics
      BY <2>1, <2>3, <3>1 DEF IInv, ContractsInv
    <3>7. \A n \in 1..visited' :
            source'.decls[n].kind = "handwritten" => source'.decls[n].name \in contracts'
      BY <2>1, <3>3 DEF IInv, ContractsInv
    <3> QED  BY <3>4, <3>5, <3>6, <3>7 DEF ContractsInv
  <2> QED  BY <1>2, <2>4, <2>5, <2>6, <2>7
<1>3. CASE UNCHANGED <<source, visited, spawned, goroutine, contracts, err>>
  <2>1. (\A j : Decl(j)' = Decl(j)) /\ Done' = Done
    BY <1>3 DEF Decl, Done
  <2> QED  BY <1>3, <2>1 DEF IInv, ContractsInv
<1>4. \/ Declaration
      \/ \E i \in DOMAIN goroutine : Begin(i) \/ Conclude(i) \/ Return(i) \/ Receive(i)
      \/ UNCHANGED <<source, visited, spawned, goroutine, contracts, err>>
  BY DEF Next, Main, Worker, OutOfScope, Collect, VisitBlock, CloseChannel, Finish, vars
<1> QED  BY <1>1, <1>2, <1>3, <1>4

\* Every state of a pool whose tables cover the executions is one the invariant
\* describes.
LEMMA IInvHolds == Spec /\ []ExecutionsCovered => []IInv
<1>1. IInv /\ ExecutionsCovered /\ [Next]_vars => IInv'
  BY PhaseStep, SpawnedStep, ContractsStep DEF IInv
<1> QED  BY <1>1, InitIInv, PTL DEF Spec

-----------------------------------------------------------------------------
(****************************************************************************)
(* The refinement.                                                          *)
(****************************************************************************)

\* When the channel is closed, every inferable function has been decided: the map
\* has the contracts written by hand and some that hold; err has all panics.
LEMMA AllCollected ==
  ASSUME IInv, Finish
  PROVE  /\ err = Promise!Names({d \in Promise!Declarations("inferable") : d.panics})
         /\ (err = {}) <=> ~\E d \in Promise!Declarations("inferable") : d.panics
         /\ err = {} =>
              \E inferred \in SUBSET {d \in Promise!Declarations("inferable") :
                                        Promise!Holds(d.fn)} :
                contracts = Promise!Names(Promise!Declarations("handwritten") \cup inferred)
<1>1. /\ DOMAIN goroutine = 1..Len(spawned) /\ Len(spawned) \in Nat
      /\ Len(source.decls) \in Nat /\ DOMAIN source.decls = 1..Len(source.decls)
      /\ visited = Len(source.decls)
      /\ \A i \in 1..Len(spawned) : goroutine[i] = "ended"
  BY GoroutineDomain DEF IInv, PhaseInv, Finish
<1>2. Done = 1..Len(spawned)
  BY <1>1 DEF Done
<1>3. \A i \in 1..Len(spawned) : Decl(i) \in Promise!Declarations("inferable")
  BY DeclIsWellFormed DEF IInv, SpawnedInv, Promise!Declarations, Promise!Range, Range
<1>4. \A kind : \A d \in Promise!Declarations(kind) :
        d.kind = kind /\ \E n \in 1..visited : source.decls[n] = d
  BY <1>1 DEF Promise!Declarations, Promise!Range
<1>5. \A d \in Promise!Declarations("inferable") : \E i \in Done : Decl(i) = d
  BY <1>2, <1>4 DEF IInv, SpawnedInv, Decl
<1>6. \A n \in 1..visited : source.decls[n] \in Promise!Declarations(source.decls[n].kind)
  BY <1>1 DEF Promise!Declarations, Promise!Range
<1>7. err = {Decl(i).name : i \in {j \in Done : Decl(j).panics}}
  BY DEF IInv, ContractsInv
<1> DEFINE Inferable == Promise!Declarations("inferable")
           Handwritten == Promise!Declarations("handwritten")
           Inferred == {d \in Inferable : Promise!Holds(d.fn) /\ d.name \in contracts}
<1>8. err = {d.name : d \in {e \in Inferable : e.panics}}
  <2> HIDE DEF Inferable
  <2> QED  BY <1>2, <1>3, <1>5, <1>7 DEF Inferable
<1>9. err = {} <=> ~\E d \in Inferable : d.panics
  <2> HIDE DEF Inferable
  <2> QED  BY <1>8
<1>10. ASSUME err = {} PROVE contracts = {d.name : d \in Handwritten \cup Inferred}
  <2>1. ASSUME NEW name \in contracts
        PROVE  \E d \in Handwritten \cup Inferred : d.name = name
    <3>1. CASE \E n \in 1..visited :
                 source.decls[n].kind = "handwritten" /\ source.decls[n].name = name
      BY <1>6, <3>1
    <3>2. CASE \E i \in Done : Decl(i).name = name
                               /\ (Decl(i).panics \/ Promise!Holds(Decl(i).fn))
      <4>1. PICK i \in Done : Decl(i).name = name
                              /\ (Decl(i).panics \/ Promise!Holds(Decl(i).fn))
        BY <3>2
      <4>2. Decl(i) \in Inferable
        BY <1>2, <1>3
      <4>3. ~Decl(i).panics
        BY <1>9, <1>10, <4>2
      <4> QED  BY <2>1, <4>1, <4>2, <4>3
    <3> QED  BY <2>1, <3>1, <3>2 DEF IInv, ContractsInv
  <2>2. ASSUME NEW d \in Handwritten \cup Inferred PROVE d.name \in contracts
    BY <1>4, <2>2 DEF IInv, ContractsInv
  <2> HIDE DEF Handwritten, Inferred
  <2> QED  BY <2>1, <2>2
<1>11. err = {} => /\ Inferred \in SUBSET {d \in Inferable : Promise!Holds(d.fn)}
                   /\ contracts = Promise!Names(Handwritten \cup Inferred)
  BY <1>10 DEF Promise!Names
<1> HIDE DEF Inferred
<1> QED  BY <1>8, <1>9, <1>11 DEF Promise!Names

\* What run returns at its end is a result that the promise allows.
LEMMA FinishIsReturn == IInv /\ Finish => Promise!Return
<1> SUFFICES ASSUME IInv, Finish PROVE Promise!Return
  OBVIOUS
<1>1. result = None /\ UNCHANGED source /\ source.inScope
  BY DEF IInv, PhaseInv, Finish
<1>2. result' \in Promise!Results
  <2>1. CASE err # {}
    <3>1. result' = [contracts |-> {}, err |-> err, facts |-> {}]
      BY <2>1 DEF Finish
    <3> QED  BY <1>1, <2>1, <3>1, AllCollected DEF Promise!Results
  <2>2. CASE err = {}
    <3> DEFINE Exported == Promise!Names({d \in Promise!Range(source.decls) : d.exported})
               Facts == {d.name : d \in {e \in Range(source.decls) :
                                           e.exported /\ e.name \in contracts}}
               Out(own) == [contracts |-> own \cup source.upstream, err |-> {},
                            facts |-> own \cap Exported]
               Inferences == SUBSET {d \in Promise!Declarations("inferable") :
                                       Promise!Holds(d.fn)}
               Owns == {Promise!Names(Promise!Declarations("handwritten") \cup inferred) :
                          inferred \in Inferences}
    <3>1. result' = [contracts |-> contracts \cup source.upstream, err |-> {}, facts |-> Facts]
      BY <2>2 DEF Finish
    <3>2. Facts = contracts \cap Exported
      BY DEF Promise!Names, Promise!Range, Range
    <3>3. contracts \in Owns
      BY <2>2, AllCollected
    <3>4. Promise!Results = {Out(own) : own \in Owns}
      BY <1>1, <2>2, AllCollected DEF Promise!Results
    <3> HIDE DEF Owns, Facts, Exported
    <3>5. result' = Out(contracts)
      BY <3>1, <3>2
    <3> QED  BY <3>3, <3>4, <3>5
  <2> QED  BY <2>1, <2>2
<1> QED  BY <1>1, <1>2 DEF Promise!Return

\* A package that is out of scope has the empty result; every other step leaves
\* the package and the result alone.
LEMMA StepsRefine == IInv /\ [Next]_vars => [Promise!Return]_(Promise!promiseVars)
<1> SUFFICES ASSUME IInv, [Next]_vars PROVE [Promise!Return]_(Promise!promiseVars)
  OBVIOUS
<1>1. CASE Finish
  BY <1>1, FinishIsReturn
<1>2. CASE OutOfScope
  BY <1>2 DEF OutOfScope, IInv, PhaseInv, Promise!Return, Promise!Results
<1>3. CASE ~Finish /\ ~OutOfScope
  BY <1>3 DEF Next, Main, Worker, Declaration, Collect, Begin, VisitBlock, Conclude, Receive,
              Return, CloseChannel, vars, Promise!promiseVars
<1> QED  BY <1>1, <1>2, <1>3

\* The promise of the analyzer of contracts (analyzer.go:59-113): if the tables of
\* every worklist cover the executions of its function, then whatever the order in
\* which goroutines run and send, no contract that is written is lost, none that is
\* inferred is broken by an execution, and a panic is an error and not a contract.
THEOREM ContractsKeepPromise == Spec /\ []ExecutionsCovered => KeepsPromise
<1>1. Init => Promise!PromiseInit
  BY DEF Init, Promise!PromiseInit
<1>2. IInv /\ [Next]_vars => [Promise!Return]_(Promise!promiseVars)
  BY StepsRefine
<1> QED  BY <1>1, <1>2, IInvHolds, PTL DEF Spec, KeepsPromise, Promise!PromiseSpec

=============================================================================
