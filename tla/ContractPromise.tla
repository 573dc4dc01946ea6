----------------------------- MODULE ContractPromise -----------------------------
(****************************************************************************)
(* What the analyzer of function contracts (assertion/function/             *)
(* functioncontracts) promises to those who use its map: every contract     *)
(* written by hand or upstream is there, and one that is not written holds  *)
(* of the function, in whatever order its goroutines and maps are visited.  *)
(****************************************************************************)
EXTENDS Naturals, Sequences, Functions

CONSTANTS
  Source,  \* the packages that may be analysed
  None

VARIABLES
  source,  \* the package; never changes
  result   \* what run returns; None before

promiseVars == <<source, result>>

-----------------------------------------------------------------------------
(****************************************************************************)
(* The executions of a function in SSA form (the record is described in     *)
(* ContractInference).  Pointers are nil, the argument, or something made   *)
(* by the function; a value of its own, as the result of a call, is any.    *)
(****************************************************************************)
Pointer == {None, "argument", "made"}

Phis(fn) == {phi[1] : phi \in UNION {Range(fn.block[b].phis) : b \in DOMAIN fn.block}}

Environments(fn) ==
  LET value == DOMAIN fn.intrinsic
      fits(v, pointer) ==
        /\ fn.intrinsic[v] = 1 => pointer = None
        /\ fn.intrinsic[v] = -1 => pointer # None
        /\ v = fn.param => pointer # "made"
        /\ v \in Phis(fn) => pointer = None
      free == {v \in value : fn.of[v] = None}
  IN  {[v \in value |-> IF v \in free THEN env[v] ELSE env[fn.of[v]]] :
         env \in {e \in [free -> Pointer] : \A v \in free : fits(v, e[v])}}

\* The step from block b to its k-th successor, where the phis take their values;
\* a value that converts a phi follows it.
Enters(fn, b, env, k) ==
  LET succ == fn.block[b].succs[k]
      phi(v) == {p \in Range(fn.block[succ].phis) : p[1] = v}
      own(v) == IF phi(v) = {} THEN env[v] ELSE env[(CHOOSE p \in phi(v) : TRUE)[2][b]]
  IN  <<succ, [v \in DOMAIN env |-> IF fn.of[v] = None THEN own(v) ELSE own(fn.of[v])]>>

Steps(fn, b, env) ==
  LET if == fn.block[b].branch
      taken(k) == if # None => ((env[if.x] = env[if.y]) = (if.op = "==")) = (k = 1)
  IN  {Enters(fn, b, env, k) : k \in {j \in DOMAIN fn.block[b].succs : taken(j)}}

\* Where the function can be after its first steps, which are enough for two
\* rounds of a loop.
Reached(fn) ==
  LET after[n \in 0..Len(fn.block) + 2] ==
        IF n = 0 THEN {1} \X Environments(fn)
        ELSE UNION {{at} \cup Steps(fn, at[1], at[2]) : at \in after[n - 1]}
  IN  after[Len(fn.block) + 2]

\* nonnil -> nonnil: if the argument is not nil, neither is the value returned.
Holds(fn) ==
  \A at \in Reached(fn) :
    LET ret == fn.block[at[1]].ret
    IN  ret # None /\ at[2][fn.param] # None => at[2][ret] # None

-----------------------------------------------------------------------------
Declarations(kind) == {d \in Range(source.decls) : d.kind = kind}
Names(decls) == {d.name : d \in decls}

\* What run may return: the contracts with the functions that have them, an error
\* if the inference of some function panics, and the facts for downstream.
Results ==
  IF ~source.inScope THEN {[contracts |-> {}, err |-> {}, facts |-> {}]}
  ELSE IF \E d \in Declarations("inferable") : d.panics
  THEN {[contracts |-> {}, err |-> Names({d \in Declarations("inferable") : d.panics}),
         facts |-> {}]}
  ELSE {[contracts |-> own \cup source.upstream, err |-> {},
         facts |-> own \cap Names({d \in Range(source.decls) : d.exported})] :
          own \in {Names(Declarations("handwritten") \cup inferred) :
                     inferred \in SUBSET {d \in Declarations("inferable") : Holds(d.fn)}}}

PromiseInit == source \in Source /\ result = None

Return == result = None /\ result' \in Results /\ UNCHANGED source

PromiseSpec == PromiseInit /\ [][Return]_promiseVars
=============================================================================
