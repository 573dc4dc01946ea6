--------------------------- MODULE FunctionExecution ---------------------------
(****************************************************************************)
(* What the functions of module Backpropagation do when they are executed:  *)
(* the reference that the result of BackpropAcrossFunc is compared with.    *)
(*                                                                          *)
(* An environment maps every path to its value.  A value is named by the    *)
(* producer it comes from; it also carries the nonces of the checks made on *)
(* it since.  Conditions are not evaluated: both branches may be taken, as  *)
(* the analysis assumes.                                                    *)
(****************************************************************************)
EXTENDS Backpropagation, FiniteSets

Value(producer) == [producer |-> producer, checks |-> {}]

InitialEnvironment(f) == [p \in f.paths |-> Value(Default[Last(p)])]

\* The value of an expression below the ones that are tracked is its default.
Read(env, path) == IF path \in DOMAIN env THEN env[path] ELSE Value(Default[Last(path)])

\* All operands are evaluated first, and the left-hand sides are assigned from
\* left to right; a field is assigned in the object that its variable had before.
Assigned(env, pairs) ==
  LET Whole(p) == {i \in DOMAIN pairs : pairs[i].lhs = <<p[1]>>}
      Field(p) == {i \in DOMAIN pairs : pairs[i].lhs = p}
      Last_(s) == CHOOSE i \in s : \A j \in s : j <= i
      By(i, p) ==
        IF pairs[i].rhs # <<>>
        THEN Read(env, pairs[i].rhs \o SubSeq(p, Len(pairs[i].lhs) + 1, Len(p)))
        ELSE IF pairs[i].lhs = p THEN Value(pairs[i].producer)
        ELSE Value(Default[Last(p)])
  IN  [p \in DOMAIN env |-> IF Whole(p) # {} THEN By(Last_(Whole(p)), p)
                      ELSE IF Field(p) # {} THEN By(Last_(Field(p)), p)
                      ELSE env[p]]

\* A successful nil check tells of the value of this expression only.
LearnedBy(env, effect) ==
  IF effect.nonce = None THEN [env EXCEPT ![effect.path] = Value(Checked)]
  ELSE [env EXCEPT ![effect.path].checks = @ \cup {effect.nonce}]

\* A run of the statements of a block: the environment after it, and the values
\* that have reached a consumer.
Execute(run, node) ==
  IF node.kind = "use"
  THEN [run EXCEPT !.flows =
          @ \cup {[value |-> Read(run.env, node.path), consumer |-> node.consumer]}]
  ELSE [run EXCEPT !.env = Assigned(@, node.pairs)]

ExecuteBlock(f, b, env) ==
  IF b = Return(f) THEN [env |-> env, flows |-> {}]
  ELSE FoldLeft(Execute, [env |-> env, flows |-> {}], f.nodes[b])

\* The configurations that an execution may reach after this one.
After(f, config) ==
  LET env == ExecuteBlock(f, config.block, config.env).env
      succs == IF config.block = Return(f) THEN <<>> ELSE f.succs[config.block]
      learned(i) == FoldLeft(LearnedBy, env, IF i = 1 THEN f.ifTrue[config.block]
                                             ELSE f.ifFalse[config.block])
  IN  {[block |-> succs[i], env |-> learned(i)] : i \in DOMAIN succs}

RECURSIVE Reached(_, _, _)
Reached(f, configs, new) ==
  IF new = {} THEN configs
  ELSE LET after == UNION {After(f, c) : c \in new}
       IN  Reached(f, configs \cup new, after \ (configs \cup new))

\* The nil flows of the function: the values that may reach a consumer.
Flows(f) ==
  UNION {ExecuteBlock(f, c.block, c.env).flows :
           c \in Reached(f, {}, {[block |-> Entry, env |-> InitialEnvironment(f)]})}

\* The guard of a value is checked if the nonce of the call it comes from is.
IsChecked(f, value) ==
  \E b \in DOMAIN f.nodes : \E i \in DOMAIN f.nodes[b] :
    /\ f.nodes[b][i].kind = "assign" /\ f.nodes[b][i].nonce \in value.checks
    /\ f.nodes[b][i].pairs[1].producer = value.producer

Reports(trigger, f, flow) ==
  /\ trigger.producer = flow.value.producer /\ trigger.consumer = flow.consumer
  /\ flow.value.producer \in Guarded /\ ~IsChecked(f, flow.value) => trigger.guardMissing

-----------------------------------------------------------------------------
(****************************************************************************)
(* What BackpropAcrossFunc promises.                                        *)
(****************************************************************************)

\* When the rounds end, every value that some execution of the function brings
\* to a consumer has a full trigger; if it comes there without the check of its
\* guard, the trigger says so, also when other executions make the check.
EveryFlowFound ==
  Finished => \A flow \in Flows(function) :
                \E t \in Result : Reports(t, function, flow)

\* A full trigger stands for an execution: its value reaches the consumer, and
\* a missing guard really is missing there.
NoInventedFlow ==
  Finished =>
    \A t \in Result : \E flow \in Flows(function) :
      /\ t.producer = flow.value.producer /\ t.consumer = flow.consumer
      /\ t.guardMissing => ~IsChecked(function, flow.value)

\* checkCFGFixedPointRuntime (util.go:32): the rounds come to the bound at which the
\* analysis of the function is given up with a panic only where it has at least
\* as many variables, to be passed on one by one, as there may be rounds; no block that
\* has to be processed is left without an assertion tree.  The rounds also end for
\* a loop in which the trees of the blocks grow in every round.
NoInternalError ==
  /\ stage # "error"
  /\ stage = "panic" => Cardinality(function.paths) >= MaxRound

=============================================================================
