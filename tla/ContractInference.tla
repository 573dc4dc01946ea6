---------------------------- MODULE ContractInference ----------------------------
(****************************************************************************)
(* The inference of the contract nonnil -> nonnil of one function           *)
(* (assertion/function/functioncontracts/infer.go): a worklist over the     *)
(* basic blocks of its SSA form keeps, for every block, the tables of       *)
(* nilness with which the block can be reached.                             *)
(****************************************************************************)
EXTENDS Integers, Sequences, FiniteSets, SequencesExt, Functions

CONSTANTS
  MaxNumTablesPerBlock,  \* _maxNumTablesPerBlock
  None                   \* no value, no branch

ASSUME TablesAssumption == MaxNumTablesPerBlock \in Nat \ {0}

isnonnil == -1
unknown == 0
isnil == 1
Nilness == {isnonnil, unknown, isnil}

(****************************************************************************)
(* A function is a record:                                                  *)
(*   param      its parameter;                                              *)
(*   intrinsic  the nilness that each value has in itself (unknown if none);*)
(*   of         the value that a value converts (ChangeInterface,           *)
(*              MakeInterface, append of nothing), or None; a chain of      *)
(*              conversions counts as one, and a slice, or a slice as a     *)
(*              pointer to an array, is a value of its own;                 *)
(*   block      its basic blocks, block 1 being the entry.  Each has its    *)
(*              phis, in order, as <<value, the operand by predecessor>>,   *)
(*              its successors, the comparison of its If instruction, if it *)
(*              compares values that can be nil, and the value of its       *)
(*              Return instruction, if it has one.                          *)
(* A table is a function from the values whose nilness was learned.         *)
(****************************************************************************)
Blocks(fn) == DOMAIN fn.block
Preds(fn, b) == {a \in Blocks(fn) : b \in Range(fn.block[a].succs)}
Returns(fn) == {b \in Blocks(fn) : fn.block[b].succs = <<>> /\ fn.block[b].ret # None}

NoTable == [v \in {} |-> unknown]

\* nilnessOf: the value that is converted first, then the value itself.
NilnessOf(fn, table, v) ==
  LET own(w) == IF fn.intrinsic[w] # unknown THEN fn.intrinsic[w]
                ELSE IF w \in DOMAIN table THEN table[w] ELSE unknown
  IN  IF fn.of[v] # None /\ own(fn.of[v]) # unknown THEN own(fn.of[v]) ELSE own(v)

\* expandNilness: learn the nilness of v and of what it converts; a value that is
\* in the table already keeps its nilness and ends the expansion.
ExpandNilness(fn, table, v, nilness) ==
  LET new == CASE v \in DOMAIN table -> {}
               [] v \notin DOMAIN table /\ fn.of[v] = None -> {v}
               [] OTHER -> {v} \cup ({fn.of[v]} \ DOMAIN table)
  IN  [w \in DOMAIN table \cup new |-> IF w \in new THEN nilness ELSE table[w]]

\* addAll: what was learned replaces what the table has.
AddAll(table, learned) ==
  [w \in DOMAIN table \cup DOMAIN learned |->
     IF w \in DOMAIN learned THEN learned[w] ELSE table[w]]

\* equals, of a table of the set and another one: the other one is read with the
\* default of the map, which is unknown, so that an explicit unknown equals a hole.
TableEquals(table, other) ==
  /\ Cardinality(DOMAIN table) = Cardinality(DOMAIN other)
  /\ \A v \in DOMAIN table : table[v] = IF v \in DOMAIN other THEN other[v] ELSE unknown

\* add: whether the set has the table already, and the set with it.
IsKnown(tables, table) == \E k \in DOMAIN tables : TableEquals(tables[k], table)
Add(tables, table) == IF IsKnown(tables, table) THEN tables ELSE Append(tables, table)

\* Mutant: the successors of == and != are confused.
LearnNilnessSwapped(fn, succ, pred, table) ==
  LET if == fn.block[pred].branch
  IN  IF if = None THEN [ok |-> TRUE, table |-> NoTable]
      ELSE
        LET equal == (succ = fn.block[pred].succs[1]) = (if.op = "!=")
            x == NilnessOf(fn, table, if.x)
            y == NilnessOf(fn, table, if.y)
            learned(v, other) ==
              ExpandNilness(fn, NoTable, v, IF equal THEN other ELSE -other)
        IN  CASE x # unknown /\ y # unknown -> [ok |-> (x = y) = equal, table |-> NoTable]
              [] y = unknown -> [ok |-> TRUE, table |-> learned(if.y, x)]
              [] OTHER -> [ok |-> TRUE, table |-> learned(if.x, y)]

\* branch and learnNilness: what the step from pred to succ tells about the
\* operands of the comparison, or that the table excludes the step.
LearnNilness(fn, succ, pred, table) ==
  LET if == fn.block[pred].branch
  IN  IF if = None THEN [ok |-> TRUE, table |-> NoTable]
      ELSE
        LET equal == (succ = fn.block[pred].succs[1]) = (if.op = "==")
            x == NilnessOf(fn, table, if.x)
            y == NilnessOf(fn, table, if.y)
            learned(v, other) ==
              ExpandNilness(fn, NoTable, v, IF equal THEN other ELSE -other)
        IN  CASE x # unknown /\ y # unknown -> [ok |-> (x = y) = equal, table |-> NoTable]
              [] y = unknown -> [ok |-> TRUE, table |-> learned(if.y, x)]
              [] OTHER -> [ok |-> TRUE, table |-> learned(if.x, y)]

\* The tables with which pred leaves for block b.
TablesFrom(fn, tables, pred, b) ==
  LET source == IF tables[pred] = <<>> THEN <<NoTable>> ELSE tables[pred]
      step(acc, table) ==
        LET learned == LearnNilness(fn, b, pred, table)
        IN  IF learned.ok THEN Add(acc, AddAll(table, learned.table)) ELSE acc
  IN  FoldLeft(step, <<>>, source)

\* The phis of b give their value the nilness of the operand for pred.
TransferPhis(fn, table, pred, b) ==
  FoldLeft(LAMBDA acc, phi :
             LET nilness == NilnessOf(fn, acc, phi[2][pred])
             IN  IF nilness = unknown THEN acc
                 ELSE ExpandNilness(fn, acc, phi[1], nilness),
           table, fn.block[b].phis)

-----------------------------------------------------------------------------
\* The state of the worklist: the queue of blocks, the blocks seen, the tables.
\* A block that was never dequeued has no entry in nilnessTableSetByBB.
Start(fn) ==
  [queue |-> <<1>>, seen |-> {}, tables |-> [b \in Blocks(fn) |-> <<>>],
   entered |-> {}, gaveUp |-> FALSE]

\* The tables that reach b from the predecessors seen, in one order of the map
\* nilnessTablesUnderPred.
Arriving(fn, work, b, order) ==
  FlattenSeq([o \in DOMAIN order |->
    LET from == TablesFrom(fn, work.tables, order[o], b)
    IN  [k \in DOMAIN from |-> TransferPhis(fn, from[k], order[o], b)]])

\* Only the last table added decides whether the block counts as updated.
Save(tables, arriving) ==
  FoldLeft(LAMBDA acc, table :
             IF DOMAIN table = {} THEN acc
             ELSE [tables |-> Add(acc.tables, table),
                   isUpdated |-> ~IsKnown(acc.tables, table)],
           [tables |-> tables, isUpdated |-> FALSE], arriving)

\* Mutant: the successors of a block are queued whenever it is visited.
DequeueAlways(fn, work, saved) ==
  LET b == Head(work.queue)
  IN  [work EXCEPT !.queue = Tail(@) \o fn.block[b].succs, !.tables[b] = saved.tables,
                   !.entered = @ \cup {b}, !.seen = @ \cup {b}]

\* The end of an iteration, with what has been saved for the first block of the
\* queue: its successors are queued unless it was seen and nothing is new; too many
\* tables end the inference.
Dequeue(fn, work, saved) ==
  LET b == Head(work.queue)
      rest == [work EXCEPT !.queue = Tail(@),
                           !.tables[b] = saved.tables,
                           !.entered = @ \cup {b}]
  IN  IF b \in work.seen /\ ~saved.isUpdated THEN rest
      ELSE IF Len(saved.tables) >= MaxNumTablesPerBlock
      THEN [rest EXCEPT !.queue = <<>>, !.seen = @ \cup {b}, !.gaveUp = TRUE]
      ELSE [rest EXCEPT !.queue = @ \o fn.block[b].succs, !.seen = @ \cup {b}]

\* What one iteration of the loop over the queue may make of the state: the map of
\* the predecessors is visited in any order.
Visits(fn, work) ==
  LET b == Head(work.queue)
      orders == SetToSeqs(Preds(fn, b) \cap work.seen)
      arrivals == {Arriving(fn, work, b, order) : order \in orders}
  IN  {Dequeue(fn, work, saved) :
         saved \in {Save(work.tables[b], arriving) : arriving \in arrivals}}

\* deriveContracts: whether nonnil -> nonnil holds at every return, by the tables.
DeriveContracts(fn, work) ==
  LET choices ==
        UNION {LET tables == IF b \in work.entered THEN Range(work.tables[b]) ELSE {NoTable}
               IN  {[block |-> b, param |-> NilnessOf(fn, table, fn.param),
                     ret |-> NilnessOf(fn, table, fn.block[b].ret),
                     same |-> fn.block[b].ret = fn.param, table |-> table] : table \in tables}
               : b \in Returns(fn)}
      counterexample(c) ==
        /\ c.param # isnil /\ c.ret # isnonnil
        /\ ~(c.param = unknown /\ c.ret = unknown /\ c.same)
  IN  /\ \A c \in choices : ~counterexample(c)
      /\ \E c \in choices : c.param # isnil
      /\ \E c \in choices : c.ret # isnonnil

\* The shortcut before the loop: no table is known yet.
DerivedAtOnce(fn) == DeriveContracts(fn, Start(fn))

\* Whether the loop is over, and what inferContracts returns then.
Finished(work) == work.queue = <<>>
\* Mutant: what was found before giving up is used.
HasContractAnyway(fn, work) == DeriveContracts(fn, work)
HasContract(fn, work) == ~work.gaveUp /\ DeriveContracts(fn, work)
=============================================================================
