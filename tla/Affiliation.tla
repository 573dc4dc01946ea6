------------------------------ MODULE Affiliation ------------------------------
(****************************************************************************)
(* The affiliations between interfaces and the types that implement them    *)
(* (assertion/affiliation): every place where a value of a named type is    *)
(* converted to an interface relates the methods of the two, a nil result   *)
(* of the implementation being one of the interface, and a nil argument of  *)
(* the interface being one of the implementation.  A pair that was met      *)
(* before, in this package or in one that it imports, is skipped; what was  *)
(* met travels between packages as a fact.                                  *)
(*                                                                          *)
(* A pointer to a named type has the name of the type.  A type without a    *)
(* name has no methods here.                                                *)
(****************************************************************************)
EXTENDS Naturals, SequencesExt

CONSTANTS
  Interface,   \* the interfaces, named or not
  MethodSet,   \* for each named type and each interface its methods, in the order of go/types
  Arity,       \* the numbers of parameters and of results of the methods of a name
  ScopeOf      \* whether the package of a type is in scope

ASSUME MethodSetAssumption ==
  /\ Interface \subseteq DOMAIN MethodSet
  /\ \A t \in DOMAIN MethodSet : \A i, j \in DOMAIN MethodSet[t] : MethodSet[t][i].name = MethodSet[t][j].name => i = j

-----------------------------------------------------------------------------
(* The places of conversion. *)

\* The conversions of a syntax node, each to a type and from one; fields are the
\* entries of the result list of the function.
CastingSites(node, fields) ==
  CASE node.n = "assign" -> Zip(node.lhs, node.rhs)                            \* also from a tuple
    [] node.n = "struct" -> Zip(node.fields, node.elts)
    [] node.n \in {"spec", "append", "list"} -> [i \in DOMAIN node.elts |-> <<node.type, node.elts[i]>>]
    [] node.n = "call" -> Zip(node.params, node.args)
    [] node.n = "assert" -> <<<<node.x, node.type>>>>
    [] node.n = "return" -> Zip(fields, node.elts)
    [] node.n = "map" -> FlattenSeq([i \in DOMAIN node.elts |-> <<<<node.key, node.elts[i][1]>>, <<node.value, node.elts[i][2]>>>>])
    [] node.n = "literal" -> <<>>                                              \* a function literal is not entered

\* The places of a package: of the functions of its files in scope.
SitesOf(files) ==
  FlattenSeq([f \in DOMAIN files |->
    IF ~files[f].inScope THEN <<>>
    ELSE FlattenSeq([d \in DOMAIN files[f].funcs |->
           LET func == files[f].funcs[d]
           IN  FlattenSeq([n \in DOMAIN func.nodes |-> CastingSites(func.nodes[n], func.results)])])])

-----------------------------------------------------------------------------
(* The triggers. *)

\* An interface has no name of its own: the type that declares its first method gives it one.
GetFullyQualifiedName(iface) == IF MethodSet[iface] = <<>> THEN "" ELSE MethodSet[iface][1].owner
\* The code with a key for the type alone.
AffiliationCacheKeyOfType(iface, type) == [implemented |-> type, declared |-> ""]
AffiliationCacheKey(iface, type) == [implemented |-> type, declared |-> GetFullyQualifiedName(iface)]
ResultOf(method, i) == [site |-> "result", method |-> method, num |-> i]
ParamOf(method, i) == [site |-> "param", method |-> method, num |-> i]
Flow(from, to) == [producer |-> from, consumer |-> to]
FullTriggerForInterfaceResultFlow(impl, method, i) == Flow(ResultOf(impl, i), ResultOf(method, i))
FullTriggerForInterfaceParamFlow(impl, method, i) == Flow(ParamOf(method, i), ParamOf(impl, i))

CreateFunctionTriggers(impl, method) ==
  [i \in 1..Arity[impl.name].results |-> FullTriggerForInterfaceResultFlow(impl, method, i)] \o
  [i \in 1..Arity[impl.name].params |-> FullTriggerForInterfaceParamFlow(impl, method, i)]

\* The methods of the type that are called by the name of the method.
Implementations(type, method) == SelectSeq(MethodSet[type], LAMBDA m : m.name = method.name)

PairTriggers(iface, type) ==
  FlattenSeq([i \in DOMAIN MethodSet[iface] |->
    LET method == MethodSet[iface][i]
        impls == Implementations(type, method)
    IN  IF impls = <<>> \/ ~ScopeOf[method.owner] \/ ~ScopeOf[impls[1].owner] THEN <<>>
        ELSE CreateFunctionTriggers(impls[1], method)])

\* What one conversion adds to the pairs and the triggers of the package.
ComputeTriggersForTypes(state, lhs, rhs, upstream) ==
  IF lhs \notin Interface \/ rhs \notin DOMAIN MethodSet THEN state
  ELSE LET key == AffiliationCacheKey(lhs, rhs)
       IN  IF key \in upstream \cup state.cache THEN state
           ELSE [cache |-> state.cache \cup {key}, triggers |-> state.triggers \o PairTriggers(lhs, rhs)]

ComputeTriggersForCastingSites(files, upstream) ==
  FoldLeft(LAMBDA state, site : ComputeTriggersForTypes(state, site[1], site[2], upstream),
           [cache |-> {}, triggers |-> <<>>], SitesOf(files))

===============================================================================
