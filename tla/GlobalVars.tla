------------------------------ MODULE GlobalVars ------------------------------
(****************************************************************************)
(* The triggers of the package-level variables (assertion/global): a        *)
(* variable without a value is nil, one with a value is what the value is,  *)
(* unless the init functions of the file set all variables of the           *)
(* declaration.  What an init function calls is found by name, in the file. *)
(****************************************************************************)
EXTENDS Naturals, SequencesExt

CONSTANTS
  Nilable,     \* the variables whose type has a nil
  NilResult    \* the results of functions that may be nil, as pairs of a function and a position

-----------------------------------------------------------------------------
(* The init functions of a file and what they call. *)

\* funcDecls: the last function or method of a name.
DeclOf(file, name) ==
  {d \in DOMAIN file.funcs : file.funcs[d].name = name /\ \A e \in DOMAIN file.funcs : e > d => file.funcs[e].name # name}
CalledNames(func) == {func.body[i].f : i \in {i \in DOMAIN func.body : func.body[i].s = "call"}}

\* The functions that are visited, by name, from the functions at hand.
RECURSIVE FindRelatedFuncs(_, _, _)
FindRelatedFuncs(file, decls, visited) ==
  LET new == {d \in decls : file.funcs[d].name \notin visited}
      called == UNION {DeclOf(file, f) : f \in UNION {CalledNames(file.funcs[d]) : d \in new}}
  IN  IF new = {} THEN {} ELSE new \cup FindRelatedFuncs(file, called, visited \cup {file.funcs[d].name : d \in new})

\* The code with one record of visited functions for all init functions.
GetInitFuncDeclsOnce(file) ==
  LET inits == {d \in DOMAIN file.funcs : file.funcs[d].name = "init"}
  IN  FindRelatedFuncs(file, {d \in inits : \A e \in inits : d <= e}, {})
\* One search for every init function, also for a method that is called init.
GetInitFuncDecls(file) ==
  UNION {FindRelatedFuncs(file, {d}, {}) : d \in {d \in DOMAIN file.funcs : file.funcs[d].name = "init"}}

\* An assignment counts by the name of its variable, be it a local one.
AssignedNames(func) == {func.body[i].to : i \in {i \in DOMAIN func.body : func.body[i].s \in {"assign", "local"}}}
HasGlobalVarAssignInInitFunc(spec, file) ==
  LET decls == GetInitFuncDecls(file)
  IN  decls # {} /\ ToSet(spec.names) \subseteq UNION {AssignedNames(file.funcs[d]) : d \in decls}

-----------------------------------------------------------------------------
(* The triggers of a declaration. *)

GlobalVar(x) == [site |-> "global", var |-> x]
Return(f, num) == [site |-> "return", func |-> f, num |-> num]
Field(x) == [site |-> "field", var |-> x]
Tautology == [site |-> "nil"]

\* The producer of value rid for variable lid, if there is one.  A selected name is
\* taken for a field, also where it is a variable of another package.
GetGlobalProducer(spec, lid, rid) ==
  LET rhs == spec.values[rid]
  IN  CASE rhs.v = "nil" -> {Tautology}
        [] rhs.v = "call" -> {Return(rhs.f, lid - rid)}       \* of a function or of a method
        [] rhs.v = "var" -> {GlobalVar(rhs.x)}
        [] rhs.v = "select" -> {Field(rhs.x)}
        [] rhs.v \in {"builtin", "other"} -> {}

GetGlobalConsumers(spec, file) ==
  [i \in DOMAIN spec.names |->
    IF spec.names[i] \in Nilable /\ ~HasGlobalVarAssignInInitFunc(spec, file) THEN {GlobalVar(spec.names[i])} ELSE {}]

AnalyzeValueSpec(spec, file) ==
  FlattenSeq([i \in DOMAIN spec.names |->
    LET prods == IF spec.values = <<>> THEN {Tautology}
                 ELSE IF Len(spec.names) = Len(spec.values) THEN GetGlobalProducer(spec, i, i)
                 ELSE GetGlobalProducer(spec, i, 1)
    IN  SetToSeq({[producer |-> p, consumer |-> c] : p \in prods, c \in GetGlobalConsumers(spec, file)[i]})])

GlobalTriggers(files) ==
  FlattenSeq([f \in DOMAIN files |->
    IF ~files[f].inScope THEN <<>>
    ELSE FlattenSeq([s \in DOMAIN files[f].specs |-> AnalyzeValueSpec(files[f].specs[s], files[f])])])

-----------------------------------------------------------------------------
(* The start of the program in Go: the variables get their values, then     *)
(* the init functions of all files run, and what they call.                 *)

Funcs(files) == UNION {{<<f, d>> : d \in DOMAIN files[f].funcs} : f \in DOMAIN files}
FuncAt(files, at) == files[at[1]].funcs[at[2]]

\* The functions that run when those at hand run, if only the files of the set count.
RECURSIVE RunBy(_, _, _)
RunBy(files, among, running) ==
  LET called == UNION {CalledNames(FuncAt(files, at)) : at \in running}
      next == {at \in Funcs(files) : at[1] \in among /\ ~FuncAt(files, at).method /\ FuncAt(files, at).name \in called}
  IN  IF next \subseteq running THEN running ELSE RunBy(files, among, running \cup next)
InitFuncs(files, among) == {at \in Funcs(files) : at[1] \in among /\ ~FuncAt(files, at).method /\ FuncAt(files, at).name = "init"}

\* The package-level variables that are set when the init functions of some files run.
SetByInit(files, among) ==
  LET sets(at) == {FuncAt(files, at).body[i].to : i \in {i \in DOMAIN FuncAt(files, at).body : FuncAt(files, at).body[i].s = "assign"}}
  IN  UNION {sets(at) : at \in RunBy(files, among, InitFuncs(files, among))}

Specs(files) == UNION {ToSet(files[f].specs) : f \in DOMAIN files}
RECURSIVE InitialNil(_, _)
InitialNil(files, x) ==
  \E spec \in Specs(files) : \E i \in DOMAIN spec.names :
    /\ spec.names[i] = x
    /\ \/ spec.values = <<>>
       \/ spec.values # <<>> /\
          LET single == Len(spec.names) = Len(spec.values)
              rhs == spec.values[IF single THEN i ELSE 1]
          IN  \/ rhs.v = "nil"
              \/ rhs.v = "call" /\ <<rhs.f, IF single THEN 0 ELSE i - 1>> \in NilResult
              \/ rhs.v = "var" /\ InitialNil(files, rhs.x)
              \/ rhs.v = "select" /\ rhs.nil
NilAfterInit(files, x) == InitialNil(files, x) /\ x \notin SetByInit(files, DOMAIN files)

\* The variables that the triggers let be nil.
RECURSIVE NilSites(_, _)
NilSites(triggers, known) ==
  LET nil(p) == p.site = "nil" \/ (p.site = "return" /\ <<p.func, p.num>> \in NilResult) \/ p \in known
      new == known \cup {t.consumer : t \in {t \in triggers : nil(t.producer)}}
  IN  IF new = known THEN known ELSE NilSites(triggers, new)

===============================================================================
