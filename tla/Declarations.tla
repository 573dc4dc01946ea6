----------------------------- MODULE Declarations -----------------------------
(****************************************************************************)
(* The analyzers of the declarations of a package, each package once, after *)
(* those that it imports: the affiliations, whose pairs travel as facts,    *)
(* the package-level variables, and the function literals, with the         *)
(* analyzer that puts their triggers together (assertion/analyzer.go).      *)
(* The triggers of the functions are those of FunctionAnalyzer and are left *)
(* out here.                                                                *)
(****************************************************************************)
EXTENDS Affiliation, GlobalVars, Closures

CONSTANTS
  Program      \* the programs: what each package imports, and its files

VARIABLES
  program,     \* the program; never changes
  done,        \* the analyzers that have run, with their package
  facts,       \* the pairs that the packages have exported
  affiliated,  \* the result of the affiliation analyzer
  triggers,    \* the result of the assertion analyzer
  literals     \* the result of the anonymous function analyzer
vars == <<program, done, facts, affiliated, triggers, literals>>

Package == DOMAIN program.imports
Files(p) == program.files[p]

Init ==
  /\ program \in Program
  /\ done = {}
  /\ facts = [p \in Package |-> {}]
  /\ affiliated = [p \in Package |-> <<>>]
  /\ triggers = [p \in Package |-> <<>>]
  /\ literals = [p \in Package |-> {}]

\* A package sees the facts of everything that it imports, also through others.
RECURSIVE Imported(_)
Imported(p) == UNION {{q} \cup Imported(q) : q \in program.imports[p]}
AllPackageFacts(p) == UNION {facts[q] : q \in Imported(p)}

Affiliations(p) ==
  /\ <<"affiliation", p>> \notin done
  /\ \A q \in program.imports[p] : <<"affiliation", q>> \in done
  /\ IF ScopeOf[p]
     THEN LET result == ComputeTriggersForCastingSites(Files(p), AllPackageFacts(p))
          IN  /\ affiliated' = [affiliated EXCEPT ![p] = result.triggers]
              /\ facts' = [facts EXCEPT ![p] = result.cache]
     ELSE UNCHANGED <<affiliated, facts>>
  /\ done' = done \cup {<<"affiliation", p>>}
  /\ UNCHANGED <<program, triggers, literals>>

\* The analyzers without facts, and the merge of their triggers.
Assertions(p) ==
  /\ <<"assertion", p>> \notin done
  /\ <<"affiliation", p>> \in done
  /\ IF ScopeOf[p]
     THEN /\ triggers' = [triggers EXCEPT ![p] = affiliated[p] \o GlobalTriggers(Files(p))]
          /\ literals' = [literals EXCEPT ![p] = AnonymousFunctions(Files(p))]
     ELSE UNCHANGED <<triggers, literals>>
  /\ done' = done \cup {<<"assertion", p>>}
  /\ UNCHANGED <<program, facts, affiliated>>

Next == \E p \in Package : Affiliations(p) \/ Assertions(p)
Spec == Init /\ [][Next]_vars

-----------------------------------------------------------------------------
(* Properties. *)

Finished(p) == ScopeOf[p] /\ \A q \in {p} \cup Imported(p) : <<"assertion", q>> \in done

\* A call through an interface passes its arguments to the method of the value and gets its
\* results back: the flows that the methods of an interface and of a type have.
MethodFlows(iface, type) ==
  UNION {LET method == MethodSet[iface][i]
             impl == MethodSet[type][j]
         IN  IF method.name # impl.name \/ ~ScopeOf[method.owner] \/ ~ScopeOf[impl.owner] THEN {}
             ELSE {[producer |-> [site |-> "param", method |-> method, num |-> n],
                    consumer |-> [site |-> "param", method |-> impl, num |-> n]] : n \in 1..Arity[impl.name].params} \cup
                  {[producer |-> [site |-> "result", method |-> impl, num |-> n],
                    consumer |-> [site |-> "result", method |-> method, num |-> n]] : n \in 1..Arity[impl.name].results} :
         i \in DOMAIN MethodSet[iface], j \in DOMAIN MethodSet[type]}
Casts(p) == {site \in ToSet(SitesOf(Files(p))) : site[1] \in Interface /\ site[2] \in DOMAIN MethodSet}
SeenBy(p) == UNION {ToSet(triggers[q]) : q \in {p} \cup Imported(p)}

\* EveryCastCompared: when a package converts a value to an interface, it or a package that it
\* imports has the triggers of all of the methods that are called through the interface. Skipping
\* pairs by the facts of other packages must lose none (affiliation.go:249-259). Of interfaces
\* that share a key one is enough: the methods of the others are lost (see README).
EveryCastCompared ==
  \A p \in Package : Finished(p) =>
    \A cast \in Casts(p) :
      \E q \in {p} \cup Imported(p) : \E first \in Casts(q) :
        /\ ScopeOf[q]
        /\ first[2] = cast[2]
        /\ first[1] = cast[1] \/ GetFullyQualifiedName(first[1]) = GetFullyQualifiedName(cast[1])
        /\ MethodFlows(first[1], first[2]) \subseteq SeenBy(p)

\* EveryMethodCompared: the same without the exception, as the comments have it.
EveryMethodCompared ==
  \A p \in Package : Finished(p) => \A cast \in Casts(p) : MethodFlows(cast[1], cast[2]) \subseteq SeenBy(p)

\* A name that the analyzer takes for another: of a local variable, or of a method.
Obscured(files) ==
  \/ \E f \in DOMAIN files : \E d \in DOMAIN files[f].funcs :
       files[f].funcs[d].method \/ \E i \in DOMAIN files[f].funcs[d].body : files[f].funcs[d].body[i].s = "local"
\* The value comes from what the analyzer follows: not from a variable before an init function
\* sets it, from a file that is not in scope, or from another package.
RECURSIVE Traceable(_, _)
Traceable(files, x) ==
  \E f \in DOMAIN files : files[f].inScope /\ \E s \in DOMAIN files[f].specs : \E i \in DOMAIN files[f].specs[s].names :
    LET spec == files[f].specs[s]
    IN  /\ spec.names[i] = x
        /\ spec.values # <<>> =>
             LET rhs == spec.values[IF Len(spec.names) = Len(spec.values) THEN i ELSE 1]
             IN  rhs.v # "select" /\ (rhs.v = "var" => rhs.x \notin SetByInit(files, DOMAIN files) /\ Traceable(files, rhs.x))

\* A variable that is nil when the init functions have run, of all files and
\* with all that they call, is nil to the inference (global/globalvarinit.go).
NilGlobalsFound ==
  \A p \in Package : Finished(p) /\ ~Obscured(Files(p)) =>
    \A x \in Nilable : Traceable(Files(p), x) /\ NilAfterInit(Files(p), x) => GlobalVar(x) \in NilSites(ToSet(triggers[p]), {})

\* A variable is nil to the inference only if its initial value is nil and the
\* init functions of its file, with what they call in the file, leave a variable of its
\* declaration unset (global/analyzer.go:69-120).
SetGlobalsSilent ==
  \A p \in Package : Finished(p) /\ ~Obscured(Files(p)) =>
    \A f \in DOMAIN Files(p) : \A s \in DOMAIN Files(p)[f].specs :
      LET names == ToSet(Files(p)[f].specs[s].names)
      IN  \A x \in names : GlobalVar(x) \in NilSites(ToSet(triggers[p]), {}) =>
            InitialNil(Files(p), x) /\ ~(names \subseteq SetByInit(Files(p), {f}))

\* The inference takes a package-level variable for nil exactly where the start of the program
\* leaves it so, within what the analyzer follows: none is missed, none is invented.
GlobalsExact == NilGlobalsFound /\ SetGlobalsSilent

\* CapturesInOrder: the closure variables of a literal are its free variables "in the order of
\* their appearances" (anonymousfunc/analyzer.go:52), also those of the literals in it. One may
\* be there twice, and variables of inner blocks are there that are not free (see README).
CapturesInOrder ==
  \A p \in Package : \A info \in literals[p] :
    FirstOccurrences(SelectSeq(info.closureVars, LAMBDA v : v \notin InBlocks(info.literal.body))) = FreeVariables(info.literal)

===============================================================================
