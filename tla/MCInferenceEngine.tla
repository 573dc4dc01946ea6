--------------------------- MODULE MCInferenceEngine ---------------------------
(****************************************************************************)
(* Small instances of InferenceEngine.  A package is any set of triggers up *)
(* to the size named in the definition, so that one run covers every graph  *)
(* over the sites and every order of observing its triggers.                *)
(****************************************************************************)
EXTENDS InferenceEngine, TLC

CONSTANTS a, b, c,  \* sites of the package
          stmt      \* a return statement of an error returning function

Sites == {a, b, c}

Uncontrolled(p, q, role, at) ==
  [producer |-> p, consumer |-> q, controller |-> None, role |-> role, at |-> at]

OneMore(sets, S) == sets \cup {T \cup {t} : T \in sets, t \in S}
UpTo1(S) == OneMore({{}}, S)
UpTo2(S) == OneMore(UpTo1(S), S)
UpTo3(S) == OneMore(UpTo2(S), S)
UpTo4(S) == OneMore(UpTo3(S), S)

WithoutAnnotations(sets) == {[triggers |-> T, annotations |-> {}] : T \in sets}

(****************************************************************************)
(* Graphs: sources, sinks and implications, self-loops and cycles included. *)
(****************************************************************************)
GraphTrigger ==
  {Uncontrolled(p, q, "plain", None) : p \in Sites \cup {Nil}, q \in Sites \cup {Deref}}

\* A second assertion between two sites; an edge keeps the one stored last.
SecondTrigger == {Uncontrolled(p, q, "errorReturn", stmt) : p, q \in Sites}

GraphAndSecondTrigger == GraphTrigger \cup SecondTrigger

GraphPackage == WithoutAnnotations(UpTo4(GraphAndSecondTrigger))

\* Annotated sites, with the other triggers.
Annotations == UpTo2(Annotation) \ {{[site |-> s, nilable |-> v] : v \in BOOLEAN} : s \in Sites}
AnnotatedPackage == [triggers : UpTo2(GraphTrigger), annotations : Annotations]

(****************************************************************************)
(* A contracted call: its parameter site is a, its result site is b, and c  *)
(* is any other site.                                                       *)
(****************************************************************************)
ContractTrigger ==
  {Uncontrolled(p, q, "plain", None) : p \in {Nil, b, c}, q \in {a, c, Deref}}
    \cup {Uncontrolled(a, Deref, "plain", None)}
    \cup {[producer |-> p, consumer |-> b, controller |-> a, role |-> "plain", at |-> None] :
            p \in {Nil, a, c}}

\* Without annotations, or with an annotation of the call or of another site.
ContractPackage ==
  WithoutAnnotations(UpTo4(ContractTrigger))
    \cup [triggers : UpTo2(ContractTrigger), annotations : UpTo1(Annotation)]

(****************************************************************************)
(* Error returns: the error result is site b, the other result of the same  *)
(* return statement is site a, and guards may be missing for it.            *)
(****************************************************************************)
ErrorReturnTrigger ==
  {Uncontrolled(p, b, "errorReturn", stmt) : p \in {Nil, Never, a, b, c}}
    \cup {Uncontrolled(p, a, "nonErrorReturn", stmt) : p \in {Nil, c}}
    \cup {Uncontrolled(Nil, c, "plain", None), Uncontrolled(c, Deref, "plain", None),
          Uncontrolled(a, Deref, "plain", None), Uncontrolled(a, c, "plain", None)}
    \cup {Uncontrolled(p, a, "alwaysSafe", a) : p \in {Never, Nil}}
    \cup {Uncontrolled(Nil, q, "guardMissing", a) : q \in {c, Deref}}

ErrorReturnPackage == WithoutAnnotations(UpTo4(ErrorReturnTrigger))

SpecialTrigger == GraphTrigger \cup ContractTrigger \cup ErrorReturnTrigger
SpecialPackage == AnnotatedPackage \cup ContractPackage \cup ErrorReturnPackage

\* Packages of every kind.
AnyTrigger == GraphAndSecondTrigger \cup SpecialTrigger
AnyPackage == GraphPackage \cup SpecialPackage

=============================================================================
