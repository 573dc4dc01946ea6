----------------------------- MODULE MCMultiPackage -----------------------------
(****************************************************************************)
(* Small programs for MultiPackage: package 1 is imported by 2 and 3, and 4 *)
(* imports all of them.  Sites x and u of package 1 are exported, y and z   *)
(* are not, so that only package 1 has constraints on y and z.  Or package  *)
(* 3 is empty and the others are a chain, with annotations and all kinds of   *)
(* triggers.                                                                *)
(****************************************************************************)
EXTENDS MultiPackage

CONSTANTS x, u, y, z, w, stmt

Sites == {x, u, y, z, w}
ExportedSites == {x, u}

MCPath == 1..4
MCDependencies == [p \in MCPath |-> IF p \in {2, 3} THEN {1} ELSE 1..(p - 1)]

Plain(p, c) == [producer |-> p, consumer |-> c, controller |-> None, role |-> "plain", at |-> None]

\* Ways from x to u and back through y and z, a source and a sink.
Library ==
  {Plain(x, y), Plain(y, z), Plain(z, u), Plain(y, u), Plain(u, y), Plain(z, x),
   Plain(Nil, y), Plain(z, Deref)}

\* What an importing package can say of the exported sites.
Sources == {Plain(Nil, x), Plain(Nil, u), Plain(u, x)}
Sinks == {Plain(x, Deref), Plain(u, Deref), Plain(u, x)}
Client == Sources \cup Sinks

OneMore(sets, S) == sets \cup {T \cup {t} : T \in sets, t \in S}
UpTo1(S) == OneMore({{}}, S)
UpTo2(S) == OneMore(UpTo1(S), S)
UpTo3(S) == OneMore(UpTo2(S), S)

Of(sets) == {[triggers |-> T, annotations |-> {}] : T \in sets}

\* Packages 2 and 3 are interchangeable: one has the sources, one the sinks.
DiamondProgram ==
  {<<lib, left, right, top>> : lib \in Of(UpTo3(Library)), left \in Of(UpTo1(Sources)),
     right \in Of(UpTo1(Sinks)), top \in Of(UpTo1({Plain(u, x)}))}

(****************************************************************************)
(* The chain.                                                               *)
(****************************************************************************)
\* A contracted call in package 2 with the parameter site x and the result site u,
\* and a return statement of two results: u, and the error w, which is not exported.
Special ==
  {[producer |-> Nil, consumer |-> u, controller |-> x, role |-> "plain", at |-> None],
   [producer |-> Nil, consumer |-> u, controller |-> None, role |-> "nonErrorReturn", at |-> stmt],
   [producer |-> x, consumer |-> w, controller |-> None, role |-> "errorReturn", at |-> stmt]}

AnnotatedLibrary ==
  {[triggers |-> T, annotations |-> A] :
     T \in UpTo1(Library), A \in UpTo1([site : {x, u, y}, nilable : BOOLEAN])}

Empty == [triggers |-> {}, annotations |-> {}]

ChainProgram ==
  {<<lib, middle, Empty, top>> : lib \in AnnotatedLibrary, middle \in Of(UpTo2(Client \cup Special)),
     top \in Of(UpTo1({Plain(u, x), Plain(x, Deref), Plain(Nil, x)}))}

AllTriggers == Library \cup Client \cup Special
AnyPackage == AnnotatedLibrary \cup Of(UpTo3(Library) \cup UpTo2(Client \cup Special))
AnyProgram == DiamondProgram \cup ChainProgram

=============================================================================
