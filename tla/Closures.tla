------------------------------- MODULE Closures -------------------------------
(****************************************************************************)
(* The variables that function literals capture (assertion/anonymousfunc).  *)
(* A literal has parameters and a body of uses, declarations, blocks and    *)
(* nested literals; a variable stands for its object, so that two variables *)
(* of one name are two variables.                                           *)
(****************************************************************************)
EXTENDS Naturals, SequencesExt

CONSTANT Global      \* the variables of the package

IsBlank(v) == v = "_"
Use(v) == [i |-> "use", v |-> v]
Decl(v) == [i |-> "decl", v |-> v]
Inner(items) == [i |-> "block", items |-> items]
Lit(params, body) == [i |-> "literal", params |-> params, body |-> body]

-----------------------------------------------------------------------------
(* collectClosure *)

\* The scope of a literal: its parameters and what its body declares, but not in
\* the blocks of the body.
\* The code with a look at the parameters only.
InScopeParams(lit) == ToSet(lit.params)
InScope(lit) == ToSet(lit.params) \cup {lit.body[i].v : i \in {i \in DOMAIN lit.body : lit.body[i].i = "decl"}}

\* An identifier that is met in the body of a literal.
VisitIdent(lit, vars, v) ==
  IF IsBlank(v) \/ v \in Global \/ v \in InScope(lit) \/ v \in ToSet(vars) THEN vars ELSE Append(vars, v)

RECURSIVE CollectClosure(_), Visit(_, _, _)
\* The items of a body in the order of the text; a variable that a nested literal
\* captures is added without a look at those that were visited.
Visit(lit, items, vars) ==
  FoldLeft(LAMBDA acc, item :
             CASE item.i \in {"use", "decl"} -> VisitIdent(lit, acc, item.v)
               [] item.i = "block" -> Visit(lit, item.items, acc)
               [] item.i = "literal" -> acc \o SelectSeq(CollectClosure(item), LAMBDA v : v \notin InScope(lit)),
           vars, items)
CollectClosure(lit) == Visit(lit, lit.body, <<>>)

\* All literals of a body, also the nested ones.
RECURSIVE LiteralsIn(_)
LiteralsIn(items) ==
  UNION {CASE items[i].i = "literal" -> {items[i]} \cup LiteralsIn(items[i].body)
           [] items[i].i = "block" -> LiteralsIn(items[i].items)
           [] OTHER -> {} : i \in DOMAIN items}

\* The declaration that stands for a literal: its parameters are followed by what it captures.
CreateFakeFuncDecl(lit) == [literal |-> lit, params |-> lit.params \o CollectClosure(lit), closureVars |-> CollectClosure(lit)]

AnonymousFunctions(files) ==
  UNION {{CreateFakeFuncDecl(lit) : lit \in UNION {LiteralsIn(files[f].bodies[b]) : b \in DOMAIN files[f].bodies}} :
           f \in {f \in DOMAIN files : files[f].inScope}}

-----------------------------------------------------------------------------
(* The free variables in Go. *)

\* The variables of a body in the order of the text, and those declared anywhere in it.
RECURSIVE Mentioned(_), DeclaredIn(_)
Mentioned(items) ==
  FlattenSeq([i \in DOMAIN items |->
    CASE items[i].i \in {"use", "decl"} -> <<items[i].v>>
      [] items[i].i = "block" -> Mentioned(items[i].items)
      [] items[i].i = "literal" -> Mentioned(items[i].body)])
DeclaredIn(items) ==
  UNION {CASE items[i].i = "use" -> {}
           [] items[i].i = "decl" -> {items[i].v}
           [] items[i].i = "block" -> DeclaredIn(items[i].items)
           [] items[i].i = "literal" -> ToSet(items[i].params) \cup DeclaredIn(items[i].body) : i \in DOMAIN items}
\* The variables of the blocks of a literal and of the literals in it.
RECURSIVE InBlocks(_)
InBlocks(items) ==
  UNION {CASE items[i].i = "block" -> DeclaredIn(items[i].items)
           [] items[i].i = "literal" -> InBlocks(items[i].body)
           [] OTHER -> {} : i \in DOMAIN items}

FirstOccurrences(vars) == FoldLeft(LAMBDA acc, v : IF v \in ToSet(acc) THEN acc ELSE Append(acc, v), <<>>, vars)
FreeVariables(lit) ==
  FirstOccurrences(SelectSeq(Mentioned(lit.body),
    LAMBDA v : ~IsBlank(v) /\ v \notin Global \cup ToSet(lit.params) \cup DeclaredIn(lit.body)))

===============================================================================
