----------------------------- MODULE MCErrorReturns -----------------------------
(****************************************************************************)
(* Small programs of ErrorReturns: f has at most two paths, in one return   *)
(* statement or in two, and g has at most two return statements.            *)
(****************************************************************************)
EXTENDS ErrorReturns, TLC

CONSTANTS fv, fe, gv, ge, pe,  \* the sites of the results and the parameter
          s1, s2, g1, g2       \* return statements

Sites == {fv, fe, gv, ge, pe}
Stmts == {s1, s2, g1, g2}

Stmt(at, form, paths) == [at |-> at, form |-> form, paths |-> paths]
P(value, last) == [value |-> value, last |-> last]

C(trusted, errReturning, makesError, args, nonnil) ==
  [trusted |-> trusted, errReturning |-> errReturning, makesError |-> makesError,
   args |-> args, nonnil |-> nonnil]

Calls ==
  "New()" :> C(TRUE, TRUE, FALSE, <<"other">>, TRUE)
    @@ "Wrap(err)" :> C(FALSE, TRUE, FALSE, <<"error", "other">>, FALSE)
    @@ "Wrap(Wrap(err))" :> C(FALSE, TRUE, FALSE, <<"Wrap(err)">>, FALSE)
    @@ "Wrap(New())" :> C(FALSE, TRUE, FALSE, <<"New()">>, TRUE)
    @@ "NewError(text)" :> C(FALSE, TRUE, TRUE, <<"other">>, TRUE)
    @@ "NewError(err.Error())" :> C(FALSE, TRUE, FALSE, <<"errorMethod">>, TRUE)
    @@ "g()" :> C(FALSE, TRUE, FALSE, <<>>, FALSE)

(****************************************************************************)
(* The function that is called: error only, or a value and an error.        *)
(****************************************************************************)
GPath == {P("nil", "nil"), P("nil", "New()"), P("composite", "nil"), P("composite", "composite")}

UpTo2(S) == {{x, y} : x, y \in S}

GReturns ==
  {{Stmt(g1, "literal", {q}), Stmt(g2, "literal", {r})} : q, r \in GPath}
    \cup {{Stmt(g1, "variables", paths)} : paths \in UpTo2(GPath)}

Callee ==
  {[kind |-> "error", value |-> gv, last |-> ge, returns |-> R] : R \in GReturns}
    \cup {[kind |-> "error", value |-> None, last |-> ge,
           returns |-> {Stmt(IF e = "nil" THEN g1 ELSE g2, "literal", {P("nil", e)}) : e \in E}] :
          E \in UpTo2({"nil", "New()"})}

(****************************************************************************)
(* The function under analysis.                                             *)
(****************************************************************************)
Fixed == {P(v, l) : v \in {"nil", "composite", "x"}, l \in {"nil", "New()"}}
Open == {P(v, l) : v \in {"nil", "composite"}, l \in {"err", "failed", "param"}}
Errors == Fixed \cup Open

Single(at) ==
  {Stmt(at, "literal", {q}) : q \in Fixed \cup {P("nil", c) : c \in DOMAIN Calls \cup {"composite"}}}
    \cup {Stmt(at, "variables", {q}) : q \in {P("nil", "err"), P("composite", "failed"),
                                             P("nil", "failed"), P("nil", "param")}}
    \cup {Stmt(at, "forward", {}), Stmt(at, "blank", {})}

Second ==
  {Stmt(s2, "literal", {q}) : q \in {P("composite", "nil"), P("nil", "New()"), P("nil", "nil")}}

ErrorBodies ==
  {{Stmt(s1, "variables", {q, r})} : q, r \in Errors}
    \cup {{s, t} : s \in Single(s1), t \in Second}

OkPath == {P(v, l) : v \in {"nil", "composite"}, l \in {"true", "false", "unknown"}}
OkBodies == {{Stmt(s1, "literal", {q}), Stmt(s2, "literal", {r})} : q, r \in OkPath}

PlainBodies ==
  {{Stmt(s1, "variables", {P(v, "nil"), P(w, "nil")})} : v, w \in {"nil", "composite"}}
    \cup {{Stmt(s1, "blank", {})}}

F(kind, bodies) == {[kind |-> kind, value |-> fv, last |-> fe, returns |-> R] : R \in bodies}

UsingG == {c \in DOMAIN Calls : c # "NewError(err.Error())" => ~Calls[c].nonnil}
CallsDirectly(fn) == \E s \in fn.returns : \E q \in s.paths : q.last = "g()"

UsesCall(fn) ==
  \E s \in fn.returns : s.form = "forward"
    \/ \E q \in s.paths : q.value = "x" \/ q.last \in {"err", "failed"} \cup UsingG
UsesValue(fn) ==
  \E s \in fn.returns : s.form = "forward" \/ \E q \in s.paths : q.value = "x"
UsesParam(fn) == \E s \in fn.returns : \E q \in s.paths : q.last = "param"

\* g that is not called, and an argument that is not used, make no difference.
SmallProgram ==
  LET Uncalled == CHOOSE g \in Callee : g.value = None
      Callees(fn) == IF CallsDirectly(fn) THEN {g \in Callee : g.value = None}
                     ELSE IF UsesValue(fn) THEN {g \in Callee : g.value # None}
                     ELSE IF UsesCall(fn) THEN Callee ELSE {Uncalled}
  IN  UNION {[f : {fn}, g : Callees(fn),
              argument : IF UsesParam(fn) THEN {"nil", "notNil"} ELSE {"notNil"},
              use : {"checked", "unchecked", "failedBranch"}] :
             fn \in F("error", ErrorBodies) \cup F("ok", OkBodies) \cup F("plain", PlainBodies)}

ReturnPackage == {[triggers |-> ProgramTriggers(p), annotations |-> {}] : p \in SmallProgram}
ReturnTrigger == UNION {q.triggers : q \in ReturnPackage}

=============================================================================
