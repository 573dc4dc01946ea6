--------------------------- MODULE MCFunctionAnalyzer ---------------------------
(****************************************************************************)
(* Small packages for FunctionAnalyzer: f and g are contracted functions, h *)
(* calls them, and lit is a function literal; a package has three of them,   *)
(* in any order and each with any outcome of its analysis.                  *)
(****************************************************************************)
EXTENDS FunctionAnalyzer

CONSTANTS f, g, h, lit

Functions == {f, g, h, lit}

Body(name, outcomes, contracted, triggers, calls) ==
  {[name |-> name, literal |-> name = lit, contracted |-> contracted, outcome |-> o,
    triggers |-> triggers, calls |-> calls] : o \in outcomes}

To(callee) == [callee |-> callee, argument |-> TRUE]
Without(callee) == [callee |-> callee, argument |-> FALSE]

\* f calls itself; g has one duplicated trigger or none; h may call f without an
\* argument; the calls of a literal belong to the function around it.
F == Body(f, Outcome, TRUE, <<"param", "inner", "both">>, <<To(f)>>)
G == Body(g, {"triggers", "error", "oversized"}, TRUE, <<"return">>, <<To(f)>>)
       \cup Body(g, {"triggers", "bodiless"}, TRUE, <<"inner">>, <<>>)
H == Body(h, Outcome, FALSE, <<"inner">>, <<To(f), To(g), To(f)>>)
       \cup Body(h, {"triggers"}, FALSE, <<"param">>, <<Without(f)>>)
L == Body(lit, {"triggers", "panic"}, FALSE, <<"inner">>, <<>>)

Packages ==
  UNION {SetToSeqs(S) :
    S \in {{n1, n2, n3} : n1 \in F, n2 \in G, n3 \in H}
            \cup {{n1, n3, n4} : n1 \in F, n3 \in H, n4 \in L}}

=============================================================================
