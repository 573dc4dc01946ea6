--------------------------------- MODULE Hooks ---------------------------------
(****************************************************************************)
(* What NilAway knows of well-known functions (package hook): the condition *)
(* that holds after an assertion of a test library has returned, the        *)
(* condition that a boolean call stands for, and the argument that a call   *)
(* has set when its error is nil.  The value of an expression, and when the *)
(* assertions of the libraries pass, are given here as well.                *)
(*                                                                          *)
(* Only the arguments of a call are kept; the parameter t of the libraries  *)
(* whose assertions are functions is left out, and so are the names that    *)
(* end in f.                                                                *)
(****************************************************************************)
EXTENDS Integers, Sequences

CONSTANTS
  TypeOf,  \* the type of each variable: bool, interface, pointer, slice or other
  None     \* no expression

Nil == [op |-> "lit", v |-> "nil"]
True == [op |-> "lit", v |-> "true"]
False == [op |-> "lit", v |-> "false"]
Not(x) == [op |-> "not", x |-> x]
And(x, y) == [op |-> "and", x |-> x, y |-> y]
Eq(x, y) == [op |-> "eq", x |-> x, y |-> y]
Ne(x, y) == [op |-> "ne", x |-> x, y |-> y]

IsVar(e, type) == e.op = "var" /\ TypeOf[e.v] = type
IsBoolExpr(e) == e.op \in {"not", "and", "or", "eq", "ne", "call"} \/ IsVar(e, "bool")

-----------------------------------------------------------------------------
(* The condition that holds after an assertion. *)

NilBinaryExpr(call) == Eq(call.args[1], Nil)
NonnilBinaryExpr(call) == Ne(call.args[1], Nil)

\* assert.Assert(t, comparison) of gotest.tools: a condition, or an error.
BoolOrErrorExpr(call) ==
  CASE IsBoolExpr(call.args[1]) -> call.args[1]
    [] IsVar(call.args[1], "interface") -> NilBinaryExpr(call)
    [] OTHER -> None

\* So(actual, assertion) of goconvey.
GoconveySoExpr(call) ==
  LET assertion == call.args[2].v
      bool == IsBoolExpr(call.args[1])
  IN  CASE assertion = "ShouldBeNil" -> NilBinaryExpr(call)
        [] assertion \in {"ShouldNotBeNil", "ShouldBeError"} -> NonnilBinaryExpr(call)
        [] assertion = "ShouldBeTrue" /\ bool -> call.args[1]
        [] assertion = "ShouldBeFalse" /\ bool -> Not(call.args[1])
        [] OTHER -> None

\* What the assertion compares with the constant says of the other argument, which
\* is at the given position; a length is compared by its sign only.
GenerateComparators(fn, actual, position, expected) ==
  LET positive == expected = "positive"
      natural == expected \in {"zero", "positive"}
      nonnil == \/ fn = "Equal" /\ positive
                \/ fn \in {"NotEqual", "NotEmpty"} /\ expected \in {"zero", "nil"}
                \/ fn = "Greater" /\ position = 1 /\ natural
                \/ fn = "GreaterOrEqual" /\ position = 1 /\ positive
                \/ fn = "Less" /\ position = 2 /\ natural
                \/ fn = "LessOrEqual" /\ position = 2 /\ positive
  IN  CASE nonnil -> Ne(actual, Nil)
        [] fn \in {"Equal", "Empty"} /\ expected = "nil" -> Eq(actual, Nil)
        [] fn = "Empty" /\ expected = "false" -> Not(actual)
        [] fn = "NotEmpty" /\ expected = "false" -> actual
        [] OTHER -> None
GenerateComparatorsAnywhere(fn, actual, position, expected) ==
  IF fn = "GreaterOrEqual" /\ expected \in {"zero", "positive"} THEN Ne(actual, Nil)
  ELSE GenerateComparators(fn, actual, position, expected)

\* The length of a slice against a constant, or an expression against nil.
RequireComparators(call) ==
  LET other(i) == call.args[3 - i]
      isLength(i) == call.args[i].op = "len" /\ IsVar(call.args[i].x, "slice") /\ other(i).op = "int"
      sign(n) == IF n = 0 THEN "zero" ELSE IF n > 0 THEN "positive" ELSE "unknown"
      found(i) == CASE isLength(i) -> [actual |-> call.args[i].x, at |-> i, expected |-> sign(other(i).n)]
                    [] call.args[i] = Nil -> [actual |-> other(i), at |-> i, expected |-> "nil"]
                    [] OTHER -> None
      last == IF found(2) # None THEN found(2) ELSE found(1)
  IN  IF last = None THEN None
      ELSE IF last.expected = "unknown" THEN None
      ELSE GenerateComparators(call.fn, last.actual, last.at, last.expected)

RequireZeroComparators(call) ==
  LET x == call.args[1]
      against(expected) == GenerateComparators(call.fn, x, 1, expected)
  IN  CASE IsVar(x, "pointer") \/ IsVar(x, "interface") -> against("nil")
        [] IsVar(x, "slice") -> against("zero")
        [] IsVar(x, "bool") -> against("false")
        [] OTHER -> None

RequireLen(call) ==
  IF IsVar(call.args[1], "slice") /\ call.args[2].op = "int" /\ call.args[2].n > 0
    THEN NonnilBinaryExpr(call) ELSE None

Comparators == {"Equal", "NotEqual", "Greater", "GreaterOrEqual", "Less", "LessOrEqual"}

SplitBlockOn(call) ==
  CASE call.fn \in {"Nil", "NoError", "NilError"} -> NilBinaryExpr(call)
    [] call.fn \in {"NotNil", "Error", "ErrorContains", "EqualError"} -> NonnilBinaryExpr(call)
    [] call.fn = "True" -> call.args[1]
    [] call.fn = "False" -> Not(call.args[1])
    [] call.fn \in Comparators -> RequireComparators(call)
    [] call.fn = "Len" -> RequireLen(call)
    [] call.fn \in {"Empty", "NotEmpty"} -> RequireZeroComparators(call)
    [] call.fn = "Assert" -> BoolOrErrorExpr(call)
    [] call.fn = "So" -> GoconveySoExpr(call)
    [] OTHER -> None

-----------------------------------------------------------------------------
(* Calls that are conditions, and calls that set an argument. *)

\* errors.As(err, &target) also says that target is not nil.
ErrorAsAction(call) ==
  IF call.args[2].op = "addr" THEN And(call, Ne(call.args[2].x, Nil)) ELSE None

\* An assertion as a condition: the call, and what it implies.
AssertConditionalAction(call) ==
  IF SplitBlockOn(call) = None THEN None ELSE And(call, SplitBlockOn(call))

Conditionals == {"Nil", "NotNil", "NoError", "Error", "ErrorContains", "EqualError", "True", "False"}

ReplaceConditional(call) ==
  CASE call.fn = "As" -> ErrorAsAction(call)
    [] call.fn \in Conditionals -> AssertConditionalAction(call)
    [] OTHER -> None

\* json.Unmarshal(data, &v) and Future.Get(ctx, &v).
ErrorReturnNonnilArg(call) ==
  IF call.fn \in {"Unmarshal", "Get"} /\ call.args[2].op = "addr" THEN call.args[2].x ELSE None

-----------------------------------------------------------------------------
(* What the expressions are, and when the assertions pass. *)

\* A value is a text: nil, true, a slice by its length, an object by a name.
Length(value) == CASE value = "one" -> 1 [] value = "two" -> 2 [] OTHER -> 0

RECURSIVE Value(_, _)
Value(e, val) ==
  LET bool(b) == IF b THEN "true" ELSE "false"
      v(x) == Value(x, val)
      holds(x) == v(x) = "true"
      number(x) == IF x.op = "int" THEN x.n ELSE Length(v(x.x))
      arg(i) == e.args[i]
      same == IF {arg(1).op, arg(2).op} \cap {"int", "len"} # {} THEN number(arg(1)) = number(arg(2))
              ELSE v(arg(1)) = v(arg(2))
      empty == v(arg(1)) \in {"nil", "false", "empty"}
  IN  CASE e.op = "var" -> val[e.v]
        [] e.op = "lit" -> e.v
        [] e.op = "paren" -> v(e.x)
        [] e.op = "not" -> bool(~holds(e.x))
        [] e.op = "and" -> bool(holds(e.x) /\ holds(e.y))
        [] e.op = "or" -> bool(holds(e.x) \/ holds(e.y))
        [] e.op = "eq" -> bool(v(e.x) = v(e.y))
        [] e.op = "ne" -> bool(v(e.x) # v(e.y))
        [] e.op = "is" -> bool(v(e.x) = e.type)   \* the test of a type switch
        [] e.fn \in {"Nil", "NoError", "NilError"} -> bool(v(arg(1)) = "nil")
        [] e.fn \in {"NotNil", "Error", "ErrorContains", "EqualError"} -> bool(v(arg(1)) # "nil")
        [] e.fn = "True" -> v(arg(1))
        [] e.fn = "False" -> bool(~holds(arg(1)))
        [] e.fn = "Equal" -> bool(same)
        [] e.fn = "NotEqual" -> bool(~same)
        [] e.fn = "Greater" -> bool(number(arg(1)) > number(arg(2)))
        [] e.fn = "GreaterOrEqual" -> bool(number(arg(1)) >= number(arg(2)))
        [] e.fn = "Less" -> bool(number(arg(1)) < number(arg(2)))
        [] e.fn = "LessOrEqual" -> bool(number(arg(1)) <= number(arg(2)))
        [] e.fn = "Len" -> bool(Length(v(arg(1))) = number(arg(2)))
        [] e.fn = "Empty" -> bool(empty)
        [] e.fn = "NotEmpty" -> bool(~empty)
        [] e.fn = "Assert" -> bool(holds(arg(1)) \/ (~IsBoolExpr(arg(1)) /\ v(arg(1)) = "nil"))
        [] e.fn = "So" ->
             CASE arg(2).v = "ShouldBeNil" -> bool(v(arg(1)) = "nil")
               [] arg(2).v \in {"ShouldNotBeNil", "ShouldBeError"} -> bool(v(arg(1)) # "nil")
               [] arg(2).v = "ShouldBeTrue" -> v(arg(1))
               [] arg(2).v = "ShouldBeFalse" -> bool(~holds(arg(1)))
               [] OTHER -> "true"
        [] e.fn = "As" -> bool(v(arg(1)) # "nil" /\ v(arg(2).x) # "nil")
        [] OTHER -> val[e.fn]

===============================================================================
