----------------------------- MODULE MCDiagnostics -----------------------------
(****************************************************************************)
(* Small instances of Diagnostics: file 1 is a file of the package, file 2  *)
(* is a test file of it, file 3 comes from an archive, and file 4 is not in *)
(* the file set.                                                            *)
(****************************************************************************)
EXTENDS Diagnostics

CONSTANTS m1, m2  \* two methods with one name

Files == 1..4
Names == [m \in {m1, m2} |-> "m"]

Over(file, line, path, files) ==
  [position |-> [file |-> file, line |-> line], nilPath |-> <<path>>, producer |-> <<>>,
   message |-> "", in |-> m1, files |-> files \cup {file}]

Single(line, producer, message, in) ==
  [position |-> [file |-> 1, line |-> line], nilPath |-> <<>>, producer |-> producer,
   message |-> message, in |-> in, files |-> {1}]

Conflicts ==
  {Over(1, 1, "p", {}), Over(1, 2, "p", {2}), Over(2, 1, "p", {}), Over(1, 2, "q", {}),
   Over(3, 1, "q", {1}), Over(3, 3, "q", {}), Over(4, 2, "q", {}), Over(4, 4, "r", {}),
   Single(1, <<"at">>, "deep read", m1), Single(2, <<>>, "deep read", m1),
   Single(3, <<>>, "deep read", m2)}

Ranges ==
  {{}, {[file |-> 1, from |-> 1, to |-> 1]},
   {[file |-> 1, from |-> 2, to |-> 3], [file |-> 4, from |-> 1, to |-> 4]}}

=============================================================================
