------------------------------ MODULE Diagnostics ------------------------------
(****************************************************************************)
(* The diagnostic engine (diagnostic/): it takes in the conflicts that the  *)
(* inference engine finds in a package and in the end turns them into       *)
(* diagnostics: sorted by position, conflicts with the same nil source      *)
(* grouped under the first of them, those under a nolint comment or in test *)
(* files left out, and each position converted to a line of the file set,   *)
(* where a file that was imported from an archive has only fake lines.      *)
(****************************************************************************)
EXTENDS Naturals, Sequences, FiniteSets, SequencesExt

CONSTANTS
  File,              \* file names, numbered in their order
  TestFile,          \* the files that end with "_test.go"
  ArchiveFile,       \* the files that come from an archive: only lines, no offsets
  UnknownFile,       \* files of transitive imports that are not in the file set
  Line,              \* line numbers
  FakeFileMaxLines,  \* _fakeFileMaxLines
  Function,          \* functions of the package
  FunctionName,      \* their names; methods may share one
  Reported,          \* the conflicts that may be found
  NoLintRanges,      \* the sets of nolint ranges that may be in force
  MaxConflicts       \* bound on the number of conflicts

Position == [file : File, line : Line]

\* A conflict: where it is reported, its nil path (empty in a single assertion
\* conflict, which then has a producer with or without a position, a message and
\* a function around it), and the files on its flow.
ASSUME ConflictAssumption ==
  \A c \in Reported :
    /\ c.position \in Position /\ c.position.file \in c.files /\ c.files \subseteq File
    /\ c.in \in Function

ASSUME FileAssumption ==
  /\ File \subseteq Nat /\ Line \subseteq Nat \ {0} /\ FakeFileMaxLines \in Nat \ {0}
  /\ TestFile \cup ArchiveFile \cup UnknownFile \subseteq File
  /\ UnknownFile \cap ArchiveFile = {} /\ FunctionName \in [Function -> STRING]

ASSUME NoLintAssumption ==
  NoLintRanges \subseteq SUBSET [file : File, from : Line, to : Line]

VARIABLES
  config,       \* the flags, and the nolint ranges of this package and upstream
  conflicts,    \* Engine.conflicts
  stage,        \* where Diagnostics is
  groups,       \* the conflicts left after grouping, by index, with their similar ones
  fakeLines,    \* the number of lines of each fake file; 0 when it is not there
  diagnostics   \* what Diagnostics returns

vars == <<config, conflicts, stage, groups, fakeLines, diagnostics>>

Init ==
  /\ config \in [grouping : BOOLEAN, excludeTestFiles : BOOLEAN, nolint : NoLintRanges]
  /\ conflicts = <<>>
  /\ stage = "adding"
  /\ groups = <<>>
  /\ fakeLines \in [File -> 0..FakeFileMaxLines]
  /\ \A f \in File : fakeLines[f] > 0 <=> f \in ArchiveFile
  /\ diagnostics = <<>>

-----------------------------------------------------------------------------
\* AddSingleAssertionConflict or AddOverconstraintConflict.
AddConflict ==
  /\ stage = "adding" /\ Len(conflicts) < MaxConflicts
  /\ \E c \in Reported : conflicts' = Append(conflicts, c)
  /\ UNCHANGED <<config, stage, groups, fakeLines, diagnostics>>

\* Mutant: only the files are compared.
BeforeByFile(p, q) == p.file < q.file

Before(p, q) == p.file < q.file \/ (p.file = q.file /\ p.line < q.line)

\* SortFunc is not stable: conflicts at one position come in any order.
Sorted(seq) ==
  {s \in {[i \in DOMAIN seq |-> seq[order[i]]] : order \in SetToSeqs(DOMAIN seq)} :
     \A i, j \in DOMAIN s : i < j => ~Before(s[j].position, s[i].position)}

\* The key by which groupConflicts groups.
Key(c) ==
  IF c.nilPath # <<>> THEN c.nilPath
  ELSE IF c.producer # <<>> THEN c.producer
  ELSE <<FunctionName[c.in], c.message>>

FirstWithKey(seq, i) == \A j \in DOMAIN seq : Key(seq[j]) = Key(seq[i]) => i <= j

\* Mutant: a conflict is added to the conflict with its key just before it.
GroupConflictsChained(seq) ==
  [i \in {j \in DOMAIN seq : FirstWithKey(seq, j)} |->
     {j \in DOMAIN seq :
        /\ i < j /\ Key(seq[j]) = Key(seq[i])
        /\ \A k \in DOMAIN seq : i < k /\ k < j => Key(seq[k]) # Key(seq[j])}]

\* groupConflicts: a conflict with a new key stays and takes the later ones with
\* the same key as similar conflicts.
GroupConflicts(seq) ==
  [i \in {j \in DOMAIN seq : FirstWithKey(seq, j)} |->
     {j \in DOMAIN seq : i < j /\ Key(seq[j]) = Key(seq[i])}]

Ungrouped(seq) == [i \in DOMAIN seq |-> {}]

\* The first part of Diagnostics: sort and group.
SortAndGroup ==
  /\ stage = "adding"
  /\ stage' = "reporting"
  /\ conflicts' \in Sorted(conflicts)
  /\ groups' = IF config.grouping THEN GroupConflicts(conflicts') ELSE Ungrouped(conflicts')
  /\ UNCHANGED <<config, fakeLines, diagnostics>>

\* Mutant: the last line of a nolint range is not part of it.
SuppressedExclusive(c) ==
  \/ \E r \in config.nolint :
       r.file = c.position.file /\ r.from <= c.position.line /\ c.position.line < r.to
  \/ config.excludeTestFiles /\ c.files \cap TestFile # {}

Suppressed(c) ==
  \/ \E r \in config.nolint :
       r.file = c.position.file /\ r.from <= c.position.line /\ c.position.line <= r.to
  \/ config.excludeTestFiles /\ c.files \cap TestFile # {}

\* The loop over the groups is at conflict i, the first one that is left.
IsNext(i) == i \in DOMAIN groups /\ \A j \in DOMAIN groups : i <= j

Others(i) == [j \in DOMAIN groups \ {i} |-> groups[j]]

Skip ==
  /\ stage = "reporting"
  /\ \E i \in DOMAIN groups :
       IsNext(i) /\ Suppressed(conflicts[i]) /\ groups' = Others(i)
  /\ UNCHANGED <<config, conflicts, stage, fakeLines, diagnostics>>

IsFake(file) == file \in ArchiveFile \cup UnknownFile

\* Mutant: a file that is there is never padded.
PaddedOnce(file, line) == IF fakeLines[file] = 0 THEN line ELSE fakeLines[file]

\* The number of lines of a fake file when toPos looks up a line: the file is
\* added with that many lines, or padded to it, but the file set takes no line
\* that begins beyond the size of the file.
Padded(file, line) ==
  LET wanted == IF line <= FakeFileMaxLines THEN line ELSE FakeFileMaxLines
  IN  IF fakeLines[file] < wanted THEN wanted ELSE fakeLines[file]

\* One conflict becomes a diagnostic.  LineStart panics when there is no such line.
Report ==
  /\ stage = "reporting"
  /\ \E i \in DOMAIN groups :
       /\ IsNext(i) /\ ~Suppressed(conflicts[i])
       /\ LET position == conflicts[i].position
              lines == IF IsFake(position.file) THEN Padded(position.file, position.line) ELSE 0
          IN  /\ fakeLines' = [fakeLines EXCEPT ![position.file] = lines]
              /\ \/ /\ IsFake(position.file) => position.line <= lines
                    /\ diagnostics' = Append(diagnostics, [index |-> i, similar |-> groups[i]])
                    /\ groups' = Others(i)
                    /\ UNCHANGED stage
                 \/ /\ IsFake(position.file) /\ lines < position.line
                    /\ stage' = "panicked"
                    /\ UNCHANGED <<diagnostics, groups>>
  /\ UNCHANGED <<config, conflicts>>

Return ==
  /\ stage = "reporting" /\ DOMAIN groups = {}
  /\ stage' = "returned"
  /\ UNCHANGED <<config, conflicts, groups, fakeLines, diagnostics>>

Next == AddConflict \/ SortAndGroup \/ Skip \/ Report \/ Return

Spec == Init /\ [][Next]_vars

-----------------------------------------------------------------------------
\* The conflicts that a reader of the diagnostics learns of.
Shown == UNION {{diagnostics[d].index} \cup diagnostics[d].similar : d \in DOMAIN diagnostics}

\* Grouping loses nothing and says nothing twice: when nothing is suppressed,
\* every conflict is shown by exactly one diagnostic, as its own conflict or as one
\* of its similar conflicts, and never under one that comes after it.
EachShownOnce ==
  stage = "returned" /\ config.nolint = {} /\ ~config.excludeTestFiles =>
    /\ Shown = DOMAIN conflicts
    /\ \A d, e \in DOMAIN diagnostics :
         /\ d # e => diagnostics[d].similar \cap diagnostics[e].similar = {}
         /\ diagnostics[d].index \notin diagnostics[e].similar
         /\ \A c \in diagnostics[d].similar :
              ~Before(conflicts[c].position, conflicts[diagnostics[d].index].position)

At(d) == conflicts[diagnostics[d].index].position

\* The diagnostics come in the order of their positions, whatever was grouped or
\* left out in between.
InOrder ==
  \A d, e \in DOMAIN diagnostics :
    d < e => At(d).file < At(e).file \/ (At(d).file = At(e).file /\ At(d).line <= At(e).line)

\* No diagnostic is at a place that a nolint comment of this package or of a
\* package upstream covers, the first and the last line of the range included.
NoneAtNoLint ==
  \A d \in DOMAIN diagnostics, r \in config.nolint :
    r.file = At(d).file => At(d).line \notin r.from .. r.to

\* A line of a fake file that was looked up once stays valid while other lines of
\* the file are looked up, and only a line that no fake file can have makes
\* Diagnostics panic (which costs the package all of its diagnostics and facts).
LinesStayValid ==
  /\ \A d \in DOMAIN diagnostics : IsFake(At(d).file) => At(d).line <= fakeLines[At(d).file]
  /\ stage = "panicked" => \E c \in DOMAIN conflicts : conflicts[c].position.line > FakeFileMaxLines

=============================================================================
