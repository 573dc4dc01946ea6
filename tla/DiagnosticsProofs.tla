--------------------------- MODULE DiagnosticsProofs ---------------------------
(****************************************************************************)
(* Theorems about Diagnostics, for any files, any conflicts found and any   *)
(* nolint ranges.                                                           *)
(****************************************************************************)
EXTENDS Diagnostics, FiniteSetTheorems, SequenceTheorems, TLAPS

-----------------------------------------------------------------------------
(****************************************************************************)
(* The inductive invariant.                                                 *)
(****************************************************************************)

TypeInv ==
  /\ config \in [grouping : BOOLEAN, excludeTestFiles : BOOLEAN, nolint : NoLintRanges]
  /\ conflicts \in Seq(Reported)
  /\ stage \in {"adding", "reporting", "panicked", "returned"}
  /\ DOMAIN groups \subseteq 1..Len(conflicts)
  /\ fakeLines \in [File -> Nat]
  /\ diagnostics \in Seq([index : 1..Len(conflicts), similar : SUBSET (1..Len(conflicts))])
  /\ stage = "adding" => groups = <<>> /\ diagnostics = <<>>
  /\ stage = "returned" => DOMAIN groups = {}

\* What grouping has made of the sorted conflicts.
Grouping == IF config.grouping THEN GroupConflicts(conflicts) ELSE Ungrouped(conflicts)

SortedInv ==
  stage # "adding" =>
    \A i, j \in 1..Len(conflicts) : i < j => ~Before(conflicts[j].position, conflicts[i].position)

\* The loop goes over the groups in their order: those left are as they were
\* made, and those that are gone became diagnostics or are suppressed.
GroupsInv ==
  stage # "adding" =>
    /\ \A i \in DOMAIN groups : i \in DOMAIN Grouping /\ groups[i] = Grouping[i]
    /\ \A i \in DOMAIN Grouping :
         \/ i \in DOMAIN groups
         \/ Suppressed(conflicts[i])
         \/ \E d \in 1..Len(diagnostics) : diagnostics[d].index = i

DiagnosticsInv ==
  /\ \A d \in 1..Len(diagnostics) :
       /\ diagnostics[d].index \in DOMAIN Grouping
       /\ diagnostics[d].similar = Grouping[diagnostics[d].index]
       /\ ~Suppressed(conflicts[diagnostics[d].index])
       /\ \A i \in DOMAIN groups : diagnostics[d].index < i
  /\ \A d, e \in 1..Len(diagnostics) : d < e => diagnostics[d].index < diagnostics[e].index

LinesInv ==
  /\ \A d \in 1..Len(diagnostics) : IsFake(At(d).file) => At(d).line <= fakeLines[At(d).file]
  /\ stage = "panicked" =>
       \E c \in 1..Len(conflicts) : conflicts[c].position.line > FakeFileMaxLines

IInv == TypeInv /\ SortedInv /\ GroupsInv /\ DiagnosticsInv /\ LinesInv

-----------------------------------------------------------------------------
(****************************************************************************)
(* Conflicts, and what sorting and grouping make of them.                   *)
(****************************************************************************)

LEMMA ConflictType ==
  ASSUME NEW seq \in Seq(Reported), NEW i \in 1..Len(seq)
  PROVE  /\ seq[i] \in Reported
         /\ seq[i].position.file \in File /\ seq[i].position.file \in Nat
         /\ seq[i].position.line \in Line /\ seq[i].position.line \in Nat
<1>1. seq[i] \in Reported
  BY ElementOfSeq
<1>2. seq[i].position \in Position
  BY <1>1, ConflictAssumption
<1> QED  BY <1>1, <1>2, FileAssumption DEF Position

LEMMA SortedType ==
  ASSUME NEW seq \in Seq(Reported), NEW s \in Sorted(seq)
  PROVE  /\ s \in Seq(Reported) /\ Len(s) = Len(seq)
         /\ \A i, j \in 1..Len(s) : i < j => ~Before(s[j].position, s[i].position)
<1> DEFINE n == Len(seq)
<1>1. n \in Nat /\ DOMAIN seq = 1..n
  BY LenProperties
<1>2. Cardinality(1..n) = n
  BY <1>1, FS_Interval
<1>3. PICK order \in SetToSeqs(1..n) : s = [i \in 1..n |-> seq[order[i]]]
  BY <1>1 DEF Sorted
<1>4. order \in [1..n -> 1..n]
  BY <1>2, <1>3 DEF SetToSeqs
<1>5. \A i \in 1..n : s[i] \in Reported
  BY <1>3, <1>4, ElementOfSeq
<1>6. s \in Seq(Reported) /\ Len(s) = n /\ DOMAIN s = 1..n
  BY <1>1, <1>3, <1>5, IsASeq, LenProperties
<1>7. \A i, j \in DOMAIN s : i < j => ~Before(s[j].position, s[i].position)
  BY DEF Sorted
<1> QED  BY <1>6, <1>7

LEMMA GroupingType ==
  ASSUME conflicts \in Seq(Reported)
  PROVE  /\ DOMAIN Grouping \subseteq 1..Len(conflicts)
         /\ \A i \in DOMAIN Grouping : Grouping[i] \subseteq 1..Len(conflicts)
BY LenProperties DEF Grouping, GroupConflicts, Ungrouped

-----------------------------------------------------------------------------
(****************************************************************************)
(* Every action keeps the invariant.                                        *)
(****************************************************************************)

LEMMA InitIInv == Init => IInv
<1> SUFFICES ASSUME Init PROVE IInv
  OBVIOUS
<1>1. groups = <<>> /\ DOMAIN groups = {} /\ diagnostics = <<>> /\ Len(diagnostics) = 0
      /\ conflicts \in Seq(Reported) /\ stage = "adding"
  BY DEF Init
<1>2. fakeLines \in [File -> Nat]
  BY FileAssumption DEF Init
<1>3. TypeInv
  BY <1>1, <1>2 DEF Init, TypeInv
<1> QED  BY <1>1, <1>3 DEF IInv, SortedInv, GroupsInv, DiagnosticsInv, LinesInv

LEMMA AddConflictIInv == IInv /\ AddConflict => IInv'
<1> SUFFICES ASSUME IInv, AddConflict PROVE IInv'
  OBVIOUS
<1>1. /\ stage = "adding" /\ groups = <<>> /\ DOMAIN groups = {}
      /\ diagnostics = <<>> /\ Len(diagnostics) = 0
      /\ UNCHANGED <<config, stage, groups, fakeLines, diagnostics>>
  BY DEF IInv, TypeInv, AddConflict
<1>2. conflicts' \in Seq(Reported)
  BY AppendProperties DEF IInv, TypeInv, AddConflict
<1>3. TypeInv'
  BY <1>1, <1>2 DEF IInv, TypeInv
<1> QED  BY <1>1, <1>3 DEF IInv, SortedInv, GroupsInv, DiagnosticsInv, LinesInv

LEMMA SortAndGroupIInv == IInv /\ SortAndGroup => IInv'
<1> SUFFICES ASSUME IInv, SortAndGroup PROVE IInv'
  OBVIOUS
<1>1. /\ stage = "adding" /\ diagnostics = <<>> /\ Len(diagnostics) = 0 /\ stage' = "reporting"
      /\ UNCHANGED <<config, fakeLines, diagnostics>>
  BY DEF IInv, TypeInv, SortAndGroup
<1>2. /\ conflicts' \in Seq(Reported)
      /\ \A i, j \in 1..Len(conflicts') :
           i < j => ~Before(conflicts'[j].position, conflicts'[i].position)
  BY SortedType DEF IInv, TypeInv, SortAndGroup
<1>3. groups' = Grouping'
  BY <1>1 DEF Grouping, SortAndGroup
<1>4. DOMAIN groups' \subseteq 1..Len(conflicts')
  BY <1>1, <1>2, <1>3 DEF Grouping, GroupConflicts, Ungrouped
<1>5. TypeInv'
  BY <1>1, <1>2, <1>4 DEF IInv, TypeInv
<1>6. SortedInv'
  BY <1>2 DEF SortedInv, Before
<1>7. GroupsInv' /\ DiagnosticsInv' /\ LinesInv'
  BY <1>1, <1>3 DEF GroupsInv, DiagnosticsInv, LinesInv
<1> QED  BY <1>5, <1>6, <1>7 DEF IInv

LEMMA SkipIInv == IInv /\ Skip => IInv'
<1> SUFFICES ASSUME IInv, Skip PROVE IInv'
  OBVIOUS
<1>1. PICK i \in DOMAIN groups : Suppressed(conflicts[i]) /\ groups' = Others(i)
  BY DEF Skip
<1>2. stage = "reporting" /\ UNCHANGED <<config, conflicts, stage, fakeLines, diagnostics>>
  BY DEF Skip
<1>3. DOMAIN groups' = DOMAIN groups \ {i} /\ \A j \in DOMAIN groups' : groups'[j] = groups[j]
  BY <1>1 DEF Others
<1>4. Grouping' = Grouping
  BY <1>2 DEF Grouping
<1>5. \A j : Suppressed(conflicts[j])' <=> Suppressed(conflicts[j])
  BY <1>2 DEF Suppressed
<1>6. TypeInv'
  BY <1>2, <1>3 DEF IInv, TypeInv
<1>7. SortedInv' /\ LinesInv'
  BY <1>2 DEF IInv, SortedInv, LinesInv, At
<1>8. GroupsInv'
  BY <1>1, <1>2, <1>3, <1>4, <1>5 DEF IInv, GroupsInv
<1>9. DiagnosticsInv'
  BY <1>2, <1>3, <1>4, <1>5 DEF IInv, DiagnosticsInv
<1> QED  BY <1>6, <1>7, <1>8, <1>9 DEF IInv

\* Padding never takes a line away, and reaches every line a fake file can have.
LEMMA PaddedType ==
  ASSUME fakeLines \in [File -> Nat], NEW file \in File, NEW line \in Nat
  PROVE  /\ Padded(file, line) \in Nat
         /\ fakeLines[file] <= Padded(file, line)
         /\ line <= FakeFileMaxLines => line <= Padded(file, line)
BY FileAssumption DEF Padded

LEMMA ReportIInv == IInv /\ Report => IInv'
<1> SUFFICES ASSUME IInv, Report PROVE IInv'
  OBVIOUS
<1> DEFINE At_(i) == conflicts[i].position
           LinesOf(i) ==
             IF IsFake(At_(i).file) THEN Padded(At_(i).file, At_(i).line) ELSE 0
<1>1. PICK i \in DOMAIN groups :
        /\ IsNext(i) /\ ~Suppressed(conflicts[i])
        /\ fakeLines' = [fakeLines EXCEPT ![At_(i).file] = LinesOf(i)]
        /\ \/ /\ IsFake(At_(i).file) => At_(i).line <= LinesOf(i)
              /\ diagnostics' = Append(diagnostics, [index |-> i, similar |-> groups[i]])
              /\ groups' = Others(i)
              /\ UNCHANGED stage
           \/ /\ IsFake(At_(i).file) /\ LinesOf(i) < At_(i).line
              /\ stage' = "panicked"
              /\ UNCHANGED <<diagnostics, groups>>
  BY DEF Report
<1>2. stage = "reporting" /\ UNCHANGED <<config, conflicts>>
  BY DEF Report
<1> DEFINE n == Len(diagnostics)
<1>3. /\ i \in 1..Len(conflicts) /\ Len(conflicts) \in Nat /\ n \in Nat
      /\ At_(i).file \in File /\ At_(i).line \in Nat
      /\ fakeLines \in [File -> Nat]
      /\ \A d \in 1..n : diagnostics[d].index \in 1..Len(conflicts)
  <2>1. i \in 1..Len(conflicts) /\ conflicts \in Seq(Reported) /\ fakeLines \in [File -> Nat]
    BY DEF IInv, TypeInv
  <2>2. At_(i).file \in File /\ At_(i).line \in Nat
    BY <2>1, ConflictType
  <2>3. Len(conflicts) \in Nat /\ n \in Nat
    BY LenProperties DEF IInv, TypeInv
  <2>4. \A d \in 1..n :
          diagnostics[d] \in [index : 1..Len(conflicts), similar : SUBSET (1..Len(conflicts))]
    BY ElementOfSeq DEF IInv, TypeInv
  <2> QED  BY <2>1, <2>2, <2>3, <2>4
<1>4. LinesOf(i) \in Nat /\ fakeLines' \in [File -> Nat]
  BY <1>1, <1>3, PaddedType
<1>5. Grouping' = Grouping
  BY <1>2 DEF Grouping
<1>6. \A j : Suppressed(conflicts[j])' <=> Suppressed(conflicts[j])
  BY <1>2 DEF Suppressed
<1>7. SortedInv'
  BY <1>1, <1>2 DEF IInv, SortedInv
<1>8. ASSUME NEW d \in 1..n, IsFake(At(d).file)
      PROVE  At(d).line <= fakeLines'[At(d).file]
  <2>1. At(d).file \in File /\ At(d).line \in Nat /\ At(d).line <= fakeLines[At(d).file]
    BY <1>3, <1>8, ConflictType DEF IInv, TypeInv, LinesInv, At
  <2>2. CASE At(d).file = At_(i).file
    <3>1. fakeLines[At(d).file] <= LinesOf(i)
      BY <1>3, <1>8, <2>2, PaddedType
    <3> QED  BY <1>1, <1>3, <1>4, <2>1, <2>2, <3>1
  <2>3. CASE At(d).file # At_(i).file
    BY <1>1, <1>3, <2>1, <2>3
  <2> QED  BY <2>2, <2>3
<1>9. CASE /\ IsFake(At_(i).file) => At_(i).line <= LinesOf(i)
           /\ diagnostics' = Append(diagnostics, [index |-> i, similar |-> groups[i]])
           /\ groups' = Others(i)
           /\ UNCHANGED stage
  <2>1. DOMAIN groups' = DOMAIN groups \ {i} /\ \A j \in DOMAIN groups' : groups'[j] = groups[j]
    BY <1>9 DEF Others
  <2>2. i \in DOMAIN Grouping /\ groups[i] = Grouping[i] /\ groups[i] \subseteq 1..Len(conflicts)
    BY <1>2, GroupingType DEF IInv, TypeInv, GroupsInv
  <2>3. /\ diagnostics' \in Seq([index : 1..Len(conflicts), similar : SUBSET (1..Len(conflicts))])
        /\ Len(diagnostics') = n + 1
        /\ diagnostics'[n + 1] = [index |-> i, similar |-> groups[i]]
        /\ \A d \in 1..n : diagnostics'[d] = diagnostics[d]
    BY <1>3, <1>9, <2>2, AppendProperties DEF IInv, TypeInv
  <2>4. TypeInv'
    BY <1>2, <1>4, <1>9, <2>1, <2>3 DEF IInv, TypeInv
  <2>5. GroupsInv'
    <3>1. ASSUME NEW j \in DOMAIN Grouping, j \notin DOMAIN groups', ~Suppressed(conflicts[j])
          PROVE  \E d \in 1..(n + 1) : diagnostics'[d].index = j
      <4>1. CASE j = i
        BY <1>3, <2>3, <4>1
      <4>2. CASE j # i
        <5>1. PICK d \in 1..n : diagnostics[d].index = j
          BY <1>2, <2>1, <3>1, <4>2 DEF IInv, GroupsInv
        <5> QED  BY <1>3, <2>3, <5>1
      <4> QED  BY <4>1, <4>2
    <3> QED  BY <1>2, <1>5, <1>6, <1>9, <2>1, <2>3, <3>1 DEF IInv, GroupsInv
  <2>6. DiagnosticsInv'
    <3>1. \A d \in 1..n : diagnostics[d].index < i
      BY <1>1 DEF IInv, DiagnosticsInv
    <3>2. \A j \in DOMAIN groups' : i < j
      BY <1>1, <1>3, <2>1 DEF IInv, TypeInv, IsNext
    <3>3. ASSUME NEW d \in 1..(n + 1)
          PROVE  /\ diagnostics'[d].index \in DOMAIN Grouping
                 /\ diagnostics'[d].similar = Grouping[diagnostics'[d].index]
                 /\ ~Suppressed(conflicts[diagnostics'[d].index])
                 /\ \A j \in DOMAIN groups' : diagnostics'[d].index < j
      <4>1. CASE d = n + 1
        BY <1>1, <2>2, <2>3, <3>2, <4>1
      <4>2. CASE d \in 1..n
        BY <2>1, <2>3, <4>2 DEF IInv, DiagnosticsInv
      <4> QED  BY <1>3, <4>1, <4>2
    <3>4. ASSUME NEW d \in 1..(n + 1), NEW e \in 1..(n + 1), d < e
          PROVE  diagnostics'[d].index < diagnostics'[e].index
      <4>1. d \in 1..n /\ diagnostics'[d].index = diagnostics[d].index
        BY <1>3, <2>3, <3>4
      <4>2. CASE e = n + 1
        BY <2>3, <3>1, <4>1, <4>2
      <4>3. CASE e \in 1..n
        BY <2>3, <3>4, <4>1, <4>3 DEF IInv, DiagnosticsInv
      <4> QED  BY <1>3, <4>2, <4>3
    <3> QED  BY <1>2, <1>5, <1>6, <2>3, <3>3, <3>4 DEF DiagnosticsInv
  <2>7. LinesInv'
    <3>1. ASSUME NEW d \in 1..(n + 1), IsFake(At(d)'.file)
          PROVE  At(d)'.line <= fakeLines'[At(d)'.file]
      <4>1. CASE d = n + 1
        <5>1. At(d)' = At_(i)
          BY <1>2, <2>3, <4>1 DEF At
        <5> QED  BY <1>1, <1>3, <1>4, <1>9, <3>1, <5>1
      <4>2. CASE d \in 1..n
        <5>1. At(d)' = At(d)
          BY <1>2, <2>3, <4>2 DEF At
        <5> QED  BY <1>8, <3>1, <4>2, <5>1
      <4> QED  BY <1>3, <4>1, <4>2
    <3>2. stage' # "panicked"
      BY <1>2, <1>9
    <3> QED  BY <2>3, <3>1, <3>2 DEF LinesInv, IsFake
  <2> QED  BY <1>7, <2>4, <2>5, <2>6, <2>7 DEF IInv
<1>10. CASE /\ IsFake(At_(i).file) /\ LinesOf(i) < At_(i).line
            /\ stage' = "panicked"
            /\ UNCHANGED <<diagnostics, groups>>
  <2>1. TypeInv' /\ GroupsInv' /\ DiagnosticsInv'
    BY <1>2, <1>4, <1>5, <1>6, <1>10 DEF IInv, TypeInv, GroupsInv, DiagnosticsInv
  <2>2. At_(i).line > FakeFileMaxLines
    <3>1. LinesOf(i) = Padded(At_(i).file, At_(i).line)
      BY <1>10
    <3>2. At_(i).line <= FakeFileMaxLines => At_(i).line <= Padded(At_(i).file, At_(i).line)
      BY <1>3, PaddedType
    <3> HIDE DEF LinesOf
    <3> QED  BY <1>3, <1>4, <1>10, <3>1, <3>2, FileAssumption
  <2>3. \A d \in 1..n : At(d)' = At(d)
    BY <1>2, <1>10 DEF At
  <2>4. LinesInv'
    BY <1>2, <1>3, <1>8, <1>10, <2>2, <2>3 DEF LinesInv, IsFake
  <2> QED  BY <1>7, <2>1, <2>4 DEF IInv
<1> QED  BY <1>1, <1>9, <1>10

LEMMA StutterIInv == IInv /\ (Return \/ UNCHANGED vars) => IInv'
<1> SUFFICES ASSUME IInv, Return \/ UNCHANGED vars PROVE IInv'
  OBVIOUS
<1>1. /\ UNCHANGED <<config, conflicts, groups, fakeLines, diagnostics>>
      /\ \/ stage' = stage
         \/ stage = "reporting" /\ stage' = "returned" /\ DOMAIN groups = {}
  BY DEF Return, vars
<1>2. Grouping' = Grouping
  BY <1>1 DEF Grouping
<1>3. \A j : Suppressed(conflicts[j])' <=> Suppressed(conflicts[j])
  BY <1>1 DEF Suppressed
<1>4. TypeInv' /\ SortedInv' /\ LinesInv'
  BY <1>1 DEF IInv, TypeInv, SortedInv, LinesInv, At
<1>5. GroupsInv' /\ DiagnosticsInv'
  BY <1>1, <1>2, <1>3 DEF IInv, GroupsInv, DiagnosticsInv
<1> QED  BY <1>4, <1>5 DEF IInv

LEMMA IInvHolds == Spec => []IInv
<1>1. Init => IInv
  BY InitIInv
<1>2. IInv /\ [Next]_vars => IInv'
  BY AddConflictIInv, SortAndGroupIInv, SkipIInv, ReportIInv, StutterIInv DEF Next
<1> QED  BY <1>1, <1>2, PTL DEF Spec

-----------------------------------------------------------------------------
(****************************************************************************)
(* What it gives.                                                           *)
(****************************************************************************)

\* toPos pads fake files while the diagnostics are built: a position handed out
\* before stays a line of its file, and LineStart only panics for a line beyond
\* the 65,536 lines of a fake file, whatever files and lines the facts name.
THEOREM FakeLinesStayValid == Spec => []LinesStayValid
<1>1. IInv => LinesStayValid
  BY LenProperties DEF IInv, TypeInv, LinesInv, LinesStayValid
<1> QED  BY <1>1, IInvHolds, PTL

\* The nolint ranges of the package and of those upstream hold for every
\* diagnostic, the one of a group included: grouping comes before the filter.
THEOREM NoLintRespected == Spec => []NoneAtNoLint
<1>1. ASSUME IInv, NEW d \in DOMAIN diagnostics, NEW r \in config.nolint, r.file = At(d).file
      PROVE  At(d).line \notin r.from .. r.to
  <2>1. d \in 1..Len(diagnostics) /\ ~Suppressed(conflicts[diagnostics[d].index])
    BY <1>1, LenProperties DEF IInv, TypeInv, DiagnosticsInv
  <2>2. r \in [file : File, from : Line, to : Line]
    BY <1>1, NoLintAssumption DEF IInv, TypeInv
  <2>3. r.from \in Nat /\ r.to \in Nat
    BY <2>2, FileAssumption
  <2> QED  BY <1>1, <2>1, <2>3 DEF Suppressed, At
<1>2. IInv => NoneAtNoLint
  BY <1>1 DEF NoneAtNoLint
<1> QED  BY <1>2, IInvHolds, PTL

\* The diagnostics of a package come in the order of their files and lines, also
\* when groups were formed and conflicts left out between them.
THEOREM DiagnosticsInOrder == Spec => []InOrder
<1>1. ASSUME IInv, NEW d \in DOMAIN diagnostics, NEW e \in DOMAIN diagnostics, d < e
      PROVE  At(d).file < At(e).file \/ (At(d).file = At(e).file /\ At(d).line <= At(e).line)
  <2>1. d \in 1..Len(diagnostics) /\ e \in 1..Len(diagnostics)
    BY LenProperties DEF IInv, TypeInv
  <2>2. /\ diagnostics[d].index \in 1..Len(conflicts) /\ diagnostics[e].index \in 1..Len(conflicts)
        /\ stage # "adding"
    <3>1. \A k \in 1..Len(diagnostics) :
            diagnostics[k] \in [index : 1..Len(conflicts), similar : SUBSET (1..Len(conflicts))]
      BY <1>1, ElementOfSeq DEF IInv, TypeInv
    <3>2. stage # "adding"
      BY <1>1, <2>1 DEF IInv, TypeInv
    <3> QED  BY <2>1, <3>1, <3>2
  <2>3. diagnostics[d].index < diagnostics[e].index
    BY <1>1, <2>1 DEF IInv, DiagnosticsInv
  <2>4. ~Before(At(e), At(d))
    BY <1>1, <2>2, <2>3 DEF IInv, SortedInv, At
  <2>5. /\ At(d).file \in Nat /\ At(d).line \in Nat
        /\ At(e).file \in Nat /\ At(e).line \in Nat
    BY <1>1, <2>2, ConflictType DEF IInv, TypeInv, At
  <2> QED  BY <2>4, <2>5 DEF Before
<1>2. IInv => InOrder
  BY <1>1 DEF InOrder
<1> QED  BY <1>2, IInvHolds, PTL

\* A set of numbers that is not empty has a least one.
LEMMA LeastElement ==
  ASSUME NEW n \in Nat, NEW S \in SUBSET (1..n), S # {}
  PROVE  \E m \in S : \A k \in S : m <= k
<1> DEFINE UpTo(k) == {m \in S : m <= k}
           T == {UpTo(k) : k \in S}
<1>1. IsFiniteSet(S)
  <2>1. IsFiniteSet(1..n)
    BY FS_Interval
  <2> QED  BY <2>1, FS_Subset
<1>2. T \subseteq FiniteSubsetsOf(S) /\ T # {}
  <2>1. \A k \in S : UpTo(k) \in SUBSET S /\ IsFiniteSet(UpTo(k))
    BY <1>1, FS_Subset
  <2> QED  BY <2>1 DEF FiniteSubsetsOf
<1>3. PICK U \in T : \A V \in T : <<V, U>> \notin StrictSubsetOrdering(S)
  BY <1>2, FS_StrictSubsetOrderingWellFounded, WFMin
<1>4. PICK m \in S : U = UpTo(m)
  BY <1>3
<1>5. ASSUME NEW k \in S, k < m
      PROVE  FALSE
  <2>1. UpTo(k) \in T /\ UpTo(k) \subseteq UpTo(m) /\ m \in UpTo(m) /\ m \notin UpTo(k)
    <3>1. \A l \in S : l \in Nat
      OBVIOUS
    <3>2. UpTo(k) \in T
      OBVIOUS
    <3>3. \A l \in S : l <= k => l <= m
      BY <1>5, <3>1
    <3>4. UpTo(k) \subseteq UpTo(m)
      BY <3>3
    <3>5. m \in UpTo(m) /\ m \notin UpTo(k)
      BY <1>5, <3>1
    <3> QED  BY <3>2, <3>4, <3>5
  <2> HIDE DEF T
  <2>2. UpTo(k) \in SUBSET S /\ UpTo(m) \in SUBSET S /\ UpTo(k) # UpTo(m)
    BY <2>1
  <2> HIDE DEF UpTo
  <2>3. <<UpTo(k), UpTo(m)>> \in StrictSubsetOrdering(S)
    BY <2>1, <2>2 DEF StrictSubsetOrdering
  <2> QED  BY <1>3, <1>4, <2>1, <2>3
<1> QED  BY <1>5

\* groupConflicts leaves no conflict out: each one is the first with its key, or
\* it is similar to that one, which comes before it; and to no other one.
LEMMA EachGroupedOnce ==
  ASSUME conflicts \in Seq(Reported)
  PROVE  /\ \A j \in 1..Len(conflicts) : \E i \in DOMAIN Grouping : j = i \/ j \in Grouping[i]
         /\ \A i, j \in DOMAIN Grouping :
              /\ j \notin Grouping[i]
              /\ i # j => Grouping[i] \cap Grouping[j] = {}
         /\ \A i \in DOMAIN Grouping : \A j \in Grouping[i] : i < j
<1> DEFINE n == Len(conflicts)
           K(i) == Key(conflicts[i])
<1>1. n \in Nat /\ DOMAIN conflicts = 1..n
  BY LenProperties
<1>2. CASE ~config.grouping
  BY <1>1, <1>2 DEF Grouping, Ungrouped
<1>3. CASE config.grouping
  <2>1. /\ DOMAIN Grouping = {i \in 1..n : FirstWithKey(conflicts, i)}
        /\ \A i \in DOMAIN Grouping : Grouping[i] = {j \in 1..n : i < j /\ K(j) = K(i)}
    BY <1>1, <1>3 DEF Grouping, GroupConflicts
  <2>2. \A i \in 1..n : FirstWithKey(conflicts, i) <=> \A j \in 1..n : K(j) = K(i) => i <= j
    BY <1>1 DEF FirstWithKey
  <2> HIDE DEF K
  <2>3. ASSUME NEW j \in 1..n
        PROVE  \E i \in DOMAIN Grouping : j = i \/ j \in Grouping[i]
    <3>1. PICK i \in {k \in 1..n : K(k) = K(j)} : \A k \in {l \in 1..n : K(l) = K(j)} : i <= k
      BY <1>1, LeastElement
    <3>2. i \in DOMAIN Grouping
      BY <2>1, <2>2, <3>1
    <3> QED  BY <1>1, <2>1, <3>1, <3>2
  <2>4. \A i \in DOMAIN Grouping : \A j \in DOMAIN Grouping : K(i) = K(j) => i = j
    BY <1>1, <2>1, <2>2
  <2> QED  BY <1>1, <2>1, <2>2, <2>3, <2>4
<1> QED  BY <1>2, <1>3

\* Grouping loses no conflict and shows none twice: without a filter every one is
\* the conflict of exactly one diagnostic or similar to it, and never shown under
\* one that comes after it.
THEOREM ConflictsShownOnce == Spec => []EachShownOnce
<1>1. ASSUME IInv, stage = "returned", config.nolint = {}, ~config.excludeTestFiles
      PROVE  /\ Shown = DOMAIN conflicts
             /\ \A d, e \in DOMAIN diagnostics :
                  /\ d # e => diagnostics[d].similar \cap diagnostics[e].similar = {}
                  /\ diagnostics[d].index \notin diagnostics[e].similar
                  /\ \A c \in diagnostics[d].similar :
                       ~Before(conflicts[c].position, conflicts[diagnostics[d].index].position)
  <2>1. /\ DOMAIN conflicts = 1..Len(conflicts) /\ DOMAIN diagnostics = 1..Len(diagnostics)
        /\ conflicts \in Seq(Reported)
    BY <1>1, LenProperties DEF IInv, TypeInv
  <2>2. \A c : ~Suppressed(c)
    BY <1>1 DEF Suppressed
  <2>3. /\ \A i \in DOMAIN Grouping : \E d \in DOMAIN diagnostics : diagnostics[d].index = i
        /\ DOMAIN Grouping \subseteq 1..Len(conflicts)
        /\ \A i \in DOMAIN Grouping : Grouping[i] \subseteq 1..Len(conflicts)
    BY <1>1, <2>1, <2>2, GroupingType DEF IInv, TypeInv, GroupsInv
  <2>4. /\ \A d \in DOMAIN diagnostics :
             /\ diagnostics[d].index \in DOMAIN Grouping
             /\ diagnostics[d].similar = Grouping[diagnostics[d].index]
        /\ \A d, e \in DOMAIN diagnostics : d # e => diagnostics[d].index # diagnostics[e].index
    <3>1. \A d, e \in DOMAIN diagnostics :
            d < e => /\ diagnostics[d].index < diagnostics[e].index
                     /\ diagnostics[d].index \in Nat /\ diagnostics[e].index \in Nat
      BY <1>1, <2>1, <2>3 DEF IInv, DiagnosticsInv
    <3>2. \A d, e \in DOMAIN diagnostics : d # e => d < e \/ e < d
      BY <1>1, <2>1, LenProperties DEF IInv, TypeInv
    <3> QED  BY <1>1, <2>1, <3>1, <3>2 DEF IInv, DiagnosticsInv
  <2>5. \A c \in Shown : c \in DOMAIN conflicts
    BY <2>1, <2>3, <2>4 DEF Shown
  <2>6. ASSUME NEW c \in DOMAIN conflicts
        PROVE  c \in Shown
    <3>1. PICK i \in DOMAIN Grouping : c = i \/ c \in Grouping[i]
      BY <2>1, EachGroupedOnce
    <3>2. PICK d \in DOMAIN diagnostics : diagnostics[d].index = i
      BY <2>3
    <3> QED  BY <2>4, <3>1, <3>2 DEF Shown
  <2>7. \A d, e \in DOMAIN diagnostics :
          /\ d # e => diagnostics[d].similar \cap diagnostics[e].similar = {}
          /\ diagnostics[d].index \notin diagnostics[e].similar
    BY <2>1, <2>4, EachGroupedOnce
  <2>8. ASSUME NEW d \in DOMAIN diagnostics, NEW c \in diagnostics[d].similar
        PROVE  ~Before(conflicts[c].position, conflicts[diagnostics[d].index].position)
    <3>1. /\ diagnostics[d].index < c /\ c \in 1..Len(conflicts)
          /\ diagnostics[d].index \in 1..Len(conflicts)
      BY <2>1, <2>3, <2>4, EachGroupedOnce
    <3> QED  BY <1>1, <3>1 DEF IInv, SortedInv
  <2> QED  BY <2>5, <2>6, <2>7, <2>8
<1>2. IInv => EachShownOnce
  BY <1>1 DEF EachShownOnce
<1> QED  BY <1>2, IInvHolds, PTL

=============================================================================
