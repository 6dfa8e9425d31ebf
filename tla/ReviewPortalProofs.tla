-------------------------- MODULE ReviewPortalProofs --------------------------
(***************************************************************************)
(* Proofs about ReviewPortal, for every number of runs, tabs, rows and     *)
(* generations.                                                            *)
(***************************************************************************)
EXTENDS ReviewPortal, SequenceTheorems, TLAPS

\* Popping position i of a review queue: what list.pop(i) leaves.
LEMMA RemoveAtFacts ==
  ASSUME NEW S, NEW s \in Seq(S), NEW i \in DOMAIN s
  PROVE  /\ RemoveAt(s, i) \in Seq(S)
         /\ Len(RemoveAt(s, i)) = Len(s) - 1
         /\ \A j \in DOMAIN RemoveAt(s, i) :
              /\ (IF j < i THEN j ELSE j + 1) \in DOMAIN s
              /\ RemoveAt(s, i)[j] = s[IF j < i THEN j ELSE j + 1]
<1>1. i \in 1..Len(s) /\ Len(s) \in Nat /\ DOMAIN s = 1..Len(s)
  BY LenProperties
<1> DEFINE a == SubSeq(s, 1, i - 1)
           b == SubSeq(s, i + 1, Len(s))
<1>2. /\ a \in Seq(S) /\ Len(a) = i - 1
      /\ \A j \in 1..(i - 1) : a[j] = s[j]
  BY <1>1, SubSeqProperties
<1>3. /\ b \in Seq(S) /\ Len(b) = Len(s) - i
      /\ \A j \in 1..(Len(s) - i) : b[j] = s[i + j]
  BY <1>1, SubSeqProperties
<1> HIDE DEF a, b
<1>4. /\ a \o b \in Seq(S) /\ Len(a \o b) = Len(s) - 1
      /\ \A j \in 1..(Len(s) - 1) : (a \o b)[j] = IF j <= i - 1 THEN a[j] ELSE b[j - (i - 1)]
  <2>1. /\ a \o b \in Seq(S)
        /\ Len(a \o b) = Len(a) + Len(b)
        /\ \A j \in 1..(Len(a) + Len(b)) :
             (a \o b)[j] = IF j <= Len(a) THEN a[j] ELSE b[j - Len(a)]
    BY <1>2, <1>3, ConcatProperties, Zenon
  <2>2. Len(a) = i - 1 /\ Len(b) = Len(s) - i /\ Len(a) + Len(b) = Len(s) - 1
    BY <1>1, <1>2, <1>3
  <2>. QED BY <2>1, <2>2
<1>5. RemoveAt(s, i) = a \o b
  BY DEF RemoveAt, a, b
<1>6. DOMAIN RemoveAt(s, i) = 1..(Len(s) - 1)
  BY <1>4, <1>5, LenProperties
<1>7. ASSUME NEW j \in 1..(Len(s) - 1)
      PROVE  /\ (IF j < i THEN j ELSE j + 1) \in DOMAIN s
             /\ (a \o b)[j] = s[IF j < i THEN j ELSE j + 1]
  <2>1. CASE j < i
    BY <2>1, <1>1, <1>2, <1>4
  <2>2. CASE ~(j < i)
    <3>1. j - (i - 1) \in 1..(Len(s) - i) /\ i + (j - (i - 1)) = j + 1
      BY <2>2, <1>1
    <3>2. (a \o b)[j] = b[j - (i - 1)]
      BY <2>2, <1>1, <1>4
    <3>. QED BY <3>1, <3>2, <2>2, <1>1, <1>3
  <2>. QED BY <2>1, <2>2
<1>. QED BY <1>4, <1>5, <1>6, <1>7

-------------------------------------------------------------------------------
(* Type correctness *)

LEMMA ApplyReviewEditType ==
  ASSUME NEW row \in Row, NEW p \in Decision
  PROVE  /\ ApplyReviewEdit(row, p) \in Row
         /\ ApplyReviewEdit(row, p).ref = row.ref
<1> DEFINE csu == IF p.csu = Keep THEN row.csu ELSE p.csu
           rfd == IF p.rfd = Keep THEN row.rfd ELSE p.rfd
<1>1. csu \in 0..3 /\ rfd \in ListedRfd \cup OtherRfd \cup {None}
  BY DEF Row, Decision
<1>2. ApplyReviewEdit(row, p) = [row EXCEPT !.csu = csu, !.rfd = rfd]
  BY DEF ApplyReviewEdit
<1> HIDE DEF csu, rfd
<1>. QED BY <1>1, <1>2 DEF Row

LEMMA DecidedType ==
  ASSUME NEW result \in RunResult, NEW i \in DOMAIN result.review_rows,
         NEW row \in Row, NEW action
  PROVE  Decided(result, i, row, action) \in RunResult
<1>1. /\ result.clean_rows \in Seq(Row) /\ result.review_rows \in Seq(Row)
      /\ result.excluded_count \in Nat /\ result.artifacts \in Artifacts
  BY DEF RunResult
<1>2. Append(result.clean_rows, row) \in Seq(Row)
  BY <1>1
<1>3. RemoveAt(result.review_rows, i) \in Seq(Row)
  BY <1>1, RemoveAtFacts
<1>4. [result.review_rows EXCEPT ![i] = row] \in Seq(Row)
  BY <1>1, ExceptSeq
<1> DEFINE clean == Append(result.clean_rows, row)
           popped == RemoveAt(result.review_rows, i)
           edited == [result.review_rows EXCEPT ![i] = row]
           counted == result.excluded_count + 1
<1>5. clean \in Seq(Row) /\ popped \in Seq(Row) /\ edited \in Seq(Row) /\ counted \in Nat
  BY <1>1, <1>2, <1>3, <1>4
<1>6. CASE action = "approve"
  <2>1. Decided(result, i, row, action)
          = [result EXCEPT !.clean_rows = clean, !.review_rows = popped]
    BY <1>6 DEF Decided, RunResult
  <2> HIDE DEF clean, popped
  <2>. QED BY <2>1, <1>5 DEF RunResult
<1>7. CASE action = "exclude"
  <2>1. Decided(result, i, row, action)
          = [result EXCEPT !.excluded_count = counted, !.review_rows = popped]
    BY <1>7 DEF Decided, RunResult
  <2> HIDE DEF counted, popped
  <2>. QED BY <2>1, <1>5 DEF RunResult
<1>8. CASE action \notin {"approve", "exclude"}
  <2>1. Decided(result, i, row, action) = [result EXCEPT !.review_rows = edited]
    BY <1>8 DEF Decided, RunResult
  <2> HIDE DEF edited
  <2>. QED BY <2>1, <1>5 DEF RunResult
<1>. QED BY <1>6, <1>7, <1>8

LEMMA AdmitType ==
  ASSUME NEW in \in Intake
  PROVE  Admit(in) \in RunResult
BY PortalAssumption DEF Admit, RunResult, Artifacts, NoArtifacts

\* What the two ways of ending a generation leave in the artifacts.
LEMMA GeneratedType ==
  ASSUME NEW result \in RunResult, NEW b \in 1..MaxBatch
  PROVE  LET bank == Rendered(result, "bank_csr", b)
             internal == Rendered(result, "internal_csr", b)
         IN /\ bank \in Workbook /\ internal \in Workbook
            /\ WithPackage(bank, internal, b) \in Artifacts
            /\ WithoutPackage(result.artifacts, bank, internal) \in Artifacts
            /\ WithoutPackage(result.artifacts, bank, internal).bank_csr = bank
            /\ WithoutPackage(result.artifacts, bank, internal).internal_csr = internal
            /\ WithoutPackage(result.artifacts, bank, internal).bank_package = None
<1> DEFINE bank == Rendered(result, "bank_csr", b)
           internal == Rendered(result, "internal_csr", b)
<1>1. bank \in Workbook /\ internal \in Workbook
  BY DEF Rendered, Workbook, RunResult, WORKBOOK_KEYS, ARTIFACT_KEYS
<1>2. result.artifacts \in Artifacts
  BY DEF RunResult
<1> HIDE DEF bank, internal
<1>3. WithPackage(bank, internal, b) \in Artifacts
  BY <1>1 DEF WithPackage, Artifacts, Package
<1>4. /\ WithoutPackage(result.artifacts, bank, internal) \in Artifacts
      /\ WithoutPackage(result.artifacts, bank, internal).bank_csr = bank
      /\ WithoutPackage(result.artifacts, bank, internal).internal_csr = internal
      /\ WithoutPackage(result.artifacts, bank, internal).bank_package = None
  BY <1>1, <1>2 DEF WithoutPackage, Artifacts
<1>. QED BY <1>1, <1>3, <1>4 DEF bank, internal

LEMMA FormsType ==
  ASSUME NEW row \in Row, NEW form \in UNION {Forms(row, kind) : kind \in FormKind}
  PROVE  form.csu \in 1..3 \cup {Keep} /\ form.rfd \in ListedRfd \cup {None, Keep}
<1>1. ShownCsu(row) \in 1..3 /\ ShownRfd(row) \in ListedRfd \cup {None}
  BY DEF ShownCsu, ShownRfd, Row
<1>2. PICK kind \in FormKind : form \in Forms(row, kind)
  OBVIOUS
<1>. QED BY <1>1, <1>2 DEF Forms

\* Every state the portal reaches is well-typed, and a request that awaits its
\* body belongs to a stored run.
THEOREM Typing == Spec => []TypeOK
<1>1. Init => TypeOK
  BY PortalAssumption DEF Init, TypeOK
<1>2. TypeOK /\ [Next]_vars => TypeOK'
  <2> SUFFICES ASSUME TypeOK, [Next]_vars PROVE TypeOK'
    OBVIOUS
  <2> USE DEF TypeOK
  <2>1. CASE UNCHANGED vars
    BY <2>1 DEF vars
  <2>2. CASE Restart
    BY <2>2 DEF Restart
  <2>3. ASSUME NEW r \in Run, Process(r) PROVE TypeOK'
    <3>1. PICK in \in Intake : /\ run_store' = [run_store EXCEPT ![r] = Admit(in)]
                             /\ admitted' = [admitted EXCEPT ![r] = in]
      BY <2>3 DEF Process
    <3>2. Admit(in) \in RunResult
      BY AdmitType
    <3>3. in # None
      BY NoneAssumption
    <3>. QED BY <2>3, <3>1, <3>2, <3>3, NoneAssumption DEF Process
  <2>4. ASSUME NEW r \in Run, GenerateAll(r) \/ ArchiveFails(r) PROVE TypeOK'
    <3>1. run_store[r] \in RunResult /\ batch + 1 \in 1..MaxBatch
      BY <2>4, PortalAssumption DEF GenerateAll, ArchiveFails, MayGenerate
    <3>2. PICK new \in Artifacts : run_store' = [run_store EXCEPT ![r].artifacts = new]
      BY <2>4, <3>1, GeneratedType DEF GenerateAll, ArchiveFails
    <3>3. run_store'[r] \in RunResult
      BY <3>1, <3>2 DEF RunResult
    <3>4. /\ batch' = batch + 1 /\ UNCHANGED <<page, post, admitted>>
          /\ generation_errors' \subseteq generation_errors \cup {r}
      BY <2>4 DEF GenerateAll, ArchiveFails, NoteFailure
    <3>. QED BY <3>1, <3>2, <3>3, <3>4, NoneAssumption
  <2>5. ASSUME NEW r \in Run, RenderFails(r) PROVE TypeOK'
    BY <2>5 DEF RenderFails, NoteFailure, MayGenerate
  <2>6. ASSUME NEW c \in Client, PostDecision(c) PROVE TypeOK'
    <3>1. page[c] \in Page
      BY <2>6 DEF PostDecision
    <3>2. PICK i \in DOMAIN page[c].rows,
               action \in {"approve", "exclude", "edit", "invalid"}, field \in TargetField :
            \E form \in UNION {Forms(page[c].rows[i], kind) : kind \in FormKind} :
              post' = [post EXCEPT ![c] =
                [run |-> page[c].run, target |-> TargetOf(field, page[c].rows[i], i),
                 action |-> action, csu |-> form.csu, rfd |-> form.rfd, seen |-> page[c].rows[i]]]
      BY <2>6 DEF PostDecision
    <3> PICK form \in UNION {Forms(page[c].rows[i], kind) : kind \in FormKind} :
              post' = [post EXCEPT ![c] =
                [run |-> page[c].run, target |-> TargetOf(field, page[c].rows[i], i),
                 action |-> action, csu |-> form.csu, rfd |-> form.rfd, seen |-> page[c].rows[i]]]
      BY <3>2
    <3>3. i \in Nat /\ page[c].rows[i] \in Row
      BY <3>1, ElementOfSeq, LenProperties DEF Page
    <3>4. form.csu \in 1..3 \cup {Keep} /\ form.rfd \in ListedRfd \cup {None, Keep}
      BY <3>3, FormsType
    <3>5. TargetOf(field, page[c].rows[i], i) \in Target
      BY <3>3, PortalAssumption DEF TargetOf, Target, Row
    <3>6. [run |-> page[c].run, target |-> TargetOf(field, page[c].rows[i], i),
           action |-> action, csu |-> form.csu, rfd |-> form.rfd,
           seen |-> page[c].rows[i]] \in Decision
      BY <3>1, <3>3, <3>4, <3>5 DEF Decision, Page
    <3>. QED BY <2>6, <3>1, <3>6 DEF PostDecision, Page
  <2>7. ASSUME NEW c \in Client, ApplyDecision(c) PROVE TypeOK'
    <3>1. post[c] \in Decision /\ run_store[post[c].run] \in RunResult /\ post[c].run \in Run
      BY <2>7 DEF ApplyDecision, Decision
    <3> DEFINE result == run_store[post[c].run]
    <3>2. PICK i \in DOMAIN result.review_rows :
            run_store' = [run_store EXCEPT ![post[c].run] =
               Decided(result, i, ApplyReviewEdit(result.review_rows[i], post[c]), post[c].action)]
      BY <2>7 DEF ApplyDecision
    <3>3. result.review_rows[i] \in Row
      BY <3>1, ElementOfSeq DEF RunResult
    <3>4. Decided(result, i, ApplyReviewEdit(result.review_rows[i], post[c]), post[c].action)
            \in RunResult
      BY <3>1, <3>3, DecidedType, ApplyReviewEditType
    <3>. QED BY <2>7, <3>1, <3>2, <3>4, NoneAssumption DEF ApplyDecision
  <2>8. ASSUME NEW c \in Client, RejectDecision(c) PROVE TypeOK'
    BY <2>8 DEF RejectDecision
  <2>9. ASSUME NEW c \in Client, NEW r \in Run, GetReview(c, r) PROVE TypeOK'
    <3>1. [run |-> r, rows |-> run_store[r].review_rows] \in Page
      BY <2>9 DEF GetReview, Page, RunResult
    <3>. QED BY <2>9, <3>1 DEF GetReview
  <2>. QED
    BY <2>1, <2>2, <2>3, <2>4, <2>5, <2>6, <2>7, <2>8, <2>9 DEF Next
<1>. QED BY <1>1, <1>2, PTL DEF Spec

-------------------------------------------------------------------------------
(* What a step can do to one run *)

\* The two shapes of the artifacts after a generation of number b.
FullSet(result, b) ==
  WithPackage(Rendered(result, "bank_csr", b), Rendered(result, "internal_csr", b), b)
HalfSet(result, b) ==
  WithoutPackage(result.artifacts,
                 Rendered(result, "bank_csr", b), Rendered(result, "internal_csr", b))

KeepsError(r) == r \in generation_errors => r \in generation_errors'

Stays(r) ==
  run_store'[r] = run_store[r] /\ admitted'[r] = admitted[r] /\ KeepsError(r)

Enters(r) == admitted'[r] \in Intake /\ run_store'[r] = Admit(admitted'[r])

IsDecided(r) ==
  /\ run_store[r] # None /\ admitted'[r] = admitted[r] /\ KeepsError(r)
  /\ \E i \in DOMAIN run_store[r].review_rows, row \in Row,
        action \in {"approve", "exclude", "edit"} :
       /\ row.ref = run_store[r].review_rows[i].ref
       /\ run_store'[r] = Decided(run_store[r], i, row, action)

IsGenerated(r) ==
  /\ run_store[r] # None /\ run_store[r].review_rows = <<>> /\ admitted'[r] = admitted[r]
  /\ \E b \in 1..MaxBatch :
       \/ run_store'[r] = [run_store[r] EXCEPT !.artifacts = FullSet(run_store[r], b)]
       \/ /\ run_store'[r] = [run_store[r] EXCEPT !.artifacts = HalfSet(run_store[r], b)]
          /\ r \in generation_errors'

\* A run that is stored after a step was left alone, entered, decided on or
\* generated from.
LEMMA StoreStep ==
  ASSUME TypeOK, [Next]_vars, NEW r \in Run, run_store'[r] # None
  PROVE  Stays(r) \/ Enters(r) \/ IsDecided(r) \/ IsGenerated(r)
<1> USE DEF TypeOK
<1>1. CASE UNCHANGED vars
  BY <1>1 DEF vars, Stays, KeepsError
<1>2. CASE Restart
  BY <1>2 DEF Restart
<1>3. ASSUME NEW q \in Run, Process(q) PROVE Stays(r) \/ Enters(r)
  <2>1. CASE q = r
    BY <1>3, <2>1 DEF Process, Enters
  <2>2. CASE q # r
    BY <1>3, <2>2 DEF Process, Stays, KeepsError
  <2>. QED BY <2>1, <2>2
<1>4. ASSUME NEW q \in Run, GenerateAll(q) \/ ArchiveFails(q) PROVE Stays(r) \/ IsGenerated(r)
  <2>1. CASE q = r
    <3>1. /\ run_store[r] \in RunResult /\ run_store[r].review_rows = <<>>
          /\ admitted'[r] = admitted[r] /\ batch + 1 \in 1..MaxBatch
      BY <1>4, <2>1, PortalAssumption DEF GenerateAll, ArchiveFails, MayGenerate
    <3>2. \/ run_store'[r] = [run_store[r] EXCEPT !.artifacts = FullSet(run_store[r], batch + 1)]
          \/ /\ run_store'[r] = [run_store[r] EXCEPT !.artifacts = HalfSet(run_store[r], batch + 1)]
             /\ r \in generation_errors'
      BY <1>4, <2>1, <3>1 DEF GenerateAll, ArchiveFails, FullSet, HalfSet, NoteFailure, RunResult
    <3>3. run_store[r] # None
      BY <3>1, NoneAssumption
    <3>. QED BY <3>1, <3>2, <3>3 DEF IsGenerated
  <2>2. CASE q # r
    BY <1>4, <2>2 DEF GenerateAll, ArchiveFails, NoteFailure, Stays, KeepsError
  <2>. QED BY <2>1, <2>2
<1>5. ASSUME NEW q \in Run, RenderFails(q) PROVE Stays(r)
  BY <1>5 DEF RenderFails, NoteFailure, Stays, KeepsError
<1>6. ASSUME NEW c \in Client, PostDecision(c) \/ RejectDecision(c) PROVE Stays(r)
  BY <1>6 DEF PostDecision, RejectDecision, Stays, KeepsError
<1>7. ASSUME NEW c \in Client, ApplyDecision(c) PROVE Stays(r) \/ IsDecided(r)
  <2>1. /\ post[c] \in Decision /\ post[c].run \in Run /\ post[c].action \in {"approve", "exclude", "edit"}
        /\ run_store[post[c].run] \in RunResult
        /\ UNCHANGED <<generation_errors, admitted>>
    BY <1>7 DEF ApplyDecision, Decision
  <2>2. PICK i \in DOMAIN run_store[post[c].run].review_rows :
          run_store' = [run_store EXCEPT ![post[c].run] =
             Decided(run_store[post[c].run], i,
                     ApplyReviewEdit(run_store[post[c].run].review_rows[i], post[c]),
                     post[c].action)]
    BY <1>7 DEF ApplyDecision
  <2>3. run_store[post[c].run].review_rows[i] \in Row
    BY <2>1, ElementOfSeq DEF RunResult
  <2> DEFINE row == ApplyReviewEdit(run_store[post[c].run].review_rows[i], post[c])
  <2>4. row \in Row /\ row.ref = run_store[post[c].run].review_rows[i].ref
    BY <2>1, <2>3, ApplyReviewEditType
  <2> HIDE DEF row
  <2>5. run_store' = [run_store EXCEPT ![post[c].run] =
           Decided(run_store[post[c].run], i, row, post[c].action)]
    BY <2>2 DEF row
  <2>6. CASE post[c].run = r
    <3>1. run_store'[r] = Decided(run_store[r], i, row, post[c].action)
      BY <2>5, <2>6
    <3>. QED BY <2>1, <2>4, <2>6, <3>1, NoneAssumption DEF IsDecided, KeepsError
  <2>7. CASE post[c].run # r
    BY <2>1, <2>5, <2>7 DEF Stays, KeepsError
  <2>. QED BY <2>6, <2>7
<1>8. ASSUME NEW c \in Client, NEW q \in Run, GetReview(c, q) PROVE Stays(r)
  BY <1>8 DEF GetReview, Stays, KeepsError
<1>. QED BY <1>1, <1>2, <1>3, <1>4, <1>5, <1>6, <1>7, <1>8 DEF Next

-------------------------------------------------------------------------------
(* The rows are accounted for *)

LEMMA DecidedCount ==
  ASSUME NEW result \in RunResult, NEW i \in DOMAIN result.review_rows,
         NEW row \in Row, NEW action \in {"approve", "exclude", "edit"}
  PROVE  CountOf(Decided(result, i, row, action)) = CountOf(result)
<1>1. /\ result.clean_rows \in Seq(Row) /\ result.review_rows \in Seq(Row)
      /\ result.excluded_count \in Nat
  BY DEF RunResult
<1>2. Len(Append(result.clean_rows, row)) = Len(result.clean_rows) + 1
  BY <1>1, AppendProperties
<1>3. Len(RemoveAt(result.review_rows, i)) = Len(result.review_rows) - 1
  BY <1>1, RemoveAtFacts
<1>4. Len([result.review_rows EXCEPT ![i] = row]) = Len(result.review_rows)
  BY <1>1, ExceptSeq
<1>5. Len(result.clean_rows) \in Nat /\ Len(result.review_rows) \in Nat
  BY <1>1, LenProperties
<1> DEFINE new == Decided(result, i, row, action)
           waiting == Len(result.review_rows)
<1>6. \A k, m, n \in Nat : /\ (m + 1) + (k - 1) + n = m + k + n
                         /\ m + (k - 1) + (n + 1) = m + k + n
  OBVIOUS
<1> HIDE DEF waiting
<1>7. CASE action = "approve"
  <2>1. /\ new.clean_rows = Append(result.clean_rows, row)
        /\ new.review_rows = RemoveAt(result.review_rows, i)
        /\ new.excluded_count = result.excluded_count
    BY <1>7 DEF Decided, RunResult
  <2> HIDE DEF new
  <2>2. CountOf(new) = (Len(result.clean_rows) + 1) + (waiting - 1) + result.excluded_count
    BY <2>1, <1>2, <1>3, Zenon DEF CountOf, waiting
  <2>3. CountOf(new) = CountOf(result)
    BY <2>2, <1>1, <1>5, <1>6, Zenon DEF CountOf, waiting
  <2>. QED BY <2>3 DEF new
<1>8. CASE action = "exclude"
  <2>1. /\ new.clean_rows = result.clean_rows
        /\ new.review_rows = RemoveAt(result.review_rows, i)
        /\ new.excluded_count = result.excluded_count + 1
    BY <1>8 DEF Decided, RunResult
  <2> HIDE DEF new
  <2>2. CountOf(new) = Len(result.clean_rows) + (waiting - 1) + (result.excluded_count + 1)
    BY <2>1, <1>3, Zenon DEF CountOf, waiting
  <2>3. CountOf(new) = CountOf(result)
    BY <2>2, <1>1, <1>5, <1>6, Zenon DEF CountOf, waiting
  <2>. QED BY <2>3 DEF new
<1>9. CASE action = "edit"
  BY <1>1, <1>4, <1>9 DEF Decided, CountOf, RunResult
<1>. QED BY <1>7, <1>8, <1>9

\* Whatever tabs decide in whatever order, every row that processing handed
\* over is included, waiting or counted as excluded, and no other.
THEOREM Reconciliation == Spec => []Reconciled
<1>1. Init => Reconciled
  BY DEF Init, Reconciled
<1>2. TypeOK /\ Reconciled /\ [Next]_vars => Reconciled'
  <2> SUFFICES ASSUME TypeOK, Reconciled, [Next]_vars, NEW r \in Run, run_store'[r] # None
               PROVE  CountOf(run_store'[r]) = CountOf(admitted'[r])
    BY DEF Reconciled
  <2>1. CASE Stays(r)
    BY <2>1 DEF Stays, Reconciled
  <2>2. CASE Enters(r)
    BY <2>2 DEF Enters, Admit, CountOf
  <2>3. CASE IsDecided(r)
    BY <2>3, DecidedCount DEF IsDecided, Reconciled, TypeOK
  <2>4. CASE IsGenerated(r)
    BY <2>4 DEF IsGenerated, Reconciled, TypeOK, CountOf, RunResult
  <2>. QED BY <2>1, <2>2, <2>3, <2>4, StoreStep
<1>. QED BY <1>1, <1>2, Typing, PTL DEF Spec

-------------------------------------------------------------------------------
(* No row is in two places *)

LEMMA DecidedDistinct ==
  ASSUME NEW result \in RunResult, DistinctRefs(result),
         NEW i \in DOMAIN result.review_rows, NEW row \in Row,
         row.ref = result.review_rows[i].ref, NEW action \in {"approve", "exclude", "edit"}
  PROVE  DistinctRefs(Decided(result, i, row, action))
<1> DEFINE clean == result.clean_rows
           review == result.review_rows
           popped == RemoveAt(review, i)
           From(j) == IF j < i THEN j ELSE j + 1
<1>1. /\ clean \in Seq(Row) /\ review \in Seq(Row) /\ DOMAIN review = 1..Len(review)
      /\ Len(review) \in Nat
  BY LenProperties DEF RunResult
<1>2. /\ popped \in Seq(Row) /\ DOMAIN popped = 1..(Len(review) - 1)
      /\ \A j \in DOMAIN popped : From(j) \in DOMAIN review /\ popped[j] = review[From(j)]
  <2>1. /\ popped \in Seq(Row) /\ Len(popped) = Len(review) - 1
        /\ \A j \in DOMAIN popped : From(j) \in DOMAIN review /\ popped[j] = review[From(j)]
    BY <1>1, RemoveAtFacts
  <2> HIDE DEF popped, From
  <2>. QED BY <2>1, LenProperties
<1>3. /\ \A j \in DOMAIN popped : popped[j].ref # row.ref
      /\ \A j, k \in DOMAIN popped : popped[j].ref = popped[k].ref => j = k
      /\ \A j \in DOMAIN clean, k \in DOMAIN popped : clean[j].ref # popped[k].ref
  <2>1. ASSUME NEW j \in DOMAIN popped PROVE From(j) # i
    BY <1>1, <1>2
  <2>2. ASSUME NEW j \in DOMAIN popped, NEW k \in DOMAIN popped, From(j) = From(k) PROVE j = k
    BY <1>1, <1>2, <2>2
  <2> HIDE DEF From, popped
  <2>. QED BY <1>2, <2>1, <2>2 DEF DistinctRefs
<1> HIDE DEF From, popped
<1>4. CASE action = "approve"
  <2> DEFINE more == Append(clean, row)
  <2>1. /\ DOMAIN more = 1..(Len(clean) + 1) /\ DOMAIN clean = 1..Len(clean)
        /\ Len(clean) \in Nat
        /\ more[Len(clean) + 1] = row /\ \A j \in DOMAIN clean : more[j] = clean[j]
    BY <1>1, AppendProperties, LenProperties
  <2> HIDE DEF more
  <2>2. \A j \in DOMAIN more : j \in DOMAIN clean \/ j = Len(clean) + 1
    BY <2>1
  <2>3. \A j \in DOMAIN clean : clean[j].ref # row.ref
    BY DEF DistinctRefs
  <2>4. \A j, k \in DOMAIN more : more[j].ref = more[k].ref => j = k
    BY <2>1, <2>2, <2>3 DEF DistinctRefs
  <2>5. \A j \in DOMAIN more, k \in DOMAIN popped : more[j].ref # popped[k].ref
    BY <2>1, <2>2, <1>3
  <2>6. /\ Decided(result, i, row, action).clean_rows = more
        /\ Decided(result, i, row, action).review_rows = popped
    BY <1>4 DEF Decided, RunResult, more, popped
  <2>. QED BY <2>4, <2>5, <2>6, <1>3 DEF DistinctRefs
<1>5. CASE action = "exclude"
  <2>1. /\ Decided(result, i, row, action).clean_rows = clean
        /\ Decided(result, i, row, action).review_rows = popped
    BY <1>5 DEF Decided, RunResult, popped
  <2>. QED BY <2>1, <1>3 DEF DistinctRefs
<1>6. CASE action = "edit"
  <2> DEFINE edited == [review EXCEPT ![i] = row]
  <2>1. DOMAIN edited = DOMAIN review /\ \A j \in DOMAIN review : edited[j].ref = review[j].ref
    BY <1>1
  <2> HIDE DEF edited
  <2>2. /\ Decided(result, i, row, action).clean_rows = clean
        /\ Decided(result, i, row, action).review_rows = edited
    BY <1>6 DEF Decided, RunResult, edited
  <2>. QED BY <2>1, <2>2 DEF DistinctRefs
<1>. QED BY <1>4, <1>5, <1>6

\* A decision moves its row: no account waits and is included at once, and none
\* is included twice.
THEOREM RowsStayApart == Spec => []NoRowTwice
<1>1. Init => NoRowTwice
  BY DEF Init, NoRowTwice
<1>2. TypeOK /\ NoRowTwice /\ [Next]_vars => NoRowTwice'
  <2> SUFFICES ASSUME TypeOK, NoRowTwice, [Next]_vars, NEW r \in Run, run_store'[r] # None
               PROVE  DistinctRefs(run_store'[r])
    BY DEF NoRowTwice
  <2>1. CASE Stays(r)
    BY <2>1 DEF Stays, NoRowTwice
  <2>2. CASE Enters(r)
    BY <2>2, PortalAssumption DEF Enters, Admit, DistinctRefs
  <2>3. CASE IsDecided(r)
    BY <2>3, DecidedDistinct DEF IsDecided, NoRowTwice, TypeOK
  <2>4. CASE IsGenerated(r)
    BY <2>4 DEF IsGenerated, NoRowTwice, TypeOK, DistinctRefs, RunResult
  <2>. QED BY <2>1, <2>2, <2>3, <2>4, StoreStep
<1>. QED BY <1>1, <1>2, Typing, PTL DEF Spec

-------------------------------------------------------------------------------
(* What can be downloaded *)

LEMMA DecidedArtifacts ==
  ASSUME NEW result \in RunResult, NEW i, NEW row, NEW action
  PROVE  Decided(result, i, row, action).artifacts = result.artifacts
BY DEF Decided, RunResult

LEMMA FullSetFacts ==
  ASSUME NEW result \in RunResult, NEW b \in 1..MaxBatch
  PROVE  /\ FullSet(result, b).bank_csr \in Workbook
         /\ FullSet(result, b).internal_csr \in Workbook
         /\ FullSet(result, b).bank_csr.rows = result.clean_rows
         /\ FullSet(result, b).internal_csr.rows = result.clean_rows
         /\ FullSet(result, b).bank_package \in Package
         /\ FullSet(result, b).bank_package.members
              = {FullSet(result, b).bank_csr, FullSet(result, b).internal_csr}
<1>1. /\ Rendered(result, "bank_csr", b) \in Workbook
      /\ Rendered(result, "internal_csr", b) \in Workbook
      /\ Rendered(result, "bank_csr", b).rows = result.clean_rows
      /\ Rendered(result, "internal_csr", b).rows = result.clean_rows
  BY GeneratedType DEF Rendered
<1>. QED BY <1>1 DEF FullSet, WithPackage, Package

LEMMA HalfSetFacts ==
  ASSUME NEW result \in RunResult, NEW b \in 1..MaxBatch
  PROVE  /\ HalfSet(result, b).bank_csr.rows = result.clean_rows
         /\ HalfSet(result, b).internal_csr.rows = result.clean_rows
         /\ HalfSet(result, b).bank_package = None
BY GeneratedType DEF HalfSet, Rendered

\* A generation changes the artifacts only, and only of a run where none waits.
LEMMA GenerationFacts ==
  ASSUME TypeOK, NEW r \in Run, IsGenerated(r)
  PROVE  /\ run_store[r] \in RunResult
         /\ run_store'[r].review_rows = <<>>
         /\ run_store'[r].clean_rows = run_store[r].clean_rows
         /\ \E b \in 1..MaxBatch :
              \/ run_store'[r].artifacts = FullSet(run_store[r], b)
              \/ run_store'[r].artifacts = HalfSet(run_store[r], b) /\ r \in generation_errors'
<1>1. run_store[r] \in RunResult /\ run_store[r].review_rows = <<>>
  BY DEF IsGenerated, TypeOK
<1>2. PICK b \in 1..MaxBatch :
        \/ run_store'[r] = [run_store[r] EXCEPT !.artifacts = FullSet(run_store[r], b)]
        \/ /\ run_store'[r] = [run_store[r] EXCEPT !.artifacts = HalfSet(run_store[r], b)]
           /\ r \in generation_errors'
  BY DEF IsGenerated
<1>. QED BY <1>1, <1>2 DEF RunResult

\* Downloads are current: after a generation no decision is possible, so the
\* workbooks never lag behind the rows that are included.
THEOREM DownloadsCurrent == Spec => []WorkbooksCurrent
<1>1. Init => WorkbooksCurrent
  BY DEF Init, WorkbooksCurrent
<1>2. TypeOK /\ WorkbooksCurrent /\ [Next]_vars => WorkbooksCurrent'
  <2> SUFFICES ASSUME TypeOK, WorkbooksCurrent, [Next]_vars, NEW r \in Run,
                      NEW key \in WORKBOOK_KEYS,
                      run_store'[r] # None, run_store'[r].artifacts[key] # None
               PROVE  /\ run_store'[r].artifacts[key].rows = run_store'[r].clean_rows
                      /\ run_store'[r].review_rows = <<>>
    BY DEF WorkbooksCurrent
  <2>0. key \in {"bank_csr", "internal_csr"}
    BY DEF WORKBOOK_KEYS, ARTIFACT_KEYS
  <2>1. CASE Stays(r)
    BY <2>1 DEF Stays, WorkbooksCurrent
  <2>2. CASE Enters(r)
    BY <2>0, <2>2 DEF Enters, Admit, NoArtifacts
  <2>3. CASE IsDecided(r)
    <3>1. /\ run_store[r] \in RunResult /\ run_store[r].review_rows # <<>>
          /\ run_store'[r].artifacts = run_store[r].artifacts
      BY <2>3, DecidedArtifacts DEF IsDecided, TypeOK
    <3>. QED BY <2>3, <3>1 DEF IsDecided, WorkbooksCurrent
  <2>4. CASE IsGenerated(r)
    BY <2>0, <2>4, GenerationFacts, FullSetFacts, HalfSetFacts
  <2>. QED BY <2>1, <2>2, <2>3, <2>4, StoreStep
<1>. QED BY <1>1, <1>2, Typing, PTL DEF Spec

\* The package is never of another generation than the workbooks beside it.
THEOREM PackageOfWorkbooks == Spec => []PackageMatches
<1>1. Init => PackageMatches
  BY DEF Init, PackageMatches
<1>2. TypeOK /\ PackageMatches /\ [Next]_vars => PackageMatches'
  <2> DEFINE Fits(artifacts) ==
        artifacts.bank_package # None
          => /\ None \notin {artifacts.bank_csr, artifacts.internal_csr}
             /\ artifacts.bank_package.members = {artifacts.bank_csr, artifacts.internal_csr}
  <2> SUFFICES ASSUME TypeOK, PackageMatches, [Next]_vars, NEW r \in Run, run_store'[r] # None
               PROVE  Fits(run_store'[r].artifacts)
    BY DEF PackageMatches
  <2>1. CASE Stays(r)
    BY <2>1 DEF Stays, PackageMatches
  <2>2. CASE Enters(r)
    BY <2>2 DEF Enters, Admit, NoArtifacts
  <2>3. CASE IsDecided(r)
    <3>1. run_store'[r].artifacts = run_store[r].artifacts /\ run_store[r] # None
      BY <2>3, DecidedArtifacts DEF IsDecided, TypeOK
    <3>. QED BY <3>1 DEF PackageMatches
  <2>4. CASE IsGenerated(r)
    <3>1. PICK b \in 1..MaxBatch : run_store'[r].artifacts
                                    \in {FullSet(run_store[r], b), HalfSet(run_store[r], b)}
      BY <2>4, GenerationFacts
    <3>2. Fits(FullSet(run_store[r], b)) /\ Fits(HalfSet(run_store[r], b))
      BY <2>4, GenerationFacts, FullSetFacts, HalfSetFacts, NoneAssumption
    <3>. QED BY <3>1, <3>2
  <2>. QED BY <2>1, <2>2, <2>3, <2>4, StoreStep
<1>. QED BY <1>1, <1>2, Typing, PTL DEF Spec

\* A run without a recorded error shows all of its deliverables or none.
THEOREM IncompleteRecorded == Spec => []IncompleteIsTold
<1> DEFINE Whole(artifacts) ==
      artifacts = NoArtifacts \/ \A key \in ARTIFACT_KEYS : artifacts[key] # None
<1>1. Init => IncompleteIsTold
  BY DEF Init, IncompleteIsTold
<1>2. TypeOK /\ IncompleteIsTold /\ [Next]_vars => IncompleteIsTold'
  <2> SUFFICES ASSUME TypeOK, IncompleteIsTold, [Next]_vars, NEW r \in Run,
                      run_store'[r] # None, r \notin generation_errors'
               PROVE  Whole(run_store'[r].artifacts)
    BY DEF IncompleteIsTold
  <2>1. CASE Stays(r)
    BY <2>1 DEF Stays, KeepsError, IncompleteIsTold
  <2>2. CASE Enters(r)
    BY <2>2 DEF Enters, Admit
  <2>3. CASE IsDecided(r)
    <3>1. /\ run_store'[r].artifacts = run_store[r].artifacts
          /\ run_store[r] # None /\ r \notin generation_errors
      BY <2>3, DecidedArtifacts DEF IsDecided, KeepsError, TypeOK
    <3>. QED BY <3>1 DEF IncompleteIsTold
  <2>4. CASE IsGenerated(r)
    <3>1. PICK b \in 1..MaxBatch : run_store'[r].artifacts = FullSet(run_store[r], b)
      BY <2>4, GenerationFacts
    <3>2. \A key \in ARTIFACT_KEYS : FullSet(run_store[r], b)[key] # None
      BY <2>4, GenerationFacts, FullSetFacts, NoneAssumption DEF ARTIFACT_KEYS
    <3>. QED BY <3>1, <3>2
  <2>. QED BY <2>1, <2>2, <2>3, <2>4, StoreStep
<1>. QED BY <1>1, <1>2, Typing, PTL DEF Spec

-------------------------------------------------------------------------------
(* What a decision does to the rows as sets *)

\* What is left in the queue after list.pop(i).
LEMMA SetOfPopped ==
  ASSUME NEW S, NEW s \in Seq(S), NEW i \in DOMAIN s
  PROVE  ToSet(RemoveAt(s, i)) = {s[j] : j \in DOMAIN s \ {i}}
<1> DEFINE popped == RemoveAt(s, i)
           From(j) == IF j < i THEN j ELSE j + 1
<1>1. PICK n \in Nat : Len(s) = n
  BY LenProperties
<1>2. DOMAIN s = 1..n /\ i \in 1..n
  BY <1>1, LenProperties
<1>3. /\ popped \in Seq(S) /\ Len(popped) = n - 1
      /\ \A j \in DOMAIN popped : From(j) \in DOMAIN s /\ popped[j] = s[From(j)]
  BY <1>1, RemoveAtFacts
<1>4. n - 1 \in Nat
  BY <1>2
<1> HIDE DEF popped
<1>5. DOMAIN popped = 1..(n - 1)
  BY <1>3, <1>4, LenProperties, Zenon
<1>6. ASSUME NEW j \in DOMAIN s \ {i}
      PROVE  \E k \in DOMAIN popped : popped[k] = s[j]
  <2>1. CASE j < i
    <3>1. j \in DOMAIN popped /\ From(j) = j
      BY <1>2, <1>5, <2>1
    <3> QED BY <1>3, <3>1
  <2>2. CASE j > i
    <3>1. j - 1 \in DOMAIN popped /\ From(j - 1) = j
      BY <1>2, <1>5, <2>2
    <3> QED BY <1>3, <3>1
  <2> QED BY <1>2, <1>6, <2>1, <2>2
<1>7. ASSUME NEW k \in DOMAIN popped
      PROVE  \E j \in DOMAIN s \ {i} : popped[k] = s[j]
  <2>1. From(k) \in DOMAIN s \ {i}
    BY <1>2, <1>3, <1>5
  <2> QED BY <1>3, <2>1
<1> HIDE DEF From
<1> DEFINE rest == {s[j] : j \in DOMAIN s \ {i}}
<1>8. ToSet(popped) = rest
  <2>1. ASSUME NEW x \in rest PROVE x \in ToSet(popped)
    BY <1>6 DEF ToSet
  <2>2. ASSUME NEW x \in ToSet(popped) PROVE x \in rest
    BY <1>7 DEF ToSet
  <2> HIDE DEF rest
  <2> QED BY <2>1, <2>2
<1> QED BY <1>8 DEF popped

LEMMA SetOfAppended ==
  ASSUME NEW S, NEW s \in Seq(S), NEW x \in S
  PROVE  ToSet(Append(s, x)) = ToSet(s) \cup {x}
<1> DEFINE more == Append(s, x)
<1>1. PICK n \in Nat : Len(s) = n
  BY LenProperties
<1>2. /\ DOMAIN more = 1..(n + 1) /\ DOMAIN s = 1..n
      /\ more[n + 1] = x /\ \A j \in 1..n : more[j] = s[j]
  BY <1>1, AppendProperties, LenProperties
<1> HIDE DEF more
<1>3. 1..(n + 1) = 1..n \cup {n + 1}
  BY <1>1
<1>4. ToSet(more) = ToSet(s) \cup {x}
  BY <1>2, <1>3 DEF ToSet
<1> QED BY <1>4 DEF more

\* The run as the ledger sees it.
Waiting(result) == IF result = None THEN {} ELSE ToSet(result.review_rows)
Taken(result) == IF result = None THEN {} ELSE ToSet(result.clean_rows)
Dropped(result, in) ==
  IF result = None THEN {}
  ELSE AdmittedRefs(in) \ (RefsOf(result.clean_rows) \cup RefsOf(result.review_rows))
Delivered(result) ==
  IF result = None THEN None
  ELSE IF result.artifacts.bank_csr = None THEN None
  ELSE ToSet(result.artifacts.bank_csr.rows)

KnownRefs(result, in) ==
  RefsOf(result.clean_rows) \cup RefsOf(result.review_rows) \subseteq AdmittedRefs(in)

\* The three decisions are the ledger's Include, Drop and Amend of the row.
LEMMA DecidedSets ==
  ASSUME NEW result \in RunResult, DistinctRefs(result), result # None,
         NEW in, KnownRefs(result, in),
         NEW i \in DOMAIN result.review_rows, NEW row \in Row,
         row.ref = result.review_rows[i].ref, NEW action \in {"approve", "exclude", "edit"},
         Decided(result, i, row, action) # None
  PROVE  LET old == result.review_rows[i]
             new == Decided(result, i, row, action)
         IN /\ old \in Waiting(result) /\ KnownRefs(new, in)
            /\ Delivered(new) = Delivered(result)
            /\ \/ /\ action = "approve"
                  /\ Waiting(new) = Waiting(result) \ {old}
                  /\ Taken(new) = Taken(result) \cup {row}
                  /\ Dropped(new, in) = Dropped(result, in)
               \/ /\ action = "exclude"
                  /\ Waiting(new) = Waiting(result) \ {old}
                  /\ Taken(new) = Taken(result)
                  /\ Dropped(new, in) = Dropped(result, in) \cup {row.ref}
               \/ /\ action = "edit"
                  /\ Waiting(new) = (Waiting(result) \ {old}) \cup {row}
                  /\ Taken(new) = Taken(result)
                  /\ Dropped(new, in) = Dropped(result, in)
<1> DEFINE clean == result.clean_rows
           review == result.review_rows
           old == review[i]
           rest == {review[j] : j \in DOMAIN review \ {i}}
           more == Append(clean, row)
           popped == RemoveAt(review, i)
           edited == [review EXCEPT ![i] = row]
           new == Decided(result, i, row, action)
           RefsIn(rows) == {x.ref : x \in rows}
<1>1. clean \in Seq(Row) /\ review \in Seq(Row)
  BY DEF RunResult
<1>2. ToSet(more) = ToSet(clean) \cup {row} /\ ToSet(popped) = rest
  BY <1>1, SetOfAppended, SetOfPopped
<1>3. ToSet(edited) = rest \cup {row} /\ old \in ToSet(review) /\ ToSet(review) = rest \cup {old}
  BY DEF ToSet
<1>4. old \notin rest /\ row.ref \notin RefsIn(rest) /\ row.ref \notin RefsIn(ToSet(clean))
  BY DEF DistinctRefs, ToSet
<1>5. \A rows : RefsOf(rows) = RefsIn(ToSet(rows))
  BY DEF RefsOf, ToSet
<1>6. new.artifacts = result.artifacts
  BY DecidedArtifacts
<1>7. /\ action = "approve" => new.clean_rows = more /\ new.review_rows = popped
      /\ action = "exclude" => new.clean_rows = clean /\ new.review_rows = popped
      /\ action = "edit" => new.clean_rows = clean /\ new.review_rows = edited
  BY DEF Decided, RunResult
<1> HIDE DEF more, popped, edited, rest, new
<1>8. /\ RefsIn(ToSet(clean) \cup {row}) = RefsIn(ToSet(clean)) \cup {row.ref}
      /\ RefsIn(rest \cup {row}) = RefsIn(rest) \cup {row.ref}
      /\ RefsIn(ToSet(review)) = RefsIn(rest) \cup {row.ref}
  BY <1>3
<1> DEFINE C == RefsIn(ToSet(clean))
           R == RefsIn(rest)
           A == AdmittedRefs(in)
<1>9. /\ RefsOf(clean) = C /\ RefsOf(review) = R \cup {row.ref}
      /\ RefsOf(more) = C \cup {row.ref} /\ RefsOf(popped) = R /\ RefsOf(edited) = R \cup {row.ref}
  BY <1>2, <1>3, <1>5, <1>8
<1>10. row.ref \notin C /\ row.ref \notin R
  BY <1>4
<1>11. C \cup R \cup {row.ref} \subseteq A
  BY <1>9 DEF KnownRefs
<1>12. Dropped(result, in) = A \ (C \cup R \cup {row.ref})
  BY <1>9 DEF Dropped
<1>13. new # None /\ Delivered(new) = Delivered(result)
  BY <1>6 DEF new, Delivered
<1> HIDE DEF C, R, A, old
<1>14. old \in Waiting(result)
  BY <1>3 DEF Waiting
<1>15. CASE action = "approve"
  <2>1. Dropped(new, in) = Dropped(result, in) /\ KnownRefs(new, in)
    BY <1>7, <1>9, <1>11, <1>12, <1>13, <1>15 DEF Dropped, KnownRefs, A
  <2>2. Waiting(new) = Waiting(result) \ {old} /\ Taken(new) = Taken(result) \cup {row}
    BY <1>2, <1>3, <1>4, <1>7, <1>13, <1>15 DEF Waiting, Taken
  <2> QED BY <1>13, <1>14, <1>15, <2>1, <2>2 DEF new, old
<1>16. CASE action = "exclude"
  <2>1. Dropped(new, in) = Dropped(result, in) \cup {row.ref} /\ KnownRefs(new, in)
    BY <1>7, <1>9, <1>10, <1>11, <1>12, <1>13, <1>16 DEF Dropped, KnownRefs, A
  <2>2. Waiting(new) = Waiting(result) \ {old} /\ Taken(new) = Taken(result)
    BY <1>2, <1>3, <1>4, <1>7, <1>13, <1>16 DEF Waiting, Taken
  <2> QED BY <1>13, <1>14, <1>16, <2>1, <2>2 DEF new, old
<1>17. CASE action = "edit"
  <2>1. Dropped(new, in) = Dropped(result, in) /\ KnownRefs(new, in)
    BY <1>7, <1>9, <1>11, <1>12, <1>13, <1>17 DEF Dropped, KnownRefs, A
  <2>2. Waiting(new) = (Waiting(result) \ {old}) \cup {row} /\ Taken(new) = Taken(result)
    BY <1>2, <1>3, <1>4, <1>7, <1>13, <1>17 DEF Waiting, Taken
  <2> QED BY <1>13, <1>14, <1>17, <2>1, <2>2 DEF new, old
<1> QED BY <1>15, <1>16, <1>17

-------------------------------------------------------------------------------
(* The portal implements the ledger *)

\* What the refinement needs besides types: rows stay apart, and none appears that
\* processing did not hand over.
LInv == /\ TypeOK /\ NoRowTwice
        /\ \A r \in Run : run_store[r] # None => KnownRefs(run_store[r], admitted[r])

LEMMA OnlyKnownRows == Spec => []LInv
<1>1. Init => LInv
  BY PortalAssumption DEF Init, LInv, TypeOK, NoRowTwice
<1>2. LInv /\ [Next]_vars /\ TypeOK' /\ NoRowTwice' => LInv'
  <2> SUFFICES ASSUME LInv, [Next]_vars, TypeOK', NEW r \in Run, run_store'[r] # None
               PROVE  KnownRefs(run_store'[r], admitted'[r])
    BY DEF LInv
  <2>1. CASE Stays(r)
    BY <2>1 DEF Stays, LInv
  <2>2. CASE Enters(r)
    BY <2>2 DEF Enters, Admit, KnownRefs, AdmittedRefs
  <2>3. CASE IsDecided(r)
    BY <2>3, DecidedSets DEF IsDecided, LInv, TypeOK, NoRowTwice
  <2>4. CASE IsGenerated(r)
    BY <2>4, GenerationFacts DEF IsGenerated, LInv, KnownRefs
  <2> QED BY <2>1, <2>2, <2>3, <2>4, StoreStep DEF LInv
<1> QED BY <1>1, <1>2, Typing, RowsStayApart, PTL DEF Spec

LEMMA LedgerImage ==
  /\ openRows = [r \in Run |-> Waiting(run_store[r])]
  /\ includedRows = [r \in Run |-> Taken(run_store[r])]
  /\ droppedRefs = [r \in Run |-> Dropped(run_store[r], admitted[r])]
  /\ releasedRows = [r \in Run |-> Delivered(run_store[r])]
  BY DEF openRows, includedRows, droppedRefs, releasedRows, Waiting, Taken, Dropped, Delivered

\* A step that concerns one run changes the ledger at that run.
LEMMA OneRun ==
  ASSUME NEW r \in Run,
         \A q \in Run \ {r} : run_store'[q] = run_store[q] /\ admitted'[q] = admitted[q]
  PROVE  /\ openRows' = [openRows EXCEPT ![r] = Waiting(run_store'[r])]
         /\ includedRows' = [includedRows EXCEPT ![r] = Taken(run_store'[r])]
         /\ droppedRefs' = [droppedRefs EXCEPT ![r] = Dropped(run_store'[r], admitted'[r])]
         /\ releasedRows' = [releasedRows EXCEPT ![r] = Delivered(run_store'[r])]
<1>1. /\ openRows' = [q \in Run |-> Waiting(run_store'[q])]
      /\ includedRows' = [q \in Run |-> Taken(run_store'[q])]
      /\ droppedRefs' = [q \in Run |-> Dropped(run_store'[q], admitted'[q])]
      /\ releasedRows' = [q \in Run |-> Delivered(run_store'[q])]
  BY DEF openRows, includedRows, droppedRefs, releasedRows, Waiting, Taken, Dropped, Delivered
<1> QED BY <1>1, LedgerImage

LEMMA ProcessEnters ==
  ASSUME LInv, LInv', NEW r \in Run, Process(r)
  PROVE  Ledger!Enter(r)
<1>1. /\ run_store[r] = None /\ admitted'[r] \in Intake
      /\ run_store'[r] = Admit(admitted'[r])
      /\ \A q \in Run \ {r} : run_store'[q] = run_store[q] /\ admitted'[q] = admitted[q]
  BY DEF Process, LInv, TypeOK
<1>2. run_store'[r] \in RunResult /\ run_store'[r] # None /\ DistinctRefs(run_store'[r])
  BY <1>1, AdmitType, NoneAssumption DEF LInv, NoRowTwice
<1>3. /\ openRows[r] = {} /\ includedRows[r] = {} /\ droppedRefs[r] = {}
      /\ releasedRows[r] = None
  BY <1>1, LedgerImage DEF Waiting, Taken, Dropped, Delivered
<1>4. /\ Waiting(run_store'[r]) = ToSet(run_store'[r].review_rows)
      /\ Taken(run_store'[r]) = ToSet(run_store'[r].clean_rows)
      /\ Dropped(run_store'[r], admitted'[r]) = {} /\ Delivered(run_store'[r]) = None
  BY <1>1, <1>2 DEF Waiting, Taken, Dropped, Delivered, Admit, AdmittedRefs, NoArtifacts
<1>5. Ledger!Refs(Waiting(run_store'[r])) \cap Ledger!Refs(Taken(run_store'[r])) = {}
  BY <1>2, <1>4 DEF Ledger!Refs, ToSet, DistinctRefs
<1>6. /\ openRows' \in [Run -> SUBSET Row]
      /\ includedRows' \in [Run -> SUBSET Row]
  <2>1. ASSUME NEW q \in Run
        PROVE  Waiting(run_store'[q]) \subseteq Row /\ Taken(run_store'[q]) \subseteq Row
    <3>1. run_store'[q] \in RunResult \cup {None}
      BY DEF LInv, TypeOK
    <3> QED BY <3>1, ElementOfSeq DEF Waiting, Taken, ToSet, RunResult
  <2> QED BY <2>1 DEF openRows, includedRows, Waiting, Taken
<1>7. /\ droppedRefs' = droppedRefs /\ releasedRows' = releasedRows
      /\ openRows'[r] = Waiting(run_store'[r]) /\ includedRows'[r] = Taken(run_store'[r])
      /\ \A q \in Run \ {r} : /\ openRows'[q] = openRows[q]
                              /\ includedRows'[q] = includedRows[q]
  <2>1. /\ openRows' = [openRows EXCEPT ![r] = Waiting(run_store'[r])]
        /\ includedRows' = [includedRows EXCEPT ![r] = Taken(run_store'[r])]
        /\ droppedRefs' = [droppedRefs EXCEPT ![r] = droppedRefs[r]]
        /\ releasedRows' = [releasedRows EXCEPT ![r] = releasedRows[r]]
    BY <1>1, <1>3, <1>4, OneRun
  <2>2. /\ [droppedRefs EXCEPT ![r] = droppedRefs[r]] = droppedRefs
        /\ [releasedRows EXCEPT ![r] = releasedRows[r]] = releasedRows
        /\ r \in DOMAIN openRows /\ r \in DOMAIN includedRows
        /\ DOMAIN openRows = Run /\ DOMAIN includedRows = Run
    BY LedgerImage
  <2> QED BY <2>1, <2>2
<1> QED BY <1>3, <1>5, <1>6, <1>7 DEF Ledger!Enter

LEMMA GenerationReleases ==
  ASSUME LInv, NEW r \in Run, GenerateAll(r) \/ ArchiveFails(r)
  PROVE  Ledger!Release(r)
<1>1. /\ run_store[r] \in RunResult /\ run_store[r].review_rows = <<>> /\ run_store[r] # None
      /\ batch + 1 \in 1..MaxBatch
      /\ \A q \in Run \ {r} : run_store'[q] = run_store[q] /\ admitted'[q] = admitted[q]
      /\ admitted'[r] = admitted[r]
  BY PortalAssumption DEF GenerateAll, ArchiveFails, MayGenerate, LInv, TypeOK
<1>2. \/ run_store'[r] = [run_store[r] EXCEPT !.artifacts = FullSet(run_store[r], batch + 1)]
      \/ run_store'[r] = [run_store[r] EXCEPT !.artifacts = HalfSet(run_store[r], batch + 1)]
  BY <1>1 DEF GenerateAll, ArchiveFails, FullSet, HalfSet, RunResult, LInv, TypeOK
<1>3. /\ FullSet(run_store[r], batch + 1).bank_csr = Rendered(run_store[r], "bank_csr", batch + 1)
      /\ HalfSet(run_store[r], batch + 1).bank_csr = Rendered(run_store[r], "bank_csr", batch + 1)
  BY <1>1, GeneratedType DEF FullSet, HalfSet, WithPackage
<1>4. /\ Rendered(run_store[r], "bank_csr", batch + 1) # None
      /\ Rendered(run_store[r], "bank_csr", batch + 1).rows = run_store[r].clean_rows
  BY <1>1, GeneratedType, NoneAssumption DEF Rendered
<1>5. /\ run_store'[r].review_rows = <<>>
      /\ run_store'[r].clean_rows = run_store[r].clean_rows
      /\ run_store'[r].artifacts.bank_csr = Rendered(run_store[r], "bank_csr", batch + 1)
  BY <1>1, <1>2, <1>3 DEF RunResult
<1>6. run_store'[r] # None
  <2>1. run_store'[r] \in RunResult
    BY <1>1, <1>2, GeneratedType DEF FullSet, HalfSet, RunResult
  <2> QED BY <2>1, NoneAssumption
<1>7. /\ Waiting(run_store'[r]) = Waiting(run_store[r]) /\ Waiting(run_store[r]) = {}
      /\ Taken(run_store'[r]) = Taken(run_store[r])
      /\ Dropped(run_store'[r], admitted'[r]) = Dropped(run_store[r], admitted[r])
      /\ Delivered(run_store'[r]) = Taken(run_store[r])
  BY <1>1, <1>4, <1>5, <1>6 DEF Waiting, Taken, Dropped, Delivered, ToSet
<1> QED BY <1>1, <1>7, OneRun, LedgerImage DEF Ledger!Release

LEMMA DecisionMoves ==
  ASSUME LInv, LInv', NEW c \in Client, ApplyDecision(c)
  PROVE  Ledger!LedgerNext
<1> DEFINE r == post[c].run
<1>1. /\ r \in Run /\ run_store[r] \in RunResult /\ run_store[r] # None
      /\ post[c] \in Decision /\ post[c].action \in {"approve", "exclude", "edit"}
      /\ admitted' = admitted
  BY NoneAssumption DEF ApplyDecision, LInv, TypeOK, Decision
<1>2. PICK i \in DOMAIN run_store[r].review_rows :
         run_store' = [run_store EXCEPT ![r] =
           Decided(run_store[r], i, ApplyReviewEdit(run_store[r].review_rows[i], post[c]),
                   post[c].action)]
  BY DEF ApplyDecision
<1> DEFINE old == run_store[r].review_rows[i]
           row == ApplyReviewEdit(old, post[c])
           action == post[c].action
<1>3. old \in Row
  BY <1>1, ElementOfSeq DEF RunResult
<1>4. row \in Row /\ row.ref = old.ref
  BY <1>1, <1>3, ApplyReviewEditType
<1>5. run_store'[r] = Decided(run_store[r], i, row, action)
  BY <1>1, <1>2 DEF LInv, TypeOK
<1>6. run_store'[r] # None
  BY <1>1, <1>4, <1>5, DecidedType, NoneAssumption
<1>7. \A q \in Run \ {r} : run_store'[q] = run_store[q] /\ admitted'[q] = admitted[q]
  BY <1>1, <1>2 DEF LInv, TypeOK
<1>8. DistinctRefs(run_store[r]) /\ KnownRefs(run_store[r], admitted[r])
  BY <1>1 DEF LInv, NoRowTwice
<1> HIDE DEF row, action
<1>9. /\ old \in Waiting(run_store[r])
      /\ Delivered(run_store'[r]) = Delivered(run_store[r])
      /\ \/ /\ Waiting(run_store'[r]) = Waiting(run_store[r]) \ {old}
            /\ Taken(run_store'[r]) = Taken(run_store[r]) \cup {row}
            /\ Dropped(run_store'[r], admitted[r]) = Dropped(run_store[r], admitted[r])
         \/ /\ Waiting(run_store'[r]) = Waiting(run_store[r]) \ {old}
            /\ Taken(run_store'[r]) = Taken(run_store[r])
            /\ Dropped(run_store'[r], admitted[r])
                 = Dropped(run_store[r], admitted[r]) \cup {row.ref}
         \/ /\ Waiting(run_store'[r]) = (Waiting(run_store[r]) \ {old}) \cup {row}
            /\ Taken(run_store'[r]) = Taken(run_store[r])
            /\ Dropped(run_store'[r], admitted[r]) = Dropped(run_store[r], admitted[r])
  <2>1. action \in {"approve", "exclude", "edit"}
    BY <1>1 DEF action
  <2> QED BY <1>1, <1>4, <1>5, <1>6, <1>8, <2>1, DecidedSets
<1> HIDE DEF r, old
<1>10. /\ openRows' = [openRows EXCEPT ![r] = Waiting(run_store'[r])]
       /\ includedRows' = [includedRows EXCEPT ![r] = Taken(run_store'[r])]
       /\ droppedRefs' = [droppedRefs EXCEPT ![r] = Dropped(run_store'[r], admitted[r])]
       /\ releasedRows' = [releasedRows EXCEPT ![r] = Delivered(run_store'[r])]
  BY <1>1, <1>7, OneRun
<1>11. /\ openRows[r] = Waiting(run_store[r]) /\ includedRows[r] = Taken(run_store[r])
       /\ droppedRefs[r] = Dropped(run_store[r], admitted[r])
       /\ releasedRows[r] = Delivered(run_store[r])
  BY <1>1, LedgerImage
<1>12. /\ [openRows EXCEPT ![r] = openRows[r]] = openRows
       /\ [includedRows EXCEPT ![r] = includedRows[r]] = includedRows
       /\ [droppedRefs EXCEPT ![r] = droppedRefs[r]] = droppedRefs
       /\ [releasedRows EXCEPT ![r] = releasedRows[r]] = releasedRows
  BY <1>1, LedgerImage
<1>13. \/ Ledger!Drop(r, old) \/ Ledger!Include(r, old, row) \/ Ledger!Amend(r, old, row)
  BY <1>4, <1>9, <1>10, <1>11, <1>12 DEF Ledger!Drop, Ledger!Include, Ledger!Amend
<1> QED BY <1>1, <1>4, <1>9, <1>11, <1>13 DEF Ledger!LedgerNext

\* Each step of the portal is a step of the ledger, or one it does not see.
LEMMA StepSimulated ==
  ASSUME LInv, LInv', [Next]_vars
  PROVE  [Ledger!LedgerNext]_Ledger!ledgerVars
<1> USE DEF Ledger!ledgerVars
<1>1. ASSUME run_store' = run_store, admitted' = admitted
      PROVE  UNCHANGED Ledger!ledgerVars
  BY <1>1 DEF openRows, includedRows, droppedRefs, releasedRows
<1>2. CASE UNCHANGED vars
  BY <1>1, <1>2 DEF vars
<1>3. CASE Restart
  <2>1. Ledger!Lose
    BY <1>3 DEF Restart, Ledger!Lose, openRows, includedRows, droppedRefs, releasedRows
  <2> QED BY <2>1 DEF Ledger!LedgerNext
<1>4. ASSUME NEW r \in Run, Process(r) PROVE Ledger!LedgerNext
  BY <1>4, ProcessEnters DEF Ledger!LedgerNext
<1>5. ASSUME NEW r \in Run, GenerateAll(r) \/ ArchiveFails(r) PROVE Ledger!LedgerNext
  BY <1>5, GenerationReleases DEF Ledger!LedgerNext
<1>6. ASSUME NEW r \in Run, RenderFails(r) PROVE UNCHANGED Ledger!ledgerVars
  BY <1>1, <1>6 DEF RenderFails
<1>7. ASSUME NEW c \in Client, PostDecision(c) \/ RejectDecision(c)
      PROVE  UNCHANGED Ledger!ledgerVars
  BY <1>1, <1>7 DEF PostDecision, RejectDecision
<1>8. ASSUME NEW c \in Client, ApplyDecision(c) PROVE Ledger!LedgerNext
  BY <1>8, DecisionMoves
<1>9. ASSUME NEW c \in Client, NEW r \in Run, GetReview(c, r)
      PROVE  UNCHANGED Ledger!ledgerVars
  BY <1>1, <1>9 DEF GetReview
<1> QED BY <1>2, <1>3, <1>4, <1>5, <1>6, <1>7, <1>8, <1>9 DEF Next

\* The portal implements the ledger: each row is decided at most once and for good,
\* and what is delivered is what was included when no row waited.
THEOREM PortalKeepsLedger == Spec => LedgerKept
<1>1. Init => Ledger!LedgerInit
  BY DEF Init, Ledger!LedgerInit, openRows, includedRows, droppedRefs, releasedRows
<1>2. LInv /\ LInv' /\ [Next]_vars => [Ledger!LedgerNext]_Ledger!ledgerVars
  BY StepSimulated
<1> QED BY <1>1, <1>2, OnlyKnownRows, PTL DEF Spec, LedgerKept, Ledger!LedgerSpec

-------------------------------------------------------------------------------
(* Which row a decision touches *)

\* A request by source_row_ref names the row its DA was looking at.
NamesSeenRow ==
  \A c \in Client : post[c] # None /\ post[c].target.field = "source_row_ref"
                      => post[c].target.value = post[c].seen.ref

LEMMA RequestsNameSeenRow == Spec => []NamesSeenRow
<1>1. Init => NamesSeenRow
  BY DEF Init, NamesSeenRow
<1>2. TypeOK /\ NamesSeenRow /\ [Next]_vars => NamesSeenRow'
  <2> SUFFICES ASSUME TypeOK, NamesSeenRow, [Next]_vars, NEW d \in Client,
                      post'[d] # None, post'[d].target.field = "source_row_ref"
               PROVE  post'[d].target.value = post'[d].seen.ref
    BY DEF NamesSeenRow
  <2>1. CASE post'[d] = post[d]
    BY <2>1 DEF NamesSeenRow
  <2>2. CASE post'[d] # post[d]
    <3>1. PostDecision(d)
      <4>1. ASSUME NEW r \in Run, Process(r) \/ GenerateAll(r) \/ ArchiveFails(r) \/ RenderFails(r)
            PROVE  post' = post
        BY <4>1 DEF Process, GenerateAll, ArchiveFails, RenderFails
      <4>2. ASSUME NEW c \in Client, ApplyDecision(c) \/ RejectDecision(c)
            PROVE  post'[d] \in {None, post[d]}
        BY <4>2 DEF ApplyDecision, RejectDecision, TypeOK
      <4>3. ASSUME NEW c \in Client, PostDecision(c), c # d PROVE post'[d] = post[d]
        BY <4>3 DEF PostDecision, TypeOK
      <4>4. ASSUME NEW c \in Client, NEW r \in Run, GetReview(c, r) PROVE post' = post
        BY <4>4 DEF GetReview
      <4>5. CASE Restart
        BY <4>5 DEF Restart
      <4>6. CASE UNCHANGED vars
        BY <2>2, <4>6 DEF vars
      <4> QED BY <2>2, <4>1, <4>2, <4>3, <4>4, <4>5, <4>6 DEF Next
    <3>2. PICK i \in DOMAIN page[d].rows,
               action \in {"approve", "exclude", "edit", "invalid"}, field \in TargetField :
            \E form \in UNION {Forms(page[d].rows[i], kind) : kind \in FormKind} :
              post' = [post EXCEPT ![d] =
                [run |-> page[d].run, target |-> TargetOf(field, page[d].rows[i], i),
                 action |-> action, csu |-> form.csu, rfd |-> form.rfd, seen |-> page[d].rows[i]]]
      BY <3>1 DEF PostDecision
    <3>3. /\ post'[d].target = TargetOf(field, page[d].rows[i], i)
          /\ post'[d].seen = page[d].rows[i]
      BY <3>2 DEF TypeOK
    <3> QED BY <3>3 DEF TargetOf
  <2> QED BY <2>1, <2>2
<1> QED BY <1>1, <1>2, Typing, PTL DEF Spec

\* Of the rows of a result, a decision on position i changes no other.
LEMMA OthersStand ==
  ASSUME NEW result \in RunResult, NEW i \in DOMAIN result.review_rows, NEW row \in Row,
         NEW action \in {"approve", "exclude", "edit"}
  PROVE  LET new == Decided(result, i, row, action)
         IN /\ ToSet(result.clean_rows) \subseteq ToSet(new.clean_rows)
            /\ ToSet(result.review_rows)
                 \subseteq ToSet(new.review_rows) \cup {result.review_rows[i]}
<1> DEFINE clean == result.clean_rows
           review == result.review_rows
           popped == RemoveAt(review, i)
           more == Append(clean, row)
           edited == [review EXCEPT ![i] = row]
           new == Decided(result, i, row, action)
<1>1. clean \in Seq(Row) /\ review \in Seq(Row)
  BY DEF RunResult
<1>2. ToSet(more) = ToSet(clean) \cup {row} /\ ToSet(popped) = {review[j] : j \in DOMAIN review \ {i}}
  BY <1>1, SetOfAppended, SetOfPopped
<1>3. ToSet(review) \subseteq ToSet(popped) \cup {review[i]}
  BY <1>2 DEF ToSet
<1>4. ToSet(review) \subseteq ToSet(edited) \cup {review[i]}
  BY DEF ToSet
<1>5. new.clean_rows \in {clean, more} /\ new.review_rows \in {popped, edited}
  BY DEF Decided, RunResult
<1> HIDE DEF new, more, popped, edited
<1>6. ToSet(clean) \subseteq ToSet(new.clean_rows)
  BY <1>2, <1>5
<1>7. ToSet(review) \subseteq ToSet(new.review_rows) \cup {review[i]}
  BY <1>3, <1>4, <1>5
<1> QED BY <1>6, <1>7 DEF new

\* A decision that names its row by source_row_ref touches the row the DA was
\* looking at and no other, whatever happened to the queue since.
THEOREM RefDecisionsHit == Spec => RefDecisionHitsSeenRow
<1> DEFINE A == \A c \in Client : Answered(c) /\ post[c].target.field = "source_row_ref"
                  => Touched(post[c].run) \subseteq {post[c].seen.ref}
<1>1. TypeOK /\ TypeOK' /\ NamesSeenRow /\ [Next]_vars => [A]_vars
  <2> SUFFICES ASSUME TypeOK, TypeOK', NamesSeenRow, Next, NEW d \in Client, Answered(d),
                      post[d].target.field = "source_row_ref"
               PROVE  Touched(post[d].run) \subseteq {post[d].seen.ref}
    OBVIOUS
  <2> DEFINE r == post[d].run
  <2>1. post[d] \in Decision /\ r \in Run /\ post'[d] = None /\ post[d] # None
    BY DEF Answered, TypeOK, Decision
  <2>2. Restart \/ ApplyDecision(d) \/ RejectDecision(d)
    <3>1. ASSUME NEW q \in Run, Process(q) \/ GenerateAll(q) \/ ArchiveFails(q) \/ RenderFails(q)
          PROVE  post' = post
      BY <3>1 DEF Process, GenerateAll, ArchiveFails, RenderFails
    <3>2. ASSUME NEW c \in Client, ApplyDecision(c) \/ RejectDecision(c) \/ PostDecision(c), c # d
          PROVE  post'[d] = post[d]
      BY <3>2 DEF ApplyDecision, RejectDecision, PostDecision, TypeOK
    <3>3. ~PostDecision(d)
      BY <2>1 DEF PostDecision
    <3>4. ASSUME NEW c \in Client, NEW q \in Run, GetReview(c, q) PROVE post' = post
      BY <3>4 DEF GetReview
    <3> QED BY <2>1, <3>1, <3>2, <3>3, <3>4 DEF Next
  <2>3. CASE Restart
    BY <2>1, <2>3 DEF Restart, Touched
  <2>4. CASE RejectDecision(d)
    BY <2>4 DEF RejectDecision, Touched, Places
  <2>5. CASE ApplyDecision(d)
    <3>1. /\ run_store[r] \in RunResult /\ run_store[r] # None
          /\ post[d].action \in {"approve", "exclude", "edit"}
      BY <2>1, <2>5, NoneAssumption DEF ApplyDecision, TypeOK, Decision
    <3>2. PICK i \in DOMAIN run_store[r].review_rows :
            /\ IsTargetIndex(run_store[r].review_rows, post[d].target, i)
            /\ run_store' = [run_store EXCEPT ![r] =
                 Decided(run_store[r], i, ApplyReviewEdit(run_store[r].review_rows[i], post[d]),
                         post[d].action)]
      BY <2>5 DEF ApplyDecision
    <3> DEFINE old == run_store[r].review_rows[i]
               row == ApplyReviewEdit(old, post[d])
               action == post[d].action
    <3>3. old.ref = post[d].seen.ref
      BY <2>1, <3>2 DEF IsTargetIndex, Matches, NamesSeenRow
    <3>4. row \in Row
      BY <2>1, <3>1, ElementOfSeq, ApplyReviewEditType DEF RunResult
    <3>5. run_store'[r] = Decided(run_store[r], i, row, action)
      BY <2>1, <3>2 DEF TypeOK
    <3> HIDE DEF row, action, r
    <3>6. action \in {"approve", "exclude", "edit"}
      BY <3>1 DEF action
    <3>7. /\ ToSet(run_store[r].clean_rows) \subseteq ToSet(run_store'[r].clean_rows)
          /\ ToSet(run_store[r].review_rows) \subseteq ToSet(run_store'[r].review_rows) \cup {old}
      <4> DEFINE new == Decided(run_store[r], i, row, action)
      <4>1. /\ ToSet(run_store[r].clean_rows) \subseteq ToSet(new.clean_rows)
            /\ ToSet(run_store[r].review_rows) \subseteq ToSet(new.review_rows) \cup {old}
        BY <3>1, <3>4, <3>6, OthersStand
      <4> HIDE DEF new, old
      <4>2. run_store'[r] = new
        BY <3>5 DEF new
      <4> QED BY <4>1, <4>2
    <3>8. ASSUME NEW f \in Touched(r) PROVE f = old.ref
      BY <3>7, <3>8 DEF Touched, Places
    <3> QED BY <3>3, <3>8 DEF r
  <2> QED BY <2>2, <2>3, <2>4, <2>5
<1> QED BY <1>1, Typing, RequestsNameSeenRow, PTL DEF Spec, RefDecisionHitsSeenRow
===============================================================================
