------------------------------ MODULE ProcessRun ------------------------------
(***************************************************************************)
(* One POST /process: the uploads are copied to disk, process_run turns    *)
(* the Volare, Field and Master rows into clean rows, review rows and an   *)
(* excluded count, the result is stored, the copies are removed.  One      *)
(* action per iteration of its loops, because each iteration may fail.     *)
(* Source rows are known by their position in their own workbook ("row i") *)
(* and the positions of different workbooks coincide.                      *)
(***************************************************************************)
EXTENDS Integers, SequencesExt

CONSTANTS Label,     \* row positions of a workbook
          Ch,        \* CH codes
          Number,    \* account numbers as Volare and Field rows may name them
          VolareRow, \* rows the Volare workbook may hold
          FieldRow,  \* rows the Field workbook may hold
          Master,    \* Master files: for each CH code its number of valid accounts
          Upload,    \* the uploaded files
          None       \* no value

\* A signal is what the columns that may come from either workbook (status,
\* remark, sentiments) amount to: all well, a noise rule, a reason to review,
\* or nothing.  doubt is a reason to review in the Field row's own columns.
Signal == {"fine", "noise", "review", "blank"}

ASSUME RunAssumption ==
  /\ Label \subseteq Nat /\ IsFiniteSet(Label) /\ IsFiniteSet(Upload)
  /\ VolareRow \subseteq [ch: Ch \cup {None}, number: Number \cup {None}, signal: Signal,
                          date: {"in", "out", "unreadable"}, ranked: BOOLEAN]
  /\ FieldRow \subseteq [ch: Ch \cup {None}, number: Number \cup {None}, signal: Signal,
                         in_scope: BOOLEAN, doubt: BOOLEAN]
  /\ Master \subseteq [Ch -> Nat]
  /\ None \notin Ch \cup Number

Kind == {"UNPARSEABLE_CALL_DATE", "MISSING_RANK", "UNMAPPED_ACCOUNT", "AMBIGUOUS_ACCOUNT",
         "EXTRACTION", "OTHER"}

\* A ProcessedRow: its label, whether it has an account, why it is reviewed.
Row == [ref: Label, account: BOOLEAN, kinds: SUBSET Kind]

VARIABLES volare, field, master, \* the uploaded workbooks: functions of row positions
          stage,          \* how far the handler is
          disk,           \* raw source copies of this request on disk
          source_paths,   \* the copies the handler knows of
          removing,       \* copies _remove_uploads has still to unlink
          stuck,          \* copies whose unlink failed (history)
          todo,           \* Field rows the present loop has still to process
          pending,        \* Volare exceptions still to attach
          unmatched,      \* Volare exceptions that became rows of their own
          clean_rows, review_rows, excluded_count,
          run_store       \* the stored result, or None

inputs == <<volare, field, master>>
files == <<disk, source_paths, removing, stuck>>
buckets == <<clean_rows, review_rows, excluded_count>>
vars == <<inputs, stage, files, todo, pending, unmatched, buckets, run_store>>

Init ==
  /\ volare \in [Label -> VolareRow] /\ field \in [Label -> FieldRow] /\ master \in Master
  /\ stage = "write"
  /\ disk = {} /\ source_paths = {} /\ removing = {} /\ stuck = {}
  /\ todo = {} /\ pending = {} /\ unmatched = 0
  /\ clean_rows = <<>> /\ review_rows = <<>> /\ excluded_count = 0
  /\ run_store = None
-------------------------------------------------------------------------------
(* Raw source copies *)

\* _write_uploads copies one more file, and returns the paths after the last.  The
\* order of the files matters neither here nor in the removal.
WriteUpload ==
  /\ stage = "write"
  /\ \E f \in Upload \ disk : disk' = disk \cup {f}
  /\ IF disk' = Upload THEN stage' = "load" /\ source_paths' = Upload
     ELSE UNCHANGED <<stage, source_paths>>
  /\ UNCHANGED <<inputs, removing, stuck, todo, pending, unmatched, buckets, run_store>>

\* _write_uploads raises, having written some of a file or nothing of it:
\* source_paths is still empty, so that nothing will be removed.
WriteFails ==
  /\ stage = "write"
  /\ disk' = disk \/ \E f \in Upload \ disk : disk' = disk \cup {f}
  /\ stage' = "remove" /\ removing' = source_paths
  /\ UNCHANGED <<inputs, source_paths, stuck, todo, pending, unmatched, buckets, run_store>>

\* Mutant of RemoveUpload: the first unlink that fails ends the loop.
RemoveStops ==
  /\ stage = "remove"
  /\ \E f \in removing :
       \/ disk' = disk \ {f} /\ removing' = removing \ {f} /\ UNCHANGED stuck
       \/ stuck' = stuck \cup {f} /\ removing' = {} /\ UNCHANGED disk
  /\ UNCHANGED <<inputs, stage, source_paths, todo, pending, unmatched, buckets, run_store>>

\* One unlink of _remove_uploads; a failed one is passed over.
RemoveUpload ==
  /\ stage = "remove"
  /\ \E f \in removing :
       /\ removing' = removing \ {f}
       /\ \/ disk' = disk \ {f} /\ UNCHANGED stuck
          \/ stuck' = stuck \cup {f} /\ UNCHANGED disk
  /\ UNCHANGED <<inputs, stage, source_paths, todo, pending, unmatched, buckets, run_store>>

\* The response: a redirect to the review page, or the setup page with an error.
Respond ==
  /\ stage = "remove" /\ removing = {}
  /\ stage' = "ended"
  /\ UNCHANGED <<inputs, files, todo, pending, unmatched, buckets, run_store>>
-------------------------------------------------------------------------------
(* Loading and resolving *)

\* load_volare_drr: rows with an unreadable date or out of the window, and
\* noise, are not in the frame.
VolareFrame == {i \in Label : volare[i].date = "in" /\ volare[i].signal # "noise"}

VolareExceptions ==
  [ref: {i \in Label : volare[i].date = "unreadable"}, kind: {"UNPARSEABLE_CALL_DATE"}]
    \cup [ref: {i \in VolareFrame : ~volare[i].ranked}, kind: {"MISSING_RANK"}]

\* load_field_result, and how many accounts resolve_accounts finds for a row.
FieldFrame == {i \in Label : field[i].in_scope}
Accounts(i) == IF field[i].ch = None THEN 0 ELSE master[field[i].ch]

Resolved == {i \in FieldFrame : Accounts(i) = 1}

Unresolved == FieldFrame \ Resolved

ResolutionKind(i) == IF Accounts(i) = 0 THEN "UNMAPPED_ACCOUNT" ELSE "AMBIGUOUS_ACCOUNT"

\* The workbooks are loaded and the accounts resolved, before any row is processed.
Load ==
  /\ stage = "load"
  /\ stage' = "candidates"
  /\ todo' = Resolved
  /\ pending' = VolareExceptions
  /\ UNCHANGED <<inputs, files, unmatched, buckets, run_store>>

\* An exception in a loader or a loop: the error page, and no result is stored.
ProcessingFails ==
  /\ stage \in {"load", "candidates", "unresolved", "exceptions"}
  /\ stage' = "remove" /\ removing' = source_paths
  /\ UNCHANGED <<inputs, disk, source_paths, stuck, todo, pending, unmatched, buckets, run_store>>
-------------------------------------------------------------------------------
(* Dispositions *)

\* The row the loop takes next.
IsNext(i) == i \in todo /\ \A j \in todo : i <= j

\* _build_source_index: the Volare rows that have a key, as either of their two.
Under(key) == {k \in VolareFrame : key # None /\ key \in {volare[k].ch, volare[k].number}}

\* _choose_volare_row: the first row with the CH code, else with the account
\* number, else the row in the same position, whatever its keys; {} when there
\* is none of these.
ChosenVolare(i) ==
  LET same == IF Under(field[i].ch) # {} THEN Under(field[i].ch) ELSE Under(field[i].number)
  IN IF same # {} THEN {k \in same : \A j \in same : k <= j} ELSE {i} \cap VolareFrame

\* _row_inputs: a Volare cell that is not blank goes before the Field cell.
SignalOf(i) ==
  IF \E k \in ChosenVolare(i) : volare[k].signal # "blank"
  THEN CHOOSE s \in Signal : \E k \in ChosenVolare(i) : volare[k].signal = s
  ELSE field[i].signal

\* Mutant of KindsOf: the checks of the Field row's own columns are lost.
KindsWithoutDoubt(i, failed) ==
  (IF failed THEN {"EXTRACTION"} ELSE {})
    \cup (IF SignalOf(i) \in {"review", "blank"} THEN {"OTHER"} ELSE {})

\* _process_candidate: the reasons to review row i, with extraction failed or not.
KindsOf(i, failed) ==
  (IF failed THEN {"EXTRACTION"} ELSE {})
    \cup (IF field[i].doubt \/ SignalOf(i) \in {"review", "blank"} THEN {"OTHER"} ELSE {})

\* Mutant of Disposition: noise goes before the reasons to review.
NoiseFirst(i, kinds) ==
  IF SignalOf(i) = "noise" THEN "EXCLUDED" ELSE IF kinds # {} THEN "REVIEW_ONLY" ELSE "CLEAN"

\* classify_exclusion: a reason to review goes before a noise rule.
Disposition(i, kinds) ==
  IF kinds # {} THEN "REVIEW_ONLY" ELSE IF SignalOf(i) = "noise" THEN "EXCLUDED" ELSE "CLEAN"

\* One resolved row gets its disposition.
ProcessCandidate ==
  /\ stage = "candidates"
  /\ \E i \in todo, failed \in BOOLEAN :
       LET row == [ref |-> i, account |-> TRUE, kinds |-> KindsOf(i, failed)]
           disposition == Disposition(i, row.kinds)
       IN /\ IsNext(i)
          /\ todo' = todo \ {i}
          /\ clean_rows' = IF disposition = "CLEAN" THEN Append(clean_rows, row) ELSE clean_rows
          /\ review_rows' = IF disposition = "REVIEW_ONLY" THEN Append(review_rows, row)
                            ELSE review_rows
          /\ excluded_count' = IF disposition = "EXCLUDED" THEN excluded_count + 1
                               ELSE excluded_count
  /\ UNCHANGED <<inputs, stage, files, pending, unmatched, run_store>>

\* The candidates are through; the rows without one account come next.
EndCandidates ==
  /\ stage = "candidates" /\ todo = {}
  /\ stage' = "unresolved" /\ todo' = Unresolved
  /\ UNCHANGED <<inputs, files, pending, unmatched, buckets, run_store>>

\* _review_from_resolution.
AddUnresolved ==
  /\ stage = "unresolved"
  /\ \E i \in todo :
       /\ IsNext(i)
       /\ todo' = todo \ {i}
       /\ review_rows' =
            Append(review_rows, [ref |-> i, account |-> FALSE, kinds |-> {ResolutionKind(i)}])
  /\ UNCHANGED <<inputs, stage, files, pending, unmatched, clean_rows, excluded_count, run_store>>

EndUnresolved ==
  /\ stage = "unresolved" /\ todo = {}
  /\ stage' = "exceptions"
  /\ UNCHANGED <<inputs, files, todo, pending, unmatched, buckets, run_store>>
-------------------------------------------------------------------------------
(* Volare exceptions *)

\* Unreadable dates come before missing ranks, each kind in row order.
IsNextException(e) ==
  \A o \in pending :
    IF o.kind = e.kind THEN e.ref <= o.ref ELSE e.kind = "UNPARSEABLE_CALL_DATE"

\* Mutant of At: labels never compare equal.
AtNone(rows, ref) == {}

\* The first row of a bucket with a label, as a set of at most one position.
At(rows, ref) ==
  {k \in DOMAIN rows : rows[k].ref = ref /\ \A j \in DOMAIN rows : rows[j].ref = ref => k <= j}

\* Mutant of WithKind: the row moves, its reason gets lost.
WithoutKind(row, kind) == row

WithKind(row, kind) == [row EXCEPT !.kinds = @ \cup {kind}]

\* Mutant of AttachToClean: the row is not taken out of the clean rows.
AttachCopies(e, k) ==
  /\ UNCHANGED clean_rows
  /\ review_rows' = Append(review_rows, WithKind(clean_rows[k], e.kind))

AttachToClean(e, k) ==
  /\ clean_rows' = RemoveAt(clean_rows, k)
  /\ review_rows' = Append(review_rows, WithKind(clean_rows[k], e.kind))

AttachToReview(e, k) ==
  /\ review_rows' = [review_rows EXCEPT ![k] = WithKind(@, e.kind)]
  /\ UNCHANGED clean_rows

\* _review_from_volare: the exception becomes a row.
AddVolareRow(e) ==
  /\ review_rows' = Append(review_rows, [ref |-> e.ref, account |-> FALSE, kinds |-> {e.kind}])
  /\ UNCHANGED clean_rows

\* _attach_volare_exception: the exception goes to the row with its label,
\* clean rows first, and becomes a row of its own when there is none.
AttachException ==
  /\ stage = "exceptions"
  /\ \E e \in pending :
       /\ IsNextException(e)
       /\ pending' = pending \ {e}
       /\ \/ /\ \E k \in At(clean_rows, e.ref) : AttachToClean(e, k)
             /\ UNCHANGED unmatched
          \/ /\ At(clean_rows, e.ref) = {}
             /\ \E k \in At(review_rows, e.ref) : AttachToReview(e, k)
             /\ UNCHANGED unmatched
          \/ /\ At(clean_rows, e.ref) = {} /\ At(review_rows, e.ref) = {}
             /\ AddVolareRow(e)
             /\ unmatched' = unmatched + 1
  /\ UNCHANGED <<inputs, stage, files, todo, excluded_count, run_store>>

terminal_count == Len(clean_rows) + Len(review_rows) + excluded_count
expected_candidates == Cardinality(Resolved) + Cardinality(Unresolved) + unmatched

\* The result is stored, unless the counts differ.
Reconcile ==
  /\ stage = "exceptions" /\ pending = {}
  /\ stage' = "remove" /\ removing' = source_paths
  /\ run_store' =
       IF terminal_count # expected_candidates THEN None
       ELSE [clean_rows |-> clean_rows, review_rows |-> review_rows,
             excluded_count |-> excluded_count]
  /\ UNCHANGED <<inputs, disk, source_paths, stuck, todo, pending, unmatched, buckets>>

Next ==
  \/ WriteUpload \/ Load \/ ProcessCandidate \/ EndCandidates \/ AddUnresolved
  \/ EndUnresolved \/ AttachException \/ Reconcile \/ RemoveUpload \/ Respond
  \/ WriteFails \/ ProcessingFails

Spec == Init /\ [][Next]_vars
-------------------------------------------------------------------------------
(* Properties *)

RefsOf(rows) == {rows[k].ref : k \in DOMAIN rows}

\* No label is in the buckets twice, so that a decision by source_row_ref has
\* one target: what PortalAssumption of ReviewPortal says of a stored result.
RefsDistinct ==
  /\ \A j, k \in DOMAIN clean_rows : clean_rows[j].ref = clean_rows[k].ref => j = k
  /\ \A j, k \in DOMAIN review_rows : review_rows[j].ref = review_rows[k].ref => j = k
  /\ RefsOf(clean_rows) \cap RefsOf(review_rows) = {}

\* The rows of a bucket that stand for a row of the Field workbook.
FieldRefs(rows) ==
  {rows[k].ref : k \in {j \in DOMAIN rows :
     rows[j].account \/ ~(rows[j].kinds \subseteq {"UNPARSEABLE_CALL_DATE", "MISSING_RANK"})}}

\* Requirements 12.1 and 12.3: each Field row in scope is in one bucket, and
\* the excluded ones are the noise with no reason to review.
EachCandidateOnce ==
  run_store # None =>
    LET seen == FieldRefs(run_store.clean_rows) \cup FieldRefs(run_store.review_rows)
    IN /\ FieldRefs(run_store.clean_rows) \subseteq Resolved
       /\ FieldRefs(run_store.review_rows) \subseteq FieldFrame
       /\ Unresolved \subseteq FieldRefs(run_store.review_rows)
       /\ run_store.excluded_count = Cardinality(FieldFrame \ seen)
       /\ \A i \in FieldFrame \ seen : SignalOf(i) = "noise" /\ ~field[i].doubt

\* What the DA never sees is free of doubts: a clean row has one account, no
\* reason to review, and no Volare exception with its label.
CleanIsBacked ==
  run_store # None =>
    \A k \in DOMAIN run_store.clean_rows :
      LET row == run_store.clean_rows[k]
      IN /\ row.account /\ row.kinds = {} /\ Accounts(row.ref) = 1
         /\ SignalOf(row.ref) = "fine" /\ ~field[row.ref].doubt
         /\ \A e \in VolareExceptions : e.ref # row.ref

\* Requirements 3.6 and 3.7: every Volare exception waits for the DA.
ExceptionsWait ==
  run_store # None =>
    \A e \in VolareExceptions : \E k \in DOMAIN run_store.review_rows :
      run_store.review_rows[k].ref = e.ref /\ e.kind \in run_store.review_rows[k].kinds

\* The reconciliation check never refuses a run (DispositionReconciliationError).
ReconciliationHolds ==
  stage = "exceptions" /\ pending = {} => terminal_count = expected_candidates

\* Once the handler has answered, of the copies it knew of only those are left
\* that could not be unlinked (_remove_uploads goes on after a failure).
CopiesRemoved == stage = "ended" => source_paths \cap disk \subseteq stuck
===============================================================================
