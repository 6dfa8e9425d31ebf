----------------------------- MODULE ReviewPortal -----------------------------
(***************************************************************************)
(* The RCBC portal after processing: the process-lifetime RunStore, the    *)
(* review queue whose forms address rows by position, the export screen    *)
(* and the three artifacts.  Every handler runs on one event loop.  The    *)
(* decision handler is two actions, because it awaits the form body        *)
(* between the lookup of the run and everything else; the others do not    *)
(* await once they have looked the run up, and are one action each.        *)
(***************************************************************************)
EXTENDS Integers, SequencesExt

CONSTANTS Run,         \* the run ids uuid4 will hand out, each of them once
          Client,      \* browser tabs
          Ref,         \* source_row_ref values
          ChCode,      \* ChCode[f]: the ch_code of the row with reference f
          ListedRfd,   \* the options of the RFD dropdown
          OtherRfd,    \* reasons for default select_rfd can return besides
          Intake,      \* what process_run may hand over
          TargetField, \* the form fields clients identify a row with
          FormKind,    \* dropdowns left "untouched", "changed" or not sent ("blank")
          Capacity,    \* rows the mapped template regions hold
          MaxBatch,    \* bound on the number of artifact generations
          None,        \* no value
          Keep         \* a form field that is blank or not sent

\* One ProcessedRow: fits abbreviates remark_length <= 200.
Row == [ref: Ref, csu: 0..3, rfd: ListedRfd \cup OtherRfd \cup {None}, fits: BOOLEAN]

RefsOf(rows) == {rows[i].ref : i \in DOMAIN rows}

\* No source row is represented twice in a result.
DistinctRefs(result) ==
  /\ \A i, j \in DOMAIN result.clean_rows :
       result.clean_rows[i].ref = result.clean_rows[j].ref => i = j
  /\ \A i, j \in DOMAIN result.review_rows :
       result.review_rows[i].ref = result.review_rows[j].ref => i = j
  /\ \A i \in DOMAIN result.clean_rows, j \in DOMAIN result.review_rows :
       result.clean_rows[i].ref # result.review_rows[j].ref

ASSUME PortalAssumption ==
  /\ MaxBatch \in Nat /\ Capacity \in Nat
  /\ TargetField \subseteq {"row_id", "source_row_ref", "ch_code"}
  /\ {None, Keep} \cap (ListedRfd \cup OtherRfd) = {} /\ None # Keep
  /\ Intake \subseteq [clean_rows: Seq(Row), review_rows: Seq(Row), excluded_count: Nat]
  /\ \A in \in Intake : DistinctRefs(in)

VARIABLES run_store,         \* run_store[r]: the RunResult of r, or None
          generation_errors, \* runs with a recorded generation error
          page,              \* page[c]: the review page tab c shows, or None
          post,              \* post[c]: the decision of c whose body is awaited, or None
          batch,             \* generations so far: the uuid4 in the file names
          admitted           \* admitted[r]: what processing handed over (history), or None

vars == <<run_store, generation_errors, page, post, batch, admitted>>
-------------------------------------------------------------------------------
ARTIFACT_KEYS == {"bank_csr", "internal_csr", "bank_package"}
WORKBOOK_KEYS == ARTIFACT_KEYS \ {"bank_package"}

Workbook == [key: WORKBOOK_KEYS, batch: 1..MaxBatch, rows: Seq(Row)]
Package == [batch: 1..MaxBatch, members: SUBSET Workbook]
Artifacts == [bank_csr: Workbook \cup {None}, internal_csr: Workbook \cup {None},
              bank_package: Package \cup {None}]
NoArtifacts == [bank_csr |-> None, internal_csr |-> None, bank_package |-> None]

RunResult == [clean_rows: Seq(Row), review_rows: Seq(Row), excluded_count: Nat,
              artifacts: Artifacts]

Page == [run: Run, rows: Seq(Row)]
Target == [field: {"row_id"}, value: Nat] \cup [field: {"source_row_ref", "ch_code"}, value: Ref]
\* seen is the row the DA looked at: no part of the request, kept for the properties.
\* "invalid" is an unknown action, or a CSU that is not a rank.
Decision == [run: Run, target: Target, action: {"approve", "exclude", "edit", "invalid"},
             csu: 1..3 \cup {Keep}, rfd: ListedRfd \cup {None, Keep}, seen: Row]

ASSUME NoneAssumption ==
  None \notin RunResult \cup Workbook \cup Package \cup Page \cup Decision \cup Intake

Init ==
  /\ run_store = [r \in Run |-> None]
  /\ generation_errors = {}
  /\ page = [c \in Client |-> None]
  /\ post = [c \in Client |-> None]
  /\ batch = 0
  /\ admitted = [r \in Run |-> None]
-------------------------------------------------------------------------------
(* Review queue *)

\* The RunResult that processing saves.
Admit(in) ==
  [clean_rows |-> in.clean_rows, review_rows |-> in.review_rows,
   excluded_count |-> in.excluded_count, artifacts |-> NoArtifacts]

\* POST /process ends well: process_run has stored a reconciled result under
\* a fresh run id.  A failed run stores nothing and changes nothing here.
Process(r) ==
  /\ admitted[r] = None
  /\ \E in \in Intake :
       /\ run_store' = [run_store EXCEPT ![r] = Admit(in)]
       /\ admitted' = [admitted EXCEPT ![r] = in]
  /\ UNCHANGED <<generation_errors, page, post, batch>>

\* GET /review/{run_id}: the page lists the rows at their current positions.
GetReview(c, r) ==
  /\ run_store[r] # None
  /\ page' = [page EXCEPT ![c] = [run |-> r, rows |-> run_store[r].review_rows]]
  /\ UNCHANGED <<run_store, generation_errors, post, batch, admitted>>

\* Mutant of ShownCsu: no option is preselected for a row without a rank.
ShownUnranked(row) == row.csu

\* What the dropdown of a row shows before the DA touches it.
ShownCsu(row) == IF row.csu = 0 THEN 1 ELSE row.csu
ShownRfd(row) == IF row.rfd \in ListedRfd THEN row.rfd ELSE None

\* The dropdown values a request carries.
Forms(row, kind) ==
  CASE kind = "untouched" -> {[csu |-> ShownCsu(row), rfd |-> ShownRfd(row)]}
    [] kind = "changed" -> [csu: {3}, rfd: ListedRfd]
    [] OTHER -> {[csu |-> Keep, rfd |-> Keep]}

\* How a request names the row the page shows in position i.  Positions count
\* from 1 here and from 0 in the code; a ch_code of digits only would be read as
\* a position there, and the codes here are not.
TargetOf(field, row, i) ==
  [field |-> field, value |-> IF field = "row_id" THEN i ELSE row.ref]

\* POST /review/{run_id}/decision up to the await: the run is looked up; an
\* unknown run is answered 404 and changes nothing.
PostDecision(c) ==
  /\ page[c] # None /\ post[c] = None
  /\ run_store[page[c].run] # None
  /\ \E i \in DOMAIN page[c].rows, action \in {"approve", "exclude", "edit", "invalid"},
        field \in TargetField :
       LET row == page[c].rows[i]
       IN \E form \in UNION {Forms(row, kind) : kind \in FormKind} :
            post' = [post EXCEPT ![c] =
              [run |-> page[c].run, target |-> TargetOf(field, row, i),
               action |-> action, csu |-> form.csu, rfd |-> form.rfd, seen |-> row]]
  /\ UNCHANGED <<run_store, generation_errors, page, batch, admitted>>

\* _target_review_index: the positions of the queue that a target matches.
Matches(rows, target) ==
  CASE target.field = "row_id" -> {target.value} \cap DOMAIN rows
    [] target.field = "source_row_ref" -> {i \in DOMAIN rows : rows[i].ref = target.value}
    [] OTHER -> {i \in DOMAIN rows : ChCode[rows[i].ref] = ChCode[target.value]}

IsTargetIndex(rows, target, i) == Matches(rows, target) = {i}

\* _apply_review_edit: the dropdowns travel with every action of the form.
ApplyReviewEdit(row, p) ==
  [row EXCEPT !.csu = IF p.csu = Keep THEN row.csu ELSE p.csu,
              !.rfd = IF p.rfd = Keep THEN row.rfd ELSE p.rfd]

\* Mutant of Decided: the exclusion is not counted.
DecidedUncounted(result, i, row, action) ==
  IF action = "edit" THEN [result EXCEPT !.review_rows = [@ EXCEPT ![i] = row]]
  ELSE [result EXCEPT !.review_rows = RemoveAt(@, i),
          !.clean_rows = IF action = "approve" THEN Append(@, row) ELSE @]

\* Mutant of Decided: pop() without the position takes the last row.
DecidedPopsLast(result, i, row, action) ==
  IF action = "edit" THEN [result EXCEPT !.review_rows = [@ EXCEPT ![i] = row]]
  ELSE [result EXCEPT !.review_rows = Front(@),
          !.clean_rows = IF action = "approve" THEN Append(@, row) ELSE @,
          !.excluded_count = IF action = "exclude" THEN @ + 1 ELSE @]

\* What a decision does to the result; row is the target with its edits.
Decided(result, i, row, action) ==
  CASE action = "approve" ->
         [result EXCEPT !.clean_rows = Append(@, row), !.review_rows = RemoveAt(@, i)]
    [] action = "exclude" ->
         [result EXCEPT !.excluded_count = @ + 1, !.review_rows = RemoveAt(@, i)]
    [] OTHER -> [result EXCEPT !.review_rows = [@ EXCEPT ![i] = row]]

\* The rest of the handler, once the body has arrived.  RunStore hands out
\* the result itself, not a copy, so the queue is read as it is now.
ApplyDecision(c) ==
  /\ post[c] # None /\ post[c].action # "invalid"
  /\ LET p == post[c]
         result == run_store[p.run]
     IN \E i \in DOMAIN result.review_rows :
          /\ IsTargetIndex(result.review_rows, p.target, i)
          /\ run_store' = [run_store EXCEPT ![p.run] =
               Decided(result, i, ApplyReviewEdit(result.review_rows[i], p), p.action)]
  /\ post' = [post EXCEPT ![c] = None]
  /\ UNCHANGED <<generation_errors, page, batch, admitted>>

\* The 400 answers: no row matches, or more than one does, or the action or
\* the CSU is invalid.
RejectDecision(c) ==
  /\ post[c] # None
  /\ \/ post[c].action = "invalid"
     \/ \A i \in DOMAIN run_store[post[c].run].review_rows :
          ~IsTargetIndex(run_store[post[c].run].review_rows, post[c].target, i)
  /\ post' = [post EXCEPT ![c] = None]
  /\ UNCHANGED <<run_store, generation_errors, page, batch, admitted>>
-------------------------------------------------------------------------------
(* Export: POST /export/{run_id}/generate *)

\* Mutant of MayGenerate: the 409 is forgotten.
MayGenerateEarly(r) == run_store[r] # None

\* The guard of the handler: 404 without the run, 409 with rows to review.
MayGenerate(r) == run_store[r] # None /\ run_store[r].review_rows = <<>>

\* render_workbooks: both workbooks hold every clean row, under new names.
Rendered(result, key, b) == [key |-> key, batch |-> b, rows |-> result.clean_rows]

RendersInto(r) == Len(run_store[r].clean_rows) <= Capacity

\* Mutant of NoteFailure: the failure is not recorded.
ForgetFailure(r) == generation_errors

NoteFailure(r) == generation_errors \cup {r}

\* The artifacts once both workbooks and the archive of them are built.
WithPackage(bank, internal, b) ==
  [bank_csr |-> bank, internal_csr |-> internal,
   bank_package |-> [batch |-> b, members |-> {bank, internal}]]

\* Both workbooks and the archive are built and replace the artifacts.
GenerateAll(r) ==
  /\ MayGenerate(r) /\ RendersInto(r) /\ batch < MaxBatch
  /\ run_store' = [run_store EXCEPT ![r].artifacts =
       WithPackage(Rendered(run_store[r], "bank_csr", batch + 1),
                   Rendered(run_store[r], "internal_csr", batch + 1), batch + 1)]
  /\ batch' = batch + 1
  /\ generation_errors' = generation_errors \ {r}
  /\ UNCHANGED <<page, post, admitted>>

\* Mutant of WithoutPackage: the package of an earlier generation stays.
KeepsOldPackage(artifacts, bank, internal) ==
  [artifacts EXCEPT !.bank_csr = bank, !.internal_csr = internal]

\* The artifacts once the workbooks are rendered and the archive is not.
WithoutPackage(artifacts, bank, internal) ==
  [artifacts EXCEPT !.bank_csr = bank, !.internal_csr = internal, !.bank_package = None]

\* The workbooks are rendered, the archive fails; so does an OSError of the
\* file work around it, which ends in the same handler.
ArchiveFails(r) ==
  /\ MayGenerate(r) /\ RendersInto(r) /\ batch < MaxBatch
  /\ run_store' = [run_store EXCEPT ![r].artifacts =
       WithoutPackage(@, Rendered(run_store[r], "bank_csr", batch + 1),
                         Rendered(run_store[r], "internal_csr", batch + 1))]
  /\ batch' = batch + 1
  /\ generation_errors' = NoteFailure(r)
  /\ UNCHANGED <<page, post, admitted>>

\* The template is missing, does not hold the rows, or a file cannot be
\* written: nothing was rendered and the artifacts stay.
RenderFails(r) ==
  /\ MayGenerate(r)
  /\ generation_errors' = NoteFailure(r)
  /\ UNCHANGED <<run_store, page, post, batch, admitted>>

\* The process ends: the store, the errors and the requests are gone; the
\* pages in the browsers stay, and the run ids are not handed out again.
Restart ==
  /\ run_store' = [r \in Run |-> None]
  /\ generation_errors' = {}
  /\ post' = [c \in Client |-> None]
  /\ UNCHANGED <<page, batch, admitted>>

Next ==
  \/ Restart
  \/ \E r \in Run : Process(r) \/ GenerateAll(r) \/ ArchiveFails(r) \/ RenderFails(r)
  \/ \E c \in Client : PostDecision(c) \/ ApplyDecision(c) \/ RejectDecision(c)
  \/ \E c \in Client, r \in Run : GetReview(c, r)

Spec == Init /\ [][Next]_vars
-------------------------------------------------------------------------------
(* Properties *)

\* Types of the portal's state; a decision in flight is for a run that exists.
TypeOK ==
  /\ run_store \in [Run -> RunResult \cup {None}]
  /\ generation_errors \subseteq {r \in Run : run_store[r] # None}
  /\ page \in [Client -> Page \cup {None}]
  /\ post \in [Client -> Decision \cup {None}]
  /\ batch \in 0..MaxBatch
  /\ admitted \in [Run -> Intake \cup {None}]
  /\ \A r \in Run : run_store[r] # None => admitted[r] # None
  /\ \A c \in Client : post[c] # None => run_store[post[c].run] # None

CountOf(result) ==
  Len(result.clean_rows) + Len(result.review_rows) + result.excluded_count

\* The three buckets account for exactly the rows processing handed over,
\* whatever tabs decide in whatever order (review_decision, _run_summary).
Reconciled ==
  \A r \in Run : run_store[r] # None => CountOf(run_store[r]) = CountOf(admitted[r])

\* No row is both waiting and included, or either of them twice, so that no
\* account is exported twice (the append and the pop of review_decision).
NoRowTwice == \A r \in Run : run_store[r] # None => DistinctRefs(run_store[r])

\* A workbook that can be downloaded holds all the included rows as they are
\* now, and no row of its run waits: no decision comes after a generation.
WorkbooksCurrent ==
  \A r \in Run, key \in WORKBOOK_KEYS :
    run_store[r] # None /\ run_store[r].artifacts[key] # None
      => /\ run_store[r].artifacts[key].rows = run_store[r].clean_rows
         /\ run_store[r].review_rows = <<>>

\* The package that can be downloaded holds the very workbooks that can be
\* downloaded, also after a later generation that failed half way.
PackageMatches ==
  \A r \in Run :
    LET artifacts == run_store[r].artifacts
    IN run_store[r] # None /\ artifacts.bank_package # None
         => /\ None \notin {artifacts.bank_csr, artifacts.internal_csr}
            /\ artifacts.bank_package.members = {artifacts.bank_csr, artifacts.internal_csr}

\* With no error on the export screen, all three artifacts are there or
\* generation was never tried: an incomplete set is never shown as a success.
IncompleteIsTold ==
  \A r \in Run :
    run_store[r] # None /\ r \notin generation_errors
      => \/ run_store[r].artifacts = NoArtifacts
         \/ \A key \in ARTIFACT_KEYS : run_store[r].artifacts[key] # None

\* The rows of a run and where they are, for comparing two states.
Places(result) ==
  [clean |-> ToSet(result.clean_rows), review |-> ToSet(result.review_rows)]

\* The rows a step moves or changes in run r.
Touched(r) ==
  IF run_store[r] = None \/ run_store'[r] = None THEN {}
  ELSE LET old == Places(run_store[r])
           new == Places(run_store'[r])
       IN {f \in Ref : \E row \in Row : row.ref = f /\
             \/ row \in old.clean /\ row \notin new.clean
             \/ row \in old.review /\ row \notin new.review}

Answered(c) == post[c] # None /\ post'[c] = None

\* A decision that names its row by source_row_ref never touches another row
\* than the one the DA looked at, however old the page is.
RefDecisionHitsSeenRow ==
  [][\A c \in Client : Answered(c) /\ post[c].target.field = "source_row_ref"
       => Touched(post[c].run) \subseteq {post[c].seen.ref}]_vars

\* Requirement 13.4 and 13.5 for the request the page really sends: a decision
\* touches no other row than the one it was made for.
DecisionHitsSeenRow ==
  [][\A c \in Client : Answered(c) => Touched(post[c].run) \subseteq {post[c].seen.ref}]_vars
-------------------------------------------------------------------------------
(* The portal keeps the ledger's promise. *)

AdmittedRefs(in) == RefsOf(in.clean_rows) \cup RefsOf(in.review_rows)

openRows == [r \in Run |-> IF run_store[r] = None THEN {} ELSE ToSet(run_store[r].review_rows)]
includedRows == [r \in Run |-> IF run_store[r] = None THEN {} ELSE ToSet(run_store[r].clean_rows)]
droppedRefs == [r \in Run |->
  IF run_store[r] = None THEN {}
  ELSE AdmittedRefs(admitted[r]) \ (RefsOf(run_store[r].clean_rows)
                                      \cup RefsOf(run_store[r].review_rows))]
releasedRows == [r \in Run |->
  IF run_store[r] = None THEN None
  ELSE IF run_store[r].artifacts.bank_csr = None THEN None
  ELSE ToSet(run_store[r].artifacts.bank_csr.rows)]

Ledger == INSTANCE RunLedger WITH open <- openRows, included <- includedRows,
                                  dropped <- droppedRefs, released <- releasedRows

\* Each row is decided at most once and finally, a step decides at most one
\* row, and what is delivered is what was included when nothing waited.
LedgerKept == Ledger!LedgerSpec
===============================================================================
