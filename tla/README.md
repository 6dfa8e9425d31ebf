# TLA+ verification of the RCBC bank report portal

This directory models the program under `src/`: a FastAPI portal in which a
data associate (DA) uploads three workbooks, gets every candidate row cleared,
held for review or excluded, decides on the held rows, and generates two
workbooks and an encrypted package. Beside the portal the repository holds an
LLM-backed "remarks lab" with its own server, and the persistence, gate and
configuration services of a later phase. TLC checks small instances; TLAPS
proves the theorems listed below for every value of the constants.

## Inventory

| part (source) | state | operations | hard behaviour |
|---|---|---|---|
| Review and export portal (`services/web.py`, `persistence/run_store.py`, `services/rendering.py`, `services/archive.py`, `templates/review.html`) | `RunStore` (runs by id, in memory), `generation_errors`, artifact files; in the browsers: rendered pages | `/process`, `/review/{run}`, `/review/{run}/decision`, `/export/{run}`, `/export/{run}/generate`, `/download` | the decision handler awaits the form body after looking the run up; forms name rows by position; generation can fail half way; a restart forgets all runs |
| Processing run (`services/orchestrator.py`, `ingestion.py`, `resolution.py`) | the three buckets while they are built, source copies on disk | `_write_uploads`, the loaders, `process_run`, `_attach_volare_exception`, `_remove_uploads` | any step may raise; rows of different workbooks are matched in two different ways; counts must reconcile |
| Row rules (`domain/hierarchy.py`, `remarks.py`, `sanitizer.py`, `orchestrator._process_candidate`) | none | sanitize, parse tags, trim, relation, CSU rank, RFD, exclusion | precedence of rules; what a rule reads another has already cut; the 200 character limit |
| Extraction gateway (`services/extraction_gateway.py`) | the endpoint's settings | minimize, request, validate | an answer that is no JSON, has other keys or little confidence; a time-out; all must end as a review and none as a value |
| LLM engine (`engine/summarizer.py`, `router.py`) | settings and profile of a shared summarizer; per batch a semaphore, the coroutines, a progress count | `call_llm`, `parallel_process_records`, `canonicalize_csu_rfd` | retries and re-asking inside an attempt, concurrent coroutines, partial failure, long chains of rules with early returns, settings changed under a call |
| Profile store (`engine/profiles.py`, the `/api/profiles` and `/api/remarks` endpoints) | a JSON file: profiles by id, the active id | list, save, activate, delete, reset; `reload_active_profile` | every operation loads, changes and writes the whole file; a write truncates first; a load of an unreadable file writes the shipped profiles; two threads use it |
| Remarks lab (`services/remarks_lab/`) | the rows, the ranking, the counters of a batch | parse, rank, dispatch, trim, compare, count, export, re-import | columns found by alias in an order of preference; filters that shift numbers; rules in two modules that must agree; counters that must add up |
| Progress streaming (`web.py`, the `*-stream` endpoints) | per stream a worker thread, a queue, a generator | `progress_cb`, `sse_generator`, disconnect | messages cross from a thread to the loop; the worker may end before the last message is read; the client leaves while the worker runs |
| Phase 1 persistence (`persistence/`) | tables in SQLite, of which five are append-only | the repositories' methods inside `session_scope` | a method reads and then flushes, and another session commits between; triggers, foreign keys and unit of work decide together what is written |
| Gates, configuration store, planner (`services/gate_*`, `config_store.py`, `phase1_planner.py`) | gate evidence, configuration versions | record, evaluate, authorise | stale or missing evidence |
| Settings, entry points, config parser, frontend, migrations | none of its own | start-up, translation, presentation | not modelled |

How they interact: `/process` calls `process_run`, which applies the row rules
to each candidate, asks the gateway for what the tags do not say, and stores a
`RunResult` in the `RunStore`; review, export and download handlers share that
object. A handler of the portal is interleaved with others only where it
awaits. The lab's endpoints parse a workbook, rank its rows and hand them to
the summarizer, one object for all requests, whose answers the lab compares and
counts. A blocking batch runs on the event loop and stops it; a streamed batch
runs on a worker thread, which shares the summarizer and, through every batch's
reload, the profiles file with the profile endpoints, and posts messages to
the loop. The evidence database is shared by sessions of any process.

What makes them correct, per part: every row is accounted for and decided once
and deliverables are current (portal); each candidate has one disposition,
nothing doubtful is cleared silently and copies are removed (processing); a
released row is whole and rests on no doubt (rules); an endpoint failure
becomes a review, never a value (gateway, engine); each record of a batch is
answered once and in order (engine, lab); what a user changed in a profile is
kept, and a batch uses one profile (profiles); the client sees the progress and
the end of its batch, in order (streaming); counters and row numbers lead back
to the sheet (lab); committed evidence never changes and names what exists
(persistence); no authorisation without current evidence (gates).

## Modules

`RunLedger` - the abstract promise of the portal: rows wait, are decided once,
and what is released is what was included when nothing waited. No positions,
forms, files or errors.

`ReviewPortal` - the portal from the stored result on. One action per handler:
`GetReview`, `PostDecision` (the decision handler up to `await request.form()`),
`ApplyDecision`/`RejectDecision` (the rest of it), `GenerateAll`,
`ArchiveFails`, `RenderFails` (the three ways out of `export_generate`),
`Process` (a reconciled result arrives), `Restart`. The variables
`run_store` and `generation_errors` are the fields of `app.state`; `page` is
what a tab shows, `post` a request whose body is awaited; `batch` numbers the
generations as `uuid4` names the files; `admitted` is history.
A row is a reference, a CSU, an RFD and whether its remark fits. Source rows,
remarks and files have no other content. `_run_summary`, `/export` and
`/download` only read: their answers are what `WorkbooksCurrent`,
`PackageMatches` and `IncompleteIsTold` talk about.

`ProcessRun` - one `POST /process`: `WriteUpload`/`WriteFails`, `Load`, one
action per iteration of each loop of `process_run` (`ProcessCandidate`,
`AddUnresolved`, `AttachException`) and one for its end, `Reconcile`,
`ProcessingFails` (any exception in between), `RemoveUpload`, `Respond`.
What the columns of a row amount to under the row rules is one of four signals.
Its `RefsDistinct` is what `PortalAssumption` of `ReviewPortal` asks of a
stored result.

`Canonicalize` - one call of `canonicalize_csu_rfd`, which makes the CSU and the
RFD a model proposed agree with the remark and the CONCAT. The rules are
operators in the order of the code: `ConcatVerdict`, `NarrativeVerdict`,
`FamilyVerdict` and `AbsenceVerdict` are the early returns, `Normalised` the
rules before and `Consistent` the chain after them; `Canonical` composes them
and the action `Return` answers. Texts are reduced to what the rules test: a
CSU to client, unit and note, a remark to the phrases found in it, a CONCAT to
its marks. Where one text contains another the tests say so (UNVERIFIED
contains VERIFIED); tests the code can never pass (lower case words in upper
case text) are left out and named in a comment.

`LlmDispatch` - a batch: `parallel_process_records`, `call_llm` and the part of
`process_rows` that sends the batch and makes rows of it. Each record's
coroutine has a state of its own and one action per stretch between two awaits:
`Start` (a place in the semaphore, the first request), `Accept`, `ReAsk`,
`ReAskAnswered`, `ReAskFails`, `AttemptFails` (the ways out of a request) and
`PromptBreaks` (an exception nothing catches before `gather`). `Route`,
`Gathered` and `Assemble` are the stages before and after, `DispatchFails` the
exception `process_rows` swallows. `force_all` tells `process_rows`, which sends
every remark, from the callers that route. A reply is only coupled or not,
sure or not, and names a CSU or not: what it says is `Canonicalize`'s subject.

`Remarks` - the texts of a report row. A remark is a sequence of words, of which
only those a rule tests have names; a contact or a statement is a `Part`, the
characters of its core and of the separators around it. `sanitize_remark`
drops markers with what they drag along, `parse_pipe_tags` reads the two forms
of ordered tags, `trim_to_200` joins contact and statement, shortening
separators only. What a walk over a remark finds is a `Scan`: a function from
positions that takes what is found at one and goes on where that leads.

`Hierarchy` - the rules of `domain/hierarchy.py`: `classify_relation`,
`csu_rank`, `select_rfd`, `is_defined_noise`, `classify_exclusion`, with the
tables they read.

`RowRules` - one candidate of `_process_candidate`, over `Hierarchy`: `Sanitize`,
then `ReadTags`, `AskProvider` or `RefuseBlank`, then `ProviderAnswers` (any
way the gateway's call can end, `validate_response`) and `ApplyRules`
(`ProcessedRow`); `ReviewFromResolution` is `_exception_row`, for a candidate
with no account. Its dispositions are the signals `ProcessRun` takes as given.

`LabRules` - the lab's rules: `detect_remark_relation`, `classify_contact`,
`classify_rfd`, `classify_csu`, `FallbackRfd` and the two comparisons
`is_csu_match` and `is_rfd_match`. A remark is the set of phrases found in it.

`LabSheet` - `find_column_match` over the aliases in the code's order,
`parse_field_result_sheet` with its filters and row numbers, and
`export_to_excel` in test mode.

`LabBatch` - one workbook through `process_rows`: `Parse`, `Preprocess` (one
row's contact, RFD and CSU) or `PreprocessRaises`, `Dispatch`, `Assemble` (one
row's result and its counters, `Tally`), `Report`, and `Reupload` of the
exported report. How a statement is cut is a set of lengths the trimmer can
return (`trim_and_format`, `llm_trim`, `clause_truncate`). `exported` is
history: whether the workbook is the export of the rows read before.

`EvidenceStore` - the repositories of `persistence/repositories.py` called by
several sessions over one database in WAL mode. A session's first write takes
the write lock (`Flush`), `Commit` and `Rollback` end its `session_scope`. A
method that reads and then writes is two actions (`ReadForCompletion` and
`Complete`, `ReadForDeletion` and `Delete`, `ReadForEvent` and
`RecordStateEvent`), since other sessions commit between them. `Guarded` is the
triggers, `Insertable` the keys and the one snapshot of a run. `DirectDelete`
and `DirectUpdate` are statements that go past the repositories, which the
triggers are there to stop.

`ProfileStore` - the profiles as data: what a load makes of the file
(`Completed`), and what each request makes of the data (`Accepted`, `Changed`).

`LabServer` - the event loop and one worker thread per stream over one profiles
file and one summarizer. A thread's position (`at`) is where it may be
preempted: at each access of the file and each assignment to the summarizer.
`Load`, `Open` and `Close` are the file accesses; `Receive`, `Decide`, `Written`
and `Respond` a profile request; `ReadActive` to `SetPrompt` the reload;
`BlockingBatch`, `OpenStream`, `Ask`, `Return`, `Raise` and `NameRaised` a batch
and its calls; `RunCallback`, `Send` and `Disconnect` the generator of a stream;
`Crash` a kill and a restart. A batch ends in one of three ways. `Complete`: the
models were asked about every remark. `CompleteByRules`: they were not wanted
(`run_ai`), have no key, or their dispatch raised, which is swallowed; the client
is sent "complete" as well, here "ruled" to tell the two apart. `Fail`: an
exception before the first call or after the last, and the client is sent
"error". A "progress" is a message that counts a finished call (`_bounded_call`);
the messages that name a stage and the one that counts none yet are left out.
`kept`, `lost`, `calm` and `chosen` are history.

`MCReviewPortal`, `MCProcessRun`, `MCCanonicalize`, `MCLlmDispatch`,
`MCRowRules`, `MCLabBatch`, `MCEvidenceStore`, `MCLabServer` - the instances TLC
runs. `ReviewPortalProofs`, `ProcessRunProofs`, `RowRulesProofs`,
`CanonicalizeProofs`, `LlmDispatchProofs`, `LabBatchProofs`, `LabServerProofs`,
`EvidenceStoreProofs` - the theorems.

## Runs

| run | instance | shows |
|---|---|---|
| `review_portal` | 1 run id, 2 tabs, 3 rows, requests by position and by reference, changed dropdowns, 1 generation | `Reconciled`, `NoRowTwice`, `WorkbooksCurrent`, `RefDecisionHitsSeenRow`, and `LedgerKept`: the portal implements `RunLedger` |
| `review_forms` | 1 tab, every kind of form and target (`ch_code` too), 2 generations | `TypeOK`, `PackageMatches`, `IncompleteIsTold` |
| `stale_position` | as `review_forms`, targets by position | finding: `DecisionHitsSeenRow` fails |
| `process_run` | 2 positions per workbook, 7 kinds of Volare row, 7 of Field row, 3 Master files, 2 uploads | `RefsDistinct`, `EachCandidateOnce`, `CleanIsBacked`, `ExceptionsWait`, `ReconciliationHolds`, `CopiesRemoved` |
| `canonicalize` | every proposal with every pair of phrases, and every phrase with every concat | `Coupled`, `GoneNeedsVisit`, `Settled`, `ReasonKept`, `NegativeKept` |
| `llm_dispatch` | 3 records, 2 places, 2 retries | `RequestBudget`, `OwnAnswer`, `ParsedIsUsed`, `FailureShown`, `BatchEnds` |
| `row_rules` | rows that differ from a sound one in few columns, 8 kinds of answer | `ReleasedIsWhole`, `ReleasedIsSure`, `NothingInvented` |
| `lab_batch` | workbooks of two lines with and without optional columns, both modes, with and without a window | `CountsReconcile`, `WithinLimit`, `ReasonFitsVisit`, `NumbersLeadBack`, `ReimportFaithful` |
| `tags_ranked` | as `lab_batch` | finding: `TagsAreRanked` fails |
| `evidence_store` | 2 sessions, 1 run, 1 source, 2 snapshots, 2 outcomes, 1 artifact, 2 events, 5 rows | `ReferencesResolve`, `StateIsBacked`, `EvidenceStands` |
| `projection_lags` | as `evidence_store` | finding: `StateIsLastEvent` fails |
| `lab_server` | 1 custom profile, the loop and 1 stream, 1 remark, 2 requests or kills | `CustomsStand`, `CalmBatchIsUniform`, `StreamInOrder`, `StreamServed` |

Bounds.

* Portal: two tabs are what a race over one run takes, since a third decision
  only repeats what the second may do; two waiting rows let a position go
  stale, a third row makes the order of the clean rows visible and an ambiguous
  `ch_code` possible. One run id is enough where all state but the tabs' is per
  run; the theorems cover more. `MaxBatch` bounds the generations: two let a
  failure follow a success. `Capacity` 2 with an intake of three clean rows
  makes rendering fail.
* `process_run`: two positions per workbook are the smallest where the Volare
  row matched by CH code is not the one in the same position; two uploads let
  the second write, or one of the removals, fail after the first.
* `canonicalize`: a remark has at most two phrases, since a rule tests at most
  two of them together, and one where the concat varies; no rule reads the
  concat together with more than one phrase except to be disabled by either.
  The theorems about it hold of every set of phrases.
* `llm_dispatch`: three records over two places make one wait for another, and a
  record that needs no model shifts the places of the results; two retries are
  the code's default, and let an attempt fail after another, a re-asking come
  in between, and the last attempt differ from both.
* `row_rules`: a limit of 10 stands for 200, with contacts and statements just
  below, at and above it. Each rule reads few columns, so each family of rows
  varies the columns some rule reads together: remark and statement, remark
  and status of the Volare row, contact, statement and status, relation and
  tagged RFD, the two sentiments.
* `lab_batch`: two lines let the first be filtered out above the second; the
  remarks meet each rule that another rule has to agree with. `Limit` 4,
  `Preferred` 3 and `Floor` 2 stand for 200, 181 and 30: a header of 2 leaves
  room for the floor, one of 3 does not.
* `evidence_store`: the run, a source, an outcome and its successor, and one
  event or an artifact are the longest chain of references, which `MaxRows` 5
  allows; one artifact is what two sessions compete for. The sets are small
  enough that the sessions meet on the same row in most states. Sessions,
  snapshots and hashes are interchangeable (`Alike`); the properties are safety
  properties and name none of them.
* `lab_server`: two requests are a change and a later one, or a change and a
  kill, next to a stream at any of its steps; one remark tells the answer's
  profile from the prompt's, and the progress of every remark from that of none;
  three of the seven shipped profiles are the undeletable one, a protected one
  and one that can be deleted. A user has one text for a profile: that of two
  saves the last one stands holds with two texts too, in a run that takes twice
  as long, and is proved for any number.

The deadlock check is off where the handler, the call, the row, the batch or
the streams end. A type invariant is a run's property for the portal only;
that of `Canonicalize` is proved, that of `ProcessRun` is part of the invariant
its theorems rest on, and in the other modules a value of a wrong type makes an
operator of the model, and so the run, fail.

Fairness. `LlmDispatch` assumes weak fairness of `Next`: the event loop runs every coroutine that can
go on, and each request has a timeout, so it ends as an answer or as a failure.
Every step brings the batch closer to its end, so fairness of a single disjunct
is not needed. `LabServer` assumes weak fairness of the loop's current request
or batch, and of each worker and each stream's generator: threads are
scheduled, a provider's call times out, and the loop comes round to every
callback. Nothing is assumed of requests, disconnections and kills, and no
fairness is assumed of failures. `ReviewPortal`, `ProcessRun`, `RowRules`,
`LabBatch` and `EvidenceStore` state no liveness: what a DA does next is up to
the DA, `process_run` and the rules are sequential loops over finite frames, and
a session may wait or give up.

## Proofs

`ReviewPortalProofs` proves, for any number of runs, tabs, rows and any intake
that satisfies `PortalAssumption`, six theorems of the form `Spec => []P`:
`Typing` (`TypeOK`), `Reconciliation` (`Reconciled`), `RowsStayApart`
(`NoRowTwice`), `DownloadsCurrent` (`WorkbooksCurrent`), `PackageOfWorkbooks`
(`PackageMatches`) and `IncompleteRecorded` (`IncompleteIsTold`); and two about
steps, `PortalKeepsLedger` (`LedgerKept`: the portal implements `RunLedger`) and
`RefDecisionsHit` (`RefDecisionHitsSeenRow`).

The argument: lemma `StoreStep` says that every step leaves each run alone,
loses it, admits it, decides one row of it or generates from it. Each
invariant is then shown for the three last cases by lemmas about `Decided`
(`DecidedCount`, `DecidedDistinct`, `DecidedArtifacts`, resting on
`RemoveAtFacts`) and about the artifact records (`FullSetFacts`,
`HalfSetFacts`). `TypeOK` is inductive only with its last conjuncts: a decision
in flight is for a run that exists, because its second half does not look the
run up again. `WorkbooksCurrent` has to say that no row waits once workbooks
exist, or a later decision could make them stale; the guard of
`export_generate` gives it. `PackageMatches` and `IncompleteIsTold` rest on the
artifacts always being empty, the full set, or the set without the package.

The refinement maps the buckets to the sets of rows in them: order and position
are forgotten. Its invariant `LInv` is `TypeOK`, `NoRowTwice`, and that no
reference is stored that was not admitted. `NoRowTwice` is needed because taking
one position out of a sequence takes one row out of its set only if no other
position holds it (`DecidedSets`). `ProcessEnters`, `GenerationReleases` and
`DecisionMoves` show that these steps are steps of the ledger, `StepSimulated`
that all others leave it alone. `RefDecisionHitsSeenRow` rests on `NamesSeenRow`:
a request by reference names the row its page showed, which stays so while the
queue changes, since other tabs' steps do not touch the request; and a decision
leaves every other row where it was (`OthersStand`).

`ProcessRunProofs` proves, for workbooks of any length over any rows and any
uploads, `LabelsDistinct` (`RefsDistinct`), `AlwaysReconciles`
(`ReconciliationHolds`), `CandidatesOnce` (`EachCandidateOnce`), `CleanAlwaysBacked`
(`CleanIsBacked`), `ExceptionsAlwaysWait` (`ExceptionsWait`) and
`CopiesAlwaysRemoved` (`CopiesRemoved`). The invariant speaks of the Field rows
taken and the exceptions attached so far. Labels are unique in and across the
buckets (`Apart`); a clean row has nothing against it (`Sound`); each row taken is
in a bucket or is noise (`Accounted`); each exception attached is a reason of a
review row, and its label is that of no clean one (`Waiting`); lengths and counters
add up to the rows taken (`Counted`). Hard is `AttachException`, which moves a clean
row, marks a waiting one, or adds a row that is no candidate: each way has to keep
all four, the exceptions attached earlier included. For `CopiesRemoved` it is
enough to follow what is still to be unlinked.

`RowRulesProofs` proves, for any candidate, limit and provider,
`ReleasedAlwaysSure` (`ReleasedIsSure`): a finished row is `ProcessedRow` of what
was extracted, and nothing changes it later; a released one has no kinds, and a
failure, a missing rank or an unclear relation each leaves one. `ReleasedAlwaysWhole`
(`ReleasedIsWhole`) looks into `ProcessedRow`: every way `trim_to_200` may return
what fits is as long as both cores at least (`FittingFacts`, `TrimmedFacts`), and
what does not fit is one of the kinds. `NothingEverInvented` (`NothingInvented`)
rests on the invariant `Extracted`: each field extracted is absent or a stretch of
the sanitized remark, unless the provider was asked about that very remark.
What the sanitizer leaves is a text again (`SanitizedText`), and what the tags give
are stretches of it (`ParsedFacts`), since a bar or the end of the text is never
passed (`NextBarFacts`) and each part lies between two of them (`PartsFacts`).

`CanonicalizeProofs` proves, for every set of calls that satisfies
`InputAssumption`, `Typing` (`TypeOK`), `Coupling` (`Coupled`), `GoneVisited`
(`GoneNeedsVisit`), `ReasonAlwaysKept` (`ReasonKept`), `NegativeAlwaysKept`
(`NegativeKept`) and `OnePassSettles` (`Settled`). An answer is `Canonical` of the call and nothing changes it
later, so the invariants are facts about `Canonical`: it is a verdict, and each
verdict is such a pair as written, or what rule 13 (`Couple`) leaves, or what
rule 6 leaves of a reason the model gave. `ReasonKept` follows the reason, and
`NegativeKept` the visit, through the rules a quiet call reaches (`QuietCall`,
`ReasonSurvives`, `VisitSurvives`). For `Settled`, a verdict depends on the remark
and the concat, which a second pass reads again. Of the rules before `Couple`,
`RulesChain` shows what they establish of each other's conditions (`Chained`), and
`ConsistentStable` that they then leave alone what they have made. Where the concat
overrides the CSU, what the rules return depends on the reason alone,
and again so for the reason they return (`PositiveStable`). `CanonicalStable` puts
the cases together.

`LlmDispatchProofs` proves, for any number of records, places and retries,
`Budget` (`RequestBudget`), `Own` (`OwnAnswer`), `Used` (`ParsedIsUsed`), `Shown`
(`FailureShown`) and `Told` (`ToldReturned`). The inductive invariant says of
each coroutine (`CallOK`) that the requests it has sent are one more than its
attempt, and one more again while it re-asks, which only an attempt with
another after it does; and that its result is an answer exactly if a reply was
parsed. Of each record (`RecordOK`) it says that it mirrors its own call's
result once the batch is gathered, of which each row is made. The step at which
this is hard is `Gathered`: lemma `Places` shows by cardinalities that the
places `TaskOf` gives the tasks are distinct, so that zipping hands each record
the result of its own call. `Told` rests on an invariant of its own, since it
counts: each step that returns a call adds one to `completed` and one element to
`Returned`.

`LabBatchProofs` proves, for any workbooks, windows and bounds that satisfy
`LabAssumption`, `AlwaysWithinLimit` (`WithinLimit`) and `ReasonsAlwaysFit`
(`ReasonFitsVisit`). Both are facts about what a row's result is made from: a
body is cut to what the header leaves or to the floor, and the whole is cut once
more if that is still too long (`TrimFits`); `FallbackRfd` leaves a ranked reason
out where nobody was met (`FallbackFits`). Results already made are not changed.
Three more are about whole workbooks. `NumbersAlwaysLeadBack` (`NumbersLeadBack`)
needs that the rows of a run stay those of its workbook until an export takes its
place (`SheetInv`), and that every row parsed is that of one of its lines, which
the filters may shift but not renumber (`ParseFacts`). `ReimportAlwaysFaithful`
(`ReimportFaithful`) is about the step from a report to its export: the parser
finds each column of the export where the writer put it, whatever alias comes
first (`ExportFound`), so a row read back has the number, the remark and the
analyst's values of a row exported; and without a window every line with an
account is kept (`ExportRead`, `KeptLinesFacts`, `ExportParsed`). Every row exported
has a number, by its place if no column gives one (`Numbered`).
`CountsAlwaysReconcile` (`CountsReconcile`) has the invariant `Reconciled`: after
every row, not only at the end, the counters of relations add up to the rows ranked,
those of methods, and with a truth those of comparisons, to the results made. Each
result is counted once because its method is one of three and each comparison ends
in one of two ways (`TrimMethod`, `RowTold`, `TallyAdds`).

`LabServerProofs` proves, for any number of streams and remarks and any profiles,
`CustomsAlwaysStand` (`CustomsStand`), `StreamsAlwaysInOrder` (`StreamInOrder`) and
`CalmBatchAlwaysUniform` (`CalmBatchIsUniform`).
The first needs to know what each thread has in its hands at each of its steps
(`Hands`, `Honest`): as long as nothing is lost, what the loop has loaded matches
`kept`, what it is about to write matches what `kept` will be, at most one thread
is writing, and a thread that restores the shipped profiles does so only while
nothing is kept. A write that begins during another, or that restores over a
file, would break it; both are what `lost` records, and so excepted. The second
theorem follows a message through the callbacks (`pending`), the queue and the
client (`Flow`): the three together are progress and then at most one last
message, and there is as much progress as there are calls that returned or raised
(`Counted`). While a batch runs no last message has been posted; it is posted when
every call is over or none has begun, so it comes after `BatchSize` messages of
progress or none, and "complete" only after all.
The third is about batches side by side (`CalmInv`). As long as no request changes
the profiles, what a load of any of them would return is the profile that was active when
it began, even if the load has to write first: what it writes is what it would have
loaded (`CompletedReady`, `FactoryReady`). All of them therefore choose the same
profile, and each follows its own way through the reload: it takes that profile's
name, finds it, and sets its models and its instructions (`OnItsWay`). What one of them has set
is left as it is by the others, who set the same (that is where a reload that
cleared the summarizer first would break it), so once a batch is through its reload
the summarizer is that profile's until the calm ends, and every call is asked and
labelled with it (`RowsOf`). A request that changes the profiles, and a kill, end the calm.

`EvidenceStoreProofs` proves, for any number of sessions, ids, states and hashes
and for any bounds, `ReferencesAlwaysResolve` (`ReferencesResolve`),
`SnapshotAlwaysUnique` (`OneSnapshotPerRun`), `StateAlwaysBacked` (`StateIsBacked`)
and `EvidenceAlwaysStands` (`EvidenceStands`). A set of rows is `Sound` if references resolve, keys are
unique and a run has one snapshot; lemmas show that what a session may insert,
update and delete keeps a set sound. The invariant says that `db` is sound,
and that what the writer sees is sound and still has all evidence of `db`. The
last part is why `EvidenceStands` holds at a commit: no statement of the scope
removed or changed evidence, since each is stopped by `Guarded` in the row as
the writer sees it, not as the session had read it. `StateIsBacked` holds of the
same two sets because an event and the state it gives are flushed together and
no event is ever removed.

Induction over data. Texts, workbooks and walks are recursive functions, not
`RECURSIVE` operators, and an induction is over the numbers that satisfy the
statement as a set: `Induct` says that a set with 0 and with each successor has
every number, by the least number outside it (`LeastNumber`, from the library's
`NatLessThanWellFounded` and `WFMin`). First it gives a function that satisfies the
recursive definition at every length (`Scannable`, `Walkable`, `Cleanable`), so
that the definition means what it says; then what that function returns
(`ScanFacts`, `KeptLinesFacts`).

Assumptions: `PortalAssumption` (intakes are sequences of rows with distinct
references - what `RefsDistinct` shows of `ProcessRun` - and the names of
absent values are no reasons), `NoneAssumption` (`None` is no record),
`InputAssumption` (the calls are calls, and `None` is no answer),
`RunAssumption` (workbooks are finite, their rows are rows, and `None` is no CH
code and no account number), `DispatchAssumption` (the bounds are numbers, there is a place, and
`None` is none of the names a row's CSU may have), `LabAssumption` (the bounds
are numbers, the preference and the floor within the limit),
`ProfileAssumption` (custom profiles are not system ones, and the factory's text
is no user's), `ServerAssumption` (the loop is no stream, the bounds are
numbers) and `StoreAssumption` (the first state is a state, the bounds are
numbers, `None` is no session, state or hash), `ResponseAssumption` (an answer's fields are
texts or absent), `CandidateAssumption` (remarks are texts, contacts and
statements parts), `LengthAssumption` (the limit and the separator have lengths),
`NullAssumption` (`Null` is no number and no column) and `BookAssumption` (the lines
of a workbook, and those over its header, are so many).

Only model-checked: liveness (`BatchEnds`, `StreamServed`), which needs
fairness, of which the prover cannot reason. Every other property of a passing
run is proved.

## What the violation runs show

* `stale_position`: a form names its row by the position it had when the page
  was rendered. After an earlier decision, by another tab or by a second click,
  the same request decides the row that moved up. Requests that name the row
  by `source_row_ref` never do (`RefDecisionHitsSeenRow`), but the page does
  not send them.
* `tags_ranked`: `rank_rfd_and_csu` reads an attribute of what is a dict
  (`ranker.py` line 559), so a remark with pipe tags makes the whole workbook
  fail.
* `projection_lags`: `record_state_event` sets the run's state on the row it
  read, and the unit of work does not write a value equal to the one read,
  though another session has committed a different one since
  (`repositories.py` lines 211 to 226). The run then shows the state before
  its last event.

## Observations

Met while modelling; no run states them.

Portal and processing. Approving clears a row whatever it was held for, an
overlong remark too. The RFD dropdown lists ten reasons; a row whose reason is
another one is shown with the empty option, and any decision stores that.
Candidates are paired with Volare rows by CH code, Volare exceptions with
candidates by row number, so a candidate whose Volare row has no rank may be
cleared while another row is held for it (`orchestrator.py` line 449); client
and unit sentiment may come from different workbooks for the same reason. When
`_write_uploads` raises after the first file, `source_paths` is still empty and
the copies already written stay (`web.py` lines 339 to 365); `CopiesRemoved`
speaks of the copies the handler knows of.

Row rules. A marker survives where another marker stands inside it: "BCAL L3 CH
123 paid" becomes "BCAL CH 123 paid" (`sanitizer.py` lines 74 and 75;
`design.md` line 331 and `requirements.md` line 132 say markers are removed), and
that a second pass makes "paid", though the docstring says that applying the
function repeatedly is idempotent (lines 58 and 59).
PH and BCAL-CH markers take the next word along. A marker inside a tagged
remark costs the tags (lines 47 to 49 and 77). Statement and contact are never
sanitized. A contact of separators only is recorded as too long
(`remarks.py` lines 343 to 345). An informant may give Representative Refused
(`orchestrator.py` line 372, against `requirements.md` line 157).

LLM engine. If the dispatch as a whole raises, all rows carry the rule engine's
result, unmarked (`pipeline.py` lines 489 to 516). An unverified address counts
as a verified one, since UNVERIFIED contains VERIFIED (`summarizer.py` line
258). In `canonicalize_csu_rfd` the return for a promise to pay stands before
the rule that gives MOVED OUT and DECEASED BORROWER a further visit (lines 465
and 728; `GoneNeedsVisit` excepts it); rule 7b makes a CSU's unit negative only
if its client is positive (lines 648 to 650); a CSU that matches no official
option is passed on as written (line 341). The tests of the concat for "pos",
"negclient moved out" and "negdeceased" look for lower case in upper case text
and never succeed (`profiles.py` line 152 says a NEGDECEASED concat gives
DECEASED BORROWER). When a family member tells of a business trip, NO CLIENT
comes back, which a second pass would make REP REFUSED; `Settled` therefore
leaves family remarks out. A reply with a reason but a blank CSU shows the rule
engine's CSU, unflagged.

Remarks lab. `_is_csu_match` finds any two labels without structure alike, and
shared words make different RFDs agree. An informant label with "talked to
wife, neighbor present" gives REPRESENTATIVE REFUSED. The ranker's docstring
(line 198) and code (247 to 249) differ on a closed house. "staying in" with a
positive address gives Moved Out. "repo unit" gives BORROWER REFUSED without a
contact. "namatayan ng anak" never reaches Death-Family Member, and it, like
"deceased parent", makes a representative of the relative it names
(`classifier.py` line 134). Contact columns
with two spaces make the classifier raise (`classifier.py` line 173). An "ECA"
header not followed by a space is put twice. An export that is not in test mode
makes the lab's own predictions the analyst's on re-import, and rows without an
account are lost. A row without a remark comes back with the statement the model
wrote for it as its remark, since both columns are aliases of one field.

Profiles and streaming. A load that meets the file while another thread writes
it, or after a kill in the middle of a write, takes it for unreadable and
writes the shipped profiles over it, custom ones included (`profiles.py` line
793 says it creates defaults "if missing"). `CustomsStand` does not forbid that:
by the history variable `lost` it excepts what follows a load that wrote the shipped
profiles over a file that exists, or writes that overlap. What it says is that no
interleaving of loads, changes, reloads and restarts loses, revives or alters a custom
profile in any other way. A write that fails half way is not modelled. A profile
change while batches run can leave the models of one profile with the instructions
of another, and the label of an answer is read when it returns (`summarizer.py` line
1106); `CalmBatchIsUniform` therefore speaks of batches that begin when no such
change is under way and meet none: they may overlap each other. "complete" also
ends a stream whose report the rules made; its client has seen no progress, or that
of calls whose answers were dropped. Saving without activating leaves the
summarizer on the saved profile until the next reload. System profiles that can
be deleted come back with the next load; a custom profile saved as default can
never be deleted; a reset activates "default", a load `rcbc_v4`. A disconnect
leaves the worker running.

Persistence. A failed artifact can be completed (`repositories.py` line 357).
The audit ledger names runs and sources without foreign keys; a configuration
hash need not be the run's; an outcome's predecessor may be another run's.

## Plan

1. Done: portal, processing run, row rules, classification and dispatch, the
   lab's batch, profiles and streaming, the evidence store.
2. Done: theorems, for every safety property; liveness stays with TLC.
3. `GateLedger` and `Phase1`: what the gates authorise, against current
   evidence in an append-only ledger.
4. The parts of modelled components that are missing (below).

## Not modelled

* Gates, configuration store and planner: append-only tables with the guards
  `EvidenceStore` models, and pure evaluation of what they hold.
* Gateway: the minimizing of the text that is sent.
* Remarks lab: detection of the header row, unlocking of protected files,
  `build_detailed_rfd` and explanations, the layout of the real-mode export,
  tuning and rendering of prompts, the file of applied rules.
* Profile store: the constructor's own loads and the lazily made summarizer
  (two threads could make two), the list of models, the connection test.
* Persistence: tables no repository writes, reads and their order, the safety
  check of payloads.
* LLM engine: prompts, recovery of JSON, language, truncation.
* Settings, storage root initialisation, logging, entry points, the
  configuration parser, the frontend and the migrations keep no state that
  later steps change. Cell formats, workbook layout, the cipher and its password
  are outside what the properties tell apart.
