----------------------------- MODULE LlmDispatch ------------------------------
(* A batch of field remarks classified by language models:                    *)
(* parallel_process_records sends each remark that needs a model through       *)
(* call_llm, at most max_concurrency at a time, and merges what the calls      *)
(* return into the records; process_rows makes one row of each record.  What   *)
(* an answer says is Canonicalize's subject: here it only is coupled or not,   *)
(* certain or not, and names a CSU or not.  No remark is blank.                *)
EXTENDS Naturals, FiniteSets

CONSTANTS
  RecordCount,      \* how many records the batch has
  max_concurrency,
  retries,
  None

ASSUME DispatchAssumption ==
  /\ RecordCount \in Nat /\ max_concurrency \in Nat \ {0} /\ retries \in Nat
  /\ None \notin {"model", "rules", "FALLBACK"}

VARIABLES
  force_all,   \* process_rows is the caller, and sends every remark
  needs_llm,   \* the records of which the remark goes to a model
  stage,       \* how far the batch has come
  call,        \* for each record, the coroutine that calls the model for it
  completed,   \* how many of the calls have returned
  told,        \* the number in the last progress event, or None
  records,     \* for each record, what was merged into it
  rows         \* for each record its row, or None
vars == <<force_all, needs_llm, stage, call, completed, told, records, rows>>

Record == 1 .. RecordCount

\* A parsed reply.  csu: canonicalize_csu_rfd leaves a CSU, as it does of every
\* reply that breaks the coupling of blank reasons with further visits.
Reply == {r \in [coupled: BOOLEAN, sure: BOOLEAN, csu: BOOLEAN] : r.csu \/ r.coupled}

\* What a call returns, with the record it was made for.
Result == [of: Record, kind: {"answer", "fallback", "exception"}, sure: BOOLEAN, csu: BOOLEAN]

\* attempt and held are variables of call_llm; asked and parsed are history: the
\* requests sent, and whether any reply could be parsed.
Queued == [at |-> "queued", attempt |-> 0, held |-> None, result |-> None,
           asked |-> 0, parsed |-> FALSE]

\* csu of a record is where it comes from; one that a call left without has None.
Untouched == [ai_dispatched |-> FALSE, of |-> None, csu |-> None,
              is_fallback |-> FALSE, needs_review |-> FALSE]

Init ==
  /\ force_all \in BOOLEAN
  /\ needs_llm \in IF force_all THEN {Record} ELSE SUBSET Record
  /\ stage = "routing"
  /\ call = [i \in Record |-> Queued]
  /\ completed = 0
  /\ told = None
  /\ records = [i \in Record |-> Untouched]
  /\ rows = [i \in Record |-> None]

\* Passthrough records are complete at once; a coroutine is made of each other.
Route ==
  /\ stage = "routing"
  /\ stage' = IF needs_llm = {} THEN "gathered" ELSE "inference"
  /\ records' = [i \in Record |-> [Untouched EXCEPT !.ai_dispatched = i \in needs_llm]]
  /\ told' = IF needs_llm = {} THEN None ELSE 0
  /\ UNCHANGED <<force_all, needs_llm, call, completed, rows>>

\* The HTTP client cannot be made, say for the proxy the environment names:
\* process_rows swallows what that raises, and has no records from the model.
DispatchFails ==
  /\ stage = "routing" /\ force_all
  /\ stage' = "gathered"
  /\ UNCHANGED <<force_all, needs_llm, call, completed, told, records, rows>>

-------------------------------------------------------------------------------
(* One coroutine; between two of its awaits the others run.                   *)

\* Mutant of Holders: a place in the semaphore is not given back.
HoldersLeak == {i \in needs_llm : call[i].at # "queued"}

Holders == {i \in needs_llm : call[i].at \in {"asking", "asking again"}}

\* The coroutine of a call that returns.
Ended(i, kind, reply) ==
  [call[i] EXCEPT !.at = "returned", !.held = None,
                  !.result = [of |-> i, kind |-> kind,
                              sure |-> kind = "answer" /\ reply.sure,
                              csu |-> kind = "answer" => reply.csu],
                  !.parsed = @ \/ kind = "answer"]

\* What the release of the semaphore and the finally clause do.
Return(i, kind, reply) ==
  /\ call' = [call EXCEPT ![i] = Ended(i, kind, reply)]
  /\ completed' = completed + 1
  /\ told' = completed'
  /\ UNCHANGED <<force_all, needs_llm, stage, records, rows>>

Step(i, c) ==
  /\ call' = [call EXCEPT ![i] = c]
  /\ UNCHANGED <<force_all, needs_llm, stage, completed, told, records, rows>>

\* The semaphore serves the coroutines in the order gather started them.
Served(i) ==
  /\ stage = "inference" /\ i \in needs_llm /\ call[i].at = "queued"
  /\ \A j \in needs_llm : j < i => call[j].at # "queued"
  /\ Cardinality(Holders) < max_concurrency

Start(i) ==
  /\ Served(i)
  /\ Step(i, [call[i] EXCEPT !.at = "asking", !.asked = 1])

\* _build_prompt stands before the loop that catches what the requests raise.
PromptBreaks(i) ==
  /\ Served(i)
  /\ Return(i, "exception", None)

\* Mutant of MayReAsk: the last attempt re-asks as well.
MayReAskLast(c, reply) == ~reply.coupled /\ c.attempt <= retries

MayReAsk(c, reply) == ~reply.coupled /\ c.attempt < retries

Accept(i) ==
  /\ i \in needs_llm /\ call[i].at = "asking"
  /\ \E reply \in Reply : ~MayReAsk(call[i], reply) /\ Return(i, "answer", reply)

ReAsk(i) ==
  /\ i \in needs_llm /\ call[i].at = "asking"
  /\ \E reply \in Reply :
       /\ MayReAsk(call[i], reply)
       /\ Step(i, [call[i] EXCEPT !.at = "asking again", !.held = reply,
                                  !.asked = @ + 1, !.parsed = TRUE])

\* The second reply is not itself checked for coupling.
ReAskAnswered(i) ==
  /\ i \in needs_llm /\ call[i].at = "asking again"
  /\ \E reply \in Reply : Return(i, "answer", reply)

\* Mutant of ReAskFails: a re-asking that fails gives up its reply and goes
\* on to the next attempt.
ReAskRetries(i) ==
  /\ i \in needs_llm /\ call[i].at = "asking again"
  /\ Step(i, [call[i] EXCEPT !.at = "asking", !.held = None, !.attempt = @ + 1,
                             !.asked = @ + 1])

\* It is lost, refused or cannot be parsed: the first stands.
ReAskFails(i) ==
  /\ i \in needs_llm /\ call[i].at = "asking again"
  /\ Return(i, "answer", call[i].held)

\* The request times out, is refused, meets a busy server, or cannot be parsed.
AttemptFails(i) ==
  /\ i \in needs_llm /\ call[i].at = "asking"
  /\ IF call[i].attempt < retries
     THEN Step(i, [call[i] EXCEPT !.attempt = @ + 1, !.asked = @ + 1])
     ELSE Return(i, "fallback", None)

-------------------------------------------------------------------------------
(* After the calls.                                                            *)

\* The place of record i's task among the tasks: task_indices, inverted.
TaskOf(i) == Cardinality({j \in needs_llm : j <= i})

\* gather returns the results in the order of the tasks.
Results == [k \in 1 .. Cardinality(needs_llm) |->
              call[CHOOSE i \in needs_llm : TaskOf(i) = k].result]

\* Mutant of Merge: the merge marks what call_llm gave up, and not what it raised.
MergeQuiet(rec, res) ==
  [rec EXCEPT
     !.of = res.of,
     !.csu = IF res.kind # "answer" THEN "FALLBACK" ELSE IF res.csu THEN "model" ELSE @,
     !.is_fallback = res.kind = "fallback",
     !.needs_review = res.kind # "answer" \/ ~res.sure]

Merge(rec, res) ==
  [rec EXCEPT
     !.of = res.of,
     !.csu = IF res.kind # "answer" THEN "FALLBACK" ELSE IF res.csu THEN "model" ELSE @,
     !.is_fallback = res.kind # "answer",
     !.needs_review = res.kind # "answer" \/ ~res.sure]

\* Mutant of Zipped: the results are zipped with the records
\* instead of with task_indices.
ZippedWithRecords ==
  [i \in Record |->
     IF i \in DOMAIN Results THEN Merge(records[i], Results[i]) ELSE records[i]]

Zipped ==
  [i \in Record |->
     IF i \in needs_llm THEN Merge(records[i], Results[TaskOf(i)]) ELSE records[i]]

Gathered ==
  /\ stage = "inference"
  /\ \A i \in needs_llm : call[i].at = "returned"
  /\ stage' = "gathered"
  /\ records' = Zipped
  /\ UNCHANGED <<force_all, needs_llm, call, completed, told, rows>>

\* The rule engine's CSU stands in for one the record lacks, and is the only
\* one of a record no model was asked about.
RowFrom(rec) ==
  [csu |-> IF rec.csu = None THEN "rules" ELSE rec.csu,
   is_fallback |-> rec.is_fallback,
   needs_review |-> rec.needs_review]

Assemble ==
  /\ stage = "gathered" /\ force_all
  /\ stage' = "assembled"
  /\ rows' = [i \in Record |-> RowFrom(records[i])]
  /\ UNCHANGED <<force_all, needs_llm, call, completed, told, records>>

Calls(i) ==
  \/ Start(i) \/ PromptBreaks(i)
  \/ Accept(i) \/ ReAsk(i) \/ ReAskAnswered(i) \/ ReAskFails(i)
  \/ AttemptFails(i)

Next ==
  \/ Route
  \/ DispatchFails
  \/ \E i \in Record : Calls(i)
  \/ Gathered
  \/ Assemble

\* The event loop runs every coroutine that can go on, and no request outlives
\* its timeout.
Spec == Init /\ [][Next]_vars /\ WF_vars(Next)

-------------------------------------------------------------------------------
(* Properties.                                                                 *)

\* A remark never costs more requests than one and the retries: the re-asking
\* of call_llm, which is not an attempt of its loop, stays within them.
RequestBudget == \A i \in Record : call[i].asked <= retries + 1

Returned == {i \in Record : call[i].at = "returned"}

\* The last progress event counts the calls that have returned, however each
\* ended, and so names the total only when none is still out.
ToldReturned == told # None => told = Cardinality(Returned)

\* What is merged into a record is what its own call returned, whichever other
\* records needed no model and in whatever order the calls ended.
OwnAnswer == \A i \in Record : records[i].of \in {i, None}

\* Once a reply could be parsed the remark gets an answer: neither a failed
\* re-asking nor a later attempt turns it into a fallback.
ParsedIsUsed ==
  \A i \in Record :
    call[i].at = "returned" /\ call[i].parsed => call[i].result.kind = "answer"

\* The row of a remark that was sent is marked FALLBACK, which keeps it out of
\* the agreement statistics, exactly if no reply to it could be parsed, and is
\* flagged for review exactly then or if the model was unsure.
FailureShown ==
  \A i \in Record :
    rows[i] # None /\ records[i].ai_dispatched =>
      /\ rows[i].is_fallback = ~call[i].parsed
      /\ (rows[i].csu = "FALLBACK") = ~call[i].parsed
      /\ rows[i].needs_review = (~call[i].parsed \/ ~call[i].result.sure)

\* Whatever the requests do the batch ends: every call returns and gives its
\* place in the semaphore to the next.
BatchEnds == <>(stage = IF force_all THEN "assembled" ELSE "gathered")
===============================================================================
