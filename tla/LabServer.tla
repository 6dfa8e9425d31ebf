------------------------------- MODULE LabServer -------------------------------
(***************************************************************************)
(* The remark processor's server: one event loop that serves the profile   *)
(* endpoints and the blocking batch endpoints and pumps event streams, and  *)
(* one worker thread per stream.  All of them share the profiles file and   *)
(* one summarizer.  A thread gives way at each file access and at each      *)
(* assignment to the summarizer; the file is written by truncating it.      *)
(***************************************************************************)
EXTENDS ProfileStore, Integers, SequencesExt

CONSTANTS Stream,      \* event streams, each with its worker thread
          Loop,        \* the event loop's thread
          BatchSize,   \* remarks in a batch
          MaxEvents    \* bound on the requests and the kills of the server

ASSUME ServerAssumption ==
  Loop \notin Stream /\ BatchSize \in Nat /\ MaxEvents \in Nat

Thread == Stream \cup {Loop}
Remark == 1..BatchSize

VARIABLES disk,     \* "missing", "torn" (being or badly written) or "whole"
          content,  \* what a whole file says
          clash,    \* threads whose write overlaps another's
          engine,   \* the shared TwoTierRemarksSummarizer
          at,       \* at[t]: the step thread t takes next
          local,    \* local[t]: the request, the data and the text in its hands
          row,      \* row[t][i]: the prompt and the label of remark i of t's batch
          stream,   \* stream[s]: the call_soon queue, the asyncio queue and the client
          events,   \* requests and kills so far
          kept,     \* (history) custom profiles saved and not deleted since
          lost,     \* (history) a load has put the shipped profiles over a file that exists
          calm,     \* (history) threads whose batch met no change of the profiles
          chosen    \* (history) chosen[t]: id and text active when t's batch began

store == <<disk, content, clash>>
history == <<kept, lost, calm, chosen>>
vars == <<disk, content, clash, engine, at, local, row, stream, events,
          kept, lost, calm, chosen>>

NoRow == [stage |-> "waiting", models |-> Factory, prompt |-> Factory, label |-> "default"]
NoStream == [pending |-> <<>>, queue |-> <<>>, sent |-> <<>>, done |-> FALSE, client |-> "none"]
Reading == [kind |-> "read"]
Fresh == [req |-> Reading, data |-> FactoryData("rcbc_v4"), back |-> "idle",
          id |-> "default", text |-> Factory]
NoChoice == [t \in Thread |-> [id |-> "default", text |-> Factory]]
Blank == [id |-> "default", models |-> Factory, prompt |-> Factory]

\* A file an earlier release left, which had other profiles.
OldData == [active |-> "gone", profiles |-> Without(SystemProfiles, "rcbc_v2")]

Init ==
  /\ disk \in {"missing", "whole"} /\ content = OldData /\ clash = {}
  /\ engine = Blank
  /\ at = [t \in Thread |-> "idle"]
  /\ local = [t \in Thread |-> Fresh]
  /\ row = [t \in Thread |-> [i \in Remark |-> NoRow]]
  /\ stream = [s \in Stream |-> NoStream]
  /\ events = 0
  /\ kept = <<>> /\ lost = FALSE /\ calm = {}
  /\ chosen = NoChoice
-------------------------------------------------------------------------------
(* The file *)

\* What a thread no longer needs is forgotten, and everything when it is done.
Forget(t) == [local EXCEPT ![t] = [Fresh EXCEPT !.req = local[t].req]]
ForgetAll(t) == [local EXCEPT ![t] = Fresh]

\* load_profiles_data: a missing or unreadable file is rewritten with the
\* shipped profiles on the way to step `to`.
Load(t, here, to) ==
  /\ at[t] = here
  /\ \/ /\ disk = "whole"
        /\ local' = IF to = "idle" THEN ForgetAll(t)
                    ELSE [local EXCEPT ![t].data = Completed(content)]
        /\ at' = [at EXCEPT ![t] = to]
     \/ /\ disk # "whole"
        /\ local' = [local EXCEPT ![t].data = FactoryData("rcbc_v4"), ![t].back = to]
        /\ at' = [at EXCEPT ![t] = "open"]
  /\ UNCHANGED <<store, engine, row, stream, events, history>>

Writers == {t \in Thread : at[t] = "close"}

\* _write_profiles_file: open(..., "w") leaves an empty file, ...
Open(t) ==
  /\ at[t] = "open"
  /\ disk' = "torn"
  /\ clash' = IF Writers = {} THEN clash ELSE clash \cup Writers \cup {t}
  /\ at' = [at EXCEPT ![t] = "close"]
  /\ lost' = (\/ lost
              \/ disk # "missing" /\ local[t].back # "written"
              \/ Writers # {})
  /\ UNCHANGED <<content, engine, local, row, stream, events, kept, calm, chosen>>

\* What the endpoint's write means for the custom profiles.
KeptAfter(req) ==
  CASE req.kind = "save" /\ req.id \in Custom -> Over([id \in {req.id} |-> req.text], kept)
    [] req.kind = "delete" -> [id \in DOMAIN kept \ {req.id} |-> kept[id]]
    [] req.kind = "reset" -> <<>>
    [] OTHER -> kept

\* ... and the end of the with block a whole one, unless two writes mix.
Close(t) ==
  /\ at[t] = "close"
  /\ \/ disk' = "whole" /\ content' = local[t].data
     \/ t \in clash /\ disk' = "torn" /\ UNCHANGED content
  /\ clash' = clash \ {t}
  /\ at' = [at EXCEPT ![t] = local[t].back]
  /\ IF local[t].back = "written"
     THEN kept' = KeptAfter(local[t].req) /\ local' = Forget(t)
     ELSE /\ local' = IF local[t].back = "idle" THEN ForgetAll(t) ELSE local
          /\ UNCHANGED kept
  /\ UNCHANGED <<engine, row, stream, events, lost, calm, chosen>>
-------------------------------------------------------------------------------
(* The profile endpoints: one request at a time, without an await once the *)
(* body is there.                                                          *)

Receive(req) ==
  /\ at[Loop] = "idle" /\ events < MaxEvents
  /\ events' = events + 1
  /\ local' = [local EXCEPT ![Loop] = [Fresh EXCEPT !.req = req]]
  /\ at' = [at EXCEPT ![Loop] = IF req.kind = "reset" THEN "decide"
                                ELSE IF req.kind = "read" THEN "respond" ELSE "load"]
  /\ IF req.kind = "read" THEN UNCHANGED <<calm, chosen>> ELSE calm' = {} /\ chosen' = NoChoice
  /\ UNCHANGED <<store, engine, row, stream, kept, lost>>

LoadForChange == Load(Loop, "load", "decide")

\* save_profile, activate_profile, delete_profile, reset_profiles_to_default.
Decide ==
  /\ at[Loop] = "decide"
  /\ LET job == local[Loop]
     IN IF Accepted(job.data, job.req)
        THEN /\ local' = [local EXCEPT ![Loop].data = Changed(job.data, job.req),
                                       ![Loop].back = "written"]
             /\ at' = [at EXCEPT ![Loop] = "open"]
        ELSE at' = [at EXCEPT ![Loop] = "idle"] /\ local' = ForgetAll(Loop)
  /\ UNCHANGED <<store, engine, row, stream, events, history>>

\* The answer lists the profiles, and loads them for that.
Respond == Load(Loop, "respond", "idle")
-------------------------------------------------------------------------------
(* reload_active_profile *)

ReadActive(t) == Load(t, "active", "named")

\* Mutant of Taken: the summarizer is cleared for the profile to come.
TakenAnew(id) == [Blank EXCEPT !.id = id]

Taken(id) == [engine EXCEPT !.id = id]

\* The summarizer takes the name, and looks the profile up under it.
TakeName(t, id) ==
  /\ engine' = Taken(id)
  /\ local' = [local EXCEPT ![t] = [Fresh EXCEPT !.req = local[t].req, !.id = id]]
  /\ at' = [at EXCEPT ![t] = "get"]
  /\ UNCHANGED <<store, row, stream, events, history>>

Named(t) == at[t] = "named" /\ TakeName(t, get_active_profile(local[t].data).id)

\* After a save or an activation the summarizer takes that profile, after a
\* delete or a reset the active one.
Written ==
  /\ at[Loop] = "written"
  /\ \/ /\ local[Loop].req.kind \in {"save", "activate"}
        /\ TakeName(Loop, local[Loop].req.id)
     \/ /\ local[Loop].req.kind \in {"delete", "reset"}
        /\ at' = [at EXCEPT ![Loop] = "active"]
        /\ UNCHANGED <<store, engine, local, row, stream, events, history>>

ReadProfile(t) == Load(t, "get", "found")

\* A name that is gone falls back to the profile that is active by then.
ReadFallback(t) == ~Known(local[t].data, local[t].id) /\ Load(t, "found", "fellback")

\* Two assignments, models before instructions.
SetModels(t) ==
  /\ \/ at[t] = "found" /\ Known(local[t].data, local[t].id)
     \/ at[t] = "fellback"
  /\ LET data == local[t].data
         text == IF at[t] = "found" THEN data.profiles[local[t].id].text
                 ELSE get_active_profile(data).text
     IN local' = [local EXCEPT ![t].text = text] /\ engine' = [engine EXCEPT !.models = text]
  /\ at' = [at EXCEPT ![t] = "prompt"]
  /\ UNCHANGED <<store, row, stream, events, history>>

InBatch(t) == t \in Stream \/ local[t].req.kind = "batch"

SetPrompt(t) ==
  /\ at[t] = "prompt"
  /\ engine' = [engine EXCEPT !.prompt = local[t].text]
  /\ at' = [at EXCEPT ![t] = IF InBatch(t) THEN "batch"
                             ELSE IF local[t].req.kind = "reset" THEN "idle" ELSE "respond"]
  /\ local' = IF InBatch(t) THEN Forget(t) ELSE ForgetAll(t)
  /\ UNCHANGED <<store, row, stream, events, history>>
-------------------------------------------------------------------------------
(* Batches *)

ActiveNow ==
  get_active_profile(IF disk = "whole" THEN Completed(content) ELSE FactoryData("rcbc_v4"))

\* Every batch begins with a reload of the active profile.
FirstStep == "active"

\* Threads that write neither the file nor the summarizer any more, or nothing
\* but what is there.
Settled(t) == at[t] \in {"idle", "finished", "batch"} \/ t \in calm

Begin(t) ==
  /\ at' = [at EXCEPT ![t] = FirstStep]
  /\ IF \A u \in Thread \ {t} : Settled(u)
     THEN calm' = calm \cup {t} /\ chosen' = [chosen EXCEPT ![t] = ActiveNow]
     ELSE UNCHANGED <<calm, chosen>>

\* POST /api/remarks/process and /test: the loop itself runs the batch.
BlockingBatch ==
  /\ at[Loop] = "idle" /\ events < MaxEvents
  /\ events' = events + 1
  /\ local' = [local EXCEPT ![Loop] = [Fresh EXCEPT !.req = [kind |-> "batch"]]]
  /\ Begin(Loop)
  /\ UNCHANGED <<store, engine, row, stream, kept, lost>>

\* POST /api/remarks/process-stream and /test-stream: a worker thread does.
OpenStream(s) ==
  /\ at[Loop] = "idle" /\ at[s] = "idle" /\ stream[s].client = "none"
  /\ stream' = [stream EXCEPT ![s].client = "open"]
  /\ Begin(s)
  /\ UNCHANGED <<store, engine, local, row, events, kept, lost>>

\* What a worker hands to the loop with call_soon_threadsafe.  A blocking batch
\* has no one to tell, and what is posted for a client that left is not read.
Post(t, messages) ==
  IF t \notin {s \in Stream : stream[s].client = "open"} THEN stream
  ELSE [stream EXCEPT ![t].pending = @ \o messages]

\* A call builds its prompt when it begins to run, ...
Ask(t, i) ==
  /\ at[t] = "batch" /\ row[t][i].stage = "waiting"
  /\ \A j \in 1..(i - 1) : row[t][j].stage # "waiting"
  /\ row' = [row EXCEPT ![t][i] = [NoRow EXCEPT !.stage = "asked",
                                     !.models = engine.models, !.prompt = engine.prompt]]
  /\ UNCHANGED <<store, engine, at, local, stream, events, history>>

\* Mutant of Tell: only the call that returns is told of.
TellReturned(t, how) == IF how = "told" THEN Post(t, <<"progress">>) ELSE stream

\* A call that is over is told of, however it ended (the finally of _bounded_call).
Tell(t, how) == Post(t, <<"progress">>)

\* ... names the profile when it returns, ...
Return(t, i) ==
  /\ at[t] = "batch" /\ row[t][i].stage = "asked"
  /\ row' = [row EXCEPT ![t][i].stage = "told", ![t][i].label = engine.id]
  /\ stream' = Tell(t, "told")
  /\ UNCHANGED <<store, engine, at, local, events, history>>

\* ... or raises, ...
Raise(t, i) ==
  /\ at[t] = "batch" /\ row[t][i].stage = "asked"
  /\ row' = [row EXCEPT ![t][i].stage = "raised"]
  /\ stream' = Tell(t, "raised")
  /\ UNCHANGED <<store, engine, at, local, events, history>>

AllBack(t) == \A i \in Remark : row[t][i].stage \in {"told", "raised"}

\* ... and the profile is named for it when all are back.
NameRaised(t, i) ==
  /\ at[t] = "batch" /\ AllBack(t) /\ row[t][i].stage = "raised"
  /\ row' = [row EXCEPT ![t][i].stage = "told", ![t][i].label = engine.id]
  /\ UNCHANGED <<store, engine, at, local, stream, events, history>>

\* The last message precedes the end of the future, which asyncio learns of by
\* the same queue of callbacks.
Outcome(event) == <<event, "done">>

End(t, event) ==
  /\ at' = [at EXCEPT ![t] = IF t = Loop THEN "idle" ELSE "finished"]
  /\ stream' = Post(t, Outcome(event))
  /\ row' = [row EXCEPT ![t] = [i \in Remark |-> NoRow]]
  /\ local' = ForgetAll(t)
  /\ calm' = calm \ {t} /\ chosen' = [chosen EXCEPT ![t] = NoChoice[t]]
  /\ UNCHANGED <<store, engine, events, kept, lost>>

\* Every call is back and named, and the rows are put together from the answers.
Complete(t) ==
  /\ at[t] = "batch" /\ AllBack(t)
  /\ \A i \in Remark : row[t][i].stage # "raised"
  /\ End(t, "complete")

NoneAsked(t) == \A i \in Remark : row[t][i].stage = "waiting"

\* The models were not wanted or there is no key, or their dispatch raised before
\* the first call or after the last, which is swallowed: the rules decide every
\* row, and the client is told "complete" as well.
CompleteByRules(t) ==
  /\ at[t] = "batch" /\ (NoneAsked(t) \/ AllBack(t))
  /\ End(t, "ruled")

\* There is no summarizer, the workbook cannot be read, the rules raise over a
\* row, or the rows cannot be put together or serialized.
Fail(t) ==
  /\ InBatch(t) /\ at[t] \in {"active", "batch"} /\ (NoneAsked(t) \/ AllBack(t))
  /\ End(t, "error")
-------------------------------------------------------------------------------
(* The generator of an event stream, which the loop runs when it has no     *)
(* request in hand.                                                        *)

LoopFree == at[Loop] = "idle"
Terminal == {"complete", "ruled", "error"}

RunCallback(s) ==
  /\ LoopFree /\ stream[s].client = "open" /\ stream[s].pending # <<>>
  /\ stream' = [stream EXCEPT
       ![s].pending = Tail(@),
       ![s].queue = IF Head(stream[s].pending) = "done" THEN @
                    ELSE Append(@, Head(stream[s].pending)),
       ![s].done = @ \/ Head(stream[s].pending) = "done"]
  /\ UNCHANGED <<store, engine, at, local, row, events, history>>

\* Mutant of GoesOn: the queue is not asked once the future is done.
GoesOnUntilDone(st) == ~st.done

\* The loop condition of sse_generator.  The loop does not end by it, because the
\* last message is in the queue before the future is done.
GoesOn(st) == ~st.done \/ st.queue # <<>>

\* One message; after the last one the generator ends.  A quarter of a second
\* without one gives a ping, which changes nothing.
Send(s) ==
  /\ LoopFree /\ stream[s].client = "open"
  /\ GoesOn(stream[s]) /\ stream[s].queue # <<>>
  /\ LET msg == Head(stream[s].queue)
     IN stream' = [stream EXCEPT ![s].queue = Tail(@), ![s].sent = Append(@, msg),
                     ![s].client = IF msg \in Terminal THEN "closed" ELSE @]
  /\ UNCHANGED <<store, engine, at, local, row, events, history>>

\* The browser goes away: the generator stops, the worker does not.
Disconnect(s) ==
  /\ stream[s].client = "open"
  /\ stream' = [stream EXCEPT ![s] = [NoStream EXCEPT !.client = "gone"]]
  /\ UNCHANGED <<store, engine, at, local, row, events, history>>
-------------------------------------------------------------------------------
\* The server is killed and started again: the file stays as it is, and streams
\* may be opened anew.
Crash ==
  /\ events < MaxEvents
  /\ events' = events + 1
  /\ at' = [t \in Thread |-> "idle"]
  /\ local' = [t \in Thread |-> Fresh]
  /\ engine' = Blank /\ clash' = {} /\ calm' = {} /\ chosen' = NoChoice
  /\ row' = [t \in Thread |-> [i \in Remark |-> NoRow]]
  /\ stream' = [s \in Stream |-> NoStream]
  /\ UNCHANGED <<disk, content, kept, lost>>

Reload(t) ==
  \/ ReadActive(t) \/ Named(t) \/ ReadProfile(t) \/ ReadFallback(t)
  \/ SetModels(t) \/ SetPrompt(t)

Work(t) ==
  \/ Open(t) \/ Close(t) \/ Reload(t)
  \/ \E i \in Remark : Ask(t, i) \/ Return(t, i) \/ Raise(t, i) \/ NameRaised(t, i)
  \/ Complete(t) \/ CompleteByRules(t) \/ Fail(t)

Endpoint == LoadForChange \/ Decide \/ Written \/ Respond

Pump(s) == RunCallback(s) \/ Send(s)

Next ==
  \/ \E req \in Request : Receive(req)
  \/ BlockingBatch \/ Endpoint \/ Crash
  \/ \E t \in Thread : Work(t)
  \/ \E s \in Stream : OpenStream(s) \/ Pump(s) \/ Disconnect(s)

\* Threads are scheduled, a provider call ends by its timeout, and the loop
\* comes round to every callback and generator.
Fairness ==
  /\ WF_vars(Endpoint \/ Work(Loop))
  /\ \A s \in Stream : WF_vars(Work(s)) /\ WF_vars(Pump(s))

Spec == Init /\ [][Next]_vars /\ Fairness
-------------------------------------------------------------------------------
(* Properties *)

\* The file holds exactly the custom profiles users saved and did not delete, as
\* they saved them last: no request, worker or restart undoes another's change
\* (save_profile and delete_profile load, change and write the whole file).
\* Excepted is what follows a load that found no whole file and wrote the shipped
\* profiles over one that exists, or is being written, by then.
CustomsStand ==
  disk = "whole" /\ ~lost /\ Writers = {} =>
    /\ DOMAIN content.profiles \cap Custom = DOMAIN kept
    /\ \A id \in DOMAIN kept : content.profiles[id].text = kept[id]

\* Batches that run side by side, with reads and rewrites of the file between
\* their steps, but with no change of the profiles since they began: every remark
\* was asked with the profile that was active when its batch began, and says so,
\* whatever profile requests left in the summarizer before (reload_active_profile
\* at the batch's start, over the summarizer the others are using).
CalmBatchIsUniform ==
  \A t \in calm, i \in Remark : row[t][i].stage = "told" =>
    row[t][i] = [stage |-> "told", models |-> chosen[t].text,
                 prompt |-> chosen[t].text, label |-> chosen[t].id]

\* A client sees progress, then at most one last message.  The models were asked
\* about all remarks or about none: the last message comes after the progress of
\* every one or of none, and of every one if the report is the models'
\* (_bounded_call, run_sync_pipeline, sse_generator).
StreamInOrder ==
  \A s \in Stream :
    LET sent == stream[s].sent
    IN /\ \A n \in 1..(Len(sent) - 1) : sent[n] = "progress"
       /\ sent # <<>> /\ Last(sent) \in Terminal => Len(sent) \in {1, BatchSize + 1}
       /\ sent # <<>> /\ Last(sent) = "complete" => Len(sent) = BatchSize + 1

\* A client that stays gets its last message unless the server dies, however busy
\* the loop is and whenever the worker ends (the loop condition of sse_generator).
StreamServed ==
  \A s \in Stream :
    stream[s].client = "open" ~>
      \/ stream[s].client \in {"none", "gone"}
      \/ stream[s].sent # <<>> /\ Last(stream[s].sent) \in Terminal
===============================================================================
