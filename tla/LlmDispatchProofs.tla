-------------------------- MODULE LlmDispatchProofs ---------------------------
(* What LlmDispatch promises of each remark, for batches of any size, any      *)
(* number of places and of retries.  The argument looks at one coroutine at a   *)
(* time: CallOK ties its count of requests to the attempt it is in, and its     *)
(* result to whether a reply was parsed; RecordOK ties the record to the result. *)
EXTENDS LlmDispatch, FiniteSetTheorems, TLAPS

Outcome == {"answer", "fallback", "exception"}

CallType == [at: {"queued", "asking", "asking again", "returned"}, attempt: 0 .. retries,
             held: Reply \cup {None}, result: Result \cup {None}, asked: Nat, parsed: BOOLEAN]

\* A coroutine i in state c.  The two clauses on asked are why a re-asking is
\* allowed only before the last attempt.
CallOK(i, c) ==
  /\ c \in CallType
  /\ c.at = "queued" => c.asked = 0 /\ c.attempt = 0 /\ ~c.parsed
  /\ c.at = "asking" => c.asked = c.attempt + 1 /\ ~c.parsed
  /\ c.at = "asking again" => /\ c.asked = c.attempt + 2 /\ c.attempt < retries
                              /\ c.held \in Reply
  /\ c.at = "returned" => /\ c.asked <= retries + 1
                          /\ c.result \in Result /\ c.result.of = i
                          /\ (c.parsed <=> c.result.kind = "answer")

\* What the merge makes of the record of a call that was sent.
Mirrors(rec, c) ==
  /\ c.at = "returned"
  /\ rec.of = c.result.of
  /\ rec.csu \in {"model", "FALLBACK", None}
  /\ (rec.csu = "FALLBACK") = (c.result.kind # "answer")
  /\ rec.is_fallback = (c.result.kind # "answer")
  /\ rec.needs_review = (c.result.kind # "answer" \/ ~c.result.sure)

Sent(i) == [Untouched EXCEPT !.ai_dispatched = i \in needs_llm]

RecordOK(i) ==
  /\ stage = "routing" => records[i] = Untouched
  /\ stage = "inference" => records[i] = Sent(i)
  /\ stage \in {"gathered", "assembled"} =>
       \/ ~records[i].ai_dispatched /\ records[i].of = None
       \/ Mirrors(records[i], call[i])
  /\ rows[i] # None => stage = "assembled" /\ rows[i] = RowFrom(records[i])

\* Only what was sent runs, and only while the batch waits for it.
InTime(i) ==
  /\ call[i].at # "queued" => i \in needs_llm
  /\ call[i].at \in {"asking", "asking again"} => stage = "inference"

IInv ==
  /\ stage \in {"routing", "inference", "gathered", "assembled"}
  /\ needs_llm \subseteq Record
  /\ call = [i \in Record |-> call[i]]
  /\ \A i \in Record : CallOK(i, call[i]) /\ RecordOK(i) /\ InTime(i)

LEMMA Retries == retries \in Nat
  BY DispatchAssumption

LEMMA Initially == Init => IInv
<1> SUFFICES ASSUME Init PROVE IInv
  OBVIOUS
<1>1. needs_llm \subseteq Record /\ stage = "routing"
  BY DEF Init
<1>2. call = [i \in Record |-> call[i]]
  BY DEF Init
<1>3. ASSUME NEW i \in Record PROVE CallOK(i, call[i])
  <2>1. call[i] = Queued
    BY <1>3 DEF Init
  <2>2. CallOK(i, Queued)
    BY Retries DEF Queued, CallOK, CallType
  <2> QED
    BY <2>1, <2>2
<1>4. ASSUME NEW i \in Record PROVE RecordOK(i)
  BY <1>4, <1>1 DEF Init, RecordOK
<1>5. ASSUME NEW i \in Record PROVE InTime(i)
  BY <1>5 DEF Init, Queued, InTime
<1> QED
  BY <1>1, <1>2, <1>3, <1>4, <1>5 DEF IInv

\* A step of one coroutine leaves the others and every record alone.
LEMMA OneCall ==
  ASSUME IInv, NEW i \in needs_llm, NEW c, CallOK(i, c), stage = "inference",
         call' = [call EXCEPT ![i] = c],
         UNCHANGED <<needs_llm, stage, records, rows>>
  PROVE  IInv'
<1>1. ASSUME NEW j \in Record PROVE CallOK(j, call'[j])
  <2>1. CASE j = i
    BY <2>1 DEF IInv
  <2>2. CASE j # i
    BY <2>2 DEF IInv
  <2> QED
    BY <2>1, <2>2
<1>2. ASSUME NEW j \in Record PROVE RecordOK(j)'
  BY <1>2 DEF IInv, RecordOK, Sent
<1>3. \A j \in Record : CallOK(j, call[j])'
  BY <1>1 DEF CallOK
<1>4. call' = [j \in Record |-> call'[j]]
  BY DEF IInv
<1>5. ASSUME NEW j \in Record PROVE InTime(j)'
  BY <1>5 DEF IInv, InTime
<1> QED
  BY <1>2, <1>3, <1>4, <1>5 DEF IInv

\* So does one that returns, if it has kept to its requests and a reply it has
\* parsed is not given up.
LEMMA ReturnKeeps ==
  ASSUME IInv, NEW i \in needs_llm, NEW kind \in Outcome, NEW reply,
         kind = "answer" => reply \in Reply,
         call[i].asked <= retries + 1,
         kind # "answer" => ~call[i].parsed,
         stage = "inference", Return(i, kind, reply)
  PROVE  IInv'
<1>1. i \in Record /\ CallOK(i, call[i])
  BY DEF IInv
<1>2. call' = [call EXCEPT ![i] = Ended(i, kind, reply)]
  BY <1>1 DEF IInv, Return
<1> DEFINE res == [of |-> i, kind |-> kind, sure |-> kind = "answer" /\ reply.sure,
                   csu |-> kind = "answer" => reply.csu]
<1>3. res \in Result /\ res.of = i /\ res.kind = kind
  <2>1. kind = "answer" => reply.sure \in BOOLEAN /\ reply.csu \in BOOLEAN
    BY DEF Reply
  <2> QED
    BY <1>1, <2>1 DEF Result, Outcome
<1> HIDE DEF res
<1>4. call[i].parsed \/ kind = "answer" <=> kind = "answer"
  BY <1>1 DEF CallOK
<1>5. CallOK(i, Ended(i, kind, reply))
  <2>1. Ended(i, kind, reply) =
          [call[i] EXCEPT !.at = "returned", !.held = None, !.result = res,
                          !.parsed = (kind = "answer")]
    BY <1>4 DEF Ended, res
  <2> QED
    BY <1>1, <1>3, <2>1 DEF CallOK, CallType
<1> QED
  BY <1>2, <1>5, OneCall DEF Return

\* The counters of a coroutine that runs: it has requests left.
LEMMA Counters ==
  ASSUME NEW i, NEW c, CallOK(i, c)
  PROVE  /\ c.attempt \in Nat /\ c.attempt <= retries /\ c.asked \in Nat
         /\ c.at \in {"queued", "asking", "asking again"} => c.asked <= retries + 1
<1>1. c.attempt \in 0 .. retries /\ c.asked \in Nat
  BY DEF CallOK, CallType
<1>2. c.attempt \in Nat /\ c.attempt <= retries
  BY <1>1, Retries
<1>3. c.asked = 0 => c.asked <= retries + 1
  BY Retries
<1>4. c.asked = c.attempt + 1 => c.asked <= retries + 1
  BY <1>2, Retries
<1>5. c.asked = c.attempt + 2 /\ c.attempt < retries => c.asked <= retries + 1
  BY <1>2, Retries
<1> QED
  BY <1>1, <1>2, <1>3, <1>4, <1>5, Zenon DEF CallOK

\* The three steps of a coroutine that do not end its call.
LEMMA Starting ==
  ASSUME NEW i, NEW c, CallOK(i, c), c.at = "queued"
  PROVE  CallOK(i, [c EXCEPT !.at = "asking", !.asked = 1])
<1> DEFINE d == [c EXCEPT !.at = "asking", !.asked = 1]
<1>1. c \in CallType /\ c.attempt = 0 /\ ~c.parsed
  BY DEF CallOK
<1>2. d \in CallType
  BY <1>1 DEF CallType
<1>3. d.at = "asking" /\ d.asked = 1 /\ d.attempt = c.attempt /\ d.parsed = c.parsed
  BY <1>1 DEF CallType
<1> HIDE DEF d
<1>4. d.asked = d.attempt + 1
  BY <1>1, <1>3
<1>5. d.at # "queued" /\ d.at # "asking again" /\ d.at # "returned"
  BY <1>3
<1>7. CallOK(i, d)
  BY <1>1, <1>2, <1>3, <1>4, <1>5, Zenon DEF CallOK
<1> QED
  BY <1>7 DEF d

LEMMA ReAsking ==
  ASSUME NEW i, NEW c, CallOK(i, c), c.at = "asking", c.attempt < retries, NEW reply \in Reply
  PROVE  CallOK(i, [c EXCEPT !.at = "asking again", !.held = reply,
                             !.asked = @ + 1, !.parsed = TRUE])
<1> DEFINE d == [c EXCEPT !.at = "asking again", !.held = reply,
                          !.asked = @ + 1, !.parsed = TRUE]
<1>1. c \in CallType /\ c.asked = c.attempt + 1
  BY DEF CallOK
<1>2. c.asked + 1 \in Nat /\ c.asked + 1 = c.attempt + 2
  <2>1. c.attempt \in Nat /\ c.asked \in Nat
    BY Counters
  <2> QED
    BY <1>1, <2>1
<1>3. d \in CallType
  BY <1>1, <1>2 DEF CallType
<1>4. /\ d.at = "asking again" /\ d.asked = c.asked + 1 /\ d.attempt = c.attempt
      /\ d.held = reply
  BY <1>1 DEF CallType
<1> HIDE DEF d
<1>5. d.at # "queued" /\ d.at # "asking" /\ d.at # "returned"
  BY <1>4
<1>7. CallOK(i, d)
  BY <1>2, <1>3, <1>4, <1>5, Zenon DEF CallOK
<1> QED
  BY <1>7 DEF d

LEMMA Retrying ==
  ASSUME NEW i, NEW c, CallOK(i, c), c.at = "asking", c.attempt < retries
  PROVE  CallOK(i, [c EXCEPT !.attempt = @ + 1, !.asked = @ + 1])
<1> DEFINE d == [c EXCEPT !.attempt = @ + 1, !.asked = @ + 1]
<1>1. c \in CallType /\ c.asked = c.attempt + 1 /\ ~c.parsed
  BY DEF CallOK
<1>2. c.asked + 1 \in Nat /\ c.attempt + 1 \in 0 .. retries
  <2>1. c.attempt \in Nat /\ c.asked \in Nat
    BY Counters
  <2> QED
    BY <2>1, Retries
<1>3. d \in CallType
  BY <1>1, <1>2 DEF CallType
<1>4. /\ d.at = "asking" /\ d.asked = c.asked + 1 /\ d.attempt = c.attempt + 1
      /\ d.parsed = c.parsed
  BY <1>1 DEF CallType
<1> HIDE DEF d
<1>5. d.asked = d.attempt + 1
  BY <1>1, <1>4
<1>6. d.at # "queued" /\ d.at # "asking again" /\ d.at # "returned"
  BY <1>4
<1>7. CallOK(i, d)
  BY <1>1, <1>3, <1>4, <1>5, <1>6, Zenon DEF CallOK
<1> QED
  BY <1>7 DEF d

LEMMA CallsKeep ==
  ASSUME IInv, NEW i \in Record, Calls(i)
  PROVE  IInv'
<1>1. CallOK(i, call[i]) /\ InTime(i)
  BY DEF IInv
<1>2. CASE Start(i)
  <2>1. CallOK(i, [call[i] EXCEPT !.at = "asking", !.asked = 1])
    BY <1>1, <1>2, Starting DEF Start, Served
  <2> QED
    BY <1>2, <2>1, OneCall DEF Start, Served, Step
<1>3. CASE PromptBreaks(i)
  <2>1. call[i].asked <= retries + 1 /\ ~call[i].parsed
    BY <1>1, <1>3, Counters, Zenon DEF PromptBreaks, Served, CallOK
  <2> QED
    BY <1>1, <1>3, <2>1, ReturnKeeps DEF PromptBreaks, Served, Outcome
<1>4. CASE Accept(i)
  <2>1. PICK reply \in Reply : Return(i, "answer", reply)
    BY <1>4 DEF Accept
  <2>2. call[i].asked <= retries + 1
    BY <1>1, <1>4, Counters DEF Accept
  <2> QED
    BY <1>1, <1>4, <2>1, <2>2, ReturnKeeps DEF Accept, InTime, Outcome
<1>5. CASE ReAsk(i)
  <2>1. PICK reply \in Reply :
          /\ MayReAsk(call[i], reply)
          /\ Step(i, [call[i] EXCEPT !.at = "asking again", !.held = reply,
                                     !.asked = @ + 1, !.parsed = TRUE])
    BY <1>5 DEF ReAsk
  <2>2. call[i].attempt < retries
    BY <2>1 DEF MayReAsk
  <2>3. CallOK(i, [call[i] EXCEPT !.at = "asking again", !.held = reply,
                                  !.asked = @ + 1, !.parsed = TRUE])
    BY <1>1, <1>5, <2>2, ReAsking DEF ReAsk
  <2> QED
    BY <1>1, <1>5, <2>1, <2>3, OneCall DEF ReAsk, InTime, Step
<1>6. CASE ReAskAnswered(i)
  <2>1. PICK reply \in Reply : Return(i, "answer", reply)
    BY <1>6 DEF ReAskAnswered
  <2>2. call[i].asked <= retries + 1
    BY <1>1, <1>6, Counters DEF ReAskAnswered
  <2> QED
    BY <1>1, <1>6, <2>1, <2>2, ReturnKeeps DEF ReAskAnswered, InTime, Outcome
<1>7. CASE ReAskFails(i)
  <2>1. call[i].asked <= retries + 1 /\ call[i].held \in Reply
    BY <1>1, <1>7, Counters, Zenon DEF ReAskFails, CallOK
  <2> QED
    BY <1>1, <1>7, <2>1, ReturnKeeps DEF ReAskFails, InTime, Outcome
<1>8. CASE AttemptFails(i)
  <2>1. CASE call[i].attempt < retries
    <3>1. CallOK(i, [call[i] EXCEPT !.attempt = @ + 1, !.asked = @ + 1])
      BY <1>1, <1>8, <2>1, Retrying DEF AttemptFails
    <3> QED
      BY <1>1, <1>8, <2>1, <3>1, OneCall DEF AttemptFails, InTime, Step
  <2>2. CASE ~(call[i].attempt < retries)
    <3>1. call[i].asked <= retries + 1 /\ ~call[i].parsed
      BY <1>1, <1>8, Counters, Zenon DEF AttemptFails, CallOK
    <3> QED
      BY <1>1, <1>8, <2>2, <3>1, ReturnKeeps DEF AttemptFails, InTime, Outcome
  <2> QED
    BY <2>1, <2>2
<1> QED
  BY <1>2, <1>3, <1>4, <1>5, <1>6, <1>7, <1>8 DEF Calls

\* No two records have the same place among the tasks.
LEMMA Places ==
  ASSUME needs_llm \subseteq Record, NEW i \in needs_llm
  PROVE  /\ TaskOf(i) \in 1 .. Cardinality(needs_llm)
         /\ \A j \in needs_llm : TaskOf(j) = TaskOf(i) => j = i
<1> DEFINE UpTo(k) == {j \in needs_llm : j <= k}
<1>1. IsFiniteSet(needs_llm) /\ \A k : IsFiniteSet(UpTo(k))
  <2>1. IsFiniteSet(Record)
    BY FS_Interval, DispatchAssumption DEF Record
  <2> QED
    BY <2>1, FS_Subset
<1>2. \A k : UpTo(k) \subseteq needs_llm
  OBVIOUS
<1>3. i \in UpTo(i)
  BY DEF Record
<1>4. TaskOf(i) \in 1 .. Cardinality(needs_llm)
  <2>1. /\ Cardinality(UpTo(i)) <= Cardinality(needs_llm)
        /\ Cardinality(UpTo(i)) \in Nat /\ Cardinality(needs_llm) \in Nat
    BY <1>1, <1>2, FS_Subset, FS_CardinalityType
  <2>2. Cardinality(UpTo(i)) # 0
    BY <1>1, <1>3, FS_EmptySet
  <2> QED
    BY <2>1, <2>2 DEF TaskOf
<1>5. ASSUME NEW j \in needs_llm, NEW k \in needs_llm, j < k
      PROVE  TaskOf(j) # TaskOf(k)
  <2>0. \A l \in needs_llm : l \in Int
    BY DEF Record
  <2>1. UpTo(j) \subseteq UpTo(k) /\ k \notin UpTo(j) /\ k \in UpTo(k)
    BY <1>5, <2>0
  <2>2. Cardinality(UpTo(j)) < Cardinality(UpTo(k))
    <3>1. /\ Cardinality(UpTo(j)) <= Cardinality(UpTo(k))
          /\ Cardinality(UpTo(j)) = Cardinality(UpTo(k)) => UpTo(j) = UpTo(k)
      BY <1>1, <2>1, FS_Subset
    <3>2. UpTo(j) # UpTo(k)
      BY <2>1
    <3>3. Cardinality(UpTo(j)) \in Nat /\ Cardinality(UpTo(k)) \in Nat
      BY <1>1, FS_CardinalityType
    <3> HIDE DEF UpTo
    <3> QED
      BY <3>1, <3>2, <3>3
  <2> QED
    BY <1>1, <2>2, FS_CardinalityType DEF TaskOf
<1>6. ASSUME NEW j \in needs_llm, TaskOf(j) = TaskOf(i)
      PROVE  j = i
  <2>1. j < i \/ i < j \/ j = i
    BY DEF Record
  <2> QED
    BY <1>5, <1>6, <2>1
<1> QED
  BY <1>4, <1>6

\* Zipping the results with task_indices gives each record its own call's.
LEMMA ZipMirrors ==
  ASSUME IInv, stage = "inference", \A j \in needs_llm : call[j].at = "returned",
         NEW i \in Record
  PROVE  \/ ~Zipped[i].ai_dispatched /\ Zipped[i].of = None
         \/ Mirrors(Zipped[i], call[i])
<1>1. CASE i \in needs_llm
  <2>1. Results[TaskOf(i)] = call[i].result
    BY <1>1, Places DEF Results, IInv
  <2>2. Zipped[i] = Merge(Sent(i), call[i].result)
    BY <1>1, <2>1 DEF Zipped, IInv, RecordOK
  <2>3. call[i].at = "returned"
    BY <1>1
  <2>4. Mirrors(Merge(Sent(i), call[i].result), call[i])
    <3> DEFINE rec == Merge(Sent(i), call[i].result)
    <3>1. /\ rec.of = call[i].result.of
          /\ rec.is_fallback = (call[i].result.kind # "answer")
          /\ rec.needs_review = (call[i].result.kind # "answer" \/ ~call[i].result.sure)
      BY Zenon DEF Merge, Sent, Untouched
    <3>2. rec.csu = IF call[i].result.kind # "answer" THEN "FALLBACK"
                    ELSE IF call[i].result.csu THEN "model" ELSE None
      BY Zenon DEF Merge, Sent, Untouched
    <3>3. None # "FALLBACK"
      BY DispatchAssumption
    <3> HIDE DEF rec
    <3>4. /\ rec.csu \in {"model", "FALLBACK", None}
          /\ (rec.csu = "FALLBACK") = (call[i].result.kind # "answer")
      BY <3>2, <3>3
    <3>5. Mirrors(rec, call[i])
      BY <2>3, <3>1, <3>4, Zenon DEF Mirrors
    <3> QED
      BY <3>5 DEF rec
  <2> QED
    BY <2>2, <2>4
<1>2. CASE i \notin needs_llm
  <2>1. Zipped[i] = Sent(i)
    BY <1>2 DEF Zipped, IInv, RecordOK
  <2>2. Sent(i).of = None /\ ~Sent(i).ai_dispatched
    BY <1>2, Zenon DEF Sent, Untouched
  <2> QED
    BY <1>2, <2>1, <2>2, Zenon
<1> QED
  BY <1>1, <1>2

\* Outside the batch's calls the coroutines stand still.
LEMMA CallsStand ==
  ASSUME IInv, UNCHANGED <<needs_llm, call>>,
         \A i \in Record : call[i].at \in {"asking", "asking again"} => stage' = "inference",
         stage' \in {"routing", "inference", "gathered", "assembled"},
         \A i \in Record : RecordOK(i)'
  PROVE  IInv'
<1>1. \A i \in Record : CallOK(i, call[i])'
  BY DEF IInv, CallOK
<1>2. \A i \in Record : InTime(i)'
  BY DEF IInv, InTime
<1> QED
  BY <1>1, <1>2 DEF IInv

LEMMA NextKeeps == IInv /\ [Next]_vars => IInv'
<1> SUFFICES ASSUME IInv, [Next]_vars PROVE IInv'
  OBVIOUS
<1>1. CASE Route
  <2>1. ASSUME NEW i \in Record PROVE RecordOK(i)'
    <3>1. records'[i] = Sent(i) /\ Sent(i)' = Sent(i)
      BY <1>1 DEF Route, Sent
    <3>2. needs_llm = {} => ~Sent(i).ai_dispatched /\ Sent(i).of = None
      BY Zenon DEF Sent, Untouched
    <3>3. rows'[i] = None
      BY <1>1 DEF Route, IInv, RecordOK
    <3>4. stage' = (IF needs_llm = {} THEN "gathered" ELSE "inference")
      BY <1>1 DEF Route
    <3>5. CASE needs_llm = {}
      <4>1. stage' = "gathered"
        BY <3>4, <3>5
      <4> QED
        BY <3>1, <3>2, <3>3, <3>5, <4>1 DEF RecordOK
    <3>6. CASE needs_llm # {}
      <4>1. stage' = "inference"
        BY <3>4, <3>6
      <4> QED
        BY <3>1, <3>3, <4>1 DEF RecordOK
    <3> QED
      BY <3>5, <3>6
  <2>2. \A i \in Record : call[i].at \notin {"asking", "asking again"}
    BY <1>1 DEF Route, IInv, InTime
  <2> QED
    BY <1>1, <2>1, <2>2, CallsStand DEF Route
<1>2. CASE DispatchFails
  <2>1. ASSUME NEW i \in Record PROVE RecordOK(i)'
    <3>1. records'[i] = Untouched /\ rows'[i] = None /\ stage' = "gathered"
      BY <1>2 DEF DispatchFails, IInv, RecordOK
    <3>2. ~Untouched.ai_dispatched /\ Untouched.of = None
      BY DEF Untouched
    <3> QED
      BY <3>1, <3>2 DEF RecordOK
  <2>2. \A i \in Record : call[i].at \notin {"asking", "asking again"}
    BY <1>2 DEF DispatchFails, IInv, InTime
  <2> QED
    BY <1>2, <2>1, <2>2, CallsStand DEF DispatchFails
<1>3. CASE \E i \in Record : Calls(i)
  BY <1>3, CallsKeep
<1>4. CASE Gathered
  <2>1. ASSUME NEW i \in Record PROVE RecordOK(i)'
    <3>1. records'[i] = Zipped[i] /\ stage' = "gathered" /\ call' = call
      BY <1>4 DEF Gathered
    <3>2. rows'[i] = None
      BY <1>4 DEF Gathered, IInv, RecordOK
    <3>3. \/ ~Zipped[i].ai_dispatched /\ Zipped[i].of = None
          \/ Mirrors(Zipped[i], call[i])
      BY <1>4, ZipMirrors DEF Gathered
    <3>4. Mirrors(Zipped[i], call[i]) => Mirrors(records[i], call[i])'
      BY <3>1 DEF Mirrors
    <3> QED
      BY <3>1, <3>2, <3>3, <3>4, Zenon DEF RecordOK
  <2>2. \A i \in Record : call[i].at \notin {"asking", "asking again"}
    BY <1>4 DEF Gathered, IInv, InTime
  <2> QED
    BY <1>4, <2>1, <2>2, CallsStand DEF Gathered
<1>5. CASE Assemble
  <2>1. ASSUME NEW i \in Record PROVE RecordOK(i)'
    <3>1. /\ rows'[i] = RowFrom(records[i]) /\ stage' = "assembled"
          /\ records' = records /\ call' = call /\ stage = "gathered"
      BY <1>5 DEF Assemble
    <3>2. RowFrom(records[i])' = RowFrom(records[i])
      BY <3>1 DEF RowFrom
    <3> QED
      BY <3>1, <3>2 DEF RecordOK, IInv, Mirrors
  <2>2. \A i \in Record : call[i].at \notin {"asking", "asking again"}
    BY <1>5 DEF Assemble, IInv, InTime
  <2> QED
    BY <1>5, <2>1, <2>2, CallsStand DEF Assemble
<1>6. CASE UNCHANGED vars
  <2>1. \A i \in Record : RecordOK(i)'
    BY <1>6 DEF vars, IInv, RecordOK, Sent, Mirrors, RowFrom
  <2> QED
    BY <1>6, <2>1, CallsStand DEF vars, IInv, InTime
<1> QED
  BY <1>1, <1>2, <1>3, <1>4, <1>5, <1>6 DEF Next

LEMMA Inductive == Spec => []IInv
  BY Initially, NextKeeps, PTL DEF Spec

\* A remark never costs more than retries + 1 requests, the re-asking included.
THEOREM Budget == Spec => []RequestBudget
<1>1. ASSUME IInv PROVE RequestBudget
  <2>1. ASSUME NEW i \in Record PROVE call[i].asked <= retries + 1
    <3>1. CallOK(i, call[i])
      BY <1>1 DEF IInv
    <3>2. call[i].at \in {"queued", "asking", "asking again", "returned"}
      BY <3>1 DEF CallOK, CallType
    <3>3. call[i].at = "returned" => call[i].asked <= retries + 1
      BY <3>1 DEF CallOK
    <3> QED
      BY <3>1, <3>2, <3>3, Counters, Zenon
  <2> QED
    BY <2>1 DEF RequestBudget
<1> QED
  BY <1>1, Inductive, PTL

\* Each record gets what the call for its own remark returned.
THEOREM Own == Spec => []OwnAnswer
<1>1. ASSUME IInv PROVE OwnAnswer
  <2>1. ASSUME NEW i \in Record PROVE records[i].of \in {i, None}
    <3>1. CallOK(i, call[i]) /\ RecordOK(i)
      BY <1>1 DEF IInv
    <3>2. Untouched.of = None /\ Sent(i).of = None
      BY DEF Untouched, Sent
    <3>3. Mirrors(records[i], call[i]) => records[i].of = i
      BY <3>1, Zenon DEF Mirrors, CallOK
    <3> QED
      BY <1>1, <3>1, <3>2, <3>3 DEF RecordOK, IInv
  <2> QED
    BY <2>1 DEF OwnAnswer
<1> QED
  BY <1>1, Inductive, PTL

\* A reply that could be parsed is never given up for a fallback.
THEOREM Used == Spec => []ParsedIsUsed
<1>1. ASSUME IInv PROVE ParsedIsUsed
  BY <1>1, Zenon DEF IInv, CallOK, ParsedIsUsed
<1> QED
  BY <1>1, Inductive, PTL

\* The row of a remark that was sent shows whether a reply to it was parsed, and
\* is flagged for review if none was or the model was unsure.
THEOREM Shown == Spec => []FailureShown
<1>1. ASSUME IInv PROVE FailureShown
  <2>1. ASSUME NEW i \in Record, rows[i] # None, records[i].ai_dispatched
        PROVE  /\ rows[i].is_fallback = ~call[i].parsed
               /\ (rows[i].csu = "FALLBACK") = ~call[i].parsed
               /\ rows[i].needs_review = (~call[i].parsed \/ ~call[i].result.sure)
    <3>1. CallOK(i, call[i]) /\ RecordOK(i)
      BY <1>1 DEF IInv
    <3>2. Mirrors(records[i], call[i]) /\ rows[i] = RowFrom(records[i])
      BY <2>1, <3>1 DEF RecordOK
    <3>3. call[i].parsed <=> call[i].result.kind = "answer"
      BY <3>1, <3>2, Zenon DEF CallOK, Mirrors
    <3>4. /\ rows[i].is_fallback = records[i].is_fallback
          /\ rows[i].needs_review = records[i].needs_review
          /\ rows[i].csu = IF records[i].csu = None THEN "rules" ELSE records[i].csu
      BY <3>2 DEF RowFrom
    <3>5. (rows[i].csu = "FALLBACK") <=> (records[i].csu = "FALLBACK")
      BY <3>4, DispatchAssumption
    <3> QED
      BY <3>2, <3>3, <3>4, <3>5, Zenon DEF Mirrors
  <2> QED
    BY <2>1 DEF FailureShown
<1> QED
  BY <1>1, Inductive, PTL

-------------------------------------------------------------------------------
(* The progress events.                                                        *)

Counted ==
  /\ completed = Cardinality(Returned)
  /\ told # None => told = completed
  /\ stage = "routing" => completed = 0

\* A call that returns is one more of those that have.
LEMMA ReturnCounts ==
  ASSUME IInv, Counted, NEW i \in Record, call[i].at # "returned", stage = "inference",
         NEW kind, NEW reply, Return(i, kind, reply)
  PROVE  Counted'
<1>1. call'[i].at = "returned" /\ \A j \in Record \ {i} : call'[j] = call[j]
  <2>1. call[i] \in CallType
    BY DEF IInv, CallOK
  <2>2. call'[i] = Ended(i, kind, reply)
    BY DEF IInv, Return
  <2>3. Ended(i, kind, reply).at = "returned"
    BY <2>1, Zenon DEF Ended, CallType
  <2>4. \A j \in Record \ {i} : call'[j] = call[j]
    BY DEF IInv, Return
  <2> QED
    BY <2>2, <2>3, <2>4
<1>2. Returned' = Returned \cup {i} /\ i \notin Returned
  BY <1>1 DEF Returned
<1>3. IsFiniteSet(Returned)
  <2>1. IsFiniteSet(Record)
    BY FS_Interval, DispatchAssumption DEF Record
  <2>2. Returned \in SUBSET Record
    BY DEF Returned
  <2> QED
    BY <2>1, <2>2, FS_Subset
<1>4. Cardinality(Returned \cup {i}) = Cardinality(Returned) + 1
  BY <1>2, <1>3, FS_AddElement
<1>5. completed' = completed + 1 /\ told' = completed' /\ stage' = stage
  BY DEF Return
<1> QED
  BY <1>2, <1>4, <1>5 DEF Counted

\* Any other step of a coroutine returns no call.
LEMMA StepCounts ==
  ASSUME IInv, Counted, NEW i \in Record, call[i].at # "returned",
         NEW c, c.at # "returned", Step(i, c)
  PROVE  Counted'
<1>1. \A j \in Record : (call'[j].at = "returned") = (call[j].at = "returned")
  <2>1. call'[i] = c /\ \A j \in Record \ {i} : call'[j] = call[j]
    BY DEF IInv, Step
  <2> QED
    BY <2>1
<1>2. Returned' = Returned
  BY <1>1 DEF Returned
<1> QED
  BY <1>2 DEF Counted, Step

LEMMA CallsCount ==
  ASSUME IInv, Counted, NEW i \in Record, Calls(i)
  PROVE  Counted'
<1>1. call[i] \in CallType /\ InTime(i)
  BY DEF IInv, CallOK
<1>2. CASE Start(i)
  <2>1. [call[i] EXCEPT !.at = "asking", !.asked = 1].at # "returned"
    BY <1>1, Zenon DEF CallType
  <2> QED
    BY <1>2, <2>1, StepCounts DEF Start, Served
<1>3. CASE PromptBreaks(i)
  BY <1>3, ReturnCounts DEF PromptBreaks, Served
<1>4. CASE Accept(i)
  BY <1>1, <1>4, ReturnCounts DEF Accept, InTime
<1>5. CASE ReAsk(i)
  <2>1. \A reply : [call[i] EXCEPT !.at = "asking again", !.held = reply,
                                   !.asked = @ + 1, !.parsed = TRUE].at # "returned"
    BY <1>1, Zenon DEF CallType
  <2> QED
    BY <1>5, <2>1, StepCounts DEF ReAsk
<1>6. CASE ReAskAnswered(i)
  BY <1>1, <1>6, ReturnCounts DEF ReAskAnswered, InTime
<1>7. CASE ReAskFails(i)
  BY <1>1, <1>7, ReturnCounts DEF ReAskFails, InTime
<1>8. CASE AttemptFails(i)
  <2>1. [call[i] EXCEPT !.attempt = @ + 1, !.asked = @ + 1].at = call[i].at
    BY <1>1, Zenon DEF CallType
  <2>2. CASE call[i].attempt < retries
    BY <1>8, <2>1, <2>2, StepCounts DEF AttemptFails
  <2>3. CASE ~(call[i].attempt < retries)
    BY <1>1, <1>8, <2>3, ReturnCounts DEF AttemptFails, InTime
  <2> QED
    BY <2>2, <2>3
<1> QED
  BY <1>2, <1>3, <1>4, <1>5, <1>6, <1>7, <1>8 DEF Calls

\* The progress events count the calls that have returned.
THEOREM Told == Spec => []ToldReturned
<1>1. Init => Counted
  <2>1. Init => Returned = {}
    BY DEF Init, Returned, Queued
  <2> QED
    BY <2>1, FS_EmptySet DEF Init, Counted
<1>2. IInv /\ Counted /\ [Next]_vars => Counted'
  <2> SUFFICES ASSUME IInv, Counted, [Next]_vars PROVE Counted'
    OBVIOUS
  <2>1. CASE \E i \in Record : Calls(i)
    BY <2>1, CallsCount
  <2>2. CASE Route
    BY <2>2 DEF Route, Counted, Returned
  <2>3. CASE DispatchFails \/ Gathered \/ Assemble
    BY <2>3 DEF DispatchFails, Gathered, Assemble, Counted, Returned
  <2>4. CASE UNCHANGED vars
    BY <2>4 DEF vars, Counted, Returned
  <2> QED
    BY <2>1, <2>2, <2>3, <2>4 DEF Next
<1>3. Counted => ToldReturned
  BY DEF Counted, ToldReturned
<1> QED
  BY <1>1, <1>2, <1>3, Inductive, PTL DEF Spec
===============================================================================
