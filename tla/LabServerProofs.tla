---------------------------- MODULE LabServerProofs ----------------------------
(* The profiles file and the event streams of the remark processor, for any      *)
(* streams, profiles and batches.  CustomsStand rests on what each thread has in *)
(* its hands: as long as no load has put the shipped profiles over a file, what  *)
(* the loop is about to write is what kept will be when it has written it.       *)
(* CalmBatchIsUniform rests on both invariants and on what every thread is doing  *)
(* while the profiles are not changed: all reload the same profile.              *)
EXTENDS LabServer, FiniteSetTheorems, SequenceTheorems, TLAPS

\* The custom profiles among these are k.
Match(profiles, k) ==
  /\ DOMAIN profiles \cap Custom = DOMAIN k
  /\ \A id \in DOMAIN k : profiles[id].text = k[id]

Shaped(data) == data = [active |-> data.active, profiles |-> data.profiles]

\* A load that found no file, or a torn one, on its way through the write.
Restoring(a, l) == a \in {"open", "close"} /\ l.back # "written"

\* An endpoint on its way through the write.
Saving(a, l) == a \in {"open", "close"} /\ l.back = "written"

\* What is in the hands of a thread at step a: only the loop changes profiles.
Hands(t, a, l) ==
  /\ l = [req |-> l.req, data |-> l.data, back |-> l.back, id |-> l.id, text |-> l.text]
  /\ l.back \in {"idle", "decide", "written", "named", "found", "fellback"}
  /\ t # Loop => a \notin {"load", "decide"} /\ l.back \notin {"written", "decide"}
  /\ a \in {"load", "decide"} => l.req \in Request
  /\ Restoring(a, l) => /\ l.data = FactoryData("rcbc_v4")
                        /\ l.back = "decide" => l.req \in Request

\* The same as long as nothing is lost, k being what is kept and after what is
\* kept once the request is carried out.
Honest(a, l, k, after) ==
  /\ Restoring(a, l) /\ a = "close" => k = <<>>
  /\ a = "decide" /\ l.req.kind # "reset" => Shaped(l.data) /\ Match(l.data.profiles, k)
  /\ Saving(a, l) => Match(l.data.profiles, after)

FileTrue ==
  /\ disk = "missing" => kept = <<>>
  /\ disk = "whole" => Match(content.profiles, kept)
  /\ clash = {}
  /\ \A t, u \in Writers : t = u
  /\ \A t \in Thread : Honest(at[t], local[t], kept, KeptAfter(local[t].req))

StoreInv ==
  /\ at = [t \in Thread |-> at[t]]
  /\ local = [t \in Thread |-> local[t]]
  /\ lost \in BOOLEAN
  /\ \A t \in Thread : Hands(t, at[t], local[t])
  /\ ~lost => FileTrue
-------------------------------------------------------------------------------
(* What loading and changing does to the custom profiles.                       *)

LEMMA OverFacts ==
  ASSUME NEW f, NEW g
  PROVE  /\ DOMAIN Over(f, g) = DOMAIN f \cup DOMAIN g
         /\ \A x \in DOMAIN f : Over(f, g)[x] = f[x]
         /\ \A x \in DOMAIN g : x \notin DOMAIN f => Over(f, g)[x] = g[x]
  BY DEF Over

LEMMA NothingKept == Match(SystemProfiles, <<>>)
<1>1. DOMAIN SystemProfiles = System
  BY DEF SystemProfiles
<1>2. System \cap Custom = {}
  BY ProfileAssumption
<1> QED BY <1>1, <1>2 DEF Match

LEMMA FactoryMatches ==
  ASSUME NEW active
  PROVE  Shaped(FactoryData(active)) /\ Match(FactoryData(active).profiles, <<>>)
  BY NothingKept DEF FactoryData, Shaped

\* A load adds system profiles only.
LEMMA CompletedMatches ==
  ASSUME NEW data, NEW k, Match(data.profiles, k)
  PROVE  Shaped(Completed(data)) /\ Match(Completed(data).profiles, k)
<1> DEFINE profiles == Over(data.profiles, SystemProfiles)
<1>1. Completed(data).profiles = profiles /\ Shaped(Completed(data))
  BY DEF Completed, Shaped
<1>2. /\ DOMAIN profiles = DOMAIN data.profiles \cup System
      /\ \A id \in DOMAIN data.profiles : profiles[id] = data.profiles[id]
  <2>1. DOMAIN SystemProfiles = System
    BY DEF SystemProfiles
  <2> QED BY <2>1 DEF Over
<1> HIDE DEF profiles
<1>3. System \cap Custom = {}
  BY ProfileAssumption
<1> QED BY <1>1, <1>2, <1>3 DEF Match

\* What an operation makes of loaded profiles is what its request keeps.
LEMMA ChangedMatches ==
  ASSUME NEW data, Shaped(data), NEW req \in Request, req.kind # "reset",
         Accepted(data, req), Match(data.profiles, kept)
  PROVE  Match(Changed(data, req).profiles, KeptAfter(req))
<1>1. req.kind \in {"save", "activate", "delete"}
  BY DEF Request, Accepted
<1>2. CASE req.kind = "save"
  <2> DEFINE new == [text |-> req.text, is_default |-> req.id = "default" \/ req.is_default]
             profiles == Over([id \in {req.id} |-> new], data.profiles)
  <2>1. Changed(data, req).profiles = profiles
    BY <1>2 DEF Changed, Saved
  <2>2. /\ DOMAIN profiles = DOMAIN data.profiles \cup {req.id}
        /\ profiles[req.id] = new
        /\ \A id \in DOMAIN data.profiles : id # req.id => profiles[id] = data.profiles[id]
    <3> HIDE DEF new
    <3> QED BY DEF Over
  <2>3. new.text = req.text
    OBVIOUS
  <2>4. CASE req.id \in Custom
    <3> DEFINE after == Over([id \in {req.id} |-> req.text], kept)
    <3>1. KeptAfter(req) = after
      BY <1>2, <2>4 DEF KeptAfter
    <3>2. /\ DOMAIN after = DOMAIN kept \cup {req.id}
          /\ after[req.id] = req.text
          /\ \A id \in DOMAIN kept : id # req.id => after[id] = kept[id]
      BY DEF Over
    <3> HIDE DEF after, profiles, new
    <3> QED BY <2>1, <2>2, <2>3, <2>4, <3>1, <3>2 DEF Match
  <2>5. CASE req.id \notin Custom
    <3>1. KeptAfter(req) = kept
      BY <1>2, <2>5 DEF KeptAfter
    <3> HIDE DEF profiles, new
    <3> QED BY <2>1, <2>2, <2>5, <3>1 DEF Match
  <2> QED BY <2>4, <2>5
<1>3. CASE req.kind = "activate"
  <2>1. Changed(data, req).profiles = data.profiles
    BY <1>3 DEF Changed, Shaped
  <2>2. KeptAfter(req) = kept
    BY <1>3 DEF KeptAfter
  <2> QED BY <2>1, <2>2
<1>4. CASE req.kind = "delete"
  <2>1. Changed(data, req).profiles = Without(data.profiles, req.id)
    BY <1>4 DEF Changed, Deleted
  <2>2. KeptAfter(req) = [id \in DOMAIN kept \ {req.id} |-> kept[id]]
    BY <1>4 DEF KeptAfter
  <2> QED BY <2>1, <2>2 DEF Match, Without
<1> QED BY <1>1, <1>2, <1>3, <1>4

LEMMA ResetMatches ==
  ASSUME NEW data, NEW req, req.kind = "reset"
  PROVE  Match(Changed(data, req).profiles, KeptAfter(req))
  BY FactoryMatches DEF Changed, KeptAfter

-------------------------------------------------------------------------------
(* The steps of a thread.  Other threads stay where they are.                   *)

Only(t) ==
  /\ at' = [u \in Thread |-> at'[u]]
  /\ local' = [u \in Thread |-> local'[u]]
  /\ \A u \in Thread \ {t} : at'[u] = at[u] /\ local'[u] = local[u]

\* A step that does not touch the file.
LEMMA Moves ==
  ASSUME StoreInv, NEW t \in Thread, UNCHANGED <<store, kept, lost>>, Only(t),
         at'[t] # "close", Hands(t, at'[t], local'[t]),
         ~lost => Honest(at'[t], local'[t], kept, KeptAfter(local'[t].req))
  PROVE  StoreInv'
<1>1. \A u \in Thread : Hands(u, at'[u], local'[u])
  BY DEF StoreInv, Only
<1>2. ASSUME ~lost PROVE FileTrue'
  <2>1. Writers' \subseteq Writers
    BY DEF Writers, Only
  <2>2. \A u \in Thread : KeptAfter(local[u].req)' = KeptAfter(local'[u].req)
    BY DEF KeptAfter
  <2>3. \A u \in Thread : Honest(at'[u], local'[u], kept, KeptAfter(local'[u].req))
    BY <1>2 DEF StoreInv, FileTrue, Only
  <2> QED BY <1>2, <2>1, <2>2, <2>3 DEF StoreInv, FileTrue, store
<1> QED BY <1>1, <1>2 DEF StoreInv, Only

\* A step to a place where nothing is said of what the thread holds.
LEMMA Passes ==
  ASSUME StoreInv, NEW t \in Thread, NEW a, NEW l, UNCHANGED <<store, kept, lost>>,
         at' = [at EXCEPT ![t] = a], local' = [local EXCEPT ![t] = l],
         a \notin {"load", "decide", "open", "close"},
         l = [req |-> l.req, data |-> l.data, back |-> l.back, id |-> l.id, text |-> l.text],
         l.back \in {"idle", "decide", "written", "named", "found", "fellback"},
         t # Loop => l.back \notin {"written", "decide"}
  PROVE  StoreInv'
<1>1. Only(t) /\ at'[t] = a /\ local'[t] = l
  BY DEF StoreInv, Only
<1>2. Hands(t, a, l) /\ \A k, after : Honest(a, l, k, after)
  BY DEF Hands, Honest, Restoring, Saving
<1> QED BY <1>1, <1>2, Moves

\* One that drops all it holds.
LEMMA Forgets ==
  ASSUME StoreInv, NEW t \in Thread, NEW a, UNCHANGED <<store, kept, lost>>,
         at' = [at EXCEPT ![t] = a], local' = ForgetAll(t),
         a \notin {"load", "decide", "open", "close"}
  PROVE  StoreInv'
<1>1. local' = [local EXCEPT ![t] = Fresh]
  BY DEF ForgetAll
<1>2. Fresh = [req |-> Fresh.req, data |-> Fresh.data, back |-> Fresh.back,
               id |-> Fresh.id, text |-> Fresh.text] /\ Fresh.back = "idle"
  BY DEF Fresh
<1> QED BY <1>1, <1>2, Passes

LEMMA LoadStep ==
  ASSUME StoreInv, NEW t \in Thread, NEW here, NEW to, Load(t, here, to),
         to \in {"idle", "decide", "named", "found", "fellback"}, t # Loop => to # "decide",
         to = "decide" => here = "load"
  PROVE  StoreInv'
<1>1. at[t] = here /\ UNCHANGED <<store, kept, lost>>
  BY DEF Load, history
<1>2. Hands(t, at[t], local[t]) /\ at = [u \in Thread |-> at[u]] /\ local = [u \in Thread |-> local[u]]
  BY DEF StoreInv
<1>3. CASE /\ disk = "whole" /\ to # "idle"
           /\ local' = [local EXCEPT ![t].data = Completed(content)]
           /\ at' = [at EXCEPT ![t] = to]
  <2>1. Only(t) /\ at'[t] = to
    BY <1>2, <1>3 DEF Only
  <2>2. local'[t] = [local[t] EXCEPT !.data = Completed(content)]
    BY <1>2, <1>3
  <2>3. /\ local'[t] = [req |-> local[t].req, data |-> Completed(content), back |-> local[t].back,
                        id |-> local[t].id, text |-> local[t].text]
    BY <1>2, <2>2 DEF Hands
  <2>4. Hands(t, at'[t], local'[t])
    BY <1>1, <1>2, <2>1, <2>3 DEF Hands, Restoring
  <2>5. ASSUME ~lost PROVE Honest(at'[t], local'[t], kept, KeptAfter(local'[t].req))
    <3>1. Match(content.profiles, kept)
      BY <1>3, <2>5 DEF StoreInv, FileTrue
    <3>2. Shaped(Completed(content)) /\ Match(Completed(content).profiles, kept)
      BY <3>1, CompletedMatches
    <3> QED BY <2>1, <2>3, <3>2 DEF Honest, Restoring, Saving
  <2> QED BY <1>1, <2>1, <2>4, <2>5, Moves
<1>4. CASE /\ local' = [local EXCEPT ![t].data = FactoryData("rcbc_v4"), ![t].back = to]
           /\ at' = [at EXCEPT ![t] = "open"]
  <2>1. Only(t) /\ at'[t] = "open"
    BY <1>2, <1>4 DEF Only
  <2>2. local'[t] = [req |-> local[t].req, data |-> FactoryData("rcbc_v4"), back |-> to,
                     id |-> local[t].id, text |-> local[t].text]
    BY <1>2, <1>4 DEF Hands
  <2>3. Hands(t, at'[t], local'[t])
    BY <1>1, <1>2, <2>1, <2>2 DEF Hands, Restoring
  <2>4. Honest(at'[t], local'[t], kept, KeptAfter(local'[t].req))
    BY <2>1, <2>2 DEF Honest, Restoring, Saving
  <2> QED BY <1>1, <2>1, <2>3, <2>4, Moves
<1>5. CASE to = "idle" /\ local' = ForgetAll(t) /\ at' = [at EXCEPT ![t] = to]
  BY <1>1, <1>5, Forgets
<1> QED BY <1>3, <1>4, <1>5 DEF Load

\* A second write, or one that nothing asked for, is a loss.
LEMMA OpenStep ==
  ASSUME StoreInv, NEW t \in Thread, Open(t)
  PROVE  StoreInv'
<1>1. /\ at[t] = "open" /\ disk' = "torn" /\ UNCHANGED <<content, local, kept>>
      /\ at' = [at EXCEPT ![t] = "close"]
      /\ clash' = IF Writers = {} THEN clash ELSE clash \cup Writers \cup {t}
      /\ lost' = (\/ lost
                  \/ disk # "missing" /\ local[t].back # "written"
                  \/ Writers # {})
  BY DEF Open
<1>2. /\ at = [u \in Thread |-> at[u]] /\ local = [u \in Thread |-> local[u]] /\ lost \in BOOLEAN
      /\ \A u \in Thread : Hands(u, at[u], local[u])
  BY DEF StoreInv
<1>3. /\ at' = [u \in Thread |-> at'[u]] /\ at'[t] = "close"
      /\ \A u \in Thread : u # t => at'[u] = at[u]
  BY <1>1, <1>2
<1>4. \A u \in Thread : Hands(u, at'[u], local'[u])
  BY <1>1, <1>2, <1>3 DEF Hands, Restoring
<1>5. ASSUME ~lost' PROVE FileTrue'
  <2>1. /\ ~lost /\ Writers = {}
        /\ disk = "missing" \/ local[t].back = "written"
    BY <1>1, <1>5
  <2>2. FileTrue
    BY <2>1 DEF StoreInv
  <2>3. Writers' = {t}
    BY <1>3, <2>1 DEF Writers
  <2>4. \A u \in Thread : KeptAfter(local[u].req)' = KeptAfter(local[u].req)
    BY <1>1 DEF KeptAfter
  <2>5. \A u \in Thread : u # t => Honest(at'[u], local'[u], kept, KeptAfter(local[u].req))
    BY <1>1, <1>3, <2>2 DEF FileTrue
  <2>6. Honest("close", local[t], kept, KeptAfter(local[t].req))
    BY <1>1, <2>1, <2>2 DEF FileTrue, Honest, Restoring, Saving
  <2>7. \A u \in Thread : Honest(at[u], local[u], kept, KeptAfter(local[u].req))'
    BY <1>1, <1>3, <2>4, <2>5, <2>6
  <2>8. clash' = {}
    BY <1>1, <2>1, <2>2 DEF FileTrue
  <2> QED BY <1>1, <2>3, <2>7, <2>8 DEF FileTrue
<1>6. lost' \in BOOLEAN
  BY <1>1
<1>7. local' = [u \in Thread |-> local'[u]]
  BY <1>1, <1>2
<1> QED BY <1>3, <1>4, <1>5, <1>6, <1>7 DEF StoreInv

\* The one write that runs brings what the thread had in its hands.
LEMMA CloseStep ==
  ASSUME StoreInv, NEW t \in Thread, Close(t)
  PROVE  StoreInv'
<1> DEFINE l == local[t]
<1>1. /\ at[t] = "close" /\ UNCHANGED lost
      /\ at' = [at EXCEPT ![t] = l.back]
      /\ clash' = clash \ {t}
      /\ \/ disk' = "whole" /\ content' = l.data
         \/ t \in clash
  BY DEF Close
<1>2. /\ at = [u \in Thread |-> at[u]] /\ local = [u \in Thread |-> local[u]] /\ lost \in BOOLEAN
      /\ \A u \in Thread : Hands(u, at[u], local[u])
  BY DEF StoreInv
<1>3. \/ l.back = "written" /\ kept' = KeptAfter(l.req) /\ local' = Forget(t)
      \/ l.back = "idle" /\ UNCHANGED kept /\ local' = ForgetAll(t)
      \/ l.back \notin {"written", "idle"} /\ UNCHANGED <<kept, local>>
  BY DEF Close
<1>4. /\ at' = [u \in Thread |-> at'[u]] /\ at'[t] = l.back
      /\ \A u \in Thread : u # t => at'[u] = at[u]
  BY <1>1, <1>2
<1>5. /\ local' = [u \in Thread |-> local'[u]]
      /\ \A u \in Thread : u # t => local'[u] = local[u]
      /\ l.back = "written" =>
           local'[t] = [req |-> l.req, data |-> FactoryData("rcbc_v4"), back |-> "idle",
                        id |-> "default", text |-> Factory]
      /\ l.back = "idle" =>
           local'[t] = [req |-> Reading, data |-> FactoryData("rcbc_v4"), back |-> "idle",
                        id |-> "default", text |-> Factory]
      /\ l.back \notin {"written", "idle"} => local'[t] = l
  BY <1>2, <1>3 DEF Forget, ForgetAll, Fresh
<1>6. Hands(t, "close", l)
  BY <1>1, <1>2
<1> HIDE DEF l
<1>7. Hands(t, at'[t], local'[t])
  BY <1>4, <1>5, <1>6 DEF Hands, Restoring
<1>8. \A u \in Thread : Hands(u, at'[u], local'[u])
  BY <1>2, <1>4, <1>5, <1>7
<1>9. ASSUME ~lost PROVE FileTrue'
  <2>1. FileTrue /\ clash = {} /\ t \in Writers
    BY <1>1, <1>9 DEF StoreInv, FileTrue, Writers
  <2>2. disk' = "whole" /\ content' = l.data
    BY <1>1, <2>1
  <2>3. /\ \A u \in Thread : at[u] = "close" => u = t
        /\ Honest("close", l, kept, KeptAfter(l.req))
    BY <1>1, <2>1 DEF FileTrue, Writers, l
  <2>4. Writers' = {}
    BY <1>4, <1>6, <2>3 DEF Writers, Hands
  <2>5. Match(l.data.profiles, kept')
    <3>1. CASE l.back = "written"
      BY <1>3, <2>3, <3>1 DEF Honest, Saving
    <3>2. CASE l.back # "written"
      BY <1>3, <1>6, <2>3, <3>2, FactoryMatches DEF Honest, Hands, Restoring
    <3> QED BY <3>1, <3>2
  <2>6. ASSUME NEW u \in Thread
        PROVE  Honest(at'[u], local'[u], kept', KeptAfter(local[u].req)')
    <3>1. CASE u = t
      <4>1. l.data = FactoryData("rcbc_v4") \/ l.back = "written"
        BY <1>6 DEF Hands, Restoring
      <4>2. l.back \notin {"open", "close"} /\ (l.back = "written" => at'[t] # "decide")
        BY <1>4, <1>6 DEF Hands
      <4>3. l.back = "decide" => Shaped(l.data)
        BY <4>1, FactoryMatches
      <4> QED BY <1>4, <1>5, <2>5, <3>1, <4>2, <4>3 DEF Honest, Restoring, Saving
    <3>2. CASE u # t
      <4>1. /\ at'[u] = at[u] /\ local'[u] = local[u] /\ at[u] # "close"
            /\ Honest(at[u], local[u], kept, KeptAfter(local[u].req))
            /\ Hands(u, at[u], local[u])
        BY <1>2, <1>4, <1>5, <2>1, <2>3, <3>2 DEF FileTrue
      <4>2. CASE l.back = "written"
        <5>1. u # Loop
          BY <1>6, <3>2, <4>2 DEF Hands
        <5> QED BY <4>1, <5>1 DEF Hands, Honest, Restoring, Saving
      <4>3. CASE l.back # "written"
        <5>1. KeptAfter(local[u].req)' = KeptAfter(local[u].req)
          BY <1>3, <4>1, <4>3 DEF KeptAfter
        <5> QED BY <1>3, <4>1, <4>3, <5>1
      <4> QED BY <4>2, <4>3
    <3> QED BY <3>1, <3>2
  <2>7. clash' = {}
    BY <1>1, <2>1
  <2> QED BY <2>2, <2>4, <2>5, <2>6, <2>7 DEF FileTrue
<1> QED BY <1>1, <1>2, <1>4, <1>5, <1>8, <1>9 DEF StoreInv

LEMMA Stays ==
  ASSUME StoreInv, NEW t \in Thread, NEW a, UNCHANGED <<store, kept, lost, local>>,
         at' = [at EXCEPT ![t] = a], a \notin {"load", "decide", "open", "close"}
  PROVE  StoreInv'
<1>1. local' = [local EXCEPT ![t] = local[t]] /\ Hands(t, at[t], local[t])
  BY DEF StoreInv
<1> DEFINE l == local[t]
<1>2. /\ l = [req |-> l.req, data |-> l.data, back |-> l.back, id |-> l.id, text |-> l.text]
      /\ l.back \in {"idle", "decide", "written", "named", "found", "fellback"}
      /\ t # Loop => l.back \notin {"written", "decide"}
  BY <1>1 DEF Hands
<1>3. local' = [local EXCEPT ![t] = l]
  BY <1>1
<1> HIDE DEF l
<1> QED BY <1>2, <1>3, Passes

LEMMA Elsewhere ==
  ASSUME StoreInv, UNCHANGED <<store, kept, lost, local, at>>
  PROVE  StoreInv'
<1>1. \A t \in Thread : KeptAfter(local[t].req)' = KeptAfter(local[t].req)
  BY DEF KeptAfter
<1>2. Writers' = Writers
  BY DEF Writers
<1>3. ~lost => FileTrue'
  BY <1>1, <1>2 DEF StoreInv, FileTrue, store
<1> QED BY <1>3 DEF StoreInv

\* An endpoint starts or refuses, or takes to the write what it has changed.
LEMMA ReceiveStep ==
  ASSUME StoreInv, NEW req \in Request, Receive(req)
  PROVE  StoreInv'
<1> DEFINE a == IF req.kind = "reset" THEN "decide" ELSE IF req.kind = "read" THEN "respond" ELSE "load"
           l == [Fresh EXCEPT !.req = req]
<1>1. /\ UNCHANGED <<store, kept, lost>> /\ at' = [at EXCEPT ![Loop] = a]
      /\ local' = [local EXCEPT ![Loop] = l]
  BY DEF Receive
<1>2. l = [req |-> req, data |-> FactoryData("rcbc_v4"), back |-> "idle",
           id |-> "default", text |-> Factory]
  BY DEF Fresh
<1>3. a \notin {"open", "close"} /\ (a = "decide" => req.kind = "reset") /\ Loop \in Thread
  BY DEF Thread
<1> HIDE DEF a, l
<1>4. Only(Loop) /\ at'[Loop] = a /\ local'[Loop] = l
  BY <1>1, <1>3 DEF StoreInv, Only
<1>5. Hands(Loop, a, l) /\ \A k, after : Honest(a, l, k, after)
  BY <1>2, <1>3 DEF Hands, Honest, Restoring, Saving
<1> QED BY <1>1, <1>3, <1>4, <1>5, Moves

LEMMA DecideStep ==
  ASSUME StoreInv, Decide
  PROVE  StoreInv'
<1> DEFINE job == local[Loop]
           l == [req |-> job.req, data |-> Changed(job.data, job.req), back |-> "written",
                 id |-> job.id, text |-> job.text]
<1>1. Loop \in Thread /\ at[Loop] = "decide" /\ UNCHANGED <<store, kept, lost>>
  BY DEF Thread, Decide, history
<1>2. Hands(Loop, "decide", job) /\ (~lost => Honest("decide", job, kept, KeptAfter(job.req)))
  BY <1>1 DEF StoreInv, FileTrue
<1>3. CASE /\ Accepted(job.data, job.req)
           /\ local' = [local EXCEPT ![Loop].data = Changed(job.data, job.req),
                                     ![Loop].back = "written"]
           /\ at' = [at EXCEPT ![Loop] = "open"]
  <2>1. Only(Loop) /\ at'[Loop] = "open" /\ local'[Loop] = l
    BY <1>1, <1>2, <1>3 DEF StoreInv, Only, Hands
  <2>2. Hands(Loop, "open", l)
    BY <1>2 DEF Hands, Restoring
  <2>3. ASSUME ~lost PROVE Match(l.data.profiles, KeptAfter(l.req))
    <3>1. job.req \in Request
      BY <1>2 DEF Hands
    <3>2. CASE job.req.kind = "reset"
      BY <3>2, ResetMatches
    <3>3. CASE job.req.kind # "reset"
      <4>1. Shaped(job.data) /\ Match(job.data.profiles, kept)
        BY <1>2, <2>3, <3>3 DEF Honest
      <4> QED BY <1>3, <3>1, <3>3, <4>1, ChangedMatches
    <3> QED BY <3>2, <3>3
  <2>4. ~lost => Honest("open", l, kept, KeptAfter(l.req))
    BY <2>3 DEF Honest, Restoring, Saving
  <2> HIDE DEF l
  <2> QED BY <1>1, <2>1, <2>2, <2>4, Moves
<1>4. CASE at' = [at EXCEPT ![Loop] = "idle"] /\ local' = ForgetAll(Loop)
  BY <1>1, <1>4, Forgets
<1> QED BY <1>3, <1>4 DEF Decide

LEMMA TakeNameStep ==
  ASSUME StoreInv, NEW t \in Thread, NEW id, TakeName(t, id)
  PROVE  StoreInv'
<1> DEFINE l == [Fresh EXCEPT !.req = local[t].req, !.id = id]
<1>1. /\ UNCHANGED <<store, kept, lost>> /\ local' = [local EXCEPT ![t] = l]
      /\ at' = [at EXCEPT ![t] = "get"]
  BY DEF TakeName, history
<1>2. l = [req |-> local[t].req, data |-> FactoryData("rcbc_v4"), back |-> "idle",
           id |-> id, text |-> Factory]
  <2> DEFINE q == local[t].req
             d == FactoryData("rcbc_v4")
  <2> HIDE DEF q, d
  <2>1. Fresh = [req |-> Reading, data |-> d, back |-> "idle", id |-> "default", text |-> Factory]
    BY DEF Fresh, d
  <2>2. [Fresh EXCEPT !.req = q, !.id = id] = [req |-> q, data |-> d, back |-> "idle", id |-> id, text |-> Factory]
    <3>2. [Fresh EXCEPT !.req = q] = [req |-> q, data |-> d, back |-> "idle", id |-> "default", text |-> Factory]
      BY <2>1
    <3>3. [Fresh EXCEPT !.req = q, !.id = id] = [[Fresh EXCEPT !.req = q] EXCEPT !.id = id]
      OBVIOUS
    <3>4. [[req |-> q, data |-> d, back |-> "idle", id |-> "default", text |-> Factory] EXCEPT !.id = id]
             = [req |-> q, data |-> d, back |-> "idle", id |-> id, text |-> Factory]
      OBVIOUS
    <3> QED BY <3>2, <3>3, <3>4
  <2> QED BY <2>2 DEF q, d
<1>3. l = [req |-> l.req, data |-> l.data, back |-> l.back, id |-> l.id, text |-> l.text]
      /\ l.back = "idle"
  BY <1>2
<1> HIDE DEF l
<1> QED BY <1>1, <1>3, Passes

LEMMA SetModelsStep ==
  ASSUME StoreInv, NEW t \in Thread, SetModels(t)
  PROVE  StoreInv'
<1>1. /\ UNCHANGED <<store, kept, lost>> /\ at' = [at EXCEPT ![t] = "prompt"]
      /\ \E text : local' = [local EXCEPT ![t].text = text]
  BY DEF SetModels, history
<1>2. PICK text : local' = [local EXCEPT ![t].text = text]
  BY <1>1
<1> DEFINE l == [local[t] EXCEPT !.text = text]
<1>3. Hands(t, at[t], local[t]) /\ local' = [local EXCEPT ![t] = l]
  BY <1>2 DEF StoreInv
<1>4. l = [req |-> local[t].req, data |-> local[t].data, back |-> local[t].back,
           id |-> local[t].id, text |-> text]
  BY <1>3 DEF Hands
<1>5. /\ l = [req |-> l.req, data |-> l.data, back |-> l.back, id |-> l.id, text |-> l.text]
      /\ l.back \in {"idle", "decide", "written", "named", "found", "fellback"}
      /\ t # Loop => l.back \notin {"written", "decide"}
  BY <1>3, <1>4 DEF Hands
<1> HIDE DEF l
<1> QED BY <1>1, <1>3, <1>5, Passes

\* A reload of the summarizer touches no more than the hands of its thread.
LEMMA ReloadStep ==
  ASSUME StoreInv, NEW t \in Thread, Reload(t)
  PROVE  StoreInv'
<1> DEFINE fresh(req) == [Fresh EXCEPT !.req = req]
<1>1. \A req : fresh(req) = [req |-> req, data |-> FactoryData("rcbc_v4"), back |-> "idle",
                             id |-> "default", text |-> Factory]
  BY DEF Fresh
<1>2. CASE ReadActive(t) \/ ReadProfile(t) \/ ReadFallback(t)
  BY <1>2, LoadStep DEF ReadActive, ReadProfile, ReadFallback
<1>3. ASSUME NEW id, TakeName(t, id) PROVE StoreInv'
  BY <1>3, TakeNameStep
<1>4. CASE SetModels(t)
  BY <1>4, SetModelsStep
<1>5. CASE SetPrompt(t)
  <2> DEFINE l == IF InBatch(t) THEN fresh(local[t].req) ELSE fresh(Reading)
             a == IF InBatch(t) THEN "batch"
                  ELSE IF local[t].req.kind = "reset" THEN "idle" ELSE "respond"
  <2>1. /\ UNCHANGED <<store, kept, lost>> /\ local' = [local EXCEPT ![t] = l]
        /\ at' = [at EXCEPT ![t] = a]
    <3>1. Fresh = fresh(Reading)
      BY DEF Fresh
    <3> QED BY <1>5, <3>1 DEF SetPrompt, Forget, ForgetAll, history
  <2>2. a \notin {"load", "decide", "open", "close"}
    OBVIOUS
  <2>3. l = [req |-> l.req, data |-> l.data, back |-> l.back, id |-> l.id, text |-> l.text] /\ l.back = "idle"
    BY <1>1
  <2> HIDE DEF l, a, fresh
  <2> QED BY <2>1, <2>2, <2>3, Passes
<1> QED BY <1>2, <1>3, <1>4, <1>5 DEF Reload, Named

LEMMA WrittenStep ==
  ASSUME StoreInv, Written
  PROVE  StoreInv'
<1>1. Loop \in Thread
  BY DEF Thread
<1>2. ASSUME NEW id, TakeName(Loop, id) PROVE StoreInv'
  BY <1>1, <1>2, TakeNameStep
<1>3. CASE at' = [at EXCEPT ![Loop] = "active"] /\ UNCHANGED <<store, local, history>>
  BY <1>1, <1>3, Stays DEF history
<1> QED BY <1>2, <1>3 DEF Written

LEMMA BatchStep ==
  ASSUME StoreInv, NEW t \in Thread, Complete(t) \/ CompleteByRules(t) \/ Fail(t)
  PROVE  StoreInv'
<1> DEFINE a == IF t = Loop THEN "idle" ELSE "finished"
<1>1. UNCHANGED <<store, kept, lost>> /\ at' = [at EXCEPT ![t] = a] /\ local' = ForgetAll(t)
  BY DEF Complete, CompleteByRules, Fail, End
<1>2. a \notin {"load", "decide", "open", "close"}
  OBVIOUS
<1> HIDE DEF a
<1> QED BY <1>1, <1>2, Forgets

LEMMA BlockingBatchStep ==
  ASSUME StoreInv, BlockingBatch
  PROVE  StoreInv'
<1> DEFINE l == [Fresh EXCEPT !.req = [kind |-> "batch"]]
<1>1. /\ Loop \in Thread /\ UNCHANGED <<store, kept, lost>>
      /\ at' = [at EXCEPT ![Loop] = "active"]
      /\ local' = [local EXCEPT ![Loop] = l]
  BY DEF BlockingBatch, Begin, FirstStep, Thread
<1>2. l = [req |-> [kind |-> "batch"], data |-> FactoryData("rcbc_v4"), back |-> "idle",
           id |-> "default", text |-> Factory]
  BY DEF Fresh
<1>3. l = [req |-> l.req, data |-> l.data, back |-> l.back, id |-> l.id, text |-> l.text]
      /\ l.back = "idle"
  BY <1>2
<1> HIDE DEF l
<1> QED BY <1>1, <1>3, Passes

\* What a kill leaves is the file; nobody has anything in hand.
LEMMA CrashStep ==
  ASSUME StoreInv, Crash
  PROVE  StoreInv'
<1>1. /\ at' = [t \in Thread |-> "idle"] /\ local' = [t \in Thread |-> Fresh]
      /\ clash' = {} /\ UNCHANGED <<disk, content, kept, lost>>
  BY DEF Crash
<1>2. \A t \in Thread : Hands(t, at'[t], local'[t])
  BY <1>1 DEF Hands, Restoring, Fresh
<1>3. \A t \in Thread : \A k, after : Honest(at'[t], local'[t], k, after)
  BY <1>1 DEF Honest, Restoring, Saving
<1>4. Writers' = {}
  BY <1>1 DEF Writers
<1>5. ~lost => FileTrue'
  BY <1>1, <1>3, <1>4 DEF StoreInv, FileTrue
<1> QED BY <1>1, <1>2, <1>5 DEF StoreInv

LEMMA StoreInit == Init => StoreInv
<1> SUFFICES ASSUME Init PROVE StoreInv
  OBVIOUS
<1>1. /\ at = [t \in Thread |-> "idle"] /\ local = [t \in Thread |-> Fresh]
      /\ clash = {} /\ content = OldData /\ kept = <<>> /\ lost = FALSE
  BY DEF Init
<1>2. \A t \in Thread : Hands(t, at[t], local[t])
  BY <1>1 DEF Hands, Restoring, Fresh
<1>3. \A t \in Thread : \A k, after : Honest(at[t], local[t], k, after)
  BY <1>1 DEF Honest, Restoring, Saving
<1>4. Writers = {}
  BY <1>1 DEF Writers
<1>5. Match(content.profiles, <<>>)
  <2>1. DOMAIN SystemProfiles \cap Custom = {}
    BY NothingKept DEF Match
  <2>2. OldData.profiles = Without(SystemProfiles, "rcbc_v2")
    BY DEF OldData
  <2>3. DOMAIN Without(SystemProfiles, "rcbc_v2") \subseteq DOMAIN SystemProfiles
    BY DEF Without
  <2> QED BY <1>1, <2>1, <2>2, <2>3 DEF Match
<1> QED BY <1>1, <1>2, <1>3, <1>4, <1>5 DEF StoreInv, FileTrue

LEMMA StoreNext == StoreInv /\ [Next]_vars => StoreInv'
<1> SUFFICES ASSUME StoreInv, [Next]_vars PROVE StoreInv'
  OBVIOUS
<1>1. Loop \in Thread /\ \A s \in Stream : s \in Thread
  BY DEF Thread
<1>2. ASSUME NEW req \in Request, Receive(req) PROVE StoreInv'
  BY <1>2, ReceiveStep
<1>3. CASE BlockingBatch
  BY <1>3, BlockingBatchStep
<1>4. CASE Endpoint
  <2>1. CASE LoadForChange
    BY <1>1, <2>1, LoadStep DEF LoadForChange
  <2>2. CASE Respond
    BY <1>1, <2>2, LoadStep DEF Respond
  <2> QED BY <1>4, <2>1, <2>2, DecideStep, WrittenStep DEF Endpoint
<1>5. CASE Crash
  BY <1>5, CrashStep
<1>6. ASSUME NEW t \in Thread, Work(t) PROVE StoreInv'
  <2>1. ASSUME NEW i \in Remark, Ask(t, i) \/ Return(t, i) \/ Raise(t, i) \/ NameRaised(t, i)
        PROVE StoreInv'
    BY <2>1, Elsewhere DEF Ask, Return, Raise, NameRaised, history
  <2> QED BY <1>6, <2>1, OpenStep, CloseStep, ReloadStep, BatchStep DEF Work
<1>7. ASSUME NEW s \in Stream, OpenStream(s) PROVE StoreInv'
  BY <1>1, <1>7, Stays DEF OpenStream, Begin, FirstStep
<1>8. ASSUME NEW s \in Stream, Pump(s) \/ Disconnect(s) PROVE StoreInv'
  BY <1>8, Elsewhere DEF Pump, RunCallback, Send, Disconnect, history
<1>9. CASE UNCHANGED vars
  BY <1>9, Elsewhere DEF vars, store
<1> QED BY <1>2, <1>3, <1>4, <1>5, <1>6, <1>7, <1>8, <1>9 DEF Next

\* The profiles users saved and did not delete are what the file holds, however
\* the loop, the workers' reloads and kills of the server interleave, until a load
\* has put the shipped profiles over a file (save_profile, delete_profile).
THEOREM CustomsAlwaysStand == Spec => []CustomsStand
<1>1. StoreInv => CustomsStand
  BY DEF StoreInv, FileTrue, Match, CustomsStand
<1> QED BY <1>1, StoreInit, StoreNext, PTL DEF Spec

-------------------------------------------------------------------------------
(* Event streams.  What a worker has posted is in pending, queue and sent, in    *)
(* this order: progress as often as calls are over, then one last message, then  *)
(* the end of the future.                                                       *)

Message == {"progress", "done"} \cup Terminal

Typed(st) ==
  /\ st = [pending |-> st.pending, queue |-> st.queue, sent |-> st.sent,
           done |-> st.done, client |-> st.client]
  /\ st.pending \in Seq(Message) /\ st.queue \in Seq(Message) /\ st.sent \in Seq(Message)

Progress(q) == \A n \in 1..Len(q) : q[n] = "progress"

\* What the client is told in all, n messages of which the last is e: every call
\* or none, and every one before the models' report.
Counted(e, n) ==
  /\ n \in {1, BatchSize + 1}
  /\ e = "complete" => n = BatchSize + 1

\* Progress, and then the last message.
Ends(q) ==
  /\ Len(q) >= 1 /\ q[Len(q)] \in Terminal
  /\ \A n \in 1..(Len(q) - 1) : q[n] = "progress"

\* The worker runs, and k of its calls are over.
Running(st, k) ==
  /\ Progress(st.sent) /\ Progress(st.queue) /\ Progress(st.pending)
  /\ Len(st.sent) + Len(st.queue) + Len(st.pending) = k

\* The loop has yet to put the last message into the queue.
Ending(st) ==
  /\ Progress(st.sent) /\ Progress(st.queue)
  /\ Len(st.pending) >= 2 /\ st.pending[Len(st.pending)] = "done"
  /\ st.pending[Len(st.pending) - 1] \in Terminal
  /\ \A n \in 1..(Len(st.pending) - 2) : st.pending[n] = "progress"
  /\ Counted(st.pending[Len(st.pending) - 1],
             Len(st.sent) + Len(st.queue) + Len(st.pending) - 1)

\* It has.
Queued(st) ==
  /\ Progress(st.sent) /\ Ends(st.queue)
  /\ Len(st.pending) <= 1 /\ \A n \in 1..Len(st.pending) : st.pending[n] = "done"
  /\ Counted(st.queue[Len(st.queue)], Len(st.sent) + Len(st.queue))

Closed(st) ==
  Ends(st.sent) /\ Counted(st.sent[Len(st.sent)], Len(st.sent))

Flow(a, st, k) ==
  /\ st.client = "open" => IF a = "finished" THEN Ending(st) \/ Queued(st) ELSE Running(st, k)
  /\ st.client = "closed" => Closed(st)
  /\ st.client \notin {"open", "closed"} => st.sent = <<>> /\ st.queue = <<>> /\ st.pending = <<>>

LEMMA NoStreamFlow == Typed(NoStream) /\ \A a, k : Flow(a, NoStream, k)
<1>1. <<>> \in Seq(Message)
  OBVIOUS
<1> QED BY <1>1 DEF NoStream, Typed, Flow

Extended(q, m, r) ==
  Len(r) = Len(q) + 1 /\ r[Len(q) + 1] = m /\ \A n \in 1..Len(q) : r[n] = q[n]

Shortened(q, r) ==
  Len(q) >= 1 /\ Len(r) = Len(q) - 1 /\ \A n \in 1..(Len(q) - 1) : r[n] = q[n + 1]

Lengths(st) == Len(st.sent) \in Nat /\ Len(st.queue) \in Nat /\ Len(st.pending) \in Nat

LEMMA AppendShape ==
  ASSUME NEW q \in Seq(Message), NEW m \in Message
  PROVE  Append(q, m) \in Seq(Message) /\ Extended(q, m, Append(q, m))
  BY DEF Extended

LEMMA TailShape ==
  ASSUME NEW q \in Seq(Message), q # <<>>
  PROVE  Tail(q) \in Seq(Message) /\ Head(q) \in Message /\ Head(q) = q[1] /\ Shortened(q, Tail(q))
  BY DEF Shortened

LEMMA ProgressShape ==
  ASSUME NEW q, NEW m, NEW r, Len(q) \in Nat, Progress(q), Extended(q, m, r)
  PROVE  /\ Len(r) = Len(q) + 1
         /\ m = "progress" => Progress(r)
         /\ m \in Terminal => Ends(r) /\ r[Len(r)] = m
  BY DEF Progress, Ends, Extended

LEMMA ProgressTail ==
  ASSUME NEW q, NEW r, Len(q) \in Nat, Progress(q), Shortened(q, r)
  PROVE  q[1] = "progress" /\ Progress(r)
<1>1. 1 \in 1..Len(q)
  BY DEF Shortened
<1>2. \A n \in 1..Len(r) : n + 1 \in 1..Len(q) /\ r[n] = q[n + 1]
  BY DEF Shortened
<1> QED BY <1>1, <1>2 DEF Progress

LEMMA DistinctMessages ==
  "progress" \notin Terminal /\ "done" \notin Terminal
  BY DEF Terminal

\* RunCallback: a message moves from the loop's callbacks to the queue.
LEMMA CallbackFlow ==
  ASSUME NEW a, NEW k \in Nat, NEW st, Lengths(st), Flow(a, st, k), st.client = "open",
         NEW new, new.client = st.client, new.sent = st.sent,
         Shortened(st.pending, new.pending),
         st.pending[1] = "done" => new.queue = st.queue,
         st.pending[1] # "done" => Extended(st.queue, st.pending[1], new.queue)
  PROVE  Flow(a, new, k)
<1> DEFINE p == st.pending  m == p[1]
<1>1. PICK ls \in Nat, lq \in Nat, lp \in Nat :
        Len(st.sent) = ls /\ Len(st.queue) = lq /\ Len(p) = lp
  BY DEF Lengths
<1>2. /\ lp >= 1 /\ Len(new.pending) = lp - 1 /\ Len(new.sent) = ls
      /\ \A n \in 1..(lp - 1) : new.pending[n] = p[n + 1]
  BY <1>1 DEF Shortened
<1>3. Progress(st.queue) /\ m # "done" =>
        /\ Len(new.queue) = lq + 1
        /\ m = "progress" => Progress(new.queue)
        /\ m \in Terminal => Ends(new.queue) /\ new.queue[lq + 1] = m
  <2> SUFFICES ASSUME Progress(st.queue), m # "done"
               PROVE  /\ Len(new.queue) = lq + 1
                      /\ m = "progress" => Progress(new.queue)
                      /\ m \in Terminal => Ends(new.queue) /\ new.queue[lq + 1] = m
    OBVIOUS
  <2>1. Extended(st.queue, m, new.queue)
    OBVIOUS
  <2> HIDE DEF m, p
  <2> QED BY <1>1, <2>1, ProgressShape
<1>4. CASE a # "finished"
  <2>1. Running(st, k)
    BY <1>4 DEF Flow
  <2>2. m = "progress"
    BY <1>1, <2>1, ProgressTail DEF Running
  <2>3. Progress(new.pending)
    BY <1>1, <2>1, ProgressTail DEF Running
  <2>4. Progress(new.queue) /\ Len(new.queue) = lq + 1
    BY <1>3, <2>1, <2>2 DEF Running
  <2>5. ls + lq + lp = k
    BY <1>1, <2>1 DEF Running
  <2>6. ls + (lq + 1) + (lp - 1) = k
    BY <2>5
  <2>7. Running(new, k)
    BY <1>2, <2>1, <2>3, <2>4, <2>6 DEF Running
  <2> QED BY <1>4, <2>7 DEF Flow
<1>5. CASE a = "finished" /\ Ending(st)
  <2>1. /\ Progress(st.sent) /\ Progress(st.queue) /\ lp >= 2
        /\ p[lp] = "done" /\ p[lp - 1] \in Terminal
        /\ \A n \in 1..(lp - 2) : p[n] = "progress"
        /\ Counted(p[lp - 1], ls + lq + lp - 1)
    BY <1>1, <1>5 DEF Ending
  <2>2. CASE lp = 2
    <3>1. m \in Terminal /\ m # "done" /\ Counted(m, ls + lq + lp - 1)
      BY <2>1, <2>2, DistinctMessages
    <3>2. Len(new.pending) = 1 /\ new.pending[1] = "done"
      BY <1>2, <2>1, <2>2
    <3>3. Ends(new.queue) /\ new.queue[lq + 1] = m /\ Len(new.queue) = lq + 1
      BY <1>3, <2>1, <3>1
    <3>4. ls + lq + lp - 1 = ls + (lq + 1)
      BY <2>2
    <3>5. Queued(new)
      BY <1>2, <2>1, <3>1, <3>2, <3>3, <3>4 DEF Queued
    <3> QED BY <1>5, <3>5 DEF Flow
  <2>3. CASE lp > 2
    <3>1. m = "progress" /\ m # "done"
      BY <2>1, <2>3
    <3>2. Progress(new.queue) /\ Len(new.queue) = lq + 1
      BY <1>3, <2>1, <3>1
    <3>3. /\ new.pending[lp - 1] = "done" /\ new.pending[(lp - 1) - 1] = p[lp - 1]
          /\ lp - 1 >= 2
          /\ \A n \in 1..((lp - 1) - 2) : new.pending[n] = "progress"
      <4>1. lp - 1 \in 1..(lp - 1) /\ (lp - 1) + 1 = lp /\ lp - 1 >= 2
        BY <2>3
      <4>2. new.pending[lp - 1] = p[lp]
        BY <1>2, <4>1
      <4>3. (lp - 1) - 1 \in 1..(lp - 1) /\ ((lp - 1) - 1) + 1 = lp - 1
        BY <2>3
      <4>4. new.pending[(lp - 1) - 1] = p[lp - 1]
        BY <1>2, <4>3
      <4>5. \A n \in 1..((lp - 1) - 2) : n \in 1..(lp - 1) /\ n + 1 \in 1..(lp - 2)
        BY <2>3
      <4>6. \A n \in 1..((lp - 1) - 2) : new.pending[n] = p[n + 1]
        BY <1>2, <4>5
      <4>7. \A n \in 1..((lp - 1) - 2) : new.pending[n] = "progress"
        BY <2>1, <4>5, <4>6
      <4> QED BY <2>1, <4>1, <4>2, <4>4, <4>7
    <3>4. ls + (lq + 1) + (lp - 1) - 1 = ls + lq + lp - 1
      OBVIOUS
    <3>5. Ending(new)
      BY <1>2, <2>1, <3>2, <3>3, <3>4 DEF Ending
    <3> QED BY <1>5, <3>5 DEF Flow
  <2> QED BY <2>1, <2>2, <2>3
<1>6. CASE a = "finished" /\ Queued(st)
  <2>1. lp <= 1 /\ \A n \in 1..lp : p[n] = "done"
    BY <1>1, <1>6 DEF Queued
  <2>2. lp = 1 /\ m = "done"
    BY <1>2, <2>1
  <2>3. Len(new.pending) = 0 /\ new.queue = st.queue
    BY <1>2, <2>2
  <2>4. Progress(new.sent) /\ Ends(new.queue)
        /\ Counted(new.queue[Len(new.queue)], Len(new.sent) + Len(new.queue))
    BY <1>6, <2>3 DEF Queued
  <2>5. Len(new.pending) <= 1 /\ \A n \in 1..Len(new.pending) : new.pending[n] = "done"
    BY <2>3
  <2>6. Queued(new)
    BY <2>4, <2>5 DEF Queued
  <2> QED BY <1>6, <2>6 DEF Flow
<1> QED BY <1>4, <1>5, <1>6 DEF Flow

\* Send: a message moves from the queue to the client; the last one closes.
LEMMA SendFlow ==
  ASSUME NEW a, NEW k \in Nat, NEW st, Lengths(st), Flow(a, st, k), st.client = "open",
         NEW new, new.pending = st.pending,
         Shortened(st.queue, new.queue), Extended(st.sent, st.queue[1], new.sent),
         new.client = IF st.queue[1] \in Terminal THEN "closed" ELSE st.client
  PROVE  Flow(a, new, k)
<1> DEFINE q == st.queue  m == q[1]
<1>1. PICK ls \in Nat, lq \in Nat, lp \in Nat :
        Len(st.sent) = ls /\ Len(q) = lq /\ Len(st.pending) = lp
  BY DEF Lengths
<1>2. /\ lq >= 1 /\ Len(new.queue) = lq - 1 /\ Len(new.pending) = lp
      /\ \A n \in 1..(lq - 1) : new.queue[n] = q[n + 1]
  BY <1>1 DEF Shortened
<1>3. Progress(st.sent)
  BY DEF Flow, Running, Ending, Queued
<1>4. /\ Len(new.sent) = ls + 1
      /\ m = "progress" => Progress(new.sent)
      /\ m \in Terminal => Ends(new.sent) /\ new.sent[ls + 1] = m
  BY <1>1, <1>3, ProgressShape
<1>5. new.client = IF m \in Terminal THEN "closed" ELSE "open"
  OBVIOUS
<1>6. (ls + 1) + (lq - 1) = ls + lq
  OBVIOUS
<1>7. ASSUME Progress(q)
      PROVE  new.client = "open" /\ Progress(new.queue) /\ Progress(new.sent)
  <2>1. m = "progress"
    BY <1>1, <1>7, ProgressTail
  <2>2. Progress(new.queue)
    BY <1>1, <1>7, ProgressTail
  <2> QED BY <1>4, <1>5, <2>1, <2>2, DistinctMessages
<1>8. CASE a # "finished"
  <2>1. Running(st, k) /\ ls + lq + lp = k
    BY <1>1, <1>8 DEF Flow, Running
  <2>2. new.client = "open" /\ Progress(new.queue) /\ Progress(new.sent)
    BY <1>7, <2>1 DEF Running
  <2>3. (ls + 1) + (lq - 1) + lp = k
    BY <2>1
  <2>4. Running(new, k)
    BY <1>2, <1>4, <2>1, <2>2, <2>3 DEF Running
  <2> QED BY <1>8, <2>2, <2>4 DEF Flow
<1>9. CASE a = "finished" /\ Ending(st)
  <2>1. Progress(new.queue) /\ Progress(new.sent) /\ new.client = "open"
    BY <1>7, <1>9 DEF Ending
  <2>2. Counted(st.pending[lp - 1], ls + lq + lp - 1)
    BY <1>1, <1>9 DEF Ending
  <2>3. (ls + 1) + (lq - 1) + lp - 1 = ls + lq + lp - 1
    OBVIOUS
  <2>4. Ending(new)
    BY <1>1, <1>2, <1>4, <1>9, <2>1, <2>2, <2>3 DEF Ending
  <2> QED BY <1>9, <2>1, <2>4 DEF Flow
<1>10. CASE a = "finished" /\ Queued(st)
  <2>1. /\ q[lq] \in Terminal /\ Counted(q[lq], ls + lq)
        /\ \A n \in 1..(lq - 1) : q[n] = "progress"
        /\ lp <= 1 /\ \A n \in 1..lp : st.pending[n] = "done"
    BY <1>1, <1>10 DEF Queued, Ends
  <2>2. CASE lq = 1
    <3>1. m \in Terminal /\ Counted(m, ls + 1)
      BY <2>1, <2>2
    <3>2. Closed(new) /\ new.client = "closed"
      BY <1>4, <1>5, <3>1 DEF Closed
    <3> QED BY <3>2 DEF Flow
  <2>3. CASE lq > 1
    <3>1. m = "progress"
      BY <2>1, <2>3
    <3>2. new.client = "open" /\ Progress(new.sent)
      BY <1>4, <1>5, <3>1, DistinctMessages
    <3>3. /\ lq - 1 >= 1 /\ new.queue[lq - 1] = q[lq]
          /\ \A n \in 1..((lq - 1) - 1) : new.queue[n] = "progress"
      <4>1. lq - 1 \in 1..(lq - 1) /\ (lq - 1) + 1 = lq /\ lq - 1 >= 1
        BY <2>3
      <4>2. new.queue[lq - 1] = q[lq]
        BY <1>2, <4>1
      <4>3. \A n \in 1..((lq - 1) - 1) : n \in 1..(lq - 1) /\ n + 1 \in 1..(lq - 1)
        BY <2>3
      <4>4. \A n \in 1..((lq - 1) - 1) : new.queue[n] = q[n + 1]
        BY <1>2, <4>3
      <4>5. \A n \in 1..((lq - 1) - 1) : new.queue[n] = "progress"
        BY <2>1, <4>3, <4>4
      <4> QED BY <4>1, <4>2, <4>5
    <3>4. Ends(new.queue)
      BY <1>2, <2>1, <3>3 DEF Ends
    <3>5. Queued(new)
      BY <1>2, <1>4, <1>6, <2>1, <3>2, <3>3, <3>4 DEF Queued
    <3> QED BY <1>10, <3>2, <3>5 DEF Flow
  <2> QED BY <1>2, <2>2, <2>3
<1> QED BY <1>8, <1>9, <1>10 DEF Flow

\* A worker tells of one more row, ...
LEMMA ProgressFlow ==
  ASSUME NEW k \in Nat, NEW st, Lengths(st), Running(st, k),
         NEW new, new.sent = st.sent, new.queue = st.queue,
         Extended(st.pending, "progress", new.pending)
  PROVE  Running(new, k + 1)
<1>1. PICK ls \in Nat, lq \in Nat, lp \in Nat :
        Len(st.sent) = ls /\ Len(st.queue) = lq /\ Len(st.pending) = lp
  BY DEF Lengths
<1>2. Progress(new.pending) /\ Len(new.pending) = lp + 1
  BY <1>1, ProgressShape DEF Running
<1>3. ls + lq + lp = k
  BY <1>1 DEF Running
<1>4. ls + lq + (lp + 1) = k + 1
  BY <1>3
<1> QED BY <1>1, <1>2, <1>4 DEF Running

\* ... or of the end.
LEMMA EndFlow ==
  ASSUME NEW k \in Nat, NEW st, Lengths(st), Running(st, k), NEW e \in Terminal,
         Counted(e, k + 1),
         NEW mid, Extended(st.pending, e, mid),
         NEW new, new.sent = st.sent, new.queue = st.queue, Extended(mid, "done", new.pending)
  PROVE  Ending(new)
<1>1. PICK ls \in Nat, lq \in Nat, lp \in Nat :
        Len(st.sent) = ls /\ Len(st.queue) = lq /\ Len(st.pending) = lp
  BY DEF Lengths
<1>2. /\ Len(mid) = lp + 1 /\ mid[lp + 1] = e
      /\ \A n \in 1..lp : mid[n] = st.pending[n]
  BY <1>1 DEF Extended
<1>3. /\ Len(new.pending) = lp + 2 /\ new.pending[lp + 2] = "done"
      /\ \A n \in 1..(lp + 1) : new.pending[n] = mid[n]
  <2>1. (lp + 1) + 1 = lp + 2
    OBVIOUS
  <2> QED BY <1>2, <2>1 DEF Extended
<1>4. \A n \in 1..lp : st.pending[n] = "progress"
  BY <1>1 DEF Running, Progress
<1>5. ls + lq + lp = k
  BY <1>1 DEF Running
<1>6. /\ (lp + 2) - 1 = lp + 1 /\ (lp + 2) - 2 = lp /\ lp + 2 >= 2
      /\ lp + 1 \in 1..(lp + 1) /\ \A n \in 1..lp : n \in 1..(lp + 1)
  OBVIOUS
<1>7. new.pending[lp + 1] = e /\ \A n \in 1..lp : new.pending[n] = "progress"
  BY <1>2, <1>3, <1>4, <1>6
<1>8. ls + lq + (lp + 2) - 1 = k + 1
  BY <1>5
<1>9. Progress(new.sent) /\ Progress(new.queue) /\ Len(new.sent) = ls /\ Len(new.queue) = lq
  BY <1>1 DEF Running
<1> QED BY <1>3, <1>6, <1>7, <1>8, <1>9 DEF Ending
-------------------------------------------------------------------------------
\* The calls whose end the worker has told.
Heard(t) == {i \in Remark : row[t][i].stage \in {"told", "raised"}}

\* Rows are waiting outside a batch, so a stream begins with nothing told.
Rows ==
  /\ row = [t \in Thread |-> row[t]]
  /\ \A t \in Thread :
       /\ row[t] = [i \in Remark |-> row[t][i]]
       /\ \A i \in Remark :
            DOMAIN row[t][i] = {"stage", "models", "prompt", "label"}
  /\ \A s \in Stream, i \in Remark : at[s] # "batch" => row[s][i].stage = "waiting"

Streams ==
  /\ stream = [s \in Stream |-> stream[s]]
  /\ \A s \in Stream : Typed(stream[s]) /\ Flow(at[s], stream[s], Cardinality(Heard(s)))

StreamInv == Rows /\ Streams

LEMMA HeardFinite == \A t : IsFiniteSet(Heard(t)) /\ Cardinality(Heard(t)) \in Nat
<1> TAKE t
<1>1. IsFiniteSet(Remark)
  BY FS_Interval, ServerAssumption DEF Remark
<1>2. Heard(t) \subseteq Remark
  BY DEF Heard
<1> QED BY <1>1, <1>2, FS_Subset, FS_CardinalityType

LEMMA TypedLengths ==
  ASSUME NEW st, Typed(st)
  PROVE  Lengths(st)
  BY DEF Typed, Lengths

\* No more is told, and no worker begins or ends its batch.
LEMMA Unheard ==
  ASSUME StreamInv, UNCHANGED <<row, stream>>,
         \A s \in Stream : /\ at'[s] = "finished" <=> at[s] = "finished"
                           /\ at'[s] # "batch" => at[s] # "batch"
  PROVE  StreamInv'
<1>1. \A s : Heard(s)' = Heard(s)
  BY DEF Heard
<1>2. Rows'
  BY DEF StreamInv, Rows
<1>3. ASSUME NEW s \in Stream
      PROVE  Flow(at'[s], stream'[s], Cardinality(Heard(s)')) /\ Typed(stream'[s])
  BY <1>1 DEF StreamInv, Streams, Flow
<1> QED BY <1>2, <1>3 DEF StreamInv, Streams

\* A step of one stream's generator or client.
LEMMA OneStream ==
  ASSUME StreamInv, NEW s \in Stream, UNCHANGED <<row, at>>, NEW new,
         stream' = [stream EXCEPT ![s] = new], Typed(new), Flow(at[s], new, Cardinality(Heard(s)))
  PROVE  StreamInv'
<1>1. \A u : Heard(u)' = Heard(u)
  BY DEF Heard
<1>2. Rows'
  BY DEF StreamInv, Rows
<1>3. stream'[s] = new /\ \A u \in Stream : u # s => stream'[u] = stream[u]
  BY DEF StreamInv, Streams
<1>4. ASSUME NEW u \in Stream
      PROVE  Flow(at'[u], stream'[u], Cardinality(Heard(u)')) /\ Typed(stream'[u])
  BY <1>1, <1>3 DEF StreamInv, Streams
<1>5. stream' = [u \in Stream |-> stream'[u]]
  BY DEF StreamInv, Streams
<1> QED BY <1>2, <1>4, <1>5 DEF StreamInv, Streams

Of(p, q, n, d, c) == [pending |-> p, queue |-> q, sent |-> n, done |-> d, client |-> c]

LEMMA RunCallbackStep ==
  ASSUME StreamInv, NEW s \in Stream, RunCallback(s)
  PROVE  StreamInv'
<1> DEFINE st == stream[s]
           m == Head(st.pending)
           new == [pending |-> Tail(st.pending),
                   queue |-> IF m = "done" THEN st.queue ELSE Append(st.queue, m),
                   sent |-> st.sent, done |-> st.done \/ m = "done", client |-> st.client]
<1>1. Typed(st) /\ Flow(at[s], st, Cardinality(Heard(s))) /\ st.client = "open" /\ st.pending # <<>>
  BY DEF RunCallback, StreamInv, Streams
<1>2. st.pending \in Seq(Message) /\ st.queue \in Seq(Message) /\ st.sent \in Seq(Message)
  BY <1>1 DEF Typed
<1>3. stream' = [stream EXCEPT ![s] = new]
  <2>1. [st EXCEPT !.pending = Tail(@),
                   !.queue = IF m = "done" THEN @ ELSE Append(@, m),
                   !.done = @ \/ m = "done"] = new
    <3> DEFINE p == Tail(st.pending)
               q == IF m = "done" THEN st.queue ELSE Append(st.queue, m)
               d == st.done \/ m = "done"
    <3>1. new = Of(p, q, st.sent, d, st.client)
      BY DEF Of
    <3> HIDE DEF new, p, q, d
    <3>2. st = Of(st.pending, st.queue, st.sent, st.done, st.client)
      BY <1>1 DEF Typed, Of
    <3> HIDE DEF st
    <3>3. [st EXCEPT !.pending = p] = Of(p, st.queue, st.sent, st.done, st.client)
      BY <3>2 DEF Of
    <3>4. [Of(p, st.queue, st.sent, st.done, st.client) EXCEPT !.queue = q]
             = Of(p, q, st.sent, st.done, st.client)
      BY DEF Of
    <3>5. [Of(p, q, st.sent, st.done, st.client) EXCEPT !.done = d] = new
      BY <3>1 DEF Of
    <3>6. [st EXCEPT !.pending = p, !.queue = q, !.done = d]
             = [[[st EXCEPT !.pending = p] EXCEPT !.queue = q] EXCEPT !.done = d]
      OBVIOUS
    <3>7. [st EXCEPT !.pending = p, !.queue = q, !.done = d] = new
      BY <3>3, <3>4, <3>5, <3>6
    <3> QED BY <3>7 DEF p, q, d
  <2>2. stream' = [stream EXCEPT ![s] = [st EXCEPT !.pending = Tail(@),
                                           !.queue = IF m = "done" THEN @ ELSE Append(@, m),
                                           !.done = @ \/ m = "done"]]
    BY DEF RunCallback
  <2> QED BY <2>1, <2>2
<1>4. /\ Tail(st.pending) \in Seq(Message) /\ m \in Message /\ m = st.pending[1]
      /\ Shortened(st.pending, Tail(st.pending))
  BY <1>1, <1>2, TailShape
<1>5. Append(st.queue, m) \in Seq(Message) /\ Extended(st.queue, m, Append(st.queue, m))
  BY <1>2, <1>4, AppendShape
<1>6. Typed(new)
  BY <1>2, <1>4, <1>5 DEF Typed
<1>7. /\ new.client = st.client /\ new.sent = st.sent /\ new.pending = Tail(st.pending)
      /\ st.pending[1] = "done" => new.queue = st.queue
      /\ st.pending[1] # "done" => Extended(st.queue, st.pending[1], new.queue)
  BY <1>4, <1>5
<1> HIDE DEF new
<1>8. Flow(at[s], new, Cardinality(Heard(s)))
  BY <1>1, <1>4, <1>7, HeardFinite, TypedLengths, CallbackFlow
<1> QED BY <1>3, <1>6, <1>8, OneStream DEF RunCallback, history

LEMMA SendStep ==
  ASSUME StreamInv, NEW s \in Stream, Send(s)
  PROVE  StreamInv'
<1> DEFINE st == stream[s]
           m == Head(st.queue)
           new == [pending |-> st.pending, queue |-> Tail(st.queue), sent |-> Append(st.sent, m),
                   done |-> st.done, client |-> IF m \in Terminal THEN "closed" ELSE st.client]
<1>1. Typed(st) /\ Flow(at[s], st, Cardinality(Heard(s))) /\ st.client = "open" /\ st.queue # <<>>
  BY DEF Send, StreamInv, Streams
<1>2. st.pending \in Seq(Message) /\ st.queue \in Seq(Message) /\ st.sent \in Seq(Message)
  BY <1>1 DEF Typed
<1>3. stream' = [stream EXCEPT ![s] = new]
  <2>1. [st EXCEPT !.queue = Tail(@), !.sent = Append(@, m),
                   !.client = IF m \in Terminal THEN "closed" ELSE @] = new
    <3> DEFINE q == Tail(st.queue)
               n == Append(st.sent, m)
               c == IF m \in Terminal THEN "closed" ELSE st.client
    <3>1. new = Of(st.pending, q, n, st.done, c)
      BY DEF Of
    <3> HIDE DEF new, q, n, c
    <3>2. st = Of(st.pending, st.queue, st.sent, st.done, st.client)
      BY <1>1 DEF Typed, Of
    <3> HIDE DEF st
    <3>3. [st EXCEPT !.queue = q] = Of(st.pending, q, st.sent, st.done, st.client)
      BY <3>2 DEF Of
    <3>4. [Of(st.pending, q, st.sent, st.done, st.client) EXCEPT !.sent = n]
             = Of(st.pending, q, n, st.done, st.client)
      BY DEF Of
    <3>5. [Of(st.pending, q, n, st.done, st.client) EXCEPT !.client = c] = new
      BY <3>1 DEF Of
    <3>6. [st EXCEPT !.queue = q, !.sent = n, !.client = c]
             = [[[st EXCEPT !.queue = q] EXCEPT !.sent = n] EXCEPT !.client = c]
      OBVIOUS
    <3>7. [st EXCEPT !.queue = q, !.sent = n, !.client = c] = new
      BY <3>3, <3>4, <3>5, <3>6
    <3> QED BY <3>7 DEF q, n, c
  <2>2. stream' = [stream EXCEPT ![s] = [st EXCEPT !.queue = Tail(@), !.sent = Append(@, m),
                                           !.client = IF m \in Terminal THEN "closed" ELSE @]]
    BY DEF Send
  <2> QED BY <2>1, <2>2
<1>4. /\ Tail(st.queue) \in Seq(Message) /\ m \in Message /\ m = st.queue[1]
      /\ Shortened(st.queue, Tail(st.queue))
  BY <1>1, <1>2, TailShape
<1>5. Append(st.sent, m) \in Seq(Message) /\ Extended(st.sent, m, Append(st.sent, m))
  BY <1>2, <1>4, AppendShape
<1>6. Typed(new)
  BY <1>2, <1>4, <1>5 DEF Typed
<1>7. /\ new.pending = st.pending /\ Shortened(st.queue, new.queue)
      /\ Extended(st.sent, st.queue[1], new.sent)
      /\ new.client = IF st.queue[1] \in Terminal THEN "closed" ELSE st.client
  BY <1>4, <1>5
<1> HIDE DEF new
<1>8. Flow(at[s], new, Cardinality(Heard(s)))
  BY <1>1, <1>7, HeardFinite, TypedLengths, SendFlow
<1> QED BY <1>3, <1>6, <1>8, OneStream DEF Send, history

LEMMA DisconnectStep ==
  ASSUME StreamInv, NEW s \in Stream, Disconnect(s)
  PROVE  StreamInv'
<1> DEFINE new == [NoStream EXCEPT !.client = "gone"]
<1>1. new = [pending |-> <<>>, queue |-> <<>>, sent |-> <<>>, done |-> FALSE, client |-> "gone"]
  <2> DEFINE f == FALSE
  <2>1. NoStream = Of(<<>>, <<>>, <<>>, f, "none")
    BY DEF NoStream, Of
  <2> HIDE DEF f
  <2>2. [NoStream EXCEPT !.client = "gone"] = Of(<<>>, <<>>, <<>>, f, "gone")
    BY <2>1 DEF Of
  <2> QED BY <2>2 DEF Of, f
<1>2. Typed(new) /\ Flow(at[s], new, Cardinality(Heard(s)))
  <2>1. <<>> \in Seq(Message)
    OBVIOUS
  <2> QED BY <1>1, <2>1 DEF Typed, Flow
<1>3. UNCHANGED <<row, at>> /\ stream' = [stream EXCEPT ![s] = new]
  BY DEF Disconnect
<1> HIDE DEF new
<1> QED BY <1>2, <1>3, OneStream

\* Remark i of the batch of t is r from now on.
IsRow(r) == DOMAIN r = {"stage", "models", "prompt", "label"}

RowSet(t, i, r) == row' = [row EXCEPT ![t][i] = r]

LEMMA RowChanges ==
  ASSUME StreamInv, NEW t \in Thread, NEW i \in Remark, at[t] = "batch", at' = at,
         NEW r, IsRow(r), RowSet(t, i, r)
  PROVE  /\ Rows' /\ row'[t][i] = r
         /\ \A u \in Thread, j \in Remark : (u # t \/ j # i) => row'[u][j] = row[u][j]
<1> USE DEF IsRow, RowSet
<1>1. /\ row = [u \in Thread |-> row[u]]
      /\ \A u \in Thread : row[u] = [j \in Remark |-> row[u][j]]
      /\ \A u \in Thread, j \in Remark :
           DOMAIN row[u][j] = {"stage", "models", "prompt", "label"}
      /\ \A s \in Stream, j \in Remark : at[s] # "batch" => row[s][j].stage = "waiting"
  BY DEF StreamInv, Rows
<1>2. /\ row' = [u \in Thread |-> row'[u]]
      /\ row'[t] = [row[t] EXCEPT ![i] = r]
      /\ \A u \in Thread : u # t => row'[u] = row[u]
  BY <1>1
<1>3. /\ row'[t] = [j \in Remark |-> row'[t][j]] /\ row'[t][i] = r
      /\ \A j \in Remark : j # i => row'[t][j] = row[t][j]
  BY <1>1, <1>2
<1>4. \A u \in Thread, j \in Remark : (u # t \/ j # i) => row'[u][j] = row[u][j]
  BY <1>2, <1>3
<1>5. \A u \in Thread : row'[u] = [j \in Remark |-> row'[u][j]]
  BY <1>1, <1>2, <1>3
<1>6. \A u \in Thread, j \in Remark : DOMAIN row'[u][j] = {"stage", "models", "prompt", "label"}
  BY <1>1, <1>3, <1>4
<1>7. \A s \in Stream, j \in Remark : at'[s] # "batch" => row'[s][j].stage = "waiting"
  BY <1>1, <1>2 DEF Thread
<1> QED BY <1>2, <1>3, <1>4, <1>5, <1>6, <1>7 DEF Rows

LEMMA AskStep ==
  ASSUME StreamInv, NEW t \in Thread, NEW i \in Remark, Ask(t, i)
  PROVE  StreamInv'
<1> DEFINE r == [NoRow EXCEPT !.stage = "asked", !.models = engine.models, !.prompt = engine.prompt]
<1>1. /\ at[t] = "batch" /\ row[t][i].stage = "waiting"
      /\ row' = [row EXCEPT ![t][i] = r] /\ UNCHANGED <<at, stream>>
  BY DEF Ask, history
<1>2. DOMAIN r = {"stage", "models", "prompt", "label"} /\ r.stage = "asked"
  BY DEF NoRow
<1> HIDE DEF r
<1>3. /\ Rows' /\ row'[t][i] = r
      /\ \A u \in Thread, j \in Remark : (u # t \/ j # i) => row'[u][j] = row[u][j]
  <2>1. IsRow(r) /\ RowSet(t, i, r) /\ at' = at
    BY <1>1, <1>2 DEF IsRow, RowSet
  <2> QED BY <1>1, <2>1, RowChanges
<1>4. \A u \in Thread : Heard(u)' = Heard(u)
  BY <1>1, <1>2, <1>3 DEF Heard
<1>5. Streams'
  BY <1>1, <1>4 DEF StreamInv, Streams, Thread
<1> QED BY <1>3, <1>5 DEF StreamInv

\* A call is over, and the worker tells of it.
LEMMA TellStep ==
  ASSUME StreamInv, NEW t \in Thread, NEW i \in Remark, at[t] = "batch", at' = at,
         row[t][i].stage = "asked", NEW r, IsRow(r), r.stage \in {"told", "raised"},
         RowSet(t, i, r), stream' = Post(t, <<"progress">>)
  PROVE  StreamInv'
<1> DEFINE st == stream[t]
           new == [pending |-> st.pending \o <<"progress">>, queue |-> st.queue,
                   sent |-> st.sent, done |-> st.done, client |-> st.client]
<1>1. at[t] = "batch" /\ UNCHANGED at /\ stream' = Post(t, <<"progress">>)
  OBVIOUS
<1>5. /\ Rows' /\ row'[t][i] = r
      /\ \A u \in Thread, j \in Remark : (u # t \/ j # i) => row'[u][j] = row[u][j]
  BY RowChanges
<1>6. i \notin Heard(t) /\ Heard(t)' = Heard(t) \cup {i} /\ \A u \in Thread : u # t => Heard(u)' = Heard(u)
  <2>1. i \notin Heard(t)
    BY DEF Heard
  <2>2. Heard(t)' = Heard(t) \cup {i}
    BY <1>5 DEF Heard
  <2>3. \A u \in Thread : u # t => Heard(u)' = Heard(u)
    BY <1>5 DEF Heard
  <2> QED BY <2>1, <2>2, <2>3
<1>7. Cardinality(Heard(t)') = Cardinality(Heard(t)) + 1
  BY <1>6, HeardFinite, FS_AddElement
<1>8. CASE t \in Stream /\ st.client = "open"
  <2>1. Typed(st) /\ Flow(at[t], st, Cardinality(Heard(t)))
    BY <1>8 DEF StreamInv, Streams
  <2>2. Running(st, Cardinality(Heard(t)))
    BY <1>1, <1>8, <2>1 DEF Flow
  <2>3. st.pending \in Seq(Message) /\ "progress" \in Message
    BY <2>1 DEF Typed, Message
  <2>4. st.pending \o <<"progress">> = Append(st.pending, "progress")
    BY <2>3
  <2>5. Append(st.pending, "progress") \in Seq(Message)
        /\ Extended(st.pending, "progress", Append(st.pending, "progress"))
    BY <2>3, AppendShape
  <2>6. stream' = [stream EXCEPT ![t] = new]
    <3>1. stream' = [stream EXCEPT ![t].pending = @ \o <<"progress">>]
      BY <1>1, <1>8 DEF Post
    <3>2. [st EXCEPT !.pending = @ \o <<"progress">>] = new
      <4> DEFINE p == st.pending \o <<"progress">>
      <4>1. new = Of(p, st.queue, st.sent, st.done, st.client)
        BY DEF Of
      <4> HIDE DEF new, p
      <4>2. [st EXCEPT !.pending = p] = new
        BY <2>1, <4>1 DEF Typed, Of
      <4> QED BY <4>2 DEF p
    <3> QED BY <3>1, <3>2
  <2>7. Typed(new)
    BY <2>1, <2>4, <2>5 DEF Typed
  <2>8. new.pending = Append(st.pending, "progress") /\ new.sent = st.sent
        /\ new.queue = st.queue /\ new.client = "open"
    BY <1>8, <2>4
  <2> HIDE DEF new
  <2>9. Running(new, Cardinality(Heard(t)) + 1)
    BY <2>1, <2>2, <2>5, <2>8, HeardFinite, TypedLengths, ProgressFlow
  <2>10. Flow(at[t], new, Cardinality(Heard(t)) + 1)
    BY <1>1, <2>8, <2>9 DEF Flow
  <2>11. /\ stream' = [s \in Stream |-> stream'[s]] /\ stream'[t] = new
         /\ \A s \in Stream : s # t => stream'[s] = stream[s]
    BY <1>8, <2>6 DEF StreamInv, Streams
  <2>12. ASSUME NEW s \in Stream
         PROVE  Typed(stream'[s]) /\ Flow(at'[s], stream'[s], Cardinality(Heard(s)'))
    BY <1>1, <1>6, <1>7, <2>7, <2>10, <2>11 DEF StreamInv, Streams, Thread
  <2> QED BY <1>5, <2>11, <2>12 DEF StreamInv, Streams
<1>9. CASE ~(t \in Stream /\ st.client = "open")
  <2>1. stream' = stream
    BY <1>1, <1>9 DEF Post
  <2>2. ASSUME NEW s \in Stream
        PROVE  Typed(stream'[s]) /\ Flow(at'[s], stream'[s], Cardinality(Heard(s)'))
    BY <1>1, <1>6, <1>9, <2>1 DEF StreamInv, Streams, Flow, Thread
  <2> QED BY <1>5, <2>1, <2>2 DEF StreamInv, Streams
<1> QED BY <1>8, <1>9

LEMMA ReturnStep ==
  ASSUME StreamInv, NEW t \in Thread, NEW i \in Remark, Return(t, i)
  PROVE  StreamInv'
<1> DEFINE r == [row[t][i] EXCEPT !.stage = "told", !.label = engine.id]
<1>1. /\ DOMAIN row[t][i] = {"stage", "models", "prompt", "label"}
      /\ row = [u \in Thread |-> row[u]] /\ row[t] = [j \in Remark |-> row[t][j]]
  BY DEF StreamInv, Rows
<1>2. row' = [row EXCEPT ![t][i] = r]
  <2>1. row' = [row EXCEPT ![t][i].stage = "told", ![t][i].label = engine.id]
    BY DEF Return
  <2> QED BY <1>1, <2>1
<1>3. IsRow(r) /\ r.stage = "told"
  BY <1>1 DEF IsRow
<1> HIDE DEF r
<1>4. RowSet(t, i, r)
  BY <1>2 DEF RowSet
<1>5. /\ at[t] = "batch" /\ row[t][i].stage = "asked" /\ at' = at
      /\ stream' = Post(t, <<"progress">>)
  BY DEF Return, Tell
<1> QED BY <1>3, <1>4, <1>5, TellStep

LEMMA RaiseStep ==
  ASSUME StreamInv, NEW t \in Thread, NEW i \in Remark, Raise(t, i)
  PROVE  StreamInv'
<1> DEFINE r == [row[t][i] EXCEPT !.stage = "raised"]
<1>1. /\ DOMAIN row[t][i] = {"stage", "models", "prompt", "label"}
      /\ row = [u \in Thread |-> row[u]] /\ row[t] = [j \in Remark |-> row[t][j]]
  BY DEF StreamInv, Rows
<1>2. row' = [row EXCEPT ![t][i] = r]
  <2>1. row' = [row EXCEPT ![t][i].stage = "raised"]
    BY DEF Raise
  <2> QED BY <1>1, <2>1
<1>3. IsRow(r) /\ r.stage = "raised"
  BY <1>1 DEF IsRow
<1> HIDE DEF r
<1>4. RowSet(t, i, r)
  BY <1>2 DEF RowSet
<1>5. /\ at[t] = "batch" /\ row[t][i].stage = "asked" /\ at' = at
      /\ stream' = Post(t, <<"progress">>)
  BY DEF Raise, Tell
<1> QED BY <1>3, <1>4, <1>5, TellStep

\* The answer of a call that raised is named, which nobody is told.
LEMMA NameRaisedStep ==
  ASSUME StreamInv, NEW t \in Thread, NEW i \in Remark, NameRaised(t, i)
  PROVE  StreamInv'
<1> DEFINE r == [row[t][i] EXCEPT !.stage = "told", !.label = engine.id]
<1>1. /\ DOMAIN row[t][i] = {"stage", "models", "prompt", "label"}
      /\ row = [u \in Thread |-> row[u]] /\ row[t] = [j \in Remark |-> row[t][j]]
  BY DEF StreamInv, Rows
<1>2. row' = [row EXCEPT ![t][i] = r]
  <2>1. row' = [row EXCEPT ![t][i].stage = "told", ![t][i].label = engine.id]
    BY DEF NameRaised
  <2> QED BY <1>1, <2>1
<1>3. IsRow(r) /\ r.stage = "told"
  BY <1>1 DEF IsRow
<1> HIDE DEF r
<1>4. at[t] = "batch" /\ row[t][i].stage = "raised" /\ UNCHANGED <<at, stream>>
  BY DEF NameRaised, history
<1>5. /\ Rows' /\ row'[t][i] = r
      /\ \A u \in Thread, j \in Remark : (u # t \/ j # i) => row'[u][j] = row[u][j]
  <2>1. RowSet(t, i, r)
    BY <1>2 DEF RowSet
  <2> QED BY <1>3, <1>4, <2>1, RowChanges
<1>6. \A u \in Thread : Heard(u)' = Heard(u)
  BY <1>3, <1>4, <1>5 DEF Heard
<1>7. Streams'
  BY <1>4, <1>6 DEF StreamInv, Streams, Thread
<1> QED BY <1>5, <1>7 DEF StreamInv

\* Where the end is told all calls were, or none.
LEMMA EndStep ==
  ASSUME StreamInv, at = [u \in Thread |-> at[u]], NEW t \in Thread,
         Complete(t) \/ CompleteByRules(t) \/ Fail(t)
  PROVE  StreamInv'
<1> DEFINE a == IF t = Loop THEN "idle" ELSE "finished"
           st == stream[t]
<1>1. PICK e \in Terminal : /\ at[t] \in {"active", "batch"} /\ End(t, e)
                            /\ NoneAsked(t) \/ AllBack(t)
                            /\ e = "complete" => AllBack(t)
  BY DEF Complete, CompleteByRules, Fail, Terminal
<1>2. /\ at' = [at EXCEPT ![t] = a] /\ stream' = Post(t, <<e, "done">>)
      /\ row' = [row EXCEPT ![t] = [i \in Remark |-> NoRow]]
  BY <1>1 DEF End, Outcome
<1> DEFINE new == [pending |-> st.pending \o <<e, "done">>, queue |-> st.queue,
                   sent |-> st.sent, done |-> st.done, client |-> st.client]
<1>3. Rows'
  <2>1. /\ row' = [u \in Thread |-> row'[u]] /\ row'[t] = [i \in Remark |-> NoRow]
        /\ \A u \in Thread : u # t => row'[u] = row[u]
        /\ \A u \in Thread : u # t => row[u] = [i \in Remark |-> row[u][i]]
    BY <1>2 DEF StreamInv, Rows
  <2>2. DOMAIN NoRow = {"stage", "models", "prompt", "label"} /\ NoRow.stage = "waiting"
    BY DEF NoRow
  <2>3. \A u \in Thread : row'[u] = [i \in Remark |-> row'[u][i]]
    BY <2>1
  <2>4. \A u \in Thread, i \in Remark : DOMAIN row'[u][i] = {"stage", "models", "prompt", "label"}
    BY <2>1, <2>2 DEF StreamInv, Rows
  <2>5. \A s \in Stream : s # t => at'[s] = at[s]
    BY <1>2
  <2>6. \A s \in Stream, i \in Remark : at'[s] # "batch" => row'[s][i].stage = "waiting"
    <3> TAKE s \in Stream, i \in Remark
    <3>1. CASE s = t
      <4>1. row'[t][i] = NoRow
        BY <2>1
      <4> QED BY <2>2, <3>1, <4>1
    <3>2. CASE s # t
      <4>1. row'[s] = row[s] /\ at'[s] = at[s]
        BY <2>1, <2>5, <3>2 DEF Thread
      <4>2. at[s] # "batch" => row[s][i].stage = "waiting"
        BY DEF StreamInv, Rows
      <4> QED BY <4>1, <4>2
    <3> QED BY <3>1, <3>2
  <2> QED BY <2>1, <2>3, <2>4, <2>6 DEF Rows
<1>4. \A u \in Thread : u # t => Heard(u)' = Heard(u)
  BY <1>2 DEF Heard, StreamInv, Rows
<1>5. Counted(e, Cardinality(Heard(t)) + 1)
  <2>1. AllBack(t) => Heard(t) = 1..BatchSize
    BY DEF Heard, AllBack, Remark
  <2>2. NoneAsked(t) => Heard(t) = {}
    BY DEF Heard, NoneAsked
  <2>3. Cardinality(1..BatchSize) = BatchSize
    BY FS_Interval, ServerAssumption
  <2>4. AllBack(t) => Cardinality(Heard(t)) = BatchSize
    BY <2>1, <2>3
  <2>5. NoneAsked(t) => Cardinality(Heard(t)) = 0
    BY <2>2, FS_EmptySet
  <2> QED BY <1>1, <2>4, <2>5, ServerAssumption DEF Counted
<1>6. \A s \in Stream : s # t => at'[s] = at[s]
  BY <1>2
<1>7. CASE t \in Stream /\ st.client = "open"
  <2>1. Typed(st) /\ Flow(at[t], st, Cardinality(Heard(t)))
    BY <1>7 DEF StreamInv, Streams
  <2>2. Running(st, Cardinality(Heard(t)))
    BY <1>1, <1>7, <2>1 DEF Flow
  <2>3. st.pending \in Seq(Message) /\ e \in Message /\ "done" \in Message
    BY <2>1 DEF Typed, Message
  <2> DEFINE mid == Append(st.pending, e)
  <2>4. st.pending \o <<e, "done">> = Append(mid, "done")
    <3>1. mid = st.pending \o <<e>> /\ mid \in Seq(Message)
      <4>1. mid = st.pending \o <<e>>
        BY <2>3, AppendIsConcat
      <4>2. mid \in Seq(Message)
        BY <2>3, AppendProperties
      <4> QED BY <4>1, <4>2
    <3>2. Append(mid, "done") = mid \o <<"done">>
      BY <2>3, <3>1, AppendIsConcat
    <3>3. <<e>> \in Seq(Message) /\ <<"done">> \in Seq(Message)
      BY <2>3
    <3>4. (st.pending \o <<e>>) \o <<"done">> = st.pending \o (<<e>> \o <<"done">>)
      BY <2>3, <3>3, ConcatAssociative
    <3>5. <<e>> \o <<"done">> = <<e, "done">>
      <4>1. Append(<<e>>, "done") = <<e>> \o <<"done">>
        BY <2>3, <3>3, AppendIsConcat
      <4>2. <<e, "done">> \in Seq(Message) /\ Append(<<e>>, "done") \in Seq(Message)
        BY <2>3
      <4>3. /\ Len(<<e, "done">>) = 2 /\ Len(Append(<<e>>, "done")) = 2
            /\ \A n \in 1..2 : <<e, "done">>[n] = Append(<<e>>, "done")[n]
        BY <2>3
      <4>4. Append(<<e>>, "done") = <<e, "done">>
        BY <4>2, <4>3, SeqEqual
      <4> QED BY <4>1, <4>4
    <3> HIDE DEF mid
    <3> QED BY <3>1, <3>2, <3>4, <3>5
  <2>5. mid \in Seq(Message) /\ Extended(st.pending, e, mid)
    BY <2>3, AppendShape
  <2> HIDE DEF mid
  <2>6. Append(mid, "done") \in Seq(Message) /\ Extended(mid, "done", Append(mid, "done"))
    BY <2>3, <2>5, AppendShape
  <2>7. stream' = [stream EXCEPT ![t] = new]
    <3>1. stream' = [stream EXCEPT ![t].pending = @ \o <<e, "done">>]
      BY <1>2, <1>7 DEF Post
    <3>2. [st EXCEPT !.pending = @ \o <<e, "done">>] = new
      <4> DEFINE p == st.pending \o <<e, "done">>
      <4>1. new = Of(p, st.queue, st.sent, st.done, st.client)
        BY DEF Of
      <4> HIDE DEF new, p
      <4>2. [st EXCEPT !.pending = p] = new
        BY <2>1, <4>1 DEF Typed, Of
      <4> QED BY <4>2 DEF p
    <3> QED BY <3>1, <3>2
  <2>8. Typed(new)
    BY <2>1, <2>4, <2>6 DEF Typed
  <2>9. new.pending = Append(mid, "done") /\ new.sent = st.sent
        /\ new.queue = st.queue /\ new.client = "open"
    BY <1>7, <2>4
  <2> HIDE DEF new
  <2>10. Extended(mid, "done", new.pending)
    BY <2>6, <2>9
  <2>11. Ending(new)
    BY <1>5, <2>1, <2>2, <2>5, <2>9, <2>10, HeardFinite, TypedLengths, EndFlow
  <2>12. /\ stream' = [s \in Stream |-> stream'[s]] /\ stream'[t] = new
         /\ \A s \in Stream : s # t => stream'[s] = stream[s]
    BY <1>7, <2>7 DEF StreamInv, Streams
  <2>13. at'[t] = "finished"
    BY <1>2, <1>7, ServerAssumption
  <2>14. ASSUME NEW s \in Stream
         PROVE  Typed(stream'[s]) /\ Flow(at'[s], stream'[s], Cardinality(Heard(s)'))
    <3>1. CASE s = t
      BY <2>8, <2>9, <2>11, <2>12, <2>13, <3>1 DEF Flow
    <3>2. CASE s # t
      BY <1>4, <1>6, <2>12, <3>2 DEF StreamInv, Streams, Thread
    <3> QED BY <3>1, <3>2
  <2> QED BY <1>3, <2>12, <2>14 DEF StreamInv, Streams
<1>8. CASE ~(t \in Stream /\ st.client = "open")
  <2>1. stream' = stream
    BY <1>2, <1>8 DEF Post
  <2>2. ASSUME NEW s \in Stream
        PROVE  Typed(stream'[s]) /\ Flow(at'[s], stream'[s], Cardinality(Heard(s)'))
    <3>1. Typed(stream[s]) /\ Flow(at[s], stream[s], Cardinality(Heard(s)))
      BY DEF StreamInv, Streams
    <3>2. CASE s = t
      BY <1>8, <2>1, <3>1, <3>2 DEF Flow
    <3>3. CASE s # t
      BY <1>4, <1>6, <2>1, <3>1, <3>3 DEF Thread
    <3> QED BY <3>2, <3>3
  <2> QED BY <1>3, <2>1, <2>2 DEF StreamInv, Streams
<1> QED BY <1>7, <1>8

\* A stream that opens has been told nothing.
LEMMA OpenStreamStep ==
  ASSUME StreamInv, at = [u \in Thread |-> at[u]], NEW s \in Stream, OpenStream(s)
  PROVE  StreamInv'
<1> DEFINE st == stream[s]
           new == [pending |-> st.pending, queue |-> st.queue, sent |-> st.sent,
                   done |-> st.done, client |-> "open"]
<1>1. /\ at[s] = "idle" /\ st.client = "none" /\ UNCHANGED row
      /\ at' = [at EXCEPT ![s] = "active"] /\ s \in Thread
      /\ stream' = [stream EXCEPT ![s].client = "open"]
  BY DEF OpenStream, Begin, FirstStep, Thread
<1>2. Typed(st) /\ st.sent = <<>> /\ st.queue = <<>> /\ st.pending = <<>>
  BY <1>1 DEF StreamInv, Streams, Flow
<1>3. stream' = [stream EXCEPT ![s] = new]
  <2>1. [st EXCEPT !.client = "open"] = new
    BY <1>2 DEF Typed
  <2> QED BY <1>1, <2>1
<1>4. Typed(new)
  BY <1>2 DEF Typed
<1>5. new.client = "open" /\ new.sent = <<>> /\ new.queue = <<>> /\ new.pending = <<>>
  BY <1>2
<1> HIDE DEF new
<1>6. Rows' /\ Heard(s) = {} /\ \A u : Heard(u)' = Heard(u)
  <2>1. \A u \in Stream : at'[u] # "batch" => at[u] # "batch"
    BY <1>1
  <2>2. Rows'
    BY <1>1, <2>1 DEF StreamInv, Rows
  <2>3. \A i \in Remark : row[s][i].stage = "waiting"
    BY <1>1 DEF StreamInv, Rows
  <2> QED BY <1>1, <2>2, <2>3 DEF Heard
<1>7. Running(new, 0)
  BY <1>5 DEF Running, Progress
<1>8. Cardinality(Heard(s)') = 0
  BY <1>6, FS_EmptySet
<1>9. /\ stream' = [u \in Stream |-> stream'[u]] /\ stream'[s] = new
      /\ \A u \in Stream : u # s => stream'[u] = stream[u]
  BY <1>3 DEF StreamInv, Streams
<1>10. at'[s] = "active" /\ \A u \in Stream : u # s => at'[u] = at[u]
  BY <1>1
<1>11. ASSUME NEW u \in Stream
       PROVE  Typed(stream'[u]) /\ Flow(at'[u], stream'[u], Cardinality(Heard(u)'))
  <2>1. CASE u = s
    BY <1>4, <1>5, <1>7, <1>8, <1>9, <1>10, <2>1 DEF Flow
  <2>2. CASE u # s
    BY <1>6, <1>9, <1>10, <2>2 DEF StreamInv, Streams
  <2> QED BY <2>1, <2>2
<1> QED BY <1>6, <1>9, <1>11 DEF StreamInv, Streams

\* Nobody has a stream: at the start, and after a kill.
LEMMA NoStreams ==
  ASSUME at = [t \in Thread |-> "idle"],
         row = [t \in Thread |-> [i \in Remark |-> NoRow]], stream = [s \in Stream |-> NoStream]
  PROVE  StreamInv
<1>1. DOMAIN NoRow = {"stage", "models", "prompt", "label"} /\ NoRow.stage = "waiting"
  BY DEF NoRow
<1>2. \A s \in Stream : s \in Thread
  BY DEF Thread
<1>3. Rows
  BY <1>1, <1>2 DEF Rows
<1>4. Streams
  BY NoStreamFlow DEF Streams
<1> QED BY <1>3, <1>4 DEF StreamInv

LEMMA StreamNext == StoreInv /\ StreamInv /\ [Next]_vars => StreamInv'
<1> SUFFICES ASSUME StoreInv, StreamInv, [Next]_vars PROVE StreamInv'
  OBVIOUS
<1>0. /\ Loop \in Thread /\ \A s \in Stream : s \in Thread /\ s # Loop
      /\ at = [t \in Thread |-> at[t]]
  BY ServerAssumption DEF Thread, StoreInv
<1>1. ASSUME NEW t \in Thread, NEW a, UNCHANGED <<row, stream>>, at' = [at EXCEPT ![t] = a],
             t \in Stream => at[t] \notin {"finished", "batch"} /\ a # "finished"
      PROVE  StreamInv'
  <2>1. \A s \in Stream : /\ at'[s] = "finished" <=> at[s] = "finished"
                          /\ at'[s] # "batch" => at[s] # "batch"
    BY <1>0, <1>1
  <2> QED BY <1>1, <2>1, Unheard
<1>2. ASSUME NEW t \in Thread, NEW here, NEW to, Load(t, here, to),
             here \notin {"finished", "batch"}, to # "finished"
      PROVE  StreamInv'
  <2>1. /\ UNCHANGED <<row, stream>> /\ at[t] = here
        /\ at' = [at EXCEPT ![t] = to] \/ at' = [at EXCEPT ![t] = "open"]
    BY <1>2 DEF Load
  <2> QED BY <1>1, <1>2, <2>1
<1>3. ASSUME NEW req \in Request, Receive(req) PROVE StreamInv'
  BY <1>0, <1>1, <1>3 DEF Receive
<1>4. CASE BlockingBatch
  BY <1>0, <1>1, <1>4 DEF BlockingBatch, Begin
<1>5. CASE Endpoint
  <2>1. CASE LoadForChange
    BY <1>0, <1>2, <2>1 DEF LoadForChange
  <2>2. CASE Decide
    BY <1>0, <1>1, <2>2 DEF Decide
  <2>3. CASE Written
    BY <1>0, <1>1, <2>3 DEF Written, TakeName
  <2>4. CASE Respond
    BY <1>0, <1>2, <2>4 DEF Respond
  <2> QED BY <1>5, <2>1, <2>2, <2>3, <2>4 DEF Endpoint
<1>6. CASE Crash
  <2>1. /\ at' = [t \in Thread |-> "idle"]
        /\ row' = [t \in Thread |-> [i \in Remark |-> NoRow]]
        /\ stream' = [s \in Stream |-> NoStream]
    BY <1>6 DEF Crash
  <2>2. DOMAIN NoRow = {"stage", "models", "prompt", "label"} /\ NoRow.stage = "waiting"
    BY DEF NoRow
  <2>3. Rows'
    BY <1>0, <2>1, <2>2 DEF Rows
  <2>4. Streams'
    BY <2>1, NoStreamFlow DEF Streams
  <2> QED BY <2>3, <2>4 DEF StreamInv
<1>7. ASSUME NEW t \in Thread, Work(t) PROVE StreamInv'
  <2>1. CASE Open(t)
    BY <1>1, <2>1 DEF Open
  <2>2. CASE Close(t)
    <3>1. local[t].back # "finished"
      BY DEF StoreInv, Hands
    <3> QED BY <1>1, <2>2, <3>1 DEF Close
  <2>3. CASE Reload(t)
    <3>1. CASE ReadActive(t) \/ ReadProfile(t) \/ ReadFallback(t)
      BY <1>2, <3>1 DEF ReadActive, ReadProfile, ReadFallback
    <3>2. CASE Named(t)
      BY <1>1, <3>2 DEF Named, TakeName
    <3>3. CASE SetModels(t)
      BY <1>1, <3>3 DEF SetModels
    <3>4. CASE SetPrompt(t)
      BY <1>1, <3>4 DEF SetPrompt
    <3> QED BY <2>3, <3>1, <3>2, <3>3, <3>4 DEF Reload
  <2>4. ASSUME NEW i \in Remark, Ask(t, i) \/ Return(t, i) \/ Raise(t, i) \/ NameRaised(t, i)
        PROVE StreamInv'
    BY <2>4, AskStep, ReturnStep, RaiseStep, NameRaisedStep
  <2>5. CASE Complete(t) \/ CompleteByRules(t) \/ Fail(t)
    BY <1>0, <2>5, EndStep
  <2> QED BY <1>7, <2>1, <2>2, <2>3, <2>4, <2>5 DEF Work
<1>8. ASSUME NEW s \in Stream, OpenStream(s) PROVE StreamInv'
  BY <1>0, <1>8, OpenStreamStep
<1>9. ASSUME NEW s \in Stream, Pump(s) \/ Disconnect(s) PROVE StreamInv'
  BY <1>9, RunCallbackStep, SendStep, DisconnectStep DEF Pump
<1>10. CASE UNCHANGED vars
  BY <1>10, Unheard DEF vars
<1> QED BY <1>3, <1>4, <1>5, <1>6, <1>7, <1>8, <1>9, <1>10 DEF Next

\* What a client has got is progress, then at most one last message: after the
\* progress of every remark or of none, and of every one if the models decided,
\* whether calls return or raise, the rules decide alone or the batch fails, and
\* however the worker's posts, the loop's callbacks, requests, disconnects and kills
\* interleave (_bounded_call, run_sync_pipeline, sse_generator).
THEOREM StreamsAlwaysInOrder == Spec => []StreamInOrder
<1>1. Init => StoreInv /\ StreamInv
  BY StoreInit, NoStreams DEF Init
<1>2. StoreInv /\ StreamInv /\ [Next]_vars => (StoreInv /\ StreamInv)'
  BY StoreNext, StreamNext
<1>3. StreamInv => StreamInOrder
  <2> SUFFICES ASSUME StreamInv, NEW s \in Stream
               PROVE  LET sent == stream[s].sent
                      IN /\ \A n \in 1..(Len(sent) - 1) : sent[n] = "progress"
                         /\ sent # <<>> /\ Last(sent) \in Terminal =>
                              Len(sent) \in {1, BatchSize + 1}
                         /\ sent # <<>> /\ Last(sent) = "complete" => Len(sent) = BatchSize + 1
    BY DEF StreamInOrder
  <2> DEFINE st == stream[s]
  <2>1. Typed(st) /\ Flow(at[s], st, Cardinality(Heard(s)))
    BY DEF StreamInv, Streams
  <2>2. st.sent \in Seq(Message)
    BY <2>1 DEF Typed
  <2>3. CASE st.client = "open"
    <3>1. Progress(st.sent)
      BY <2>1, <2>3 DEF Flow, Running, Ending, Queued
    <3>2. PICK l \in Nat : Len(st.sent) = l
      BY <2>2
    <3>3. \A n \in 1..l : st.sent[n] = "progress"
      BY <3>1, <3>2 DEF Progress
    <3>4. st.sent # <<>> => l \in 1..l
      BY <2>2, <3>2
    <3>5. st.sent # <<>> => Last(st.sent) = "progress"
      BY <3>2, <3>3, <3>4 DEF Last
    <3> QED BY <3>2, <3>3, <3>5, DistinctMessages
  <2>4. CASE st.client = "closed"
    BY <2>1, <2>4 DEF Flow, Closed, Ends, Counted, Last
  <2>5. CASE st.client \notin {"open", "closed"}
    BY <2>1, <2>5 DEF Flow
  <2> QED BY <2>3, <2>4, <2>5
<1> QED BY <1>1, <1>2, <1>3, PTL DEF Spec

-------------------------------------------------------------------------------
(* Batches side by side.  As long as the profiles are not changed, what is       *)
(* active stays what it was when the first of the batches began: a load that     *)
(* writes writes what it would have loaded, and two such writes that mix leave a *)
(* file that loads the same.  So every reload takes the same name, finds the     *)
(* same text and puts into the summarizer what the others have put there.        *)

Shipped == get_active_profile(FactoryData("rcbc_v4"))

\* The way of a thread t whose batch met no change, c being the profile that is
\* active: a is its step, l what it has in its hands, e the summarizer.
OnItsWay(t, a, l, e, c) ==
  /\ a \in {"active", "open", "close", "named", "get", "found", "prompt", "batch"}
  /\ t = Loop => l.req.kind = "batch"
  /\ a \in {"open", "close"} => l.back \in {"named", "found"}
  /\ a = "named" => get_active_profile(l.data) = c
  /\ a \in {"get", "found"} \/ (a \in {"open", "close"} /\ l.back = "found") =>
       l.id = c.id /\ e.id = c.id
  /\ a = "found" => Known(l.data, c.id) /\ l.data.profiles[c.id].text = c.text
  /\ a = "prompt" => e.id = c.id /\ e.models = c.text /\ l.text = c.text
  /\ a = "batch" => e = [id |-> c.id, models |-> c.text, prompt |-> c.text]

\* What its calls were asked with, and say.
RowsOf(a, r, c) ==
  \A i \in Remark :
    /\ a # "batch" => r[i].stage = "waiting"
    /\ r[i].stage \in {"waiting", "asked", "raised", "told"}
    /\ r[i].stage \in {"asked", "raised"} => r[i].models = c.text /\ r[i].prompt = c.text
    /\ r[i].stage = "told" =>
         r[i] = [stage |-> "told", models |-> c.text, prompt |-> c.text, label |-> c.id]

\* Any other thread: idle or through, in a batch that met a change, or reading.
Aside(t, a, l) ==
  \/ a \in {"idle", "finished", "batch"}
  \/ t = Loop /\ a = "respond" /\ l.req.kind = "read"
  \/ t = Loop /\ a \in {"open", "close"} /\ l.back = "idle"

Calmly(t) ==
  /\ t \in calm => /\ chosen[t] = ActiveNow
                   /\ OnItsWay(t, at[t], local[t], engine, ActiveNow)
                   /\ RowsOf(at[t], row[t], ActiveNow)
  /\ t \notin calm => Aside(t, at[t], local[t])
  /\ at[t] \in {"open", "close"} => ActiveNow = Shipped

Quiet == \A t \in Thread : Calmly(t)

Shaping(e) == e = [id |-> e.id, models |-> e.models, prompt |-> e.prompt]

Shared ==
  /\ Shaping(engine)
  /\ chosen = [t \in Thread |-> chosen[t]]
  /\ \A i \in Remark : at[Loop] # "batch" => row[Loop][i].stage = "waiting"

CalmInv == Shared /\ calm \subseteq Thread /\ (calm # {} => Quiet)

-------------------------------------------------------------------------------
\* The active id of loaded data names one of its profiles.
Ready(data, c) ==
  Known(data, c.id) /\ data.profiles[c.id].text = c.text /\ get_active_profile(data) = c

LEMMA CompletedReady ==
  ASSUME NEW data
  PROVE  Ready(Completed(data), get_active_profile(Completed(data)))
<1> DEFINE d == Completed(data)
           profiles == Over(data.profiles, SystemProfiles)
<1>1. /\ d.profiles = profiles
      /\ d.active = IF data.active \in DOMAIN profiles THEN data.active ELSE "rcbc_v4"
  BY DEF Completed
<1>2. "rcbc_v4" \in DOMAIN profiles
  <2>1. "rcbc_v4" \in DOMAIN SystemProfiles
    BY DEF SystemProfiles, System
  <2> QED BY <2>1 DEF Over
<1> HIDE DEF d, profiles
<1>3. Known(d, d.active)
  BY <1>1, <1>2 DEF Known
<1>4. get_active_profile(d) = [id |-> d.active, text |-> d.profiles[d.active].text]
  BY <1>3 DEF get_active_profile
<1> QED BY <1>3, <1>4 DEF Ready, d

LEMMA FactoryReady ==
  /\ Ready(FactoryData("rcbc_v4"), get_active_profile(FactoryData("rcbc_v4")))
  /\ get_active_profile(Completed(FactoryData("rcbc_v4"))) = get_active_profile(FactoryData("rcbc_v4"))
<1> DEFINE d == FactoryData("rcbc_v4")
           e == Completed(d)
<1>1. d.active = "rcbc_v4" /\ d.profiles = SystemProfiles
  BY DEF FactoryData
<1>2. "rcbc_v4" \in DOMAIN SystemProfiles
  BY DEF SystemProfiles, System
<1>3. e.profiles = Over(d.profiles, SystemProfiles)
      /\ e.active = IF d.active \in DOMAIN Over(d.profiles, SystemProfiles) THEN d.active ELSE "rcbc_v4"
  BY DEF Completed
<1>4. e.active = "rcbc_v4" /\ "rcbc_v4" \in DOMAIN e.profiles
      /\ e.profiles["rcbc_v4"] = SystemProfiles["rcbc_v4"]
  <2> DEFINE profiles == Over(d.profiles, SystemProfiles)
  <2>1. "rcbc_v4" \in DOMAIN profiles /\ profiles["rcbc_v4"] = SystemProfiles["rcbc_v4"]
    BY <1>1, <1>2 DEF Over
  <2> HIDE DEF d, e, profiles
  <2> QED BY <1>1, <1>3, <2>1 DEF profiles
<1> HIDE DEF d, e
<1>5. get_active_profile(d) = [id |-> "rcbc_v4", text |-> SystemProfiles["rcbc_v4"].text]
  BY <1>1, <1>2 DEF get_active_profile, Known
<1>6. get_active_profile(e) = [id |-> "rcbc_v4", text |-> SystemProfiles["rcbc_v4"].text]
  BY <1>4 DEF get_active_profile, Known
<1> QED BY <1>1, <1>2, <1>5, <1>6 DEF Ready, Known, d, e

\* What is active now is what a load brings.
LEMMA LoadReady ==
  /\ disk = "whole" => Ready(Completed(content), ActiveNow)
  /\ disk # "whole" => Ready(FactoryData("rcbc_v4"), ActiveNow)
  BY CompletedReady, FactoryReady DEF ActiveNow
-------------------------------------------------------------------------------
(* One thread moves, and puts nothing into the summarizer but what is active.   *)

Onward ==
  /\ ActiveNow' = ActiveNow
  /\ Shaping(engine')
  /\ engine'.id \in {engine.id, ActiveNow.id}
  /\ engine'.models \in {engine.models, ActiveNow.text}
  /\ engine'.prompt \in {engine.prompt, ActiveNow.text}

Untouched(u) ==
  /\ at'[u] = at[u] /\ local'[u] = local[u] /\ row'[u] = row[u] /\ chosen'[u] = chosen[u]
  /\ u \in calm' <=> u \in calm

LEMMA Onwards ==
  ASSUME NEW t \in Thread, \A u \in Thread \ {t} : Calmly(u) /\ Untouched(u), Onward, Calmly(t)'
  PROVE  Quiet'
<1>1. ASSUME NEW u \in Thread \ {t} PROVE Calmly(u)'
  <2> DEFINE c == ActiveNow
  <2>1. Calmly(u) /\ Untouched(u) /\ ActiveNow' = c
    BY DEF Onward
  <2>2. ASSUME u \in calm PROVE OnItsWay(u, at[u], local[u], engine', c)
    <3>1. OnItsWay(u, at[u], local[u], engine, c)
      BY <2>1, <2>2 DEF Calmly
    <3>2. engine.id = c.id => engine'.id = c.id
      BY DEF Onward
    <3>3. engine.models = c.text => engine'.models = c.text
      BY DEF Onward
    <3>4. engine.prompt = c.text => engine'.prompt = c.text
      BY DEF Onward
    <3>5. engine = [id |-> c.id, models |-> c.text, prompt |-> c.text] => engine' = engine
      BY <3>2, <3>3, <3>4 DEF Onward, Shaping
    <3> HIDE DEF c
    <3> QED BY <3>1, <3>2, <3>3, <3>5 DEF OnItsWay
  <2>3. u \in calm' => /\ chosen'[u] = c
                       /\ OnItsWay(u, at'[u], local'[u], engine', c)
                       /\ RowsOf(at'[u], row'[u], c)
    BY <2>1, <2>2 DEF Calmly, Untouched
  <2>4. /\ u \notin calm' => Aside(u, at'[u], local'[u])
        /\ at'[u] \in {"open", "close"} => c = Shipped
    BY <2>1 DEF Calmly, Untouched
  <2> HIDE DEF c
  <2> QED BY <2>1, <2>3, <2>4 DEF Calmly
<1> QED BY <1>1 DEF Quiet

\* A step of a calm thread outside its batch.
LEMMA CalmStep ==
  ASSUME StoreInv, Shared, Quiet, NEW t \in calm, t \in Thread, UNCHANGED <<calm, chosen, row>>,
         NEW a, NEW l, at[t] # "batch", at' = [at EXCEPT ![t] = a], local' = [local EXCEPT ![t] = l],
         Onward, OnItsWay(t, a, l, engine', ActiveNow),
         a \in {"open", "close"} => ActiveNow = Shipped
  PROVE  Quiet'
<1> DEFINE c == ActiveNow
<1>1. Calmly(t) /\ \A u \in Thread \ {t} : Calmly(u)
  BY DEF Quiet
<1>2. at'[t] = a /\ local'[t] = l /\ \A u \in Thread \ {t} : Untouched(u)
  BY DEF StoreInv, Untouched
<1>3. RowsOf(a, row[t], c)
  BY <1>1 DEF Calmly, RowsOf
<1>4. ActiveNow' = c
  BY DEF Onward
<1>5. chosen'[t] = c /\ RowsOf(at'[t], row'[t], c) /\ OnItsWay(t, at'[t], local'[t], engine', c)
  BY <1>1, <1>2, <1>3 DEF Calmly
<1>6. Calmly(t)'
  <2>1. at'[t] \in {"open", "close"} => c = Shipped
    BY <1>2
  <2> HIDE DEF c
  <2> QED BY <1>4, <1>5, <2>1 DEF Calmly
<1> QED BY <1>1, <1>2, <1>6, Onwards

\* A step of another thread.
LEMMA AsideStep ==
  ASSUME Quiet, NEW t \in Thread, t \notin calm', \A u \in Thread \ {t} : Untouched(u), Onward,
         Aside(t, at'[t], local'[t]), at'[t] \in {"open", "close"} => ActiveNow = Shipped
  PROVE  Quiet'
<1>1. Calmly(t)'
  BY DEF Calmly, Onward
<1> QED BY <1>1, Onwards DEF Quiet

LEMMA FileStays ==
  ASSUME Shared, UNCHANGED <<disk, content, engine>>
  PROVE  Onward
<1>1. ActiveNow' = ActiveNow
  BY DEF ActiveNow
<1> QED BY <1>1 DEF Onward, Shared

-------------------------------------------------------------------------------
(* The file: what is loaded, and written on the way, is what is active.         *)

\* What is in the hands of a thread, and that nobody else moves.
LEMMA InHands ==
  ASSUME StoreInv, NEW t \in Thread
  PROVE  /\ at = [u \in Thread |-> at[u]] /\ local = [u \in Thread |-> local[u]]
         /\ local[t] = [req |-> local[t].req, data |-> local[t].data, back |-> local[t].back,
                        id |-> local[t].id, text |-> local[t].text]
         /\ Hands(t, at[t], local[t])
  BY DEF StoreInv, Hands

LEMMA CalmLoad ==
  ASSUME StoreInv, Shared, Quiet, NEW t \in calm, t \in Thread, NEW here, NEW to, Load(t, here, to),
         \/ here = "active" /\ to = "named"
         \/ here = "get" /\ to = "found"
  PROVE  Quiet'
<1> DEFINE l == local[t]  c == ActiveNow
           hand(data, back) == [req |-> l.req, data |-> data, back |-> back, id |-> l.id, text |-> l.text]
<1>1. at[t] = here /\ UNCHANGED <<disk, content, engine, calm, chosen, row>>
  BY DEF Load, store, history
<1>2. l = hand(l.data, l.back) /\ local = [u \in Thread |-> local[u]]
  BY InHands
<1>3. Onward
  BY <1>1, FileStays
<1>4. /\ t = Loop => l.req.kind = "batch"
      /\ here = "get" => l.id = c.id /\ engine.id = c.id
  BY <1>1 DEF Quiet, Calmly, OnItsWay
<1>5. CASE /\ disk = "whole" /\ at' = [at EXCEPT ![t] = to]
           /\ local' = [local EXCEPT ![t].data = Completed(content)]
  <2> DEFINE new == hand(Completed(content), l.back)
  <2>1. local' = [local EXCEPT ![t] = new]
    <3>1. [l EXCEPT !.data = Completed(content)] = new
      <4> HIDE DEF l
      <4> QED BY <1>2
    <3> QED BY <1>5, <3>1
  <2>2. Ready(Completed(content), c)
    BY <1>5, LoadReady
  <2>3. OnItsWay(t, to, new, engine', c)
    BY <1>1, <1>4, <2>2 DEF OnItsWay, Ready
  <2> HIDE DEF new, c
  <2> QED BY <1>1, <1>3, <1>5, <2>1, <2>3, CalmStep DEF c
<1>6. CASE /\ disk # "whole" /\ at' = [at EXCEPT ![t] = "open"]
           /\ local' = [local EXCEPT ![t].data = FactoryData("rcbc_v4"), ![t].back = to]
  <2> DEFINE new == hand(FactoryData("rcbc_v4"), to)
  <2>1. local' = [local EXCEPT ![t] = new]
    <3>1. [l EXCEPT !.data = FactoryData("rcbc_v4"), !.back = to] = new
      <4> DEFINE d == FactoryData("rcbc_v4")
      <4> HIDE DEF l, d
      <4>1. [l EXCEPT !.data = d] = hand(d, l.back)
        BY <1>2
      <4>2. [hand(d, l.back) EXCEPT !.back = to] = hand(d, to)
        OBVIOUS
      <4>3. [l EXCEPT !.data = d, !.back = to] = [[l EXCEPT !.data = d] EXCEPT !.back = to]
        OBVIOUS
      <4> QED BY <4>1, <4>2, <4>3 DEF d
    <3> QED BY <1>6, <3>1
  <2>2. c = Shipped
    BY <1>6 DEF ActiveNow, Shipped
  <2>3. OnItsWay(t, "open", new, engine', c)
    BY <1>1, <1>4 DEF OnItsWay
  <2> HIDE DEF new, c
  <2> QED BY <1>1, <1>3, <1>6, <2>1, <2>2, <2>3, CalmStep DEF c
<1> QED BY <1>5, <1>6 DEF Load

\* A file being written loads as the shipped one.
LEMMA OpenOnward ==
  ASSUME StoreInv, Shared, Quiet, NEW t \in Thread, Open(t)
  PROVE  /\ Onward /\ ActiveNow = Shipped
         /\ at[t] = "open" /\ at' = [at EXCEPT ![t] = "close"]
         /\ UNCHANGED <<local, row, calm, chosen, engine>>
<1>1. /\ at[t] = "open" /\ disk' = "torn" /\ at' = [at EXCEPT ![t] = "close"]
      /\ UNCHANGED <<content, engine, local, row, calm, chosen>>
  BY DEF Open
<1>2. ActiveNow = Shipped
  BY <1>1 DEF Quiet, Calmly
<1>3. ActiveNow' = Shipped
  BY <1>1 DEF ActiveNow, Shipped
<1> QED BY <1>1, <1>2, <1>3 DEF Onward, Shared

LEMMA CalmOpen ==
  ASSUME StoreInv, Shared, Quiet, NEW t \in calm, t \in Thread, Open(t)
  PROVE  Quiet'
<1> DEFINE l == local[t]
<1>1. /\ Onward /\ ActiveNow = Shipped
      /\ at[t] = "open" /\ at' = [at EXCEPT ![t] = "close"]
      /\ UNCHANGED <<local, row, calm, chosen, engine>>
  BY OpenOnward
<1>2. local' = [local EXCEPT ![t] = l]
  BY <1>1, InHands
<1>3. OnItsWay(t, "close", l, engine', ActiveNow)
  BY <1>1 DEF Quiet, Calmly, OnItsWay
<1> HIDE DEF l
<1> QED BY <1>1, <1>2, <1>3, CalmStep

\* Whatever else is written, it is the shipped profiles.
LEMMA CloseOnward ==
  ASSUME StoreInv, Shared, Quiet, NEW t \in Thread, Close(t), local[t].back # "written"
  PROVE  /\ Onward /\ ActiveNow = Shipped /\ local[t].data = FactoryData("rcbc_v4")
         /\ at[t] = "close" /\ at' = [at EXCEPT ![t] = local[t].back]
         /\ local' = IF local[t].back = "idle" THEN ForgetAll(t) ELSE local
         /\ UNCHANGED <<row, calm, chosen, engine>>
<1>1. /\ at[t] = "close" /\ at' = [at EXCEPT ![t] = local[t].back]
      /\ \/ disk' = "whole" /\ content' = local[t].data
         \/ disk' = "torn"
      /\ local' = IF local[t].back = "idle" THEN ForgetAll(t) ELSE local
      /\ UNCHANGED <<engine, row, calm, chosen>>
  BY DEF Close
<1>2. local[t].data = FactoryData("rcbc_v4")
  BY <1>1, InHands DEF Hands, Restoring
<1>3. ActiveNow = Shipped
  BY <1>1 DEF Quiet, Calmly
<1>4. ActiveNow' = Shipped
  BY <1>1, <1>2, FactoryReady DEF ActiveNow, Shipped
<1> QED BY <1>1, <1>2, <1>3, <1>4 DEF Onward, Shared

LEMMA CalmClose ==
  ASSUME StoreInv, Shared, Quiet, NEW t \in calm, t \in Thread, Close(t)
  PROVE  Quiet'
<1> DEFINE l == local[t]  c == ActiveNow
<1>1. /\ t = Loop => l.req.kind = "batch"
      /\ l.back \in {"named", "found"}
      /\ l.back = "found" => l.id = c.id /\ engine.id = c.id
  <2>1. at[t] = "close" /\ OnItsWay(t, at[t], l, engine, c)
    BY DEF Close, Quiet, Calmly
  <2> QED BY <2>1 DEF OnItsWay
<1>2. /\ Onward /\ c = Shipped /\ l.data = FactoryData("rcbc_v4")
      /\ at[t] = "close" /\ at' = [at EXCEPT ![t] = l.back]
      /\ UNCHANGED <<local, row, calm, chosen, engine>>
  BY <1>1, CloseOnward
<1>3. local' = [local EXCEPT ![t] = l]
  BY <1>2, InHands
<1>4. Ready(l.data, c)
  BY <1>2, FactoryReady DEF Shipped
<1>5. OnItsWay(t, l.back, l, engine', c)
  <2> HIDE DEF l, c
  <2> QED BY <1>1, <1>2, <1>4 DEF OnItsWay, Ready
<1> DEFINE b == l.back
<1>6. at' = [at EXCEPT ![t] = b] /\ OnItsWay(t, b, l, engine', c)
  BY <1>2, <1>5
<1> HIDE DEF b, l
<1> QED BY <1>2, <1>3, <1>6, CalmStep
-------------------------------------------------------------------------------
(* The summarizer takes the name, the models and the instructions.              *)

LEMMA CalmNamed ==
  ASSUME StoreInv, Shared, Quiet, NEW t \in calm, t \in Thread, Named(t)
  PROVE  Quiet'
<1> DEFINE q == local[t].req  c == ActiveNow
           id == get_active_profile(local[t].data).id
           new == [Fresh EXCEPT !.req = q, !.id = id]
           e == [id |-> id, models |-> engine.models, prompt |-> engine.prompt]
<1>1. /\ at[t] = "named" /\ at' = [at EXCEPT ![t] = "get"] /\ engine' = Taken(id)
      /\ local' = [local EXCEPT ![t] = new]
      /\ UNCHANGED <<disk, content, row, calm, chosen>>
  BY DEF Named, TakeName, store, history
<1>2. id = c.id /\ (t = Loop => q.kind = "batch")
  BY <1>1 DEF Quiet, Calmly, OnItsWay
<1>3. engine' = e
  BY <1>1 DEF Taken, Shared, Shaping
<1>4. new.req = q /\ new.id = id
  BY DEF Fresh
<1> HIDE DEF new, id
<1>5. ActiveNow' = c
  BY <1>1 DEF ActiveNow
<1>6. Onward
  BY <1>2, <1>3, <1>5 DEF Onward, Shaping
<1>7. OnItsWay(t, "get", new, engine', c)
  <2> HIDE DEF c, q
  <2> QED BY <1>2, <1>3, <1>4 DEF OnItsWay
<1> QED BY <1>1, <1>6, <1>7, CalmStep

LEMMA CalmSetModels ==
  ASSUME StoreInv, Shared, Quiet, NEW t \in calm, t \in Thread, SetModels(t)
  PROVE  Quiet'
<1> DEFINE l == local[t]  c == ActiveNow
           new == [req |-> l.req, data |-> l.data, back |-> l.back, id |-> l.id, text |-> c.text]
           e == [id |-> engine.id, models |-> c.text, prompt |-> engine.prompt]
<1>1. at[t] = "found" /\ OnItsWay(t, at[t], l, engine, c)
  BY DEF SetModels, Quiet, Calmly, OnItsWay
<1>2. /\ t = Loop => l.req.kind = "batch"
      /\ l.id = c.id /\ engine.id = c.id /\ l.data.profiles[c.id].text = c.text
  BY <1>1 DEF OnItsWay
<1>3. /\ at' = [at EXCEPT ![t] = "prompt"] /\ engine' = [engine EXCEPT !.models = c.text]
      /\ local' = [local EXCEPT ![t].text = c.text]
      /\ UNCHANGED <<disk, content, row, calm, chosen>>
  BY <1>1, <1>2 DEF SetModels, store, history
<1>4. local' = [local EXCEPT ![t] = new]
  <2>1. l = [req |-> l.req, data |-> l.data, back |-> l.back, id |-> l.id, text |-> l.text]
    BY InHands
  <2>2. [l EXCEPT !.text = c.text] = new
    <3> HIDE DEF l, c
    <3> QED BY <2>1
  <2> QED BY <1>3, <2>2
<1>5. engine' = e
  BY <1>3 DEF Shared, Shaping
<1>6. ActiveNow' = c
  BY <1>3 DEF ActiveNow
<1>7. Onward
  BY <1>5, <1>6 DEF Onward, Shaping
<1>8. OnItsWay(t, "prompt", new, engine', c)
  BY <1>2, <1>5 DEF OnItsWay
<1> HIDE DEF new
<1> QED BY <1>1, <1>3, <1>4, <1>7, <1>8, CalmStep

LEMMA CalmSetPrompt ==
  ASSUME StoreInv, Shared, Quiet, NEW t \in calm, t \in Thread, SetPrompt(t)
  PROVE  Quiet'
<1> DEFINE q == local[t].req  c == ActiveNow
           new == [Fresh EXCEPT !.req = q]
           e == [id |-> c.id, models |-> c.text, prompt |-> c.text]
<1>1. at[t] = "prompt" /\ OnItsWay(t, at[t], local[t], engine, c)
  BY DEF SetPrompt, Quiet, Calmly
<1>2. /\ t = Loop => q.kind = "batch"
      /\ engine.id = c.id /\ engine.models = c.text /\ local[t].text = c.text
  BY <1>1 DEF OnItsWay
<1>3. InBatch(t)
  BY <1>2 DEF InBatch, Thread
<1>4. /\ at' = [at EXCEPT ![t] = "batch"] /\ local' = [local EXCEPT ![t] = new]
      /\ engine' = [engine EXCEPT !.prompt = c.text]
      /\ UNCHANGED <<disk, content, row, calm, chosen>>
  BY <1>2, <1>3 DEF SetPrompt, Forget, store, history
<1>5. engine' = e
  BY <1>2, <1>4 DEF Shared, Shaping
<1>6. new.req = q
  BY DEF Fresh
<1>7. ActiveNow' = c
  BY <1>4 DEF ActiveNow
<1>8. Onward
  BY <1>5, <1>7 DEF Onward, Shaping
<1> HIDE DEF new
<1>9. OnItsWay(t, "batch", new, engine', c)
  BY <1>2, <1>5, <1>6 DEF OnItsWay
<1> QED BY <1>1, <1>4, <1>8, <1>9, CalmStep

LEMMA CalmReload ==
  ASSUME StoreInv, Shared, Quiet, NEW t \in calm, t \in Thread, Reload(t)
  PROVE  Quiet'
<1>1. CASE ReadActive(t)
  BY <1>1, CalmLoad DEF ReadActive
<1>2. CASE ReadProfile(t)
  BY <1>2, CalmLoad DEF ReadProfile
<1>3. CASE ReadFallback(t)
  <2>1. at[t] = "found" /\ ~Known(local[t].data, local[t].id)
    BY <1>3 DEF ReadFallback, Load
  <2> QED BY <2>1 DEF Quiet, Calmly, OnItsWay
<1> QED BY <1>1, <1>2, <1>3, CalmNamed, CalmSetModels, CalmSetPrompt DEF Reload

-------------------------------------------------------------------------------
(* The calls of a batch, and how batches begin and end.                         *)

Call(t, i) == Ask(t, i) \/ Return(t, i) \/ Raise(t, i) \/ NameRaised(t, i)

\* Remark i of the batch of t, and nothing else, is changed to r.
LEMMA CallFacts ==
  ASSUME StreamInv, NEW t \in Thread, NEW i \in Remark, Call(t, i)
  PROVE  /\ at[t] = "batch" /\ UNCHANGED <<disk, content, engine, at, local, calm, chosen>>
         /\ \A u \in Thread \ {t} : row'[u] = row[u]
         /\ \A j \in Remark \ {i} : row'[t][j] = row[t][j]
         /\ \/ /\ row'[t][i].stage = "asked" /\ row'[t][i].models = engine.models
               /\ row'[t][i].prompt = engine.prompt
            \/ /\ row[t][i].stage = "asked" /\ row'[t][i].stage = "raised"
               /\ row'[t][i].models = row[t][i].models /\ row'[t][i].prompt = row[t][i].prompt
            \/ /\ row[t][i].stage \in {"asked", "raised"}
               /\ row'[t][i] = [stage |-> "told", models |-> row[t][i].models,
                                prompt |-> row[t][i].prompt, label |-> engine.id]
<1>1. /\ row = [u \in Thread |-> row[u]] /\ row[t] = [j \in Remark |-> row[t][j]]
      /\ DOMAIN row[t][i] = {"stage", "models", "prompt", "label"}
  BY DEF StreamInv, Rows
<1>2. at[t] = "batch" /\ UNCHANGED <<disk, content, engine, at, local, calm, chosen>>
  BY DEF Call, Ask, Return, Raise, NameRaised, store, history
<1>3. CASE Ask(t, i)
  <2> DEFINE r == [NoRow EXCEPT !.stage = "asked", !.models = engine.models, !.prompt = engine.prompt]
  <2>1. row' = [row EXCEPT ![t][i] = r]
    BY <1>3 DEF Ask
  <2>2. r.stage = "asked" /\ r.models = engine.models /\ r.prompt = engine.prompt
    BY DEF NoRow
  <2> HIDE DEF r
  <2> QED BY <1>1, <1>2, <2>1, <2>2
<1>4. CASE Raise(t, i)
  <2> DEFINE r == [row[t][i] EXCEPT !.stage = "raised"]
  <2>1. row' = [row EXCEPT ![t][i] = r] /\ row[t][i].stage = "asked"
    BY <1>1, <1>4 DEF Raise
  <2>2. r.stage = "raised" /\ r.models = row[t][i].models /\ r.prompt = row[t][i].prompt
    BY <1>1
  <2> HIDE DEF r
  <2> QED BY <1>1, <1>2, <2>1, <2>2
<1>5. CASE Return(t, i) \/ NameRaised(t, i)
  <2> DEFINE r == [row[t][i] EXCEPT !.stage = "told", !.label = engine.id]
             told == [stage |-> "told", models |-> row[t][i].models,
                      prompt |-> row[t][i].prompt, label |-> engine.id]
  <2>1. row' = [row EXCEPT ![t][i].stage = "told", ![t][i].label = engine.id]
        /\ row[t][i].stage \in {"asked", "raised"}
    BY <1>5 DEF Return, NameRaised
  <2>2. row' = [row EXCEPT ![t][i] = r]
    BY <1>1, <2>1
  <2>3. r = told
    <3>1. /\ r.stage = "told" /\ r.label = engine.id /\ r.models = row[t][i].models
          /\ r.prompt = row[t][i].prompt /\ r = [f \in {"stage", "models", "prompt", "label"} |-> r[f]]
      BY <1>1
    <3>2. /\ told = [f \in {"stage", "models", "prompt", "label"} |-> told[f]]
          /\ told.stage = "told" /\ told.label = engine.id
          /\ told.models = row[t][i].models /\ told.prompt = row[t][i].prompt
      OBVIOUS
    <3> HIDE DEF r, told
    <3> QED BY <3>1, <3>2
  <2> HIDE DEF r
  <2>4. /\ \A u \in Thread \ {t} : row'[u] = row[u]
        /\ \A j \in Remark \ {i} : row'[t][j] = row[t][j]
        /\ row'[t][i] = r
    BY <1>1, <2>2
  <2> QED BY <1>2, <2>1, <2>3, <2>4
<1> QED BY <1>3, <1>4, <1>5 DEF Call

LEMMA CalmCall ==
  ASSUME StreamInv, Shared, Quiet, NEW t \in Thread, NEW i \in Remark, Call(t, i)
  PROVE  Quiet'
<1> DEFINE c == ActiveNow
<1>1. /\ at[t] = "batch" /\ UNCHANGED <<disk, content, engine, at, local, calm, chosen>>
      /\ \A u \in Thread \ {t} : row'[u] = row[u]
  BY CallFacts
<1>2. Onward /\ \A u \in Thread \ {t} : Untouched(u)
  BY <1>1, FileStays DEF Untouched
<1>3. CASE t \notin calm
  BY <1>1, <1>2, <1>3, AsideStep DEF Aside
<1>4. CASE t \in calm
  <2>1. /\ chosen[t] = c /\ OnItsWay(t, "batch", local[t], engine, c) /\ RowsOf("batch", row[t], c)
    BY <1>1, <1>4 DEF Quiet, Calmly
  <2>2. engine.id = c.id /\ engine.models = c.text /\ engine.prompt = c.text
    BY <2>1 DEF OnItsWay
  <2> HIDE DEF c
  <2>3. RowsOf("batch", row'[t], c)
    <3> DEFINE now == row[t][i]  next == row'[t][i]
    <3>1. /\ \A j \in Remark \ {i} : row'[t][j] = row[t][j]
          /\ \/ next.stage = "asked" /\ next.models = engine.models /\ next.prompt = engine.prompt
             \/ /\ now.stage = "asked" /\ next.stage = "raised"
                /\ next.models = now.models /\ next.prompt = now.prompt
             \/ /\ now.stage \in {"asked", "raised"}
                /\ next = [stage |-> "told", models |-> now.models, prompt |-> now.prompt,
                           label |-> engine.id]
      BY CallFacts
    <3>2. now.stage \in {"asked", "raised"} => now.models = c.text /\ now.prompt = c.text
      BY <2>1 DEF RowsOf
    <3> DEFINE told == [stage |-> "told", models |-> c.text, prompt |-> c.text, label |-> c.id]
    <3>3. told.stage = "told"
      OBVIOUS
    <3>4. \/ next.stage \in {"asked", "raised"} /\ next.models = c.text /\ next.prompt = c.text
          \/ next = told
      BY <2>2, <3>1, <3>2
    <3> HIDE DEF now, next, told
    <3>5. /\ next.stage \in {"waiting", "asked", "raised", "told"}
          /\ next.stage \in {"asked", "raised"} => next.models = c.text /\ next.prompt = c.text
          /\ next.stage = "told" => next = told
      BY <3>3, <3>4
    <3> QED BY <2>1, <3>1, <3>5 DEF RowsOf, next, told
  <2>4. ActiveNow' = c
    BY <1>2 DEF Onward, c
  <2>5. Calmly(t)'
    BY <1>1, <1>4, <2>1, <2>3, <2>4 DEF Calmly
  <2> QED BY <1>2, <2>5, Onwards DEF Quiet
<1> QED BY <1>3, <1>4

\* A batch ends, and its thread is calm no more.
LEMMA CalmEnd ==
  ASSUME StoreInv, StreamInv, Shared, Quiet, NEW t \in Thread, NEW e, End(t, e)
  PROVE  Quiet'
<1> DEFINE a == IF t = Loop THEN "idle" ELSE "finished"
<1>1. /\ at' = [at EXCEPT ![t] = a] /\ local' = [local EXCEPT ![t] = Fresh]
      /\ row' = [row EXCEPT ![t] = [i \in Remark |-> NoRow]]
      /\ calm' = calm \ {t} /\ chosen' = [chosen EXCEPT ![t] = NoChoice[t]]
      /\ UNCHANGED <<disk, content, engine>>
  BY DEF End, ForgetAll, store
<1>2. /\ at = [u \in Thread |-> at[u]] /\ local = [u \in Thread |-> local[u]]
      /\ row = [u \in Thread |-> row[u]] /\ chosen = [u \in Thread |-> chosen[u]]
  BY DEF StoreInv, StreamInv, Rows, Shared
<1>3. at'[t] \in {"idle", "finished"} /\ t \notin calm'
  BY <1>1, <1>2
<1>4. \A u \in Thread \ {t} : Untouched(u)
  BY <1>1, <1>2 DEF Untouched
<1>5. Onward
  BY <1>1, FileStays
<1> QED BY <1>3, <1>4, <1>5, AsideStep DEF Aside

LEMMA CalmWork ==
  ASSUME StoreInv, StreamInv, Shared, Quiet, calm \subseteq Thread, NEW t \in Thread, Work(t)
  PROVE  Quiet'
<1>1. ASSUME NEW i \in Remark, Ask(t, i) \/ Return(t, i) \/ Raise(t, i) \/ NameRaised(t, i)
      PROVE Quiet'
  BY <1>1, CalmCall DEF Call
<1>2. CASE Complete(t) \/ CompleteByRules(t) \/ Fail(t)
  BY <1>2, CalmEnd DEF Complete, CompleteByRules, Fail
<1>3. CASE t \in calm /\ (Open(t) \/ Close(t) \/ Reload(t))
  BY <1>3, CalmOpen, CalmClose, CalmReload
<1>4. CASE t \notin calm /\ (Open(t) \/ Close(t) \/ Reload(t))
  <2>1. Aside(t, at[t], local[t])
    BY <1>4 DEF Quiet, Calmly
  <2>2. CASE Open(t)
    <3>1. /\ Onward /\ ActiveNow = Shipped /\ at[t] = "open" /\ at' = [at EXCEPT ![t] = "close"]
          /\ UNCHANGED <<local, row, calm, chosen, engine>>
      BY <2>2, OpenOnward
    <3>2. at'[t] = "close" /\ \A u \in Thread \ {t} : Untouched(u)
      BY <3>1, InHands DEF Untouched
    <3>3. Aside(t, at'[t], local'[t])
      BY <2>1, <3>1, <3>2 DEF Aside
    <3> QED BY <1>4, <3>1, <3>2, <3>3, AsideStep
  <2>3. CASE Close(t)
    <3>1. local[t].back = "idle"
      BY <2>1, <2>3 DEF Aside, Close
    <3>2. /\ Onward /\ at' = [at EXCEPT ![t] = "idle"] /\ local' = [local EXCEPT ![t] = Fresh]
          /\ UNCHANGED <<row, calm, chosen, engine>>
      BY <2>3, <3>1, CloseOnward DEF ForgetAll
    <3>3. at'[t] = "idle" /\ \A u \in Thread \ {t} : Untouched(u)
      BY <3>2, InHands DEF Untouched
    <3> QED BY <1>4, <3>2, <3>3, AsideStep DEF Aside
  <2>4. CASE Reload(t)
    <3>1. at[t] \in {"active", "named", "get", "found", "fellback", "prompt"}
      BY <2>4 DEF Reload, ReadActive, Named, ReadProfile, ReadFallback, Load, SetModels, SetPrompt
    <3> QED BY <2>1, <3>1 DEF Aside
  <2> QED BY <1>4, <2>2, <2>3, <2>4
<1> QED BY <1>1, <1>2, <1>3, <1>4 DEF Work

\* Batches run on while the loop reads the profiles, and with no other endpoint.
LEMMA CalmEndpoint ==
  ASSUME StoreInv, Shared, Quiet, Endpoint
  PROVE  Quiet'
<1>1. Loop \in Thread /\ at[Loop] \in {"load", "decide", "respond", "written"}
  BY DEF Endpoint, LoadForChange, Respond, Load, Decide, Written, Thread
<1>2. Loop \notin calm /\ at[Loop] = "respond"
  BY <1>1 DEF Quiet, Calmly, OnItsWay, Aside
<1>3. Load(Loop, "respond", "idle")
  BY <1>2 DEF Endpoint, LoadForChange, Respond, Load, Decide, Written
<1>4. UNCHANGED <<disk, content, engine, row, calm, chosen>>
  BY <1>3 DEF Load, store, history
<1>5. Onward
  BY <1>4, FileStays
<1>6. CASE at' = [at EXCEPT ![Loop] = "idle"] /\ local' = ForgetAll(Loop)
  <2>1. at'[Loop] = "idle" /\ \A u \in Thread \ {Loop} : Untouched(u)
    BY <1>1, <1>4, <1>6, InHands DEF Untouched, ForgetAll
  <2> QED BY <1>1, <1>2, <1>4, <1>5, <2>1, AsideStep DEF Aside
<1>7. CASE /\ disk # "whole" /\ at' = [at EXCEPT ![Loop] = "open"]
           /\ local' = [local EXCEPT ![Loop].data = FactoryData("rcbc_v4"), ![Loop].back = "idle"]
  <2>1. /\ at'[Loop] = "open" /\ local'[Loop].back = "idle"
        /\ \A u \in Thread \ {Loop} : Untouched(u)
    <3> DEFINE l == local[Loop]
    <3>1. /\ l = [req |-> l.req, data |-> l.data, back |-> l.back, id |-> l.id, text |-> l.text]
          /\ at = [u \in Thread |-> at[u]] /\ local = [u \in Thread |-> local[u]]
      BY <1>1, InHands
    <3>2. [l EXCEPT !.data = FactoryData("rcbc_v4"), !.back = "idle"].back = "idle"
      <4> HIDE DEF l
      <4> QED BY <3>1
    <3>3. local' = [local EXCEPT ![Loop] = [l EXCEPT !.data = FactoryData("rcbc_v4"), !.back = "idle"]]
      BY <1>7
    <3> QED BY <1>1, <1>4, <1>7, <3>1, <3>2, <3>3 DEF Untouched
  <2>2. ActiveNow = Shipped
    BY <1>7 DEF ActiveNow, Shipped
  <2> QED BY <1>1, <1>2, <1>4, <1>5, <2>1, <2>2, AsideStep DEF Aside
<1> QED BY <1>3, <1>6, <1>7 DEF Load

\* A batch begins: it is calm if nobody but calm threads has steps to take that
\* touch the file or the summarizer, and then the threads are quiet.
LEMMA CalmBegin ==
  ASSUME StoreInv, StreamInv, Shared, calm # {} => Quiet, NEW t \in Thread, t \notin calm,
         Begin(t), at[t] = "idle", at[Loop] = "idle", calm' # {},
         UNCHANGED <<store, engine, row>>, \A u \in Thread \ {t} : local'[u] = local[u],
         t = Loop => local'[t].req.kind = "batch"
  PROVE  Quiet'
<1> DEFINE c == ActiveNow
<1>1. /\ at' = [at EXCEPT ![t] = "active"] /\ at = [u \in Thread |-> at[u]]
      /\ chosen = [u \in Thread |-> chosen[u]]
  BY DEF Begin, FirstStep, StoreInv, Shared
<1>2. at'[t] = "active" /\ \A u \in Thread \ {t} : at'[u] = at[u]
  BY <1>1
<1>3. Onward
  BY FileStays DEF store
<1>4. \A u \in Thread \ {t} : Settled(u)
  <2>1. CASE calm = {}
    BY <2>1 DEF Begin
  <2>2. CASE calm # {}
    <3>1. ASSUME NEW u \in Thread \ {t}, u \notin calm PROVE at[u] \in {"idle", "finished", "batch"}
      <4>1. Aside(u, at[u], local[u])
        BY <2>2, <3>1 DEF Quiet, Calmly
      <4> QED BY <4>1 DEF Aside
    <3> QED BY <3>1 DEF Settled
  <2> QED BY <2>1, <2>2
<1>5. calm' = calm \cup {t} /\ chosen' = [chosen EXCEPT ![t] = c]
  BY <1>4 DEF Begin
<1>6. \A u \in Thread \ {t} : Calmly(u)
  <2>1. CASE calm = {}
    BY <1>4, <2>1 DEF Settled, Calmly, Aside
  <2>2. CASE calm # {}
    BY <2>2 DEF Quiet
  <2> QED BY <2>1, <2>2
<1>7. \A u \in Thread \ {t} : Untouched(u)
  BY <1>1, <1>2, <1>5 DEF Untouched
<1>8. RowsOf("active", row'[t], c)
  <2>1. \A i \in Remark : row[t][i].stage = "waiting"
    BY DEF Shared, StreamInv, Rows, Thread
  <2> HIDE DEF c
  <2> QED BY <2>1 DEF RowsOf
<1>9. OnItsWay(t, "active", local'[t], engine', c)
  BY DEF OnItsWay
<1>10. ActiveNow' = c /\ chosen'[t] = c
  BY <1>1, <1>3, <1>5 DEF Onward
<1>11. Calmly(t)'
  <2> HIDE DEF c
  <2> QED BY <1>2, <1>5, <1>8, <1>9, <1>10 DEF Calmly
<1> QED BY <1>3, <1>6, <1>7, <1>11, Onwards

\* A thread that is idle does not have a calm batch.
LEMMA IdleNotCalm ==
  ASSUME calm # {} => Quiet, NEW t \in Thread, at[t] = "idle"
  PROVE  t \notin calm
  BY DEF Quiet, Calmly, OnItsWay

-------------------------------------------------------------------------------
(* What the threads share keeps its shape, and the loop's rows wait outside a     *)
(* batch.                                                                        *)

LEMMA SharedMoves ==
  ASSUME StoreInv, Shared, NEW t \in Thread, NEW a, at' = [at EXCEPT ![t] = a], at[t] # "batch",
         row' = row, Shaping(engine'), chosen' = [u \in Thread |-> chosen'[u]]
  PROVE  Shared'
<1>1. at = [u \in Thread |-> at[u]] /\ Loop \in Thread
  BY DEF StoreInv, Thread
<1>2. \A i \in Remark : at'[Loop] # "batch" => row'[Loop][i].stage = "waiting"
  BY <1>1 DEF Shared
<1> QED BY <1>2 DEF Shared, Shaping

LEMMA SharedLoad ==
  ASSUME StoreInv, Shared, NEW t \in Thread, NEW here, NEW to, Load(t, here, to), here # "batch"
  PROVE  Shared'
<1>1. /\ at[t] = here /\ UNCHANGED <<engine, chosen, row>>
      /\ at' = [at EXCEPT ![t] = to] \/ at' = [at EXCEPT ![t] = "open"]
  BY DEF Load, store, history
<1> QED BY <1>1, SharedMoves DEF Shared

LEMMA SharedTakesName ==
  ASSUME StoreInv, Shared, NEW t \in Thread, NEW id, TakeName(t, id), at[t] # "batch"
  PROVE  Shared'
<1>1. engine' = [id |-> id, models |-> engine.models, prompt |-> engine.prompt]
  BY DEF TakeName, Taken, Shared, Shaping
<1>2. UNCHANGED <<chosen, row>> /\ at' = [at EXCEPT ![t] = "get"]
  BY DEF TakeName, history
<1>3. Shaping(engine')
  BY <1>1 DEF Shaping
<1> QED BY <1>2, <1>3, SharedMoves DEF Shared

LEMMA SharedWork ==
  ASSUME StoreInv, StreamInv, Shared, NEW t \in Thread, Work(t)
  PROVE  Shared'
<1>0. at = [u \in Thread |-> at[u]] /\ Loop \in Thread
  BY DEF StoreInv, Thread
<1>1. CASE Open(t) \/ Close(t)
  <2>1. /\ \E a : at' = [at EXCEPT ![t] = a]
        /\ at[t] \in {"open", "close"} /\ UNCHANGED <<engine, chosen, row>>
    BY <1>1 DEF Open, Close
  <2> QED BY <2>1, SharedMoves DEF Shared
<1>2. CASE Reload(t)
  <2>1. CASE ReadActive(t) \/ ReadProfile(t) \/ ReadFallback(t)
    BY <2>1, SharedLoad DEF ReadActive, ReadProfile, ReadFallback
  <2>2. CASE Named(t)
    BY <2>2, SharedTakesName DEF Named
  <2>3. CASE SetModels(t)
    <3>1. PICK text : engine' = [engine EXCEPT !.models = text]
      BY <2>3 DEF SetModels
    <3>2. engine' = [id |-> engine.id, models |-> text, prompt |-> engine.prompt]
      BY <3>1 DEF Shared, Shaping
    <3>3. Shaping(engine')
      BY <3>2 DEF Shaping
    <3>4. UNCHANGED <<chosen, row>> /\ at' = [at EXCEPT ![t] = "prompt"] /\ at[t] # "batch"
      BY <2>3 DEF SetModels, history
    <3> QED BY <3>3, <3>4, SharedMoves DEF Shared
  <2>4. CASE SetPrompt(t)
    <3>1. engine' = [id |-> engine.id, models |-> engine.models, prompt |-> local[t].text]
      BY <2>4 DEF SetPrompt, Shared, Shaping
    <3>2. Shaping(engine')
      BY <3>1 DEF Shaping
    <3>3. UNCHANGED <<chosen, row>> /\ at[t] = "prompt" /\ \E a : at' = [at EXCEPT ![t] = a]
      BY <2>4 DEF SetPrompt, history
    <3> QED BY <3>2, <3>3, SharedMoves DEF Shared
  <2> QED BY <1>2, <2>1, <2>2, <2>3, <2>4 DEF Reload
<1>3. ASSUME NEW i \in Remark, Ask(t, i) \/ Return(t, i) \/ Raise(t, i) \/ NameRaised(t, i)
      PROVE Shared'
  <2>1. /\ at[t] = "batch" /\ UNCHANGED <<engine, at, chosen>>
        /\ \A u \in Thread \ {t} : row'[u] = row[u]
    BY <1>3, CallFacts DEF Call
  <2> QED BY <1>0, <2>1 DEF Shared, Shaping
<1>4. CASE Complete(t) \/ CompleteByRules(t) \/ Fail(t)
  <2> DEFINE a == IF t = Loop THEN "idle" ELSE "finished"
  <2>1. /\ at' = [at EXCEPT ![t] = a] /\ UNCHANGED engine
        /\ row' = [row EXCEPT ![t] = [i \in Remark |-> NoRow]]
        /\ chosen' = [chosen EXCEPT ![t] = NoChoice[t]]
    BY <1>4 DEF Complete, CompleteByRules, Fail, End
  <2>2. chosen' = [u \in Thread |-> chosen'[u]] /\ row = [u \in Thread |-> row[u]]
    BY <2>1 DEF Shared, StreamInv, Rows
  <2>3. \A j \in Remark : at'[Loop] # "batch" => row'[Loop][j].stage = "waiting"
    <3>1. CASE t = Loop
      BY <1>0, <2>1, <2>2, <3>1 DEF NoRow
    <3>2. CASE t # Loop
      <4>1. at'[Loop] = at[Loop] /\ row'[Loop] = row[Loop]
        BY <1>0, <2>1, <2>2, <3>2
      <4> QED BY <4>1 DEF Shared
    <3> QED BY <3>1, <3>2
  <2> QED BY <2>1, <2>2, <2>3 DEF Shared, Shaping
<1> QED BY <1>1, <1>2, <1>3, <1>4 DEF Work

LEMMA SharedEndpoint ==
  ASSUME StoreInv, Shared, Endpoint
  PROVE  Shared'
<1>0. Loop \in Thread
  BY DEF Thread
<1>1. CASE LoadForChange \/ Respond
  BY <1>0, <1>1, SharedLoad DEF LoadForChange, Respond
<1>2. CASE Decide
  <2>1. /\ \E a : at' = [at EXCEPT ![Loop] = a]
        /\ at[Loop] = "decide" /\ UNCHANGED <<engine, chosen, row>>
    BY <1>2 DEF Decide, history
  <2> QED BY <1>0, <2>1, SharedMoves DEF Shared
<1>3. CASE Written
  <2>1. at[Loop] = "written"
    BY <1>3 DEF Written
  <2>2. CASE at' = [at EXCEPT ![Loop] = "active"] /\ UNCHANGED <<engine, row, history>>
    BY <1>0, <2>1, <2>2, SharedMoves DEF Shared, history
  <2> QED BY <1>0, <1>3, <2>1, <2>2, SharedTakesName DEF Written
<1> QED BY <1>1, <1>2, <1>3 DEF Endpoint

LEMMA CalmStart ==
  ASSUME at = [t \in Thread |-> "idle"], engine = Blank, calm = {},
         chosen = NoChoice, row = [t \in Thread |-> [i \in Remark |-> NoRow]]
  PROVE  CalmInv
<1>1. Loop \in Thread
  BY DEF Thread
<1> QED BY <1>1 DEF CalmInv, Shared, Shaping, Blank, NoChoice, NoRow

\* Nothing a batch depends on changes.
LEMMA CalmElsewhere ==
  ASSUME CalmInv, UNCHANGED <<disk, content, engine, at, local, row, calm, chosen>>
  PROVE  CalmInv'
<1>1. Shared'
  BY DEF CalmInv, Shared, Shaping
<1>2. ActiveNow' = ActiveNow
  BY DEF ActiveNow
<1>3. Quiet => Quiet'
  BY <1>2 DEF Quiet, Calmly
<1> QED BY <1>1, <1>3 DEF CalmInv

LEMMA CalmNext == StoreInv /\ StreamInv /\ CalmInv /\ [Next]_vars => CalmInv'
<1> SUFFICES ASSUME StoreInv, StreamInv, CalmInv, [Next]_vars PROVE CalmInv'
  OBVIOUS
<1>0. /\ Loop \in Thread /\ \A s \in Stream : s \in Thread /\ s # Loop
      /\ at = [t \in Thread |-> at[t]] /\ local = [t \in Thread |-> local[t]]
      /\ Shared /\ calm \subseteq Thread /\ (calm # {} => Quiet)
  BY ServerAssumption DEF Thread, StoreInv, CalmInv
<1>1. ASSUME NEW req \in Request, Receive(req) PROVE CalmInv'
  <2> DEFINE a == IF req.kind = "reset" THEN "decide"
                  ELSE IF req.kind = "read" THEN "respond" ELSE "load"
             l == [Fresh EXCEPT !.req = req]
  <2>1. /\ at[Loop] = "idle" /\ at' = [at EXCEPT ![Loop] = a] /\ local' = [local EXCEPT ![Loop] = l]
        /\ UNCHANGED <<disk, content, engine, row>>
        /\ IF req.kind = "read" THEN UNCHANGED <<calm, chosen>> ELSE calm' = {} /\ chosen' = NoChoice
    BY <1>1 DEF Receive, store
  <2>2. l.req = req /\ (req.kind = "read" => a = "respond")
    BY DEF Fresh
  <2> HIDE DEF a, l
  <2>3. Shared'
    BY <1>0, <2>1, SharedMoves DEF Shared, NoChoice
  <2>4. ASSUME calm' # {} PROVE Quiet'
    <3>1. req.kind = "read" /\ UNCHANGED <<calm, chosen>> /\ Quiet /\ Loop \notin calm
      BY <1>0, <2>1, <2>4, IdleNotCalm
    <3>2. /\ at'[Loop] = "respond" /\ local'[Loop].req.kind = "read"
          /\ \A u \in Thread \ {Loop} : Untouched(u)
      BY <1>0, <2>1, <2>2, <3>1 DEF Untouched
    <3>3. Onward
      BY <1>0, <2>1, FileStays
    <3> QED BY <1>0, <3>1, <3>2, <3>3, AsideStep DEF Aside
  <2> QED BY <1>0, <2>1, <2>3, <2>4 DEF CalmInv
<1>2. ASSUME NEW t \in Thread, Begin(t), at[t] = "idle", at[Loop] = "idle",
             UNCHANGED <<store, engine, row>>, \A u \in Thread \ {t} : local'[u] = local[u],
             t = Loop => local'[t].req.kind = "batch"
      PROVE  CalmInv'
  <2>1. /\ at' = [at EXCEPT ![t] = "active"] /\ calm' \subseteq calm \cup {t}
        /\ chosen' = [u \in Thread |-> chosen'[u]]
    BY <1>0, <1>2 DEF Begin, FirstStep, Shared
  <2>2. Shared'
    BY <1>0, <1>2, <2>1, SharedMoves DEF Shared
  <2>3. calm' # {} => Quiet'
    BY <1>0, <1>2, IdleNotCalm, CalmBegin
  <2> QED BY <1>0, <2>1, <2>2, <2>3 DEF CalmInv
<1>3. CASE BlockingBatch
  <2>1. /\ at[Loop] = "idle" /\ Begin(Loop) /\ UNCHANGED <<store, engine, row>>
        /\ local' = [local EXCEPT ![Loop] = [Fresh EXCEPT !.req = [kind |-> "batch"]]]
    BY <1>3 DEF BlockingBatch
  <2>2. local'[Loop].req.kind = "batch" /\ \A u \in Thread \ {Loop} : local'[u] = local[u]
    BY <1>0, <2>1 DEF Fresh
  <2> QED BY <1>0, <1>2, <2>1, <2>2
<1>4. CASE \E s \in Stream : OpenStream(s)
  <2>1. PICK s \in Stream : OpenStream(s)
    BY <1>4
  <2>2. at[s] = "idle" /\ at[Loop] = "idle" /\ Begin(s) /\ UNCHANGED <<store, engine, row, local>>
    BY <2>1 DEF OpenStream
  <2> QED BY <1>0, <1>2, <2>2
<1>5. CASE Endpoint
  <2>1. calm' = calm
    BY <1>5 DEF Endpoint, LoadForChange, Respond, Load, Decide, Written, TakeName, history
  <2>2. Shared'
    BY <1>0, <1>5, SharedEndpoint
  <2> QED BY <1>0, <1>5, <2>1, <2>2, CalmEndpoint DEF CalmInv
<1>6. CASE Crash
  <2>1. /\ at' = [t \in Thread |-> "idle"] /\ engine' = Blank /\ calm' = {} /\ chosen' = NoChoice
        /\ row' = [t \in Thread |-> [i \in Remark |-> NoRow]]
    BY <1>6 DEF Crash
  <2>2. Shared'
    BY <1>0, <2>1 DEF Shared, Shaping, Blank, NoChoice, NoRow
  <2> QED BY <2>1, <2>2 DEF CalmInv
<1>7. CASE \E t \in Thread : Work(t)
  <2>1. PICK t \in Thread : Work(t)
    BY <1>7
  <2>2. calm' \subseteq calm
    BY <2>1 DEF Work, Open, Close, Reload, ReadActive, Named, TakeName, ReadProfile, ReadFallback, Load,
                SetModels, SetPrompt, Ask, Return, Raise, NameRaised, Complete, CompleteByRules, Fail,
                End, history
  <2>3. Shared'
    BY <1>0, <2>1, SharedWork
  <2>4. calm # {} => Quiet'
    BY <1>0, <2>1, CalmWork
  <2> QED BY <1>0, <2>2, <2>3, <2>4 DEF CalmInv
<1>8. CASE \E s \in Stream : Pump(s) \/ Disconnect(s)
  BY <1>8, CalmElsewhere DEF Pump, RunCallback, Send, Disconnect, store, history
<1>9. CASE UNCHANGED vars
  BY <1>9, CalmElsewhere DEF vars
<1> QED BY <1>1, <1>3, <1>4, <1>5, <1>6, <1>7, <1>8, <1>9 DEF Next

\* However many batches run side by side, with reads of the profiles and rewrites
\* of the file between their steps: as long as the profiles are not changed, every
\* remark is asked with the profile that was active when its batch began and says
\* so (reload_active_profile, process_single_remark), because a reload puts into
\* the summarizer the name, the models and the instructions the others read there.
THEOREM CalmBatchAlwaysUniform == Spec => []CalmBatchIsUniform
<1>1. Init => StoreInv /\ StreamInv /\ CalmInv
  BY StoreInit, NoStreams, CalmStart DEF Init
<1>2. StoreInv /\ StreamInv /\ CalmInv /\ [Next]_vars => (StoreInv /\ StreamInv /\ CalmInv)'
  BY StoreNext, StreamNext, CalmNext
<1>3. CalmInv => CalmBatchIsUniform
  <2> SUFFICES ASSUME CalmInv, NEW t \in calm, NEW i \in Remark, row[t][i].stage = "told"
               PROVE  row[t][i] = [stage |-> "told", models |-> chosen[t].text,
                                   prompt |-> chosen[t].text, label |-> chosen[t].id]
    BY DEF CalmBatchIsUniform
  <2>1. chosen[t] = ActiveNow /\ RowsOf(at[t], row[t], ActiveNow)
    BY DEF CalmInv, Quiet, Calmly
  <2> QED BY <2>1 DEF RowsOf
<1> QED BY <1>1, <1>2, <1>3, PTL DEF Spec
================================================================================
