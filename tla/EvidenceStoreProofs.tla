------------------------- MODULE EvidenceStoreProofs --------------------------
(* What the evidence database keeps, for any sessions, identifiers and bounds.  *)
(* Sound is preserved by each of the three things a statement does to a set of   *)
(* rows: insert, update, delete.  The invariant says it of what is committed and *)
(* of what the one writer sees, and that the writer has lost no evidence.        *)
EXTENDS EvidenceStore, TLAPS

Shape(row) == row = Entity(row.table, row.id, row.refs, row.value)

\* Nothing refers to an artifact: deleting one leaves no reference behind.
Sound(rows) ==
  /\ \A row \in rows : /\ Shape(row) /\ row.table \in Table
                       /\ row.refs \subseteq Keys(rows)
                       /\ \A k \in row.refs : k[1] # "artifacts"
  /\ \A a, b \in InTable(rows, "report_run_configuration_snapshots") : a.refs = b.refs => a = b

\* What a method read is a row of the table it works on.
ReadsItsTable ==
  \A s \in Session : reading[s] # None =>
    /\ reading[s].call \in {"complete", "delete"} => reading[s].row.table = "artifacts"
    /\ reading[s].call = "record_state_event" => reading[s].row.table = "report_runs"

IInv == /\ writer \in Session \cup {None}
        /\ reading = [s \in Session |-> reading[s]]
        /\ ReadsItsTable
        /\ Sound(db)
        /\ writer # None => Sound(work) /\ Evidence(db) \subseteq work

-----------------------------------------------------------------------------
\* Rows: insert, update, delete.

LEMMA InsertSound ==
  ASSUME NEW rows, Sound(rows), NEW t \in Table, NEW id, NEW refs, NEW v,
         refs \subseteq Keys(rows), \A k \in refs : k[1] # "artifacts",
         t = "report_run_configuration_snapshots" =>
           \A other \in InTable(rows, t) : other.refs # refs
  PROVE  Sound(rows \cup {Entity(t, id, refs, v)})
<1> DEFINE new == Entity(t, id, refs, v)
           all == rows \cup {new}
<1>1. new.table = t /\ new.refs = refs /\ Shape(new)
  BY DEF Entity, Shape
<1>2. Keys(rows) \subseteq Keys(all)
  BY DEF Keys
<1>3. \A row \in all : /\ Shape(row) /\ row.table \in Table
                       /\ row.refs \subseteq Keys(all)
                       /\ \A k \in row.refs : k[1] # "artifacts"
  <2> SUFFICES ASSUME NEW row \in all
               PROVE /\ Shape(row) /\ row.table \in Table
                     /\ row.refs \subseteq Keys(all)
                     /\ \A k \in row.refs : k[1] # "artifacts"
    OBVIOUS
  <2> HIDE DEF new
  <2>1. CASE row = new
    BY <2>1, <1>1, <1>2
  <2>2. CASE row \in rows
    BY <2>2, <1>2 DEF Sound
  <2> QED BY <2>1, <2>2
<1>4. ASSUME NEW a \in InTable(all, "report_run_configuration_snapshots"),
             NEW b \in InTable(all, "report_run_configuration_snapshots"), a.refs = b.refs
      PROVE  a = b
  <2> HIDE DEF new
  <2>1. /\ a \in rows \/ a = new
        /\ b \in rows \/ b = new
        /\ a.table = "report_run_configuration_snapshots"
        /\ b.table = "report_run_configuration_snapshots"
    BY DEF InTable
  <2> QED BY <2>1, <1>1, <1>4 DEF Sound, InTable
<1> HIDE DEF new
<1> QED BY <1>3, <1>4 DEF Sound, new

LEMMA EntityOf ==
  ASSUME NEW row, Shape(row), NEW v
  PROVE  [row EXCEPT !.value = v] = Entity(row.table, row.id, row.refs, v)
  BY DEF Shape, Entity

LEMMA UpdateSound ==
  ASSUME NEW rows, Sound(rows), NEW row \in rows, NEW v
  PROVE  Sound(Updated(rows, row, v)) /\ Keys(Updated(rows, row, v)) = Keys(rows)
<1> DEFINE new == [row EXCEPT !.value = v]
           all == (rows \ {row}) \cup {new}
<1>1. new = Entity(row.table, row.id, row.refs, v)
  BY EntityOf DEF Sound
<1>2. /\ new.table = row.table /\ new.id = row.id /\ new.refs = row.refs /\ Shape(new)
      /\ row.table \in Table
  BY <1>1 DEF Entity, Shape, Sound
<1> HIDE DEF new
<1>3. Key(new) = Key(row)
  BY <1>2 DEF Key
<1>4. Keys(all) = Keys(rows)
  BY <1>3 DEF Keys
<1>5. \A r \in all : /\ Shape(r) /\ r.table \in Table
                     /\ r.refs \subseteq Keys(all)
                     /\ \A k \in r.refs : k[1] # "artifacts"
  BY <1>2, <1>4 DEF Sound
<1>6. ASSUME NEW a \in InTable(all, "report_run_configuration_snapshots"),
             NEW b \in InTable(all, "report_run_configuration_snapshots"), a.refs = b.refs
      PROVE  a = b
  <2>1. /\ a \in rows \ {row} \/ a = new
        /\ b \in rows \ {row} \/ b = new
        /\ a.table = "report_run_configuration_snapshots"
        /\ b.table = "report_run_configuration_snapshots"
    BY DEF InTable
  <2> QED BY <2>1, <1>2, <1>6 DEF Sound, InTable
<1> QED BY <1>4, <1>5, <1>6 DEF Sound, Updated, new

LEMMA DeleteSound ==
  ASSUME NEW rows, Sound(rows), NEW gone,
         \A row \in rows \cap gone : \A other \in rows : Key(row) \notin other.refs
  PROVE  Sound(rows \ gone)
<1>1. ASSUME NEW row \in rows \ gone
      PROVE  row.refs \subseteq Keys(rows \ gone)
  BY DEF Sound, Keys
<1> QED BY <1>1 DEF Sound, InTable

-----------------------------------------------------------------------------
\* Steps.

LEMMA Seen ==
  ASSUME IInv, NEW s \in Session
  PROVE  Sound(View(s)) /\ Evidence(db) \subseteq View(s)
  BY StoreAssumption DEF IInv, View, Evidence

\* A flush keeps the invariant when the rows it leaves are sound and keep what
\* evidence the session saw.
LEMMA FlushKeeps ==
  ASSUME IInv, NEW s \in Session, NEW rows, Flush(s, rows),
         Sound(rows), Evidence(View(s)) \subseteq rows
  PROVE  IInv'
<1>1. Evidence(db) \subseteq rows
  BY Seen DEF Evidence
<1> QED BY <1>1, StoreAssumption DEF IInv, Flush, ReadsItsTable, Evidence, Sound

LEMMA AddKeeps ==
  ASSUME IInv, NEW s \in Session, NEW t \in Table, NEW id, NEW refs, NEW v,
         \A k \in refs : k[1] # "artifacts", Add(s, Entity(t, id, refs, v))
  PROVE  IInv'
<1> DEFINE row == Entity(t, id, refs, v)
<1>1. row.table = t /\ row.refs = refs
  BY DEF Entity
<1>2. /\ refs \subseteq Keys(View(s))
      /\ t = "report_run_configuration_snapshots" =>
           \A other \in InTable(View(s), t) : other.refs # refs
  BY <1>1 DEF Add, Insertable
<1>3. Sound(View(s) \cup {row})
  BY <1>2, Seen, InsertSound
<1> HIDE DEF row
<1> QED BY <1>3, FlushKeeps DEF Add, Evidence, row

\* A row that no trigger guards is no evidence.
LEMMA UnguardedIsNone ==
  ASSUME NEW rows, Sound(rows), NEW row \in rows, ~Guarded(row)
  PROVE  row \notin Evidence(rows)
  BY DEF Sound, Guarded, Evidence, Table

LEMMA Initially == Init => IInv
  BY DEF Init, IInv, Sound, InTable, ReadsItsTable

LEMMA Inserts ==
  ASSUME IInv, NEW s \in Session,
         \/ AddSource(s) \/ AddRun(s) \/ AddSnapshot(s) \/ AppendOutcome(s)
         \/ AddArtifact(s) \/ AppendAudit(s)
  PROVE  IInv'
<1>1. CASE AddSource(s)
  <2> PICK id \in Source : Add(s, Entity("raw_source_records", id, {}, None))
    BY <1>1 DEF AddSource
  <2> QED BY AddKeeps DEF Table, IMMUTABLE_TABLES
<1>2. CASE AddRun(s)
  <2>1. PICK id \in Run, prior \in SUBSET Run :
            Add(s, Entity("report_runs", id, {TheRun(p) : p \in prior}, Initial))
    BY <1>2 DEF AddRun
  <2>2. \A k \in {TheRun(p) : p \in prior} : k[1] # "artifacts"
    BY DEF TheRun
  <2> QED BY <2>1, <2>2, AddKeeps DEF Table, IMMUTABLE_TABLES
<1>3. CASE AddSnapshot(s)
  <2>1. PICK id \in Snapshot, r \in Run :
            Add(s, Entity("report_run_configuration_snapshots", id, {TheRun(r)}, None))
    BY <1>3 DEF AddSnapshot
  <2>2. \A k \in {TheRun(r)} : k[1] # "artifacts"
    BY DEF TheRun
  <2> QED BY <2>1, <2>2, AddKeeps DEF Table, IMMUTABLE_TABLES
<1>4. CASE AppendOutcome(s)
  <2>1. PICK id \in Outcome, from \in Source, r \in Run, prior \in SUBSET Outcome :
            Add(s, Entity("processing_outcomes", id,
                          {<<"raw_source_records", from>>, TheRun(r)}
                            \cup {<<"processing_outcomes", p>> : p \in prior}, None))
    BY <1>4 DEF AppendOutcome
  <2> DEFINE refs == {<<"raw_source_records", from>>, TheRun(r)}
                        \cup {<<"processing_outcomes", p>> : p \in prior}
  <2>2. \A k \in refs : k[1] # "artifacts"
    BY DEF TheRun
  <2> HIDE DEF refs
  <2> QED BY <2>1, <2>2, AddKeeps DEF Table, IMMUTABLE_TABLES, refs
<1>5. CASE AddArtifact(s)
  <2>1. PICK id \in Artifact, r \in Run, v \in ArtifactValue :
            Add(s, Entity("artifacts", id, {TheRun(r)}, v))
    BY <1>5 DEF AddArtifact
  <2>2. \A k \in {TheRun(r)} : k[1] # "artifacts"
    BY DEF TheRun
  <2> QED BY <2>1, <2>2, AddKeeps DEF Table, IMMUTABLE_TABLES
<1>6. CASE AppendAudit(s)
  BY <1>6, AddKeeps DEF AppendAudit, Table, IMMUTABLE_TABLES
<1> QED BY <1>1, <1>2, <1>3, <1>4, <1>5, <1>6

LEMMA Reads ==
  ASSUME IInv, NEW s \in Session,
         ReadForCompletion(s) \/ ReadForDeletion(s) \/ ReadForEvent(s)
  PROVE  IInv'
<1> SUFFICES ASSUME NEW call, NEW row, NEW to, Read(s, call, row, to),
                    call \in {"complete", "delete"} => row.table = "artifacts",
                    call = "record_state_event" => row.table = "report_runs"
             PROVE  IInv'
  <2>1. CASE ReadForCompletion(s)
    BY <2>1 DEF ReadForCompletion, InTable
  <2>2. CASE ReadForDeletion(s)
    BY <2>2 DEF ReadForDeletion, InTable
  <2>3. CASE ReadForEvent(s)
    BY <2>3 DEF ReadForEvent, InTable
  <2> QED BY <2>1, <2>2, <2>3
<1> DEFINE pending == [call |-> call, row |-> row, to |-> to]
<1>1. pending.call = call /\ pending.row = row
  OBVIOUS
<1> HIDE DEF pending
<1>2. /\ reading' = [reading EXCEPT ![s] = pending]
      /\ db' = db /\ work' = work /\ writer' = writer
  BY DEF Read, pending
<1>3. ReadsItsTable' /\ reading' = [q \in Session |-> reading'[q]]
  BY <1>1, <1>2 DEF IInv, ReadsItsTable
<1> QED BY <1>2, <1>3 DEF IInv

LEMMA Updates ==
  ASSUME IInv, NEW s \in Session, Complete(s) \/ DirectUpdate(s)
  PROVE  IInv'
<1> SUFFICES ASSUME NEW row \in View(s), NEW v, ~Guarded(row),
                    Flush(s, Updated(View(s), row, v))
             PROVE  IInv'
  BY DEF Complete, DirectUpdate
<1>1. Sound(Updated(View(s), row, v))
  BY Seen, UpdateSound
<1>2. Evidence(View(s)) \subseteq Updated(View(s), row, v)
  BY Seen, UnguardedIsNone DEF Updated, Evidence
<1> QED BY <1>1, <1>2, FlushKeeps

LEMMA Deletes ==
  ASSUME IInv, NEW s \in Session, Delete(s) \/ DirectDelete(s)
  PROVE  IInv'
<1>1. PICK gone \in SUBSET View(s) :
         /\ Flush(s, View(s) \ gone)
         /\ \A row \in gone : ~Guarded(row)
         /\ \A row \in gone : \A other \in View(s) : Key(row) \notin other.refs
  <2>1. CASE Delete(s)
    <3> DEFINE gone == {row \in View(s) : Key(row) = Key(reading[s].row)}
    <3>1. \A row \in gone : Key(row)[1] = "artifacts"
      BY <2>1 DEF Delete, Pending, IInv, ReadsItsTable, Key
    <3>2. \A row \in gone : \A other \in View(s) : Key(row) \notin other.refs
      BY <3>1, Seen DEF Sound
    <3> QED BY <2>1, <3>2 DEF Delete
  <2>2. CASE DirectDelete(s)
    <3> PICK row \in View(s) : /\ ~Guarded(row) /\ ~Referenced(View(s), row)
                               /\ Flush(s, View(s) \ {row})
      BY <2>2 DEF DirectDelete
    <3> WITNESS {row} \in SUBSET View(s)
    <3> QED BY DEF Referenced
  <2> QED BY <2>1, <2>2
<1>2. Sound(View(s) \ gone)
  BY <1>1, Seen, DeleteSound
<1>3. Evidence(View(s)) \subseteq View(s) \ gone
  BY <1>1, Seen, UnguardedIsNone DEF Evidence
<1> QED BY <1>1, <1>2, <1>3, FlushKeeps

LEMMA Events ==
  ASSUME IInv, NEW s \in Session, RecordStateEvent(s)
  PROVE  IInv'
<1>1. PICK row \in View(s) :
         /\ Key(row) = Key(reading[s].row)
         /\ Flush(s, Projected(View(s), row, reading[s].row, reading[s].to)
                       \cup {Entity("run_state_events", Next_id(View(s), "run_state_events"),
                                     {Key(row)}, reading[s].to)})
  BY DEF RecordStateEvent
<1> DEFINE rows == Projected(View(s), row, reading[s].row, reading[s].to)
           n == Next_id(View(s), "run_state_events")
           to == reading[s].to
<1>2. row.table = "report_runs"
  BY <1>1 DEF RecordStateEvent, Pending, IInv, ReadsItsTable, Key
<1>3. Sound(rows) /\ Keys(rows) = Keys(View(s))
  BY Seen, UpdateSound DEF Projected
<1>4. Evidence(View(s)) \subseteq rows
  BY <1>2 DEF Projected, Updated, Evidence
<1> HIDE DEF rows, n, to
<1>5. {Key(row)} \subseteq Keys(rows) /\ \A k \in {Key(row)} : k[1] # "artifacts"
  <2>1. Key(row) \in Keys(View(s))
    BY DEF Keys
  <2>2. Key(row)[1] = "report_runs"
    BY <1>2 DEF Key
  <2> QED BY <1>3, <2>1, <2>2
<1>6. Sound(rows \cup {Entity("run_state_events", n, {Key(row)}, to)})
  BY <1>3, <1>5, InsertSound DEF Table, IMMUTABLE_TABLES
<1>7. Flush(s, rows \cup {Entity("run_state_events", n, {Key(row)}, to)})
  BY <1>1 DEF rows, n, to
<1> QED BY <1>4, <1>6, <1>7, FlushKeeps

LEMMA Ends ==
  ASSUME IInv, (\E s \in Session : Commit(s) \/ Rollback(s)) \/ Crash \/ UNCHANGED vars
  PROVE  IInv'
<1>1. ASSUME NEW s \in Session, Commit(s) PROVE IInv'
  BY <1>1, StoreAssumption DEF IInv, Commit, ReadsItsTable
<1>2. ASSUME NEW s \in Session, Rollback(s) PROVE IInv'
  BY <1>2, StoreAssumption DEF IInv, Rollback, ReadsItsTable
<1>3. CASE Crash
  BY <1>3 DEF IInv, Crash, ReadsItsTable
<1>4. CASE UNCHANGED vars
  BY <1>4 DEF IInv, vars, ReadsItsTable
<1> QED BY <1>1, <1>2, <1>3, <1>4

LEMMA Steps == IInv /\ [Next]_vars => IInv'
  BY Inserts, Reads, Updates, Deletes, Events, Ends DEF Next

LEMMA Always == Spec => []IInv
<1>1. IInv /\ [Next]_vars => IInv'
  BY Steps
<1> QED BY Initially, <1>1, PTL DEF Spec

-----------------------------------------------------------------------------
\* The states of runs.

Backed(rows) ==
  \A run \in InTable(rows, "report_runs") :
    \/ run.value = Initial
    \/ \E e \in InTable(rows, "run_state_events") : e.refs = {Key(run)} /\ e.value = run.value

BInv == Backed(db) /\ (writer # None => Backed(work))

\* A set of rows stays backed when its new rows are no runs, or runs in the initial
\* state, or runs whose state an event gives, and it keeps the events.
LEMMA StaysBacked ==
  ASSUME NEW old, Backed(old), NEW rows,
         InTable(old, "run_state_events") \subseteq rows,
         \A run \in InTable(rows, "report_runs") \ old :
           \/ run.value = Initial
           \/ \E e \in InTable(rows, "run_state_events") :
                e.refs = {Key(run)} /\ e.value = run.value
  PROVE  Backed(rows)
  BY DEF Backed, InTable

LEMMA FlushBacks ==
  ASSUME BInv, NEW s \in Session, NEW rows, Flush(s, rows), Backed(rows)
  PROVE  BInv'
  BY StoreAssumption DEF BInv, Flush, Backed

LEMMA SeenBacked ==
  ASSUME BInv, NEW s \in Session
  PROVE  Backed(View(s))
  BY StoreAssumption DEF BInv, View

LEMMA AddBacks ==
  ASSUME BInv, NEW s \in Session, NEW t, NEW id, NEW refs, NEW v,
         t = "report_runs" => v = Initial, Add(s, Entity(t, id, refs, v))
  PROVE  BInv'
<1> DEFINE row == Entity(t, id, refs, v)
<1>1. row.table = t /\ row.value = v
  BY DEF Entity
<1> HIDE DEF row
<1>2. Backed(View(s) \cup {row})
  BY <1>1, SeenBacked, StaysBacked DEF InTable
<1> QED BY <1>2, FlushBacks DEF Add, row

LEMMA InsertsBack ==
  ASSUME BInv, NEW s \in Session,
         \/ AddSource(s) \/ AddRun(s) \/ AddSnapshot(s) \/ AppendOutcome(s)
         \/ AddArtifact(s) \/ AppendAudit(s)
  PROVE  BInv'
<1>1. CASE AddSource(s) BY <1>1, AddBacks DEF AddSource
<1>2. CASE AddRun(s) BY <1>2, AddBacks DEF AddRun
<1>3. CASE AddSnapshot(s) BY <1>3, AddBacks DEF AddSnapshot
<1>4. CASE AppendOutcome(s)
  <2>1. PICK id, refs : Add(s, Entity("processing_outcomes", id, refs, None))
    BY <1>4 DEF AppendOutcome
  <2> QED BY <2>1, AddBacks
<1>5. CASE AddArtifact(s) BY <1>5, AddBacks DEF AddArtifact
<1>6. CASE AppendAudit(s) BY <1>6, AddBacks DEF AppendAudit
<1> QED BY <1>1, <1>2, <1>3, <1>4, <1>5, <1>6

\* What becomes of artifacts, and of rows no trigger guards, concerns no run.
LEMMA ChangesBack ==
  ASSUME IInv, BInv, NEW s \in Session,
         Complete(s) \/ DirectUpdate(s) \/ Delete(s) \/ DirectDelete(s)
  PROVE  BInv'
<1>1. CASE Complete(s) \/ DirectUpdate(s)
  <2>1. PICK row, v : /\ row \in View(s) /\ row.table = "artifacts"
                      /\ Flush(s, Updated(View(s), row, v))
    <3>1. CASE Complete(s)
      BY <3>1 DEF Complete, Pending, IInv, ReadsItsTable, Key
    <3>2. CASE DirectUpdate(s)
      BY <3>2 DEF DirectUpdate
    <3> QED BY <1>1, <3>1, <3>2
  <2> DEFINE new == [row EXCEPT !.value = v]
  <2>2. new.table = "artifacts"
    BY <2>1, Seen, EntityOf DEF Sound, Entity
  <2> HIDE DEF new
  <2>3. Updated(View(s), row, v) = (View(s) \ {row}) \cup {new}
    BY DEF Updated, new
  <2>4. Backed((View(s) \ {row}) \cup {new})
    BY <2>1, <2>2, SeenBacked, StaysBacked DEF InTable
  <2> QED BY <2>1, <2>3, <2>4, FlushBacks
<1>2. CASE Delete(s) \/ DirectDelete(s)
  <2>1. PICK gone \in SUBSET View(s) : /\ \A row \in gone : ~Guarded(row)
                                       /\ Flush(s, View(s) \ gone)
    <3>1. CASE Delete(s)
      BY <3>1 DEF Delete
    <3>2. CASE DirectDelete(s)
      BY <3>2 DEF DirectDelete
    <3> QED BY <1>2, <3>1, <3>2
  <2>2. Backed(View(s) \ gone)
    BY <2>1, SeenBacked, StaysBacked DEF InTable, Guarded, IMMUTABLE_TABLES
  <2> QED BY <2>1, <2>2, FlushBacks
<1> QED BY <1>1, <1>2

\* The event is inserted by the statement after the projection, in one flush.
LEMMA EventsBack ==
  ASSUME IInv, BInv, NEW s \in Session, RecordStateEvent(s)
  PROVE  BInv'
<1>1. PICK row \in View(s) :
         /\ Key(row) = Key(reading[s].row)
         /\ Flush(s, Projected(View(s), row, reading[s].row, reading[s].to)
                       \cup {Entity("run_state_events", Next_id(View(s), "run_state_events"),
                                     {Key(row)}, reading[s].to)})
  BY DEF RecordStateEvent
<1> DEFINE to == reading[s].to
           seen == reading[s].row
           new == [row EXCEPT !.value = to]
           e == Entity("run_state_events", Next_id(View(s), "run_state_events"), {Key(row)}, to)
           rows == Projected(View(s), row, seen, to) \cup {e}
<1>2. row.table = "report_runs"
  BY <1>1 DEF RecordStateEvent, Pending, IInv, ReadsItsTable, Key
<1>3. e.table = "run_state_events" /\ e.refs = {Key(row)} /\ e.value = to
  BY DEF Entity
<1>4. Key(new) = Key(row) /\ new.value = to /\ new.table = "report_runs"
  BY <1>2, Seen, EntityOf DEF Sound, Entity, Key
<1>5. rows \subseteq View(s) \cup {new, e} /\ View(s) \ {row} \subseteq rows /\ e \in rows
  BY DEF Projected, Updated
<1>6. Flush(s, rows)
  BY <1>1
<1> HIDE DEF to, seen, new, e, rows
<1>7. Backed(rows)
  <2>1. InTable(View(s), "run_state_events") \subseteq rows
    BY <1>2, <1>5 DEF InTable
  <2>2. e \in InTable(rows, "run_state_events")
    BY <1>3, <1>5 DEF InTable
  <2>3. \A run \in InTable(rows, "report_runs") \ View(s) : run = new
    BY <1>3, <1>5 DEF InTable
  <2> QED BY <1>3, <1>4, <2>1, <2>2, <2>3, SeenBacked, StaysBacked
<1> QED BY <1>6, <1>7, FlushBacks

LEMMA StepsBack == IInv /\ BInv /\ [Next]_vars => BInv'
<1> SUFFICES ASSUME IInv, BInv, [Next]_vars PROVE BInv'
  OBVIOUS
<1>1. ASSUME NEW s \in Session, Commit(s) \/ Rollback(s) PROVE BInv'
  BY <1>1, StoreAssumption DEF BInv, Commit, Rollback, Backed
<1>2. ASSUME NEW s \in Session, ReadForCompletion(s) \/ ReadForDeletion(s) \/ ReadForEvent(s)
      PROVE  BInv'
  BY <1>2 DEF BInv, ReadForCompletion, ReadForDeletion, ReadForEvent, Read, Backed
<1>3. CASE Crash \/ UNCHANGED vars
  BY <1>3 DEF BInv, Crash, vars, Backed
<1> QED BY <1>1, <1>2, <1>3, InsertsBack, ChangesBack, EventsBack DEF Next

-----------------------------------------------------------------------------
\* Theorems.

\* Whatever the sessions delete or roll back, every foreign key of a committed row
\* names a committed row.
THEOREM ReferencesAlwaysResolve == Spec => []ReferencesResolve
<1>1. IInv => ReferencesResolve
  BY DEF IInv, Sound, ReferencesResolve
<1> QED BY <1>1, Always, PTL

\* However many sessions select a configuration for a run, one selection is kept.
THEOREM SnapshotAlwaysUnique == Spec => []OneSnapshotPerRun
<1>1. IInv => OneSnapshotPerRun
  BY DEF IInv, Sound, OneSnapshotPerRun
<1> QED BY <1>1, Always, PTL

\* The state a committed run shows is the initial one or one of its events gives it,
\* whichever sessions record events on what they have read.
THEOREM StateAlwaysBacked == Spec => []StateIsBacked
<1>1. Init => BInv
  BY DEF Init, BInv, Backed, InTable
<1>2. BInv => StateIsBacked
  BY DEF BInv, Backed, StateIsBacked
<1> QED BY <1>1, <1>2, Always, StepsBack, PTL DEF Spec

\* No step of any session, and no crash, changes or removes committed evidence.
THEOREM EvidenceAlwaysStands == Spec => EvidenceStands
<1>1. ASSUME IInv, [Next]_vars PROVE [Evidence(db) \subseteq db']_db
  <2>1. ASSUME NEW s \in Session, Commit(s) PROVE Evidence(db) \subseteq db'
    BY <1>1, <2>1, StoreAssumption DEF IInv, Commit
  <2>2. ASSUME ~ \E s \in Session : Commit(s) PROVE db' = db
    <3>1. ASSUME NEW s \in Session, \/ AddSource(s) \/ AddRun(s) \/ AddSnapshot(s)
                                    \/ AppendOutcome(s) \/ AddArtifact(s) \/ AppendAudit(s)
          PROVE  db' = db
      BY <3>1 DEF AddSource, AddRun, AddSnapshot, AppendOutcome, AddArtifact, AppendAudit,
                  Add, Flush
    <3>2. ASSUME NEW s \in Session, \/ ReadForCompletion(s) \/ ReadForDeletion(s)
                                    \/ ReadForEvent(s)
          PROVE  db' = db
      BY <3>2 DEF ReadForCompletion, ReadForDeletion, ReadForEvent, Read
    <3>3. ASSUME NEW s \in Session, \/ Complete(s) \/ Delete(s) \/ RecordStateEvent(s)
                                    \/ DirectDelete(s) \/ DirectUpdate(s)
          PROVE  db' = db
      BY <3>3 DEF Complete, Delete, RecordStateEvent, DirectDelete, DirectUpdate, Flush
    <3>4. ASSUME (\E s \in Session : Rollback(s)) \/ Crash \/ UNCHANGED vars
          PROVE  db' = db
      BY <3>4 DEF Rollback, Crash, vars
    <3> QED BY <1>1, <2>2, <3>1, <3>2, <3>3, <3>4 DEF Next
  <2> QED BY <2>1, <2>2
<1>2. IInv /\ [Next]_vars => [Evidence(db) \subseteq db']_db
  BY <1>1
<1> QED BY <1>2, Always, PTL DEF Spec, EvidenceStands
=============================================================================
