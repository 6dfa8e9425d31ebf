---------------------------- MODULE EvidenceStore ----------------------------
(***************************************************************************)
(* The evidence database: repositories called by several sessions, each     *)
(* inside a session_scope, over SQLite in WAL mode.  A SELECT before the    *)
(* first write of a scope sees the latest commit and holds nothing; the     *)
(* first write takes the one write lock and keeps it to the commit or the   *)
(* rollback.  A method that reads and then flushes is therefore two steps,  *)
(* with other sessions' commits between them.                               *)
(*                                                                          *)
(* A row is its table, its id, the keys its foreign keys name and the one   *)
(* value that may change (a run's state, an artifact's status and hash).    *)
(***************************************************************************)
EXTENDS Naturals, FiniteSets

CONSTANTS Session, Run, Source, Snapshot, Outcome, Artifact,   \* identifiers
          State,      \* RunState
          Initial,    \* the state a run is added in
          Hash,       \* artifact hashes
          MaxEvents,  \* bound on run state events
          MaxRows,    \* bound on the rows of all tables
          None

ASSUME StoreAssumption == /\ Initial \in State /\ MaxEvents \in Nat /\ MaxRows \in Nat
                          /\ None \notin Session \cup State \cup Hash

VARIABLES db,       \* the committed rows
          writer,   \* the session that holds the write lock, or None
          work,     \* what that session sees: db with its own writes
          reading   \* reading[s]: the call of s between its read and its flush

vars == <<db, writer, work, reading>>

Key(row) == <<row.table, row.id>>
Keys(rows) == {Key(row) : row \in rows}
InTable(rows, table) == {row \in rows : row.table = table}
Entity(table, id, refs, value) == [table |-> table, id |-> id, refs |-> refs, value |-> value]
TheRun(r) == <<"report_runs", r>>

Status == {"started", "failed", "completed"}
ArtifactValue == {v \in [status : Status, hash : Hash \cup {None}] :
                    v.status = "completed" => v.hash # None}

(***************************************************************************)
(* What the database refuses.                                               *)
(***************************************************************************)
IMMUTABLE_TABLES == {"raw_source_records", "report_run_configuration_snapshots",
                     "processing_outcomes", "run_state_events", "audit_ledger"}

\* Mutant of Guarded: no trigger on artifacts, whose guard is then the status a session read.
GuardedTables(row) == row.table \in IMMUTABLE_TABLES

\* The triggers: UPDATE and DELETE of such a row abort.
Guarded(row) == \/ row.table \in IMMUTABLE_TABLES
                \/ row.table = "artifacts" /\ row.value.status = "completed"

Referenced(rows, row) == \E other \in rows : Key(row) \in other.refs

\* Mutant of Insertable: connections without PRAGMA foreign_keys.
InsertableUnchecked(rows, row) ==
  /\ Cardinality(rows) < MaxRows
  /\ Key(row) \notin Keys(rows)

\* Primary keys, foreign keys, and one snapshot for a run.
Insertable(rows, row) ==
  /\ Cardinality(rows) < MaxRows
  /\ Key(row) \notin Keys(rows)
  /\ row.refs \subseteq Keys(rows)
  /\ row.table = "report_run_configuration_snapshots" =>
       \A other \in InTable(rows, row.table) : other.refs # row.refs

(***************************************************************************)
(* Sessions.                                                                *)
(***************************************************************************)
View(s) == IF writer = s THEN work ELSE db

\* A flush: waits for the lock, and holds it from then on.
Flush(s, rows) == /\ writer \in {None, s}
                  /\ writer' = s /\ work' = rows
                  /\ reading' = [reading EXCEPT ![s] = None]
                  /\ UNCHANGED db

Add(s, row) == /\ reading[s] = None
               /\ Insertable(View(s), row)
               /\ Flush(s, View(s) \cup {row})

Commit(s) == /\ writer = s /\ reading[s] = None
             /\ db' = work /\ writer' = None /\ work' = {}
             /\ UNCHANGED reading

\* An exception leaves the scope: a refused statement, a method that refuses, a
\* lock not granted in time, or one of the caller's own.
Rollback(s) == /\ writer = s \/ reading[s] # None
               /\ writer' = IF writer = s THEN None ELSE writer
               /\ work' = IF writer = s THEN {} ELSE work
               /\ reading' = [reading EXCEPT ![s] = None]
               /\ UNCHANGED db

\* The process stops; WAL recovery keeps what was committed.
Crash == /\ writer' = None /\ work' = {}
         /\ reading' = [s \in Session |-> None]
         /\ UNCHANGED db

(***************************************************************************)
(* The repositories.                                                        *)
(***************************************************************************)
Next_id(rows, table) == Cardinality(InTable(rows, table)) + 1

AddSource(s) == \E id \in Source : Add(s, Entity("raw_source_records", id, {}, None))

AddRun(s) == \E id \in Run, prior \in SUBSET Run :
  /\ Cardinality(prior) <= 1
  /\ Add(s, Entity("report_runs", id, {TheRun(p) : p \in prior}, Initial))

AddSnapshot(s) == \E id \in Snapshot, r \in Run :
  Add(s, Entity("report_run_configuration_snapshots", id, {TheRun(r)}, None))

AppendOutcome(s) == \E id \in Outcome, from \in Source, r \in Run, prior \in SUBSET Outcome :
  /\ Cardinality(prior) <= 1
  /\ Add(s, Entity("processing_outcomes", id,
                   {<<"raw_source_records", from>>, TheRun(r)}
                     \cup {<<"processing_outcomes", p>> : p \in prior}, None))

AddArtifact(s) == \E id \in Artifact, r \in Run, v \in ArtifactValue :
  Add(s, Entity("artifacts", id, {TheRun(r)}, v))

\* The audit ledger names runs and sources without a foreign key.
AppendAudit(s) ==
  Add(s, Entity("audit_ledger", Next_id(View(s), "audit_ledger"), {}, None))

\* The read of a method, and the value it is about to set.
Read(s, call, row, to) ==
  /\ reading[s] = None
  /\ reading' = [reading EXCEPT ![s] = [call |-> call, row |-> row, to |-> to]]
  /\ UNCHANGED <<db, writer, work>>

ReadForCompletion(s) == \E row \in InTable(View(s), "artifacts"), h \in Hash :
  /\ row.value.status # "completed"
  /\ Read(s, "complete", row, [status |-> "completed", hash |-> h])

ReadForDeletion(s) == \E row \in InTable(View(s), "artifacts") :
  /\ row.value.status # "completed"
  /\ Read(s, "delete", row, row.value)

ReadForEvent(s) == \E row \in InTable(View(s), "report_runs"), state \in State :
  /\ Next_id(View(s), "run_state_events") <= MaxEvents
  /\ Read(s, "record_state_event", row, state)

Pending(s, call) == reading[s] # None /\ reading[s].call = call

\* UPDATE of one row by its key; of none, and the session raises.
Updated(rows, row, value) == (rows \ {row}) \cup {[row EXCEPT !.value = value]}

Complete(s) ==
  /\ Pending(s, "complete")
  /\ \E row \in View(s) :
       /\ Key(row) = Key(reading[s].row) /\ ~Guarded(row)
       /\ Flush(s, Updated(View(s), row, reading[s].to))

\* Another session may have deleted it: then nothing is left to delete.
Delete(s) ==
  /\ Pending(s, "delete")
  /\ LET gone == {row \in View(s) : Key(row) = Key(reading[s].row)}
     IN /\ \A row \in gone : ~Guarded(row)
        /\ Flush(s, View(s) \ gone)

\* The unit of work writes only attributes that differ from what was read.
Projected(rows, row, seen, state) ==
  IF seen.value = state THEN rows ELSE Updated(rows, row, state)

\* Mutant: the projection first, the event with the next transaction.
ProjectStateOnly(s) ==
  /\ Pending(s, "record_state_event")
  /\ \E row \in View(s) :
       /\ Key(row) = Key(reading[s].row)
       /\ Flush(s, Projected(View(s), row, reading[s].row, reading[s].to))

RecordStateEvent(s) ==
  /\ Pending(s, "record_state_event")
  /\ \E row \in View(s) :
       /\ Key(row) = Key(reading[s].row)
       /\ LET n == Next_id(View(s), "run_state_events")
              state == reading[s].to
          IN /\ n <= MaxEvents /\ Cardinality(View(s)) < MaxRows
             /\ Flush(s, Projected(View(s), row, reading[s].row, state)
                           \cup {Entity("run_state_events", n, {Key(row)}, state)})

\* A statement that goes past the repositories, to any row but a run's columns.
DirectDelete(s) == \E row \in View(s) :
  /\ reading[s] = None
  /\ ~Guarded(row) /\ ~Referenced(View(s), row)
  /\ Flush(s, View(s) \ {row})

DirectUpdate(s) == \E row \in View(s), v \in ArtifactValue :
  /\ reading[s] = None
  /\ ~Guarded(row) /\ row.table = "artifacts"
  /\ Flush(s, Updated(View(s), row, v))

Init == /\ db = {} /\ writer = None /\ work = {}
        /\ reading = [s \in Session |-> None]

Next == \/ \E s \in Session :
             \/ Commit(s) \/ Rollback(s)
             \/ AddSource(s) \/ AddRun(s) \/ AddSnapshot(s) \/ AppendOutcome(s)
             \/ AddArtifact(s) \/ AppendAudit(s)
             \/ ReadForCompletion(s) \/ ReadForDeletion(s) \/ ReadForEvent(s)
             \/ Complete(s) \/ Delete(s) \/ RecordStateEvent(s)
             \/ DirectDelete(s) \/ DirectUpdate(s)
        \/ Crash

Spec == Init /\ [][Next]_vars

(***************************************************************************)
(* Properties.                                                              *)
(***************************************************************************)
Table == IMMUTABLE_TABLES \cup {"report_runs", "artifacts"}

\* No committed row names a row that is not there, whatever another session
\* deleted between two statements: foreign_keys is on for every connection.
ReferencesResolve == \A row \in db : row.refs \subseteq Keys(db)

\* Two sessions that select a configuration for the same run cannot both keep it.
OneSnapshotPerRun ==
  \A a, b \in InTable(db, "report_run_configuration_snapshots") : a.refs = b.refs => a = b

\* The state a run shows is the one it was added in or one some event gives: event
\* and projection are committed together or not at all.
StateIsBacked ==
  \A run \in InTable(db, "report_runs") :
    \/ run.value = Initial
    \/ \E e \in InTable(db, "run_state_events") : e.refs = {Key(run)} /\ e.value = run.value

\* "ReportRunModel.state is only a projection" of the state events: the state of a
\* run is that of its last event.  Does not hold: record_state_event sets the state
\* on the row it read, and a value equal to the one read is not written, though
\* another session has committed a different one since.
StateIsLastEvent ==
  \A run \in InTable(db, "report_runs") :
    \A e \in InTable(db, "run_state_events") :
      /\ e.refs = {Key(run)}
      /\ \A other \in InTable(db, "run_state_events") : other.refs = e.refs => other.id <= e.id
      => run.value = e.value

\* Evidence: every row but those of the two tables with a status, and of these the
\* completed artifacts.
Evidence(rows) == {row \in rows : \/ row.table \notin {"report_runs", "artifacts"}
                                  \/ row.table = "artifacts" /\ row.value.status = "completed"}

\* Committed evidence is neither changed nor removed, also when two sessions
\* complete or delete the artifact both of them read as started.
EvidenceStands == [][Evidence(db) \subseteq db']_db
=============================================================================
