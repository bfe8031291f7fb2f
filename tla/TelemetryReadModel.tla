---------------------------- MODULE TelemetryReadModel ----------------------------
(***************************************************************************)
(* The telemetry log and the SQLite read model that indexes it.  A sink    *)
(* appends events to the log, an append may fail half-way and the next one *)
(* goes on behind it.  Events reach the read model in any order and more   *)
(* than once: from the log, from bundles of other machines, or directly.   *)
(* Each batch is one transaction, taken event by event; it may be rolled   *)
(* back anywhere.  What was projected is merged into the rows of the run   *)
(* and of the artifacts the event names.                                   *)
(*                                                                         *)
(* Columns that only copy what an event says (task, revision, workflow,    *)
(* the metrics of a model call) are left out.  Timestamps are compared as  *)
(* text by the code; here they are numbers, that is, all in one format.    *)
(***************************************************************************)
EXTENDS Integers, FiniteSets, JsonLines

CONSTANTS TelemetryEvents,   \* the events there are
          Batches,           \* the batches that are ingested beside the log
          NoRow,             \* a run or artifact that is not indexed
          NoBatch,           \* no transaction is open
          MaxLines           \* appends to the log (bound)

EventTypes == {"run.started", "run.completed", "human.required",
               "model.call.completed", "artifact.created", "artifact.invalidated",
               "artifact.reused"}

Runs      == {e.run : e \in TelemetryEvents}
Artifacts == UNION {e.artifacts : e \in TelemetryEvents}

ASSUME TelemetryAssumption ==
    /\ \A e \in TelemetryEvents : e.timestamp \in Nat /\ e.type \in EventTypes
    /\ Runs \cap Artifacts = {}
    /\ Batches \subseteq Seq(TelemetryEvents)
    /\ MaxLines \in Nat

(* The rows: what the events of a run, and of an artifact, come to.        *)
RunRows == [first : Nat, last : Nat, human : BOOLEAN, events : Nat, calls : Nat,
            status : {"NONE", "HUMAN_REQUIRED", "RUNNING", "COMPLETED"},
            lastType : EventTypes]

ArtifactRows == [run : Runs, first : Nat, last : Nat, lastEvent : TelemetryEvents,
                 state : {"OBSERVED", "CREATED", "INVALIDATED", "REUSED"}]

ASSUME NoRowAssumption == NoRow \notin RunRows /\ NoRow \notin ArtifactRows

VARIABLES log,        \* the log file
          appends,    \* appends so far
          logged,     \* events the sink reported as appended (history)
          readModel,      \* the committed tables
          batch,      \* the open transaction: events left, its tables, and the
                      \* logged events that a log import has to bring
          imported    \* logged events an import reported as indexed (history)

telemetryVars == <<log, appends, logged, readModel, batch, imported>>

EmptyIndex == [events |-> {}, runs |-> [r \in Runs |-> NoRow],
               artifacts |-> [a \in Artifacts |-> NoRow]]

TelemetryInit == /\ log = EmptyFile
                 /\ appends = 0
                 /\ logged = {}
                 /\ readModel = EmptyIndex
                 /\ batch = NoBatch
                 /\ imported = {}

(* The sink's queue goes on after an append that failed.                   *)
AppendEvent(e) ==
    /\ appends < MaxLines
    /\ appends' = appends + 1
    /\ \/ log' = Appended(log, e) /\ logged' = logged \cup {e}
       \/ log' \in Torn(log, e) /\ UNCHANGED logged
    /\ UNCHANGED <<readModel, batch, imported>>

(* What an event says of the state of its run and of its artifacts.        *)
NoState == "NONE"

RunStatus(e) == CASE e.type = "human.required" -> "HUMAN_REQUIRED"
                  [] e.type = "run.started"    -> "RUNNING"
                  [] e.type = "run.completed"  -> "COMPLETED"
                  [] OTHER                     -> NoState

ArtifactState(e) == CASE e.type = "artifact.created"     -> "CREATED"
                      [] e.type = "artifact.invalidated" -> "INVALIDATED"
                      [] e.type = "artifact.reused"      -> "REUSED"
                      [] OTHER                           -> "OBSERVED"

Earlier(s, t) == IF s <= t THEN s ELSE t
Later(s, t)   == IF s >= t THEN s ELSE t

One(condition) == IF condition THEN 1 ELSE 0

ProjectRun(row, e) ==
    IF row = NoRow
    THEN [first |-> e.timestamp, last |-> e.timestamp, status |-> RunStatus(e),
          human |-> e.type = "human.required", events |-> 1,
          calls |-> One(e.type = "model.call.completed"), lastType |-> e.type]
    ELSE [first    |-> Earlier(row.first, e.timestamp),
          last     |-> Later(row.last, e.timestamp),
          status   |-> IF e.timestamp >= row.last /\ RunStatus(e) # NoState
                       THEN RunStatus(e) ELSE row.status,
          human    |-> row.human \/ e.type = "human.required",
          events   |-> row.events + 1,
          calls    |-> row.calls + One(e.type = "model.call.completed"),
          lastType |-> IF e.timestamp >= row.last THEN e.type ELSE row.lastType]

ProjectArtifact(row, e) ==
    IF row = NoRow
    THEN [run |-> e.run, first |-> e.timestamp, last |-> e.timestamp,
          state |-> ArtifactState(e), lastEvent |-> e]
    ELSE [run       |-> e.run,
          first     |-> Earlier(row.first, e.timestamp),
          last      |-> Later(row.last, e.timestamp),
          state     |-> IF e.timestamp >= row.last /\ ArtifactState(e) # "OBSERVED"
                        THEN ArtifactState(e) ELSE row.state,
          lastEvent |-> IF e.timestamp >= row.last THEN e ELSE row.lastEvent]

(* An event that is in the table already changes nothing.                  *)
Ingest(tables, e) ==
    IF e \in tables.events THEN tables
    ELSE [events    |-> tables.events \cup {e},
          runs      |-> [tables.runs EXCEPT ![e.run] = ProjectRun(@, e)],
          artifacts |-> [a \in Artifacts |-> IF a \in e.artifacts
                                             THEN ProjectArtifact(tables.artifacts[a], e)
                                             ELSE tables.artifacts[a]]]

BeginBatch(events, owed) ==
    /\ batch = NoBatch
    /\ batch' = [todo |-> events, tables |-> readModel, owed |-> owed]
    /\ UNCHANGED <<log, appends, logged, readModel, imported>>

(* The import that recovers leaves an open last line out that is no JSON;  *)
(* anything else that does not parse makes it throw.                       *)
ImportJsonlRecovering == EndedLinesParse(log) /\ BeginBatch(Records(log), logged)

IngestMany == \E events \in Batches : BeginBatch(events, {})

IngestNext == /\ batch # NoBatch
              /\ batch.todo # <<>>
              /\ batch' = [batch EXCEPT !.todo = Tail(@),
                                        !.tables = Ingest(@, Head(batch.todo))]
              /\ UNCHANGED <<log, appends, logged, readModel, imported>>

(* A bug: what was projected so far stays.                                 *)
RollbackBatchKeepsRows ==
    /\ batch # NoBatch
    /\ readModel' = [batch.tables EXCEPT !.events = readModel.events]
    /\ batch' = NoBatch
    /\ UNCHANGED <<log, appends, logged, imported>>

(* A statement fails, an event is invalid, or the process dies.            *)
RollbackBatch == /\ batch # NoBatch
                 /\ batch' = NoBatch
                 /\ UNCHANGED <<log, appends, logged, readModel, imported>>

CommitBatch == /\ batch # NoBatch
               /\ batch.todo = <<>>
               /\ readModel' = batch.tables
               /\ imported' = imported \cup batch.owed
               /\ batch' = NoBatch
               /\ UNCHANGED <<log, appends, logged>>

TelemetryNext == \/ \E e \in TelemetryEvents : AppendEvent(e)
                 \/ ImportJsonlRecovering
                 \/ IngestMany
                 \/ IngestNext
                 \/ RollbackBatch
                 \/ CommitBatch

TelemetrySpec == TelemetryInit /\ [][TelemetryNext]_telemetryVars
-----------------------------------------------------------------------------
(* The state that a row shows is one that an event of its subject tells;   *)
(* and where an event with the latest timestamp of all tells one, it is    *)
(* that: no event that is older overwrites it.                             *)
ShowsState(events, last, State(_), none, shown) ==
    LET decisive == {e \in events : e.timestamp = last /\ State(e) # none}
    IN  IF decisive = {} THEN shown = none \/ \E e \in events : shown = State(e)
        ELSE \E e \in decisive : shown = State(e)

Bounds(row, events) == /\ \A e \in events : row.first <= e.timestamp /\ e.timestamp <= row.last
                       /\ \E e \in events : e.timestamp = row.first
                       /\ \E e \in events : e.timestamp = row.last

RunRowAgrees(tables, r) ==
    LET events == {e \in tables.events : e.run = r}
        row    == tables.runs[r]
    IN  IF events = {} THEN row = NoRow
        ELSE /\ Bounds(row, events)
             /\ ShowsState(events, row.last, RunStatus, NoState, row.status)
             /\ row.human <=> \E e \in events : e.type = "human.required"
             /\ row.events = Cardinality(events)
             /\ row.calls = Cardinality({e \in events : e.type = "model.call.completed"})
             /\ \E e \in events : e.timestamp = row.last /\ e.type = row.lastType

ArtifactRowAgrees(tables, a) ==
    LET events == {e \in tables.events : a \in e.artifacts}
        row    == tables.artifacts[a]
    IN  IF events = {} THEN row = NoRow
        ELSE /\ Bounds(row, events)
             /\ ShowsState(events, row.last, ArtifactState, "OBSERVED", row.state)
             /\ row.lastEvent \in events /\ row.lastEvent.timestamp = row.last
             /\ \E e \in events : e.run = row.run

(* The read model agrees with the events, whatever order they came in, how *)
(* often, and however many batches were rolled back: every row counts its  *)
(* events once, lies between the first and the last of them and shows what *)
(* one of them tells, the last if it tells anything; and nothing that the  *)
(* sink reported as appended before a successful import of the log is      *)
(* missing, although appends failed half-way before it.                    *)
IndexAgreesWithLog ==
    /\ imported \subseteq readModel.events
    /\ \A r \in Runs : RunRowAgrees(readModel, r)
    /\ \A a \in Artifacts : ArtifactRowAgrees(readModel, a)

(* "Artifacts track first/last observation and latest lifecycle state": of *)
(* the events that tell a state of an artifact, its row shows a latest     *)
(* one, whatever order they came in.  It does not: an event that is older  *)
(* than one that tells no state is taken for overtaken.                    *)
ArtifactsShowLatestState ==
    \A a \in Artifacts :
        LET telling == {e \in readModel.events :
                           a \in e.artifacts /\ ArtifactState(e) # "OBSERVED"}
        IN  telling # {} =>
                \E e \in telling : /\ readModel.artifacts[a].state = ArtifactState(e)
                                   /\ \A f \in telling : f.timestamp <= e.timestamp

Tables == [events    : SUBSET TelemetryEvents,
           runs      : [Runs -> RunRows \cup {NoRow}],
           artifacts : [Artifacts -> ArtifactRows \cup {NoRow}]]

TelemetryTypeOK ==
    /\ log \in Files(TelemetryEvents)
    /\ appends \in 0..MaxLines
    /\ logged \subseteq TelemetryEvents
    /\ readModel \in Tables
    /\ batch # NoBatch => batch \in [todo : Seq(TelemetryEvents), tables : Tables,
                                    owed : SUBSET logged]
    /\ imported \subseteq logged
=================================================================================
