----------------------------- MODULE TeamRuntime ----------------------------
(***************************************************************************)
(* runtime.py and the store traffic of conductor.py: processes that each   *)
(* enter a TeamRuntime, run goals in it - several at a time, interleaving  *)
(* at every await - and leave it; any of them may be killed.  All share    *)
(* one database file.  cli/app.py's inspect reads that file from a process *)
(* of its own, in three queries.                                           *)
(*                                                                         *)
(* A workflow is reduced to what it leaves in the store: an artifact, or   *)
(* an exception at any point.  TeamRun models it in full for one run.      *)
(***************************************************************************)
EXTENDS SQLiteStore

CONSTANTS
  Runs,     \* the calls of TeamRuntime.run
  Clients,  \* model clients per runtime
  Unlucky   \* bound: the runs whose store operations may raise on an open, unlocked connection

ASSUME ClientsAssumption == Clients \in Nat

VARIABLES
  runtime,      \* of each process: "new", "entered", "left" or "killed"
  clients,      \* the clients each runtime has yet to close
  host,         \* the runtime each run is made on, or NoConnection
  phase,        \* where each run is in Conductor.run
  struck,       \* the runs one of whose store operations raised so
  inspection    \* the locals of cli/app.py's _inspect

vars == <<storeVars, runtime, clients, host, phase, struck, inspection>>
runtimeVars == <<runtime, clients>>

NoInspection == [read |-> {}, run |-> "none", status |-> "none", events |-> {}, artifacts |-> {}]

Init ==
  /\ StoreInit
  /\ runtime = [p \in Connections |-> "new"]
  /\ clients = [p \in Connections |-> Clients]
  /\ host = [r \in Runs |-> NoConnection]
  /\ phase = [r \in Runs |-> "new"]
  /\ struck = {}
  /\ inspection = NoInspection

Alive(r) == host[r] \in Connections /\ runtime[host[r]] # "killed"

-----------------------------------------------------------------------------
(* TeamRuntime: __aenter__ opens the store; __aexit__ closes the clients,  *)
(* then the store, whether or not a run is still active.                   *)

Enter(p) ==
  /\ runtime[p] = "new"
  /\ OpenStore(p)
  /\ runtime' = [runtime EXCEPT ![p] = "entered"]
  /\ UNCHANGED <<clients, host, phase, struck, inspection>>

CloseClient(p) ==
  /\ runtime[p] = "entered" /\ clients[p] > 0
  /\ clients' = [clients EXCEPT ![p] = @ - 1]
  /\ UNCHANGED <<storeVars, runtime, host, phase, struck, inspection>>

(* One client's aclose raises: the others and the store stay open. *)
ClientRaises(p) ==
  /\ runtime[p] = "entered" /\ clients[p] > 0
  /\ runtime' = [runtime EXCEPT ![p] = "left"]
  /\ UNCHANGED <<storeVars, clients, host, phase, struck, inspection>>

Leave(p) ==
  /\ runtime[p] = "entered" /\ clients[p] = 0
  /\ CloseStore(p)
  /\ runtime' = [runtime EXCEPT ![p] = "left"]
  /\ UNCHANGED <<clients, host, phase, struck, inspection>>

Kill(p) ==
  /\ runtime[p] \in {"entered", "left"}
  /\ CloseStore(p)
  /\ runtime' = [runtime EXCEPT ![p] = "killed"]
  /\ UNCHANGED <<clients, host, phase, struck, inspection>>

-----------------------------------------------------------------------------
(* Conductor.run.  Store(r, row, next, error) is one awaited store call.   *)

(* Mutant: a locked database is waited for without a timeout. *)
RaisesUnlessLocked(c, row) ==
  \/ c \notin open /\ UNCHANGED <<storeVars, struck>>
  \/ /\ Usable(c) /\ row.run \in Unlucky
     /\ struck' = struck \cup {row.run}
     /\ UNCHANGED storeVars \/ CommitBusy(c, row) \/ CommitRollsBack(c)

Raises(c, row) ==
  \/ ~Usable(c) /\ UNCHANGED <<storeVars, struck>>
  \/ /\ Usable(c) /\ row.run \in Unlucky
     /\ struck' = struck \cup {row.run}
     /\ UNCHANGED storeVars \/ CommitBusy(c, row) \/ CommitRollsBack(c)

StoreOn(p, r, row, next, error) ==
  /\ \/ Commit(p, row) /\ phase' = [phase EXCEPT ![r] = next] /\ UNCHANGED struck
     \/ Raises(p, row) /\ phase' = [phase EXCEPT ![r] = error]
  /\ UNCHANGED <<runtimeVars, inspection>>

Store(r, row, next, error) ==
  /\ Alive(r)
  /\ StoreOn(host[r], r, row, next, error)
  /\ UNCHANGED host

Goto(r, next) ==
  /\ phase' = [phase EXCEPT ![r] = next]
  /\ UNCHANGED <<storeVars, runtimeVars, host, struck, inspection>>

Event(r, type) == Row("events", r, type)

(* run() outside the context manager raises before there is a run.  After  *)
(* it, _store is still set and closed, and the first event raises.         *)
RunUnentered(r, p) == phase[r] = "new" /\ runtime[p] = "new" /\ Goto(r, "refused")

CreateRun(r, p) ==
  /\ phase[r] = "new" /\ runtime[p] \in {"entered", "left"}
  /\ host' = [host EXCEPT ![r] = p]
  /\ StoreOn(p, r, Event(r, "run.created"), "created", "lost")

StartRun(r) == phase[r] = "created" /\ Store(r, Event(r, "run.started"), "working", "lost")

SaveArtifact(r) ==
  phase[r] = "working" /\ Store(r, Row("artifacts", r, "artifact"), "finishing", "handling")

Working(r) == Alive(r) /\ phase[r] \in {"working", "finishing"}

WorkflowRaises(r) == Working(r) /\ Goto(r, "handling")

(* Cancellation arrives where the workflow really waits. *)
CancelRun(r) == Working(r) /\ Goto(r, "cancelled")

CompleteRun(r) ==
  phase[r] = "finishing" /\ Store(r, Event(r, "run.completed"), "saving", "handling")

SaveSucceeded(r) ==
  phase[r] = "saving" /\ Store(r, Row("runs", r, "succeeded"), "returned", "handling")

FailRun(r) == phase[r] = "handling" /\ Store(r, Event(r, "run.failed"), "failing", "lost")

(* Mutant: the failed row is saved by a call nobody awaits. *)
SaveFailedUnawaited(r) == Alive(r) /\ phase[r] = "failing" /\ Goto(r, "failed")

(* The original exception is re-raised, or replaced by the store's. *)
SaveFailed(r) ==
  phase[r] = "failing" /\ Store(r, Row("runs", r, "failed"), "failed", "lost")

RunStep(r) ==
  \/ StartRun(r)
  \/ SaveArtifact(r)
  \/ WorkflowRaises(r)
  \/ CompleteRun(r)
  \/ SaveSucceeded(r)
  \/ FailRun(r)
  \/ SaveFailed(r)

-----------------------------------------------------------------------------
(* inspect, by id or --latest: the run's row, then its events, then its    *)
(* artifacts, each query on its own.  (Which run is the latest depends on  *)
(* the wall clocks of the processes: it is any run that has a row.)        *)

SavedRuns == {x \in file : x.table = "runs"}

InspectRun ==
  /\ inspection.read = {}
  /\ \E x \in SavedRuns :
       inspection' = [inspection EXCEPT !.read = {"run"}, !.run = x.run, !.status = x.value]
  /\ UNCHANGED <<storeVars, runtimeVars, host, phase, struck>>

Rows(table, r) == {x.value : x \in {y \in file : y.table = table /\ y.run = r}}

InspectEvents ==
  /\ inspection.read = {"run"}
  /\ inspection' = [inspection EXCEPT !.read = @ \cup {"events"},
                                      !.events = Rows("events", inspection.run)]
  /\ UNCHANGED <<storeVars, runtimeVars, host, phase, struck>>

InspectArtifacts ==
  /\ inspection.read = {"run", "events"}
  /\ inspection' = [inspection EXCEPT !.read = @ \cup {"artifacts"},
                                      !.artifacts = Rows("artifacts", inspection.run)]
  /\ UNCHANGED <<storeVars, runtimeVars, host, phase, struck>>

-----------------------------------------------------------------------------

Next ==
  \/ \E p \in Connections : Enter(p) \/ CloseClient(p) \/ ClientRaises(p) \/ Leave(p) \/ Kill(p)
  \/ \E r \in Runs, p \in Connections : RunUnentered(r, p) \/ CreateRun(r, p)
  \/ \E r \in Runs : CancelRun(r) \/ RunStep(r)
  \/ InspectRun
  \/ InspectEvents
  \/ InspectArtifacts

(* The event loop resumes every run whose awaitable is ready, and SQLite   *)
(* answers or raises within its 5 s busy timeout.  Nobody need start a     *)
(* run, leave a runtime, or inspect one.                                   *)
Spec == Init /\ [][Next]_vars /\ \A r \in Runs : WF_vars(RunStep(r))

-----------------------------------------------------------------------------

Phases == {"new", "created", "working", "finishing", "saving", "handling", "failing",
           "returned", "failed", "cancelled", "lost", "refused"}

RuntimeTypeOK ==
  /\ StoreTypeOK
  /\ runtime \in [Connections -> {"new", "entered", "left", "killed"}]
  /\ clients \in [Connections -> 0..Clients]
  /\ host \in [Runs -> Connections \cup {NoConnection}]
  /\ phase \in [Runs -> Phases]
  /\ struck \subseteq Runs

(* A result that was returned is on file whole - events, artifact and row, *)
(* and no failure - whatever the other runs of its connection, the other   *)
(* processes, a later exit or a kill do to the shared store.               *)
ReturnedRunsDurable ==
  \A r \in Runs : phase[r] = "returned" =>
    /\ {Event(r, "run.created"), Event(r, "run.started"), Event(r, "run.completed"),
        Row("artifacts", r, "artifact"), Row("runs", r, "succeeded")} \subseteq file
    /\ Event(r, "run.failed") \notin file

(* The outcome of a run: its row and the terminal event that goes with it. *)
Over == {"returned", "failed", "cancelled", "lost"}

OutcomeOnFile(r) ==
  \/ {Event(r, "run.completed"), Row("runs", r, "succeeded")} \subseteq file
  \/ {Event(r, "run.failed"), Row("runs", r, "failed")} \subseteq file

(* A run that is over has its outcome on file, unless it was cancelled, a  *)
(* store operation of its own raised, its store was closed under it, or    *)
(* one of another process raised, which may keep the database locked.      *)
(* What befalls a run on the same connection never loses its outcome.      *)
UnrecordedOnlyByCause ==
  \A r \in Runs : phase[r] \in Over /\ ~OutcomeOnFile(r) =>
    \/ phase[r] = "cancelled"
    \/ r \in struck
    \/ host[r] \notin open
    \/ \E s \in struck : host[s] # host[r]

(* An inspection that overlaps a run is not torn: because the row is       *)
(* written last and read first, whoever is shown a status is also shown    *)
(* the events and artifacts that led to it.                                *)
InspectedRunComplete ==
  "artifacts" \in inspection.read =>
    /\ {"run.created", "run.started"} \subseteq inspection.events
    /\ inspection.status = "succeeded" =>
         "run.completed" \in inspection.events /\ inspection.artifacts # {}
    /\ inspection.status = "failed" => "run.failed" \in inspection.events

Log == INSTANCE AuditLog WITH
  kept <- file,
  settled <- {r \in Runs : phase[r] \in {"returned", "failed"}}

(* However runs, runtimes and processes interleave, fail and die, the file *)
(* is an AuditLog: nothing recorded is forgotten, and the history of a run *)
(* whose caller was told its outcome is complete and stays as it is.       *)
KeepsAuditLog == Log!LogSpec

(* Every run that was begun ends - even when its store is closed under it  *)
(* or locked by another process for good - or its process is killed.       *)
BegunRunsEnd ==
  \A r \in Runs : phase[r] = "created" ~>
    phase[r] \in {"returned", "failed", "cancelled", "lost"} \/ ~Alive(r)

=============================================================================
