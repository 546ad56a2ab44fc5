---------------------------- MODULE JobLifecycle ----------------------------
(***************************************************************************)
(* What the export service promises about a job, seen by somebody who can  *)
(* only read the job table and the committed outbox: the status graph of   *)
(* the README ("queued -> running -> succeeded|failed|canceled", then      *)
(* "expired", then the row is purged), a version that grows by one with    *)
(* every change of the row, and one outbox event, carrying the version the *)
(* row has after the change, for every change except the two silent ones   *)
(* (a worker's claim and its progress checkpoints).                        *)
(*                                                                         *)
(* Nothing here knows workers, messages, objects, clocks or crashes.       *)
(* ExportJobs.tla implements this specification.                           *)
(***************************************************************************)
EXTENDS Naturals

CONSTANT Jobs           \* the job identifiers (uuid strings, never reused)

VARIABLES
    status,             \* [Jobs -> Statuses]
    version,            \* [Jobs -> Nat], 0 until the row exists
    events              \* the committed outbox rows, as a set of Event

lifecycleVars == <<status, version, events>>

(***************************************************************************)
(* "absent" and "purged" stand for a row that does not exist yet and one   *)
(* that was deleted by the metadata retention; the others are the status   *)
(* column's values.                                                        *)
(***************************************************************************)
Statuses == {"absent", "queued", "running", "succeeded", "failed",
             "canceled", "expired", "purged"}

Changes == {"requested", "succeeded", "failed", "canceled", "expired"}

Event == [job : Jobs, change : Changes, version : Nat]

LifecycleInit ==
    /\ status = [j \in Jobs |-> "absent"]
    /\ version = [j \in Jobs |-> 0]
    /\ events = {}

-----------------------------------------------------------------------------
\* A change of row j that subscribers are told about.
Announce(j, from, to, change) ==
    /\ status[j] \in from
    /\ status' = [status EXCEPT ![j] = to]
    /\ version' = [version EXCEPT ![j] = @ + 1]
    /\ events' = events \cup
                   {[job |-> j, change |-> change, version |-> version[j] + 1]}

\* A change of row j that only moves the version.
Silent(j, from, to) ==
    /\ status[j] \in from
    /\ status' = [status EXCEPT ![j] = to]
    /\ version' = [version EXCEPT ![j] = @ + 1]
    /\ UNCHANGED events

Requested(j) == Announce(j, {"absent", "failed", "canceled"}, "queued", "requested")
Started(j) == Silent(j, {"queued"}, "running")
Progressed(j) == Silent(j, {"running"}, "running")
Succeeded(j) == Announce(j, {"running"}, "succeeded", "succeeded")
Failed(j) == Announce(j, {"running"}, "failed", "failed")
Canceled(j) == Announce(j, {"queued", "running"}, "canceled", "canceled")
Expired(j) == Announce(j, {"succeeded"}, "expired", "expired")

Purged(j) ==
    /\ status[j] = "expired"
    /\ status' = [status EXCEPT ![j] = "purged"]
    /\ UNCHANGED <<version, events>>

LifecycleNext ==
    \E j \in Jobs :
        \/ Requested(j) \/ Started(j) \/ Progressed(j) \/ Succeeded(j)
        \/ Failed(j) \/ Canceled(j) \/ Expired(j) \/ Purged(j)

LifecycleSpec == LifecycleInit /\ [][LifecycleNext]_lifecycleVars

-----------------------------------------------------------------------------
\* The event that brings a row to each announced status.
ChangeOf == [queued |-> "requested", succeeded |-> "succeeded",
             failed |-> "failed", canceled |-> "canceled",
             expired |-> "expired", purged |-> "expired"]

\* No event is ahead of its row.
EventsBehindRows == \A e \in events : e.version <= version[e.job]

\* The version identifies the event among those of its job.
EventVersionsDistinct ==
    \A e, f \in events : e.job = f.job /\ e.version = f.version => e = f

\* A row that is not running has the event of its status at its version.
SettledRowsAnnounced ==
    \A j \in Jobs : status[j] \in DOMAIN ChangeOf =>
        [job |-> j, change |-> ChangeOf[status[j]], version |-> version[j]] \in events

\* The last event of a running row is the request that led to the run.
RunningRowsRequested ==
    \A j \in Jobs : status[j] = "running" =>
        \E e \in events : /\ e.job = j /\ e.change = "requested"
                          /\ \A f \in events : f.job = j => f.version <= e.version

\* What a subscriber that orders the events of a job by version can rely on.
EventsAreAccurate ==
    /\ EventsBehindRows
    /\ EventVersionsDistinct
    /\ SettledRowsAnnounced
    /\ RunningRowsRequested

=============================================================================
