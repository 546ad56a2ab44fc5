------------------------- MODULE JobLifecycleProofs -------------------------
(***************************************************************************)
(* The lifecycle alone makes the events of a job accurate.  ExportJobs     *)
(* inherits this by implementing the lifecycle.                            *)
(***************************************************************************)
EXTENDS JobLifecycle, TLAPS

LifecycleTypeOK ==
    /\ status \in [Jobs -> Statuses]
    /\ version \in [Jobs -> Nat]
    /\ events \subseteq Event

LifecycleInv == LifecycleTypeOK /\ EventsAreAccurate

LEMMA LifecycleInvInit == LifecycleInit => LifecycleInv
BY DEF LifecycleInit, LifecycleInv, LifecycleTypeOK, EventsAreAccurate, EventsBehindRows,
   EventVersionsDistinct, SettledRowsAnnounced, RunningRowsRequested, ChangeOf, Statuses

\* A change that is announced leaves the events accurate: its version is new.
LEMMA AnnounceKeepsEvents ==
    ASSUME LifecycleInv, NEW j \in Jobs, NEW from, NEW change \in Changes,
           NEW to \in {"queued", "succeeded", "failed", "canceled", "expired"},
           ChangeOf[to] = change, Announce(j, from, to, change)
    PROVE  LifecycleInv'
<1> DEFINE new == [job |-> j, change |-> change, version |-> version[j] + 1]
<1> USE DEF LifecycleInv
<1>1. /\ status' = [status EXCEPT ![j] = to]
      /\ version' = [version EXCEPT ![j] = @ + 1]
      /\ events' = events \cup {new}
  BY DEF Announce
<1>2. LifecycleTypeOK'
  BY <1>1 DEF LifecycleTypeOK, Statuses, Event
<1>3. \A e \in events : e.version \in Nat /\ e.job \in Jobs /\ e.version <= version[e.job]
  BY DEF LifecycleTypeOK, Event, EventsAreAccurate, EventsBehindRows
<1>4. EventsBehindRows'
  BY <1>1, <1>3 DEF EventsBehindRows, LifecycleTypeOK
<1>5. EventVersionsDistinct'
  <2>1. \A e \in events : ~(e.job = j /\ e.version = version[j] + 1)
    BY <1>3 DEF LifecycleTypeOK
  <2>2. QED
    BY <1>1, <2>1 DEF EventVersionsDistinct, EventsAreAccurate
<1>6. SettledRowsAnnounced'
  BY <1>1 DEF SettledRowsAnnounced, EventsAreAccurate, LifecycleTypeOK
<1>7. RunningRowsRequested'
  <2> SUFFICES ASSUME NEW i \in Jobs, status'[i] = "running"
               PROVE  \E e \in events' : /\ e.job = i /\ e.change = "requested"
                                         /\ \A f \in events' : f.job = i => f.version <= e.version
    BY DEF RunningRowsRequested
  <2>1. i # j /\ status[i] = "running"
    BY <1>1 DEF LifecycleTypeOK
  <2>2. QED
    BY <1>1, <2>1 DEF RunningRowsRequested, EventsAreAccurate
<1>8. QED
  BY <1>2, <1>4, <1>5, <1>6, <1>7 DEF EventsAreAccurate

\* A claim or a checkpoint moves the version away from the last event.
LEMMA SilentKeepsEvents ==
    ASSUME LifecycleInv, NEW j \in Jobs, NEW from \in {{"queued"}, {"running"}},
           Silent(j, from, "running")
    PROVE  LifecycleInv'
<1> USE DEF LifecycleInv
<1>1. /\ status[j] \in {"queued", "running"}
      /\ status' = [status EXCEPT ![j] = "running"]
      /\ version' = [version EXCEPT ![j] = @ + 1]
      /\ events' = events
  BY DEF Silent
<1>2. LifecycleTypeOK'
  BY <1>1 DEF LifecycleTypeOK, Statuses
<1>3. \A e \in events : e.version \in Nat /\ e.job \in Jobs /\ e.version <= version[e.job]
  BY DEF LifecycleTypeOK, Event, EventsAreAccurate, EventsBehindRows
<1>4. EventsBehindRows' /\ EventVersionsDistinct'
  BY <1>1, <1>3 DEF EventsBehindRows, EventVersionsDistinct, EventsAreAccurate, LifecycleTypeOK
<1>5. SettledRowsAnnounced'
  BY <1>1 DEF SettledRowsAnnounced, EventsAreAccurate, LifecycleTypeOK, ChangeOf
<1>6. RunningRowsRequested'
  <2> SUFFICES ASSUME NEW i \in Jobs, status'[i] = "running"
               PROVE  \E e \in events : /\ e.job = i /\ e.change = "requested"
                                        /\ \A f \in events : f.job = i => f.version <= e.version
    BY <1>1 DEF RunningRowsRequested
  <2>1. CASE status[i] = "running"
    BY <2>1 DEF RunningRowsRequested, EventsAreAccurate
  <2>2. CASE status[i] # "running"
    <3>1. i = j /\ status[i] = "queued"
      BY <1>1, <2>2 DEF LifecycleTypeOK
    <3>2. [job |-> i, change |-> "requested", version |-> version[i]] \in events
      BY <3>1 DEF SettledRowsAnnounced, EventsAreAccurate, ChangeOf
    <3>3. QED
      BY <1>3, <3>2
  <2>3. QED
    BY <2>1, <2>2
<1>7. QED
  BY <1>2, <1>4, <1>5, <1>6 DEF EventsAreAccurate

LEMMA LifecycleInvNext == LifecycleInv /\ [LifecycleNext]_lifecycleVars => LifecycleInv'
<1> SUFFICES ASSUME LifecycleInv, [LifecycleNext]_lifecycleVars PROVE LifecycleInv'
  OBVIOUS
<1>1. CASE UNCHANGED lifecycleVars
  BY <1>1 DEF lifecycleVars, LifecycleInv, LifecycleTypeOK, EventsAreAccurate,
     EventsBehindRows, EventVersionsDistinct, SettledRowsAnnounced, RunningRowsRequested
<1>2. ASSUME NEW j \in Jobs, Requested(j) \/ Succeeded(j) \/ Failed(j) \/ Canceled(j) \/ Expired(j)
      PROVE  LifecycleInv'
  BY <1>2, AnnounceKeepsEvents
  DEF Requested, Succeeded, Failed, Canceled, Expired, ChangeOf, Changes
<1>3. ASSUME NEW j \in Jobs, Started(j) \/ Progressed(j) PROVE LifecycleInv'
  BY <1>3, SilentKeepsEvents DEF Started, Progressed
<1>4. ASSUME NEW j \in Jobs, Purged(j) PROVE LifecycleInv'
  <2>1. /\ status[j] = "expired"
        /\ status' = [status EXCEPT ![j] = "purged"]
        /\ UNCHANGED <<version, events>>
    BY <1>4 DEF Purged
  <2>2. LifecycleTypeOK'
    BY <2>1 DEF LifecycleInv, LifecycleTypeOK, Statuses
  <2>3. SettledRowsAnnounced'
    BY <2>1 DEF LifecycleInv, LifecycleTypeOK, EventsAreAccurate, SettledRowsAnnounced, ChangeOf
  <2>4. RunningRowsRequested'
    BY <2>1 DEF LifecycleInv, LifecycleTypeOK, EventsAreAccurate, RunningRowsRequested
  <2>5. QED
    BY <2>1, <2>2, <2>3, <2>4
    DEF LifecycleInv, EventsAreAccurate, EventsBehindRows, EventVersionsDistinct
<1>5. QED
  BY <1>1, <1>2, <1>3, <1>4 DEF LifecycleNext

\* Every behaviour that follows the lifecycle has accurate events: none ahead
\* of its row, no version used twice, none missing.
THEOREM LifecycleEventsAccurate == LifecycleSpec => []EventsAreAccurate
<1>1. LifecycleInv => EventsAreAccurate
  BY DEF LifecycleInv
<1>2. QED
  BY <1>1, LifecycleInvInit, LifecycleInvNext, PTL DEF LifecycleSpec

-----------------------------------------------------------------------------
\* An expired row only waits for its purge: the event of its expiry is its
\* last one, at its final version.
ExpiryIsFinal ==
    \A e \in events : e.change = "expired" =>
        status[e.job] \in {"expired", "purged"} /\ e.version = version[e.job]

ExpiresOnce ==
    \A e, f \in events :
        e.job = f.job /\ e.change = "expired" /\ f.change = "expired" => e = f

\* The job of a change is not expired, so its events say nothing of expiry.
LEMMA AnnounceKeepsExpiry ==
    ASSUME LifecycleTypeOK, ExpiryIsFinal, NEW j \in Jobs, NEW from, NEW to, NEW change,
           from \cap {"expired", "purged"} = {}, change = "expired" => to = "expired",
           Announce(j, from, to, change)
    PROVE  ExpiryIsFinal'
<1>1. /\ status[j] \notin {"expired", "purged"}
      /\ status' = [status EXCEPT ![j] = to]
      /\ version' = [version EXCEPT ![j] = @ + 1]
      /\ events' = events \cup {[job |-> j, change |-> change, version |-> version[j] + 1]}
  BY DEF Announce
<1>2. \A e \in events : e.job \in Jobs
  BY DEF LifecycleTypeOK, Event
<1>3. \A e \in events : e.change = "expired" => e.job # j
  BY <1>1 DEF ExpiryIsFinal
<1>4. QED
  BY <1>1, <1>2, <1>3 DEF ExpiryIsFinal, LifecycleTypeOK

LEMMA SilentKeepsExpiry ==
    ASSUME LifecycleTypeOK, ExpiryIsFinal, NEW j \in Jobs, NEW from, NEW to,
           from \cap {"expired", "purged"} = {}, Silent(j, from, to)
    PROVE  ExpiryIsFinal'
<1>1. /\ status[j] \notin {"expired", "purged"}
      /\ status' = [status EXCEPT ![j] = to]
      /\ version' = [version EXCEPT ![j] = @ + 1]
      /\ events' = events
  BY DEF Silent
<1>2. \A e \in events : e.job \in Jobs /\ (e.change = "expired" => e.job # j)
  BY <1>1 DEF LifecycleTypeOK, Event, ExpiryIsFinal
<1>3. QED
  BY <1>1, <1>2 DEF ExpiryIsFinal, LifecycleTypeOK

LEMMA ExpiryIsFinalNext ==
    LifecycleTypeOK /\ ExpiryIsFinal /\ [LifecycleNext]_lifecycleVars => ExpiryIsFinal'
<1> SUFFICES ASSUME LifecycleTypeOK, ExpiryIsFinal, [LifecycleNext]_lifecycleVars
             PROVE  ExpiryIsFinal'
  OBVIOUS
<1>1. CASE UNCHANGED lifecycleVars
  BY <1>1 DEF lifecycleVars, ExpiryIsFinal
<1>2. ASSUME NEW j \in Jobs, Requested(j) \/ Succeeded(j) \/ Failed(j) \/ Canceled(j) \/ Expired(j)
      PROVE  ExpiryIsFinal'
  BY <1>2, AnnounceKeepsExpiry DEF Requested, Succeeded, Failed, Canceled, Expired
<1>3. ASSUME NEW j \in Jobs, Started(j) \/ Progressed(j) PROVE ExpiryIsFinal'
  BY <1>3, SilentKeepsExpiry DEF Started, Progressed
<1>4. ASSUME NEW j \in Jobs, Purged(j) PROVE ExpiryIsFinal'
  BY <1>4 DEF Purged, ExpiryIsFinal, LifecycleTypeOK, Event
<1>5. QED
  BY <1>1, <1>2, <1>3, <1>4 DEF LifecycleNext

\* A job that follows the lifecycle expires at most once.
THEOREM LifecycleExpiresOnce == LifecycleSpec => []ExpiresOnce
<1>1. LifecycleInit => ExpiryIsFinal
  BY DEF LifecycleInit, ExpiryIsFinal
<1>2. LifecycleTypeOK /\ ExpiryIsFinal => ExpiresOnce
  <2> SUFFICES ASSUME LifecycleTypeOK, ExpiryIsFinal, NEW e \in events, NEW f \in events,
                      e.job = f.job, e.change = "expired", f.change = "expired"
               PROVE  e = f
    BY DEF ExpiresOnce
  <2>1. e \in Event /\ f \in Event /\ e.version = f.version
    BY DEF LifecycleTypeOK, ExpiryIsFinal
  <2>2. QED
    BY <2>1 DEF Event
<1>3. LifecycleInv => LifecycleTypeOK
  BY DEF LifecycleInv
<1>4. QED
  BY <1>1, <1>2, <1>3, LifecycleInvInit, LifecycleInvNext, ExpiryIsFinalNext, PTL
  DEF LifecycleSpec
=============================================================================
