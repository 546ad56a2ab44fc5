-------------------------- MODULE ExportJobsProofs --------------------------
(***************************************************************************)
(* Proofs about ExportJobs, for any sets of jobs, keys, workers and        *)
(* cleaners, any durations and any bounds.                                 *)
(***************************************************************************)
EXTENDS ExportJobs, TLAPS

\* A busy worker holds a message of a job; TypeOK alone lets it hold none.
BusyHasMessage ==
    \A w \in Workers : worker[w].pc # "idle" => worker[w].msg \in Messages

TypeInv == TypeOK /\ BusyHasMessage

-----------------------------------------------------------------------------
(* The operators the actions are built from *)

LEMMA BumpType ==
    ASSUME NEW row \in Row, NEW now \in Nat,
           NEW s \in {"queued", "running", "succeeded", "failed", "canceled", "expired"}
    PROVE  /\ Bump(row, s, now) \in Row
           /\ Bump(row, s, now).status = s
           /\ Bump(row, s, now).version = row.version + 1
           /\ Bump(row, s, now).updatedAt = now
           /\ Bump(row, s, now).key = row.key
           /\ Bump(row, s, now).origin = row.origin
           /\ Bump(row, s, now).checksum = row.checksum
           /\ Bump(row, s, now).expiresAt = row.expiresAt
<1>1. row.version \in Nat /\ row.version + 1 \in Nat
  BY DEF Row
<1>2. Bump(row, s, now) \in Row
  BY <1>1 DEF Bump, Row
<1>3. /\ Bump(row, s, now).status = s
      /\ Bump(row, s, now).version = row.version + 1
      /\ Bump(row, s, now).updatedAt = now
      /\ Bump(row, s, now).key = row.key
      /\ Bump(row, s, now).origin = row.origin
      /\ Bump(row, s, now).checksum = row.checksum
      /\ Bump(row, s, now).expiresAt = row.expiresAt
  BY DEF Bump, Row
<1>4. QED
  BY <1>2, <1>3

\* A well-typed row with a given status and version.
RowIs(row, s, v) == row \in Row /\ row.status = s /\ row.version = v

LEMMA BumpedRow ==
    ASSUME NEW row \in Row, NEW now \in Nat
    PROVE  /\ RowIs(Bump(row, "queued", now), "queued", row.version + 1)
           /\ RowIs(Bump(row, "running", now), "running", row.version + 1)
           /\ RowIs(Bump(row, "succeeded", now), "succeeded", row.version + 1)
           /\ RowIs(Bump(row, "failed", now), "failed", row.version + 1)
           /\ RowIs(Bump(row, "canceled", now), "canceled", row.version + 1)
           /\ RowIs(Bump(row, "expired", now), "expired", row.version + 1)
BY BumpType DEF RowIs

\* The rows that Create, Retry, Succeed and the purge write.
LEMMA CreatedRow ==
    ASSUME NEW row \in Row, NEW k \in Keys
    PROVE  LET new == [row EXCEPT !.key = k, !.origin = k]
           IN  new \in Row /\ new.status = row.status /\ new.version = row.version
BY DEF Row

LEMMA RetriedRow ==
    ASSUME NEW row \in Row, NEW k \in Keys
    PROVE  LET new == [row EXCEPT !.key = k, !.checksum = 0, !.expiresAt = 0]
           IN  new \in Row /\ new.status = row.status /\ new.version = row.version
BY DEF Row

LEMMA ResultRow ==
    ASSUME NEW row \in Row, NEW sum \in Nat, NEW until \in Nat
    PROVE  LET new == [row EXCEPT !.checksum = sum, !.expiresAt = until]
           IN  /\ new \in Row /\ new.status = row.status /\ new.version = row.version
               /\ new.checksum = sum /\ new.expiresAt = until
BY DEF Row

LEMMA ResultRowIs ==
    ASSUME NEW row, NEW s, NEW v, RowIs(row, s, v), NEW sum \in Nat, NEW until \in Nat
    PROVE  RowIs([row EXCEPT !.checksum = sum, !.expiresAt = until], s, v)
<1> DEFINE new == [row EXCEPT !.checksum = sum, !.expiresAt = until]
<1>1. row \in Row /\ row.status = s /\ row.version = v
  BY DEF RowIs
<1>2. new \in Row /\ new.status = row.status /\ new.version = row.version
  BY <1>1 DEF Row
<1>3. QED
  BY <1>1, <1>2 DEF RowIs

LEMMA PurgedRow ==
    ASSUME NEW v \in Nat
    PROVE  LET new == [AbsentRow EXCEPT !.status = "purged", !.version = v]
           IN  new \in Row /\ new.status = "purged" /\ new.version = v
BY DEF AbsentRow, Row

LEMMA RedeliverType ==
    ASSUME NEW q \in SUBSET Messages, NEW m \in Messages
    PROVE  Redeliver(q, m) \in SUBSET Messages
BY DEF Redeliver

LEMMA DeliveredType ==
    ASSUME NEW m \in Messages
    PROVE  Delivered(m) \in Messages /\ Delivered(m).job = m.job
BY DEF Delivered, Messages

LEMMA IdleTypes ==
    /\ IdleWorker \in WorkerState
    /\ IdleWorker.pc = "idle"
    /\ IdleCleaner \in CleanerState
    /\ AbsentRow \in Row
    /\ NoMessage \notin Messages
BY NoJobAssumption DEF IdleWorker, WorkerState, NoMessage, IdleCleaner, CleanerState,
   AbsentRow, Row, Messages

\* The table, the outbox and the worker table keep their types.
LEMMA SetRowType ==
    ASSUME TypeOK, NEW j \in Jobs, NEW row \in Row, SetRow(j, row)
    PROVE  jobs' \in [Jobs -> Row]
BY DEF TypeOK, SetRow

LEMMA AddOutboxType ==
    ASSUME TypeOK, NEW j \in Jobs, NEW v \in Nat,
           NEW c \in {"requested", "succeeded", "failed", "canceled", "expired"},
           AddOutbox(j, c, v)
    PROVE  /\ outbox' \subseteq [job : Jobs,
                                 change : {"requested", "succeeded", "failed",
                                           "canceled", "expired"},
                                 version : Nat]
           /\ outbox \subseteq outbox'
BY DEF TypeOK, AddOutbox

\* What is known of a busy worker.
LEMMA BusyWorker ==
    ASSUME TypeInv, NEW w \in Workers, worker[w].pc # "idle"
    PROVE  /\ JobOf(w) \in Jobs
           /\ jobs[JobOf(w)] \in Row
           /\ worker[w].msg \in Messages
           /\ worker[w] \in WorkerState
BY DEF TypeInv, TypeOK, BusyHasMessage, JobOf, Messages


LEMMA GotoType ==
    ASSUME TypeInv, NEW w \in Workers, worker[w].pc # "idle",
           NEW pc \in {"streaming", "uploading", "stored", "discarding", "failing",
                       "persisting"},
           Goto(w, pc)
    PROVE  worker' \in [Workers -> WorkerState] /\ BusyHasMessage'
<1>1. [worker[w] EXCEPT !.pc = pc] \in WorkerState
  BY DEF TypeInv, TypeOK, WorkerState
<1>2. [worker[w] EXCEPT !.pc = pc].msg = worker[w].msg
  BY DEF TypeInv, TypeOK, WorkerState
<1>3. worker' = [worker EXCEPT ![w] = [worker[w] EXCEPT !.pc = pc]]
  BY DEF Goto
<1>4. QED
  BY <1>1, <1>2, <1>3 DEF TypeInv, TypeOK, BusyHasMessage

LEMMA SettleType ==
    ASSUME TypeInv, NEW w \in Workers, worker[w].pc # "idle", Ack(w) \/ Nak(w)
    PROVE  /\ worker' \in [Workers -> WorkerState]
           /\ BusyHasMessage'
           /\ queue' \in SUBSET Messages
<1>1. worker' = [worker EXCEPT ![w] = IdleWorker]
  BY DEF Ack, Nak
<1>2. worker' \in [Workers -> WorkerState] /\ BusyHasMessage'
  BY <1>1, IdleTypes DEF TypeInv, TypeOK, BusyHasMessage
<1>3. queue \in SUBSET Messages
  BY DEF TypeInv, TypeOK
<1>4. Redeliver(queue, worker[w].msg) \in SUBSET Messages
  BY <1>3, BusyWorker, RedeliverType
<1>5. queue' \in SUBSET Messages
  BY <1>3, <1>4 DEF Ack, Nak
<1>6. QED
  BY <1>2, <1>5

-----------------------------------------------------------------------------
(* Type correctness *)

LEMMA TypeInvInit == Init => TypeInv
BY IdleTypes, BoundAssumption DEF Init, TypeInv, TypeOK, BusyHasMessage

LEMMA TypeInvClient == TypeInv /\ ClientStep => TypeInv'
<1> SUFFICES ASSUME TypeInv, ClientStep PROVE TypeInv'
  OBVIOUS
<1> USE DEF TypeInv
<1>0. PICK j \in Jobs :
        \/ \E k \in Keys : Create(j, k)
        \/ \E expected \in 1 .. jobs[j].version :
              \/ Cancel(j, expected)
              \/ \E k \in Keys : Retry(j, expected, k)
        \/ \E ttl \in 1 .. PresignTTL : CreateDownloadURL(j, ttl)
  BY DEF ClientStep
<1>r. jobs[j] \in Row /\ clock \in Nat /\ jobs[j].version \in Nat
  BY DEF TypeOK, Row
<1>1. ASSUME NEW k \in Keys, Create(j, k) PROVE TypeInv'
  <2>1. [Bump(jobs[j], "queued", clock) EXCEPT !.key = k, !.origin = k] \in Row
    BY <1>r, BumpType, CreatedRow
  <2>2. jobs' \in [Jobs -> Row]
    BY <1>1, <2>1, SetRowType DEF Create
  <2>3. AddOutbox(j, "requested", jobs[j].version + 1) /\ jobs[j].version + 1 \in Nat
    BY <1>1, <1>r DEF Create
  <2>4. QED
    BY <1>1, <2>2, <2>3, AddOutboxType DEF Create, TypeOK, BusyHasMessage
<1>2. ASSUME NEW expected \in 1 .. jobs[j].version, Cancel(j, expected) PROVE TypeInv'
  <2>1. jobs' \in [Jobs -> Row]
    BY <1>2, <1>r, BumpType, SetRowType DEF Cancel
  <2>2. AddOutbox(j, "canceled", expected + 1) /\ expected + 1 \in Nat
    BY <1>2, <1>r DEF Cancel
  <2>3. QED
    BY <1>2, <2>1, <2>2, AddOutboxType DEF Cancel, TypeOK, BusyHasMessage
<1>3. ASSUME NEW expected \in 1 .. jobs[j].version, NEW k \in Keys, Retry(j, expected, k)
      PROVE  TypeInv'
  <2>1. [Bump(jobs[j], "queued", clock) EXCEPT
           !.key = k, !.checksum = 0, !.expiresAt = 0] \in Row
    BY <1>r, BumpType, RetriedRow
  <2>2. jobs' \in [Jobs -> Row]
    BY <1>3, <2>1, SetRowType DEF Retry
  <2>3. AddOutbox(j, "requested", expected + 1) /\ expected + 1 \in Nat
    BY <1>3, <1>r DEF Retry
  <2>4. QED
    BY <1>3, <2>2, <2>3, AddOutboxType DEF Retry, TypeOK, BusyHasMessage
<1>4. ASSUME NEW ttl \in 1 .. PresignTTL, CreateDownloadURL(j, ttl) PROVE TypeInv'
  <2> DEFINE remaining == jobs[j].expiresAt - clock
             granted == IF ttl > remaining THEN remaining ELSE ttl
  <2>1. jobs[j].expiresAt \in Nat /\ ttl \in Nat
    BY <1>r, DurationAssumption DEF Row
  <2>2. clock + granted \in Nat
    BY <1>4, <2>1, <1>r DEF CreateDownloadURL
  <2>3. urls' = urls \cup {[job |-> j, until |-> clock + granted]}
    BY <1>4 DEF CreateDownloadURL
  <2>4. urls' \subseteq Urls
    BY <2>2, <2>3 DEF TypeOK, Urls
  <2>5. QED
    BY <1>4, <2>4 DEF CreateDownloadURL, TypeOK, BusyHasMessage
<1>5. QED
  BY <1>0, <1>1, <1>2, <1>3, <1>4

LEMMA TypeInvBus ==
    ASSUME TypeInv,
           \/ DispatcherStep
           \/ \E w \in Workers : DeliveryStep(w)
           \/ \E w \in Workers, m \in queue : ClaimFailed(w, m)
    PROVE  TypeInv'
<1> USE DEF TypeInv
<1>1. ASSUME NEW e \in outbox, Dispatch(e) PROVE TypeInv'
  <2>1. queue' \subseteq Messages
    BY <1>1 DEF Dispatch, TypeOK, Messages
  <2>2. published' \subseteq outbox /\ faults' \in Nat
    BY <1>1 DEF Dispatch, TypeOK, Fault
  <2>3. QED
    BY <1>1, <2>1, <2>2 DEF Dispatch, TypeOK, BusyHasMessage
<1>2. ASSUME NEW w \in Workers, NEW m \in queue
      PROVE  /\ m \in Messages
             /\ m.job \in Jobs
             /\ jobs[m.job] \in Row
             /\ jobs[m.job].version + 1 \in Nat
             /\ ClaimRow(m.job) => jobs' \in [Jobs -> Row]
  <2>1. m \in Messages /\ m.job \in Jobs /\ clock \in Nat
    BY DEF TypeOK, Messages
  <2>2. jobs[m.job] \in Row
    BY <2>1 DEF TypeOK
  <2>3. jobs[m.job].version + 1 \in Nat
    BY <2>2 DEF Row
  <2>4. QED
    BY <2>1, <2>2, <2>3, BumpType, SetRowType DEF ClaimRow
<1>3. ASSUME NEW w \in Workers, NEW m \in queue, Claim(w, m) PROVE TypeInv'
  <2>1. [pc |-> "streaming", msg |-> Delivered(m), leased |-> TRUE,
         run |-> jobs[m.job].version + 1, checkpoints |-> 0,
         completedAt |-> 0] \in WorkerState
    BY <1>2, DeliveredType DEF WorkerState
  <2>2. worker' \in [Workers -> WorkerState] /\ BusyHasMessage'
    BY <1>2, <1>3, <2>1, DeliveredType DEF Claim, TypeOK, BusyHasMessage
  <2>3. QED
    BY <1>2, <1>3, <2>2 DEF Claim, TypeOK
<1>4. ASSUME NEW w \in Workers, NEW m \in queue, ClaimMissed(w, m) PROVE TypeInv'
  BY <1>4 DEF ClaimMissed, TypeOK, BusyHasMessage
<1>5. ASSUME NEW w \in Workers, NEW m \in queue, ClaimFailed(w, m) PROVE TypeInv'
  <2>1. queue' \subseteq Messages
    BY <1>2, <1>5, DeliveredType, RedeliverType DEF ClaimFailed, TypeOK
  <2>2. jobs' \in [Jobs -> Row] /\ faults' \in Nat
    BY <1>2, <1>5 DEF ClaimFailed, TypeOK, Fault
  <2>3. QED
    BY <1>5, <2>1, <2>2 DEF ClaimFailed, TypeOK, BusyHasMessage
<1>6. QED
  BY <1>1, <1>3, <1>4, <1>5 DEF DispatcherStep, DeliveryStep

LEMMA TypeInvWorker ==
    ASSUME TypeInv, NEW w \in Workers, WorkerStep(w)
    PROVE  TypeInv'
<1> USE DEF TypeInv
<1>0. worker[w].pc # "idle"
  BY DEF WorkerStep, Checkpoint, StreamDone, StreamStale, PipelineError, Upload, Succeed,
     SucceedStale, Discard, FailDelete, FailPersist
<1> DEFINE j == JobOf(w)
<1>j. /\ j \in Jobs /\ jobs[j] \in Row /\ worker[w] \in WorkerState
      /\ worker[w].msg \in Messages
  BY <1>0, BusyWorker
<1>n. /\ clock \in Nat /\ jobs[j].version + 1 \in Nat
      /\ worker[w].run \in Nat /\ worker[w].completedAt \in Nat
      /\ worker[w].completedAt + ResultTTL \in Nat
  BY <1>j, DurationAssumption DEF TypeOK, Row, WorkerState
<1> HIDE DEF j
<1>p. Progress(w) => jobs' \in [Jobs -> Row]
  BY <1>j, <1>n, BumpType, SetRowType DEF Progress, j
<1>d. DeleteObject(j) => object' \in [Jobs -> Nat] /\ faults' \in Nat
  BY DEF DeleteObject, TypeOK, Fault
<1>1. CASE Checkpoint(w)
  <2>1. worker[w].checkpoints + 1 \in Nat
    BY <1>j DEF WorkerState
  <2>2. [worker[w] EXCEPT !.checkpoints = @ + 1] \in WorkerState
    BY <1>j, <2>1 DEF WorkerState
  <2>3. [worker[w] EXCEPT !.checkpoints = @ + 1].msg = worker[w].msg
    BY <1>j DEF WorkerState
  <2>4. worker' = [worker EXCEPT ![w] = [worker[w] EXCEPT !.checkpoints = @ + 1]]
    BY <1>1 DEF Checkpoint
  <2>5. worker' \in [Workers -> WorkerState] /\ BusyHasMessage'
    BY <1>j, <2>2, <2>3, <2>4 DEF TypeOK, BusyHasMessage
  <2>6. QED
    BY <1>1, <1>p, <2>5 DEF Checkpoint, TypeOK
<1>2. CASE StreamDone(w)
  BY <1>0, <1>2, <1>p, GotoType DEF StreamDone, TypeOK
<1>3. CASE StreamStale(w)
  BY <1>0, <1>3, GotoType DEF StreamStale, TypeOK
<1>4. CASE PipelineError(w)
  BY <1>0, <1>4, GotoType DEF PipelineError, TypeOK
<1>5. CASE Upload(w)
  <2>1. object' \in [Jobs -> Nat]
    BY <1>5, <1>n DEF Upload, TypeOK
  <2>2. ASSUME worker' = [worker EXCEPT ![w].pc = "stored", ![w].completedAt = clock]
        PROVE  worker' \in [Workers -> WorkerState] /\ BusyHasMessage'
    <3>1. [worker[w] EXCEPT !.pc = "stored", !.completedAt = clock] \in WorkerState
      BY <1>j, <1>n DEF WorkerState
    <3>2. [worker[w] EXCEPT !.pc = "stored", !.completedAt = clock].msg = worker[w].msg
      BY <1>j DEF WorkerState
    <3>3. worker' = [worker EXCEPT ![w] =
                       [worker[w] EXCEPT !.pc = "stored", !.completedAt = clock]]
      BY <2>2 DEF TypeOK
    <3>4. QED
      BY <1>j, <3>1, <3>2, <3>3 DEF TypeOK, BusyHasMessage
  <2>3. worker' \in [Workers -> WorkerState] /\ BusyHasMessage'
    BY <1>0, <1>5, <2>2, GotoType DEF Upload
  <2>4. QED
    BY <1>5, <2>1, <2>3 DEF Upload, TypeOK
<1>6. CASE Succeed(w)
  <2>1. [Bump(jobs[j], "succeeded", worker[w].completedAt) EXCEPT
           !.checksum = worker[w].run,
           !.expiresAt = worker[w].completedAt + ResultTTL] \in Row
    BY <1>j, <1>n, BumpType, ResultRow
  <2>2. jobs' \in [Jobs -> Row]
    BY <1>6, <1>j, <2>1, SetRowType DEF Succeed, j
  <2>3. AddOutbox(j, "succeeded", jobs[j].version + 1)
    BY <1>6 DEF Succeed, j
  <2>4. /\ worker' \in [Workers -> WorkerState] /\ BusyHasMessage'
        /\ queue' \in SUBSET Messages
    BY <1>0, <1>6, SettleType DEF Succeed
  <2>5. faults' \in Nat
    BY <1>6 DEF Succeed, Fault, TypeOK
  <2>6. QED
    BY <1>6, <1>j, <1>n, <2>2, <2>3, <2>4, <2>5, AddOutboxType DEF Succeed, TypeOK
<1>7. CASE SucceedStale(w)
  <2>1. faults' \in Nat
    BY <1>7 DEF SucceedStale, Fault, TypeOK
  <2>2. QED
    BY <1>0, <1>7, <2>1, GotoType DEF SucceedStale, TypeOK
<1>8. CASE Discard(w)
  BY <1>0, <1>8, <1>d, SettleType DEF Discard, TypeOK, j
<1>9. CASE FailDelete(w)
  BY <1>0, <1>9, <1>d, GotoType DEF FailDelete, TypeOK, j
<1>10. CASE FailPersist(w)
  <2>1. /\ worker' \in [Workers -> WorkerState] /\ BusyHasMessage'
        /\ queue' \in SUBSET Messages
    BY <1>0, <1>10, SettleType DEF FailPersist
  <2>2. CASE StatusOf(j) = "running"
    <3>1. jobs' \in [Jobs -> Row]
      BY <1>10, <1>j, <1>n, <2>2, BumpType, SetRowType DEF FailPersist, j
    <3>2. AddOutbox(j, "failed", jobs[j].version + 1)
      BY <1>10, <2>2 DEF FailPersist, j
    <3>3. QED
      BY <1>10, <1>j, <1>n, <2>1, <3>1, <3>2, AddOutboxType DEF FailPersist, TypeOK
  <2>3. CASE StatusOf(j) # "running"
    BY <1>10, <2>1, <2>3 DEF FailPersist, TypeOK, j
  <2>4. QED
    BY <2>2, <2>3
<1>11. QED
  BY <1>1, <1>2, <1>3, <1>4, <1>5, <1>6, <1>7, <1>8, <1>9, <1>10 DEF WorkerStep

LEMMA TypeInvMishap ==
    ASSUME TypeInv, NEW w \in Workers, WorkerMishap(w)
    PROVE  TypeInv'
<1> USE DEF TypeInv
<1>1. CASE \E m \in queue : ClaimFailed(w, m)
  BY <1>1, TypeInvBus
<1>2. CASE SucceedLost(w)
  BY <1>2, SettleType DEF SucceedLost, TypeOK, Fault
<1>3. CASE FailLost(w)
  BY <1>3, SettleType DEF FailLost, TypeOK, Fault
<1>4. CASE LeaseLapses(w)
  <2>1. worker[w].pc # "idle"
    BY <1>4 DEF LeaseLapses
  <2>2. queue' \in SUBSET Messages
    BY <1>4, <2>1, BusyWorker, RedeliverType DEF LeaseLapses, TypeOK
  <2>3. [worker[w] EXCEPT !.leased = FALSE] \in WorkerState
    BY DEF TypeOK, WorkerState
  <2>4. [worker[w] EXCEPT !.leased = FALSE].msg = worker[w].msg
    BY DEF TypeOK, WorkerState
  <2>5. worker' = [worker EXCEPT ![w] = [worker[w] EXCEPT !.leased = FALSE]]
    BY <1>4 DEF LeaseLapses
  <2>6. worker' \in [Workers -> WorkerState] /\ BusyHasMessage'
    BY <2>1, <2>3, <2>4, <2>5 DEF TypeOK, BusyHasMessage
  <2>7. QED
    BY <1>4, <2>2, <2>6 DEF LeaseLapses, TypeOK
<1>5. CASE Crash(w)
  BY <1>5, SettleType DEF Crash, TypeOK, Fault
<1>6. QED
  BY <1>1, <1>2, <1>3, <1>4, <1>5 DEF WorkerMishap

LEMMA TypeInvCleaner ==
    ASSUME TypeInv, NEW c \in Cleaners, CleanerStep(c) \/ CleanAborted(c)
    PROVE  TypeInv'
<1> USE DEF TypeInv
<1>c. cleaner[c] \in CleanerState /\ cleaner[c].now \in Nat /\ clock \in Nat
  BY DEF TypeOK, CleanerState
<1>s. StopCleaner(c) => cleaner' \in [Cleaners -> CleanerState]
  BY IdleTypes DEF StopCleaner, TypeOK
<1>1. CASE CleanList(c)
  <2>1. PICK listed \in SUBSET Due(clock) :
          cleaner' = [cleaner EXCEPT ![c] =
                        [batch |-> listed, current |-> NoJob, now |-> clock]]
    BY <1>1 DEF CleanList
  <2>2. [batch |-> listed, current |-> NoJob, now |-> clock] \in CleanerState
    BY <1>c DEF CleanerState, Due
  <2>3. cleaner' \in [Cleaners -> CleanerState]
    BY <2>1, <2>2 DEF TypeOK
  <2>4. QED
    BY <1>1, <2>3 DEF CleanList, TypeOK, BusyHasMessage
<1>2. ASSUME NEW j \in Jobs, CleanDelete(c, j) PROVE TypeInv'
  <2>1. [cleaner[c] EXCEPT !.batch = @ \ {j}, !.current = j] \in CleanerState
    BY <1>c DEF CleanerState
  <2>2. ASSUME cleaner' = [cleaner EXCEPT ![c].batch = @ \ {j}, ![c].current = j]
        PROVE  cleaner' \in [Cleaners -> CleanerState]
    <3>1. cleaner' = [cleaner EXCEPT ![c] =
                        [cleaner[c] EXCEPT !.batch = @ \ {j}, !.current = j]]
      BY <2>2 DEF TypeOK
    <3>2. QED
      BY <2>1, <3>1 DEF TypeOK
  <2>3. cleaner' \in [Cleaners -> CleanerState]
    BY <1>2, <1>s, <2>2 DEF CleanDelete
  <2>4. object' \in [Jobs -> Nat] /\ faults' \in Nat
    BY <1>2 DEF CleanDelete, TypeOK, Fault
  <2>5. QED
    BY <1>2, <2>3, <2>4 DEF CleanDelete, TypeOK, BusyHasMessage
<1>3. CASE CleanExpire(c)
  <2> DEFINE j == cleaner[c].current
             now == cleaner[c].now
  <2>1. j \in Jobs
    BY <1>3 DEF CleanExpire
  <2>2. jobs[j] \in Row /\ jobs[j].version + 1 \in Nat
    BY <2>1 DEF TypeOK, Row
  <2>3. [cleaner[c] EXCEPT !.current = NoJob] \in CleanerState
    BY <1>c DEF CleanerState
  <2>4. cleaner' \in [Cleaners -> CleanerState]
    BY <1>3, <1>s, <2>3 DEF CleanExpire, NextInBatch, TypeOK
  <2>5. CASE Expirable(j, now)
    <3>1. jobs' \in [Jobs -> Row]
      BY <1>3, <1>c, <2>1, <2>2, <2>5, BumpType, SetRowType DEF CleanExpire
    <3>2. AddOutbox(j, "expired", jobs[j].version + 1)
      BY <1>3, <2>5 DEF CleanExpire
    <3>3. QED
      BY <1>3, <2>1, <2>2, <2>4, <3>1, <3>2, AddOutboxType
      DEF CleanExpire, TypeOK, BusyHasMessage
  <2>6. CASE ~Expirable(j, now)
    BY <1>3, <2>4, <2>6 DEF CleanExpire, TypeOK, BusyHasMessage
  <2>7. QED
    BY <2>5, <2>6
<1>4. CASE CleanAborted(c)
  BY <1>4, <1>s DEF CleanAborted, TypeOK, BusyHasMessage, Fault
<1>5. QED
  BY <1>1, <1>2, <1>3, <1>4 DEF CleanerStep

LEMMA TypeInvPurge ==
    ASSUME TypeInv, NEW j \in Jobs, PurgeExpiredMetadata(j)
    PROVE  TypeInv'
<1> USE DEF TypeInv
<1>1. jobs[j].version \in Nat
  BY DEF TypeOK, Row
<1>2. [AbsentRow EXCEPT !.status = "purged", !.version = jobs[j].version] \in Row
  BY <1>1, PurgedRow
<1>3. jobs' \in [Jobs -> Row]
  BY <1>2, SetRowType DEF PurgeExpiredMetadata
<1>4. QED
  BY <1>3 DEF PurgeExpiredMetadata, TypeOK, BusyHasMessage

LEMMA TypeInvNext == TypeInv /\ [Next]_vars => TypeInv'
<1> SUFFICES ASSUME TypeInv, [Next]_vars PROVE TypeInv'
  OBVIOUS
<1>1. CASE ClientStep
  BY <1>1, TypeInvClient
<1>2. CASE DispatcherStep \/ \E w \in Workers : DeliveryStep(w)
  BY <1>2, TypeInvBus
<1>3. CASE \E w \in Workers : WorkerStep(w) \/ WorkerMishap(w)
  BY <1>3, TypeInvWorker, TypeInvMishap
<1>4. CASE \E c \in Cleaners : CleanerStep(c) \/ CleanAborted(c)
  BY <1>4, TypeInvCleaner
<1>5. CASE \E j \in Jobs : PurgeExpiredMetadata(j)
  BY <1>5, TypeInvPurge
<1>6. CASE Tick
  BY <1>6 DEF Tick, TypeInv, TypeOK, BusyHasMessage
<1>7. CASE UNCHANGED vars
  BY <1>7 DEF vars, TypeInv, TypeOK, BusyHasMessage
<1>8. QED
  BY <1>1, <1>2, <1>3, <1>4, <1>5, <1>6, <1>7 DEF Next

LEMMA TypeInvAlways == Spec => []TypeInv
BY TypeInvInit, TypeInvNext, PTL DEF Spec

\* The table, the outbox, the queue, the bucket and the actors keep their
\* types, whatever fails and in whatever order the steps come.
THEOREM TypeCorrect == Spec => []TypeOK
<1>1. TypeInv => TypeOK
  BY DEF TypeInv
<1>2. QED
  BY <1>1, TypeInvAlways, PTL

-----------------------------------------------------------------------------
(* The engine implements the lifecycle *)

LP == INSTANCE JobLifecycleProofs WITH
    status <- statusColumn, version <- versionColumn, events <- outbox

\* Writing one row changes one entry of each column.
LEMMA SetRowMapped ==
    ASSUME TypeOK, NEW j \in Jobs, NEW row \in Row, SetRow(j, row)
    PROVE  /\ statusColumn[j] = StatusOf(j)
           /\ versionColumn[j] = jobs[j].version
           /\ statusColumn' = [statusColumn EXCEPT ![j] = row.status]
           /\ versionColumn' = [versionColumn EXCEPT ![j] = row.version]
BY DEF TypeOK, SetRow, statusColumn, versionColumn, StatusOf

\* A row written together with its event is an announced change ...
LEMMA AnnounceMapped ==
    ASSUME TypeOK, NEW j \in Jobs, NEW row, NEW from, NEW to, NEW change,
           StatusOf(j) \in from, RowIs(row, to, jobs[j].version + 1), SetRow(j, row),
           AddOutbox(j, change, jobs[j].version + 1)
    PROVE  Lifecycle!Announce(j, from, to, change)
BY SetRowMapped DEF RowIs, Lifecycle!Announce, AddOutbox

\* ... and one written without an event is a silent one.
LEMMA SilentMapped ==
    ASSUME TypeOK, NEW j \in Jobs, NEW row, NEW from, NEW to,
           StatusOf(j) \in from, RowIs(row, to, jobs[j].version + 1), SetRow(j, row),
           UNCHANGED outbox
    PROVE  Lifecycle!Silent(j, from, to)
BY SetRowMapped DEF RowIs, Lifecycle!Silent

LEMMA ClientImplements ==
    ASSUME TypeInv, ClientStep
    PROVE  Lifecycle!LifecycleNext \/ UNCHANGED Lifecycle!lifecycleVars
<1> USE DEF TypeInv
<1>0. PICK j \in Jobs :
        \/ \E k \in Keys : Create(j, k)
        \/ \E expected \in 1 .. jobs[j].version :
              \/ Cancel(j, expected)
              \/ \E k \in Keys : Retry(j, expected, k)
        \/ \E ttl \in 1 .. PresignTTL : CreateDownloadURL(j, ttl)
  BY DEF ClientStep
<1>r. jobs[j] \in Row /\ clock \in Nat
  BY DEF TypeOK
<1>1. ASSUME NEW k \in Keys, Create(j, k) PROVE Lifecycle!Requested(j)
  <2> DEFINE bumped == Bump(jobs[j], "queued", clock)
             row == [bumped EXCEPT !.key = k, !.origin = k]
  <2>1. SetRow(j, row) /\ AddOutbox(j, "requested", jobs[j].version + 1)
    BY <1>1 DEF Create
  <2>2. RowIs(bumped, "queued", jobs[j].version + 1)
    BY <1>r, BumpedRow
  <2> HIDE DEF bumped
  <2>3. RowIs(row, "queued", jobs[j].version + 1)
    BY <2>2, CreatedRow DEF RowIs
  <2> HIDE DEF row
  <2>4. StatusOf(j) \in {"absent", "failed", "canceled"}
    BY <1>1 DEF Create
  <2>5. QED
    BY <2>1, <2>3, <2>4, AnnounceMapped DEF Lifecycle!Requested
<1>2. ASSUME NEW expected \in 1 .. jobs[j].version, Cancel(j, expected)
      PROVE  Lifecycle!Canceled(j)
  BY <1>2, <1>r, BumpedRow, AnnounceMapped DEF Cancel, Lifecycle!Canceled
<1>3. ASSUME NEW expected \in 1 .. jobs[j].version, NEW k \in Keys, Retry(j, expected, k)
      PROVE  Lifecycle!Requested(j)
  <2> DEFINE bumped == Bump(jobs[j], "queued", clock)
             row == [bumped EXCEPT !.key = k, !.checksum = 0, !.expiresAt = 0]
  <2>1. SetRow(j, row) /\ AddOutbox(j, "requested", jobs[j].version + 1)
    BY <1>3 DEF Retry
  <2>2. RowIs(bumped, "queued", jobs[j].version + 1)
    BY <1>r, BumpedRow
  <2> HIDE DEF bumped
  <2>3. RowIs(row, "queued", jobs[j].version + 1)
    BY <2>2, RetriedRow DEF RowIs
  <2> HIDE DEF row
  <2>4. StatusOf(j) \in {"absent", "failed", "canceled"}
    BY <1>3 DEF Retry
  <2>5. QED
    BY <2>1, <2>3, <2>4, AnnounceMapped DEF Lifecycle!Requested
<1>4. ASSUME NEW ttl \in 1 .. PresignTTL, CreateDownloadURL(j, ttl)
      PROVE  UNCHANGED Lifecycle!lifecycleVars
  BY <1>4 DEF CreateDownloadURL, Lifecycle!lifecycleVars, statusColumn, versionColumn
<1>5. QED
  BY <1>0, <1>1, <1>2, <1>3, <1>4 DEF Lifecycle!LifecycleNext

\* A step that leaves the table and the outbox alone is a stuttering step.
LEMMA StutterMapped ==
    ASSUME UNCHANGED <<jobs, outbox>>
    PROVE  UNCHANGED Lifecycle!lifecycleVars
BY DEF Lifecycle!lifecycleVars, statusColumn, versionColumn

LEMMA ClaimImplements ==
    ASSUME TypeInv, NEW j \in Jobs, StatusOf(j) = "queued", ClaimRow(j), UNCHANGED outbox
    PROVE  Lifecycle!Started(j)
<1>1. jobs[j] \in Row /\ clock \in Nat
  BY DEF TypeInv, TypeOK
<1>2. RowIs(Bump(jobs[j], "running", clock), "running", jobs[j].version + 1)
  BY <1>1, BumpedRow
<1>3. QED
  BY <1>2, SilentMapped DEF ClaimRow, Lifecycle!Started, TypeInv

LEMMA BusImplements ==
    ASSUME TypeInv,
           \/ DispatcherStep
           \/ \E w \in Workers : DeliveryStep(w)
           \/ \E w \in Workers, m \in queue : ClaimFailed(w, m)
    PROVE  Lifecycle!LifecycleNext \/ UNCHANGED Lifecycle!lifecycleVars
<1>1. CASE DispatcherStep
  BY <1>1, StutterMapped DEF DispatcherStep, Dispatch
<1>2. ASSUME NEW w \in Workers, NEW m \in queue,
             Claim(w, m) \/ ClaimMissed(w, m) \/ ClaimFailed(w, m)
      PROVE  Lifecycle!LifecycleNext \/ UNCHANGED Lifecycle!lifecycleVars
  <2>1. m.job \in Jobs
    BY DEF TypeInv, TypeOK, Messages
  <2>2. \/ UNCHANGED <<jobs, outbox>>
        \/ StatusOf(m.job) = "queued" /\ ClaimRow(m.job) /\ UNCHANGED outbox
    BY <1>2 DEF Claim, ClaimMissed, ClaimFailed
  <2>3. QED
    BY <2>1, <2>2, StutterMapped, ClaimImplements DEF Lifecycle!LifecycleNext
<1>3. QED
  BY <1>1, <1>2 DEF DeliveryStep

LEMMA WorkerImplements ==
    ASSUME TypeInv, NEW w \in Workers, WorkerStep(w)
    PROVE  Lifecycle!LifecycleNext \/ UNCHANGED Lifecycle!lifecycleVars
<1> USE DEF TypeInv
<1> DEFINE j == JobOf(w)
<1>0. worker[w].pc # "idle"
  BY DEF WorkerStep, Checkpoint, StreamDone, StreamStale, PipelineError, Upload, Succeed,
     SucceedStale, Discard, FailDelete, FailPersist
<1>j. j \in Jobs /\ jobs[j] \in Row /\ worker[w] \in WorkerState
  BY <1>0, BusyWorker
<1>n. clock \in Nat /\ worker[w].completedAt \in Nat /\ worker[w].run \in Nat
  BY <1>j DEF TypeOK, WorkerState
<1>e. worker[w].completedAt + ResultTTL \in Nat
  BY <1>n, DurationAssumption
<1> HIDE DEF j
<1>1. CASE Checkpoint(w) \/ StreamDone(w)
  <2>1. RowIs(Bump(jobs[j], "running", clock), "running", jobs[j].version + 1)
    BY <1>j, <1>n, BumpedRow
  <2>2. /\ SetRow(j, Bump(jobs[j], "running", clock))
        /\ StatusOf(j) \in {"running"}
        /\ UNCHANGED outbox
    BY <1>1 DEF Checkpoint, StreamDone, Progress, j
  <2>3. Lifecycle!Progressed(j)
    BY <1>j, <2>1, <2>2, SilentMapped DEF Lifecycle!Progressed
  <2>4. QED
    BY <1>j, <2>3 DEF Lifecycle!LifecycleNext
<1>2. CASE \/ StreamStale(w) \/ PipelineError(w) \/ Upload(w) \/ SucceedStale(w)
           \/ Discard(w) \/ FailDelete(w)
  BY <1>2, StutterMapped
  DEF StreamStale, PipelineError, Upload, SucceedStale, Discard, FailDelete
<1>3. CASE Succeed(w)
  <2> DEFINE bumped == Bump(jobs[j], "succeeded", worker[w].completedAt)
             sum == worker[w].run
             until == worker[w].completedAt + ResultTTL
             row == [bumped EXCEPT !.checksum = sum, !.expiresAt = until]
  <2>1. SetRow(j, row) /\ AddOutbox(j, "succeeded", jobs[j].version + 1)
    BY <1>3 DEF Succeed, j
  <2>2. RowIs(bumped, "succeeded", jobs[j].version + 1)
    BY <1>j, <1>n, BumpedRow
  <2>s. sum \in Nat /\ until \in Nat
    BY <1>n, <1>e
  <2> HIDE DEF bumped, sum, until
  <2>3. RowIs(row, "succeeded", jobs[j].version + 1)
    BY <2>2, <2>s, ResultRowIs
  <2> HIDE DEF row
  <2>4. StatusOf(j) \in {"running"}
    BY <1>3 DEF Succeed, j
  <2>5. Lifecycle!Succeeded(j)
    BY <1>j, <2>1, <2>3, <2>4, AnnounceMapped DEF Lifecycle!Succeeded
  <2>6. QED
    BY <1>j, <2>5 DEF Lifecycle!LifecycleNext
<1>4. CASE FailPersist(w)
  <2>1. CASE StatusOf(j) # "running"
    BY <1>4, <2>1, StutterMapped DEF FailPersist, j
  <2>2. CASE StatusOf(j) = "running"
    <3>1. RowIs(Bump(jobs[j], "failed", clock), "failed", jobs[j].version + 1)
      BY <1>j, <1>n, BumpedRow
    <3>2. /\ SetRow(j, Bump(jobs[j], "failed", clock))
          /\ AddOutbox(j, "failed", jobs[j].version + 1)
      BY <1>4, <2>2 DEF FailPersist, j
    <3>3. Lifecycle!Failed(j)
      BY <1>j, <2>2, <3>1, <3>2, AnnounceMapped DEF Lifecycle!Failed
    <3>4. QED
      BY <1>j, <3>3 DEF Lifecycle!LifecycleNext
  <2>3. QED
    BY <2>1, <2>2
<1>5. QED
  BY <1>1, <1>2, <1>3, <1>4 DEF WorkerStep

LEMMA CleanerImplements ==
    ASSUME TypeInv, NEW c \in Cleaners, CleanerStep(c) \/ CleanAborted(c)
    PROVE  Lifecycle!LifecycleNext \/ UNCHANGED Lifecycle!lifecycleVars
<1> USE DEF TypeInv
<1>1. CASE CleanList(c) \/ CleanAborted(c) \/ \E j \in Jobs : CleanDelete(c, j)
  BY <1>1, StutterMapped DEF CleanList, CleanAborted, CleanDelete
<1>2. CASE CleanExpire(c)
  <2> DEFINE j == cleaner[c].current
             row == Bump(jobs[j], "expired", cleaner[c].now)
  <2>1. j \in Jobs /\ jobs[j] \in Row /\ cleaner[c].now \in Nat
    BY <1>2 DEF CleanExpire, TypeOK, CleanerState
  <2>2. RowIs(row, "expired", jobs[j].version + 1)
    BY <2>1, BumpedRow
  <2>3. \/ UNCHANGED <<jobs, outbox>>
        \/ /\ StatusOf(j) \in {"succeeded"}
           /\ SetRow(j, row)
           /\ AddOutbox(j, "expired", jobs[j].version + 1)
    BY <1>2 DEF CleanExpire, Expirable
  <2> HIDE DEF row, j
  <2>4. UNCHANGED Lifecycle!lifecycleVars \/ Lifecycle!Expired(j)
    BY <2>1, <2>2, <2>3, StutterMapped, AnnounceMapped DEF Lifecycle!Expired
  <2>5. QED
    BY <2>1, <2>4 DEF Lifecycle!LifecycleNext
<1>3. QED
  BY <1>1, <1>2 DEF CleanerStep

LEMMA PurgeImplements ==
    ASSUME TypeInv, NEW j \in Jobs, PurgeExpiredMetadata(j)
    PROVE  Lifecycle!Purged(j)
<1> DEFINE row == [AbsentRow EXCEPT !.status = "purged", !.version = jobs[j].version]
<1>1. jobs[j].version \in Nat
  BY DEF TypeInv, TypeOK, Row
<1>2. row \in Row /\ row.status = "purged" /\ row.version = jobs[j].version
  BY <1>1, PurgedRow
<1> HIDE DEF row
<1>3. SetRow(j, row) /\ StatusOf(j) = "expired" /\ UNCHANGED outbox
  BY DEF PurgeExpiredMetadata, row
<1>4. /\ statusColumn[j] = "expired"
      /\ statusColumn' = [statusColumn EXCEPT ![j] = "purged"]
      /\ versionColumn' = [versionColumn EXCEPT ![j] = jobs[j].version]
      /\ versionColumn[j] = jobs[j].version
  BY <1>2, <1>3, SetRowMapped DEF TypeInv
<1>5. versionColumn' = versionColumn
  BY <1>4 DEF versionColumn
<1>6. QED
  BY <1>3, <1>4, <1>5 DEF Lifecycle!Purged

LEMMA StepImplements ==
    TypeInv /\ [Next]_vars => [Lifecycle!LifecycleNext]_(Lifecycle!lifecycleVars)
<1> SUFFICES ASSUME TypeInv, [Next]_vars
             PROVE  Lifecycle!LifecycleNext \/ UNCHANGED Lifecycle!lifecycleVars
  OBVIOUS
<1>1. CASE ClientStep
  BY <1>1, ClientImplements
<1>2. CASE \/ DispatcherStep
           \/ \E w \in Workers : DeliveryStep(w) \/ \E m \in queue : ClaimFailed(w, m)
  BY <1>2, BusImplements
<1>3. CASE \E w \in Workers : WorkerStep(w)
  BY <1>3, WorkerImplements
<1>4. CASE \E w \in Workers : SucceedLost(w) \/ FailLost(w) \/ LeaseLapses(w) \/ Crash(w)
  BY <1>4, StutterMapped DEF SucceedLost, FailLost, LeaseLapses, Crash
<1>5. CASE \E c \in Cleaners : CleanerStep(c) \/ CleanAborted(c)
  BY <1>5, CleanerImplements
<1>6. CASE \E j \in Jobs : PurgeExpiredMetadata(j)
  BY <1>6, PurgeImplements DEF Lifecycle!LifecycleNext
<1>7. CASE Tick \/ UNCHANGED vars
  BY <1>7, StutterMapped DEF Tick, vars
<1>8. QED
  BY <1>1, <1>2, <1>3, <1>4, <1>5, <1>6, <1>7 DEF Next, WorkerMishap

LEMMA InitImplements == Init => Lifecycle!LifecycleInit
BY DEF Init, AbsentRow, Lifecycle!LifecycleInit, statusColumn, versionColumn

\* Whatever workers, cleaners, clients and failures do, the job table and the
\* outbox follow the published lifecycle.
THEOREM EngineImplementsLifecycle == Spec => ImplementsLifecycle
<1>1. Spec => [][Lifecycle!LifecycleNext]_(Lifecycle!lifecycleVars)
  BY TypeInvAlways, StepImplements, PTL DEF Spec
<1>2. QED
  BY <1>1, InitImplements, PTL DEF Spec, ImplementsLifecycle, Lifecycle!LifecycleSpec

\* JobLifecycleProofs, instantiated, speaks of the same lifecycle.
LEMMA SameLifecycle ==
    /\ Lifecycle!LifecycleInit <=> LP!LifecycleInit
    /\ [Lifecycle!LifecycleNext]_(Lifecycle!lifecycleVars)
          <=> [LP!LifecycleNext]_(LP!lifecycleVars)
    /\ Lifecycle!EventsAreAccurate <=> LP!EventsAreAccurate
<1>1. Lifecycle!LifecycleInit <=> LP!LifecycleInit
  BY DEF Lifecycle!LifecycleInit, LP!LifecycleInit
<1>2. /\ Lifecycle!LifecycleNext <=> LP!LifecycleNext
      /\ Lifecycle!lifecycleVars = LP!lifecycleVars
      /\ (Lifecycle!lifecycleVars)' = (LP!lifecycleVars)'
  BY DEF Lifecycle!LifecycleNext, LP!LifecycleNext, Lifecycle!lifecycleVars,
     LP!lifecycleVars, Lifecycle!Requested, LP!Requested, Lifecycle!Started, LP!Started,
     Lifecycle!Progressed, LP!Progressed, Lifecycle!Succeeded, LP!Succeeded,
     Lifecycle!Failed, LP!Failed, Lifecycle!Canceled, LP!Canceled, Lifecycle!Expired,
     LP!Expired, Lifecycle!Purged, LP!Purged, Lifecycle!Announce, LP!Announce,
     Lifecycle!Silent, LP!Silent
<1>3. Lifecycle!EventsAreAccurate <=> LP!EventsAreAccurate
  BY DEF Lifecycle!EventsAreAccurate, LP!EventsAreAccurate, Lifecycle!EventsBehindRows,
     LP!EventsBehindRows, Lifecycle!EventVersionsDistinct, LP!EventVersionsDistinct,
     Lifecycle!SettledRowsAnnounced, LP!SettledRowsAnnounced,
     Lifecycle!RunningRowsRequested, LP!RunningRowsRequested, Lifecycle!ChangeOf,
     LP!ChangeOf
<1>4. QED
  BY <1>1, <1>2, <1>3

\* The events of the engine are accurate, because it implements the lifecycle.
THEOREM EngineEventsAccurate == Spec => []EventsMatchRows
BY EngineImplementsLifecycle, SameLifecycle, LP!LifecycleEventsAccurate, PTL
DEF ImplementsLifecycle, EventsMatchRows, Lifecycle!LifecycleSpec, LP!LifecycleSpec

\* However many cleaners list the same result, and however their two steps
\* interleave, one of them expires it: the lifecycle has no second expiry.
THEOREM ResultsExpireOnce == Spec => []ExpiredOnce
<1>1. ExpiredOnce <=> LP!ExpiresOnce
  BY DEF ExpiredOnce, LP!ExpiresOnce
<1>2. QED
  BY <1>1, EngineImplementsLifecycle, SameLifecycle, LP!LifecycleExpiresOnce, PTL
  DEF ImplementsLifecycle, Lifecycle!LifecycleSpec, LP!LifecycleSpec

-----------------------------------------------------------------------------
(* One executor per job, and what follows from it *)

\* While a worker is busy with a job, the row is the one it has claimed: it
\* is running, with no event since the claim, or a client has canceled it.
RunOK(w) ==
    LET j == JobOf(w) IN
    worker[w].pc # "idle" =>
        /\ StatusOf(j) \in {"running", "canceled"}
        /\ worker[w].run > 0
        /\ StatusOf(j) = "running" =>
              \A e \in outbox : e.job = j => e.version < worker[w].run
        /\ worker[w].pc = "stored" => object[j] = worker[w].run

\* The result of j, if it ever had one, was due at time now.
Over(j, now) ==
    /\ StatusOf(j) \in {"succeeded", "expired", "purged"}
    /\ StatusOf(j) = "succeeded" => jobs[j].expiresAt <= now

\* A cleaner has only seen results that were due, and they stay so.
CleanerOK(c) ==
    /\ cleaner[c].now <= clock
    /\ \A j \in cleaner[c].batch : Over(j, cleaner[c].now)
    /\ cleaner[c].current \in Jobs => Over(cleaner[c].current, cleaner[c].now)

\* A URL expires no later than the result it leads to.
UrlWithinResult ==
    \A u \in urls : clock < u.until =>
        StatusOf(u.job) = "succeeded" /\ u.until <= jobs[u.job].expiresAt

ExecInv ==
    /\ SingleExecutor
    /\ \A w \in Workers : RunOK(w)
    /\ \A c \in Cleaners : CleanerOK(c)
    /\ ResultAvailable
    /\ CanceledRunNeverPublishes
    /\ UrlWithinResult

\* The types of what ExecInv speaks of.
LEMMA Flat ==
    ASSUME TypeOK
    PROVE  /\ \A j \in Jobs : /\ jobs[j].version \in Nat /\ jobs[j].checksum \in Nat
                              /\ jobs[j].expiresAt \in Nat /\ object[j] \in Nat
           /\ \A e \in outbox : e.job \in Jobs /\ e.version \in Nat
           /\ \A w \in Workers : worker[w].run \in Nat /\ worker[w].completedAt \in Nat
           /\ \A c \in Cleaners : cleaner[c].now \in Nat /\ cleaner[c].batch \subseteq Jobs
           /\ \A u \in urls : u.job \in Jobs /\ u.until \in Nat
           /\ clock \in Nat
BY DEF TypeOK, Row, WorkerState, CleanerState, Urls

LEMMA BusyJob ==
    ASSUME TypeInv
    PROVE  \A w \in Workers : worker[w].pc # "idle" => JobOf(w) \in Jobs
BY BusyWorker

LEMMA ExecInvInit == Init => ExecInv
<1> SUFFICES ASSUME Init PROVE ExecInv
  OBVIOUS
<1>1. \A w \in Workers : worker[w].pc = "idle"
  BY DEF Init, IdleWorker
<1>2. \A j \in Jobs : StatusOf(j) = "absent"
  BY DEF Init, AbsentRow, StatusOf
<1>3. \A c \in Cleaners : CleanerOK(c)
  BY NoJobAssumption DEF Init, IdleCleaner, CleanerOK
<1>4. QED
  BY <1>1, <1>2, <1>3
  DEF Init, ExecInv, SingleExecutor, Executing, RunOK, ResultAvailable,
      CanceledRunNeverPublishes, UrlWithinResult

\* A step that changes nothing but row j and its events.
OnlyRow(j) ==
    /\ \A i \in Jobs \ {j} : jobs'[i] = jobs[i]
    /\ \A e \in outbox' : e \in outbox \/ e.job = j
    /\ UNCHANGED <<object, worker, cleaner, urls, clock>>

\* Such a step harms nobody if the row is not that of a live run.
LEMMA RowStepKeeps ==
    ASSUME TypeInv, ExecInv, NEW j \in Jobs, OnlyRow(j),
           \/ /\ StatusOf(j) \in {"absent", "failed", "canceled"}
              /\ jobs'[j].status = "queued"
              /\ \A w \in Workers : ~Executing(w, j)
           \/ StatusOf(j) = "queued" /\ jobs'[j].status = "running"
           \/ StatusOf(j) \in {"queued", "running"} /\ jobs'[j].status = "canceled"
           \/ StatusOf(j) = "expired" /\ jobs'[j].status = "purged"
    PROVE  ExecInv'
<1> USE DEF OnlyRow, StatusOf
<1>f. /\ \A e \in outbox : e.job \in Jobs
      /\ \A u \in urls : u.job \in Jobs
      /\ \A c \in Cleaners : cleaner[c].batch \subseteq Jobs
  BY Flat DEF TypeInv
<1>1. SingleExecutor'
  BY DEF ExecInv, SingleExecutor, Executing, JobOf
<1>2. ASSUME NEW w \in Workers PROVE RunOK(w)'
  <2> SUFFICES ASSUME worker[w].pc # "idle" PROVE RunOK(w)'
    BY DEF RunOK
  <2> DEFINE i == JobOf(w)
  <2>1. i \in Jobs /\ JobOf(w)' = i
    BY BusyJob DEF JobOf
  <2>2. RunOK(w) /\ Executing(w, i)
    BY DEF ExecInv, Executing
  <2> HIDE DEF i
  <2>3. CASE i # j
    BY <2>1, <2>2, <2>3 DEF RunOK, i
  <2>4. CASE i = j
    <3>1. jobs'[j].status = "canceled"
      BY <2>2, <2>4 DEF RunOK, i
    <3>2. QED
      BY <2>1, <2>2, <2>4, <3>1 DEF RunOK, i
  <2>5. QED
    BY <2>3, <2>4
<1>3. ASSUME NEW c \in Cleaners PROVE CleanerOK(c)'
  <2>1. \A i \in Jobs : \A now : Over(i, now) => Over(i, now)'
    BY DEF Over
  <2>2. QED
    BY <1>f, <2>1 DEF ExecInv, CleanerOK
<1>4. ResultAvailable'
  BY DEF ExecInv, ResultAvailable
<1>5. CanceledRunNeverPublishes'
  BY DEF ExecInv, CanceledRunNeverPublishes
<1>6. UrlWithinResult'
  BY <1>f DEF ExecInv, UrlWithinResult
<1>7. QED
  BY <1>1, <1>2, <1>3, <1>4, <1>5, <1>6 DEF ExecInv

\* A step of the busy worker w touches its own state and what belongs to its
\* job, and it stays with its run or ends it.
OnlyRun(w) ==
    LET j == JobOf(w) IN
    /\ \A v \in Workers \ {w} : worker'[v] = worker[v]
    /\ \A i \in Jobs \ {j} : jobs'[i] = jobs[i] /\ object'[i] = object[i]
    /\ \A e \in outbox' : e \in outbox \/ e.job = j
    /\ UNCHANGED <<cleaner, urls, clock>>
    /\ worker'[w].pc # "idle" =>
          worker'[w].msg.job = j /\ worker'[w].run = worker[w].run

\* The run goes on, or is given up, without a word to the subscribers.
RunQuiet(w) ==
    LET j == JobOf(w) IN
    /\ \/ jobs'[j] = jobs[j]
       \/ StatusOf(j) = "running" /\ jobs'[j].status = "running"
    /\ outbox' = outbox
    /\ worker'[w].pc = "stored" => object'[j] = worker[w].run

\* Its result is published, or its failure.
RunPublishes(w) ==
    LET j == JobOf(w) IN
    /\ worker[w].pc = "stored" /\ StatusOf(j) = "running"
    /\ object'[j] = object[j]
    /\ jobs'[j].status = "succeeded" /\ jobs'[j].checksum = worker[w].run
    /\ \A e \in outbox' : e \in outbox \/ e.change = "succeeded"
    /\ worker'[w].pc = "idle"

RunFails(w) ==
    /\ StatusOf(JobOf(w)) = "running" /\ jobs'[JobOf(w)].status = "failed"
    /\ worker'[w].pc = "idle"

LEMMA RunStepKeeps ==
    ASSUME TypeInv, ExecInv, NEW w \in Workers, worker[w].pc # "idle", OnlyRun(w),
           RunQuiet(w) \/ RunPublishes(w) \/ RunFails(w)
    PROVE  ExecInv'
<1> DEFINE j == JobOf(w)
<1> USE DEF StatusOf
<1>f. /\ \A e \in outbox : e.job \in Jobs
      /\ \A u \in urls : u.job \in Jobs
      /\ \A c \in Cleaners : cleaner[c].batch \subseteq Jobs
      /\ worker[w].run \in Nat
  BY Flat DEF TypeInv
<1>j. j \in Jobs /\ Executing(w, j)
  BY BusyJob DEF Executing
<1>r. /\ StatusOf(j) \in {"running", "canceled"}
      /\ worker[w].run > 0
      /\ StatusOf(j) = "running" => \A e \in outbox : e.job = j => e.version < worker[w].run
      /\ worker[w].pc = "stored" => object[j] = worker[w].run
  BY DEF ExecInv, RunOK
<1>s. /\ \A v \in Workers \ {w} : worker'[v] = worker[v]
      /\ \A i \in Jobs \ {j} : jobs'[i] = jobs[i] /\ object'[i] = object[i]
      /\ \A e \in outbox' : e \in outbox \/ e.job = j
      /\ UNCHANGED <<cleaner, urls, clock>>
      /\ worker'[w].pc # "idle" =>
            worker'[w].msg.job = j /\ worker'[w].run = worker[w].run
  BY DEF OnlyRun
<1>o. \/ /\ jobs'[j].status = StatusOf(j) /\ outbox' = outbox
         /\ worker'[w].pc = "stored" => object'[j] = worker[w].run
      \/ /\ StatusOf(j) = "running" /\ jobs'[j].status = "succeeded"
         /\ object'[j] = worker[w].run /\ jobs'[j].checksum = worker[w].run
         /\ \A e \in outbox' : e \in outbox \/ e.change = "succeeded"
         /\ worker'[w].pc = "idle"
      \/ jobs'[j].status = "failed" /\ worker'[w].pc = "idle"
  BY <1>r DEF RunQuiet, RunPublishes, RunFails
<1>1. \A v \in Workers, i \in Jobs : Executing(v, i)' => Executing(v, i)
  BY <1>s, <1>j DEF Executing, JobOf
<1>2. SingleExecutor'
  BY <1>1 DEF ExecInv, SingleExecutor
<1>3. ASSUME NEW v \in Workers PROVE RunOK(v)'
  <2>1. CASE v = w
    BY <2>1, <1>r, <1>s, <1>o DEF RunOK, JobOf
  <2>2. CASE v # w /\ worker[v].pc # "idle"
    <3> DEFINE i == JobOf(v)
    <3>1. i \in Jobs /\ Executing(v, i)
      BY <2>2, BusyJob DEF Executing
    <3>2. i # j
      BY <2>2, <3>1, <1>j DEF ExecInv, SingleExecutor
    <3>3. worker'[v] = worker[v] /\ JobOf(v)' = i
      BY <2>2, <1>s DEF JobOf
    <3>4. /\ jobs'[i] = jobs[i] /\ object'[i] = object[i]
          /\ \A e \in outbox' : e.job = i => e \in outbox
      BY <3>1, <3>2, <1>s
    <3>5. RunOK(v)
      BY DEF ExecInv
    <3>6. QED
      BY <3>3, <3>4, <3>5 DEF RunOK
  <2>3. CASE v # w /\ worker[v].pc = "idle"
    BY <2>3, <1>s DEF RunOK
  <2>4. QED
    BY <2>1, <2>2, <2>3
<1> HIDE DEF j
<1>4. ASSUME NEW c \in Cleaners PROVE CleanerOK(c)'
  <2>1. \A i \in Jobs : \A now : Over(i, now) => Over(i, now)'
    BY <1>r, <1>s DEF Over
  <2>2. QED
    BY <1>f, <1>s, <2>1 DEF ExecInv, CleanerOK
<1>5. ResultAvailable'
  BY <1>f, <1>r, <1>s, <1>o DEF ExecInv, ResultAvailable
<1>6. CanceledRunNeverPublishes'
  <2> SUFFICES ASSUME NEW i \in Jobs, jobs'[i].status \in {"succeeded", "expired"},
                      NEW e \in outbox', e.job = i,
                      e.change \in {"canceled", "failed", "requested"}
               PROVE  e.version < jobs'[i].checksum
    BY DEF CanceledRunNeverPublishes
  <2>1. CASE i # j
    BY <2>1, <1>s DEF ExecInv, CanceledRunNeverPublishes
  <2>2. CASE i = j
    BY <2>2, <1>r, <1>o
  <2>3. QED
    BY <2>1, <2>2
<1>7. UrlWithinResult'
  BY <1>f, <1>r, <1>s DEF ExecInv, UrlWithinResult
<1>8. QED
  BY <1>2, <1>3, <1>4, <1>5, <1>6, <1>7 DEF ExecInv

\* What SetRow and AddOutbox leave alone.
LEMMA SetRowOnly ==
    ASSUME TypeOK, NEW j \in Jobs, NEW row, SetRow(j, row)
    PROVE  jobs'[j] = row /\ \A i \in Jobs \ {j} : jobs'[i] = jobs[i]
BY DEF TypeOK, SetRow

LEMMA AddOutboxOnly ==
    ASSUME NEW j, NEW change, NEW v, AddOutbox(j, change, v)
    PROVE  \A e \in outbox' : e \in outbox \/ (e.job = j /\ e.change = change)
BY DEF AddOutbox

LEMMA ExecClient ==
    ASSUME PromptRetry = FALSE, TypeInv, ExecInv, ClientStep
    PROVE  ExecInv'
<1> USE DEF TypeInv
<1>0. PICK j \in Jobs :
        \/ \E k \in Keys : Create(j, k)
        \/ \E expected \in 1 .. jobs[j].version :
              \/ Cancel(j, expected)
              \/ \E k \in Keys : Retry(j, expected, k)
        \/ \E ttl \in 1 .. PresignTTL : CreateDownloadURL(j, ttl)
  BY DEF ClientStep
<1>r. jobs[j] \in Row /\ clock \in Nat
  BY DEF TypeOK
<1>b. /\ Bump(jobs[j], "queued", clock) \in Row
      /\ Bump(jobs[j], "queued", clock).status = "queued"
      /\ Bump(jobs[j], "canceled", clock).status = "canceled"
  BY <1>r, BumpedRow DEF RowIs
<1>1. ASSUME NEW k \in Keys, Create(j, k) PROVE ExecInv'
  <2> DEFINE bumped == Bump(jobs[j], "queued", clock)
             row == [bumped EXCEPT !.key = k, !.origin = k]
  <2>1. row.status = "queued"
    BY <1>b, CreatedRow
  <2>2. SetRow(j, row) /\ AddOutbox(j, "requested", jobs[j].version + 1)
    BY <1>1 DEF Create
  <2> HIDE DEF bumped, row
  <2>3. jobs'[j].status = "queued" /\ OnlyRow(j)
    BY <1>1, <2>1, <2>2, SetRowOnly, AddOutboxOnly DEF Create, OnlyRow
  <2>4. StatusOf(j) = "absent"
    BY <1>1 DEF Create
  <2>5. \A w \in Workers : ~Executing(w, j)
    BY <2>4 DEF ExecInv, RunOK, Executing
  <2>6. QED
    BY <2>3, <2>4, <2>5, RowStepKeeps
<1>2. ASSUME NEW expected \in 1 .. jobs[j].version, Cancel(j, expected) PROVE ExecInv'
  <2>1. jobs'[j].status = "canceled" /\ OnlyRow(j)
    BY <1>2, <1>b, SetRowOnly, AddOutboxOnly DEF Cancel, OnlyRow
  <2>2. StatusOf(j) \in {"queued", "running"}
    BY <1>2 DEF Cancel
  <2>3. QED
    BY <2>1, <2>2, RowStepKeeps
<1>3. ASSUME NEW expected \in 1 .. jobs[j].version, NEW k \in Keys, Retry(j, expected, k)
      PROVE  ExecInv'
  <2> DEFINE bumped == Bump(jobs[j], "queued", clock)
             row == [bumped EXCEPT !.key = k, !.checksum = 0, !.expiresAt = 0]
  <2>1. row.status = "queued"
    BY <1>b, RetriedRow
  <2>2. SetRow(j, row) /\ AddOutbox(j, "requested", expected + 1)
    BY <1>3 DEF Retry
  <2> HIDE DEF bumped, row
  <2>3. jobs'[j].status = "queued" /\ OnlyRow(j)
    BY <1>3, <2>1, <2>2, SetRowOnly, AddOutboxOnly DEF Retry, OnlyRow
  <2>4. StatusOf(j) \in {"failed", "canceled"} /\ \A w \in Workers : ~Executing(w, j)
    BY <1>3 DEF Retry
  <2>5. QED
    BY <2>3, <2>4, RowStepKeeps
<1>4. ASSUME NEW ttl \in 1 .. PresignTTL, CreateDownloadURL(j, ttl) PROVE ExecInv'
  <2> DEFINE remaining == jobs[j].expiresAt - clock
             granted == IF ttl > remaining THEN remaining ELSE ttl
  <2>1. jobs[j].expiresAt \in Nat /\ ttl \in Nat
    BY <1>r, DurationAssumption DEF Row
  <2>2. clock + granted <= jobs[j].expiresAt /\ StatusOf(j) = "succeeded"
    BY <1>4, <2>1, <1>r DEF CreateDownloadURL
  <2>3. urls' = urls \cup {[job |-> j, until |-> clock + granted]}
    BY <1>4 DEF CreateDownloadURL
  <2> HIDE DEF granted
  <2>4. UNCHANGED <<jobs, outbox, object, worker, cleaner, clock>>
    BY <1>4 DEF CreateDownloadURL
  <2>5. UrlWithinResult'
    BY <2>2, <2>3, <2>4 DEF ExecInv, UrlWithinResult, StatusOf
  <2>6. QED
    BY <2>4, <2>5 DEF ExecInv, SingleExecutor, Executing, JobOf, RunOK, CleanerOK, Over,
       ResultAvailable, CanceledRunNeverPublishes, StatusOf
<1>5. QED
  BY <1>0, <1>1, <1>2, <1>3, <1>4

\* A step that none of this speaks of.
LEMMA ExecSame ==
    ASSUME ExecInv, UNCHANGED <<jobs, outbox, object, worker, cleaner, urls, clock>>
    PROVE  ExecInv'
BY DEF ExecInv, SingleExecutor, Executing, JobOf, RunOK, CleanerOK, Over, ResultAvailable,
   CanceledRunNeverPublishes, UrlWithinResult, StatusOf

\* Whoever claims a queued row is alone with it, and its events are older.
LEMMA ExecClaim ==
    ASSUME TypeInv, ExecInv, EventsMatchRows, NEW w \in Workers, NEW m \in queue, Claim(w, m)
    PROVE  ExecInv'
<1> DEFINE j == m.job
           next == [pc |-> "streaming", msg |-> Delivered(m), leased |-> TRUE,
                    run |-> jobs[j].version + 1, checkpoints |-> 0, completedAt |-> 0]
<1> USE DEF TypeInv, StatusOf
<1>m. m \in Messages /\ j \in Jobs /\ jobs[j] \in Row /\ clock \in Nat
  BY DEF TypeOK, Messages
<1>f. /\ \A e \in outbox : e.job \in Jobs /\ e.version \in Nat
      /\ \A u \in urls : u.job \in Jobs
      /\ \A c \in Cleaners : cleaner[c].batch \subseteq Jobs
      /\ jobs[j].version \in Nat
  BY <1>m, Flat
<1>b. Bump(jobs[j], "running", clock).status = "running"
  BY <1>m, BumpType
<1>q. StatusOf(j) = "queued" /\ worker[w].pc = "idle"
  BY DEF Claim
<1>u. /\ jobs'[j].status = "running" /\ \A i \in Jobs \ {j} : jobs'[i] = jobs[i]
      /\ UNCHANGED <<outbox, object, cleaner, urls, clock>>
  BY <1>m, <1>b, SetRowOnly DEF Claim, ClaimRow
<1>w. /\ worker'[w] = next /\ \A v \in Workers \ {w} : worker'[v] = worker[v]
  BY DEF Claim, TypeOK
<1>n. /\ next.pc = "streaming" /\ next.msg.job = j /\ next.run = jobs[j].version + 1
  BY <1>m, DeliveredType
<1> HIDE DEF next
<1>e. \A e \in outbox : e.job = j => e.version <= jobs[j].version
  BY <1>m DEF EventsMatchRows, Lifecycle!EventsAreAccurate, Lifecycle!EventsBehindRows,
     versionColumn
<1>0. \A v \in Workers : ~Executing(v, j)
  BY <1>q DEF ExecInv, RunOK, Executing
<1> HIDE DEF j
<1>1. SingleExecutor'
  <2>1. \A v \in Workers \ {w}, i \in Jobs : Executing(v, i)' => Executing(v, i) /\ i # j
    BY <1>0, <1>w DEF Executing, JobOf
  <2>2. \A i \in Jobs : Executing(w, i)' => i = j
    BY <1>w, <1>n DEF Executing, JobOf
  <2>3. QED
    BY <2>1, <2>2 DEF ExecInv, SingleExecutor
<1>2. ASSUME NEW v \in Workers PROVE RunOK(v)'
  <2>1. CASE v = w
    BY <2>1, <1>f, <1>u, <1>w, <1>n, <1>e DEF RunOK, JobOf
  <2>2. CASE v # w /\ worker[v].pc # "idle"
    <3>1. JobOf(v) \in Jobs /\ JobOf(v) # j
      BY <2>2, <1>0, BusyJob DEF Executing
    <3>2. worker'[v] = worker[v] /\ JobOf(v)' = JobOf(v) /\ RunOK(v)
      BY <2>2, <1>w DEF JobOf, ExecInv
    <3>3. QED
      BY <3>1, <3>2, <1>u DEF RunOK
  <2>3. CASE v # w /\ worker[v].pc = "idle"
    BY <2>3, <1>w DEF RunOK
  <2>4. QED
    BY <2>1, <2>2, <2>3
<1>3. ASSUME NEW c \in Cleaners PROVE CleanerOK(c)'
  <2>1. \A i \in Jobs : \A now : Over(i, now) => Over(i, now)'
    BY <1>q, <1>u DEF Over, j
  <2>2. QED
    BY <1>f, <1>u, <2>1 DEF ExecInv, CleanerOK
<1>4. ResultAvailable' /\ CanceledRunNeverPublishes'
  BY <1>u DEF ExecInv, ResultAvailable, CanceledRunNeverPublishes
<1>5. UrlWithinResult'
  BY <1>f, <1>q, <1>u DEF ExecInv, UrlWithinResult, j
<1>6. QED
  BY <1>1, <1>2, <1>3, <1>4, <1>5 DEF ExecInv

LEMMA ExecBus ==
    ASSUME TypeInv, ExecInv, EventsMatchRows,
           \/ DispatcherStep
           \/ \E w \in Workers : DeliveryStep(w)
           \/ \E w \in Workers, m \in queue : ClaimFailed(w, m)
    PROVE  ExecInv'
<1>1. CASE DispatcherStep
  BY <1>1, ExecSame DEF DispatcherStep, Dispatch
<1>2. ASSUME NEW w \in Workers, NEW m \in queue, ClaimMissed(w, m) PROVE ExecInv'
  BY <1>2, ExecSame DEF ClaimMissed
<1>3. ASSUME NEW w \in Workers, NEW m \in queue, ClaimFailed(w, m) PROVE ExecInv'
  <2>1. CASE UNCHANGED jobs
    BY <1>3, <2>1, ExecSame DEF ClaimFailed
  <2>2. CASE StatusOf(m.job) = "queued" /\ ClaimRow(m.job)
    <3>1. m.job \in Jobs /\ jobs[m.job] \in Row /\ clock \in Nat
      BY DEF TypeInv, TypeOK, Messages
    <3>2. Bump(jobs[m.job], "running", clock).status = "running"
      BY <3>1, BumpType
    <3>3. jobs'[m.job].status = "running" /\ OnlyRow(m.job)
      BY <1>3, <2>2, <3>1, <3>2, SetRowOnly DEF ClaimFailed, ClaimRow, OnlyRow, TypeInv
    <3>4. QED
      BY <2>2, <3>1, <3>3, RowStepKeeps
  <2>3. QED
    BY <1>3, <2>1, <2>2 DEF ClaimFailed
<1>4. QED
  BY <1>1, <1>2, <1>3, ExecClaim DEF DeliveryStep

LEMMA SettledWorker ==
    ASSUME TypeOK, NEW w \in Workers, Ack(w) \/ Nak(w)
    PROVE  worker'[w].pc = "idle" /\ \A v \in Workers \ {w} : worker'[v] = worker[v]
BY IdleTypes DEF Ack, Nak, TypeOK

LEMMA MovedWorker ==
    ASSUME TypeOK, NEW w \in Workers, NEW pc, Goto(w, pc)
    PROVE  /\ worker'[w].pc = pc
           /\ worker'[w].msg = worker[w].msg /\ worker'[w].run = worker[w].run
           /\ \A v \in Workers \ {w} : worker'[v] = worker[v]
<1>1. worker[w] \in WorkerState
  BY DEF TypeOK
<1>2. worker' = [worker EXCEPT ![w] = [worker[w] EXCEPT !.pc = pc]]
  BY DEF Goto
<1>3. /\ [worker[w] EXCEPT !.pc = pc].pc = pc
      /\ [worker[w] EXCEPT !.pc = pc].msg = worker[w].msg
      /\ [worker[w] EXCEPT !.pc = pc].run = worker[w].run
  BY <1>1 DEF WorkerState
<1>4. QED
  BY <1>2, <1>3 DEF TypeOK

LEMMA DeletedObject ==
    ASSUME TypeOK, NEW j \in Jobs, DeleteObject(j)
    PROVE  \A i \in Jobs \ {j} : object'[i] = object[i]
BY DEF DeleteObject, TypeOK

\* What the steps of a worker amount to, one by one.
LEMMA WorkerEffect ==
    ASSUME TypeInv, NEW w \in Workers,
           \/ WorkerStep(w)
           \/ SucceedLost(w) \/ FailLost(w) \/ LeaseLapses(w) \/ Crash(w)
    PROVE  /\ worker[w].pc # "idle"
           /\ OnlyRun(w)
           /\ RunQuiet(w) \/ RunPublishes(w) \/ RunFails(w)
<1> DEFINE j == JobOf(w)
<1> USE DEF TypeInv
<1>0. worker[w].pc # "idle"
  BY DEF WorkerStep, Checkpoint, StreamDone, StreamStale, PipelineError, Upload, Succeed,
     SucceedStale, Discard, FailDelete, FailPersist, SucceedLost, FailLost, LeaseLapses, Crash
<1>j. j \in Jobs /\ jobs[j] \in Row /\ worker[w] \in WorkerState
  BY <1>0, BusyWorker
<1>n. /\ clock \in Nat /\ worker[w].run \in Nat /\ worker[w].completedAt \in Nat
      /\ worker[w].completedAt + ResultTTL \in Nat
  BY <1>j, DurationAssumption DEF TypeOK, WorkerState
<1> SUFFICES OnlyRun(w) /\ (RunQuiet(w) \/ RunPublishes(w) \/ RunFails(w))
  BY <1>0
<1>p. Progress(w) => /\ StatusOf(j) = "running" /\ jobs'[j].status = "running"
                     /\ \A i \in Jobs \ {j} : jobs'[i] = jobs[i]
  <2>1. Bump(jobs[j], "running", clock).status = "running"
    BY <1>j, <1>n, BumpedRow DEF RowIs
  <2>2. QED
    BY <1>j, <2>1, SetRowOnly DEF Progress
<1>1. CASE Checkpoint(w)
  <2>1. worker' = [worker EXCEPT ![w] = [worker[w] EXCEPT !.checkpoints = @ + 1]]
    BY <1>1 DEF Checkpoint
  <2>2. /\ [worker[w] EXCEPT !.checkpoints = @ + 1].pc = worker[w].pc
        /\ [worker[w] EXCEPT !.checkpoints = @ + 1].msg = worker[w].msg
        /\ [worker[w] EXCEPT !.checkpoints = @ + 1].run = worker[w].run
    BY <1>j DEF WorkerState
  <2>3. /\ worker'[w].pc = "streaming" /\ worker'[w].msg = worker[w].msg
        /\ worker'[w].run = worker[w].run
        /\ \A v \in Workers \ {w} : worker'[v] = worker[v]
    BY <1>1, <2>1, <2>2 DEF Checkpoint, TypeOK
  <2>4. QED
    BY <1>1, <1>p, <2>3 DEF Checkpoint, OnlyRun, RunQuiet, JobOf
<1>2. CASE StreamDone(w)
  <2>1. Goto(w, "uploading") /\ Progress(w)
    BY <1>2 DEF StreamDone
  <2>2. QED
    BY <1>2, <1>p, <2>1, MovedWorker DEF StreamDone, OnlyRun, RunQuiet, JobOf
<1>3. CASE StreamStale(w) \/ PipelineError(w) \/ SucceedStale(w)
  <2>1. /\ Goto(w, "failing") \/ Goto(w, "discarding")
        /\ UNCHANGED <<jobs, outbox, object, cleaner, urls, clock>>
    BY <1>3 DEF StreamStale, PipelineError, SucceedStale
  <2>2. /\ worker'[w].pc # "stored"
        /\ worker'[w].msg = worker[w].msg /\ worker'[w].run = worker[w].run
        /\ \A v \in Workers \ {w} : worker'[v] = worker[v]
    BY <2>1, MovedWorker
  <2>3. QED
    BY <2>1, <2>2 DEF OnlyRun, RunQuiet, JobOf, StatusOf
<1>4. CASE Upload(w)
  <2>1. /\ object'[j] = worker[w].run
        /\ \A i \in Jobs \ {j} : object'[i] = object[i]
    BY <1>4, <1>j DEF Upload, TypeOK
  <2>2. UNCHANGED <<jobs, outbox, cleaner, urls, clock>>
    BY <1>4 DEF Upload
  <2>3. /\ worker'[w].msg = worker[w].msg /\ worker'[w].run = worker[w].run
        /\ \A v \in Workers \ {w} : worker'[v] = worker[v]
    <3>1. CASE worker' = [worker EXCEPT ![w].pc = "stored", ![w].completedAt = clock]
      <4> DEFINE next == [worker[w] EXCEPT !.pc = "stored", !.completedAt = clock]
      <4>1. worker' = [worker EXCEPT ![w] = next]
        BY <3>1 DEF TypeOK
      <4>2. next.msg = worker[w].msg /\ next.run = worker[w].run
        BY <1>j DEF WorkerState
      <4>3. QED
        BY <4>1, <4>2 DEF TypeOK
    <3>2. CASE Goto(w, "failing")
      BY <3>2, MovedWorker
    <3>3. QED
      BY <1>4, <3>1, <3>2 DEF Upload
  <2>4. QED
    BY <2>1, <2>2, <2>3 DEF OnlyRun, RunQuiet, JobOf, StatusOf
<1>5. CASE Succeed(w)
  <2> DEFINE bumped == Bump(jobs[j], "succeeded", worker[w].completedAt)
             sum == worker[w].run
             until == worker[w].completedAt + ResultTTL
             row == [bumped EXCEPT !.checksum = sum, !.expiresAt = until]
  <2>1. SetRow(j, row) /\ AddOutbox(j, "succeeded", jobs[j].version + 1)
    BY <1>5 DEF Succeed
  <2>2. bumped \in Row /\ bumped.status = "succeeded"
    BY <1>j, <1>n, BumpedRow DEF RowIs
  <2>s. sum \in Nat /\ until \in Nat
    BY <1>n
  <2> HIDE DEF bumped, sum, until
  <2>3. row.status = "succeeded" /\ row.checksum = sum
    BY <2>2, <2>s DEF Row
  <2> HIDE DEF row
  <2>4. /\ jobs'[j].status = "succeeded" /\ jobs'[j].checksum = worker[w].run
        /\ \A i \in Jobs \ {j} : jobs'[i] = jobs[i]
    BY <1>j, <2>1, <2>3, SetRowOnly DEF sum
  <2>5. \A e \in outbox' : e \in outbox \/ (e.job = j /\ e.change = "succeeded")
    BY <2>1, AddOutboxOnly
  <2>6. worker'[w].pc = "idle" /\ \A v \in Workers \ {w} : worker'[v] = worker[v]
    BY <1>5, SettledWorker DEF Succeed
  <2>7. /\ worker[w].pc = "stored" /\ StatusOf(j) = "running"
        /\ UNCHANGED <<object, cleaner, urls, clock>>
    BY <1>5 DEF Succeed
  <2>8. QED
    BY <2>4, <2>5, <2>6, <2>7 DEF OnlyRun, RunPublishes
<1>6. CASE Discard(w) \/ FailDelete(w)
  <2>1. /\ Nak(w) \/ Goto(w, "persisting")
        /\ DeleteObject(j)
        /\ UNCHANGED <<jobs, outbox, cleaner, urls, clock>>
    BY <1>6 DEF Discard, FailDelete
  <2>2. /\ worker'[w].pc \in {"idle", "persisting"}
        /\ worker'[w].pc # "idle" =>
              worker'[w].msg = worker[w].msg /\ worker'[w].run = worker[w].run
        /\ \A v \in Workers \ {w} : worker'[v] = worker[v]
    BY <2>1, SettledWorker, MovedWorker
  <2>3. QED
    BY <1>j, <2>1, <2>2, DeletedObject DEF OnlyRun, RunQuiet, JobOf, StatusOf
<1>7. CASE FailPersist(w)
  <2>1. worker'[w].pc = "idle" /\ \A v \in Workers \ {w} : worker'[v] = worker[v]
    BY <1>7, SettledWorker DEF FailPersist
  <2>2. UNCHANGED <<object, cleaner, urls, clock>>
    BY <1>7 DEF FailPersist
  <2>3. CASE StatusOf(j) # "running"
    BY <1>7, <2>1, <2>2, <2>3 DEF FailPersist, OnlyRun, RunQuiet, StatusOf
  <2>4. CASE StatusOf(j) = "running"
    <3>1. /\ SetRow(j, Bump(jobs[j], "failed", clock))
          /\ AddOutbox(j, "failed", jobs[j].version + 1)
      BY <1>7, <2>4 DEF FailPersist
    <3>2. Bump(jobs[j], "failed", clock).status = "failed"
      BY <1>j, <1>n, BumpType
    <3>3. jobs'[j].status = "failed" /\ \A i \in Jobs \ {j} : jobs'[i] = jobs[i]
      BY <1>j, <3>1, <3>2, SetRowOnly
    <3>4. \A e \in outbox' : e \in outbox \/ e.job = j
      BY <3>1, AddOutboxOnly
    <3>5. QED
      BY <2>1, <2>2, <2>4, <3>3, <3>4 DEF OnlyRun, RunFails
  <2>5. QED
    BY <2>3, <2>4
<1>8. CASE SucceedLost(w) \/ FailLost(w) \/ Crash(w)
  <2>1. Nak(w) /\ UNCHANGED <<jobs, outbox, object, cleaner, urls, clock>>
    BY <1>8 DEF SucceedLost, FailLost, Crash
  <2>2. QED
    BY <2>1, SettledWorker DEF OnlyRun, RunQuiet, StatusOf
<1>9. CASE LeaseLapses(w)
  <2> DEFINE next == [worker[w] EXCEPT !.leased = FALSE]
  <2>1. worker' = [worker EXCEPT ![w] = next]
    BY <1>9 DEF LeaseLapses
  <2>2. next.pc = worker[w].pc /\ next.msg = worker[w].msg /\ next.run = worker[w].run
    BY <1>j DEF WorkerState
  <2>3. /\ worker'[w].pc # "stored"
        /\ worker'[w].msg = worker[w].msg /\ worker'[w].run = worker[w].run
        /\ \A v \in Workers \ {w} : worker'[v] = worker[v]
    BY <1>9, <2>1, <2>2 DEF LeaseLapses, TypeOK
  <2>4. QED
    BY <1>9, <2>3 DEF LeaseLapses, OnlyRun, RunQuiet, JobOf, StatusOf
<1>10. QED
  BY <1>1, <1>2, <1>3, <1>4, <1>5, <1>6, <1>7, <1>8, <1>9 DEF WorkerStep

LEMMA ExecWorker ==
    ASSUME TypeInv, ExecInv, NEW w \in Workers,
           \/ WorkerStep(w)
           \/ SucceedLost(w) \/ FailLost(w) \/ LeaseLapses(w) \/ Crash(w)
    PROVE  ExecInv'
BY WorkerEffect, RunStepKeeps

\* The cleaner table after a step of c that leaves the rows alone.
LEMMA StoppedCleaner ==
    ASSUME TypeOK, NEW c \in Cleaners, StopCleaner(c)
    PROVE  /\ cleaner'[c].now = 0 /\ cleaner'[c].batch = {} /\ cleaner'[c].current \notin Jobs
           /\ \A d \in Cleaners \ {c} : cleaner'[d] = cleaner[d]
BY NoJobAssumption DEF StopCleaner, IdleCleaner, TypeOK

LEMMA NextCleaner ==
    ASSUME TypeOK, NEW c \in Cleaners, NextInBatch(c)
    PROVE  /\ cleaner'[c].now \in {0, cleaner[c].now}
           /\ cleaner'[c].batch = cleaner[c].batch
           /\ cleaner'[c].current \notin Jobs
           /\ cleaner[c].batch # {} => cleaner'[c].now = cleaner[c].now
           /\ \A d \in Cleaners \ {c} : cleaner'[d] = cleaner[d]
<1>1. CASE cleaner[c].batch = {}
  BY <1>1, StoppedCleaner DEF NextInBatch
<1>2. CASE cleaner[c].batch # {}
  <2> DEFINE next == [cleaner[c] EXCEPT !.current = NoJob]
  <2>1. cleaner' = [cleaner EXCEPT ![c] = next]
    BY <1>2 DEF NextInBatch
  <2>2. next.now = cleaner[c].now /\ next.batch = cleaner[c].batch /\ next.current = NoJob
    BY DEF TypeOK, CleanerState
  <2>3. QED
    BY <1>2, <2>1, <2>2, NoJobAssumption DEF TypeOK
<1>3. QED
  BY <1>1, <1>2

\* Deleting the object of a result that is over harms nobody.
LEMMA CleanerStepKeeps ==
    ASSUME TypeInv, ExecInv, UNCHANGED <<jobs, outbox, worker, urls, clock>>,
           \A i \in Jobs : object'[i] = object[i] \/ Over(i, clock),
           \A c \in Cleaners : CleanerOK(c)'
    PROVE  ExecInv'
<1>1. SingleExecutor' /\ CanceledRunNeverPublishes' /\ UrlWithinResult'
  BY DEF ExecInv, SingleExecutor, Executing, JobOf, CanceledRunNeverPublishes,
     UrlWithinResult, StatusOf
<1>2. ASSUME NEW w \in Workers PROVE RunOK(w)'
  BY BusyJob DEF ExecInv, RunOK, JobOf, StatusOf, Over
<1>3. ResultAvailable'
  BY Flat DEF TypeInv, ExecInv, ResultAvailable, Over, StatusOf
<1>4. QED
  BY <1>1, <1>2, <1>3 DEF ExecInv

LEMMA ExecCleaner ==
    ASSUME TypeInv, ExecInv, NEW c \in Cleaners, CleanerStep(c) \/ CleanAborted(c)
    PROVE  ExecInv'
<1> USE DEF TypeInv
<1>f. /\ clock \in Nat
      /\ \A d \in Cleaners : cleaner[d].now \in Nat /\ cleaner[d].batch \subseteq Jobs
      /\ \A j \in Jobs : jobs[j].expiresAt \in Nat
  BY Flat
<1>o. \A d \in Cleaners : CleanerOK(d)
  BY DEF ExecInv
<1>1. CASE CleanList(c)
  <2>1. PICK listed \in SUBSET Due(clock) :
           cleaner' = [cleaner EXCEPT ![c] =
                         [batch |-> listed, current |-> NoJob, now |-> clock]]
    BY <1>1 DEF CleanList
  <2>2. UNCHANGED <<jobs, outbox, object, worker, urls, clock>>
    BY <1>1 DEF CleanList
  <2>3. \A j \in listed : Over(j, clock)
    BY DEF Due, Over
  <2>4. ASSUME NEW d \in Cleaners PROVE CleanerOK(d)'
    BY <1>f, <1>o, <2>1, <2>2, <2>3, NoJobAssumption
    DEF CleanerOK, Over, StatusOf, TypeOK
  <2>5. QED
    BY <2>2, <2>4, CleanerStepKeeps
<1>2. ASSUME NEW j \in Jobs, CleanDelete(c, j) PROVE ExecInv'
  <2>1. UNCHANGED <<jobs, outbox, worker, urls, clock>>
    BY <1>2 DEF CleanDelete
  <2>2. Over(j, cleaner[c].now) /\ cleaner[c].now <= clock
    BY <1>2, <1>o DEF CleanDelete, CleanerOK
  <2>3. Over(j, clock)
    BY <2>2, <1>f DEF Over
  <2>4. \A i \in Jobs : object'[i] = object[i] \/ Over(i, clock)
    BY <1>2, <2>3 DEF CleanDelete, TypeOK
  <2>5. ASSUME NEW d \in Cleaners PROVE CleanerOK(d)'
    <3>1. CASE StopCleaner(c)
      BY <3>1, <1>f, <1>o, <2>1, StoppedCleaner DEF CleanerOK, Over, StatusOf
    <3>2. CASE cleaner' = [cleaner EXCEPT ![c].batch = @ \ {j}, ![c].current = j]
      <4> DEFINE less == [cleaner[c] EXCEPT !.batch = @ \ {j}]
                 next == [less EXCEPT !.current = j]
      <4>1. cleaner' = [cleaner EXCEPT ![c] = next]
        BY <3>2 DEF TypeOK
      <4>2. /\ less \in CleanerState /\ less.now = cleaner[c].now
            /\ less.batch = cleaner[c].batch \ {j}
        BY DEF TypeOK, CleanerState
      <4> HIDE DEF less
      <4>3. /\ next.now = cleaner[c].now /\ next.batch = cleaner[c].batch \ {j}
            /\ next.current = j
        BY <4>2 DEF CleanerState
      <4> HIDE DEF next
      <4>4. cleaner'[c] = next /\ \A e \in Cleaners \ {c} : cleaner'[e] = cleaner[e]
        BY <4>1 DEF TypeOK
      <4>5. QED
        BY <4>3, <4>4, <1>o, <2>1, <2>2 DEF CleanerOK, Over, StatusOf
    <3>3. QED
      BY <1>2, <3>1, <3>2 DEF CleanDelete
  <2>6. QED
    BY <2>1, <2>4, <2>5, CleanerStepKeeps
<1>3. CASE CleanAborted(c)
  <2>1. UNCHANGED <<jobs, outbox, object, worker, urls, clock>> /\ StopCleaner(c)
    BY <1>3 DEF CleanAborted
  <2>2. ASSUME NEW d \in Cleaners PROVE CleanerOK(d)'
    BY <1>f, <1>o, <2>1, StoppedCleaner DEF CleanerOK, Over, StatusOf
  <2>3. QED
    BY <2>1, <2>2, CleanerStepKeeps
<1>4. CASE CleanExpire(c)
  <2> DEFINE j == cleaner[c].current
             now == cleaner[c].now
             row == Bump(jobs[j], "expired", now)
  <2>1. UNCHANGED <<object, worker, urls, clock>> /\ NextInBatch(c) /\ j \in Jobs
    BY <1>4 DEF CleanExpire
  <2>2. /\ cleaner'[c].now <= clock
        /\ \A d \in Cleaners : cleaner'[d].batch = cleaner[d].batch
        /\ cleaner[c].batch # {} => cleaner'[c].now = cleaner[c].now
        /\ cleaner'[c].current \notin Jobs
        /\ \A d \in Cleaners \ {c} : cleaner'[d] = cleaner[d]
    BY <1>f, <1>o, <2>1, NextCleaner DEF CleanerOK
  <2>3. CASE UNCHANGED <<jobs, outbox>>
    <3>1. ASSUME NEW d \in Cleaners PROVE CleanerOK(d)'
      BY <1>o, <2>1, <2>2, <2>3 DEF CleanerOK, Over, StatusOf
    <3>2. QED
      BY <2>1, <2>3, <3>1, CleanerStepKeeps
  <2>4. CASE /\ Expirable(j, now) /\ SetRow(j, row)
             /\ AddOutbox(j, "expired", jobs[j].version + 1)
    <3>1. jobs[j] \in Row /\ now \in Nat
      BY <2>1, <1>f DEF TypeOK
    <3>2. row.status = "expired" /\ row.checksum = jobs[j].checksum
      BY <3>1 DEF Bump, Row
    <3> HIDE DEF row
    <3>3. /\ jobs'[j].status = "expired" /\ jobs'[j].checksum = jobs[j].checksum
          /\ \A i \in Jobs \ {j} : jobs'[i] = jobs[i]
      BY <2>1, <2>4, <3>2, SetRowOnly
    <3>4. \A e \in outbox' : e \in outbox \/ (e.job = j /\ e.change = "expired")
      BY <2>4, AddOutboxOnly
    <3>5. StatusOf(j) = "succeeded" /\ jobs[j].expiresAt <= clock
      BY <1>f, <1>o, <2>1, <2>4 DEF Expirable, CleanerOK
    <3> HIDE DEF j, now
    <3>6. SingleExecutor'
      BY <2>1 DEF ExecInv, SingleExecutor, Executing, JobOf
    <3>7. ASSUME NEW w \in Workers PROVE RunOK(w)'
      <4> SUFFICES ASSUME worker[w].pc # "idle" PROVE RunOK(w)'
        BY <2>1 DEF RunOK
      <4>1. RunOK(w) /\ JobOf(w) \in Jobs /\ JobOf(w)' = JobOf(w)
        BY <2>1, BusyJob DEF ExecInv, JobOf
      <4>2. JobOf(w) # j
        BY <3>5, <4>1 DEF RunOK
      <4>3. QED
        BY <2>1, <3>3, <3>4, <4>1, <4>2 DEF RunOK, StatusOf
    <3>8. ASSUME NEW d \in Cleaners PROVE CleanerOK(d)'
      <4>1. \A i \in Jobs : \A t : Over(i, t) => Over(i, t)'
        BY <3>3 DEF Over, StatusOf
      <4>2. QED
        BY <1>f, <1>o, <2>1, <2>2, <4>1 DEF CleanerOK
    <3>9. ResultAvailable'
      BY <2>1, <3>3 DEF ExecInv, ResultAvailable, StatusOf
    <3>10. CanceledRunNeverPublishes'
      BY <3>3, <3>4, <3>5 DEF ExecInv, CanceledRunNeverPublishes, StatusOf
    <3>11. UrlWithinResult'
      BY <2>1, <3>3, <3>5, Flat DEF ExecInv, UrlWithinResult, StatusOf
    <3>12. QED
      BY <3>6, <3>7, <3>8, <3>9, <3>10, <3>11 DEF ExecInv
  <2>5. QED
    BY <1>4, <2>3, <2>4 DEF CleanExpire
<1>5. QED
  BY <1>1, <1>2, <1>3, <1>4 DEF CleanerStep

LEMMA ExecPurge ==
    ASSUME TypeInv, ExecInv, NEW j \in Jobs, PurgeExpiredMetadata(j)
    PROVE  ExecInv'
<1> DEFINE row == [AbsentRow EXCEPT !.status = "purged", !.version = jobs[j].version]
<1>1. jobs[j].version \in Nat
  BY Flat DEF TypeInv
<1>2. row.status = "purged"
  BY <1>1, PurgedRow
<1> HIDE DEF row
<1>3. SetRow(j, row)
  BY DEF PurgeExpiredMetadata, row
<1>4. jobs'[j].status = "purged" /\ OnlyRow(j)
  BY <1>2, <1>3, SetRowOnly DEF PurgeExpiredMetadata, OnlyRow, TypeInv
<1>5. QED
  BY <1>4, RowStepKeeps DEF PurgeExpiredMetadata

LEMMA ExecTick == ASSUME TypeInv, ExecInv, Tick PROVE ExecInv'
<1>1. UNCHANGED <<jobs, outbox, object, worker, cleaner, urls>> /\ clock' = clock + 1
  BY DEF Tick
<1>2. SingleExecutor' /\ CanceledRunNeverPublishes' /\ \A w \in Workers : RunOK(w)'
  BY <1>1 DEF ExecInv, SingleExecutor, Executing, JobOf, RunOK, CanceledRunNeverPublishes,
     StatusOf
<1>3. ResultAvailable' /\ UrlWithinResult' /\ \A c \in Cleaners : CleanerOK(c)'
  BY <1>1, Flat DEF TypeInv, ExecInv, ResultAvailable, UrlWithinResult, CleanerOK, Over,
     StatusOf
<1>4. QED
  BY <1>2, <1>3 DEF ExecInv

LEMMA ExecInvNext ==
    ASSUME PromptRetry = FALSE
    PROVE  TypeInv /\ EventsMatchRows /\ ExecInv /\ [Next]_vars => ExecInv'
<1> SUFFICES ASSUME TypeInv, EventsMatchRows, ExecInv, [Next]_vars PROVE ExecInv'
  OBVIOUS
<1>1. CASE ClientStep
  BY <1>1, ExecClient
<1>2. CASE \/ DispatcherStep
           \/ \E w \in Workers : DeliveryStep(w) \/ \E m \in queue : ClaimFailed(w, m)
  BY <1>2, ExecBus
<1>3. CASE \E w \in Workers : \/ WorkerStep(w) \/ SucceedLost(w) \/ FailLost(w)
                              \/ LeaseLapses(w) \/ Crash(w)
  BY <1>3, ExecWorker
<1>4. CASE \E c \in Cleaners : CleanerStep(c) \/ CleanAborted(c)
  BY <1>4, ExecCleaner
<1>5. CASE \E j \in Jobs : PurgeExpiredMetadata(j)
  BY <1>5, ExecPurge
<1>6. CASE Tick
  BY <1>6, ExecTick
<1>7. CASE UNCHANGED vars
  BY <1>7, ExecSame DEF vars
<1>8. QED
  BY <1>1, <1>2, <1>3, <1>4, <1>5, <1>6, <1>7 DEF Next, WorkerMishap

LEMMA ExecInvAlways ==
    ASSUME PromptRetry = FALSE
    PROVE  Spec => []ExecInv
BY ExecInvInit, ExecInvNext, TypeInvAlways, EngineEventsAccurate, PTL DEF Spec

\* If no client retries a canceled job before its worker has noticed the
\* cancellation, then a job has one executor at a time: whatever the bus
\* redelivers, whoever crashes, and however long a cleanup outlasts its lease.
THEOREM OneExecutor ==
    ASSUME PromptRetry = FALSE
    PROVE  Spec => []SingleExecutor
<1>1. ExecInv => SingleExecutor
  BY DEF ExecInv
<1>2. QED
  BY <1>1, ExecInvAlways, PTL

\* Under the same assumption, only the run of the last request publishes: a
\* run that was canceled or has failed never does.
THEOREM OnlyTheLastRunPublishes ==
    ASSUME PromptRetry = FALSE
    PROVE  Spec => []CanceledRunNeverPublishes
<1>1. ExecInv => CanceledRunNeverPublishes
  BY DEF ExecInv
<1>2. QED
  BY <1>1, ExecInvAlways, PTL

\* Under the same assumption, an advertised result is in the bucket until it
\* expires, with the contents its checksum describes: neither a worker that
\* fails nor a cleaner deletes it early.
THEOREM ResultsAreAvailable ==
    ASSUME PromptRetry = FALSE
    PROVE  Spec => []ResultAvailable
<1>1. ExecInv => ResultAvailable
  BY DEF ExecInv
<1>2. QED
  BY <1>1, ExecInvAlways, PTL

\* Under the same assumption, a download URL works until the time it was
\* issued for.
THEOREM UrlsAreHonoured ==
    ASSUME PromptRetry = FALSE
    PROVE  Spec => []UrlHonoured
<1>1. TypeInv /\ ExecInv => UrlHonoured
  BY Flat DEF TypeInv, ExecInv, UrlWithinResult, ResultAvailable, UrlHonoured
<1>2. QED
  BY <1>1, ExecInvAlways, TypeInvAlways, PTL

-----------------------------------------------------------------------------
(* The request of a queued job *)

\* The request of a queued row is unpublished, or it is in the queue and was
\* delivered no more often than something has failed.
RequestOnItsWay(j) ==
    \/ [job |-> j, change |-> "requested", version |-> jobs[j].version]
          \in outbox \ published
    \/ \E m \in queue : /\ m.job = j /\ m.version = jobs[j].version
                        /\ m.deliveries <= faults

PendingInv == \A j \in Jobs : StatusOf(j) = "queued" => RequestOnItsWay(j)

\* A step that queues no row and takes nothing away.
LEMMA PendingGrows ==
    ASSUME TypeOK, TypeOK', PendingInv,
           \A i \in Jobs : jobs'[i] = jobs[i] \/ jobs'[i].status # "queued",
           outbox \subseteq outbox', published' = published, queue \subseteq queue',
           faults' >= faults
    PROVE  PendingInv'
<1> SUFFICES ASSUME NEW j \in Jobs, jobs'[j].status = "queued" PROVE RequestOnItsWay(j)'
  BY DEF PendingInv, StatusOf
<1>1. jobs'[j] = jobs[j] /\ RequestOnItsWay(j)
  BY DEF PendingInv, StatusOf
<1>2. \A m \in queue : m.deliveries <= faults => m.deliveries <= faults'
  BY DEF TypeOK, Messages
<1>3. QED
  BY <1>1, <1>2 DEF RequestOnItsWay

\* A message is consumed, and its row is not queued after that.
LEMMA PendingConsumed ==
    ASSUME TypeOK, PendingInv, NEW m \in queue, queue \ {m} \subseteq queue',
           jobs'[m.job].status # "queued", \A i \in Jobs \ {m.job} : jobs'[i] = jobs[i],
           UNCHANGED <<outbox, published>>, faults' >= faults, faults' \in Nat
    PROVE  PendingInv'
<1> SUFFICES ASSUME NEW j \in Jobs, jobs'[j].status = "queued" PROVE RequestOnItsWay(j)'
  BY DEF PendingInv, StatusOf
<1>1. j # m.job /\ jobs'[j] = jobs[j] /\ RequestOnItsWay(j)
  BY DEF PendingInv, StatusOf
<1>2. \A n \in queue : /\ n.deliveries <= faults => n.deliveries <= faults'
                       /\ n.job = j => n \in queue'
  BY <1>1 DEF TypeOK, Messages
<1>3. QED
  BY <1>1, <1>2 DEF RequestOnItsWay

\* The request of a row that is queued now is new, hence unpublished.
LEMMA PendingRequested ==
    ASSUME TypeInv, EventsMatchRows, PendingInv, NEW j \in Jobs,
           jobs'[j].version = jobs[j].version + 1,
           \A i \in Jobs \ {j} : jobs'[i] = jobs[i],
           AddOutbox(j, "requested", jobs[j].version + 1),
           UNCHANGED <<published, queue, faults>>
    PROVE  PendingInv'
<1> USE DEF TypeInv
<1> DEFINE new == [job |-> j, change |-> "requested", version |-> jobs[j].version + 1]
<1>1. outbox' = outbox \cup {new}
  BY DEF AddOutbox
<1>2. \A e \in published : e.version <= jobs[e.job].version
  BY Flat DEF EventsMatchRows, Lifecycle!EventsAreAccurate, Lifecycle!EventsBehindRows,
     versionColumn, TypeOK
<1>3. new \notin published
  BY <1>2, Flat DEF TypeOK
<1> SUFFICES ASSUME NEW i \in Jobs, jobs'[i].status = "queued" PROVE RequestOnItsWay(i)'
  BY DEF PendingInv, StatusOf
<1>4. CASE i = j
  BY <1>1, <1>3, <1>4 DEF RequestOnItsWay
<1>5. CASE i # j
  BY <1>1, <1>5 DEF RequestOnItsWay, PendingInv, StatusOf
<1>6. QED
  BY <1>4, <1>5

LEMMA PendingClient ==
    ASSUME TypeInv, TypeInv', EventsMatchRows, PendingInv, ClientStep
    PROVE  PendingInv'
<1> USE DEF TypeInv
<1>0. PICK j \in Jobs :
        \/ \E k \in Keys : Create(j, k)
        \/ \E expected \in 1 .. jobs[j].version :
              \/ Cancel(j, expected)
              \/ \E k \in Keys : Retry(j, expected, k)
        \/ \E ttl \in 1 .. PresignTTL : CreateDownloadURL(j, ttl)
  BY DEF ClientStep
<1>r. jobs[j] \in Row /\ clock \in Nat /\ faults \in Nat
  BY DEF TypeOK
<1>b. /\ RowIs(Bump(jobs[j], "queued", clock), "queued", jobs[j].version + 1)
      /\ RowIs(Bump(jobs[j], "canceled", clock), "canceled", jobs[j].version + 1)
  BY <1>r, BumpedRow
<1>1. ASSUME NEW k \in Keys, Create(j, k) PROVE PendingInv'
  <2> DEFINE bumped == Bump(jobs[j], "queued", clock)
             row == [bumped EXCEPT !.key = k, !.origin = k]
  <2>1. SetRow(j, row) /\ AddOutbox(j, "requested", jobs[j].version + 1)
    BY <1>1 DEF Create
  <2>2. bumped \in Row /\ bumped.version = jobs[j].version + 1
    BY <1>b DEF RowIs
  <2> HIDE DEF bumped
  <2>3. row.version = jobs[j].version + 1
    BY <2>2, CreatedRow
  <2> HIDE DEF row
  <2>4. /\ jobs'[j].version = jobs[j].version + 1
        /\ \A i \in Jobs \ {j} : jobs'[i] = jobs[i]
    BY <2>1, <2>3, SetRowOnly
  <2>5. QED
    BY <1>1, <2>1, <2>4, PendingRequested DEF Create
<1>2. ASSUME NEW expected \in 1 .. jobs[j].version, Cancel(j, expected) PROVE PendingInv'
  <2>1. jobs'[j].status = "canceled" /\ \A i \in Jobs \ {j} : jobs'[i] = jobs[i]
    BY <1>2, <1>b, SetRowOnly DEF Cancel, RowIs
  <2>2. outbox \subseteq outbox' /\ UNCHANGED <<published, queue, faults>>
    BY <1>2 DEF Cancel, AddOutbox
  <2>3. QED
    BY <1>r, <2>1, <2>2, PendingGrows
<1>3. ASSUME NEW expected \in 1 .. jobs[j].version, NEW k \in Keys, Retry(j, expected, k)
      PROVE  PendingInv'
  <2> DEFINE bumped == Bump(jobs[j], "queued", clock)
             row == [bumped EXCEPT !.key = k, !.checksum = 0, !.expiresAt = 0]
  <2>1. SetRow(j, row) /\ AddOutbox(j, "requested", jobs[j].version + 1)
    BY <1>3 DEF Retry
  <2>2. bumped \in Row /\ bumped.version = jobs[j].version + 1
    BY <1>b DEF RowIs
  <2> HIDE DEF bumped
  <2>3. row.version = jobs[j].version + 1
    BY <2>2, RetriedRow
  <2> HIDE DEF row
  <2>4. /\ jobs'[j].version = jobs[j].version + 1
        /\ \A i \in Jobs \ {j} : jobs'[i] = jobs[i]
    BY <2>1, <2>3, SetRowOnly
  <2>5. QED
    BY <1>3, <2>1, <2>4, PendingRequested DEF Retry
<1>4. ASSUME NEW ttl \in 1 .. PresignTTL, CreateDownloadURL(j, ttl) PROVE PendingInv'
  BY <1>4, <1>r, PendingGrows DEF CreateDownloadURL
<1>5. QED
  BY <1>0, <1>1, <1>2, <1>3, <1>4

\* A published event is in the queue in the same step.
LEMMA PendingDispatch ==
    ASSUME TypeInv, PendingInv, NEW e \in outbox, Dispatch(e)
    PROVE  PendingInv'
<1> DEFINE m == [job |-> e.job, version |-> e.version, deliveries |-> 0]
<1> USE DEF TypeInv
<1>1. /\ queue' = queue \cup {m} /\ published' \in {published, published \cup {e}}
      /\ e.change = "requested" /\ UNCHANGED <<jobs, outbox>>
  BY DEF Dispatch
<1>2. faults \in Nat /\ faults' \in Nat /\ faults' >= faults
  BY DEF Dispatch, Fault, TypeOK
<1>3. \A n \in queue : n.deliveries <= faults => n.deliveries <= faults'
  BY <1>2 DEF TypeOK, Messages
<1> SUFFICES ASSUME NEW j \in Jobs, StatusOf(j) = "queued" PROVE RequestOnItsWay(j)'
  BY <1>1 DEF PendingInv, StatusOf
<1> DEFINE req == [job |-> j, change |-> "requested", version |-> jobs[j].version]
<1>4. RequestOnItsWay(j)
  BY DEF PendingInv
<1>5. CASE req = e
  <2>1. e.job = j /\ e.version = jobs[j].version
    BY <1>5
  <2>2. m \in queue' /\ m.job = j /\ m.version = jobs'[j].version /\ m.deliveries <= faults'
    BY <1>1, <1>2, <2>1
  <2>3. QED
    BY <2>2 DEF RequestOnItsWay
<1>6. CASE req # e
  BY <1>1, <1>3, <1>4, <1>6 DEF RequestOnItsWay
<1>7. QED
  BY <1>5, <1>6

\* A failed claim costs a delivery, and there are more of them than failures.
LEMMA PendingClaims ==
    ASSUME MaxFaults < MaxDeliver, TypeInv, PendingInv, NEW w \in Workers, NEW m \in queue,
           Claim(w, m) \/ ClaimMissed(w, m) \/ ClaimFailed(w, m)
    PROVE  PendingInv'
<1> USE DEF TypeInv
<1>m. m \in Messages /\ m.job \in Jobs /\ m.deliveries \in Nat /\ jobs[m.job] \in Row
  BY DEF TypeOK, Messages
<1>c. clock \in Nat /\ faults \in Nat
  BY DEF TypeOK
<1>r. ClaimRow(m.job) => /\ jobs'[m.job].status # "queued"
                         /\ \A i \in Jobs \ {m.job} : jobs'[i] = jobs[i]
  <2>1. Bump(jobs[m.job], "running", clock).status = "running"
    BY <1>m, <1>c, BumpedRow DEF RowIs
  <2>2. QED
    BY <1>m, <2>1, SetRowOnly DEF ClaimRow
<1>1. CASE Claim(w, m)
  BY <1>1, <1>r, <1>c, PendingConsumed DEF Claim
<1>2. CASE ClaimMissed(w, m)
  BY <1>2, <1>c, PendingConsumed DEF ClaimMissed, StatusOf
<1>3. CASE ClaimFailed(w, m)
  <2> DEFINE again == Delivered(m)
  <2>1. faults < MaxFaults /\ faults' = faults + 1
    BY <1>3 DEF ClaimFailed, Fault
  <2>2. /\ again.job = m.job /\ again.version = m.version
        /\ again.deliveries = m.deliveries + 1
    BY <1>m DEF Delivered, Messages
  <2> HIDE DEF again
  <2>3. queue' = Redeliver(queue \ {m}, again) /\ UNCHANGED <<outbox, published>>
    BY <1>3 DEF ClaimFailed, again
  <2>4. queue \ {m} \subseteq queue'
    BY <2>3 DEF Redeliver
  <2>f. faults' \in Nat /\ faults' >= faults
    BY <1>c, <2>1
  <2>5. CASE ClaimRow(m.job)
    BY <1>r, <2>f, <2>3, <2>4, <2>5, PendingConsumed
  <2>6. CASE UNCHANGED jobs
    <3> SUFFICES ASSUME NEW j \in Jobs, StatusOf(j) = "queued" PROVE RequestOnItsWay(j)'
      BY <2>6 DEF PendingInv, StatusOf
    <3>1. RequestOnItsWay(j)
      BY DEF PendingInv
    <3>2. CASE [job |-> j, change |-> "requested", version |-> jobs[j].version]
                 \in outbox \ published
      BY <2>3, <2>6, <3>2 DEF RequestOnItsWay
    <3>3. ASSUME NEW n \in queue, n.job = j, n.version = jobs[j].version, n.deliveries <= faults
          PROVE  RequestOnItsWay(j)'
      <4>1. CASE n # m
        <5>1. n \in queue' /\ n.deliveries \in Nat
          BY <4>1, <2>4 DEF TypeOK, Messages
        <5>2. n.deliveries <= faults'
          BY <5>1, <3>3, <2>1, <1>c
        <5>3. QED
          BY <2>6, <3>3, <5>1, <5>2 DEF RequestOnItsWay
      <4>2. CASE n = m
        <5>1. again.deliveries <= faults' /\ again.deliveries < MaxDeliver
          BY <4>2, <3>3, <1>m, <1>c, <2>1, <2>2, BoundAssumption, LimitAssumption
        <5>2. again \in queue'
          BY <2>3, <5>1 DEF Redeliver
        <5>3. QED
          BY <2>2, <2>6, <3>3, <4>2, <5>1, <5>2 DEF RequestOnItsWay
      <4>3. QED
        BY <4>1, <4>2
    <3>4. QED
      BY <3>1, <3>2, <3>3 DEF RequestOnItsWay
  <2>7. QED
    BY <1>3, <2>5, <2>6 DEF ClaimFailed
<1>4. QED
  BY <1>1, <1>2, <1>3

\* A worker takes nothing from the queue or the outbox and queues no row.
LEMMA PendingWorker ==
    ASSUME TypeInv, TypeInv', PendingInv, NEW w \in Workers,
           \/ WorkerStep(w)
           \/ SucceedLost(w) \/ FailLost(w) \/ LeaseLapses(w) \/ Crash(w)
    PROVE  PendingInv'
<1> USE DEF TypeInv
<1>1. \A i \in Jobs : jobs'[i] = jobs[i] \/ jobs'[i].status # "queued"
  BY WorkerEffect DEF OnlyRun, RunQuiet, RunPublishes, RunFails, StatusOf
<1>2. outbox \subseteq outbox' /\ published' = published
  BY DEF WorkerStep, Checkpoint, StreamDone, StreamStale, PipelineError, Upload, Succeed,
     SucceedStale, Discard, FailDelete, FailPersist, SucceedLost, FailLost, LeaseLapses,
     Crash, AddOutbox
<1>3. faults \in Nat /\ faults' >= faults
  <2>1. faults \in Nat
    BY DEF TypeOK
  <2>2. faults' = faults \/ Fault
    BY DEF WorkerStep, Checkpoint, StreamDone, StreamStale, PipelineError, Upload, Succeed,
       SucceedStale, Discard, FailDelete, FailPersist, SucceedLost, FailLost, LeaseLapses,
       Crash, DeleteObject
  <2>3. QED
    BY <2>1, <2>2 DEF Fault
<1>4. queue \subseteq queue'
  <2>1. \/ queue' = queue \/ Ack(w) \/ Nak(w) \/ queue' = Redeliver(queue, worker[w].msg)
    BY DEF WorkerStep, Checkpoint, StreamDone, StreamStale, PipelineError, Upload, Succeed,
       SucceedStale, Discard, FailDelete, FailPersist, SucceedLost, FailLost, LeaseLapses,
       Crash
  <2>2. QED
    BY <2>1 DEF Ack, Nak, Redeliver
<1>5. QED
  BY <1>1, <1>2, <1>3, <1>4, PendingGrows

LEMMA PendingCleaner ==
    ASSUME TypeInv, TypeInv', PendingInv, NEW c \in Cleaners, CleanerStep(c) \/ CleanAborted(c)
    PROVE  PendingInv'
<1> USE DEF TypeInv
<1>1. UNCHANGED <<published, queue>> /\ faults' >= faults
  <2>1. faults \in Nat
    BY DEF TypeOK
  <2>2. UNCHANGED <<published, queue>> /\ (faults' = faults \/ Fault)
    BY DEF CleanerStep, CleanAborted, CleanList, CleanDelete, CleanExpire
  <2>3. QED
    BY <2>1, <2>2 DEF Fault
<1>2. outbox \subseteq outbox'
  BY DEF CleanerStep, CleanAborted, CleanList, CleanDelete, CleanExpire, AddOutbox
<1>3. \A i \in Jobs : jobs'[i] = jobs[i] \/ jobs'[i].status # "queued"
  <2>1. CASE CleanExpire(c)
    <3> DEFINE j == cleaner[c].current
               row == Bump(jobs[j], "expired", cleaner[c].now)
    <3>1. j \in Jobs /\ jobs[j] \in Row /\ cleaner[c].now \in Nat
      BY <2>1 DEF CleanExpire, TypeOK, CleanerState
    <3>2. row.status = "expired"
      BY <3>1, BumpedRow DEF RowIs
    <3>3. jobs' = jobs \/ SetRow(j, row)
      BY <2>1 DEF CleanExpire
    <3> HIDE DEF row, j
    <3>4. QED
      BY <3>1, <3>2, <3>3, SetRowOnly
  <2>2. CASE ~CleanExpire(c)
    BY <2>2 DEF CleanerStep, CleanAborted, CleanList, CleanDelete
  <2>3. QED
    BY <2>1, <2>2
<1>4. QED
  BY <1>1, <1>2, <1>3, PendingGrows

LEMMA PendingPurge ==
    ASSUME TypeInv, TypeInv', PendingInv, NEW j \in Jobs, PurgeExpiredMetadata(j)
    PROVE  PendingInv'
<1> DEFINE row == [AbsentRow EXCEPT !.status = "purged", !.version = jobs[j].version]
<1> USE DEF TypeInv
<1>1. row.status = "purged"
  BY Flat, PurgedRow
<1> HIDE DEF row
<1>2. SetRow(j, row) /\ UNCHANGED <<outbox, published, queue, faults>>
  BY DEF PurgeExpiredMetadata, row
<1>3. \A i \in Jobs : jobs'[i] = jobs[i] \/ jobs'[i].status # "queued"
  BY <1>1, <1>2, SetRowOnly
<1>4. faults' >= faults
  BY <1>2 DEF TypeOK
<1>5. QED
  BY <1>2, <1>3, <1>4, PendingGrows

LEMMA PendingNext ==
    ASSUME MaxFaults < MaxDeliver
    PROVE  TypeInv /\ TypeInv' /\ EventsMatchRows /\ PendingInv /\ [Next]_vars => PendingInv'
<1> SUFFICES ASSUME TypeInv, TypeInv', EventsMatchRows, PendingInv, [Next]_vars
             PROVE  PendingInv'
  OBVIOUS
<1>1. CASE ClientStep
  BY <1>1, PendingClient
<1>2. CASE \/ DispatcherStep
           \/ \E w \in Workers : DeliveryStep(w) \/ \E m \in queue : ClaimFailed(w, m)
  BY <1>2, PendingDispatch, PendingClaims DEF DispatcherStep, DeliveryStep
<1>3. CASE \E w \in Workers : \/ WorkerStep(w) \/ SucceedLost(w) \/ FailLost(w)
                              \/ LeaseLapses(w) \/ Crash(w)
  BY <1>3, PendingWorker
<1>4. CASE \E c \in Cleaners : CleanerStep(c) \/ CleanAborted(c)
  BY <1>4, PendingCleaner
<1>5. CASE \E j \in Jobs : PurgeExpiredMetadata(j)
  BY <1>5, PendingPurge
<1>6. CASE Tick \/ UNCHANGED vars
  <2>1. UNCHANGED <<jobs, outbox, published, queue, faults>>
    BY <1>6 DEF Tick, vars
  <2>2. QED
    BY <2>1 DEF PendingInv, RequestOnItsWay, StatusOf
<1>7. QED
  BY <1>1, <1>2, <1>3, <1>4, <1>5, <1>6 DEF Next, WorkerMishap

\* If fewer calls fail than a message has deliveries, a queued job never loses
\* its request: not to a dispatcher that cannot record what it has published,
\* not to claims that fail, not to the deliveries earlier runs have used up.
THEOREM RequestsArePending ==
    ASSUME MaxFaults < MaxDeliver
    PROVE  Spec => []RequestPending
<1>1. Init => PendingInv
  BY DEF Init, AbsentRow, PendingInv, StatusOf
<1>2. PendingInv => RequestPending
  BY DEF PendingInv, RequestOnItsWay, RequestPending
<1>3. QED
  BY <1>1, <1>2, PendingNext, TypeInvAlways, EngineEventsAccurate, PTL DEF Spec

-----------------------------------------------------------------------------
(* No object without an owner *)

\* The worker that will publish or delete an object.
Holds(w, j) == worker[w].pc \in {"stored", "discarding", "failing"} /\ JobOf(w) = j

\* Every object has an owner: a result that no cleaner is about to expire, or
\* a worker that has not finished with it.
ObjectOwned(j) ==
    \/ StatusOf(j) = "succeeded" /\ \A c \in Cleaners : cleaner[c].current # j
    \/ \E w \in Workers : Holds(w, j)

Published(j) == StatusOf(j) \in {"succeeded", "expired", "purged"}

\* NoOrphans is inductive only with the owner of every object, and with what
\* is known of the rows the cleaners have in hand.
OwnedInv ==
    /\ \A j \in Jobs : object[j] # 0 => ObjectOwned(j)
    /\ \A c \in Cleaners : \A j \in Jobs :
          j \in cleaner[c].batch \/ j = cleaner[c].current => Published(j)

\* A step of one row, other than its expiry, orphans nothing.
LEMMA OwnedRow ==
    ASSUME OwnedInv, NEW j \in Jobs, OnlyRow(j), StatusOf(j) # "succeeded",
           Published(j) => jobs'[j].status = "purged"
    PROVE  OwnedInv'
<1> USE DEF OnlyRow, StatusOf
<1>1. ASSUME NEW i \in Jobs, object'[i] # 0 PROVE ObjectOwned(i)'
  <2>1. ObjectOwned(i) /\ cleaner' = cleaner /\ worker' = worker
    BY <1>1 DEF OwnedInv
  <2>2. QED
    BY <2>1 DEF ObjectOwned, Holds, JobOf
<1>2. ASSUME NEW c \in Cleaners, NEW i \in Jobs,
             i \in cleaner'[c].batch \/ i = cleaner'[c].current
      PROVE  Published(i)'
  <2>1. Published(i)
    BY <1>2 DEF OwnedInv
  <2>2. QED
    BY <2>1 DEF Published
<1>3. QED
  BY <1>1, <1>2 DEF OwnedInv

LEMMA OwnedClient ==
    ASSUME TypeInv, OwnedInv, ClientStep
    PROVE  OwnedInv'
<1> USE DEF TypeInv
<1>0. PICK j \in Jobs :
        \/ \E k \in Keys : Create(j, k)
        \/ \E expected \in 1 .. jobs[j].version :
              \/ Cancel(j, expected)
              \/ \E k \in Keys : Retry(j, expected, k)
        \/ \E ttl \in 1 .. PresignTTL : CreateDownloadURL(j, ttl)
  BY DEF ClientStep
<1>1. ASSUME NEW row, NEW change, NEW v, SetRow(j, row), AddOutbox(j, change, v),
             StatusOf(j) \in {"absent", "queued", "running", "failed", "canceled"},
             UNCHANGED <<object, worker, cleaner, urls, clock>>
      PROVE  OwnedInv'
  <2>1. OnlyRow(j)
    BY <1>1, SetRowOnly, AddOutboxOnly DEF OnlyRow
  <2>2. QED
    BY <1>1, <2>1, OwnedRow DEF Published
<1>2. ASSUME NEW k \in Keys, Create(j, k) PROVE OwnedInv'
  BY <1>1, <1>2 DEF Create
<1>3. ASSUME NEW expected \in 1 .. jobs[j].version, Cancel(j, expected) PROVE OwnedInv'
  BY <1>1, <1>3 DEF Cancel
<1>4. ASSUME NEW expected \in 1 .. jobs[j].version, NEW k \in Keys, Retry(j, expected, k)
      PROVE  OwnedInv'
  BY <1>1, <1>4 DEF Retry
<1>5. ASSUME NEW ttl \in 1 .. PresignTTL, CreateDownloadURL(j, ttl) PROVE OwnedInv'
  BY <1>5 DEF CreateDownloadURL, OwnedInv, ObjectOwned, Published, Holds, JobOf, StatusOf
<1>6. QED
  BY <1>0, <1>2, <1>3, <1>4, <1>5

LEMMA OwnedClaim ==
    ASSUME TypeInv, OwnedInv, NEW w \in Workers, NEW m \in queue, Claim(w, m)
    PROVE  OwnedInv'
<1> USE DEF TypeInv, StatusOf
<1>1. m.job \in Jobs
  BY DEF TypeOK, Messages
<1>2. /\ \A i \in Jobs \ {m.job} : jobs'[i] = jobs[i]
      /\ jobs[m.job].status = "queued" /\ UNCHANGED <<object, cleaner>>
  BY <1>1, SetRowOnly DEF Claim, ClaimRow
<1>3. worker[w].pc = "idle" /\ \A v \in Workers \ {w} : worker'[v] = worker[v]
  BY DEF Claim, TypeOK
<1>4. \A v \in Workers, i \in Jobs : Holds(v, i) => Holds(v, i)'
  BY <1>3 DEF Holds, JobOf
<1>5. \A i \in Jobs : ObjectOwned(i) => ObjectOwned(i)'
  BY <1>2, <1>4 DEF ObjectOwned
<1>6. \A i \in Jobs : Published(i) => Published(i)'
  BY <1>2 DEF Published
<1>7. QED
  BY <1>2, <1>5, <1>6 DEF OwnedInv

\* What a step of a worker does to the object of its job when nothing fails:
\* it deletes it, it keeps hold of it, it never held it, or it publishes it.
LEMMA WorkerHold ==
    ASSUME TypeInv, NEW w \in Workers, ~Fault, WorkerStep(w) \/ LeaseLapses(w)
    PROVE  LET j == JobOf(w) IN
           \/ object'[j] = 0
           \/ worker'[w].pc \in {"stored", "discarding", "failing"}
           \/ object'[j] = object[j] /\ worker[w].pc \in {"streaming", "persisting"}
           \/ RunPublishes(w)
<1> DEFINE j == JobOf(w)
<1> USE DEF TypeInv
<1>0. worker[w].pc # "idle"
  BY WorkerEffect
<1>j. j \in Jobs /\ worker[w] \in WorkerState
  BY <1>0, BusyWorker
<1>1. CASE Checkpoint(w) \/ StreamDone(w) \/ FailPersist(w)
  BY <1>1 DEF Checkpoint, StreamDone, FailPersist
<1>2. CASE StreamStale(w) \/ PipelineError(w) \/ SucceedStale(w)
  <2>1. Goto(w, "failing") \/ Goto(w, "discarding")
    BY <1>2 DEF StreamStale, PipelineError, SucceedStale
  <2>2. QED
    BY <2>1, MovedWorker
<1>3. CASE Upload(w)
  <2>1. CASE worker' = [worker EXCEPT ![w].pc = "stored", ![w].completedAt = clock]
    <3> DEFINE stored == [worker[w] EXCEPT !.pc = "stored"]
               next == [stored EXCEPT !.completedAt = clock]
    <3>1. worker' = [worker EXCEPT ![w] = next]
      BY <2>1 DEF TypeOK
    <3>2. stored \in WorkerState /\ stored.pc = "stored"
      BY <1>j DEF WorkerState
    <3> HIDE DEF stored
    <3>3. next.pc = "stored"
      BY <3>2 DEF WorkerState
    <3>4. QED
      BY <3>1, <3>3 DEF TypeOK
  <2>2. CASE Goto(w, "failing")
    BY <2>2, MovedWorker
  <2>3. QED
    BY <1>3, <2>1, <2>2 DEF Upload
<1>4. CASE Succeed(w)
  <2>1. StatusOf(j) = "running" /\ jobs'[j].status = "succeeded"
    <3> DEFINE bumped == Bump(jobs[j], "succeeded", worker[w].completedAt)
               until == worker[w].completedAt + ResultTTL
               row == [bumped EXCEPT !.checksum = worker[w].run, !.expiresAt = until]
    <3>1. /\ StatusOf(j) = "running" /\ SetRow(j, row)
      BY <1>4 DEF Succeed
    <3>2. jobs[j] \in Row /\ worker[w].completedAt \in Nat
      BY <1>j DEF TypeOK, WorkerState
    <3>3. bumped \in Row /\ bumped.status = "succeeded"
      BY <3>2, BumpedRow DEF RowIs
    <3> HIDE DEF bumped, until
    <3>4. row.status = "succeeded"
      BY <3>3 DEF Row
    <3> HIDE DEF row
    <3>5. QED
      BY <1>j, <3>1, <3>4, SetRowOnly
  <2>2. RunPublishes(w)
    BY <2>1, WorkerEffect DEF RunQuiet, RunPublishes, RunFails, StatusOf
  <2>3. QED
    BY <2>2
<1>5. CASE Discard(w) \/ FailDelete(w)
  <2>1. object' = [object EXCEPT ![j] = 0]
    BY <1>5 DEF Discard, FailDelete, DeleteObject
  <2>2. QED
    BY <1>j, <2>1 DEF TypeOK
<1>6. CASE LeaseLapses(w)
  <2> DEFINE next == [worker[w] EXCEPT !.leased = FALSE]
  <2>1. worker' = [worker EXCEPT ![w] = next] /\ object' = object
    BY <1>6 DEF LeaseLapses
  <2>2. next.pc = worker[w].pc
    BY <1>j DEF WorkerState
  <2>3. worker'[w].pc = worker[w].pc
    BY <2>1, <2>2 DEF TypeOK
  <2>4. QED
    BY <1>6, <2>1, <2>3 DEF LeaseLapses
<1>7. QED
  BY <1>1, <1>2, <1>3, <1>4, <1>5, <1>6 DEF WorkerStep

LEMMA OwnedWorker ==
    ASSUME TypeInv, OwnedInv, NEW w \in Workers, ~Fault, WorkerStep(w) \/ LeaseLapses(w)
    PROVE  OwnedInv'
<1> USE DEF StatusOf
<1>0. worker[w].pc # "idle"
  BY WorkerEffect
<1>3. PICK j \in Jobs : j = JobOf(w)
  BY <1>0, BusyJob
<1>1. /\ worker[w].pc # "idle"
      /\ \A v \in Workers \ {w} : worker'[v] = worker[v]
      /\ \A i \in Jobs \ {j} : jobs'[i] = jobs[i] /\ object'[i] = object[i]
      /\ cleaner' = cleaner
      /\ worker'[w].pc # "idle" => worker'[w].msg.job = j
  BY <1>3, WorkerEffect DEF OnlyRun
<1>2. jobs'[j] = jobs[j] \/ StatusOf(j) = "running"
  BY <1>3, WorkerEffect DEF RunQuiet, RunPublishes, RunFails
<1>4. \/ object'[j] = 0
      \/ worker'[w].pc \in {"stored", "discarding", "failing"}
      \/ object'[j] = object[j] /\ worker[w].pc \in {"streaming", "persisting"}
      \/ RunPublishes(w)
  BY <1>3, WorkerHold
<1>5. \A v \in Workers, i \in Jobs : Holds(v, i) /\ (v # w \/ i # j) => Holds(v, i)' /\ v # w
  BY <1>1, <1>3 DEF Holds, JobOf
<1>6. ASSUME NEW i \in Jobs, i # j, object'[i] # 0 PROVE ObjectOwned(i)'
  <2>1. ObjectOwned(i)
    BY <1>1, <1>6 DEF OwnedInv
  <2>2. QED
    BY <1>1, <1>5, <1>6, <2>1 DEF ObjectOwned
<1>7. ASSUME object'[j] # 0 PROVE ObjectOwned(j)'
  <2>1. CASE worker'[w].pc \in {"stored", "discarding", "failing"}
    <3>1. Holds(w, j)'
      BY <1>1, <2>1 DEF Holds, JobOf
    <3>2. QED
      BY <3>1 DEF ObjectOwned
  <2>2. CASE object'[j] = object[j] /\ worker[w].pc \in {"streaming", "persisting"}
    <3>1. ObjectOwned(j) /\ ~Holds(w, j)
      BY <1>3, <1>7, <2>2 DEF OwnedInv, Holds
    <3>2. CASE \E v \in Workers : Holds(v, j)
      BY <1>3, <1>5, <3>1, <3>2 DEF ObjectOwned
    <3>3. CASE StatusOf(j) = "succeeded" /\ \A c \in Cleaners : cleaner[c].current # j
      BY <1>1, <1>2, <3>3 DEF ObjectOwned
    <3>4. QED
      BY <3>1, <3>2, <3>3 DEF ObjectOwned
  <2>3. CASE RunPublishes(w)
    <3>1. StatusOf(j) = "running" /\ jobs'[j].status = "succeeded"
      BY <1>3, <2>3 DEF RunPublishes
    <3>2. \A c \in Cleaners : cleaner[c].current # j
      BY <1>3, <3>1 DEF OwnedInv, Published
    <3>3. QED
      BY <1>1, <3>1, <3>2 DEF ObjectOwned
  <2>4. QED
    BY <1>4, <1>7, <2>1, <2>2, <2>3
<1>8. \A i \in Jobs : Published(i) => Published(i)'
  BY <1>1, <1>2 DEF Published
<1>9. QED
  BY <1>1, <1>6, <1>7, <1>8 DEF OwnedInv

\* A cleaner deletes the object before it expires the row.
LEMMA OwnedCleaner ==
    ASSUME TypeInv, OwnedInv, ~Fault, NEW c \in Cleaners, CleanerStep(c)
    PROVE  OwnedInv'
<1> USE DEF TypeInv, StatusOf
<1>h. UNCHANGED worker => \A i \in Jobs, w \in Workers : Holds(w, i)' = Holds(w, i)
  BY DEF Holds, JobOf
<1>1. CASE CleanList(c)
  <2>1. PICK listed \in SUBSET Due(clock) :
           cleaner' = [cleaner EXCEPT ![c] =
                         [batch |-> listed, current |-> NoJob, now |-> clock]]
    BY <1>1 DEF CleanList
  <2>2. UNCHANGED <<jobs, object, worker>>
    BY <1>1 DEF CleanList
  <2>3. /\ cleaner'[c].batch = listed /\ cleaner'[c].current = NoJob
        /\ \A d \in Cleaners \ {c} : cleaner'[d] = cleaner[d]
    BY <2>1 DEF TypeOK
  <2>4. \A i \in Jobs : ObjectOwned(i) => ObjectOwned(i)'
    BY <1>h, <2>2, <2>3, NoJobAssumption DEF ObjectOwned
  <2>5. \A i \in listed : Published(i)'
    BY <2>2 DEF Due, Published
  <2>6. \A i \in Jobs : Published(i) => Published(i)'
    BY <2>2 DEF Published
  <2>7. QED
    BY <2>2, <2>3, <2>4, <2>5, <2>6, NoJobAssumption DEF OwnedInv
<1>2. ASSUME NEW j \in Jobs, CleanDelete(c, j) PROVE OwnedInv'
  <2>1. /\ UNCHANGED <<jobs, worker>> /\ j \in cleaner[c].batch
        /\ object' = [object EXCEPT ![j] = 0]
        /\ cleaner' = [cleaner EXCEPT ![c].batch = @ \ {j}, ![c].current = j]
    BY <1>2 DEF CleanDelete
  <2> DEFINE less == [cleaner[c] EXCEPT !.batch = @ \ {j}]
             next == [less EXCEPT !.current = j]
  <2>2. cleaner' = [cleaner EXCEPT ![c] = next]
    BY <2>1 DEF TypeOK
  <2>3. less \in CleanerState /\ less.batch = cleaner[c].batch \ {j}
    BY DEF TypeOK, CleanerState
  <2> HIDE DEF less
  <2>4. next.batch = cleaner[c].batch \ {j} /\ next.current = j
    BY <2>3 DEF CleanerState
  <2> HIDE DEF next
  <2>5. /\ cleaner'[c].batch = cleaner[c].batch \ {j} /\ cleaner'[c].current = j
        /\ \A d \in Cleaners \ {c} : cleaner'[d] = cleaner[d]
    BY <2>2, <2>4 DEF TypeOK
  <2>6. object'[j] = 0 /\ \A i \in Jobs \ {j} : object'[i] = object[i]
    BY <2>1 DEF TypeOK
  <2>7. \A i \in Jobs \ {j} : ObjectOwned(i) => ObjectOwned(i)'
    BY <1>h, <2>1, <2>5 DEF ObjectOwned
  <2>8. \A i \in Jobs : Published(i) => Published(i)'
    BY <2>1 DEF Published
  <2>9. \A i \in Jobs : object'[i] # 0 => ObjectOwned(i)'
    BY <2>6, <2>7 DEF OwnedInv
  <2>10. ASSUME NEW d \in Cleaners, NEW i \in Jobs,
               i \in cleaner'[d].batch \/ i = cleaner'[d].current
        PROVE  Published(i)'
    BY <2>1, <2>5, <2>8, <2>10 DEF OwnedInv
  <2>11. QED
    BY <2>9, <2>10 DEF OwnedInv
<1>3. CASE CleanExpire(c)
  <2> DEFINE j == cleaner[c].current
             row == Bump(jobs[j], "expired", cleaner[c].now)
  <2>1. UNCHANGED <<object, worker>> /\ NextInBatch(c) /\ j \in Jobs
    BY <1>3 DEF CleanExpire
  <2>2. /\ \A d \in Cleaners : cleaner'[d].batch = cleaner[d].batch
        /\ cleaner'[c].current \notin Jobs
        /\ \A d \in Cleaners \ {c} : cleaner'[d] = cleaner[d]
    BY <2>1, NextCleaner
  <2>3. row.status = "expired"
    <3>1. jobs[j] \in Row /\ cleaner[c].now \in Nat
      BY <2>1 DEF TypeOK, CleanerState
    <3>2. QED
      BY <3>1, BumpedRow DEF RowIs
  <2>4. jobs' = jobs \/ SetRow(j, row)
    BY <1>3 DEF CleanExpire
  <2> HIDE DEF row
  <2>5. /\ \A i \in Jobs \ {j} : jobs'[i] = jobs[i]
        /\ jobs'[j] = jobs[j] \/ jobs'[j].status = "expired"
    BY <2>1, <2>3, <2>4, SetRowOnly
  <2>6. \A i \in Jobs : ObjectOwned(i) => ObjectOwned(i)'
    BY <1>h, <2>1, <2>2, <2>5 DEF ObjectOwned
  <2>7. \A i \in Jobs : Published(i) => Published(i)'
    BY <2>1, <2>5 DEF Published
  <2>8. \A i \in Jobs : object'[i] # 0 => ObjectOwned(i)'
    BY <2>1, <2>6 DEF OwnedInv
  <2>9. ASSUME NEW d \in Cleaners, NEW i \in Jobs,
               i \in cleaner'[d].batch \/ i = cleaner'[d].current
        PROVE  Published(i)'
    BY <2>2, <2>7, <2>9 DEF OwnedInv
  <2>10. QED
    BY <2>8, <2>9 DEF OwnedInv
<1>4. QED
  BY <1>1, <1>2, <1>3 DEF CleanerStep

LEMMA OwnedPurge ==
    ASSUME TypeInv, OwnedInv, NEW j \in Jobs, PurgeExpiredMetadata(j)
    PROVE  OwnedInv'
<1> DEFINE row == [AbsentRow EXCEPT !.status = "purged", !.version = jobs[j].version]
<1>1. row.status = "purged"
  BY Flat, PurgedRow DEF TypeInv
<1>2. SetRow(j, row)
  BY DEF PurgeExpiredMetadata
<1> HIDE DEF row
<1>3. jobs'[j].status = "purged" /\ OnlyRow(j)
  BY <1>1, <1>2, SetRowOnly DEF PurgeExpiredMetadata, OnlyRow, TypeInv
<1>4. QED
  BY <1>3, OwnedRow DEF PurgeExpiredMetadata

LEMMA OwnedNext ==
    ASSUME MaxFaults = 0
    PROVE  TypeInv /\ OwnedInv /\ [Next]_vars => OwnedInv'
<1> SUFFICES ASSUME TypeInv, OwnedInv, [Next]_vars PROVE OwnedInv'
  OBVIOUS
<1>0. ~Fault
  BY DEF Fault, TypeInv, TypeOK
<1>s. UNCHANGED <<jobs, object, worker, cleaner>> => OwnedInv'
  BY DEF OwnedInv, ObjectOwned, Published, Holds, JobOf, StatusOf
<1>1. CASE ClientStep
  BY <1>1, OwnedClient
<1>2. CASE DispatcherStep \/ Tick \/ UNCHANGED vars
  BY <1>2, <1>s DEF DispatcherStep, Dispatch, Tick, vars
<1>3. ASSUME NEW w \in Workers, DeliveryStep(w) PROVE OwnedInv'
  BY <1>3, <1>s, OwnedClaim DEF DeliveryStep, ClaimMissed
<1>4. ASSUME NEW w \in Workers, WorkerStep(w) \/ WorkerMishap(w) PROVE OwnedInv'
  BY <1>0, <1>4, OwnedWorker DEF WorkerMishap, ClaimFailed, SucceedLost, FailLost, Crash
<1>5. ASSUME NEW c \in Cleaners, CleanerStep(c) \/ CleanAborted(c) PROVE OwnedInv'
  BY <1>0, <1>5, OwnedCleaner DEF CleanAborted
<1>6. CASE \E j \in Jobs : PurgeExpiredMetadata(j)
  BY <1>6, OwnedPurge
<1>7. QED
  BY <1>1, <1>2, <1>3, <1>4, <1>5, <1>6 DEF Next

\* If nothing fails, no object outlives its job: whatever clients cancel and
\* retry while a worker uploads, and whichever worker or cleaner gets to a
\* row first, an object that nobody works on is a result.
THEOREM NoObjectIsOrphaned ==
    ASSUME MaxFaults = 0
    PROVE  Spec => []NoOrphans
<1>1. Init => OwnedInv
  BY NoJobAssumption DEF Init, OwnedInv, IdleCleaner
<1>2. OwnedInv => NoOrphans
  BY DEF OwnedInv, ObjectOwned, Holds, NoOrphans, Executing
<1>3. QED
  BY <1>1, <1>2, OwnedNext, TypeInvAlways, PTL DEF Spec

=============================================================================
