----------------------------- MODULE ExportJobs -----------------------------
(***************************************************************************)
(* The export job engine: the job table (repository.go), the client        *)
(* operations (service.go), the transactional outbox and the JetStream     *)
(* consumer that carries "requested" events to the workers                 *)
(* (export_eventbus.go), the workers (worker.go Process and fail), the     *)
(* result objects (objectstorage) and the two retention jobs (worker.go    *)
(* CleanupExpired and PurgeExpiredMetadata).                               *)
(*                                                                         *)
(* One SQL statement, one transaction and one object store call is one     *)
(* step.  Everything else that a handler does between two of them is part  *)
(* of the step before it.  Contents are abstracted to the claim that       *)
(* produced them: the object, and the checksum column, hold the version    *)
(* the row had right after that claim, which no other claim of the job     *)
(* shares; 0 is no object / no checksum.                                   *)
(***************************************************************************)
EXTENDS Naturals, FiniteSets

CONSTANTS
    Jobs,               \* job identifiers
    NoJob,              \* not a job identifier
    Keys,               \* idempotency keys of one tenant and application
    NoKey,              \* not a key
    Workers,            \* concurrent executions of Worker.Process, all replicas
    Cleaners,           \* replicas running the cleanup cron job
    ResultTTL,          \* export.result_ttl
    PresignTTL,         \* object_storage.presign_ttl
    Retention,          \* cron.metadata_retention
    CleanupBatchSize,   \* cron.cleanup_batch_size
    MaxDeliver,         \* event_bus.consumer_max_deliver
    PromptRetry,        \* may a client retry a canceled job while the worker
                        \* that was running it has not noticed yet?
    MaxCheckpoints,     \* bound: intermediate progress checkpoints of one run
    MaxRetryVersion,    \* bound: a row with a larger version is not retried
    MaxClock,           \* bound: the clock stops there
    MaxFaults           \* bound: database, storage and process failures

ASSUME NoJobAssumption == NoJob \notin Jobs
ASSUME NoKeyAssumption == NoKey \notin Keys
ASSUME DurationAssumption ==
    /\ ResultTTL \in Nat \ {0}
    /\ PresignTTL \in Nat \ {0}
    /\ Retention \in Nat \ {0}
ASSUME LimitAssumption ==
    /\ CleanupBatchSize \in Nat \ {0}
    /\ MaxDeliver \in Nat \ {0}
ASSUME BoundAssumption ==
    /\ MaxCheckpoints \in Nat
    /\ MaxRetryVersion \in Nat
    /\ MaxClock \in Nat
    /\ MaxFaults \in Nat
ASSUME PromptRetryAssumption == PromptRetry \in BOOLEAN

VARIABLES
    jobs,               \* the export_jobs table: [Jobs -> Row]
    outbox,             \* committed export_outbox_events: set of events
    published,          \* requested events with published_at set
    queue,              \* JetStream messages waiting to be delivered
    object,             \* the bucket: [Jobs -> Nat], 0 is no object
    worker,             \* [Workers -> WorkerState]
    cleaner,            \* [Cleaners -> CleanerState]
    urls,               \* download URLs handed out, with the reported expiry
    clock,              \* wall clock shared by the replicas
    faults              \* failures so far

vars == <<jobs, outbox, published, queue, object, worker, cleaner, urls,
          clock, faults>>

-----------------------------------------------------------------------------
(* The job table *)

Row == [status : {"absent", "queued", "running", "succeeded", "failed",
                  "canceled", "expired", "purged"},
        version : Nat,
        key : Keys \cup {NoKey},        \* idempotency_key
        origin : Keys \cup {NoKey},     \* the key the row was created with
        checksum : Nat,
        expiresAt : Nat,
        updatedAt : Nat]

AbsentRow == [status |-> "absent", version |-> 0, key |-> NoKey,
              origin |-> NoKey, checksum |-> 0, expiresAt |-> 0,
              updatedAt |-> 0]

StatusOf(j) == jobs[j].status

Exists(j) == StatusOf(j) \notin {"absent", "purged"}

\* UNIQUE (tenant_id, application_id, idempotency_key)
KeyInUse(k) == \E j \in Jobs : Exists(j) /\ jobs[j].key = k

\* The row with a new status, the next version and a new updated_at.
Bump(row, status, now) ==
    [row EXCEPT !.status = status, !.version = @ + 1, !.updatedAt = now]

SetRow(j, row) == jobs' = [jobs EXCEPT ![j] = row]

\* jobChangedEvent and AddOutbox, in the transaction that changes the row.
AddOutbox(j, change, version) ==
    outbox' = outbox \cup {[job |-> j, change |-> change, version |-> version]}

-----------------------------------------------------------------------------
(* The bus: at least once delivery with a limited number of attempts *)

Messages == [job : Jobs, version : Nat, deliveries : Nat]

\* The message in the hands of a worker, or of a handler about to fail.
Delivered(m) == [m EXCEPT !.deliveries = @ + 1]

\* A negative acknowledgement, or no acknowledgement within AckWait: the
\* message is delivered again, or dead-lettered after MaxDeliver attempts.
Redeliver(q, m) == IF m.deliveries < MaxDeliver THEN q \cup {m} ELSE q

-----------------------------------------------------------------------------
(* Workers and cleaners *)

NoMessage == [job |-> NoJob, version |-> 0, deliveries |-> 0]

WorkerState ==
    [pc : {"idle", "streaming", "uploading", "stored", "discarding",
           "failing", "persisting"},
     msg : Messages \cup {NoMessage},
     leased : BOOLEAN,          \* the delivery is still this worker's
     run : Nat,                 \* row version right after the claim
     checkpoints : Nat,
     completedAt : Nat]

IdleWorker == [pc |-> "idle", msg |-> NoMessage, leased |-> FALSE, run |-> 0,
               checkpoints |-> 0, completedAt |-> 0]

JobOf(w) == worker[w].msg.job

Executing(w, j) == worker[w].pc # "idle" /\ JobOf(w) = j

CleanerState == [batch : SUBSET Jobs,           \* listed, still to be cleaned
                 current : Jobs \cup {NoJob},   \* object deleted, row not yet
                 now : Nat]

IdleCleaner == [batch |-> {}, current |-> NoJob, now |-> 0]

Urls == [job : Jobs, until : Nat]

TypeOK ==
    /\ jobs \in [Jobs -> Row]
    /\ outbox \subseteq [job : Jobs,
                         change : {"requested", "succeeded", "failed",
                                   "canceled", "expired"},
                         version : Nat]
    /\ published \subseteq outbox
    /\ queue \subseteq Messages
    /\ object \in [Jobs -> Nat]
    /\ worker \in [Workers -> WorkerState]
    /\ cleaner \in [Cleaners -> CleanerState]
    /\ urls \subseteq Urls
    /\ clock \in Nat
    /\ faults \in Nat

Init ==
    /\ jobs = [j \in Jobs |-> AbsentRow]
    /\ outbox = {}
    /\ published = {}
    /\ queue = {}
    /\ object = [j \in Jobs |-> 0]
    /\ worker = [w \in Workers |-> IdleWorker]
    /\ cleaner = [c \in Cleaners |-> IdleCleaner]
    /\ urls = {}
    /\ clock = 0
    /\ faults = 0

\* A failure of the database, of the object store or of a process.
Fault == faults < MaxFaults /\ faults' = faults + 1

-----------------------------------------------------------------------------
(* Client operations (service.go).  Rejected calls change nothing and are  *)
(* not steps.                                                              *)

\* Service.Create: the first request with this key inserts the row and the
\* requested event in one transaction; a later one finds the row, and the
\* loser of two concurrent inserts is refused by the unique constraint.
Create(j, k) ==
    /\ StatusOf(j) = "absent"
    /\ ~KeyInUse(k)
    /\ SetRow(j, [Bump(jobs[j], "queued", clock) EXCEPT !.key = k, !.origin = k])
    /\ AddOutbox(j, "requested", jobs[j].version + 1)
    /\ UNCHANGED <<published, queue, object, worker, cleaner, urls, clock, faults>>

\* Mutants of Cancel: any row can be canceled; the event carries the version
\* the client has sent instead of the persisted one.
CancelAnyStatus(j, expected) ==
    /\ jobs[j].version = expected
    /\ SetRow(j, Bump(jobs[j], "canceled", clock))
    /\ AddOutbox(j, "canceled", expected + 1)
    /\ UNCHANGED <<published, queue, object, worker, cleaner, urls, clock, faults>>

CancelOldVersion(j, expected) ==
    /\ jobs[j].version = expected
    /\ StatusOf(j) \in {"queued", "running"}
    /\ SetRow(j, Bump(jobs[j], "canceled", clock))
    /\ AddOutbox(j, "canceled", expected)
    /\ UNCHANGED <<published, queue, object, worker, cleaner, urls, clock, faults>>

\* Service.Cancel: optimistic on the version the client has read.  (The event
\* carries the identifiers as they were given, the update the trimmed ones; a job
\* is its trimmed identifiers here.)
Cancel(j, expected) ==
    /\ jobs[j].version = expected
    /\ StatusOf(j) \in {"queued", "running"}
    /\ SetRow(j, Bump(jobs[j], "canceled", clock))
    /\ AddOutbox(j, "canceled", expected + 1)
    /\ UNCHANGED <<published, queue, object, worker, cleaner, urls, clock, faults>>

\* Service.Retry reads the row and then updates it in a transaction guarded
\* by expected.  The client had seen expected before the call, so when the
\* update matches, the row is the one that was read: one step.
Retry(j, expected, k) ==
    /\ jobs[j].version = expected
    /\ StatusOf(j) \in {"failed", "canceled"}
    /\ jobs[j].key # k
    /\ ~KeyInUse(k)
    /\ expected <= MaxRetryVersion
    /\ PromptRetry \/ \A w \in Workers : ~Executing(w, j)
    /\ SetRow(j, [Bump(jobs[j], "queued", clock) EXCEPT
                    !.key = k, !.checksum = 0, !.expiresAt = 0])
    /\ AddOutbox(j, "requested", expected + 1)
    /\ UNCHANGED <<published, queue, object, worker, cleaner, urls, clock, faults>>

\* Mutant of CreateDownloadURL: the ttl is not capped by the remaining time.
CreateUncappedURL(j, ttl) ==
    /\ StatusOf(j) = "succeeded"
    /\ jobs[j].expiresAt > clock
    /\ urls' = urls \cup {[job |-> j, until |-> clock + ttl]}
    /\ UNCHANGED <<jobs, outbox, published, queue, object, worker, cleaner, clock, faults>>

\* Service.CreateDownloadURL with a requested ttl; PresignDownload caps it
\* again at PresignTTL.
CreateDownloadURL(j, ttl) ==
    /\ StatusOf(j) = "succeeded"
    /\ jobs[j].expiresAt > clock
    /\ LET remaining == jobs[j].expiresAt - clock
           granted == IF ttl > remaining THEN remaining ELSE ttl
       IN  urls' = urls \cup {[job |-> j, until |-> clock + granted]}
    /\ UNCHANGED <<jobs, outbox, published, queue, object, worker, cleaner, clock, faults>>

-----------------------------------------------------------------------------
(* Outbox dispatcher and consumer *)

\* Mutant of Dispatch: the bus drops a message of a job it has seen before.
DispatchOncePerJob(e) ==
    /\ e \in outbox \ published
    /\ e.change = "requested"
    /\ published' = published \cup {e}
    /\ queue' = IF \E f \in published : f.job = e.job THEN queue
                ELSE queue \cup {[job |-> e.job, version |-> e.version, deliveries |-> 0]}
    /\ UNCHANGED <<jobs, outbox, object, worker, cleaner, urls, clock, faults>>

\* The dispatcher publishes a requested event.  When it cannot record that
\* (the fault), the event is published again later.
Dispatch(e) ==
    /\ e \in outbox \ published
    /\ e.change = "requested"
    /\ queue' = queue \cup {[job |-> e.job, version |-> e.version, deliveries |-> 0]}
    /\ \/ published' = published \cup {e} /\ UNCHANGED faults
       \/ Fault /\ UNCHANGED published
    /\ UNCHANGED <<jobs, outbox, object, worker, cleaner, urls, clock>>

\* Repository.Claim, by the delivery of m: any queued row of that job.
ClaimRow(j) == SetRow(j, Bump(jobs[j], "running", clock))

\* Mutant of Claim: a redelivered request takes over a running row.
ClaimTakesOver(w, m) ==
    /\ worker[w].pc = "idle"
    /\ m \in queue
    /\ StatusOf(m.job) \in {"queued", "running"}
    /\ ClaimRow(m.job)
    /\ queue' = queue \ {m}
    /\ worker' = [worker EXCEPT ![w] =
                    [pc |-> "streaming", msg |-> Delivered(m), leased |-> TRUE,
                     run |-> jobs[m.job].version + 1, checkpoints |-> 0,
                     completedAt |-> 0]]
    /\ UNCHANGED <<outbox, published, object, cleaner, urls, clock, faults>>

Claim(w, m) ==
    /\ worker[w].pc = "idle"
    /\ m \in queue
    /\ StatusOf(m.job) = "queued"
    /\ ClaimRow(m.job)
    /\ queue' = queue \ {m}
    /\ worker' = [worker EXCEPT ![w] =
                    [pc |-> "streaming", msg |-> Delivered(m), leased |-> TRUE,
                     run |-> jobs[m.job].version + 1, checkpoints |-> 0,
                     completedAt |-> 0]]
    /\ UNCHANGED <<outbox, published, object, cleaner, urls, clock, faults>>

\* The row is not queued: Process returns nil and the message is acknowledged.
ClaimMissed(w, m) ==
    /\ worker[w].pc = "idle"
    /\ m \in queue
    /\ StatusOf(m.job) # "queued"
    /\ queue' = queue \ {m}
    /\ UNCHANGED <<jobs, outbox, published, object, worker, cleaner, urls, clock, faults>>

\* Mutant of ClaimFailed: the message is acknowledged all the same.
ClaimFailedAcked(w, m) ==
    /\ worker[w].pc = "idle"
    /\ m \in queue
    /\ Fault
    /\ queue' = queue \ {m}
    /\ UNCHANGED <<jobs, outbox, published, object, worker, cleaner, urls, clock>>

\* Claim returns an error: the update failed, or it took effect and the read
\* that follows it failed.  Either way Process returns the error at once.
ClaimFailed(w, m) ==
    /\ worker[w].pc = "idle"
    /\ m \in queue
    /\ Fault
    /\ \/ UNCHANGED jobs
       \/ StatusOf(m.job) = "queued" /\ ClaimRow(m.job)
    /\ queue' = Redeliver(queue \ {m}, Delivered(m))
    /\ UNCHANGED <<outbox, published, object, worker, cleaner, urls, clock>>

-----------------------------------------------------------------------------
(* Worker.Process after the claim *)

Goto(w, pc) == worker' = [worker EXCEPT ![w].pc = pc]

\* Process returns nil: the message, taken off the queue at delivery, is gone.
Ack(w) ==
    /\ worker' = [worker EXCEPT ![w] = IdleWorker]
    /\ UNCHANGED queue

\* Mutant of Nak: the message is cleared before it is sent back.
NakAfterReset(w) ==
    /\ worker' = [worker EXCEPT ![w] = IdleWorker]
    /\ queue' = IF worker[w].leased THEN Redeliver(queue, NoMessage) ELSE queue

\* Process returns an error, or its process dies.
Nak(w) ==
    /\ worker' = [worker EXCEPT ![w] = IdleWorker]
    /\ queue' = IF worker[w].leased THEN Redeliver(queue, worker[w].msg) ELSE queue

\* Repository.Progress: guarded by the running status alone.
Progress(w) ==
    /\ StatusOf(JobOf(w)) = "running"
    /\ SetRow(JobOf(w), Bump(jobs[JobOf(w)], "running", clock))

\* A batch that reaches a progress checkpoint.  (A batch that does not only
\* calls EnsureRunning, which changes nothing while the row is running.)
Checkpoint(w) ==
    /\ worker[w].pc = "streaming"
    /\ worker[w].checkpoints < MaxCheckpoints
    /\ Progress(w)
    /\ worker' = [worker EXCEPT ![w].checkpoints = @ + 1]
    /\ UNCHANGED <<outbox, published, queue, object, cleaner, urls, clock, faults>>

\* The last batch is always a checkpoint; after it the pipe is closed and the
\* upload can complete.
StreamDone(w) ==
    /\ worker[w].pc = "streaming"
    /\ Progress(w)
    /\ Goto(w, "uploading")
    /\ UNCHANGED <<outbox, published, queue, object, cleaner, urls, clock, faults>>

\* EnsureRunning or Progress finds the row not running: ErrStaleVersion.
StreamStale(w) ==
    /\ worker[w].pc = "streaming"
    /\ StatusOf(JobOf(w)) # "running"
    /\ Goto(w, "failing")
    /\ UNCHANGED <<jobs, outbox, published, queue, object, cleaner, urls, clock, faults>>

\* Invalid definition, provider error, row or byte limit, timeout, shutdown,
\* or a failed upload.
PipelineError(w) ==
    /\ worker[w].pc \in {"streaming", "uploading"}
    /\ Goto(w, "failing")
    /\ UNCHANGED <<jobs, outbox, published, queue, object, cleaner, urls, clock, faults>>

\* Storage.Put completes; the pipeline returns its result unless the stored
\* size differs from the streamed one.
Upload(w) ==
    /\ worker[w].pc = "uploading"
    /\ object' = [object EXCEPT ![JobOf(w)] = worker[w].run]
    /\ \/ worker' = [worker EXCEPT ![w].pc = "stored", ![w].completedAt = clock]
       \/ Goto(w, "failing")
    /\ UNCHANGED <<jobs, outbox, published, queue, cleaner, urls, clock, faults>>

\* Mutant of Succeed: the update does not check that the row is running.
SucceedUnguarded(w) ==
    LET j == JobOf(w) IN
    /\ worker[w].pc = "stored"
    /\ SetRow(j, [Bump(jobs[j], "succeeded", worker[w].completedAt) EXCEPT
                    !.checksum = worker[w].run,
                    !.expiresAt = worker[w].completedAt + ResultTTL])
    /\ AddOutbox(j, "succeeded", jobs[j].version + 1)
    /\ Ack(w)
    /\ UNCHANGED <<published, object, cleaner, urls, clock, faults>>

\* The success transaction: Repository.Succeed and the succeeded event.  The
\* fault is a commit that took effect and whose answer was lost.
Succeed(w) ==
    LET j == JobOf(w) IN
    /\ worker[w].pc = "stored"
    /\ StatusOf(j) = "running"
    /\ SetRow(j, [Bump(jobs[j], "succeeded", worker[w].completedAt) EXCEPT
                    !.checksum = worker[w].run,
                    !.expiresAt = worker[w].completedAt + ResultTTL])
    /\ AddOutbox(j, "succeeded", jobs[j].version + 1)
    /\ \/ Ack(w) /\ UNCHANGED faults
       \/ Fault /\ Nak(w)
    /\ UNCHANGED <<published, object, cleaner, urls, clock>>

\* Mutant of SucceedStale: the object is left behind.
SucceedStaleKeeps(w) ==
    /\ worker[w].pc = "stored"
    /\ StatusOf(JobOf(w)) # "running"
    /\ Nak(w)
    /\ UNCHANGED <<jobs, outbox, published, object, cleaner, urls, clock, faults>>

\* Repository.Succeed returns an error, because it matches no row or because
\* the database fails: the object is deleted before the rollback.
SucceedStale(w) ==
    /\ worker[w].pc = "stored"
    /\ \/ StatusOf(JobOf(w)) # "running" /\ UNCHANGED faults
       \/ Fault
    /\ Goto(w, "discarding")
    /\ UNCHANGED <<jobs, outbox, published, queue, object, cleaner, urls, clock>>

\* The transaction cannot begin or commit (a database error, or the handler's
\* deadline): Process returns the error and does nothing else.
SucceedLost(w) ==
    /\ worker[w].pc = "stored"
    /\ Fault
    /\ Nak(w)
    /\ UNCHANGED <<jobs, outbox, published, object, cleaner, urls, clock>>

\* Storage.Delete, whose error the worker ignores.
DeleteObject(j) ==
    \/ object' = [object EXCEPT ![j] = 0] /\ UNCHANGED faults
    \/ Fault /\ UNCHANGED object

Discard(w) ==
    /\ worker[w].pc = "discarding"
    /\ DeleteObject(JobOf(w))
    /\ Nak(w)
    /\ UNCHANGED <<jobs, outbox, published, cleaner, urls, clock>>

\* Worker.fail, first half: delete the object.
FailDelete(w) ==
    /\ worker[w].pc = "failing"
    /\ DeleteObject(JobOf(w))
    /\ Goto(w, "persisting")
    /\ UNCHANGED <<jobs, outbox, published, queue, cleaner, urls, clock>>

\* Mutant of FailPersist: the cause is returned without persisting anything.
FailForgets(w) ==
    /\ worker[w].pc = "persisting"
    /\ Nak(w)
    /\ UNCHANGED <<jobs, outbox, published, object, cleaner, urls, clock, faults>>

\* Worker.fail, second half: Repository.Fail and the failed event, unless the
\* row is not running any more.  The cause is returned in every case.
FailPersist(w) ==
    LET j == JobOf(w) IN
    /\ worker[w].pc = "persisting"
    /\ IF StatusOf(j) = "running"
       THEN /\ SetRow(j, Bump(jobs[j], "failed", clock))
            /\ AddOutbox(j, "failed", jobs[j].version + 1)
       ELSE UNCHANGED <<jobs, outbox>>
    /\ Nak(w)
    /\ UNCHANGED <<published, object, cleaner, urls, clock, faults>>

\* The transaction of Worker.fail is lost.
FailLost(w) ==
    /\ worker[w].pc = "persisting"
    /\ Fault
    /\ Nak(w)
    /\ UNCHANGED <<jobs, outbox, published, object, cleaner, urls, clock>>

\* consumer_ack_wait exceeds the job timeout, but the cleanup after a failure
\* runs without a deadline and may outlast it: the message is redelivered
\* while this worker is still busy.
LeaseLapses(w) ==
    /\ worker[w].pc \in {"discarding", "failing", "persisting"}
    /\ worker[w].leased
    /\ worker' = [worker EXCEPT ![w].leased = FALSE]
    /\ queue' = Redeliver(queue, worker[w].msg)
    /\ UNCHANGED <<jobs, outbox, published, object, cleaner, urls, clock, faults>>

\* The process dies; an unfinished multipart upload leaves no object.
Crash(w) ==
    /\ worker[w].pc # "idle"
    /\ Fault
    /\ Nak(w)
    /\ UNCHANGED <<jobs, outbox, published, object, cleaner, urls, clock>>

-----------------------------------------------------------------------------
(* Worker.CleanupExpired and Worker.PurgeExpiredMetadata, run by cron in   *)
(* every replica without a common lock.                                    *)

\* Mutant of Due: rows one tick from their expiry are listed.
DueEarly(now) == {j \in Jobs : StatusOf(j) = "succeeded" /\ jobs[j].expiresAt <= now + 1}

\* Repository.ListExpired at time now.
Due(now) == {j \in Jobs : StatusOf(j) = "succeeded" /\ jobs[j].expiresAt <= now}

\* A possible answer of ListExpired: the limit oldest of the due rows.
Oldest(due, listed) ==
    /\ listed \subseteq due
    /\ IF Cardinality(due) <= CleanupBatchSize
       THEN listed = due
       ELSE Cardinality(listed) = CleanupBatchSize
    /\ \A a \in listed, b \in due \ listed : jobs[a].expiresAt <= jobs[b].expiresAt

CleanList(c) ==
    /\ cleaner[c] = IdleCleaner
    /\ Due(clock) # {}
    /\ \E listed \in SUBSET Due(clock) :
        /\ Oldest(Due(clock), listed)
        /\ cleaner' = [cleaner EXCEPT ![c] =
                         [batch |-> listed, current |-> NoJob, now |-> clock]]
    /\ UNCHANGED <<jobs, outbox, published, queue, object, worker, urls, clock, faults>>

\* The cleanup run is over: an error, a crash, or nothing left to do.
StopCleaner(c) == cleaner' = [cleaner EXCEPT ![c] = IdleCleaner]

NextInBatch(c) ==
    IF cleaner[c].batch = {}
    THEN StopCleaner(c)
    ELSE cleaner' = [cleaner EXCEPT ![c].current = NoJob]

\* Mutant of CleanDelete: deleting an object that is gone is an error.
CleanDeleteMissingFails(c, j) ==
    /\ cleaner[c].current = NoJob
    /\ j \in cleaner[c].batch
    /\ \/ /\ object[j] # 0
          /\ object' = [object EXCEPT ![j] = 0]
          /\ cleaner' = [cleaner EXCEPT ![c].batch = @ \ {j}, ![c].current = j]
       \/ object[j] = 0 /\ StopCleaner(c) /\ UNCHANGED object
    /\ UNCHANGED <<jobs, outbox, published, queue, worker, urls, clock, faults>>

\* The object of the next listed row is deleted; an error ends the run.
CleanDelete(c, j) ==
    /\ cleaner[c].current = NoJob
    /\ j \in cleaner[c].batch
    /\ \/ /\ object' = [object EXCEPT ![j] = 0]
          /\ cleaner' = [cleaner EXCEPT ![c].batch = @ \ {j}, ![c].current = j]
          /\ UNCHANGED faults
       \/ Fault /\ StopCleaner(c) /\ UNCHANGED object
    /\ UNCHANGED <<jobs, outbox, published, queue, worker, urls, clock>>

\* Mutant of Expirable: the status is not checked again.
ExpirableAgain(j, now) == jobs[j].expiresAt <= now

\* Repository.Expire's guard, with the time of the listing.
Expirable(j, now) == StatusOf(j) = "succeeded" /\ jobs[j].expiresAt <= now

\* The expire transaction; a row another cleaner has expired is skipped.
CleanExpire(c) ==
    LET j == cleaner[c].current
        now == cleaner[c].now
    IN
    /\ j \in Jobs
    /\ IF Expirable(j, now)
       THEN /\ SetRow(j, Bump(jobs[j], "expired", now))
            /\ AddOutbox(j, "expired", jobs[j].version + 1)
       ELSE UNCHANGED <<jobs, outbox>>
    /\ NextInBatch(c)
    /\ UNCHANGED <<published, queue, object, worker, urls, clock, faults>>

\* A database error, or the death of the replica, between the two steps.
CleanAborted(c) ==
    /\ cleaner[c].current # NoJob
    /\ Fault
    /\ StopCleaner(c)
    /\ UNCHANGED <<jobs, outbox, published, queue, object, worker, urls, clock>>

\* ListExpiredMetadataBefore and DeleteExpiredMetadata: nothing else changes
\* an expired row, so the version listed is the version deleted.
PurgeExpiredMetadata(j) ==
    /\ StatusOf(j) = "expired"
    /\ jobs[j].updatedAt + Retention < clock
    /\ SetRow(j, [AbsentRow EXCEPT !.status = "purged", !.version = jobs[j].version])
    /\ UNCHANGED <<outbox, published, queue, object, worker, cleaner, urls, clock, faults>>

Tick ==
    /\ clock < MaxClock
    /\ clock' = clock + 1
    /\ UNCHANGED <<jobs, outbox, published, queue, object, worker, cleaner, urls, faults>>

-----------------------------------------------------------------------------
ClientStep ==
    \E j \in Jobs :
        \/ \E k \in Keys : Create(j, k)
        \/ \E expected \in 1 .. jobs[j].version :
              \/ Cancel(j, expected)
              \/ \E k \in Keys : Retry(j, expected, k)
        \/ \E ttl \in 1 .. PresignTTL : CreateDownloadURL(j, ttl)

DispatcherStep == \E e \in outbox : Dispatch(e)

DeliveryStep(w) == \E m \in queue : Claim(w, m) \/ ClaimMissed(w, m)

\* What a live worker does next.
WorkerStep(w) ==
    \/ Checkpoint(w) \/ StreamDone(w) \/ StreamStale(w) \/ PipelineError(w)
    \/ Upload(w) \/ Succeed(w) \/ SucceedStale(w) \/ Discard(w)
    \/ FailDelete(w) \/ FailPersist(w)

WorkerMishap(w) ==
    \/ \E m \in queue : ClaimFailed(w, m)
    \/ SucceedLost(w) \/ FailLost(w) \/ LeaseLapses(w) \/ Crash(w)

CleanerStep(c) ==
    \/ CleanList(c) \/ CleanExpire(c)
    \/ \E j \in Jobs : CleanDelete(c, j)

Next ==
    \/ ClientStep
    \/ DispatcherStep
    \/ \E w \in Workers : DeliveryStep(w) \/ WorkerStep(w) \/ WorkerMishap(w)
    \/ \E c \in Cleaners : CleanerStep(c) \/ CleanAborted(c)
    \/ \E j \in Jobs : PurgeExpiredMetadata(j)
    \/ Tick

Spec == Init /\ [][Next]_vars

\* The dispatcher loop, the consumer, the running handlers (every call they
\* make is bounded by a deadline or returns), the cron job and time go on.
\* Clients and failures owe nothing, and neither does the purge.
Fairness ==
    /\ WF_vars(DispatcherStep)
    /\ \A w \in Workers : WF_vars(DeliveryStep(w)) /\ WF_vars(WorkerStep(w))
    /\ \A c \in Cleaners : WF_vars(CleanerStep(c))
    /\ WF_vars(Tick)

FairSpec == Spec /\ Fairness

-----------------------------------------------------------------------------
(* Properties *)

\* What readers of the job table and subscribers of the outbox see.
statusColumn == [j \in Jobs |-> jobs[j].status]

versionColumn == [j \in Jobs |-> jobs[j].version]

Lifecycle == INSTANCE JobLifecycle WITH
    status <- statusColumn, version <- versionColumn, events <- outbox

\* Every step of the engine changes a row only along the status graph of the
\* README, by one version, with exactly the event that change owes.
ImplementsLifecycle == Lifecycle!LifecycleSpec

\* Subscribers can trust event versions: no event is ahead of its row, no
\* two events of a job carry the same version, a settled row has the event
\* of its status at exactly its version, and the last event of a running row
\* is a request.
EventsMatchRows == Lifecycle!EventsAreAccurate

\* A result that is advertised and not yet expired is in the bucket, and it
\* is the one the checksum describes.
ResultAvailable ==
    \A j \in Jobs :
        StatusOf(j) = "succeeded" /\ clock < jobs[j].expiresAt =>
            object[j] # 0 /\ object[j] = jobs[j].checksum

\* A download URL works until the expiry reported with it, whatever the
\* cleaners do meanwhile.
UrlHonoured ==
    \A u \in urls : clock < u.until =>
        /\ StatusOf(u.job) = "succeeded"
        /\ object[u.job] # 0 /\ object[u.job] = jobs[u.job].checksum

\* A job is executed by one worker at a time, despite redelivery.
SingleExecutor ==
    \A v, w \in Workers : \A j \in Jobs : Executing(v, j) /\ Executing(w, j) => v = w

\* The published result comes from the run of the last request: no run that
\* was canceled, failed or superseded by a retry gets its result published.
CanceledRunNeverPublishes ==
    \A j \in Jobs : StatusOf(j) \in {"succeeded", "expired"} =>
        \A e \in outbox :
            e.job = j /\ e.change \in {"canceled", "failed", "requested"} =>
                e.version < jobs[j].checksum

\* Concurrent cleaners expire a result once.
ExpiredOnce ==
    \A e, f \in outbox :
        e.job = f.job /\ e.change = "expired" /\ f.change = "expired" => e = f

\* A queued job always has its request on the way to a worker.
RequestPending ==
    \A j \in Jobs : StatusOf(j) = "queued" =>
        \/ [job |-> j, change |-> "requested", version |-> jobs[j].version]
              \in outbox \ published
        \/ \E m \in queue : m.job = j

\* When the object store and the processes do not fail, a job that ended
\* without a result, and that nobody is working on, has left no object.
NoOrphans ==
    \A j \in Jobs :
        /\ StatusOf(j) \in {"queued", "failed", "canceled", "expired", "purged"}
        /\ \A w \in Workers : ~Executing(w, j)
        => object[j] = 0

\* A key that created a job creates no second one while the first exists.
CreateIsIdempotent ==
    \A i, j \in Jobs :
        Exists(i) /\ Exists(j) /\ jobs[i].origin = jobs[j].origin => i = j

\* A queued job is eventually claimed or canceled.
QueuedIsTaken ==
    \A j \in Jobs : StatusOf(j) = "queued" ~> StatusOf(j) # "queued"

\* A running job eventually settles.
RunningSettles ==
    \A j \in Jobs : StatusOf(j) = "running" ~> StatusOf(j) # "running"

\* A result whose time is over is eventually expired, failures included.
DueIsExpired ==
    \A j \in Jobs : j \in Due(clock) ~> StatusOf(j) \in {"expired", "purged"}

=============================================================================
