# Verification of the data export service

TLA+ modules, TLC configurations and TLAPS proofs for the export service in `src/`.
The service accepts export jobs over HTTP and gRPC, queues them through a
transactional outbox and NATS JetStream, lets workers stream rows from a provider
service into an object in a bucket, hands out presigned URLs, and cleans up
expired results. Almost everything that can go wrong in it happens between two
steps of different actors: a client cancels or retries while a worker streams,
the bus redelivers, a replica dies between two transactions, a stream is cut.

## The system

| Part | State it keeps | Operations | Talks to |
| --- | --- | --- | --- |
| Job repository (`export/repository.go`) | `export_jobs`, `export_outbox_events` | one guarded statement per status change, each bumping `version` | database |
| Export service (`export/service.go`) | none | Create, Cancel, Retry, CreateDownloadURL, Get, List | repository, object store, provider catalogue |
| Outbox runtime (`app/export_eventbus.go`) | dispatcher, retention and consumer goroutines | publish requested events, hand them to the worker | outbox table, JetStream, worker |
| Worker (`export/worker.go`) | the run in progress | Process, fail, CleanupExpired, PurgeExpiredMetadata | repository, pipeline, object store |
| Pipeline (`export/pipeline.go`, `formatter.go`) | two goroutines and a pipe | Run | provider, object store |
| Provider client (`export/provider.go`) | connections, one cursor for all picks | Stream, DescribeDataset, ListDatasets | discovery, provider services |
| Object storage (`objectstorage/storage.go`) | the bucket | Put, Delete, PresignDownload | S3 |
| Scheduler (`scheduler/scheduler.go`) | cron entries | runs the two retention jobs in every replica | worker |
| Transports (`transport/http`, `transport/grpc`) | per request | middleware and interceptor chains, handlers | service, Redis, authorization |
| Catalogue (`export/catalog.go`) | none | List, Describe | application service, provider client |
| Outbound clients (`grpcclient`, `outbound`) | one circuit breaker per upstream | calls with deadline, breaker and retry | application service, providers, partners |
| Wiring (`app/app.go`) | the fx lifecycle | start and stop of all parts in order | every part |

What makes each part correct, and hard:

* repository, service, worker and runtime share the job table and the bucket
  without locks: guarded updates have to keep runs, events, objects and URLs
  consistent through cancelation, retry, redelivery, crashes and lost answers;
* the provider client must not double or lose rows when a stream is cut, and must
  not mix up connections when instances move under concurrent calls;
* the pipeline's two goroutines must never publish half a file nor wait for each
  other;
* the HTTP gate must not run a repeated request beside the first one, nor answer
  somebody who may not know;
* every request passes authentication, the tenant check and a verification at
  another service before it may do anything, and every one must be answered even
  when that service is not;
* the goroutines share the breakers: who failed, how often and when must be counted
  rightly whatever is retried, canceled or late;
* a process must stop, or fail to start, without pulling a resource from under a
  task.

`PROJECT.json` lists every part with its status, the hazards with the line where
each bites, and for every definition the lines it models.

## Modules

* **JobLifecycle** is the abstract specification: what a reader of the job table
  and a subscriber of the outbox are promised. A row moves along the status graph
  of the repository's README, every change adds one to its version, and every
  change except the claim and the progress checkpoints is announced by one event
  with the version after the change.
* **ExportJobs** is the engine: the job table, the outbox, the bus, the workers,
  the bucket, the cleaners and the clients in one state. One SQL statement, one
  transaction or one object store call is one step. An object and a checksum are
  the version of the row right after the claim that produced them, which no other
  run of the job shares.
* **RowStream** is `GRPCProvider.Stream`: a dataset read as a stream of batches
  that is cut and resumed from the last cursor.
* **Pipeline** is `Pipeline.Run`: formatter, pipe, uploader and errgroup.
* **HttpGate** is the way of a POST request through the chain of the `/api/v1`
  group: authorization, idempotency gate, handler, and the answer kept for repeats.
* **ProviderPool** is the choice of an instance and the connection cache of the
  provider client under concurrent calls for several datasets.
* **Runtime** is one process: fx's lifecycle hooks, the tasks of its servers and
  the shutdown timeout.
* **OutboundCalls** is a call to another service through the unary gRPC client or
  the HTTP client: deadline, breaker, retry loop, attempt, response body.
* **RequestRules** holds the decisions a request meets as operators, with reference
  definitions next to them: authentication, tenant check, validation of an export
  against the dataset's descriptor, the arithmetic of pages.
* **Requests** composes the two: requests of both transports from arrival to answer,
  the calls they make, the list of jobs and a client that pages through it.
* **MCExportJobs** and **MCHttpGate** add symmetries for TLC, **MCRequests** the
  descriptors and exports.
* **JobLifecycleProofs**, **ExportJobsProofs**, **RowStreamProofs**,
  **PipelineProofs**, **HttpGateProofs**, **ProviderPoolProofs**, **RuntimeProofs**
  and **RequestsProofs** hold the theorems; the last one has those of OutboundCalls
  as well.

ExportJobs refines JobLifecycle. The others zoom into steps of ExportJobs:
RowStream and Pipeline into `streaming` and `uploading`, HttpGate into a client's
operation, Runtime into the process whose death is the engine's crash. Requests is
what the handler behind HttpGate does before and after the engine's step.

### ExportJobs: state and actions

`jobs` is the table (statuses `absent` and `purged` stand for a missing row),
`outbox` the committed events, `published` those the dispatcher has recorded,
`queue` the messages waiting for delivery with their delivery count, `object` the
bucket, `worker` one record per concurrent `Worker.Process` in any replica,
`cleaner` one per replica running the cleanup job, `urls` the download URLs handed
out, `clock` the wall clock, `faults` the failures so far.

A worker goes `idle -> streaming -> uploading -> stored -> idle`; every error goes
to `failing -> persisting -> idle` (`Worker.fail`: delete the object, then the
failure transaction), and a success transaction whose update is refused goes to
`discarding` (the deletion inside the transaction callback). `msg` is the delivery
being handled; `leased` becomes false when AckWait passes. A failure is always a
`Fault`: a database or object store error, a lost answer of a commit, the death of
the process.

Rejected calls (validation, stale version, conflict) change nothing and are not
steps. The repository's `Get` that ends `Cancel` and `Retry` only reads. A job is its
trimmed identifiers: `Cancel` updates by those, but puts the ones it was given into
the event (`service.go:255`), so that with blanks around them the event names a job
no subscriber knows. The model takes clients that send none.

`PromptRetry` separates two environments. When it is FALSE a client retries a
canceled job only after the canceled worker has noticed (it checks with every
batch); when it is TRUE nothing is assumed. The code does not enforce the former:
the findings below are what happens in the latter.

### RowStream: state and actions

`cursors` and `snapshots` describe the provider (which batches carry a cursor,
whether tokens are returned) and are chosen once, in every way. `epoch` is the
version of the provider's data. `cursor`, `token`, `attempt` and `delivered` are
the variables of `streamRows`; `written` is what the consumer callback has put into
the file, with the epoch each batch was read from.

### Pipeline: state and actions

A row is one byte and headers and trailers are one or two, so that limits fall
inside, at the end of and between writes. A csv writer may flush any part of its
buffer, jsonl writes every row, xlsx writes at Close. A write blocks (`writing`)
until the uploader reads or closes its end. `canceled` is the errgroup's context.

### HttpGate: state and actions

A `slot` is a request being served; `stage` is its place in `Chain`. `marker` is
the record the idempotency manager (a Redis library, modelled as `middleware.go`
uses it) keeps for a key: who holds it, the fingerprint, the answer, the time it
lives. Requests refused before the authorization (key syntax, origin, content
type, address and route rate limits, credentials) change nothing and are no steps.
`Authorize` also stands for the caller's rate limit behind it. `Executes` is the
effect of a handler: once per operation, then success again (create) or conflict
(cancel, retry). Authorization and idempotency are enabled; switched off, both
middlewares call the next one.

Time is bounded by the contexts: `Timeout` gives a request its deadline, the gate
two more seconds to store the answer. `MarkerOutlivesRequest` (`processing_ttl`
above both) is an assumption: the defaults have it, the configuration does not
check it.

### ProviderPool: state and actions

`Look` is `client` up to the snapshot of the instances that offer the dataset, `Pick`
the step from the cursor to the mutex (with the endpoint of the snapshot, checked),
`Reuse`, `Dial` and `DialFails` are what it does under the mutex, `Finish` the end of
the call with its report to the discovery. A dataset is the set of instances that
offer it; all of them share `cursor`. `conns` keeps every connection ever made, so
that a leak shows. `Register` and `CoolDown` are the discovery's own.

Because one counter serves all services and datasets (`provider.go:40`, `295`), the
instances of a dataset need not take turns: calls that alternate between two datasets
with two instances each always pick the same one of either. No property speaks of
fairness, and no text of the repository promises it.

### Runtime: state and actions

`Hooks` is the order in which fx has constructed the parts, read off the modules of
`New` and the parameters of the constructors. `StartHook`, `StartFails`, `StopHook`,
`HookStopped`, `Timeout` and `Exit` are fx's lifecycle as the code configures it
(one hook at a time, stop in reverse, rollback of a failed start, no further hook
after the timeout); what a hook does is the code's: servers stop taking tasks and
wait for those they have, the runtime cancels its loops and waits for them,
resources are closed. A server or a consumer that ends with an error is only
logged. The discovery's goroutine is cancelled without being waited for, after the
connection it uses is closed; it serves no task and is left out.

### OutboundCalls: state and actions

`breaker` is the circuit breaker of every upstream (gobreaker, modelled from the
settings the code gives it; where the library's treatment of excluded results is
not visible in the code, both are allowed), `call` the call of every goroutine with
its place in the retry loop, its context, its attempt and the bodies still open.
`Begin` is `Execute` admitting or refusing a call, `Answer`, `RejectPath`, `Interrupt`
and `Abandon` are the ways an attempt or a wait ends, `Resume` the next attempt,
`Return` the way back through the breaker, `Release` the caller that has used the
result. An HTTP response opens a body when it arrives (`Respond`, then `responded`);
`Consider` closes it on the way into another attempt or hands it to the caller
(`given`), who closes it in `Release`; the context may die before each. `strikes` is a
history of its own: the current calls that have failed since a success closed the
breaker, and on an HTTP upstream since any success. It is not the breaker's count, which a
gRPC success may or may not reset. Every change of the
breaker's state starts a new generation, in which results of older calls are not
counted. Breakers and retries are enabled; without a breaker a call goes straight to
the retry loop, with one attempt straight to the upstream.

What reading and modelling the two clients showed, none of it contradicted by a
comment or a test: the deadline that ends a gRPC backoff is returned without a
status code and so not counted; an HTTP path that is not relative counts as a
failure of the upstream; the HTTP client repeats a POST whose context has an
idempotency key without sending that key; the gRPC `IsExcluded` also holds of a
success, so that successes may not reset the count; `provider_client.retry` is not
validated like the registry's policies.

### RequestRules and Requests: state and actions

A credential, a query value and an identifier are classes. `FitsDataset` and
`Entitled` are references: they say what is wanted without the order and the
loops of the code. `Int32` wraps, with `IntLimit` in place of 2^31.

`request` is the request a goroutine serves: its stage (`scope` while `Verify` is
called, `scoped`, `describe` while the provider is asked, `reread` while Cancel or
Retry verify again after their commit) and what was the case when the code
decided. Which operation it is for is chosen when the code first looks, which
keeps the states of all operations together. `Receive` is authentication and
everything up to the verifier, `Verified` its answer; `Read`, `Change`, `Ask`,
`NotDescribed`, `CreateDescribed`, `Describe`, `ServeList`, `ServeCatalog` and
`NoDiscovery` are the operations. `rows` is the list that one filter
selects (status, dataset, time of creation), newest first; requests for other lists
leave it alone. `walk` is a client that reads it page by page, starting anew with
page 1: `owed` are the jobs listed then, `seen` those on its pages, `left` the number of
departures since. A job gets into the list when it is created (`CreateDescribed`) or
when its status becomes the one the filter asks for (`Enters`), at its place in the
order; it leaves it when its status changes or when it is purged (`Leaves`). A job not
listed is one that is yet to be created, has another status or is purged: these are
alike for the reader. Only the changes while the client reads are steps.

Things to know, which the model shows and no text of the repository denies: a
page beyond the int32 product shows an earlier page under its own number or fails;
`total` comes from a query of its own, so a reader that stops by it may miss a
job; a reader of the jobs of one status misses a job for each that changes status
behind it, without any purge; Cancel and Retry may be answered with an outage or a
refusal after their commit; a repeated Create needs the provider even when the job exists;
options of a field are only looked at for texts.

## Runs

| Run | Question | Result |
| --- | --- | --- |
| `engine` | Do results, URLs, events, requests and runs stay consistent with one failure anywhere? | holds |
| `cleanup` | Two cleaning replicas, a failure, more due results than a batch | each result expires once, everything due is expired |
| `progress` | Liveness without failures, retries overtaking canceled runs, and what is left then | queued jobs are taken, running jobs settle, no object is orphaned |
| `stuck_running` | Does a running job settle when something fails? | no: finding |
| `lost_result` | Is an advertised result in the bucket when a retry overtakes? | no: finding |
| `second_create` | Does a create key create one job? | no, after a retry: finding |
| `stream` | Exactly once, complete, one snapshot, fair blame, termination | holds |
| `pipeline` | No partial object, faithful result, limits, no blocked goroutine | holds |
| `gate` | Is a repeated request executed once at a time and answered with its own result, and only to permitted callers? | holds |
| `pool` | Are connections neither leaked nor mixed up, calls not cut without cause? | holds |
| `process` | Does a process stop, or roll back its start, without closing what is in use, and does the stop end? | holds |
| `requests` | Whatever fails, is refused or stays silent: is every request answered, only the entitled served, every body closed, every breaker opened only for cause, and does a reader of a list miss no more than has left it? | holds |

Deadlock checking is off where the system may stop: the engine, the gate, the
pool and the requests when their bounded clocks, versions, requests and failures are used up, the
process when it has exited.

### Bounds

* `MaxRetryVersion`: a row with a larger version is not retried. It allows two to
  three runs of a job, enough for a run to be overtaken by the next one and for
  that one to be canceled as well.
* `MaxCheckpoints`: intermediate progress checkpoints of one run; each only bumps
  the version, and one is enough to make a client's version stale.
* `MaxClock`: reaches past creation, expiry and retention of one result, with TTLs
  of one or two ticks; the presign lifetime of `engine` is longer than a result's,
  so that every URL depends on the cap.
* `MaxFaults`: one. In `engine` it is below `MaxDeliver`, because with as many failing claims as deliveries the bus dead-letters the
  request, as configured.
* `BatchCount` 3, `MaxAttempts` 3, `MaxEpoch` 2 for `stream`: a stream can be cut
  before, between and after batches, and twice resumed on changed data.
* `Pipeline`: up to three batches of at most two rows, limits of four.
* `HttpGate`: three requests of two callers in two slots under one key, lifetimes
  of one to three ticks: a repeat can meet the key free, held, kept and expired.
* `ProviderPool`: two instances, a dataset of both and one of the second only, two
  callers, three endpoints of which one is not allowed, two moves, four picks and
  connections: a caller can hold an endpoint that has moved while another one has
  moved the cursor and reconnected.
* `Requests`: two goroutines, one upstream of each kind, three requests, other
  calls or changes of the list, two faults with `FailureThreshold` 2 and `MaxAttempts` 2: a breaker can
  open, let a probe through and close or open again while another call is in
  flight, and attempts and calls are told apart. `IntLimit` 8, limits 4 and 3 and
  default size 2 with pages up to 5 and sizes up to 7: the product of page and size
  is below, at and beyond the limit, sizes are missing, fitting and too large. Two
  jobs listed, a third that can get between them, and pages of one: page, departure,
  page is a walk that is over and has missed a job (`WalkMissesOnlyForLeft` without its
  right-hand side fails). Seven descriptors and some thirty exports, in all
  combinations.
* `Runtime`: two tasks per server; one is enough for every wait, two show that
  the wait is for all.

### Fairness

* Engine: the dispatcher loop ticks for ever, the consumer takes messages, a
  running handler makes every next call (each has a deadline or returns), the cron
  job fires and time passes. Nothing is assumed of clients or of failures, and
  nothing of the metadata purge.
* RowStream: every call of a stream ends, at the latest with the job's deadline.
* Pipeline: the code between two blocking calls runs, a call with a context
  returns once the context is done, Put returns once its reader fails. Neither the
  provider nor the store owes progress; the deadline comes.
* Runtime: fx goes on, canceled loops end, tasks end (HTTP requests and exports by
  their deadlines, cron jobs after ten minutes, gRPC requests when their calls to
  the database and to clients with timeouts return). The shutdown timeout is not
  assumed to come: `StopEnds` holds without it.
* Requests: a goroutine that can run does (`Handle`), the timer of a gRPC deadline
  fires (`timeoutInterceptor` sets one on every unary call without one), an attempt
  or a wait under a dead context ends, and the loop looks at a response it has. Nothing is assumed of upstreams, of
  clients or of the HTTP client's callers, whose deadline is their own affair.
* HttpGate and ProviderPool are checked for safety only.

## Proofs

All theorems hold for every value of the constants (any number of jobs, workers,
cleaners, keys, failures, batches), from the named ASSUMEs of the modules. Six of the
engine's have a hypothesis on its environment in their statement, explained below.
The invariants `ExecInv`, `PendingInv`, `OwnedInv`, `PipelineInv` and `StickInv` were
checked with TLC on the instances of the runs before they were proved.

### The engine

* `LifecycleEventsAccurate`: the abstract specification implies
  `EventsAreAccurate`. The four conjuncts are inductive together with typing:
  distinct versions need "no event ahead of its row", which every announcing step
  re-establishes by taking the next version. `LifecycleExpiresOnce` adds that the row
  of an expiry event is expired or purged for ever (`ExpiryIsFinal`).
* `TypeCorrect`: typing of the engine. Inductive only with one more fact, that a
  worker that is not idle holds a real message (`TypeInv`).
* `EngineImplementsLifecycle`: every engine step is a lifecycle step of one row or
  leaves status, version and events alone, action by action. `EngineEventsAccurate`
  and `ResultsExpireOnce` carry the two results of the lifecycle over: two cleaners
  that have listed the same row need no lock, because the second update matches none.
* `OneExecutor`, `OnlyTheLastRunPublishes`, `ResultsAreAvailable`, `UrlsAreHonoured`,
  for `PromptRetry = FALSE`: one inductive invariant, `ExecInv`. None of the four is
  inductive alone. `RunOK` says what a busy worker may still believe of its row: it is
  running, with no event since the claim, or canceled; so whoever queues or claims a
  row meets no executor, and a run that finds its row running is the last one.
  `CleanerOK` says that what a cleaner has listed was due then and is due now, hence
  that a deletion concerns a result that is over. `UrlWithinResult` bounds a URL by
  its result. The hypothesis is needed: `lost_result` shows what is lost without it.
* `RequestsArePending`, for `MaxFaults < MaxDeliver`: `PendingInv` strengthens
  `RequestPending` by the version of the request and by its delivery count, which
  never exceeds the number of failures, so that the bus has a delivery left. With as
  many failures as deliveries the bus dead-letters the request, as configured. That a
  new request is not among the published events is taken from `EngineEventsAccurate`.
* `NoObjectIsOrphaned`, for `MaxFaults = 0` and any `PromptRetry`: `OwnedInv` gives
  every object an owner (a result no cleaner is about to expire, or a worker in front
  of its publication or deletion) and says that cleaners only have published rows in
  hand. A deletion that fails is ignored by the worker, hence the hypothesis.

### Stream and pipeline

* `ExactlyOnceInOrder`, `SuccessfulStreamIsComplete`, `ResumedStreamsKeepSnapshot`:
  one inductive invariant (`StreamInv`) that ties the cursor, the position of the
  open stream and the length of the file together: whenever the stream may be
  reopened, either nothing was delivered or the cursor is the number of batches
  written. `BlameGoesToProviders` is an action property: of all steps only the break
  of a stream with a spent budget, or with rows delivered and no cursor, reports a
  failure.
* `PipelineTypes`, `ObjectsAreWhole`, `ResultIsTrue`, `LimitsAreKept`,
  `AllRowsReported`: `PipelineInv` is the balance of the bytes. What the formatter has
  produced is buffered, offered to the pipe or counted as written (`ProgressOK`); what
  the uploader has received differs from what is counted and hashed by the one write
  that was read and has not returned (`BytesAgree`), which is within the limit
  (`PipeOK`); the writer is closed with EOF only by a formatter that was closed without
  an error.

### Transports, calls and process

* `OneExecutionPerKey`, `ReplaysAreGenuine`, `OnlyPermittedCallers`: one inductive
  invariant (`GateInv`). A request that holds its key owns a marker that is alive
  as long as the request's deadline, which is where `MarkerOutlivesRequest` is
  used; a kept answer was told by a handler; a request behind the authorization
  was permitted on arrival, as permissions are only revoked.
* `SuccessIsRemembered`: `StickInv` on top of `GateInv`. A success told at some time is
  about to be kept by a request that holds the key, or kept for `ResultTTL` from then
  or later (`Memory`); whoever reaches the handler under the key of a gated operation
  holds that key (`Gatekept`), and so meets nothing remembered.
* `NoConnectionLeaks`, `CallsGoWhereChecked`, `SteadyCallsAreNotCut`: `PoolInv` adds
  that a kept connection belongs to its instance and that an instance that never
  moved stands in every snapshot taken, and is picked, with its present endpoint.
* `TasksUseOpenResources`, `ExitIsClean`: `RuntimeInv` says that of the started hooks
  only the last may have been stopped and that a server behind it is idle;
  `UsesEarlier` is the one place where the order of the hooks matters. `ExitInv`
  adds what has been closed.
* `BodiesAreOwned`, `BreakersCountCalls`, `RepeatsAreAllowed`: `CallIInv` says that a
  call has an open body exactly while a response is in hand or given, and is given
  one only when it is over; that its attempt is within its allowance; and that a
  closed breaker has counted no more failures than there are strikes. It is needed
  because a trip compares the breaker's own count, which the invariant ties to whole
  calls: whatever resets the strikes resets the count as well, not the other way
  round.
* `ServiceImplementsCalls`: every step of Requests is a step of OutboundCalls or
  leaves its variables alone, so `ServiceOwnsBodies` and `ServiceBreakersCountCalls`
  follow.
* `EntitledOnly`, `WalksMissOnlyForLeft`: `IInv` has three parts.
  `RequestOK` says what a stage implies (past the first checks entitled, past the
  verifier granted); it rests on `ArrivalsEntitled` and `ValidExportsFit`, which
  compare the code's decisions with their references for all inputs. `RowsOK` keeps
  the list in order; no job is in it twice, so that it is no longer than there are
  jobs (`RowsBounded`, by the pigeonhole principle) and offsets are not wrapped.
  `WalkOK` counts what is `Lost`: owed, unseen, and at no place ahead of the offset the
  client will read from. Whoever gets in only moves others back (`EnlistShifts`); a
  departure puts at most one job behind the client, itself or the one that moves up
  to the last place read (`LeavesKeepsWalk`); a page that is not full holds all that
  is left (`PageSize`).

Liveness (`RequestAnswered`, `QueuedIsTaken`, `RunningSettles`, `DueIsExpired`, `StreamReturns`,
`RunReturns`, `StopEnds`) is checked by TLC only: it rests on fairness, which is out of
the prover's reach. Every other property that a passing run checks is also a theorem.

## Findings

1. `stuck_running`: after one failure following the claim, the row stays running.
2. `lost_result`: a canceled run deletes the object of the retry that succeeded. For
   the same reason (only the status is compared) it may publish its own result in
   place of the retry's; `CanceledRunNeverPublishes` holds in `engine`, where no
   retry overtakes, and not otherwise.
3. `second_create`: a retry frees the key of the original create request.

## Plan

1. Done: JobLifecycle, ExportJobs, RowStream, Pipeline, HttpGate, ProviderPool,
   Runtime, OutboundCalls, RequestRules, Requests, and a theorem for every invariant
   and action property of the passing runs.
2. The safety facts the liveness properties rest on (attempts stay within their
   budget, a blocked write always has a reader that reads or closes) as theorems.
3. A composition of RowStream and Pipeline as refinements of the engine's
   `streaming` and `uploading` steps.

## Not modelled

The gRPC server has the idempotency gate and the authorization of HttpGate in the
same order and is not modelled a second time; its stream interceptors wrap no method
of this service. See the `not_modelled` and `partly` components of `PROJECT.json`: generated API
documentation, observability, configuration loading, migrations, health probes, the
distributed lock of the sample job and the token libraries. The rate limiter, the
idempotency manager, the authorization service, the service registry, JetStream, S3
and fx are external and modelled as the code uses them. The contents of rows, files
and messages are abstracted to identities everywhere.
