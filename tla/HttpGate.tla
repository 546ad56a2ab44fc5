------------------------------ MODULE HttpGate ------------------------------
(***************************************************************************)
(* The way of a POST request to its handler (server.go, middleware.go):    *)
(* the chain of the /api/v1 group with its rate limits, authentication,    *)
(* authorization and the idempotency gate, the handler's effect on the     *)
(* database, and the answer kept under the Idempotency-Key for repeats of  *)
(* the request.                                                            *)
(*                                                                         *)
(* An operation stands for the route and the body; authorization and the   *)
(* idempotency gate are enabled in the configuration.  The idempotency     *)
(* manager is a Redis library; it is modelled as the gate uses it: Begin   *)
(* hands the key to one owner for ProcessingTTL, Complete and Fail replace *)
(* the owner's marker by the answer, for ResultTTL or FailureTTL.  Answers *)
(* are abstracted to their status.                                         *)
(***************************************************************************)
EXTENDS Naturals, Sequences

CONSTANTS
    Slots,              \* requests being served at the same time
    None,               \* no slot, key, caller or operation
    Keys,               \* values of the Idempotency-Key header
    Subjects,           \* authenticated callers
    Ops,                \* operations: a route and a body
    Gated,              \* operations whose route is in idempotency.http_paths
    Repeatable,         \* operations that succeed again when repeated (create)
    RequestTimeout,     \* http.request_timeout
    PersistTimeout,     \* the two seconds the gate has to store the answer
    ProcessingTTL,      \* idempotency.processing_ttl
    ResultTTL,          \* idempotency.result_ttl
    FailureTTL,         \* idempotency.failure_ttl
    MaxRequests,        \* bound: requests that arrive
    MaxClock,           \* bound: the clock stops there
    MaxFaults           \* bound: panics, crashes and failures of Redis

ASSUME NoneAssumption == None \notin Slots \cup Keys \cup Subjects \cup Ops
ASSUME RoutesAssumption == Gated \subseteq Ops /\ Repeatable \subseteq Ops
ASSUME TimesAssumption ==
    /\ RequestTimeout \in Nat \ {0} /\ PersistTimeout \in Nat
    /\ ProcessingTTL \in Nat /\ ResultTTL \in Nat \ {0} /\ FailureTTL \in Nat \ {0}

\* The configuration does not check this one: the defaults satisfy it.
ASSUME MarkerOutlivesRequest == ProcessingTTL > RequestTimeout + PersistTimeout

ASSUME GateBoundAssumption == MaxRequests \in Nat /\ MaxClock \in Nat /\ MaxFaults \in Nat

VARIABLES
    slot,               \* [Slots -> the request served there]
    marker,             \* the idempotency manager's record of each key
    done,               \* operations that have taken effect in the database
    permitted,          \* callers the authorization service lets through
    answers,            \* history: what callers were told by handler or gate
    clock,
    requests,
    faults

gateVars == <<slot, marker, done, permitted, answers, clock, requests, faults>>

-----------------------------------------------------------------------------
\* Mutant of Chain: the gate comes before the authorization.
ChainGateFirst == <<"gate", "authz", "handler">>

\* The group's middlewares that read shared state, in the order in which they
\* are installed, and the handler.
Chain == <<"authz", "gate", "handler">>

Statuses == {"ok", "conflict", "error"}

IdleSlot == [stage |-> 0, key |-> None, who |-> None, op |-> None,
             allowed |-> FALSE, acquired |-> FALSE, saving |-> FALSE,
             status |-> "error", arrived |-> 0]

SlotState == [stage : 0 .. Len(Chain),
              key : Keys \cup {None},
              who : Subjects \cup {None},
              op : Ops \cup {None},
              allowed : BOOLEAN,    \* history: was who permitted on arrival?
              acquired : BOOLEAN,   \* Begin returned StateAcquired
              saving : BOOLEAN,     \* the handler has returned
              status : Statuses,
              arrived : Nat]

NoMarker == [state |-> "none", owner |-> None, who |-> None, op |-> None,
             status |-> "error", until |-> 0]

Marker == [state : {"none", "processing", "completed", "failed"},
           owner : Slots \cup {None},
           who : Subjects \cup {None},      \* the fingerprint: who and op
           op : Ops \cup {None},
           status : Statuses, until : Nat]

Answer == [key : Keys \cup {None}, who : Subjects, op : Ops, status : Statuses,
           via : {"handler", "gate"}, allowed : BOOLEAN, at : Nat]

TypeOK ==
    /\ slot \in [Slots -> SlotState]
    /\ marker \in [Keys -> Marker]
    /\ done \subseteq Ops
    /\ permitted \subseteq Subjects
    /\ answers \subseteq Answer
    /\ clock \in Nat /\ requests \in Nat /\ faults \in Nat

Init ==
    /\ slot = [s \in Slots |-> IdleSlot]
    /\ marker = [k \in Keys |-> NoMarker]
    /\ done = {}
    /\ permitted \in SUBSET Subjects
    /\ answers = {}
    /\ clock = 0 /\ requests = 0 /\ faults = 0

Fault == faults < MaxFaults /\ faults' = faults + 1

-----------------------------------------------------------------------------
At(s, stage) == slot[s].stage > 0 /\ ~slot[s].saving /\ Chain[slot[s].stage] = stage

Advance(s) == slot' = [slot EXCEPT ![s].stage = @ + 1]

\* The request is answered, or lost, and its slot is free.
Leave(s) == slot' = [slot EXCEPT ![s] = IdleSlot]

Tell(s, status, via) ==
    answers' = answers \cup {[key |-> slot[s].key, who |-> slot[s].who, op |-> slot[s].op,
                              status |-> status, via |-> via,
                              allowed |-> slot[s].allowed, at |-> clock]}

\* A request has passed the checks in front of the authorization: a valid key,
\* an allowed origin, a JSON content type, the rate limits of its address and
\* route, a credential.  One that has not is answered with an error, changes
\* nothing and is no step.  Timeout has started its deadline.
Arrive(s, k, u, o) ==
    /\ slot[s].stage = 0
    /\ requests < MaxRequests
    /\ requests' = requests + 1
    /\ slot' = [slot EXCEPT ![s] = [stage |-> 1, key |-> k, who |-> u, op |-> o,
                                    allowed |-> u \in permitted, acquired |-> FALSE,
                                    saving |-> FALSE, status |-> "error",
                                    arrived |-> clock]]
    /\ UNCHANGED <<marker, done, permitted, answers, clock, faults>>

\* Authorization, by the decision of the moment and closed when there is none,
\* and the rate limit of the caller.
Authorize(s) ==
    /\ At(s, "authz")
    /\ \/ slot[s].who \in permitted /\ Advance(s)
       \/ Leave(s)
    /\ UNCHANGED <<marker, done, permitted, answers, clock, requests, faults>>

-----------------------------------------------------------------------------
(* IdempotencyExecution *)

Live(k) == marker[k].state # "none" /\ clock < marker[k].until

\* Mutant of SameFingerprint: the subject is left out of the hash.
SameOperation(s, k) == marker[k].op = slot[s].op

\* idempotencyFingerprint: subject, method, route and body.
SameFingerprint(s, k) == marker[k].who = slot[s].who /\ marker[k].op = slot[s].op

Processing(s) == [state |-> "processing", owner |-> s, who |-> slot[s].who,
                  op |-> slot[s].op, status |-> "error", until |-> clock + ProcessingTTL]

GateBypassed(s) ==
    /\ At(s, "gate")
    /\ slot[s].key = None \/ slot[s].op \notin Gated
    /\ Advance(s)
    /\ UNCHANGED <<marker, done, permitted, answers, clock, requests, faults>>

AtGate(s, k) == At(s, "gate") /\ slot[s].key = k /\ slot[s].op \in Gated

\* StateAcquired.
GateAcquired(s, k) ==
    /\ AtGate(s, k)
    /\ ~Live(k)
    /\ marker' = [marker EXCEPT ![k] = Processing(s)]
    /\ slot' = [slot EXCEPT ![s].stage = @ + 1, ![s].acquired = TRUE]
    /\ UNCHANGED <<done, permitted, answers, clock, requests, faults>>

\* StateProcessing and StateConflict: an error, nothing is executed.
GateRefused(s, k) ==
    /\ AtGate(s, k)
    /\ Live(k)
    /\ marker[k].state = "processing" \/ ~SameFingerprint(s, k)
    /\ Leave(s)
    /\ UNCHANGED <<marker, done, permitted, answers, clock, requests, faults>>

\* StateCompleted and StateFailed: the kept answer.
GateReplays(s, k) ==
    /\ AtGate(s, k)
    /\ Live(k)
    /\ marker[k].state \in {"completed", "failed"}
    /\ SameFingerprint(s, k)
    /\ Tell(s, marker[k].status, "gate")
    /\ Leave(s)
    /\ UNCHANGED <<marker, done, permitted, clock, requests, faults>>

\* Begin fails, before or after it took effect: the request ends with 503.
GateUnavailable(s, k) ==
    /\ AtGate(s, k)
    /\ Fault
    /\ \/ UNCHANGED marker
       \/ ~Live(k) /\ marker' = [marker EXCEPT ![k] = [Processing(s) EXCEPT !.owner = None]]
    /\ Leave(s)
    /\ UNCHANGED <<done, permitted, answers, clock, requests>>

\* What the handler does.  An operation takes effect once; repeated, create
\* returns the row it finds and cancel or retry meet a newer version.  It may
\* fail without effect (validation, deadline), or lose a commit's answer.
Executes(o, status) ==
    \/ /\ status = "ok" /\ (o \notin done \/ o \in Repeatable)
       /\ done' = done \cup {o} /\ UNCHANGED faults
    \/ status = "conflict" /\ o \in done \ Repeatable /\ UNCHANGED <<done, faults>>
    \/ status = "error" /\ UNCHANGED <<done, faults>>
    \/ status = "error" /\ done' = done \cup {o} /\ Fault

\* The handler writes its answer; the gate captures it if it holds the key.
Handle(s) ==
    /\ At(s, "handler")
    /\ \E status \in Statuses :
          /\ Executes(slot[s].op, status)
          /\ Tell(s, status, "handler")
          /\ IF slot[s].acquired
             THEN slot' = [slot EXCEPT ![s].saving = TRUE, ![s].status = status]
             ELSE Leave(s)
    /\ UNCHANGED <<marker, permitted, clock, requests>>

\* The handler panics: Recovery answers, the code after c.Next() is skipped.
Panic(s) ==
    /\ At(s, "handler")
    /\ Fault
    /\ done' \in {done, done \cup {slot[s].op}}
    /\ Leave(s)
    /\ UNCHANGED <<marker, permitted, answers, clock, requests>>

\* The answer under the request's fingerprint; errors are kept for less long.
Kept(s) == LET ok == slot[s].status = "ok"
           IN  [state |-> IF ok THEN "completed" ELSE "failed", owner |-> s,
                who |-> slot[s].who, op |-> slot[s].op, status |-> slot[s].status,
                until |-> clock + IF ok THEN ResultTTL ELSE FailureTTL]

\* Mutant of Persist: the key is released instead of keeping the answer.
PersistForgets(s) ==
    /\ slot[s].saving
    /\ marker' = [marker EXCEPT ![slot[s].key] = NoMarker]
    /\ Leave(s)
    /\ UNCHANGED <<done, permitted, answers, clock, requests, faults>>

\* Complete or Fail, by the status of the answer.
Persist(s) ==
    /\ slot[s].saving
    /\ marker' = IF Live(slot[s].key) /\ marker[slot[s].key].owner = s
                 THEN [marker EXCEPT ![slot[s].key] = Kept(s)] ELSE marker
    /\ Leave(s)
    /\ UNCHANGED <<done, permitted, answers, clock, requests, faults>>

\* Complete or Fail returns an error, which is logged.
PersistFails(s) ==
    /\ slot[s].saving
    /\ Fault
    /\ Leave(s)
    /\ UNCHANGED <<marker, done, permitted, answers, clock, requests>>

-----------------------------------------------------------------------------
\* The process dies with a request in it.
Crash(s) ==
    /\ slot[s].stage > 0
    /\ Fault
    /\ Leave(s)
    /\ UNCHANGED <<marker, done, permitted, answers, clock, requests>>

Revoke(u) ==
    /\ u \in permitted
    /\ permitted' = permitted \ {u}
    /\ UNCHANGED <<slot, marker, done, answers, clock, requests, faults>>

\* Mutant of Deadline: nothing limits the handler.
NoDeadline(s) == slot[s].arrived + RequestTimeout + ProcessingTTL

Deadline(s) == slot[s].arrived + RequestTimeout
                 + IF slot[s].saving THEN PersistTimeout ELSE 0

\* Time passes.  Every call of a request is made with the context of Timeout,
\* the last one with that of the gate, so a request ends at its deadline.
Tick ==
    /\ clock < MaxClock
    /\ \A s \in Slots : slot[s].stage > 0 => clock < Deadline(s)
    /\ clock' = clock + 1
    /\ UNCHANGED <<slot, marker, done, permitted, answers, requests, faults>>

Next ==
    \/ \E s \in Slots :
          \/ \E k \in Keys \cup {None}, u \in Subjects, o \in Ops : Arrive(s, k, u, o)
          \/ Authorize(s)
          \/ GateBypassed(s)
          \/ \E k \in Keys : GateAcquired(s, k)
          \/ \E k \in Keys : GateRefused(s, k)
          \/ \E k \in Keys : GateReplays(s, k)
          \/ \E k \in Keys : GateUnavailable(s, k)
          \/ Handle(s)
          \/ Panic(s)
          \/ Persist(s)
          \/ PersistFails(s)
          \/ Crash(s)
    \/ \E u \in Subjects : Revoke(u)
    \/ Tick

Spec == Init /\ [][Next]_gateVars

-----------------------------------------------------------------------------
\* While a request holds its key, no other request is executed under it.
OneExecution ==
    \A s, t \in Slots :
        s # t /\ slot[s].acquired /\ slot[t].acquired => slot[s].key # slot[t].key

\* The gate only replays to a caller what a handler has told the same caller
\* for the same operation under the same key.
ReplayIsGenuine ==
    \A a \in answers : a.via = "gate" =>
        \E h \in answers : /\ h.via = "handler"
                           /\ h.key = a.key /\ h.who = a.who /\ h.op = a.op
                           /\ h.status = a.status

\* Nobody is told the outcome of an operation, by the handler or from the
\* gate's records, who lacked the permission from the moment the request came.
PermittedOnly == \A a \in answers : a.allowed

\* As long as nothing fails, a gated request that has succeeded is reported
\* as a success to every repeat of it until its result is forgotten.
SuccessSticks ==
    faults = 0 =>
        \A a, b \in answers :
            /\ a.via = "handler" /\ a.status = "ok"
            /\ a.key # None /\ a.op \in Gated
            /\ b.key = a.key /\ b.who = a.who /\ b.op = a.op
            /\ a.at < b.at /\ b.at < a.at + ResultTTL
            => b.status = "ok"

=============================================================================
