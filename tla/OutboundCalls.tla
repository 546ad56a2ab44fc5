--------------------------- MODULE OutboundCalls ---------------------------
(***************************************************************************)
(* Calls to other services: the unary gRPC client (grpcclient/client.go)   *)
(* and the HTTP client (outbound/http.go).  Both put a deadline around a   *)
(* circuit breaker around a retry loop around one attempt; every upstream  *)
(* has a breaker of its own, shared by all callers.                        *)
(*                                                                         *)
(* The breaker is the gobreaker library, modelled from the settings the    *)
(* code gives it.  An attempt is one step when it starts and one when it   *)
(* ends; an HTTP response is looked at in a step of its own, between which *)
(* the context may die.  Contents of requests and responses are left out;  *)
(* a response body is an open resource that somebody has to close.         *)
(***************************************************************************)
EXTENDS Naturals, FiniteSets

CONSTANTS
    Upstreams,          \* named clients of the registry and the provider pool
    HttpUpstreams,      \* those made by NewHTTPClient, the others by Dial
    NoUpstream,         \* not an upstream
    Callers,            \* goroutines that make calls
    MaxAttempts,        \* retry.max_attempts
    FailureThreshold,   \* breaker.failure_threshold
    MaxFaults           \* bound: failed attempts, canceled callers, bad paths

ASSUME UpstreamAssumption ==
    /\ HttpUpstreams \subseteq Upstreams
    /\ NoUpstream \notin Upstreams
\* validateClientPolicy refuses a policy without an attempt or a threshold.
ASSUME PolicyAssumption ==
    /\ MaxAttempts \in Nat \ {0}
    /\ FailureThreshold \in Nat \ {0}
ASSUME FaultAssumption == MaxFaults \in Nat

VARIABLES
    breaker,            \* [Upstreams -> Breakers]
    call,               \* [Callers -> Calls]
    strikes,            \* history: [Upstreams -> failed calls in a row], see Struck
    faults              \* faults so far

callVars == <<breaker, call, strikes, faults>>

-----------------------------------------------------------------------------

Breakers == [state : {"closed", "open", "half"},
             failures : Nat,        \* ConsecutiveFailures while closed
             probing : BOOLEAN]     \* MaxRequests = 1 is used up while half open

ClosedBreaker == [state |-> "closed", failures |-> 0, probing |-> FALSE]
OpenBreaker == [state |-> "open", failures |-> 0, probing |-> FALSE]
HalfOpenBreaker == [state |-> "half", failures |-> 0, probing |-> FALSE]

\* What an attempt or a call ends with: ok is every answer that is neither a
\* failure nor an error of the client; refused is any gRPC code that does not
\* speak of the upstream's health; unavailable is Unavailable or
\* ResourceExhausted, or the HTTP status 429, 502, 503 or 504; failed is an
\* HTTP request without a response; canceled and expired are errors of the
\* caller's context; interrupted is the bare context error of a gRPC backoff,
\* which carries no status code; open is the breaker's own refusal.
Outcomes == {"none", "ok", "refused", "unavailable", "failed", "canceled",
             "expired", "interrupted", "open"}

Calls == [pc : {"idle", "sending", "responded", "backoff", "over"},
          upstream : Upstreams \cup {NoUpstream},
          repeatable : BOOLEAN,
          ctx : {"live", "canceled", "expired"},
          attempt : Nat,
          current : BOOLEAN,        \* the breaker is still in the generation
                                    \* that admitted the call
          bodies : Nat,             \* response bodies not closed yet
          given : BOOLEAN,          \* the caller has been given a response
          outcome : Outcomes]

IdleCall == [pc |-> "idle", upstream |-> NoUpstream, repeatable |-> FALSE,
             ctx |-> "live", attempt |-> 0, current |-> FALSE, bodies |-> 0,
             given |-> FALSE, outcome |-> "none"]

CallTypeOK ==
    /\ breaker \in [Upstreams -> Breakers]
    /\ call \in [Callers -> Calls]
    /\ strikes \in [Upstreams -> Nat]
    /\ faults \in Nat

CallInit ==
    /\ breaker = [u \in Upstreams |-> ClosedBreaker]
    /\ call = [c \in Callers |-> IdleCall]
    /\ strikes = [u \in Upstreams |-> 0]
    /\ faults = 0

IsHttp(u) == u \in HttpUpstreams

Fault == faults < MaxFaults /\ faults' = faults + 1

-----------------------------------------------------------------------------
(* The breaker *)

\* The breaker lets the call through, as the one probe when it is half open.
Admits(b) == b.state = "closed" \/ (b.state = "half" /\ ~b.probing)

Admitted(b) == [b EXCEPT !.probing = (b.state = "half")]

\* The failures in IsExcluded: for gRPC the three codes that speak of the
\* upstream, for HTTP every error except the caller's cancelation.  An HTTP
\* response with a retryable status reaches the breaker as a statusError.
CountsAsFailure(u, outcome) ==
    IF IsHttp(u) THEN outcome \in {"unavailable", "failed", "expired"}
    ELSE outcome \in {"unavailable", "expired"}

\* ReadyToTrip while closed; one failure is enough while half open.
AfterFailure(b) ==
    IF b.state = "closed" /\ b.failures + 1 < FailureThreshold
    THEN [b EXCEPT !.failures = @ + 1]
    ELSE OpenBreaker

\* What the breaker may become.  The gRPC client's IsExcluded holds of a nil
\* error too: whether the library asks it about a success, and whether an
\* excluded probe makes room for another one, is left open.
AfterOther(u, b, outcome) ==
    LET success == ClosedBreaker
        excluded == {b, [b EXCEPT !.probing = FALSE]}
    IN  CASE outcome = "ok" /\ IsHttp(u) -> {success}
          [] outcome = "ok" /\ ~IsHttp(u) -> {success} \cup excluded
          [] OTHER -> excluded

Reported(u, b, outcome) ==
    IF CountsAsFailure(u, outcome) THEN {AfterFailure(b)}
    ELSE AfterOther(u, b, outcome)

\* Every change of state starts a new generation: the results of calls
\* admitted before it are ignored.
NewGeneration(u, b) == breaker[u].state # b.state

Outdated(calls, u) ==
    [d \in Callers |-> IF calls[d].upstream = u
                       THEN [calls[d] EXCEPT !.current = FALSE]
                       ELSE calls[d]]

\* The breaker of u becomes b, caller's call becomes next.
Settle(c, u, b, next) ==
    /\ breaker' = [breaker EXCEPT ![u] = b]
    /\ LET calls == [call EXCEPT ![c] = next]
       IN  call' = IF NewGeneration(u, b) THEN Outdated(calls, u) ELSE calls

-----------------------------------------------------------------------------
(* One call *)

UpstreamOf(c) == call[c].upstream

\* retryInterceptor and doWithRetry: one attempt, unless the method may be
\* repeated or the context carries an idempotency key.
Attempts(c) == IF call[c].repeatable THEN MaxAttempts ELSE 1

\* Execute admits the call, or refuses it without an attempt.
Begin(c, u, repeatable) ==
    /\ call[c].pc = "idle"
    /\ LET started == [IdleCall EXCEPT !.upstream = u]
       IN  \/ /\ Admits(breaker[u])
              /\ breaker' = [breaker EXCEPT ![u] = Admitted(@)]
              /\ call' = [call EXCEPT ![c] = [started EXCEPT
                            !.pc = "sending", !.repeatable = repeatable,
                            !.attempt = 1, !.current = TRUE]]
           \/ /\ ~Admits(breaker[u])
              /\ call' = [call EXCEPT ![c] = [started EXCEPT
                            !.pc = "over", !.outcome = "open"]]
              /\ UNCHANGED breaker
    /\ UNCHANGED <<strikes, faults>>

\* History, as far as the threshold: the current calls that have failed since
\* the breaker was last closed by a success and, for HTTP, since the last
\* success of any of them.
Struck(u, b, outcome) ==
    IF outcome \in {"unavailable", "failed", "expired"}
    THEN IF strikes[u] < FailureThreshold THEN strikes[u] + 1 ELSE strikes[u]
    ELSE IF NewGeneration(u, b) \/ (IsHttp(u) /\ outcome = "ok") THEN 0
    ELSE strikes[u]

\* doWithRetry has a response whose body is open.
InHand(c) == call[c].pc = "responded"

One(condition) == IF condition THEN 1 ELSE 0

\* What is left of a call: its outcome, the bodies nobody has closed, and the
\* response in hand, which the caller gets also when its status had made it an
\* error for the breaker (execute unwraps the statusError).
Ended(c, outcome) ==
    [IdleCall EXCEPT !.pc = "over", !.upstream = UpstreamOf(c), !.outcome = outcome,
                     !.bodies = call[c].bodies, !.given = InHand(c)]

\* The loop and Execute return: the breaker learns the outcome of the whole
\* call, and the caller gets it.
Return(c, outcome) ==
    LET u == UpstreamOf(c)
        over == Ended(c, outcome)
    IN  IF call[c].current
        THEN \E b \in Reported(u, breaker[u], outcome) :
                /\ Settle(c, u, b, over)
                /\ strikes' = [strikes EXCEPT ![u] = Struck(u, b, outcome)]
        ELSE /\ call' = [call EXCEPT ![c] = over]
             /\ UNCHANGED <<breaker, strikes>>

\* The call waits; a response in hand has been closed.
Waiting(c) == [call[c] EXCEPT !.pc = "backoff", !.outcome = "none",
                              !.bodies = @ - One(InHand(c))]

\* Mutant of RetryLater: the response that is not good enough stays open.
RetryLaterKeepsBody(c) ==
    /\ call' = [call EXCEPT ![c].pc = "backoff", ![c].outcome = "none"]
    /\ UNCHANGED <<breaker, strikes>>

\* Mutant of RetryLater: retry around breaker, so that every attempt counts.
RetryLaterCounted(c) ==
    IF call[c].current
    THEN /\ Settle(c, UpstreamOf(c), AfterFailure(breaker[UpstreamOf(c)]), Waiting(c))
         /\ UNCHANGED strikes
    ELSE /\ call' = [call EXCEPT ![c] = Waiting(c)]
         /\ UNCHANGED <<breaker, strikes>>

\* Another attempt will be made; a response in hand is drained and closed.
RetryLater(c) ==
    /\ call' = [call EXCEPT ![c] = Waiting(c)]
    /\ UNCHANGED <<breaker, strikes>>

\* What the loop does about an answer: only failures are worth another attempt.
Judge(c, answer) ==
    IF answer \in {"unavailable", "failed"} /\ call[c].attempt < Attempts(c)
    THEN RetryLater(c)
    ELSE Return(c, answer)

\* client.Do returns a response, with an open body.
Respond(c, answer) ==
    /\ IsHttp(UpstreamOf(c)) /\ answer \in {"ok", "unavailable"}
    /\ call' = [call EXCEPT ![c] = [call[c] EXCEPT
                  !.pc = "responded", !.outcome = answer, !.bodies = @ + 1]]
    /\ UNCHANGED <<breaker, strikes>>

\* The upstream answers, well or badly, or cannot be reached.
Answer(c, answer) ==
    /\ call[c].pc = "sending"
    /\ call[c].ctx = "live"
    /\ answer \in {"ok", "unavailable",
                   IF IsHttp(UpstreamOf(c)) THEN "failed" ELSE "refused"}
    /\ IF answer \in {"ok", "refused"} THEN UNCHANGED faults ELSE Fault
    /\ \/ Respond(c, answer)
       \/ (~IsHttp(UpstreamOf(c)) \/ answer = "failed") /\ Judge(c, answer)

\* doWithRetry looks at the response it has, also when the context has died.
Consider(c) ==
    /\ InHand(c)
    /\ Judge(c, call[c].outcome)
    /\ UNCHANGED faults

\* doWithRetry refuses an absolute path, before any attempt but behind the
\* breaker, which counts it as a failure.
RejectPath(c) ==
    /\ call[c].pc = "sending"
    /\ call[c].attempt = 1
    /\ IsHttp(UpstreamOf(c))
    /\ Fault
    /\ Return(c, "failed")

\* The caller goes away.
CallerCancels(c) ==
    /\ call[c].pc \in {"sending", "responded", "backoff"}
    /\ call[c].ctx = "live"
    /\ Fault
    /\ call' = [call EXCEPT ![c].ctx = "canceled"]
    /\ UNCHANGED <<breaker, strikes>>

\* Mutant of Expire: only an HTTP call gets a deadline of its own.
ExpireHttpOnly(c) ==
    /\ IsHttp(UpstreamOf(c))
    /\ call[c].pc \in {"sending", "responded", "backoff"}
    /\ call[c].ctx = "live"
    /\ call' = [call EXCEPT ![c].ctx = "expired"]
    /\ UNCHANGED <<breaker, strikes, faults>>

\* The caller's deadline, or the one timeoutInterceptor has added.  (The
\* timeout of the HTTP client ends one attempt: a failed one.)
Expire(c) ==
    /\ call[c].pc \in {"sending", "responded", "backoff"}
    /\ call[c].ctx = "live"
    /\ call' = [call EXCEPT ![c].ctx = "expired"]
    /\ UNCHANGED <<breaker, strikes, faults>>

\* An attempt under a dead context ends.  Its gRPC code is not retried; HTTP
\* sees an error like any other.
Interrupt(c) ==
    /\ call[c].pc = "sending"
    /\ call[c].ctx # "live"
    /\ IF IsHttp(UpstreamOf(c)) /\ call[c].attempt < Attempts(c)
       THEN RetryLater(c)
       ELSE Return(c, call[c].ctx)
    /\ UNCHANGED faults

\* waitRetry, waitBackoff: the timer fires (even under a dead context, when
\* both are ready), ...
Resume(c) ==
    /\ call[c].pc = "backoff"
    /\ call' = [call EXCEPT ![c].pc = "sending", ![c].attempt = @ + 1]
    /\ UNCHANGED <<breaker, strikes, faults>>

\* ... or the context ends the wait and the call.
Abandon(c) ==
    /\ call[c].pc = "backoff"
    /\ call[c].ctx # "live"
    /\ Return(c, IF IsHttp(UpstreamOf(c)) THEN call[c].ctx ELSE "interrupted")
    /\ UNCHANGED faults

\* The caller has used the result and closed the body it was given, if any.
Release(c) ==
    /\ call[c].pc = "over"
    /\ call' = [call EXCEPT ![c] =
                  [IdleCall EXCEPT !.bodies = call[c].bodies - One(call[c].given)]]
    /\ UNCHANGED <<breaker, strikes, faults>>

\* OpenTimeout has passed.
OpenTimeout(u) ==
    /\ breaker[u].state = "open"
    /\ breaker' = [breaker EXCEPT ![u] = HalfOpenBreaker]
    /\ call' = Outdated(call, u)
    /\ UNCHANGED <<strikes, faults>>

-----------------------------------------------------------------------------

\* The steps of a call that has begun and is not over.
CallStep(c) ==
    \/ \E answer \in Outcomes : Answer(c, answer)
    \/ Consider(c)
    \/ RejectPath(c)
    \/ CallerCancels(c)
    \/ Expire(c)
    \/ Interrupt(c)
    \/ Resume(c)
    \/ Abandon(c)

CallNext ==
    \/ \E c \in Callers :
        \/ \E u \in Upstreams, repeatable \in BOOLEAN : Begin(c, u, repeatable)
        \/ CallStep(c)
        \/ Release(c)
    \/ \E u \in Upstreams : OpenTimeout(u)

CallSpec == CallInit /\ [][CallNext]_callVars

-----------------------------------------------------------------------------

\* Every open response body is in somebody's hands: the retry loop's, while it
\* looks at the response, or those of the caller that was given it.  So nothing
\* stays open behind a backoff, another attempt, a dead context or a failed
\* call, and the response that made the breaker count a failure is not lost on
\* the way (doWithRetry, execute and its statusError).
BodiesOwned ==
    \A c \in Callers : call[c].bodies = One(InHand(c) \/ call[c].given)

\* A request goes out a second time only if its method is one that may be
\* repeated or its caller has set an idempotency key, whatever was lost
\* (retryGRPCMethod, retryableMethod), and never more than MaxAttempts times.
NoBlindRepeat ==
    \A c \in Callers :
        /\ call[c].attempt <= MaxAttempts
        /\ call[c].attempt > 1 => call[c].repeatable

\* A closed breaker opens only after FailureThreshold calls, not attempts, have
\* failed since it was closed, whoever gave up and whatever arrives late from
\* before the last change of state; and if it is an HTTP upstream's, none has
\* succeeded between them.  (The breaker is outside of the retry loop in Dial
\* and in execute.  A gRPC success may leave the count as it is: IsExcluded
\* holds of nil.)
TripsOnDistinctCalls ==
    [][\A u \in Upstreams :
         breaker[u].state = "closed" /\ breaker'[u].state = "open"
            => strikes'[u] >= FailureThreshold]_callVars
=============================================================================
