--------------------------- MODULE RequestsProofs ---------------------------
(***************************************************************************)
(* What OutboundCalls and the requests that make the calls promise, for    *)
(* every number of goroutines and requests, every policy of retries and    *)
(* breakers, every page, every export and every descriptor.                *)
(***************************************************************************)
EXTENDS Requests, FiniteSetTheorems, TLAPS

-----------------------------------------------------------------------------
(* OutboundCalls, for every number of callers, upstreams and attempts *)

\* A call that has begun knows its upstream, has the body of the response in
\* hand or given and no other, and is repeated only if it may be.
CallOK(k) ==
    /\ k.pc # "idle" => k.upstream \in Upstreams
    /\ k.bodies = One(k.pc = "responded" \/ k.given)
    /\ k.given => k.pc = "over"
    /\ k.attempt <= MaxAttempts
    /\ k.pc \in {"sending", "responded", "backoff"} => k.attempt >= 1
    /\ k.attempt > 1 => k.repeatable
    /\ k.pc = "backoff" => k.repeatable /\ k.attempt < MaxAttempts

\* A breaker counts below its threshold, and no more than n calls.
CountOK(b, n) ==
    /\ b.failures <= n
    /\ b.state = "closed" => b.failures < FailureThreshold
    /\ b.state # "closed" => b.failures = 0

CallIInv ==
    /\ CallTypeOK
    /\ \A c \in Callers : CallOK(call[c])
    /\ \A u \in Upstreams : CountOK(breaker[u], strikes[u])

\* The step from b to b2, with n2 calls counted then, is one that
\* TripsOnDistinctCalls allows.
TripOK(b, b2, n2) ==
    b.state = "closed" /\ b2.state = "open" => n2 >= FailureThreshold

TripStep == \A u \in Upstreams : TripOK(breaker[u], breaker'[u], strikes'[u])

-----------------------------------------------------------------------------
(* Breakers *)

LEMMA BreakerValues ==
    /\ ClosedBreaker \in Breakers
    /\ OpenBreaker \in Breakers
    /\ HalfOpenBreaker \in Breakers
    /\ \A n \in Nat : /\ CountOK(ClosedBreaker, n)
                      /\ CountOK(OpenBreaker, n)
                      /\ CountOK(HalfOpenBreaker, n)
BY PolicyAssumption
DEF Breakers, ClosedBreaker, OpenBreaker, HalfOpenBreaker, CountOK

\* One more failure: counted once, and enough of them were counted if it trips.
LEMMA FailureCounted ==
    ASSUME NEW u \in Upstreams, NEW outcome, CountsAsFailure(u, outcome),
           breaker[u] \in Breakers, strikes[u] \in Nat, CountOK(breaker[u], strikes[u])
    PROVE  /\ AfterFailure(breaker[u]) \in Breakers
           /\ \A b : /\ Struck(u, b, outcome) \in Nat
                     /\ CountOK(AfterFailure(breaker[u]), Struck(u, b, outcome))
                     /\ TripOK(breaker[u], AfterFailure(breaker[u]), Struck(u, b, outcome))
<1> DEFINE b == breaker[u]
           n == strikes[u]
           m == IF n < FailureThreshold THEN n + 1 ELSE n
<1>0. \A x : Struck(u, x, outcome) = m
  BY DEF Struck, CountsAsFailure
<1>1. m \in Nat /\ m >= n /\ (n < FailureThreshold => m = n + 1)
  BY PolicyAssumption
<1>2. b.failures \in Nat /\ b \in Breakers
  BY DEF Breakers
<1>3. CASE b.state = "closed" /\ b.failures + 1 < FailureThreshold
  <2> DEFINE b2 == [b EXCEPT !.failures = @ + 1]
  <2>1. AfterFailure(b) = b2
    BY <1>3 DEF AfterFailure
  <2>2. b2 \in Breakers /\ b2.state = b.state /\ b2.failures = b.failures + 1
    BY <1>2 DEF Breakers
  <2>3. b.failures + 1 <= m
    BY <1>1, <1>2, <1>3, PolicyAssumption DEF CountOK
  <2> HIDE DEF m
  <2>4. CountOK(b2, m)
    BY <2>2, <2>3, <1>3 DEF CountOK
  <2>5. TripOK(b, b2, m)
    BY <2>2, <1>3 DEF TripOK
  <2> QED BY <1>0, <1>1, <2>1, <2>2, <2>4, <2>5
<1>4. CASE ~(b.state = "closed" /\ b.failures + 1 < FailureThreshold)
  <2>1. AfterFailure(b) = OpenBreaker
    BY <1>4 DEF AfterFailure
  <2>2. b.state = "closed" => m >= FailureThreshold
    BY <1>1, <1>2, <1>4, PolicyAssumption DEF CountOK
  <2> HIDE DEF m
  <2>3. TripOK(b, OpenBreaker, m)
    BY <2>2 DEF TripOK
  <2> QED BY <1>0, <1>1, <2>1, <2>3, BreakerValues
<1> QED BY <1>3, <1>4

\* Any other result never opens a breaker; the history is forgotten only with
\* the breaker's own count.
LEMMA OtherCounted ==
    ASSUME NEW u \in Upstreams, NEW outcome, NEW b \in AfterOther(u, breaker[u], outcome),
           breaker[u] \in Breakers, strikes[u] \in Nat, CountOK(breaker[u], strikes[u])
    PROVE  /\ b \in Breakers
           /\ b.state = "open" => breaker[u].state = "open"
           /\ Struck(u, b, outcome) \in Nat
           /\ CountOK(b, Struck(u, b, outcome))
<1> DEFINE old == breaker[u]
           b3 == [old EXCEPT !.probing = FALSE]
           n == Struck(u, b, outcome)
<1>1. b3 \in Breakers /\ b3.state = old.state /\ b3.failures = old.failures
  BY DEF Breakers
<1>2. b \in {ClosedBreaker, old, b3}
  BY DEF AfterOther
<1>3. n \in Nat
  BY PolicyAssumption DEF Struck
<1>4. CASE b = ClosedBreaker
  BY <1>3, <1>4, BreakerValues DEF ClosedBreaker
<1>5. CASE b # ClosedBreaker
  <2>1. b \in Breakers /\ b.state = old.state /\ b.failures = old.failures
    BY <1>1, <1>2, <1>5
  <2>2. ~(IsHttp(u) /\ outcome = "ok")
    BY <1>5 DEF AfterOther
  <2>3. n >= strikes[u]
    BY <2>1, <2>2, PolicyAssumption DEF Struck, NewGeneration
  <2>4. old.failures \in Nat
    BY DEF Breakers
  <2> HIDE DEF n
  <2>5. CountOK(b, n)
    BY <1>3, <2>1, <2>3, <2>4 DEF CountOK
  <2> QED BY <1>3, <2>1, <2>5 DEF n
<1> QED BY <1>4, <1>5

-----------------------------------------------------------------------------
(* Calls *)

LEMMA IdleValue == IdleCall \in Calls /\ CallOK(IdleCall)
BY UpstreamAssumption, PolicyAssumption DEF IdleCall, Calls, CallOK, Outcomes, One

\* A new generation of the breaker changes nothing else about the calls.
LEMMA OutdatedKeeps ==
    ASSUME NEW calls \in [Callers -> Calls], NEW u,
           \A c \in Callers : CallOK(calls[c])
    PROVE  /\ Outdated(calls, u) \in [Callers -> Calls]
           /\ \A c \in Callers : CallOK(Outdated(calls, u)[c])
<1> DEFINE mark(c) == [calls[c] EXCEPT !.current = FALSE]
<1>1. ASSUME NEW c \in Callers
      PROVE  mark(c) \in Calls /\ CallOK(mark(c))
  <2>1. calls[c] \in Calls /\ CallOK(calls[c])
    OBVIOUS
  <2>2. mark(c) \in Calls
    BY <2>1 DEF Calls
  <2>3. /\ mark(c).pc = calls[c].pc
        /\ mark(c).upstream = calls[c].upstream
        /\ mark(c).bodies = calls[c].bodies
        /\ mark(c).given = calls[c].given
        /\ mark(c).attempt = calls[c].attempt
        /\ mark(c).repeatable = calls[c].repeatable
    BY <2>1 DEF Calls
  <2>4. CallOK(mark(c))
    BY <2>1, <2>3 DEF CallOK
  <2> QED BY <2>2, <2>4
<1>2. \A c \in Callers : Outdated(calls, u)[c] \in {calls[c], mark(c)}
  BY DEF Outdated
<1>3. \A c \in Callers : Outdated(calls, u)[c] \in Calls /\ CallOK(Outdated(calls, u)[c])
  BY <1>1, <1>2
<1> QED BY <1>3 DEF Outdated

\* What is left of a call, with the body of the response it had in hand.
LEMMA EndedValue ==
    ASSUME CallIInv, NEW c \in Callers, call[c].pc \in {"sending", "responded", "backoff"},
           NEW outcome \in Outcomes
    PROVE  /\ Ended(c, outcome) \in Calls
           /\ CallOK(Ended(c, outcome))
           /\ UpstreamOf(c) \in Upstreams
<1> DEFINE given == InHand(c)
           bodies == call[c].bodies
<1>1. call[c] \in Calls /\ CallOK(call[c])
  BY DEF CallIInv, CallTypeOK
<1>2. UpstreamOf(c) \in Upstreams /\ ~call[c].given
  BY <1>1 DEF CallOK, UpstreamOf
<1>3. given \in BOOLEAN
  BY DEF InHand
<1>4. bodies = One(given) /\ bodies \in Nat
  BY <1>1, <1>2 DEF CallOK, InHand, One
<1> HIDE DEF given, bodies
<1>5. IdleCall \in Calls /\ IdleCall.attempt = 0
  BY IdleValue DEF IdleCall
<1> DEFINE k1 == [IdleCall EXCEPT !.pc = "over"]
           k2 == [k1 EXCEPT !.upstream = UpstreamOf(c)]
           k3 == [k2 EXCEPT !.outcome = outcome]
           k4 == [k3 EXCEPT !.bodies = bodies]
           k == [k4 EXCEPT !.given = given]
<1>6. k1 \in Calls /\ k1.pc = "over" /\ k1.attempt = 0
  BY <1>5 DEF Calls
<1>7. k2 \in Calls /\ k2.pc = "over" /\ k2.attempt = 0 /\ k2.upstream = UpstreamOf(c)
  BY <1>2, <1>6 DEF Calls
<1>8. k3 \in Calls /\ k3.pc = "over" /\ k3.attempt = 0 /\ k3.upstream = UpstreamOf(c)
  BY <1>7 DEF Calls
<1>9. /\ k4 \in Calls /\ k4.pc = "over" /\ k4.attempt = 0 /\ k4.upstream = UpstreamOf(c)
      /\ k4.bodies = bodies
  BY <1>4, <1>8 DEF Calls
<1>10. Ended(c, outcome) = k
  BY DEF Ended, given, bodies
<1> HIDE DEF k1, k2, k3, k4
<1>11. /\ k \in Calls /\ k.pc = "over" /\ k.attempt = 0 /\ k.upstream = UpstreamOf(c)
       /\ k.bodies = bodies /\ k.given = given
  BY <1>3, <1>9 DEF Calls
<1> HIDE DEF k
<1>12. k.bodies = One(k.pc = "responded" \/ k.given)
  BY <1>3, <1>4, <1>11 DEF One
<1>13. CallOK(k)
  BY <1>2, <1>11, <1>12, PolicyAssumption DEF CallOK
<1> QED BY <1>2, <1>10, <1>11, <1>13

\* A call c that goes on or ends as k, with the breaker of its upstream u
\* becoming b and n failed calls counted, keeps everything.
LEMMA SettleKeeps ==
    ASSUME CallIInv, NEW c \in Callers, NEW u \in Upstreams, NEW b \in Breakers,
           NEW k \in Calls, CallOK(k), NEW n \in Nat, CountOK(b, n),
           TripOK(breaker[u], b, n),
           Settle(c, u, b, k), strikes' = [strikes EXCEPT ![u] = n], faults' \in Nat
    PROVE  CallIInv' /\ TripStep
<1> DEFINE calls == [call EXCEPT ![c] = k]
<1>1. calls \in [Callers -> Calls] /\ \A d \in Callers : CallOK(calls[d])
  BY DEF CallIInv, CallTypeOK
<1>2. call' \in [Callers -> Calls] /\ \A d \in Callers : CallOK(call'[d])
  <2>1. call' = Outdated(calls, u) \/ call' = calls
    BY DEF Settle
  <2> QED BY <1>1, <2>1, OutdatedKeeps
<1>3. /\ breaker' \in [Upstreams -> Breakers]
      /\ strikes' \in [Upstreams -> Nat]
      /\ \A w \in Upstreams : CountOK(breaker'[w], strikes'[w])
  BY DEF CallIInv, CallTypeOK, Settle
<1>4. TripStep
  <2> SUFFICES ASSUME NEW w \in Upstreams
               PROVE  TripOK(breaker[w], breaker'[w], strikes'[w])
    BY DEF TripStep
  <2>1. CASE w = u
    BY <2>1 DEF Settle, CallIInv, CallTypeOK
  <2>2. CASE w # u
    BY <2>2 DEF Settle, CallIInv, CallTypeOK, TripOK
  <2> QED BY <2>1, <2>2
<1> QED BY <1>2, <1>3, <1>4 DEF CallIInv, CallTypeOK

\* A call that changes without its breaker keeps everything.
LEMMA CallOnly ==
    ASSUME CallIInv, NEW c \in Callers, NEW k \in Calls, CallOK(k),
           call' = [call EXCEPT ![c] = k], UNCHANGED <<breaker, strikes>>,
           faults' \in Nat
    PROVE  CallIInv' /\ TripStep
<1>1. call' \in [Callers -> Calls] /\ \A d \in Callers : CallOK(call'[d])
  BY DEF CallIInv, CallTypeOK
<1>2. CallIInv'
  BY <1>1 DEF CallIInv, CallTypeOK
<1>3. TripStep
  BY DEF TripStep, TripOK
<1> QED BY <1>2, <1>3

\* The end of a call keeps everything.
LEMMA ReturnKeeps ==
    ASSUME CallIInv, NEW c \in Callers, call[c].pc \in {"sending", "responded", "backoff"},
           NEW outcome \in Outcomes, Return(c, outcome), faults' \in Nat
    PROVE  CallIInv' /\ TripStep
<1> DEFINE u == UpstreamOf(c)
           over == Ended(c, outcome)
<1>1. over \in Calls /\ CallOK(over) /\ u \in Upstreams
  BY EndedValue
<1>2. breaker[u] \in Breakers /\ strikes[u] \in Nat /\ CountOK(breaker[u], strikes[u])
  BY <1>1 DEF CallIInv, CallTypeOK
<1>3. CASE call[c].current
  <2>1. PICK b \in Reported(u, breaker[u], outcome) :
            /\ Settle(c, u, b, over)
            /\ strikes' = [strikes EXCEPT ![u] = Struck(u, b, outcome)]
    BY <1>3 DEF Return
  <2> DEFINE n == Struck(u, b, outcome)
  <2>2. b \in Breakers /\ n \in Nat /\ CountOK(b, n) /\ TripOK(breaker[u], b, n)
    <3>1. CASE CountsAsFailure(u, outcome)
      <4>1. b = AfterFailure(breaker[u])
        BY <2>1, <3>1 DEF Reported
      <4> QED BY <4>1, <1>1, <1>2, <3>1, FailureCounted
    <3>2. CASE ~CountsAsFailure(u, outcome)
      <4>1. b \in AfterOther(u, breaker[u], outcome)
        BY <2>1, <3>2 DEF Reported
      <4>2. /\ b \in Breakers /\ n \in Nat
            /\ b.state = "open" => breaker[u].state = "open"
            /\ CountOK(b, n)
        BY <4>1, <1>1, <1>2, OtherCounted
      <4>3. TripOK(breaker[u], b, n)
        BY <4>2 DEF TripOK
      <4> QED BY <4>2, <4>3
    <3> QED BY <3>1, <3>2
  <2> HIDE DEF u, over
  <2>3. strikes' = [strikes EXCEPT ![u] = n]
    BY <2>1
  <2> HIDE DEF n
  <2> QED BY <1>1, <2>1, <2>2, <2>3, SettleKeeps
<1>4. CASE ~call[c].current
  <2>1. call' = [call EXCEPT ![c] = over] /\ UNCHANGED <<breaker, strikes>>
    BY <1>4 DEF Return
  <2> HIDE DEF u, over
  <2> QED BY <1>1, <2>1, CallOnly
<1> QED BY <1>3, <1>4

-----------------------------------------------------------------------------
(* Steps *)

LEMMA FaultCounted == ASSUME faults \in Nat, Fault PROVE faults' \in Nat
BY DEF Fault

LEMMA BeginKeeps ==
    ASSUME CallIInv, NEW c \in Callers, NEW u \in Upstreams, NEW repeatable \in BOOLEAN,
           Begin(c, u, repeatable)
    PROVE  CallIInv' /\ TripStep
<1> DEFINE started == [IdleCall EXCEPT !.upstream = u]
<1>1. IdleCall \in Calls /\ IdleCall.attempt = 0 /\ IdleCall.bodies = 0 /\ IdleCall.given = FALSE
  BY IdleValue DEF IdleCall
<1>2. started \in Calls /\ started.upstream = u /\ started.attempt = 0 /\ started.bodies = 0 /\ started.given = FALSE
  BY <1>1 DEF Calls
<1> HIDE DEF started
<1>3. CASE Admits(breaker[u])
  <2> DEFINE k1 == [started EXCEPT !.pc = "sending"]
             k2 == [k1 EXCEPT !.repeatable = repeatable]
             k3 == [k2 EXCEPT !.attempt = 1]
             k4 == [k3 EXCEPT !.current = TRUE]
             b == Admitted(breaker[u])
  <2>1. k1 \in Calls /\ k1.upstream = u /\ k1.bodies = 0 /\ k1.given = FALSE /\ k1.pc = "sending"
    BY <1>2 DEF Calls
  <2>2. k2 \in Calls /\ k2.upstream = u /\ k2.bodies = 0 /\ k2.given = FALSE /\ k2.pc = "sending"
    BY <2>1 DEF Calls
  <2>3. k3 \in Calls /\ k3.upstream = u /\ k3.bodies = 0 /\ k3.given = FALSE /\ k3.pc = "sending" /\ k3.attempt = 1
    BY <2>2 DEF Calls
  <2>4. k4 \in Calls /\ k4.upstream = u /\ k4.bodies = 0 /\ k4.given = FALSE /\ k4.pc = "sending" /\ k4.attempt = 1
    BY <2>3 DEF Calls
  <2>5. breaker' = [breaker EXCEPT ![u] = b] /\ call' = [call EXCEPT ![c] = k4]
    BY <1>3 DEF Begin, started
  <2> HIDE DEF k1, k2, k3, k4
  <2>6. CallOK(k4)
    BY <2>4, PolicyAssumption DEF CallOK, One
  <2>7. /\ b \in Breakers /\ b.state = breaker[u].state
        /\ b.failures = breaker[u].failures
    BY DEF Admitted, Breakers, CallIInv, CallTypeOK
  <2> HIDE DEF b
  <2>8. call' \in [Callers -> Calls] /\ \A d \in Callers : CallOK(call'[d])
    BY <2>4, <2>5, <2>6 DEF CallIInv, CallTypeOK
  <2>9. /\ breaker' \in [Upstreams -> Breakers]
        /\ \A w \in Upstreams : /\ breaker'[w].state = breaker[w].state
                                 /\ breaker'[w].failures = breaker[w].failures
    BY <2>5, <2>7 DEF CallIInv, CallTypeOK
  <2>10. \A w \in Upstreams : CountOK(breaker'[w], strikes'[w])
    BY <2>9 DEF CallIInv, CountOK, Begin
  <2>11. TripStep
    BY <2>9 DEF TripStep, TripOK
  <2> QED BY <2>8, <2>9, <2>10, <2>11 DEF CallIInv, CallTypeOK, Begin
<1>4. CASE ~Admits(breaker[u])
  <2> DEFINE k1 == [started EXCEPT !.pc = "over"]
             k2 == [k1 EXCEPT !.outcome = "open"]
  <2>1. k1 \in Calls /\ k1.upstream = u /\ k1.bodies = 0 /\ k1.given = FALSE /\ k1.pc = "over" /\ k1.attempt = 0
    BY <1>2 DEF Calls
  <2>2. /\ k2 \in Calls /\ k2.upstream = u /\ k2.bodies = 0 /\ k2.given = FALSE /\ k2.pc = "over" /\ k2.attempt = 0
        /\ k2.outcome = "open"
    BY <2>1 DEF Calls, Outcomes
  <2>3. call' = [call EXCEPT ![c] = k2] /\ UNCHANGED <<breaker, strikes, faults>>
    BY <1>4 DEF Begin, started
  <2> HIDE DEF k1, k2
  <2>4. CallOK(k2)
    BY <2>2, PolicyAssumption DEF CallOK, One
  <2>5. faults' \in Nat
    BY <2>3 DEF CallIInv, CallTypeOK
  <2> QED BY <2>2, <2>3, <2>4, <2>5, CallOnly
<1> QED BY <1>3, <1>4

\* A response in hand is closed before the wait.
LEMMA RetryLaterKeeps ==
    ASSUME CallIInv, NEW c \in Callers, call[c].pc \in {"sending", "responded"},
           call[c].attempt < Attempts(c), RetryLater(c), faults' \in Nat
    PROVE  CallIInv' /\ TripStep
<1> DEFINE left == call[c].bodies - One(InHand(c))
           k1 == [call[c] EXCEPT !.pc = "backoff"]
           k2 == [k1 EXCEPT !.outcome = "none"]
           k == [k2 EXCEPT !.bodies = left]
<1>1. call[c] \in Calls /\ CallOK(call[c])
  BY DEF CallIInv, CallTypeOK
<1>2. ~call[c].given
  BY <1>1 DEF CallOK
<1>3. left = 0
  BY <1>1, <1>2 DEF CallOK, InHand, One
<1>4. /\ k1 \in Calls /\ k1.pc = "backoff" /\ k1.upstream = call[c].upstream
      /\ k1.bodies = call[c].bodies /\ k1.attempt = call[c].attempt
      /\ k1.repeatable = call[c].repeatable /\ k1.given = call[c].given
  BY <1>1 DEF Calls
<1>5. /\ k2 \in Calls /\ k2.pc = "backoff" /\ k2.upstream = call[c].upstream
      /\ k2.bodies = call[c].bodies /\ k2.attempt = call[c].attempt
      /\ k2.repeatable = call[c].repeatable /\ k2.given = call[c].given
  BY <1>4 DEF Calls, Outcomes
<1>6. Waiting(c) = k
  BY <1>1, <1>4, <1>5 DEF Waiting, Calls
<1>7. call' = [call EXCEPT ![c] = k] /\ UNCHANGED <<breaker, strikes>>
  BY <1>6 DEF RetryLater
<1> HIDE DEF k1, k2, left
<1>8. /\ k \in Calls /\ k.pc = "backoff" /\ k.upstream = call[c].upstream
      /\ k.bodies = 0 /\ k.attempt = call[c].attempt
      /\ k.repeatable = call[c].repeatable /\ k.given = call[c].given /\ k.attempt \in Nat
  BY <1>1, <1>3, <1>5 DEF Calls
<1> HIDE DEF k
<1>9. ASSUME ~call[c].repeatable PROVE FALSE
  <2>1. Attempts(c) = 1 /\ call[c].attempt = 0
    BY <1>1, <1>9 DEF Attempts, Calls
  <2> QED BY <2>1, <1>1 DEF CallOK
<1>10. call[c].attempt < MaxAttempts
  BY <1>9 DEF Attempts
<1>11. CallOK(k)
  BY <1>1, <1>2, <1>8, <1>9, <1>10 DEF CallOK, One
<1> QED BY <1>7, <1>8, <1>11, CallOnly

LEMMA JudgeKeeps ==
    ASSUME CallIInv, NEW c \in Callers, call[c].pc \in {"sending", "responded"},
           NEW answer \in Outcomes, Judge(c, answer), faults' \in Nat
    PROVE  CallIInv' /\ TripStep
<1>1. CASE answer \in {"unavailable", "failed"} /\ call[c].attempt < Attempts(c)
  BY <1>1, RetryLaterKeeps DEF Judge
<1>2. CASE ~(answer \in {"unavailable", "failed"} /\ call[c].attempt < Attempts(c))
  BY <1>2, ReturnKeeps DEF Judge
<1> QED BY <1>1, <1>2

\* A response opens a body, which is then in hand.
LEMMA RespondKeeps ==
    ASSUME CallIInv, NEW c \in Callers, call[c].pc = "sending",
           NEW answer, Respond(c, answer), faults' \in Nat
    PROVE  CallIInv' /\ TripStep
<1> DEFINE opened == call[c].bodies + 1
           k1 == [call[c] EXCEPT !.pc = "responded"]
           k2 == [k1 EXCEPT !.outcome = answer]
           k == [k2 EXCEPT !.bodies = opened]
<1>1. call[c] \in Calls /\ CallOK(call[c]) /\ answer \in {"ok", "unavailable"}
  BY DEF CallIInv, CallTypeOK, Respond
<1>2. ~call[c].given
  BY <1>1 DEF CallOK
<1>3. opened = 1
  BY <1>1, <1>2 DEF CallOK, One
<1>4. /\ k1 \in Calls /\ k1.pc = "responded" /\ k1.upstream = call[c].upstream
      /\ k1.bodies = call[c].bodies /\ k1.attempt = call[c].attempt
      /\ k1.repeatable = call[c].repeatable /\ k1.given = call[c].given
  BY <1>1 DEF Calls
<1>5. /\ k2 \in Calls /\ k2.pc = "responded" /\ k2.upstream = call[c].upstream
      /\ k2.bodies = call[c].bodies /\ k2.attempt = call[c].attempt
      /\ k2.repeatable = call[c].repeatable /\ k2.given = call[c].given
  BY <1>1, <1>4 DEF Calls, Outcomes
<1>6. [call[c] EXCEPT !.pc = "responded", !.outcome = answer, !.bodies = @ + 1] = k
  BY <1>1, <1>4, <1>5 DEF Calls
<1>7. call' = [call EXCEPT ![c] = k] /\ UNCHANGED <<breaker, strikes>>
  BY <1>6 DEF Respond
<1> HIDE DEF k1, k2, opened
<1>8. /\ k \in Calls /\ k.pc = "responded" /\ k.upstream = call[c].upstream
      /\ k.bodies = 1 /\ k.attempt = call[c].attempt
      /\ k.repeatable = call[c].repeatable /\ k.given = call[c].given
  BY <1>1, <1>3, <1>5 DEF Calls
<1> HIDE DEF k
<1>9. CallOK(k)
  BY <1>1, <1>2, <1>8 DEF CallOK, One
<1> QED BY <1>7, <1>8, <1>9, CallOnly

LEMMA AnswerKeeps ==
    ASSUME CallIInv, NEW c \in Callers, NEW answer \in Outcomes, Answer(c, answer)
    PROVE  CallIInv' /\ TripStep
<1>1. faults' \in Nat /\ call[c].pc = "sending"
  BY FaultCounted DEF Answer, CallIInv, CallTypeOK
<1>2. CASE Respond(c, answer)
  BY <1>1, <1>2, RespondKeeps
<1>3. CASE Judge(c, answer)
  BY <1>1, <1>3, JudgeKeeps
<1> QED BY <1>2, <1>3 DEF Answer

LEMMA ConsiderKeeps ==
    ASSUME CallIInv, NEW c \in Callers, Consider(c)
    PROVE  CallIInv' /\ TripStep
<1>1. faults' \in Nat /\ call[c].pc = "responded" /\ call[c].outcome \in Outcomes
  BY DEF Consider, InHand, CallIInv, CallTypeOK, Calls
<1>2. Judge(c, call[c].outcome)
  BY DEF Consider
<1> QED BY <1>1, <1>2, JudgeKeeps

LEMMA RejectPathKeeps ==
    ASSUME CallIInv, NEW c \in Callers, RejectPath(c)
    PROVE  CallIInv' /\ TripStep
<1>1. faults' \in Nat
  BY FaultCounted DEF RejectPath, CallIInv, CallTypeOK
<1>2. "failed" \in Outcomes /\ call[c].pc = "sending" /\ Return(c, "failed")
  BY DEF RejectPath, Outcomes
<1> QED BY <1>1, <1>2, ReturnKeeps

\* The end of the caller's context only marks the call.
LEMMA ContextKeeps ==
    ASSUME CallIInv, NEW c \in Callers, NEW ctx \in {"canceled", "expired"},
           call' = [call EXCEPT ![c].ctx = ctx],
           UNCHANGED <<breaker, strikes>>, faults' \in Nat
    PROVE  CallIInv' /\ TripStep
<1> DEFINE k == [call[c] EXCEPT !.ctx = ctx]
<1>1. call[c] \in Calls /\ CallOK(call[c])
  BY DEF CallIInv, CallTypeOK
<1>2. /\ k \in Calls /\ k.pc = call[c].pc /\ k.upstream = call[c].upstream
      /\ k.bodies = call[c].bodies /\ k.attempt = call[c].attempt
      /\ k.repeatable = call[c].repeatable /\ k.given = call[c].given
  BY <1>1 DEF Calls
<1>3. call' = [call EXCEPT ![c] = k]
  OBVIOUS
<1> HIDE DEF k
<1>4. CallOK(k)
  BY <1>1, <1>2 DEF CallOK
<1> QED BY <1>2, <1>3, <1>4, CallOnly

LEMMA InterruptKeeps ==
    ASSUME CallIInv, NEW c \in Callers, Interrupt(c)
    PROVE  CallIInv' /\ TripStep
<1>1. faults' \in Nat /\ call[c].pc = "sending"
  BY DEF Interrupt, CallIInv, CallTypeOK
<1>2. CASE IsHttp(UpstreamOf(c)) /\ call[c].attempt < Attempts(c)
  BY <1>1, <1>2, RetryLaterKeeps DEF Interrupt
<1>3. CASE ~(IsHttp(UpstreamOf(c)) /\ call[c].attempt < Attempts(c))
  <2>1. call[c].ctx \in {"canceled", "expired"}
    BY DEF Interrupt, CallIInv, CallTypeOK, Calls
  <2>2. call[c].ctx \in Outcomes /\ Return(c, call[c].ctx)
    BY <1>3, <2>1 DEF Interrupt, Outcomes
  <2> QED BY <1>1, <2>2, ReturnKeeps
<1> QED BY <1>2, <1>3

LEMMA ResumeKeeps ==
    ASSUME CallIInv, NEW c \in Callers, Resume(c)
    PROVE  CallIInv' /\ TripStep
<1> DEFINE k1 == [call[c] EXCEPT !.pc = "sending"]
           n == call[c].attempt + 1
           k == [k1 EXCEPT !.attempt = n]
<1>1. /\ call[c] \in Calls /\ CallOK(call[c]) /\ call[c].pc = "backoff"
      /\ call[c].attempt \in Nat /\ faults' \in Nat
  BY DEF CallIInv, CallTypeOK, Resume, Calls
<1>2. /\ k1 \in Calls /\ k1.pc = "sending" /\ k1.upstream = call[c].upstream
      /\ k1.bodies = call[c].bodies /\ k1.given = call[c].given
      /\ k1.repeatable = call[c].repeatable
      /\ k1.attempt = call[c].attempt
  BY <1>1 DEF Calls
<1>3. /\ k \in Calls /\ k.pc = "sending" /\ k.upstream = call[c].upstream
      /\ k.bodies = call[c].bodies /\ k.given = call[c].given
      /\ k.repeatable = call[c].repeatable
      /\ k.attempt = n
  <2>1. n \in Nat
    BY <1>1
  <2> HIDE DEF k1, n
  <2> QED BY <1>2, <2>1 DEF Calls
<1>4. call' = [call EXCEPT ![c] = k]
  BY <1>2 DEF Resume
<1>5. UNCHANGED <<breaker, strikes>>
  BY DEF Resume
<1> HIDE DEF k, k1
<1>6. CallOK(k)
  BY <1>1, <1>3, PolicyAssumption DEF CallOK, One
<1> QED BY <1>1, <1>3, <1>4, <1>5, <1>6, CallOnly

LEMMA AbandonKeeps ==
    ASSUME CallIInv, NEW c \in Callers, Abandon(c)
    PROVE  CallIInv' /\ TripStep
<1> DEFINE outcome == IF IsHttp(UpstreamOf(c)) THEN call[c].ctx ELSE "interrupted"
<1>1. faults' \in Nat /\ call[c].pc = "backoff"
  BY DEF Abandon, CallIInv, CallTypeOK
<1>2. call[c].ctx \in {"canceled", "expired"}
  BY DEF Abandon, CallIInv, CallTypeOK, Calls
<1>3. outcome \in Outcomes /\ Return(c, outcome)
  BY <1>2 DEF Abandon, Outcomes
<1> HIDE DEF outcome
<1> QED BY <1>1, <1>3, ReturnKeeps

LEMMA ReleaseKeeps ==
    ASSUME CallIInv, NEW c \in Callers, Release(c)
    PROVE  CallIInv' /\ TripStep
<1> DEFINE left == call[c].bodies - One(call[c].given)
<1>1. call[c] \in Calls /\ CallOK(call[c]) /\ call[c].pc = "over"
  BY DEF Release, CallIInv, CallTypeOK
<1>2. left = 0
  BY <1>1 DEF CallOK, One
<1>3. [IdleCall EXCEPT !.bodies = left] = IdleCall
  <2> HIDE DEF left
  <2>1. IdleCall \in Calls /\ IdleCall.bodies = 0
    BY IdleValue DEF IdleCall
  <2>2. [IdleCall EXCEPT !.bodies = 0] = IdleCall
    BY <2>1 DEF Calls
  <2> QED BY <1>2, <2>2
<1>4. /\ call' = [call EXCEPT ![c] = IdleCall] /\ UNCHANGED <<breaker, strikes>>
      /\ faults' \in Nat
  BY <1>3 DEF Release, CallIInv, CallTypeOK
<1> QED BY <1>4, IdleValue, CallOnly

LEMMA OpenTimeoutKeeps ==
    ASSUME CallIInv, NEW u \in Upstreams, OpenTimeout(u)
    PROVE  CallIInv' /\ TripStep
<1>1. call' \in [Callers -> Calls] /\ \A c \in Callers : CallOK(call'[c])
  BY OutdatedKeeps DEF OpenTimeout, CallIInv, CallTypeOK
<1>2. /\ breaker' \in [Upstreams -> Breakers]
      /\ \A w \in Upstreams : breaker'[w] = IF w = u THEN HalfOpenBreaker ELSE breaker[w]
  BY BreakerValues DEF OpenTimeout, CallIInv, CallTypeOK
<1>3. \A w \in Upstreams : CountOK(breaker'[w], strikes'[w])
  BY <1>2, BreakerValues DEF OpenTimeout, CallIInv, CallTypeOK
<1>4. TripStep
  BY <1>2 DEF TripStep, TripOK, HalfOpenBreaker
<1> QED BY <1>1, <1>2, <1>3, <1>4 DEF OpenTimeout, CallIInv, CallTypeOK

LEMMA CallStepKeeps ==
    ASSUME CallIInv, NEW c \in Callers, CallStep(c)
    PROVE  CallIInv' /\ TripStep
<1>1. CASE \E answer \in Outcomes : Answer(c, answer)
  BY <1>1, AnswerKeeps
<1>2. CASE RejectPath(c)
  BY <1>2, RejectPathKeeps
<1>3. CASE CallerCancels(c)
  <2>1. faults' \in Nat
    BY <1>3, FaultCounted DEF CallerCancels, CallIInv, CallTypeOK
  <2> QED BY <1>3, <2>1, ContextKeeps DEF CallerCancels
<1>4. CASE Expire(c)
  <2>1. faults' \in Nat
    BY <1>4 DEF Expire, CallIInv, CallTypeOK
  <2> QED BY <1>4, <2>1, ContextKeeps DEF Expire
<1>5. CASE Interrupt(c)
  BY <1>5, InterruptKeeps
<1>6. CASE Resume(c)
  BY <1>6, ResumeKeeps
<1>7. CASE Abandon(c)
  BY <1>7, AbandonKeeps
<1>8. CASE Consider(c)
  BY <1>8, ConsiderKeeps
<1> QED BY <1>1, <1>2, <1>3, <1>4, <1>5, <1>6, <1>7, <1>8 DEF CallStep

LEMMA CallNextKeeps == ASSUME CallIInv, [CallNext]_callVars PROVE CallIInv' /\ TripStep
<1>1. ASSUME NEW c \in Callers, NEW u \in Upstreams, NEW repeatable \in BOOLEAN,
             Begin(c, u, repeatable)
      PROVE  CallIInv' /\ TripStep
  BY <1>1, BeginKeeps
<1>2. ASSUME NEW c \in Callers, CallStep(c) PROVE CallIInv' /\ TripStep
  BY <1>2, CallStepKeeps
<1>3. ASSUME NEW c \in Callers, Release(c) PROVE CallIInv' /\ TripStep
  BY <1>3, ReleaseKeeps
<1>4. ASSUME NEW u \in Upstreams, OpenTimeout(u) PROVE CallIInv' /\ TripStep
  BY <1>4, OpenTimeoutKeeps
<1>5. ASSUME UNCHANGED callVars PROVE CallIInv' /\ TripStep
  <2>1. CallIInv'
    BY <1>5 DEF callVars, CallIInv, CallTypeOK
  <2>2. TripStep
    BY <1>5 DEF callVars, TripStep, TripOK
  <2> QED BY <2>1, <2>2
<1> QED BY <1>1, <1>2, <1>3, <1>4, <1>5 DEF CallNext

LEMMA CallInitHolds == CallInit => CallIInv
BY IdleValue, BreakerValues DEF CallInit, CallIInv, CallTypeOK

-----------------------------------------------------------------------------

LEMMA CallInvariance == CallSpec => []CallIInv
<1>1. CallInit => CallIInv
  BY CallInitHolds
<1>2. CallIInv /\ [CallNext]_callVars => CallIInv'
  BY CallNextKeeps
<1> QED BY <1>1, <1>2, PTL DEF CallSpec

\* However many callers share the clients, every open body is that of a response
\* in the retry loop's hands or the caller's: the ones that a retried or
\* interrupted call has received are closed (doWithRetry, execute).
THEOREM BodiesAreOwned == CallSpec => []BodiesOwned
<1>1. CallIInv => BodiesOwned
  BY DEF CallIInv, CallOK, BodiesOwned, InHand
<1> QED BY <1>1, CallInvariance, PTL

\* No call is repeated that may not be, and none more often than the policy
\* says (retryInterceptor, doWithRetry).
THEOREM RepeatsAreAllowed == CallSpec => []NoBlindRepeat
<1>1. CallIInv => NoBlindRepeat
  BY DEF CallIInv, CallOK, NoBlindRepeat
<1> QED BY <1>1, CallInvariance, PTL

\* A breaker opens only after FailureThreshold calls have failed since it was
\* closed and, for HTTP, since the last success, for every threshold, number of
\* attempts and interleaving (breakerInterceptor around retryInterceptor, execute
\* around doWithRetry).
THEOREM BreakersCountCalls == CallSpec => TripsOnDistinctCalls
<1> DEFINE Trips == \A u \in Upstreams :
                      breaker[u].state = "closed" /\ breaker'[u].state = "open"
                        => strikes'[u] >= FailureThreshold
<1>1. CallIInv /\ [CallNext]_callVars => [Trips]_callVars
  BY CallNextKeeps DEF TripStep, TripOK
<1> QED BY <1>1, CallInvariance, PTL DEF CallSpec, TripsOnDistinctCalls

-----------------------------------------------------------------------------
(* Requests make calls by the rules of OutboundCalls *)

LEMMA ServiceStepIsCallStep == ASSUME [Next]_vars PROVE [CallNext]_callVars
<1>1. Application \in Upstreams /\ Provider \in Upstreams /\ HttpUpstreams \subseteq Upstreams
  BY ScopeAssumption, UpstreamAssumption
<1>2. ASSUME NEW c \in Callers, Arrive(c) PROVE CallNext \/ UNCHANGED callVars
  BY <1>1, <1>2 DEF Arrive, Receive, CallPartner, CallNext
<1>3. ASSUME NEW c \in Callers, CallStep(c) PROVE CallNext
  BY <1>3 DEF CallNext
<1>4. ASSUME NEW c \in Callers, Handle(c) PROVE CallNext \/ UNCHANGED callVars
  BY <1>1, <1>4 DEF Handle, Verified, Read, Change, Ask, NotDescribed, CreateDescribed,
     Describe, ServeList, ServeCatalog, NoDiscovery, CallNext
<1>5. ASSUME NEW c \in Callers, PartnerDone(c) PROVE CallNext
  BY <1>5 DEF PartnerDone, CallNext
<1>6. ASSUME NEW u \in Upstreams, OpenTimeout(u) PROVE CallNext
  BY <1>6 DEF CallNext
<1>7. ASSUME NEW i, Leaves(i) \/ Enters(i) PROVE UNCHANGED callVars
  BY <1>7 DEF Leaves, Enters
<1>8. ASSUME UNCHANGED vars PROVE UNCHANGED callVars
  BY <1>8 DEF vars
<1> QED BY <1>2, <1>3, <1>4, <1>5, <1>6, <1>7, <1>8 DEF Next

\* The service is an instance of OutboundCalls: requests, pages and partners
\* only choose when its calls begin and when their results are released, so
\* everything proved of CallSpec holds of the service.
THEOREM ServiceImplementsCalls == Spec => CallSpec
<1>1. Init => CallInit
  BY DEF Init
<1>2. [Next]_vars => [CallNext]_callVars
  BY ServiceStepIsCallStep
<1> QED BY <1>1, <1>2, PTL DEF Spec, CallSpec

-----------------------------------------------------------------------------
(* The rules *)

\* Whoever gets past the checks is entitled.
LEMMA ArrivalsEntitled == \A a \in Arrivals : /\ a.entitled \in BOOLEAN
                                              /\ a.verdict = "ok" => a.entitled
<1> SUFFICES ASSUME NEW a \in Arrivals
             PROVE  a.entitled \in BOOLEAN /\ (a.verdict = "ok" => a.entitled)
  OBVIOUS
<1>0. PICK route \in {"psk", "skip", "token"}, credential \in Credentials,
           tenant \in {"", "t1", "t2"}, application \in {"", "a1"} :
           /\ a.entitled = Entitled(route, credential, tenant)
           /\ a.verdict = Decide(route, credential, tenant, application)
  BY DEF Arrivals
<1> SUFFICES /\ Entitled(route, credential, tenant) \in BOOLEAN
             /\ Decide(route, credential, tenant, application) = "ok"
                  => Entitled(route, credential, tenant)
  BY <1>0
<1>1. Entitled(route, credential, tenant) \in BOOLEAN
  BY DEF Entitled
<1>2. SUFFICES ASSUME NEW p \in authenticateGRPC(route, credential),
                      ScopeVerdict(p, tenant, application) = "ok"
               PROVE  Entitled(route, credential, tenant)
  BY <1>1 DEF Decide
<1>3. authorize(p, tenant) = "ok" /\ tenant # ""
  BY <1>2 DEF ScopeVerdict
<1>4. p # Nobody /\ (p.type = "service" \/ p.tenant = tenant)
  BY <1>3 DEF authorize
<1>5. CASE route = "psk"
  BY <1>2, <1>5 DEF authenticateGRPC, Entitled
<1>6. CASE route = "skip"
  BY <1>2, <1>4, <1>6 DEF authenticateGRPC
<1>7. CASE route = "token"
  <2>1. credential \in {"t1", "t2", "local", "service"} /\ p = Verify(credential)
    BY <1>2, <1>7 DEF authenticateGRPC
  <2>2. credential = "service" \/ credential = tenant
    BY <2>1, <1>3, <1>4 DEF Verify, ServiceAccount, UserOf
  <2> QED BY <1>3, <1>7, <2>2 DEF Entitled
<1> QED BY <1>5, <1>6, <1>7

\* An export validateDataset accepts fits the descriptor.
LEMMA ValidExportsFit == \A e \in Exports : /\ e.fits \in BOOLEAN
                                            /\ e.valid => e.fits
<1> SUFFICES ASSUME NEW input \in Inputs, NEW dataset \in Descriptors
             PROVE  /\ FitsDataset(input, dataset) \in BOOLEAN
                    /\ validateDataset(input, dataset) => FitsDataset(input, dataset)
  BY DEF Exports
<1>1. FitsDataset(input, dataset) \in BOOLEAN
  BY DEF FitsDataset
<1>2. SUFFICES ASSUME validateDataset(input, dataset) PROVE FitsDataset(input, dataset)
  BY <1>1
<1> DEFINE query == input.query
           fields == dataset.fields
           selected == input.selected
           declared == {fields[i] : i \in DOMAIN fields}
           named(key) == {f \in declared : f.key = key}
<1>3. {f.key : f \in {g \in declared : g.required}} \ {""} \subseteq DOMAIN query
  BY <1>2 DEF validateDataset, validateQuery
<1>4. ASSUME NEW key \in DOMAIN query
      PROVE  \E f \in named(key) :
                /\ f.options # {} => f.type \notin {"string", "datetime"}
                                        \/ query[key] \in f.options
                /\ query[key] \notin {"null", "other"}
  <2>1. PICK i \in DOMAIN fields :
            Describes(fields, i, key) /\ validateQueryValue(query[key], fields[i])
    BY <1>2 DEF validateDataset, validateQuery
  <2>2. fields[i] \in named(key)
    BY <2>1 DEF Describes
  <2>3. /\ fields[i].options # {} => fields[i].type \notin {"string", "datetime"}
                                        \/ query[key] \in fields[i].options
        /\ query[key] \notin {"null", "other"}
    BY <2>1 DEF validateQueryValue, Texts
  <2> QED BY <2>2, <2>3
<1>5. {selected[i] : i \in DOMAIN selected} \subseteq dataset.columns
  BY <1>2 DEF validateDataset, validateColumns
<1>6. \A i, j \in DOMAIN selected : selected[i] = selected[j] => i = j
  <2>1. selected \in Seq(STRING)
    BY InputAssumption
  <2>2. \A i, j \in 1..Len(selected) : j < i => selected[j] # selected[i]
    BY <1>2, <2>1 DEF validateDataset, validateColumns
  <2> QED BY <2>1, <2>2
<1> QED BY <1>2, <1>3, <1>4, <1>5, <1>6 DEF FitsDataset, validateDataset

-----------------------------------------------------------------------------
(* Pages *)

LEMMA ModSmall == ASSUME NEW m \in Nat \ {0}, NEW a \in 0..(m - 1) PROVE a % m = a
OBVIOUS

\* A product that is an int32 is not wrapped.
LEMMA SmallInt32 == ASSUME NEW x \in 0..(IntLimit - 1) PROVE Int32(x) = x
<1>1. x + IntLimit \in 0..(2 * IntLimit - 1) /\ 2 * IntLimit \in Nat \ {0}
  BY PagingAssumption
<1>2. (x + IntLimit) % (2 * IntLimit) = x + IntLimit
  BY <1>1, ModSmall
<1> QED BY <1>2, PagingAssumption DEF Int32

LEMMA OffsetValue ==
  ASSUME NEW filter, filter.page \in Nat \ {0}, filter.size \in Nat,
         (filter.page - 1) * filter.size < IntLimit
  PROVE  Offset(filter) = (filter.page - 1) * filter.size
<1>1. (filter.page - 1) * filter.size \in Nat
  <2>1. filter.page - 1 \in Nat
    OBVIOUS
  <2>2. \A x, y \in Nat : x * y \in Nat
    OBVIOUS
  <2> QED BY <2>1, <2>2
<1>2. (filter.page - 1) * filter.size \in 0..(IntLimit - 1)
  BY <1>1, PagingAssumption
<1> QED BY <1>2, SmallInt32 DEF Offset

\* What the code makes of a page.
LEMMA Normalized ==
  ASSUME NEW page \in Pages, NEW size
  PROVE  ListFilter(page, size).page \in Nat \ {0}
<1>1. page \in Nat
  BY PagingAssumption, ListAssumption
<1>2. AtLeastOne(page) \in Nat \ {0}
  BY <1>1 DEF AtLeastOne
<1> QED BY <1>2 DEF ListFilter

-----------------------------------------------------------------------------
(* The list *)

RowsOK == rows \in Seq(Jobs) /\ Descending(rows)

LEMMA ListFacts ==
  ASSUME NEW S, NEW list \in Seq(S)
  PROVE  Len(list) \in Nat /\ DOMAIN list = 1..Len(list) /\ \A i \in 1..Len(list) : list[i] \in S
OBVIOUS

LEMMA RowsFacts ==
  ASSUME RowsOK
  PROVE  /\ Len(rows) \in Nat /\ DOMAIN rows = 1..Len(rows)
         /\ \A i \in 1..Len(rows) : rows[i] \in Jobs
         /\ Jobs \subseteq Nat /\ MaxRows \in Nat
BY ListFacts, ListAssumption DEF RowsOK, Jobs

\* No job is listed twice, so there are no more places than jobs.
LEMMA RowsBounded == ASSUME RowsOK PROVE Len(rows) <= MaxRows
<1> DEFINE n == Len(rows)
<1>1. /\ n \in Nat /\ DOMAIN rows = 1..n /\ \A i \in 1..n : rows[i] \in Jobs
      /\ Jobs \subseteq Nat /\ MaxRows \in Nat
  BY RowsFacts
<1>2. SUFFICES ASSUME MaxRows < n PROVE FALSE
  BY <1>1
<1>3. /\ IsFiniteSet(1..n) /\ Cardinality(1..n) = n
      /\ IsFiniteSet(Jobs) /\ Cardinality(Jobs) = MaxRows
  <2>1. 1 \in Int /\ n \in Int /\ MaxRows \in Int
    BY <1>1
  <2>2. /\ IsFiniteSet(1..n) /\ Cardinality(1..n) = IF 1 > n THEN 0 ELSE n - 1 + 1
        /\ IsFiniteSet(1..MaxRows)
        /\ Cardinality(1..MaxRows) = IF 1 > MaxRows THEN 0 ELSE MaxRows - 1 + 1
    <3> HIDE DEF n
    <3> QED BY <2>1, FS_Interval
  <2> QED BY <1>1, <2>2 DEF Jobs
<1>4. rows \in [1..n -> Jobs]
  BY DEF RowsOK
<1> HIDE DEF n
<1>5. PICK i, k \in 1..n : i # k /\ rows[i] = rows[k]
  BY <1>2, <1>3, <1>4, FS_PigeonHole
<1>6. i < k \/ k < i
  BY <1>1, <1>5
<1>7. rows[i] # rows[k]
  <2>1. rows[i] \in Nat /\ rows[k] \in Nat
    BY <1>1
  <2>2. rows[i] > rows[k] \/ rows[k] > rows[i]
    BY <1>1, <1>6 DEF RowsOK, Descending
  <2> QED BY <2>1, <2>2
<1> QED BY <1>5, <1>7

LEMMA InitRows == ASSUME Init PROVE RowsOK
<1>1. PICK n \in 0..MaxRows : rows \in [1..n -> Jobs]
  BY DEF Init
<1>2. n \in Nat
  BY ListAssumption
<1>3. rows \in Seq(Jobs)
  BY <1>1, <1>2
<1> QED BY <1>3 DEF Init, RowsOK

\* A row moves back when another gets in, never forward.
LEMMA EnlistShifts ==
  ASSUME RowsOK, NEW j \in Jobs, Enlist(j)
  PROVE  /\ RowsOK'
         /\ \A i \in DOMAIN rows : \E k \in DOMAIN rows' : i <= k /\ rows'[k] = rows[i]
<1> DEFINE n == Len(rows)
<1>1. /\ n \in Nat /\ DOMAIN rows = 1..n /\ \A i \in 1..n : rows[i] \in Jobs
      /\ Jobs \subseteq Nat
  BY RowsFacts
<1>2. PICK p \in 1..(n + 1) :
        /\ \A i \in DOMAIN rows : IF i < p THEN rows[i] > j ELSE rows[i] < j
        /\ rows' = [i \in 1..(n + 1) |->
                      IF i < p THEN rows[i] ELSE IF i = p THEN j ELSE rows[i - 1]]
  BY DEF Enlist
<1> DEFINE new(i) == IF i < p THEN rows[i] ELSE IF i = p THEN j ELSE rows[i - 1]
<1>3. ASSUME NEW i \in 1..(n + 1)
      PROVE  /\ i < p => i \in 1..n /\ new(i) = rows[i]
             /\ i = p => new(i) = j
             /\ i > p => i - 1 \in 1..n /\ new(i) = rows[i - 1]
             /\ new(i) \in Jobs
  <2>1. CASE i < p
    BY <1>1, <2>1
  <2>2. CASE i = p
    BY <2>2
  <2>3. CASE i > p
    <3>1. i - 1 \in 1..n
      BY <1>1, <2>3
    <3> QED BY <1>1, <2>3, <3>1
  <2> QED BY <1>1, <2>1, <2>2, <2>3
<1>4. rows' = [i \in 1..(n + 1) |-> new(i)]
  BY <1>2
<1>5. \A i \in 1..n : IF i < p THEN rows[i] > j ELSE rows[i] < j
  BY <1>1, <1>2
<1>6. \A i, k \in 1..n : i < k => rows[i] > rows[k]
  BY <1>1 DEF RowsOK, Descending
<1> HIDE DEF new
<1>7. rows' \in Seq(Jobs) /\ DOMAIN rows' = 1..(n + 1) /\ \A i \in 1..(n + 1) : rows'[i] = new(i)
  <2>1. n + 1 \in Nat
    BY <1>1
  <2> QED BY <1>3, <1>4, <2>1
<1>8. ASSUME NEW i \in 1..(n + 1), NEW k \in 1..(n + 1), i < k PROVE new(i) > new(k)
  <2>1. CASE k < p
    BY <1>1, <1>3, <1>6, <1>8, <2>1
  <2>2. CASE k = p
    BY <1>1, <1>3, <1>5, <1>8, <2>2
  <2>3. CASE k > p /\ i < p
    <3>1. i \in 1..n /\ k - 1 \in 1..n /\ ~(k - 1 < p)
      BY <1>1, <1>3, <2>3
    <3>2. rows[i] > j /\ rows[k - 1] < j /\ rows[i] \in Nat /\ rows[k - 1] \in Nat /\ j \in Nat
      BY <1>1, <1>5, <2>3, <3>1
    <3>3. rows[i] > rows[k - 1]
      BY <3>2
    <3> QED BY <1>3, <2>3, <3>3
  <2>4. CASE k > p /\ i = p
    <3>1. k - 1 \in 1..n /\ ~(k - 1 < p)
      BY <1>1, <1>3, <2>4
    <3>2. rows[k - 1] < j /\ rows[k - 1] \in Nat /\ j \in Nat
      BY <1>1, <1>5, <3>1
    <3> QED BY <1>3, <2>4, <3>2
  <2>5. CASE k > p /\ i > p
    <3>1. i - 1 \in 1..n /\ k - 1 \in 1..n /\ i - 1 < k - 1
      BY <1>1, <1>3, <1>8, <2>5
    <3> QED BY <1>3, <1>6, <2>5, <3>1
  <2> QED BY <1>1, <2>1, <2>2, <2>3, <2>4, <2>5
<1>9. RowsOK'
  BY <1>7, <1>8 DEF RowsOK, Descending, Jobs
<1>10. ASSUME NEW i \in DOMAIN rows
       PROVE  \E k \in DOMAIN rows' : i <= k /\ rows'[k] = rows[i]
  <2>0. i \in 1..n
    BY <1>1
  <2>1. CASE i < p
    <3>1. i \in 1..(n + 1) /\ i <= i
      BY <1>1, <2>0
    <3> QED BY <1>3, <1>7, <2>1, <3>1
  <2>2. CASE ~(i < p)
    <3>1. i + 1 \in 1..(n + 1) /\ i + 1 > p /\ (i + 1) - 1 = i /\ i <= i + 1
      BY <1>1, <2>0, <2>2
    <3>2. rows'[i + 1] = rows[i]
      BY <1>3, <1>7, <3>1
    <3> QED BY <1>7, <3>1, <3>2
  <2> QED BY <2>1, <2>2
<1> QED BY <1>9, <1>10

\* The rows behind the one that leaves move up by one place.
LEMMA LeavesShifts ==
  ASSUME RowsOK, NEW i \in DOMAIN rows, Leaves(i)
  PROVE  /\ RowsOK'
         /\ \A k \in DOMAIN rows : k < i => k \in DOMAIN rows' /\ rows'[k] = rows[k]
         /\ \A k \in DOMAIN rows : k > i => k - 1 \in DOMAIN rows' /\ rows'[k - 1] = rows[k]
<1> DEFINE n == Len(rows)
           new(k) == IF k < i THEN rows[k] ELSE rows[k + 1]
<1>1. /\ n \in Nat /\ DOMAIN rows = 1..n /\ \A k \in 1..n : rows[k] \in Jobs
      /\ Jobs \subseteq Nat
  BY RowsFacts
<1>2. rows' = [k \in 1..(n - 1) |-> new(k)]
  BY DEF Leaves
<1>3. n - 1 \in Nat /\ i \in 1..n
  BY <1>1
<1>4. ASSUME NEW k \in 1..(n - 1)
      PROVE  /\ new(k) \in Jobs /\ k \in 1..n /\ k + 1 \in 1..n
             /\ k < i => new(k) = rows[k]
             /\ ~(k < i) => new(k) = rows[k + 1]
  BY <1>1, <1>3
<1> HIDE DEF new
<1>5. /\ rows' \in Seq(Jobs) /\ DOMAIN rows' = 1..(n - 1)
      /\ \A k \in 1..(n - 1) : rows'[k] = new(k)
  BY <1>2, <1>3, <1>4
<1>6. \A k, m \in 1..n : k < m => rows[k] > rows[m]
  BY <1>1 DEF RowsOK, Descending
<1>7. ASSUME NEW k \in 1..(n - 1), NEW m \in 1..(n - 1), k < m PROVE new(k) > new(m)
  <2>1. CASE m < i
    <3>1. k \in 1..n /\ m \in 1..n /\ k < i
      BY <1>1, <1>3, <1>7, <2>1
    <3>2. rows[k] > rows[m]
      BY <1>6, <1>7, <3>1
    <3> QED BY <1>4, <2>1, <3>1, <3>2
  <2>2. CASE ~(m < i) /\ k < i
    <3>1. k \in 1..n /\ m + 1 \in 1..n /\ k < m + 1
      BY <1>1, <1>4, <1>7
    <3> QED BY <1>4, <1>6, <2>2, <3>1
  <2>3. CASE ~(m < i) /\ ~(k < i)
    <3>1. k + 1 \in 1..n /\ m + 1 \in 1..n /\ k + 1 < m + 1
      BY <1>1, <1>4, <1>7
    <3> QED BY <1>4, <1>6, <2>3, <3>1
  <2> QED BY <2>1, <2>2, <2>3
<1>8. RowsOK'
  BY <1>5, <1>7 DEF RowsOK, Descending, Jobs
<1>9. ASSUME NEW k \in DOMAIN rows, k < i PROVE k \in DOMAIN rows' /\ rows'[k] = rows[k]
  <2>1. k \in 1..(n - 1)
    BY <1>1, <1>3, <1>9
  <2> QED BY <1>4, <1>5, <1>9, <2>1
<1>10. ASSUME NEW k \in DOMAIN rows, k > i PROVE k - 1 \in DOMAIN rows' /\ rows'[k - 1] = rows[k]
  <2>1. k - 1 \in 1..(n - 1) /\ ~(k - 1 < i) /\ (k - 1) + 1 = k
    BY <1>1, <1>3, <1>10
  <2> QED BY <1>4, <1>5, <2>1
<1> QED BY <1>8, <1>9, <1>10

-----------------------------------------------------------------------------
(* Requests *)

\* Past the first checks a request is of somebody entitled, past the verifier
\* its scope is granted: what a request may still become is then right as well.
RequestOK(r) ==
    /\ r \in Requests
    /\ r.stage \notin {"idle", "answered"} => r.entitled
    /\ r.stage \in {"scoped", "describe", "reread"} => r.granted
    /\ r.stage # "answered" => r.fits
    /\ r.committed \/ r.verdict = "ok" => r.entitled /\ r.granted /\ r.fits

RequestsOK == /\ request \in [Callers -> Requests]
              /\ \A c \in Callers : RequestOK(request[c])

LEMMA NoRequestOK == RequestOK(NoRequest)
BY DEF RequestOK, Requests, NoRequest, Verdicts

LEMMA Updated ==
  ASSUME RequestsOK, NEW c \in Callers, NEW r, RequestOK(r), Becomes(c, r)
  PROVE  RequestsOK'
<1>1. r \in Requests
  BY DEF RequestOK
<1>2. request' = [request EXCEPT ![c] = r] /\ request \in [Callers -> Requests]
  BY DEF Becomes, RequestsOK
<1>3. request' \in [Callers -> Requests]
  BY <1>1, <1>2
<1>4. \A d \in Callers : request'[d] = IF d = c THEN r ELSE request[d]
  BY <1>2
<1>5. \A d \in Callers : RequestOK(request'[d])
  BY <1>4 DEF RequestsOK
<1> QED BY <1>3, <1>5 DEF RequestsOK, RequestOK

\* An answer may be ok once the request is entitled, granted and fitting.
LEMMA AnsweredOK ==
  ASSUME RequestsOK, NEW c \in Callers, NEW verdict \in Verdicts,
         verdict = "ok" => request[c].granted /\ request[c].stage \notin {"idle", "answered"}
  PROVE  /\ RequestOK(Answered(c, verdict))
         /\ Answered(c, verdict).stage = "answered"
         /\ Answered(c, verdict).entitled = request[c].entitled
         /\ Answered(c, verdict).granted = request[c].granted
         /\ Answered(c, verdict).fits = request[c].fits
<1> DEFINE r == request[c]
           s == [r EXCEPT !.stage = "answered"]
           t == [s EXCEPT !.verdict = verdict]
<1>1. r \in Requests /\ RequestOK(r)
  BY DEF RequestsOK
<1>2. Answered(c, verdict) = t
  BY <1>1 DEF Answered, Requests
<1>3. /\ s \in Requests /\ s.stage = "answered"
      /\ s.entitled = r.entitled /\ s.granted = r.granted /\ s.fits = r.fits
      /\ s.committed = r.committed
  BY <1>1 DEF Requests
<1> HIDE DEF s
<1>4. /\ t \in Requests /\ t.stage = "answered" /\ t.verdict = verdict
      /\ t.entitled = r.entitled /\ t.granted = r.granted /\ t.fits = r.fits
      /\ t.committed = r.committed
  BY <1>3 DEF Requests, Verdicts
<1> HIDE DEF t, r
<1>5. verdict = "ok" => r.entitled /\ r.granted /\ r.fits
  BY <1>1 DEF RequestOK, r
<1>6. RequestOK(t)
  BY <1>1, <1>4, <1>5 DEF RequestOK
<1> QED BY <1>2, <1>4, <1>6 DEF r

LEMMA ReceiveOK ==
  ASSUME RequestsOK, NEW c \in Callers, NEW arrival \in Arrivals, NEW repeatable,
         Receive(c, arrival, repeatable)
  PROVE  RequestsOK'
<1>1. arrival.entitled \in BOOLEAN /\ (arrival.verdict = "ok" => arrival.entitled)
  BY ArrivalsEntitled
<1>2. RequestOK([NoRequest EXCEPT !.stage = "answered", !.verdict = "denied"])
  BY DEF RequestOK, Requests, NoRequest, Verdicts
<1>3. arrival.verdict = "ok" =>
        RequestOK([NoRequest EXCEPT !.stage = "scope", !.entitled = arrival.entitled])
  BY <1>1 DEF RequestOK, Requests, NoRequest, Verdicts
<1>4. CASE arrival.verdict # "ok"
  BY <1>2, <1>4, Updated DEF Receive
<1>5. CASE arrival.verdict = "ok"
  BY <1>3, <1>5, Updated DEF Receive
<1> QED BY <1>4, <1>5

LEMMA VerifiedOK ==
  ASSUME RequestsOK, NEW c \in Callers, NEW granted \in BOOLEAN, Verified(c, granted)
  PROVE  RequestsOK'
<1> DEFINE q == request[c]
           r == [q EXCEPT !.granted = @ \/ granted]
<1>1. q \in Requests /\ RequestOK(q) /\ q.stage \in {"scope", "reread"}
  BY DEF RequestsOK, Verified
<1>2. r.stage = q.stage
  BY <1>1 DEF Requests
<1>3. CASE granted /\ q.stage = "scope" /\ Becomes(c, [r EXCEPT !.stage = "scoped"])
  <2> DEFINE t == [r EXCEPT !.stage = "scoped"]
  <2>1. /\ r \in Requests /\ r.granted /\ r.entitled = q.entitled /\ r.fits = q.fits
        /\ r.committed = q.committed /\ r.verdict = q.verdict
    BY <1>1, <1>3 DEF Requests
  <2> HIDE DEF r
  <2>2. /\ t \in Requests /\ t.stage = "scoped" /\ t.granted /\ t.entitled = q.entitled
        /\ t.fits = q.fits
    BY <2>1 DEF Requests
  <2>3. RequestOK(t)
    BY <1>1, <1>3, <2>2 DEF RequestOK
  <2> HIDE DEF t
  <2>4. Becomes(c, t)
    BY <1>3 DEF r, t
  <2> QED BY <2>3, <2>4, Updated
<1>4. CASE q.stage = "reread" /\ Becomes(c, Answered(c, "ok"))
  <2>1. q.granted
    BY <1>1, <1>4 DEF RequestOK
  <2> QED BY <1>4, <2>1, AnsweredOK, Updated DEF Verdicts
<1>5. CASE \E verdict \in {"denied", "failed"} : Becomes(c, Answered(c, verdict))
  BY <1>5, AnsweredOK, Updated DEF Verdicts
<1> QED BY <1>2, <1>3, <1>4, <1>5 DEF Verified

LEMMA DescribeOK ==
  ASSUME RequestsOK, NEW c \in Callers, request[c].stage = "describe"
  PROVE  request[c].granted /\ request[c].stage \notin {"idle", "answered"}
BY DEF RequestsOK, RequestOK

\* The answers that say nothing but ok, denied or failed.
LEMMA PlainAnswerOK ==
  ASSUME RequestsOK, NEW c \in Callers, NEW verdict \in Verdicts,
         request[c].stage \in {"scoped", "describe"}, Becomes(c, Answered(c, verdict))
  PROVE  RequestsOK'
<1>1. request[c].granted /\ request[c].stage \notin {"idle", "answered"}
  BY DEF RequestsOK, RequestOK
<1> QED BY <1>1, AnsweredOK, Updated

LEMMA ChangeOK ==
  ASSUME RequestsOK, NEW c \in Callers, NEW verdict \in Verdicts, NEW repeatable,
         Change(c, verdict, repeatable)
  PROVE  RequestsOK'
<1> DEFINE q == request[c]
           s == [q EXCEPT !.stage = "reread"]
           t == [s EXCEPT !.committed = TRUE]
<1>1. q \in Requests /\ RequestOK(q) /\ q.stage = "scoped"
  BY DEF RequestsOK, Change, Scoped
<1>2. CASE Becomes(c, Answered(c, verdict))
  BY <1>1, <1>2, PlainAnswerOK
<1>3. CASE Becomes(c, [request[c] EXCEPT !.stage = "reread", !.committed = TRUE])
  <2>1. [request[c] EXCEPT !.stage = "reread", !.committed = TRUE] = t
    BY <1>1 DEF Requests
  <2>2. /\ s \in Requests /\ s.stage = "reread" /\ s.entitled = q.entitled
        /\ s.granted = q.granted /\ s.fits = q.fits
    BY <1>1 DEF Requests
  <2> HIDE DEF s
  <2>3. /\ t \in Requests /\ t.stage = "reread" /\ t.entitled = q.entitled
        /\ t.granted = q.granted /\ t.fits = q.fits
    BY <2>2 DEF Requests
  <2> HIDE DEF t
  <2>4. RequestOK(t)
    BY <1>1, <2>3 DEF RequestOK
  <2> QED BY <1>3, <2>1, <2>4, Updated
<1> QED BY <1>2, <1>3 DEF Change

LEMMA AskOK ==
  ASSUME RequestsOK, NEW c \in Callers, NEW verdict \in Verdicts, NEW repeatable,
         Ask(c, verdict, repeatable)
  PROVE  RequestsOK'
<1> DEFINE q == request[c]
           t == [q EXCEPT !.stage = "describe"]
<1>1. q \in Requests /\ RequestOK(q) /\ q.stage = "scoped"
  BY DEF RequestsOK, Ask, Scoped
<1>2. CASE Becomes(c, Answered(c, verdict))
  BY <1>1, <1>2, PlainAnswerOK
<1>3. CASE Becomes(c, t)
  <2>1. /\ t \in Requests /\ t.stage = "describe" /\ t.entitled = q.entitled
        /\ t.granted = q.granted /\ t.fits = q.fits
    BY <1>1 DEF Requests
  <2> HIDE DEF t
  <2>2. RequestOK(t)
    BY <1>1, <2>1 DEF RequestOK
  <2> QED BY <1>3, <2>2, Updated
<1> QED BY <1>2, <1>3 DEF Ask

LEMMA CreateOK ==
  ASSUME RequestsOK, NEW c \in Callers, NEW export \in Exports, NEW verdict \in Verdicts,
         CreateDescribed(c, export, verdict)
  PROVE  RequestsOK'
<1> DEFINE a == Answered(c, verdict)
           s == [a EXCEPT !.committed = TRUE]
           t == [s EXCEPT !.fits = export.fits]
<1>1. request[c].stage = "describe" /\ RequestOK(request[c])
  BY DEF RequestsOK, CreateDescribed
<1>2. CASE Becomes(c, Answered(c, verdict))
  BY <1>1, <1>2, PlainAnswerOK
<1>3. CASE export.valid /\ Becomes(c, [Answered(c, verdict) EXCEPT
                                         !.committed = TRUE, !.fits = export.fits])
  <2>1. /\ RequestOK(a) /\ a.stage = "answered"
        /\ a.entitled = request[c].entitled /\ a.granted = request[c].granted
    BY <1>1, DescribeOK, AnsweredOK
  <2>2. a \in Requests /\ a.entitled /\ a.granted
    BY <1>1, <2>1 DEF RequestOK
  <2>3. export.fits = TRUE
    BY <1>3, ValidExportsFit
  <2> HIDE DEF a
  <2>4. [a EXCEPT !.committed = TRUE, !.fits = export.fits] = t
    BY <2>2 DEF Requests
  <2>5. /\ s \in Requests /\ s.stage = "answered" /\ s.entitled /\ s.granted
    BY <2>1, <2>2 DEF Requests
  <2> HIDE DEF s
  <2>6. t \in Requests /\ t.stage = "answered" /\ t.entitled /\ t.granted /\ t.fits
    BY <2>3, <2>5 DEF Requests
  <2> HIDE DEF t
  <2>7. RequestOK(t)
    BY <2>6 DEF RequestOK
  <2> QED BY <1>3, <2>4, <2>7, Updated DEF a
<1> QED BY <1>2, <1>3 DEF CreateDescribed

\* The answers of the lists.
LEMMA ServeListOK ==
  ASSUME RequestsOK, NEW c \in Callers, NEW page, NEW size, ServeList(c, page, size)
  PROVE  RequestsOK'
BY PlainAnswerOK DEF ServeList, Scoped, Verdicts

LEMMA ServeCatalogOK ==
  ASSUME RequestsOK, NEW c \in Callers, NEW page, NEW size, ServeCatalog(c, page, size)
  PROVE  RequestsOK'
BY PlainAnswerOK DEF ServeCatalog, Scoped, Verdicts

-----------------------------------------------------------------------------
(* The reader of the whole list *)

\* Where the next page begins.
Reached == (walk.next - 1) * WalkSize

\* The jobs that are at none of the places after off: a reader who has come so
\* far will not meet them unless they move.
Behind(off) == {x \in Jobs : ~\E i \in DOMAIN rows : rows[i] = x /\ off < i}

Unseen == walk.owed \ walk.seen

\* What the reader is owed and will not see.
Lost == IF walk.done THEN Unseen ELSE Unseen \cap Behind(Reached)

Walks == [next : Nat \ {0}, owed : SUBSET Jobs, seen : SUBSET Jobs, left : Nat,
          done : BOOLEAN]

\* The reader has lost no more jobs than have left the list.
WalkOK ==
    /\ walk \in Walks
    /\ ~walk.done => Reached <= MaxRows
    /\ Cardinality(Lost) <= walk.left

\* Sets of jobs are finite, so the lost ones can be counted.
LEMMA JobsFinite ==
  ASSUME NEW S \in SUBSET Jobs
  PROVE  /\ IsFiniteSet(S) /\ Cardinality(S) \in Nat
         /\ \A T \in SUBSET S : Cardinality(T) <= Cardinality(S)
         /\ \A x : Cardinality(S \cup {x}) <= Cardinality(S) + 1
<1>1. IsFiniteSet(Jobs)
  <2>1. 1 \in Int /\ MaxRows \in Int
    BY ListAssumption
  <2> QED BY <2>1, FS_Interval DEF Jobs
<1>2. IsFiniteSet(S)
  BY <1>1, FS_Subset
<1>3. Cardinality(S) \in Nat
  BY <1>2, FS_CardinalityType
<1>4. \A T \in SUBSET S : Cardinality(T) <= Cardinality(S)
  BY <1>2, FS_Subset
<1>5. ASSUME NEW x PROVE Cardinality(S \cup {x}) <= Cardinality(S) + 1
  <2>1. Cardinality(S \cup {x}) = IF x \in S THEN Cardinality(S) ELSE Cardinality(S) + 1
    BY <1>2, FS_AddElement
  <2> QED BY <1>3, <2>1
<1> QED BY <1>2, <1>3, <1>4, <1>5

LEMMA NoWalkOK ==
  ASSUME walk = NoWalk
  PROVE  WalkOK
<1>1. WalkSize \in Nat /\ MaxRows \in Nat
  BY ListAssumption, PagingAssumption
<1>2. Reached = 0
  BY <1>1 DEF Reached, NoWalk
<1>3. Lost = {}
  BY DEF Lost, Unseen, NoWalk
<1>4. Cardinality(Lost) = 0
  BY <1>3, FS_EmptySet
<1> QED BY <1>1, <1>2, <1>4 DEF WalkOK, NoWalk, Walks

Window(off, size, total) == {i \in 1..total : off < i /\ i <= off + size}

\* A page that begins at off holds as many rows as fit, and if it is not full
\* it holds everything from off on.
LEMMA PageSize ==
  ASSUME NEW off \in Nat, NEW size \in Nat \ {0}, NEW total \in Nat
  PROVE  /\ Cardinality(Window(off, size, total)) < size
              => \A i \in 1..total : off < i => i \in Window(off, size, total)
         /\ ~(Cardinality(Window(off, size, total)) < size) => off + size <= total
<1> DEFINE shown == Window(off, size, total)
<1>1. CASE off + size <= total
  <2>1. shown = (off + 1)..(off + size)
    BY <1>1 DEF Window
  <2>2. Cardinality((off + 1)..(off + size)) = size
    BY FS_Interval
  <2>3. Cardinality(shown) = size
    BY <2>1, <2>2
  <2> HIDE DEF shown
  <2> QED BY <1>1, <2>3 DEF shown
<1>2. CASE off + size > total /\ off <= total
  <2>1. shown = (off + 1)..total
    BY <1>2 DEF Window
  <2>2. Cardinality((off + 1)..total) = total - off
    <3>1. off + 1 \in Int /\ total \in Int
      OBVIOUS
    <3>2. Cardinality((off + 1)..total) = IF off + 1 > total THEN 0 ELSE total - (off + 1) + 1
      BY <3>1, FS_Interval
    <3> QED BY <1>2, <3>2
  <2>3. Cardinality(shown) < size
    BY <1>2, <2>1, <2>2
  <2>4. \A i \in 1..total : off < i => i \in shown
    BY <2>1
  <2> HIDE DEF shown
  <2> QED BY <2>3, <2>4 DEF shown
<1>3. CASE off > total
  <2>1. shown = {}
    BY <1>3 DEF Window
  <2>2. Cardinality(shown) = 0
    BY <2>1, FS_EmptySet
  <2>3. \A i \in 1..total : ~(off < i)
    BY <1>3
  <2> HIDE DEF shown
  <2> QED BY <2>2, <2>3 DEF shown
<1> QED BY <1>1, <1>2, <1>3

\* Reading the next page keeps the promise: a job ahead of the reader is on the
\* page, or ahead of the reader still.
LEMMA WalkedOnOK ==
  ASSUME RowsOK, WalkOK, NEW filter, filter.page \in Nat \ {0}, filter.size = WalkSize,
         walk' = WalkedOn(filter.page, Positions(filter, Len(rows))),
         UNCHANGED rows
  PROVE  WalkOK'
<1> DEFINE page == filter.page
           n == Len(rows)
           shown == Positions(filter, n)
           got == {rows[i] : i \in shown}
           from == IF page = 1 THEN [NoWalk EXCEPT !.owed = Listed] ELSE walk
           off == (page - 1) * WalkSize
<1>1. n \in Nat /\ DOMAIN rows = 1..n /\ (\A i \in 1..n : rows[i] \in Jobs) /\ n <= MaxRows
  BY RowsFacts, RowsBounded
<1>2. WalkSize \in Nat \ {0} /\ MaxRows \in Nat /\ MaxRows < IntLimit /\ IntLimit \in Nat
  BY ListAssumption, PagingAssumption
<1>3. CASE ~(page = 1 \/ (page = walk.next /\ ~walk.done))
  <2>1. walk' = walk
    BY <1>3 DEF WalkedOn
  <2> QED BY <2>1 DEF WalkOK, Reached, Lost, Unseen, Behind, Walks, Jobs
<1>4. CASE page = 1 \/ (page = walk.next /\ ~walk.done)
  <2>1. walk' = [from EXCEPT !.next = page + 1, !.seen = @ \cup got,
                             !.done = Cardinality(shown) < WalkSize]
    BY <1>4 DEF WalkedOn
  <2>2. off \in Nat /\ off <= MaxRows
    <3>1. CASE page = 1
      BY <1>2, <3>1
    <3>2. CASE page = walk.next /\ ~walk.done
      <4>1. page - 1 \in Nat
        OBVIOUS
      <4>2. \A x, y \in Nat : x * y \in Nat
        OBVIOUS
      <4>3. off \in Nat
        BY <1>2, <4>1, <4>2
      <4> QED BY <3>2, <4>3 DEF WalkOK, Reached
    <3> QED BY <1>4, <3>1, <3>2
  <2>3. Offset(filter) = off
    <3>1. (filter.page - 1) * filter.size < IntLimit
      BY <1>2, <2>2
    <3> QED BY <1>2, <3>1, OffsetValue
  <2>4. page * WalkSize = off + WalkSize
    BY <1>2, \A x, y \in Int : x * y = (x - 1) * y + y
  <2>5. shown = Window(off, WalkSize, n)
    BY <2>3 DEF Positions, Window
  <2> HIDE DEF off
  <2>6. /\ Cardinality(shown) < WalkSize => \A i \in 1..n : off < i => i \in shown
        /\ ~(Cardinality(shown) < WalkSize) => off + WalkSize <= n
    <3> HIDE DEF shown, n
    <3> QED BY <1>1, <1>2, <2>2, <2>5, PageSize
  <2>7. shown \subseteq DOMAIN rows
    BY <1>1, <2>5 DEF Window
  <2>8. \A i \in 1..n : off < i => i \in shown \/ off + WalkSize < i
    BY <1>1, <1>2, <2>2, <2>5 DEF Window
  <2> HIDE DEF shown, n
  <2> DEFINE lost == (from.owed \ from.seen) \cap Behind(off)
  <2>9. from \in Walks /\ Cardinality(lost) <= from.left
    <3>1. CASE page = 1
      <4>1. from = [next |-> 1, owed |-> Listed, seen |-> {}, left |-> 0, done |-> FALSE]
        BY <3>1 DEF NoWalk
      <4>2. off = 0
        BY <1>2, <3>1 DEF off
      <4>3. Listed \in SUBSET Jobs
        BY <1>1 DEF Listed
      <4>4. Listed \cap Behind(0) = {}
        BY <1>1 DEF Listed, Behind
      <4> HIDE DEF from
      <4>5. from \in Walks
        BY <4>1, <4>3 DEF Walks
      <4>6. lost = {} /\ from.left = 0
        BY <4>1, <4>2, <4>4
      <4>7. Cardinality(lost) = 0
        BY <4>6, FS_EmptySet
      <4> QED BY <4>5, <4>6, <4>7
    <3>2. CASE page # 1
      <4>1. from = walk /\ off = Reached /\ ~walk.done
        BY <1>4, <3>2 DEF off, Reached
      <4> HIDE DEF from
      <4> QED BY <4>1 DEF WalkOK, Lost, Unseen
    <3> QED BY <3>1, <3>2
  <2> HIDE DEF from
  <2>10. got \in SUBSET Jobs
    BY <1>1, <2>7
  <2> DEFINE full == ~(Cardinality(shown) < WalkSize)
             w1 == [from EXCEPT !.next = page + 1]
             w2 == [w1 EXCEPT !.seen = from.seen \cup got]
             w3 == [w2 EXCEPT !.done = ~full]
  <2>11. walk' = w3
    BY <2>1, <2>9 DEF Walks
  <2>12. full \in BOOLEAN
    OBVIOUS
  <2> HIDE DEF got, full
  <2>13. /\ w1 \in Walks
         /\ w1.next = page + 1 /\ w1.owed = from.owed /\ w1.left = from.left
    BY <2>9 DEF Walks
  <2> HIDE DEF w1
  <2>14. /\ w2 \in Walks
         /\ w2.next = page + 1 /\ w2.owed = from.owed /\ w2.left = from.left
         /\ w2.seen = from.seen \cup got
    <3>1. from.seen \cup got \in SUBSET Jobs
      BY <2>9, <2>10 DEF Walks
    <3> QED BY <2>13, <3>1 DEF Walks
  <2> HIDE DEF w2
  <2>15. /\ w3 \in Walks
         /\ w3.next = page + 1 /\ w3.owed = from.owed /\ w3.left = from.left
         /\ w3.seen = from.seen \cup got /\ w3.done = ~full
    BY <2>12, <2>14 DEF Walks
  <2> HIDE DEF w3
  <2>16. Reached' = off + WalkSize
    <3>1. (page + 1) - 1 = page
      OBVIOUS
    <3>2. walk'.next = page + 1
      BY <2>11, <2>15
    <3>3. Reached' = page * WalkSize
      BY <3>1, <3>2 DEF Reached
    <3> QED BY <2>4, <3>3
  <2>17. ~walk'.done => Reached' <= MaxRows
    <3>1. full => off + WalkSize <= n
      BY <2>6 DEF full
    <3>2. full => off + WalkSize <= MaxRows
      BY <1>1, <1>2, <2>2, <3>1
    <3>3. walk'.done = ~full
      BY <2>11, <2>15
    <3> QED BY <2>16, <3>2, <3>3, Zenon
  <2>18. ASSUME NEW x \in Lost' PROVE x \in lost
    <3>1. x \in from.owed /\ x \notin from.seen /\ x \notin got
      BY <2>11, <2>15 DEF Lost, Unseen
    <3>2. x \in Jobs
      BY <2>9, <3>1 DEF Walks
    <3>3. ~full \/ ~\E i \in DOMAIN rows : rows[i] = x /\ off + WalkSize < i
      BY <2>11, <2>15, <2>16 DEF Lost, Behind
    <3>4. ASSUME NEW i \in DOMAIN rows, rows[i] = x, off < i PROVE FALSE
      <4>1. i \notin shown
        BY <3>1, <3>4 DEF got
      <4>2. full /\ off + WalkSize < i
        BY <1>1, <2>6, <2>8, <3>4, <4>1 DEF full
      <4> QED BY <3>3, <3>4, <4>2
    <3> QED BY <3>1, <3>2, <3>4 DEF Behind
  <2>19. Cardinality(Lost') <= walk'.left
    <3>1. lost \in SUBSET Jobs /\ Lost' \in SUBSET lost
      BY <2>18 DEF Behind
    <3> HIDE DEF lost
    <3>2. /\ Cardinality(Lost') <= Cardinality(lost)
          /\ Cardinality(lost) \in Nat /\ Cardinality(Lost') \in Nat
      <4>1. Lost' \in SUBSET Jobs
        BY <3>1
      <4> QED BY <3>1, <4>1, JobsFinite
    <3>3. walk'.left = from.left /\ from.left \in Nat
      BY <2>9, <2>11, <2>15 DEF Walks
    <3> QED BY <2>9, <3>2, <3>3
  <2>20. walk' \in Walks
    BY <2>11, <2>15
  <2> HIDE DEF lost
  <2> QED BY <2>17, <2>19, <2>20 DEF WalkOK, Walks, Jobs
<1> QED BY <1>3, <1>4

\* When the reader stays where it is and a job gets in, nothing falls behind.
LEMMA EnlistKeepsWalk ==
  ASSUME RowsOK, WalkOK, NEW j \in Jobs, Enlist(j), UNCHANGED walk
  PROVE  WalkOK'
<1>1. \A i \in DOMAIN rows : \E k \in DOMAIN rows' : i <= k /\ rows'[k] = rows[i]
  BY EnlistShifts
<1>2. Reached' = Reached /\ Reached \in Int
  BY ListAssumption, PagingAssumption DEF Reached, WalkOK, Walks
<1>3. DOMAIN rows \subseteq Int /\ DOMAIN rows' \subseteq Int
  BY EnlistShifts DEF RowsOK
<1>4. Lost' \subseteq Lost
  <2>1. ASSUME NEW x \in Jobs, NEW i \in DOMAIN rows, rows[i] = x, Reached < i
        PROVE  \E k \in DOMAIN rows' : rows'[k] = x /\ Reached < k
    BY <1>1, <1>2, <1>3, <2>1
  <2>2. Behind(Reached)' \subseteq Behind(Reached)
    BY <1>2, <2>1 DEF Behind, Jobs
  <2> QED BY <2>2 DEF Lost, Unseen
<1>5. Lost \in SUBSET Jobs
  BY DEF Lost, Unseen, WalkOK, Walks
<1>6. /\ Cardinality(Lost') <= Cardinality(Lost)
      /\ Cardinality(Lost) \in Nat /\ Cardinality(Lost') \in Nat
  <2>1. Lost' \in SUBSET Jobs /\ Lost' \in SUBSET Lost
    BY <1>4, <1>5
  <2> QED BY <1>5, <2>1, JobsFinite
<1>7. Cardinality(Lost') <= walk.left
  BY <1>6 DEF WalkOK, Walks
<1> QED BY <1>2, <1>7 DEF WalkOK, Walks, Jobs

\* When a job leaves the list, at most one falls behind the reader: it, or, if
\* it was behind already, the one that moves up to the last place that was read.
LEMMA LeavesKeepsWalk ==
  ASSUME RowsOK, WalkOK, NEW i \in DOMAIN rows, Leaves(i)
  PROVE  WalkOK'
<1> DEFINE off == Reached
           w == [walk EXCEPT !.left = @ + 1]
<1>0. DOMAIN rows \subseteq Int /\ DOMAIN rows' \subseteq Int /\ Jobs \subseteq Int
  BY LeavesShifts DEF RowsOK, Jobs
<1>1. /\ \A k \in DOMAIN rows : k < i => k \in DOMAIN rows' /\ rows'[k] = rows[k]
      /\ \A k \in DOMAIN rows : k > i => k - 1 \in DOMAIN rows' /\ rows'[k - 1] = rows[k]
  BY LeavesShifts
<1>2. walk' = w /\ ~walk.done /\ walk \in Walks
  BY DEF Leaves, Reading, WalkOK
<1>3. /\ w \in Walks /\ w.next = walk.next /\ w.owed = walk.owed /\ w.seen = walk.seen
      /\ w.done = walk.done /\ w.left = walk.left + 1
  BY <1>2 DEF Walks
<1> HIDE DEF w
<1>4. Reached' = off /\ off \in Int
  BY <1>2, <1>3, ListAssumption, PagingAssumption DEF Reached, Walks
<1> HIDE DEF off
<1> DEFINE last == IF i <= off THEN off + 1 ELSE i
<1>5. ASSUME NEW k \in DOMAIN rows, off < k, k # last
      PROVE  \E m \in DOMAIN rows' : rows'[m] = rows[k] /\ off < m
  <2>1. CASE k < i
    BY <1>1, <1>5, <2>1
  <2>2. CASE k > i
    <3>1. off < k - 1
      BY <1>0, <1>4, <1>5, <2>2
    <3> QED BY <1>1, <2>2, <3>1
  <2>3. k # i
    BY <1>0, <1>4, <1>5
  <2> QED BY <1>0, <2>1, <2>2, <2>3
<1> HIDE DEF last
<1>6. Lost' \subseteq Lost \cup {rows[last]}
  <2> SUFFICES ASSUME NEW x \in Lost', x # rows[last] PROVE x \in Lost
    OBVIOUS
  <2>1. x \in Unseen /\ x \in Jobs /\ ~\E m \in DOMAIN rows' : rows'[m] = x /\ off < m
    BY <1>2, <1>3, <1>4 DEF Lost, Unseen, Behind, Jobs
  <2>2. ASSUME NEW k \in DOMAIN rows, rows[k] = x, off < k PROVE FALSE
    <3>1. k # last
      BY <2>2
    <3> QED BY <1>5, <2>1, <2>2, <3>1
  <2> QED BY <1>2, <2>1, <2>2 DEF Lost, Behind, off
<1>7. Lost \in SUBSET Jobs /\ Lost' \in SUBSET Jobs
  BY <1>2, <1>3 DEF Lost, Unseen, Walks
<1>8. /\ Cardinality(Lost') <= Cardinality(Lost) + 1
      /\ Cardinality(Lost) \in Nat /\ Cardinality(Lost') \in Nat
  <2> DEFINE y == rows[last]
  <2>1. Cardinality(Lost \cup {y}) <= Cardinality(Lost) + 1 /\ Cardinality(Lost) \in Nat
    BY <1>7, JobsFinite
  <2>2. Cardinality(Lost') \in Nat
    BY <1>7, JobsFinite
  <2>3. IsFiniteSet(Lost \cup {y}) /\ Cardinality(Lost \cup {y}) \in Nat
    BY <1>7, JobsFinite, FS_AddElement, FS_CardinalityType
  <2>4. Lost' \in SUBSET (Lost \cup {y})
    BY <1>6
  <2> HIDE DEF y
  <2>5. Cardinality(Lost') <= Cardinality(Lost \cup {y})
    BY <2>3, <2>4, FS_Subset
  <2> QED BY <2>1, <2>2, <2>3, <2>5
<1>9. Cardinality(Lost') <= walk'.left
  BY <1>2, <1>3, <1>8 DEF WalkOK, Walks
<1>10. ~walk'.done => Reached' <= MaxRows
  <2>1. Reached <= MaxRows
    BY <1>2 DEF WalkOK
  <2>2. off <= MaxRows
    BY <2>1 DEF off
  <2> QED BY <1>4, <2>2
<1> QED BY <1>2, <1>3, <1>9, <1>10 DEF WalkOK, Walks, Jobs

-----------------------------------------------------------------------------
(* The service *)

IInv == RequestsOK /\ RowsOK /\ WalkOK

LEMMA InitIInv == ASSUME Init PROVE IInv
<1>1. request = [c \in Callers |-> NoRequest] /\ walk = NoWalk
  BY DEF Init
<1>2. RequestsOK
  BY <1>1, NoRequestOK DEF RequestsOK, RequestOK
<1> QED BY <1>1, <1>2, InitRows, NoWalkOK DEF IInv

LEMMA SameServiceVars == ASSUME IInv, UNCHANGED serviceVars PROVE IInv'
BY DEF IInv, serviceVars, RequestsOK, RequestOK, RowsOK, Descending, WalkOK, Reached,
   Lost, Unseen, Behind, Walks, Jobs

LEMMA SameList == ASSUME IInv, RequestsOK', UNCHANGED <<rows, walk>> PROVE IInv'
BY DEF IInv, RowsOK, Descending, WalkOK, Reached, Lost, Unseen, Behind, Walks, Jobs

LEMMA ServeListIInv ==
  ASSUME IInv, NEW c \in Callers, NEW page \in Pages, NEW size \in Sizes,
         ServeList(c, page, size)
  PROVE  IInv'
<1> DEFINE filter == ListFilter(page, size)
<1>1. RequestsOK'
  BY ServeListOK DEF IInv
<1>2. UNCHANGED rows
  BY DEF ServeList
<1>3. RowsOK'
  BY <1>2 DEF IInv, RowsOK, Descending, Jobs
<1>4. CASE UNCHANGED walk
  BY <1>1, <1>2, <1>4, SameList
<1>5. CASE /\ filter.size = WalkSize
           /\ walk' = WalkedOn(filter.page, Positions(filter, Len(rows)))
  <2>1. filter.page \in Nat \ {0}
    BY Normalized
  <2> HIDE DEF filter
  <2>2. WalkOK'
    BY <1>2, <1>5, <2>1, WalkedOnOK DEF IInv
  <2> QED BY <1>1, <1>3, <2>2 DEF IInv
<1> QED BY <1>4, <1>5 DEF ServeList

LEMMA CreateIInv ==
  ASSUME IInv, NEW c \in Callers, NEW export \in Exports, NEW verdict \in Verdicts,
         CreateDescribed(c, export, verdict)
  PROVE  IInv'
<1>1. RequestsOK' /\ UNCHANGED walk
  BY CreateOK DEF IInv, CreateDescribed
<1>2. CASE UNCHANGED rows
  BY <1>1, <1>2, SameList
<1>3. ASSUME NEW j \in Jobs, Enlist(j) PROVE IInv'
  BY <1>1, <1>3, EnlistShifts, EnlistKeepsWalk DEF IInv
<1> QED BY <1>2, <1>3 DEF CreateDescribed

LEMMA HandleIInv == ASSUME IInv, NEW c \in Callers, Handle(c) PROVE IInv'
<1>1. ASSUME NEW granted \in BOOLEAN, Verified(c, granted) PROVE IInv'
  BY <1>1, VerifiedOK, SameList DEF IInv, Verified
<1>2. ASSUME NEW verdict \in Verdicts, Read(c, verdict) \/ NoDiscovery(c, verdict)
      PROVE  IInv'
  <2>1. /\ request[c].stage \in {"scoped", "describe"} /\ Becomes(c, Answered(c, verdict))
        /\ UNCHANGED <<rows, walk>>
    BY <1>2 DEF Read, NoDiscovery, Scoped
  <2> QED BY <2>1, PlainAnswerOK, SameList DEF IInv
<1>3. ASSUME NEW verdict \in Verdicts, NEW repeatable \in BOOLEAN, Change(c, verdict, repeatable)
      PROVE  IInv'
  BY <1>3, ChangeOK, SameList DEF IInv, Change
<1>4. ASSUME NEW verdict \in Verdicts, NEW repeatable \in BOOLEAN, Ask(c, verdict, repeatable)
      PROVE  IInv'
  BY <1>4, AskOK, SameList DEF IInv, Ask
<1>5. ASSUME NotDescribed(c) \/ Describe(c) PROVE IInv'
  <2>1. PICK verdict \in Verdicts : Becomes(c, Answered(c, verdict))
    BY <1>5 DEF NotDescribed, Describe, Verdicts
  <2>2. /\ request[c].stage \in {"scoped", "describe"}
        /\ UNCHANGED <<rows, walk>>
    BY <1>5 DEF NotDescribed, Describe
  <2> QED BY <2>1, <2>2, PlainAnswerOK, SameList DEF IInv
<1>6. ASSUME NEW export \in Exports, NEW verdict \in Verdicts, CreateDescribed(c, export, verdict)
      PROVE  IInv'
  BY <1>6, CreateIInv
<1>7. ASSUME NEW page \in Pages, NEW size \in Sizes, ServeList(c, page, size) PROVE IInv'
  BY <1>7, ServeListIInv
<1>8. ASSUME NEW page \in Pages, NEW size \in Sizes, ServeCatalog(c, page, size) PROVE IInv'
  BY <1>8, ServeCatalogOK, SameList DEF IInv, ServeCatalog
<1> QED BY <1>1, <1>2, <1>3, <1>4, <1>5, <1>6, <1>7, <1>8 DEF Handle

LEMMA ArriveIInv == ASSUME IInv, NEW c \in Callers, Arrive(c) PROVE IInv'
<1>1. ASSUME NEW arrival \in Arrivals, NEW repeatable \in BOOLEAN,
             Receive(c, arrival, repeatable)
      PROVE  IInv'
  BY <1>1, ReceiveOK, SameList DEF IInv, Receive
<1>2. ASSUME NEW u \in HttpUpstreams, NEW repeatable \in BOOLEAN, CallPartner(c, u, repeatable)
      PROVE  IInv'
  BY <1>2, NoRequestOK, Updated, SameList DEF IInv, CallPartner
<1> QED BY <1>1, <1>2 DEF Arrive

LEMMA LeavesIInv == ASSUME IInv, NEW i \in DOMAIN rows, Leaves(i) PROVE IInv'
<1>1. RowsOK' /\ WalkOK' /\ UNCHANGED request
  BY LeavesShifts, LeavesKeepsWalk DEF IInv, Leaves
<1>2. RequestsOK'
  BY <1>1 DEF IInv, RequestsOK, RequestOK
<1> QED BY <1>1, <1>2 DEF IInv

LEMMA EntersIInv == ASSUME IInv, NEW j \in Jobs, Enters(j) PROVE IInv'
<1>1. RowsOK' /\ WalkOK' /\ UNCHANGED request
  BY EnlistShifts, EnlistKeepsWalk DEF IInv, Enters
<1>2. RequestsOK'
  BY <1>1 DEF IInv, RequestsOK, RequestOK
<1> QED BY <1>1, <1>2 DEF IInv

LEMMA StepIInv == ASSUME IInv, [Next]_vars PROVE IInv'
<1>1. ASSUME NEW c \in Callers, Arrive(c) PROVE IInv'
  BY <1>1, ArriveIInv
<1>2. ASSUME NEW c \in Callers, Handle(c) PROVE IInv'
  BY <1>2, HandleIInv
<1>3. ASSUME NEW c \in Callers, PartnerDone(c) PROVE IInv'
  BY <1>3, SameServiceVars DEF PartnerDone
<1>4. ASSUME NEW i \in DOMAIN rows, Leaves(i) PROVE IInv'
  BY <1>4, LeavesIInv
<1>5. ASSUME NEW j \in Jobs, Enters(j) PROVE IInv'
  BY <1>5, EntersIInv
<1>6. ASSUME UNCHANGED serviceVars PROVE IInv'
  BY <1>6, SameServiceVars
<1> QED BY <1>1, <1>2, <1>3, <1>4, <1>5, <1>6 DEF Next, vars

\* In every order of checks, outages, retries and second verifications, only
\* the entitled get an answer that is ok or change a job, and only an export
\* that fits its dataset is created (authenticateGRPC, authorizeScope,
\* validateDataset).
THEOREM EntitledOnly == Spec => []OnlyTheEntitled
<1>1. Init => IInv
  BY InitIInv
<1>2. IInv /\ [Next]_vars => IInv'
  BY StepIInv
<1>3. IInv => OnlyTheEntitled
  BY DEF IInv, RequestsOK, RequestOK, OnlyTheEntitled
<1> QED BY <1>1, <1>2, <1>3, PTL DEF Spec

\* Reading page after page until one is not full misses at most one job for
\* each that left the list meanwhile, for every list, every size of page and
\* every order of creations, purges and changes of status (repository.go List).
THEOREM WalksMissOnlyForLeft == Spec => []WalkMissesOnlyForLeft
<1>1. Init => IInv
  BY InitIInv
<1>2. IInv /\ [Next]_vars => IInv'
  BY StepIInv
<1>3. IInv => WalkMissesOnlyForLeft
  BY DEF IInv, WalkOK, Lost, Unseen, WalkMissesOnlyForLeft
<1> QED BY <1>1, <1>2, <1>3, PTL DEF Spec

\* What OutboundCalls promises of bodies and breakers, the service promises
\* too.
THEOREM ServiceOwnsBodies == Spec => []BodiesOwned
BY ServiceImplementsCalls, BodiesAreOwned, PTL

THEOREM ServiceBreakersCountCalls == Spec => TripsOnDistinctCalls
BY ServiceImplementsCalls, BreakersCountCalls, PTL
=============================================================================
