--------------------------- MODULE HttpGateProofs ---------------------------
(***************************************************************************)
(* What the idempotency gate guarantees for any number of concurrent       *)
(* requests, keys, callers and operations, with failures anywhere.         *)
(*                                                                         *)
(* The invariant says why: a request that holds its key still has its      *)
(* marker, because a request ends at its deadline and the marker outlives  *)
(* it (Holders, Timely); kept answers were given by a handler (Genuine);   *)
(* behind the authorization only permitted callers are served (Admitted);  *)
(* a success is about to be kept or is kept (Memory).                      *)
(***************************************************************************)
EXTENDS HttpGate, TLAPS

\* A request is served between its arrival and its deadline.
Timely == \A s \in Slots : slot[s].stage > 0 => slot[s].arrived <= clock /\ clock <= Deadline(s)

\* The marker of a held key is its holder's, and expires after its deadline.
Holders ==
    \A s \in Slots : slot[s].acquired =>
        /\ slot[s].stage > 0
        /\ slot[s].key \in Keys
        /\ marker[slot[s].key].state = "processing"
        /\ marker[slot[s].key].owner = s
        /\ marker[slot[s].key].until >= slot[s].arrived + ProcessingTTL

\* Answers to be kept come from requests that hold their key.
Savers == \A s \in Slots : slot[s].saving => slot[s].acquired

\* A handler has told this caller this outcome of this operation.
Told(k, u, o, status) ==
    \E h \in answers : /\ h.via = "handler" /\ h.key = k /\ h.who = u /\ h.op = o
                       /\ h.status = status

Genuine ==
    /\ \A s \in Slots : slot[s].saving =>
          Told(slot[s].key, slot[s].who, slot[s].op, slot[s].status)
    /\ \A k \in Keys : marker[k].state \in {"completed", "failed"} =>
          Told(k, marker[k].who, marker[k].op, marker[k].status)

\* The permission was there on arrival if it is there now or was checked.
Admitted ==
    \A s \in Slots :
        /\ slot[s].stage > 0 /\ slot[s].who \in permitted => slot[s].allowed
        /\ slot[s].stage > 1 => slot[s].allowed

\* Requests in service have a caller and an operation.
Served == \A s \in Slots : slot[s].stage > 0 => slot[s].who \in Subjects /\ slot[s].op \in Ops

GateInv ==
    /\ TypeOK
    /\ Served
    /\ Timely
    /\ Holders
    /\ Savers
    /\ Genuine
    /\ Admitted
    /\ ReplayIsGenuine
    /\ PermittedOnly

-----------------------------------------------------------------------------
LEMMA ChainFacts ==
    /\ Len(Chain) = 3
    /\ Chain[1] = "authz" /\ Chain[2] = "gate" /\ Chain[3] = "handler"
BY DEF Chain

\* Where a request is, by the middleware it has reached.
LEMMA Stages ==
    ASSUME TypeOK, NEW s \in Slots
    PROVE  /\ At(s, "authz") => slot[s].stage = 1 /\ ~slot[s].saving
           /\ At(s, "gate") => slot[s].stage = 2 /\ ~slot[s].saving
           /\ At(s, "handler") => slot[s].stage = 3 /\ ~slot[s].saving
<1>1. slot[s].stage \in {0, 1, 2, 3}
  BY ChainFacts DEF TypeOK, SlotState
<1>2. QED
  BY <1>1, ChainFacts DEF At

LEMMA IdleTyped == IdleSlot \in SlotState
BY ChainFacts DEF IdleSlot, SlotState, Statuses

\* The slot's fields, typed.
LEMMA SlotFields ==
    ASSUME TypeOK, NEW s \in Slots
    PROVE  /\ slot[s].stage \in 0 .. 3 /\ slot[s].key \in Keys \cup {None}
           /\ slot[s].who \in Subjects \cup {None} /\ slot[s].op \in Ops \cup {None}
           /\ slot[s].allowed \in BOOLEAN /\ slot[s].acquired \in BOOLEAN
           /\ slot[s].saving \in BOOLEAN /\ slot[s].status \in Statuses
           /\ slot[s].arrived \in Nat
BY ChainFacts DEF TypeOK, SlotState

LEMMA MarkerFields ==
    ASSUME TypeOK, NEW k \in Keys
    PROVE  /\ marker[k] \in Marker
           /\ marker[k].until \in Nat /\ marker[k].status \in Statuses
           /\ marker[k].who \in Subjects \cup {None} /\ marker[k].op \in Ops \cup {None}
BY DEF TypeOK, Marker

\* A held key is never free for another request.
LEMMA HeldIsLive ==
    ASSUME TypeOK, Timely, Holders, NEW s \in Slots, slot[s].acquired
    PROVE  Live(slot[s].key)
<1>1. /\ slot[s].arrived \in Nat /\ slot[s].saving \in BOOLEAN /\ clock \in Nat
      /\ slot[s].key \in Keys
  BY SlotFields DEF TypeOK, Holders
<1>2. marker[slot[s].key].until \in Nat
  BY <1>1, MarkerFields
<1>3. Deadline(s) <= slot[s].arrived + RequestTimeout + PersistTimeout
  BY <1>1, TimesAssumption DEF Deadline
<1>4. clock <= Deadline(s)
  BY DEF Timely, Holders
<1>5. marker[slot[s].key].until >= slot[s].arrived + ProcessingTTL
  BY DEF Holders
<1>6. Deadline(s) \in Nat
  BY <1>1, TimesAssumption DEF Deadline
<1>7. clock < marker[slot[s].key].until
  BY <1>1, <1>2, <1>3, <1>4, <1>5, <1>6, TimesAssumption, MarkerOutlivesRequest
<1>8. marker[slot[s].key].state # "none"
  BY DEF Holders
<1>9. QED
  BY <1>7, <1>8 DEF Live

-----------------------------------------------------------------------------
(* One lemma per kind of step *)

\* An answer to a request behind the authorization.
LEMMA TellKeeps ==
    ASSUME GateInv, NEW s \in Slots, slot[s].stage > 1, NEW status \in Statuses,
           NEW via \in {"handler", "gate"}, Tell(s, status, via),
           via = "gate" => Told(slot[s].key, slot[s].who, slot[s].op, status)
    PROVE  /\ answers' \subseteq Answer
           /\ answers \subseteq answers'
           /\ ReplayIsGenuine'
           /\ PermittedOnly'
           /\ via = "handler" =>
                 \E h \in answers' : /\ h.via = "handler" /\ h.key = slot[s].key
                                     /\ h.who = slot[s].who /\ h.op = slot[s].op
                                     /\ h.status = status
<1> DEFINE a == [key |-> slot[s].key, who |-> slot[s].who, op |-> slot[s].op,
                 status |-> status, via |-> via, allowed |-> slot[s].allowed, at |-> clock]
<1>1. slot[s].stage > 0
  BY SlotFields DEF GateInv
<1>2. /\ slot[s].who \in Subjects /\ slot[s].op \in Ops
      /\ slot[s].key \in Keys \cup {None} /\ slot[s].allowed \in BOOLEAN
      /\ slot[s].allowed /\ clock \in Nat
  BY <1>1, SlotFields DEF GateInv, Served, Admitted, TypeOK
<1>3. a \in Answer
  BY <1>2 DEF Answer
<1>4. answers' = answers \cup {a}
  BY DEF Tell
<1>5. /\ a.key = slot[s].key /\ a.who = slot[s].who /\ a.op = slot[s].op
      /\ a.status = status /\ a.via = via /\ a.allowed
  BY <1>2
<1> HIDE DEF a
<1>6. answers' \subseteq Answer /\ answers \subseteq answers'
  BY <1>3, <1>4 DEF GateInv, TypeOK
<1>7. PermittedOnly'
  BY <1>4, <1>5 DEF GateInv, PermittedOnly
<1>8. ReplayIsGenuine'
  BY <1>4, <1>5 DEF GateInv, ReplayIsGenuine, Told
<1>9. QED
  BY <1>4, <1>5, <1>6, <1>7, <1>8

\* A request that leaves: the claims of the others stay as they are.
LEMMA LeaveKeeps ==
    ASSUME GateInv, NEW s \in Slots, Leave(s), UNCHANGED <<permitted, clock>>,
           done' \subseteq Ops, requests' \in Nat, faults' \in Nat,
           answers' \subseteq Answer, answers \subseteq answers',
           ReplayIsGenuine', PermittedOnly',
           marker' \in [Keys -> Marker],
           \A t \in Slots : t # s /\ slot[t].acquired =>
                marker'[slot[t].key] = marker[slot[t].key],
           \A k \in Keys :
                \/ marker'[k] = marker[k]
                \/ marker'[k].state \in {"completed", "failed"} =>
                      \E h \in answers' : /\ h.via = "handler" /\ h.key = k
                                          /\ h.who = marker'[k].who /\ h.op = marker'[k].op
                                          /\ h.status = marker'[k].status
    PROVE  GateInv'
<1>1. slot' \in [Slots -> SlotState]
  BY IdleTyped DEF GateInv, TypeOK, Leave
<1>2. TypeOK'
  BY <1>1 DEF GateInv, TypeOK
<1>3. \A t \in Slots : slot'[t] = IF t = s THEN IdleSlot ELSE slot[t]
  BY DEF GateInv, TypeOK, Leave
<1>4. IdleSlot.stage = 0 /\ ~IdleSlot.acquired /\ ~IdleSlot.saving
  BY DEF IdleSlot
<1>5. Served'
  BY <1>3, <1>4 DEF GateInv, Served
<1>6. Timely'
  BY <1>3, <1>4 DEF GateInv, Timely, Deadline
<1>7. Holders'
  BY <1>3, <1>4 DEF GateInv, Holders
<1>8. Savers'
  BY <1>3, <1>4 DEF GateInv, Savers
<1>9. Genuine'
  <2>1. ASSUME NEW t \in Slots, slot'[t].saving
        PROVE  Told(slot[t].key, slot[t].who, slot[t].op, slot[t].status)' /\ slot'[t] = slot[t]
    BY <2>1, <1>3, <1>4 DEF GateInv, Genuine, Told
  <2>2. ASSUME NEW k \in Keys, marker'[k].state \in {"completed", "failed"}
        PROVE  Told(k, marker[k].who, marker[k].op, marker[k].status)'
    BY <2>2 DEF GateInv, Genuine, Told
  <2>3. QED
    BY <2>1, <2>2 DEF Genuine
<1>10. Admitted'
  BY <1>3, <1>4 DEF GateInv, Admitted
<1>11. QED
  BY <1>2, <1>5, <1>6, <1>7, <1>8, <1>9, <1>10 DEF GateInv

\* The most frequent case of it: nothing else changes.
LEMMA PlainLeaveKeeps ==
    ASSUME GateInv, NEW s \in Slots, Leave(s), UNCHANGED <<marker, permitted, answers, clock>>,
           done' \subseteq Ops, requests' \in Nat, faults' \in Nat
    PROVE  GateInv'
<1>1. ReplayIsGenuine' /\ PermittedOnly'
  BY DEF GateInv, ReplayIsGenuine, PermittedOnly
<1>2. answers' \subseteq Answer /\ answers \subseteq answers' /\ marker' \in [Keys -> Marker]
  BY DEF GateInv, TypeOK
<1>3. \A t \in Slots : t # s /\ slot[t].acquired => marker'[slot[t].key] = marker[slot[t].key]
  OBVIOUS
<1>4. \A k \in Keys : marker'[k] = marker[k]
  OBVIOUS
<1>5. QED
  BY <1>1, <1>2, <1>3, <1>4, LeaveKeeps

\* A request that goes on to the next middleware, once it may.
LEMMA AdvanceKeeps ==
    ASSUME GateInv, NEW s \in Slots, Advance(s), slot[s].stage \in {1, 2},
           slot[s].who \in permitted \/ slot[s].stage = 2,
           UNCHANGED <<marker, done, permitted, answers, clock, requests, faults>>
    PROVE  GateInv'
<1> DEFINE moved == [slot[s] EXCEPT !.stage = @ + 1]
<1>1. slot[s] \in SlotState /\ slot[s].stage + 1 \in 0 .. Len(Chain)
  BY ChainFacts DEF GateInv, TypeOK
<1>2. moved \in SlotState
  BY <1>1 DEF SlotState
<1>3. \A t \in Slots : slot'[t] = IF t = s THEN moved ELSE slot[t]
  BY DEF GateInv, TypeOK, Advance
<1>4. slot' \in [Slots -> SlotState]
  BY <1>2 DEF GateInv, TypeOK, Advance
<1>5. /\ moved.stage = slot[s].stage + 1
      /\ moved.key = slot[s].key /\ moved.who = slot[s].who /\ moved.op = slot[s].op
      /\ moved.allowed = slot[s].allowed /\ moved.acquired = slot[s].acquired
      /\ moved.saving = slot[s].saving /\ moved.status = slot[s].status
      /\ moved.arrived = slot[s].arrived
  BY <1>1 DEF SlotState
<1>6. moved.stage > 0 /\ slot[s].stage > 0
  BY <1>5
<1> HIDE DEF moved
<1>7. TypeOK'
  BY <1>4 DEF GateInv, TypeOK
<1>8. Served'
  BY <1>3, <1>5, <1>6 DEF GateInv, Served
<1>9. Timely'
  BY <1>3, <1>5, <1>6 DEF GateInv, Timely, Deadline
<1>10. Holders'
  BY <1>3, <1>5, <1>6 DEF GateInv, Holders
<1>11. Savers'
  BY <1>3, <1>5 DEF GateInv, Savers
<1>12. Genuine'
  BY <1>3, <1>5 DEF GateInv, Genuine, Told
<1>13. slot[s].allowed
  BY <1>6 DEF GateInv, Admitted
<1>14. Admitted'
  BY <1>3, <1>5, <1>13 DEF GateInv, Admitted
<1>15. QED
  BY <1>7, <1>8, <1>9, <1>10, <1>11, <1>12, <1>14
     DEF GateInv, ReplayIsGenuine, PermittedOnly

LEMMA ArriveKeeps ==
    ASSUME GateInv, NEW s \in Slots, NEW k \in Keys \cup {None}, NEW u \in Subjects,
           NEW o \in Ops, Arrive(s, k, u, o)
    PROVE  GateInv'
<1> DEFINE new == [stage |-> 1, key |-> k, who |-> u, op |-> o,
                   allowed |-> u \in permitted, acquired |-> FALSE,
                   saving |-> FALSE, status |-> "error", arrived |-> clock]
<1>1. (u \in permitted) \in BOOLEAN
  OBVIOUS
<1>2. new \in SlotState
  BY <1>1, ChainFacts DEF GateInv, TypeOK, SlotState, Statuses
<1>3. \A t \in Slots : slot'[t] = IF t = s THEN new ELSE slot[t]
  BY DEF GateInv, TypeOK, Arrive
<1>4. slot' = [slot EXCEPT ![s] = new]
  BY DEF Arrive
<1>5. /\ new.stage = 1 /\ new.who = u /\ new.op = o /\ new.arrived = clock
      /\ ~new.acquired /\ ~new.saving /\ (u \in permitted => new.allowed)
  OBVIOUS
<1> HIDE DEF new
<1>6. requests' \in Nat /\ UNCHANGED <<marker, done, permitted, answers, clock, faults>>
  BY DEF GateInv, TypeOK, Arrive
<1>7. TypeOK'
  BY <1>2, <1>4, <1>6 DEF GateInv, TypeOK
<1>8. Served'
  BY <1>3, <1>5 DEF GateInv, Served
<1>9. Timely'
  <2>1. clock \in Nat
    BY DEF GateInv, TypeOK
  <2>2. SUFFICES ASSUME NEW t \in Slots, slot'[t].stage > 0
                 PROVE  slot'[t].arrived <= clock' /\ clock' <= Deadline(t)'
    BY DEF Timely
  <2>3. CASE t = s
    BY <2>1, <2>3, <1>3, <1>5, <1>6, TimesAssumption DEF Deadline
  <2>4. CASE t # s
    BY <2>2, <2>4, <1>3, <1>6 DEF GateInv, Timely, Deadline
  <2>5. QED
    BY <2>3, <2>4
<1>10. Holders'
  BY <1>3, <1>5, <1>6 DEF GateInv, Holders
<1>11. Savers'
  BY <1>3, <1>5 DEF GateInv, Savers
<1>12. Genuine'
  BY <1>3, <1>5, <1>6 DEF GateInv, Genuine, Told
<1>13. Admitted'
  BY <1>3, <1>5, <1>6 DEF GateInv, Admitted
<1>14. QED
  BY <1>6, <1>7, <1>8, <1>9, <1>10, <1>11, <1>12, <1>13
     DEF GateInv, ReplayIsGenuine, PermittedOnly

\* A free key gets a new marker, without or with an owner: no holder loses it.
LEMMA FreshMarkerKeeps ==
    ASSUME GateInv, NEW s \in Slots, NEW k \in Keys, ~Live(k), NEW owner \in Slots \cup {None},
           slot[s].stage > 0
    PROVE  LET fresh == [state |-> "processing", owner |-> owner, who |-> slot[s].who,
                         op |-> slot[s].op, status |-> "error",
                         until |-> clock + ProcessingTTL]
           IN  /\ fresh \in Marker
               /\ \A t \in Slots : slot[t].acquired => slot[t].key # k
<1>1. clock + ProcessingTTL \in Nat
  BY TimesAssumption DEF GateInv, TypeOK
<1>2. slot[s].who \in Subjects \cup {None} /\ slot[s].op \in Ops \cup {None}
  BY SlotFields DEF GateInv
<1>3. \A t \in Slots : slot[t].acquired => slot[t].key # k
  BY HeldIsLive DEF GateInv
<1>4. QED
  BY <1>1, <1>2, <1>3 DEF Marker, Statuses

LEMMA AcquireKeeps ==
    ASSUME GateInv, NEW s \in Slots, NEW k \in Keys, GateAcquired(s, k)
    PROVE  GateInv'
<1> DEFINE held == [slot[s] EXCEPT !.stage = @ + 1, !.acquired = TRUE]
<1>1. /\ slot[s].stage = 2 /\ ~slot[s].saving /\ slot[s].key = k /\ ~Live(k)
      /\ UNCHANGED <<done, permitted, answers, clock, requests, faults>>
  BY Stages DEF GateInv, GateAcquired, AtGate
<1>2. slot[s] \in SlotState
  BY DEF GateInv, TypeOK
<1>3. held \in SlotState
  <2>1. [slot[s] EXCEPT !.stage = @ + 1] \in SlotState
    BY <1>1, <1>2, ChainFacts DEF SlotState
  <2>2. \A r \in SlotState : [r EXCEPT !.acquired = TRUE] \in SlotState
    BY DEF SlotState
  <2>3. held = [[slot[s] EXCEPT !.stage = @ + 1] EXCEPT !.acquired = TRUE]
    OBVIOUS
  <2>4. QED
    BY <2>1, <2>2, <2>3
<1>4. /\ held.stage = 3 /\ held.acquired
      /\ held.key = k /\ held.who = slot[s].who /\ held.op = slot[s].op
      /\ held.allowed = slot[s].allowed /\ held.saving = slot[s].saving
      /\ held.status = slot[s].status /\ held.arrived = slot[s].arrived
  BY <1>1, <1>2 DEF SlotState
<1>5. \A t \in Slots : slot'[t] = IF t = s THEN held ELSE slot[t]
  BY <1>2 DEF GateInv, TypeOK, GateAcquired
<1>6. slot' \in [Slots -> SlotState]
  <2>1. slot' = [slot EXCEPT ![s] = held]
    BY <1>2 DEF GateInv, TypeOK, GateAcquired
  <2>2. QED
    BY <2>1, <1>3 DEF GateInv, TypeOK
<1> HIDE DEF held
<1>7. Processing(s) \in Marker /\ \A t \in Slots : slot[t].acquired => slot[t].key # k
  BY <1>1, FreshMarkerKeeps DEF Processing
<1>8. \A h \in Keys : marker'[h] = IF h = k THEN Processing(s) ELSE marker[h]
  BY DEF GateInv, TypeOK, GateAcquired
<1>9. marker' \in [Keys -> Marker]
  BY <1>7 DEF GateInv, TypeOK, GateAcquired
<1>10. /\ Processing(s).state = "processing" /\ Processing(s).owner = s
       /\ Processing(s).until = clock + ProcessingTTL
  BY DEF Processing
<1>11. TypeOK'
  BY <1>1, <1>6, <1>9 DEF GateInv, TypeOK
<1>12. Served'
  BY <1>1, <1>4, <1>5 DEF GateInv, Served
<1>13. Timely'
  BY <1>1, <1>4, <1>5 DEF GateInv, Timely, Deadline
<1>14. Holders'
  <2>1. SUFFICES ASSUME NEW t \in Slots, slot'[t].acquired
                 PROVE  /\ slot'[t].stage > 0
                        /\ slot'[t].key \in Keys
                        /\ marker'[slot'[t].key].state = "processing"
                        /\ marker'[slot'[t].key].owner = t
                        /\ marker'[slot'[t].key].until >= slot'[t].arrived + ProcessingTTL
    BY DEF Holders
  <2>2. CASE t = s
    <3>1. slot[s].arrived <= clock /\ clock \in Nat /\ slot[s].arrived \in Nat
      BY <1>1, SlotFields DEF GateInv, Timely, TypeOK
    <3>2. QED
      BY <2>2, <3>1, <1>4, <1>5, <1>8, <1>10, TimesAssumption
  <2>3. CASE t # s
    BY <2>1, <2>3, <1>5, <1>7, <1>8 DEF GateInv, Holders
  <2>4. QED
    BY <2>2, <2>3
<1>15. Savers'
  BY <1>4, <1>5 DEF GateInv, Savers
<1>16. Genuine'
  BY <1>1, <1>4, <1>5, <1>8, <1>10 DEF GateInv, Genuine, Told
<1>17. Admitted'
  BY <1>1, <1>4, <1>5 DEF GateInv, Admitted
<1>18. QED
  BY <1>1, <1>11, <1>12, <1>13, <1>14, <1>15, <1>16, <1>17
     DEF GateInv, ReplayIsGenuine, PermittedOnly

LEMMA ReplayKeeps ==
    ASSUME GateInv, NEW s \in Slots, NEW k \in Keys, GateReplays(s, k)
    PROVE  GateInv'
<1>1. /\ slot[s].stage = 2 /\ slot[s].key = k /\ Leave(s)
      /\ UNCHANGED <<marker, done, permitted, clock, requests, faults>>
  BY Stages DEF GateInv, GateReplays, AtGate
<1>2. Told(slot[s].key, slot[s].who, slot[s].op, marker[k].status)
  BY <1>1 DEF GateInv, Genuine, GateReplays, SameFingerprint
<1>3. Tell(s, marker[k].status, "gate") /\ marker[k].status \in Statuses
  BY MarkerFields DEF GateInv, GateReplays
<1>4. slot[s].stage > 1
  BY <1>1
<1>5. /\ answers' \subseteq Answer /\ answers \subseteq answers'
      /\ ReplayIsGenuine' /\ PermittedOnly'
  BY <1>2, <1>3, <1>4, TellKeeps
<1>6. /\ marker' \in [Keys -> Marker] /\ done' \subseteq Ops
      /\ requests' \in Nat /\ faults' \in Nat
  BY <1>1 DEF GateInv, TypeOK
<1>7. QED
  BY <1>1, <1>5, <1>6, LeaveKeeps

LEMMA UnavailableKeeps ==
    ASSUME GateInv, NEW s \in Slots, NEW k \in Keys, GateUnavailable(s, k)
    PROVE  GateInv'
<1>1. /\ slot[s].stage = 2 /\ Leave(s) /\ UNCHANGED <<done, permitted, answers, clock, requests>>
  BY Stages DEF GateInv, GateUnavailable, AtGate
<1>2. done' \subseteq Ops /\ requests' \in Nat /\ faults' \in Nat
  BY <1>1 DEF GateInv, TypeOK, GateUnavailable, Fault
<1>3. CASE UNCHANGED marker
  BY <1>1, <1>2, <1>3, PlainLeaveKeeps
<1>4. CASE ~Live(k) /\ marker' = [marker EXCEPT ![k] = [Processing(s) EXCEPT !.owner = None]]
  <2> DEFINE fresh == [state |-> "processing", owner |-> None, who |-> slot[s].who,
                       op |-> slot[s].op, status |-> "error",
                       until |-> clock + ProcessingTTL]
  <2>1. [Processing(s) EXCEPT !.owner = None] = fresh
    BY DEF Processing
  <2>2. fresh \in Marker /\ \A t \in Slots : slot[t].acquired => slot[t].key # k
    BY <1>1, <1>4, FreshMarkerKeeps
  <2>3. fresh.state = "processing"
    OBVIOUS
  <2> HIDE DEF fresh
  <2>4. marker' = [marker EXCEPT ![k] = fresh]
    BY <1>4, <2>1
  <2>5. marker' \in [Keys -> Marker]
    BY <2>2, <2>4 DEF GateInv, TypeOK
  <2>6. \A h \in Keys : marker'[h] = IF h = k THEN fresh ELSE marker[h]
    BY <2>4 DEF GateInv, TypeOK
  <2>7. \A t \in Slots : t # s /\ slot[t].acquired =>
            marker'[slot[t].key] = marker[slot[t].key]
    BY <2>2, <2>6 DEF GateInv, Holders
  <2>8. \A h \in Keys : marker'[h] = marker[h]
                        \/ marker'[h].state \notin {"completed", "failed"}
    BY <2>3, <2>6
  <2>9. /\ answers' \subseteq Answer /\ answers \subseteq answers'
        /\ ReplayIsGenuine' /\ PermittedOnly'
    BY <1>1 DEF GateInv, TypeOK, ReplayIsGenuine, PermittedOnly
  <2>10. QED
    BY <1>1, <1>2, <2>5, <2>7, <2>8, <2>9, LeaveKeeps
<1>5. QED
  BY <1>3, <1>4 DEF GateUnavailable

LEMMA HandleKeeps ==
    ASSUME GateInv, NEW s \in Slots, Handle(s)
    PROVE  GateInv'
<1>1. /\ slot[s].stage = 3 /\ ~slot[s].saving /\ slot[s] \in SlotState
      /\ UNCHANGED <<marker, permitted, clock, requests>>
  BY Stages DEF GateInv, Handle, TypeOK
<1>2. PICK status \in Statuses :
          /\ Executes(slot[s].op, status)
          /\ Tell(s, status, "handler")
          /\ IF slot[s].acquired
             THEN slot' = [slot EXCEPT ![s].saving = TRUE, ![s].status = status]
             ELSE Leave(s)
  BY DEF Handle
<1>3. slot[s].op \in Ops /\ slot[s].stage > 1 /\ slot[s].stage > 0
  BY <1>1 DEF GateInv, Served
<1>4. done' \subseteq Ops /\ requests' \in Nat /\ faults' \in Nat
  BY <1>1, <1>2, <1>3 DEF GateInv, TypeOK, Executes, Fault
<1>5. /\ answers' \subseteq Answer /\ answers \subseteq answers'
      /\ ReplayIsGenuine' /\ PermittedOnly'
      /\ \E h \in answers' : /\ h.via = "handler" /\ h.key = slot[s].key
                             /\ h.who = slot[s].who /\ h.op = slot[s].op
                             /\ h.status = status
  BY <1>2, <1>3, TellKeeps
<1>6. marker' \in [Keys -> Marker]
  BY <1>1 DEF GateInv, TypeOK
<1>7. CASE ~slot[s].acquired
  BY <1>1, <1>2, <1>4, <1>5, <1>6, <1>7, LeaveKeeps
<1>8. CASE slot[s].acquired
  <2> DEFINE after == [[slot[s] EXCEPT !.saving = TRUE] EXCEPT !.status = status]
  <2>1. \A r \in SlotState : [r EXCEPT !.saving = TRUE] \in SlotState
    BY DEF SlotState
  <2>2. \A r \in SlotState : [r EXCEPT !.status = status] \in SlotState
    BY <1>2 DEF SlotState
  <2>3. after \in SlotState
    BY <1>1, <2>1, <2>2
  <2>4. slot' = [slot EXCEPT ![s] = after]
    BY <1>2, <1>8 DEF GateInv, TypeOK
  <2>5. /\ after.stage = 3 /\ after.saving /\ after.status = status
        /\ after.key = slot[s].key /\ after.who = slot[s].who /\ after.op = slot[s].op
        /\ after.allowed = slot[s].allowed /\ after.acquired = slot[s].acquired
        /\ after.arrived = slot[s].arrived
    BY <1>1 DEF SlotState
  <2> HIDE DEF after
  <2>6. \A t \in Slots : slot'[t] = IF t = s THEN after ELSE slot[t]
    BY <2>4 DEF GateInv, TypeOK
  <2>7. TypeOK'
    BY <1>1, <1>4, <1>5, <2>3, <2>4 DEF GateInv, TypeOK
  <2>8. Served'
    BY <1>3, <2>5, <2>6 DEF GateInv, Served
  <2>9. Timely'
    <3>1. SUFFICES ASSUME NEW t \in Slots, slot'[t].stage > 0
                   PROVE  slot'[t].arrived <= clock' /\ clock' <= Deadline(t)'
      BY DEF Timely
    <3>2. CASE t = s
      <4>1. slot[s].arrived <= clock /\ clock <= slot[s].arrived + RequestTimeout
        <5>1. slot[s].arrived + RequestTimeout \in Nat
          BY SlotFields, TimesAssumption DEF GateInv
        <5>2. slot[s].arrived <= clock /\ clock <= Deadline(s)
          BY <1>3 DEF GateInv, Timely
        <5>3. Deadline(s) = slot[s].arrived + RequestTimeout
          BY <1>1, <5>1 DEF Deadline
        <5>4. QED
          BY <5>2, <5>3
      <4>2. Deadline(t)' = slot[s].arrived + RequestTimeout + PersistTimeout
        BY <3>2, <2>5, <2>6 DEF Deadline
      <4>3. slot[s].arrived \in Nat /\ clock \in Nat
        BY SlotFields DEF GateInv, TypeOK
      <4>4. QED
        BY <3>2, <4>1, <4>2, <4>3, <1>1, <2>5, <2>6, TimesAssumption
    <3>3. CASE t # s
      BY <3>1, <3>3, <1>1, <2>6 DEF GateInv, Timely, Deadline
    <3>4. QED
      BY <3>2, <3>3
  <2>10. Holders'
    BY <1>1, <1>3, <2>5, <2>6 DEF GateInv, Holders
  <2>11. Savers'
    BY <1>8, <2>5, <2>6 DEF GateInv, Savers
  <2>12. Genuine'
    <3>1. ASSUME NEW t \in Slots, slot'[t].saving
          PROVE  Told(slot[t].key, slot[t].who, slot[t].op, slot[t].status)'
      <4>1. CASE t = s
        BY <4>1, <1>5, <2>5, <2>6 DEF Told
      <4>2. CASE t # s
        BY <4>2, <3>1, <1>5, <2>6 DEF GateInv, Genuine, Told
      <4>3. QED
        BY <4>1, <4>2
    <3>2. ASSUME NEW k \in Keys, marker'[k].state \in {"completed", "failed"}
          PROVE  Told(k, marker[k].who, marker[k].op, marker[k].status)'
      BY <3>2, <1>1, <1>5 DEF GateInv, Genuine, Told
    <3>3. QED
      BY <3>1, <3>2 DEF Genuine
  <2>13. Admitted'
    BY <1>1, <2>5, <2>6 DEF GateInv, Admitted
  <2>14. QED
    BY <1>5, <2>7, <2>8, <2>9, <2>10, <2>11, <2>12, <2>13 DEF GateInv
<1>9. QED
  BY <1>7, <1>8

LEMMA PersistKeeps ==
    ASSUME GateInv, NEW s \in Slots, Persist(s)
    PROVE  GateInv'
<1> DEFINE k == slot[s].key
<1>1. /\ slot[s].saving /\ Leave(s)
      /\ UNCHANGED <<done, permitted, answers, clock, requests, faults>>
  BY DEF Persist
<1>2. slot[s].acquired /\ k \in Keys /\ marker[k].owner = s
  BY <1>1 DEF GateInv, Savers, Holders
<1>3. marker' = [marker EXCEPT ![k] = Kept(s)]
  BY <1>2, HeldIsLive DEF GateInv, Persist
<1>4. Kept(s) \in Marker
  <2>1. /\ clock + ResultTTL \in Nat /\ clock + FailureTTL \in Nat
    BY TimesAssumption DEF GateInv, TypeOK
  <2>2. QED
    BY <2>1, SlotFields DEF GateInv, Kept, Marker
<1>5. /\ Kept(s).who = slot[s].who /\ Kept(s).op = slot[s].op
      /\ Kept(s).status = slot[s].status
  BY DEF Kept
<1>6. \A h \in Keys : marker'[h] = IF h = k THEN Kept(s) ELSE marker[h]
  BY <1>3 DEF GateInv, TypeOK
<1>7. marker' \in [Keys -> Marker]
  BY <1>3, <1>4 DEF GateInv, TypeOK
<1>8. Told(k, slot[s].who, slot[s].op, slot[s].status)
  BY <1>1 DEF GateInv, Genuine
<1>9. \A t \in Slots : t # s /\ slot[t].acquired =>
          marker'[slot[t].key] = marker[slot[t].key]
  BY <1>2, <1>6 DEF GateInv, Holders
<1>10. \A h \in Keys :
          \/ marker'[h] = marker[h]
          \/ \E g \in answers' : /\ g.via = "handler" /\ g.key = h
                                 /\ g.who = marker'[h].who /\ g.op = marker'[h].op
                                 /\ g.status = marker'[h].status
  BY <1>1, <1>5, <1>6, <1>8 DEF Told
<1>11. /\ answers' \subseteq Answer /\ answers \subseteq answers'
       /\ ReplayIsGenuine' /\ PermittedOnly'
       /\ done' \subseteq Ops /\ requests' \in Nat /\ faults' \in Nat
  BY <1>1 DEF GateInv, TypeOK, ReplayIsGenuine, PermittedOnly
<1>12. QED
  BY <1>1, <1>7, <1>9, <1>10, <1>11, LeaveKeeps

LEMMA RevokeKeeps ==
    ASSUME GateInv, NEW u \in Subjects, Revoke(u)
    PROVE  GateInv'
BY DEF GateInv, Revoke, TypeOK, Served, Timely, Deadline, Holders, Savers, Genuine, Told,
       Admitted, ReplayIsGenuine, PermittedOnly

LEMMA TickKeeps ==
    ASSUME GateInv, Tick
    PROVE  GateInv'
<1>1. /\ clock \in Nat /\ clock' = clock + 1 /\ clock' \in Nat
      /\ UNCHANGED <<slot, marker, done, permitted, answers, requests, faults>>
  BY DEF GateInv, TypeOK, Tick
<1>2. Timely'
  <2>1. SUFFICES ASSUME NEW t \in Slots, slot[t].stage > 0
                 PROVE  slot[t].arrived <= clock + 1 /\ clock + 1 <= Deadline(t)
    BY <1>1 DEF Timely, Deadline
  <2>2. /\ slot[t].arrived \in Nat /\ Deadline(t) \in Nat
    BY SlotFields, TimesAssumption DEF GateInv, Deadline
  <2>3. slot[t].arrived <= clock /\ clock < Deadline(t)
    BY <2>1 DEF GateInv, Timely, Tick
  <2>4. QED
    BY <1>1, <2>2, <2>3
<1>3. QED
  BY <1>1, <1>2 DEF GateInv, TypeOK, Served, Holders, Savers, Genuine, Told,
       Admitted, ReplayIsGenuine, PermittedOnly

-----------------------------------------------------------------------------
LEMMA GateInvInit == Init => GateInv
<1> SUFFICES ASSUME Init PROVE GateInv
  OBVIOUS
<1>1. \A s \in Slots : /\ slot[s].stage = 0 /\ ~slot[s].acquired /\ ~slot[s].saving
  BY DEF Init, IdleSlot
<1>2. NoMarker \in Marker /\ NoMarker.state = "none"
  BY DEF NoMarker, Marker, Statuses
<1>3. TypeOK
  BY IdleTyped, <1>2 DEF Init, TypeOK
<1>4. Genuine /\ ReplayIsGenuine /\ PermittedOnly
  BY <1>1, <1>2 DEF Init, Genuine, ReplayIsGenuine, PermittedOnly
<1>5. QED
  BY <1>1, <1>3, <1>4 DEF GateInv, Served, Timely, Holders, Savers, Admitted

LEMMA GateInvStep == GateInv /\ [Next]_gateVars => GateInv'
<1> SUFFICES ASSUME GateInv, [Next]_gateVars PROVE GateInv'
  OBVIOUS
<1>1. ASSUME NEW s \in Slots, NEW k \in Keys \cup {None}, NEW u \in Subjects, NEW o \in Ops,
             Arrive(s, k, u, o)
      PROVE  GateInv'
  BY <1>1, ArriveKeeps
<1>2. ASSUME NEW s \in Slots, Authorize(s) PROVE GateInv'
  <2>1. /\ slot[s].stage = 1
        /\ UNCHANGED <<marker, done, permitted, answers, clock, requests, faults>>
    BY <1>2, Stages DEF GateInv, Authorize
  <2>2. done' \subseteq Ops /\ requests' \in Nat /\ faults' \in Nat
    BY <2>1 DEF GateInv, TypeOK
  <2>3. CASE slot[s].who \in permitted /\ Advance(s)
    BY <2>1, <2>3, AdvanceKeeps
  <2>4. CASE Leave(s)
    BY <2>1, <2>2, <2>4, PlainLeaveKeeps
  <2>5. QED
    BY <1>2, <2>3, <2>4 DEF Authorize
<1>3. ASSUME NEW s \in Slots, GateBypassed(s) PROVE GateInv'
  BY <1>3, Stages, AdvanceKeeps DEF GateInv, GateBypassed
<1>4. ASSUME NEW s \in Slots, NEW k \in Keys, GateAcquired(s, k) PROVE GateInv'
  BY <1>4, AcquireKeeps
<1>5. ASSUME NEW s \in Slots, NEW k \in Keys, GateRefused(s, k) PROVE GateInv'
  BY <1>5, PlainLeaveKeeps DEF GateInv, TypeOK, GateRefused
<1>6. ASSUME NEW s \in Slots, NEW k \in Keys, GateReplays(s, k) PROVE GateInv'
  BY <1>6, ReplayKeeps
<1>7. ASSUME NEW s \in Slots, NEW k \in Keys, GateUnavailable(s, k) PROVE GateInv'
  BY <1>7, UnavailableKeeps
<1>8. ASSUME NEW s \in Slots, Handle(s) PROVE GateInv'
  BY <1>8, HandleKeeps
<1>9. ASSUME NEW s \in Slots, Panic(s) PROVE GateInv'
  <2>1. slot[s].op \in Ops
    BY <1>9 DEF GateInv, Served, Panic, At
  <2>2. /\ done' \subseteq Ops /\ requests' \in Nat /\ faults' \in Nat
        /\ Leave(s) /\ UNCHANGED <<marker, permitted, answers, clock>>
    BY <1>9, <2>1 DEF GateInv, TypeOK, Panic, Fault
  <2>3. QED
    BY <2>2, PlainLeaveKeeps
<1>10. ASSUME NEW s \in Slots, Persist(s) PROVE GateInv'
  BY <1>10, PersistKeeps
<1>11. ASSUME NEW s \in Slots, PersistFails(s) \/ Crash(s) PROVE GateInv'
  BY <1>11, PlainLeaveKeeps DEF GateInv, TypeOK, PersistFails, Crash, Fault
<1>12. ASSUME NEW u \in Subjects, Revoke(u) PROVE GateInv'
  BY <1>12, RevokeKeeps
<1>13. CASE Tick
  BY <1>13, TickKeeps
<1>14. CASE UNCHANGED gateVars
  BY <1>14 DEF gateVars, GateInv, TypeOK, Served, Timely, Deadline, Holders, Savers,
     Genuine, Told, Admitted, ReplayIsGenuine, PermittedOnly
<1>15. QED
  BY <1>1, <1>2, <1>3, <1>4, <1>5, <1>6, <1>7, <1>8, <1>9, <1>10, <1>11, <1>12, <1>13, <1>14
     DEF Next

LEMMA GateInvAlways == Spec => []GateInv
BY GateInvInit, GateInvStep, PTL DEF Spec

\* Two requests are never executed at the same time under one key, whatever
\* panics, crashes and Redis do, as long as the marker outlives a request.
THEOREM OneExecutionPerKey == Spec => []OneExecution
<1>1. GateInv => OneExecution
  BY DEF GateInv, Holders, OneExecution
<1>2. QED
  BY <1>1, GateInvAlways, PTL

\* A caller is only replayed answers it was given itself for that operation.
THEOREM ReplaysAreGenuine == Spec => []ReplayIsGenuine
BY GateInvAlways, PTL DEF GateInv

\* Neither handlers nor kept answers serve a caller without permission.
THEOREM OnlyPermittedCallers == Spec => []PermittedOnly
BY GateInvAlways, PTL DEF GateInv

-----------------------------------------------------------------------------
(* A success is remembered *)

\* What reaches the handler under a key of a gated operation holds that key.
Gatekept ==
    \A s \in Slots :
        slot[s].stage = 3 /\ slot[s].key # None /\ slot[s].op \in Gated => slot[s].acquired

PastAnswers == \A a \in answers : a.at <= clock

GatedSuccess(a) == a.via = "handler" /\ a.status = "ok" /\ a.key # None /\ a.op \in Gated

\* The answer is about to be kept, or it is kept for long enough.
Remembered(a) ==
    \/ \E s \in Slots : /\ slot[s].saving /\ slot[s].status = "ok"
                        /\ slot[s].key = a.key /\ slot[s].who = a.who /\ slot[s].op = a.op
    \/ /\ marker[a.key].state = "completed" /\ marker[a.key].status = "ok"
       /\ marker[a.key].who = a.who /\ marker[a.key].op = a.op
       /\ marker[a.key].until >= a.at + ResultTTL

Memory == \A a \in answers : GatedSuccess(a) /\ clock < a.at + ResultTTL => Remembered(a)

\* SuccessSticks speaks of answers alone: what makes it inductive is where the
\* next answer comes from.
StickInv ==
    /\ Gatekept
    /\ PastAnswers
    /\ faults = 0 => Memory
    /\ SuccessSticks

\* The types of an answer.
LEMMA AnswerFields ==
    ASSUME TypeOK, NEW a \in answers
    PROVE  a.at \in Nat /\ a.key \in Keys \cup {None}
BY DEF TypeOK, Answer

LEMMA LeftSlot ==
    ASSUME TypeOK, NEW s \in Slots, Leave(s)
    PROVE  slot'[s].stage = 0 /\ \A t \in Slots \ {s} : slot'[t] = slot[t]
BY DEF TypeOK, Leave, IdleSlot

LEMMA AdvancedSlot ==
    ASSUME TypeOK, NEW s \in Slots, Advance(s)
    PROVE  /\ slot'[s].stage = slot[s].stage + 1
           /\ slot'[s].key = slot[s].key /\ slot'[s].op = slot[s].op
           /\ \A t \in Slots \ {s} : slot'[t] = slot[t]
<1> DEFINE moved == [slot[s] EXCEPT !.stage = @ + 1]
<1>1. slot[s] \in SlotState /\ slot' = [slot EXCEPT ![s] = moved]
  BY DEF TypeOK, Advance
<1>2. /\ moved.stage = slot[s].stage + 1
      /\ moved.key = slot[s].key /\ moved.op = slot[s].op
  BY <1>1 DEF SlotState
<1> HIDE DEF moved
<1>3. QED
  BY <1>1, <1>2 DEF TypeOK

\* The key of a request whose answer is being kept is in its hands.
LEMMA SavedKey ==
    ASSUME GateInv, NEW s \in Slots, slot[s].saving
    PROVE  /\ slot[s].key \in Keys
           /\ marker[slot[s].key].state = "processing" /\ marker[slot[s].key].owner = s
BY DEF GateInv, Savers, Holders

\* Nobody forgets an answer before its time, unless its keeper leaves.
LEMMA MemoryKeeps ==
    ASSUME GateInv, Memory, clock' \in Nat, clock' >= clock,
           \A a \in answers' : a \in answers \/ (GatedSuccess(a) => Remembered(a)'),
           \A t \in Slots : slot[t].saving => slot'[t] = slot[t],
           \A k \in Keys : marker'[k] = marker[k] \/ ~Live(k)
    PROVE  Memory'
<1> SUFFICES ASSUME NEW a \in answers', GatedSuccess(a), clock' < a.at + ResultTTL
             PROVE  Remembered(a)'
  BY DEF Memory, GatedSuccess
<1>1. CASE a \notin answers
  BY <1>1
<1>2. CASE a \in answers
  <2>1. a.at \in Nat /\ a.key \in Keys /\ clock \in Nat
    BY <1>2, AnswerFields DEF GateInv, TypeOK, GatedSuccess
  <2>2. clock < a.at + ResultTTL
    BY <2>1, TimesAssumption
  <2>3. Remembered(a)
    BY <1>2, <2>2 DEF Memory
  <2>4. CASE \E s \in Slots :
               /\ slot[s].saving /\ slot[s].status = "ok"
               /\ slot[s].key = a.key /\ slot[s].who = a.who /\ slot[s].op = a.op
    BY <2>4 DEF Remembered
  <2>5. CASE /\ marker[a.key].state = "completed" /\ marker[a.key].status = "ok"
             /\ marker[a.key].who = a.who /\ marker[a.key].op = a.op
             /\ marker[a.key].until >= a.at + ResultTTL
    <3>1. Live(a.key)
      BY <2>1, <2>2, <2>5, MarkerFields, TimesAssumption DEF Live, GateInv
    <3>2. marker'[a.key] = marker[a.key]
      BY <2>1, <3>1
    <3>3. QED
      BY <2>5, <3>2 DEF Remembered
  <2>6. QED
    BY <2>3, <2>4, <2>5 DEF Remembered
<1>3. QED
  BY <1>1, <1>2

\* The next answer agrees with those that are remembered.
LEMMA SticksKeeps ==
    ASSUME GateInv, StickInv, NEW s \in Slots, NEW status, NEW via, Tell(s, status, via),
           faults' = 0 => faults = 0,
           faults = 0 => \A a \in answers :
              /\ GatedSuccess(a) /\ clock < a.at + ResultTTL
              /\ slot[s].key = a.key /\ slot[s].who = a.who /\ slot[s].op = a.op
              => status = "ok"
    PROVE  SuccessSticks'
<1> DEFINE new == [key |-> slot[s].key, who |-> slot[s].who, op |-> slot[s].op,
                   status |-> status, via |-> via, allowed |-> slot[s].allowed, at |-> clock]
<1>1. answers' = answers \cup {new}
  BY DEF Tell
<1>2. /\ new.key = slot[s].key /\ new.who = slot[s].who /\ new.op = slot[s].op
      /\ new.status = status /\ new.at = clock
  OBVIOUS
<1> HIDE DEF new
<1>3. clock \in Nat /\ \A a \in answers : a.at \in Nat /\ a.at <= clock
  BY AnswerFields DEF GateInv, TypeOK, StickInv, PastAnswers
<1> SUFFICES ASSUME faults' = 0, NEW a \in answers', NEW b \in answers', GatedSuccess(a),
                    b.key = a.key, b.who = a.who, b.op = a.op,
                    a.at < b.at, b.at < a.at + ResultTTL
             PROVE  b.status = "ok"
  BY DEF SuccessSticks, GatedSuccess
<1>4. a \in answers
  BY <1>1, <1>2, <1>3
<1>5. CASE b \in answers
  BY <1>4, <1>5 DEF StickInv, SuccessSticks, GatedSuccess
<1>6. CASE b = new
  BY <1>2, <1>4, <1>6
<1>7. QED
  BY <1>1, <1>5, <1>6

\* A step without an answer.
LEMMA SilentKeeps ==
    ASSUME GateInv, StickInv, answers' = answers, clock' \in Nat, clock' >= clock,
           faults' = 0 => /\ faults = 0
                          /\ \A t \in Slots : slot[t].saving => slot'[t] = slot[t]
                          /\ \A k \in Keys : marker'[k] = marker[k] \/ ~Live(k),
           \A t \in Slots : \/ slot'[t] = slot[t] \/ slot'[t].stage # 3
                            \/ slot'[t].acquired
                            \/ slot'[t].key = None \/ slot'[t].op \notin Gated
    PROVE  StickInv'
<1>1. Gatekept'
  BY DEF StickInv, Gatekept
<1>2. PastAnswers'
  <2>1. clock \in Nat /\ \A a \in answers : a.at \in Nat
    BY AnswerFields DEF GateInv, TypeOK
  <2>2. QED
    BY <2>1 DEF StickInv, PastAnswers
<1>3. ASSUME faults' = 0 PROVE Memory'
  BY <1>3, MemoryKeeps DEF StickInv
<1>4. SuccessSticks'
  BY DEF StickInv, SuccessSticks
<1>5. QED
  BY <1>1, <1>2, <1>3, <1>4 DEF StickInv

\* A request that leaves without an answer, and had none to keep.
LEMMA SilentLeaveKeeps ==
    ASSUME GateInv, StickInv, NEW s \in Slots, Leave(s), UNCHANGED <<answers, clock>>,
           \/ Fault
           \/ ~slot[s].saving /\ UNCHANGED <<marker, faults>>
    PROVE  StickInv'
<1>1. slot'[s].stage = 0 /\ \A t \in Slots \ {s} : slot'[t] = slot[t]
  BY LeftSlot DEF GateInv
<1>2. clock \in Nat /\ faults \in Nat
  BY DEF GateInv, TypeOK
<1>3. CASE Fault
  <2>1. faults' # 0
    BY <1>2, <1>3 DEF Fault
  <2>2. QED
    BY <1>1, <1>2, <2>1, SilentKeeps
<1>4. CASE ~slot[s].saving /\ UNCHANGED <<marker, faults>>
  BY <1>1, <1>2, <1>4, SilentKeeps
<1>5. QED
  BY <1>3, <1>4

\* The keeper leaves, and its answer is in the marker.
LEMMA PersistSticks ==
    ASSUME GateInv, StickInv, NEW s \in Slots, Persist(s)
    PROVE  StickInv'
<1>1. slot[s].saving /\ Leave(s) /\ UNCHANGED <<answers, clock, faults>>
  BY DEF Persist
<1>2. slot'[s].stage = 0 /\ \A t \in Slots \ {s} : slot'[t] = slot[t]
  BY <1>1, LeftSlot DEF GateInv
<1>3. PICK k \in Keys : k = slot[s].key
  BY <1>1, SavedKey
<1>4. marker[k].state = "processing" /\ marker[k].owner = s /\ Live(k)
  BY <1>1, <1>3, SavedKey, HeldIsLive DEF GateInv, Savers
<1>5. marker' = [marker EXCEPT ![k] = Kept(s)]
  BY <1>3, <1>4 DEF Persist
<1>6. marker'[k] = Kept(s) /\ \A h \in Keys \ {k} : marker'[h] = marker[h]
  BY <1>5 DEF GateInv, TypeOK
<1>7. /\ Kept(s).who = slot[s].who /\ Kept(s).op = slot[s].op
      /\ Kept(s).status = slot[s].status
      /\ slot[s].status = "ok" => /\ Kept(s).state = "completed"
                                  /\ Kept(s).until = clock + ResultTTL
  BY DEF Kept
<1>8. Gatekept' /\ PastAnswers' /\ SuccessSticks'
  BY <1>1, <1>2 DEF StickInv, Gatekept, PastAnswers, SuccessSticks
<1>9. ASSUME faults' = 0, NEW a \in answers, GatedSuccess(a), clock < a.at + ResultTTL
      PROVE  Remembered(a)'
  <2>1. Remembered(a)
    BY <1>1, <1>9 DEF StickInv, Memory
  <2>2. a.at \in Nat /\ a.at <= clock /\ clock \in Nat /\ a.key \in Keys
    BY <1>9, AnswerFields DEF GateInv, TypeOK, StickInv, PastAnswers, GatedSuccess
  <2>3. CASE marker[a.key].state = "completed" /\ Remembered(a)
    <3>1. a.key # k
      BY <1>4, <2>3
    <3>2. marker'[a.key] = marker[a.key]
      BY <1>6, <2>2, <3>1
    <3>3. ~(\E t \in Slots : slot[t].saving /\ slot[t].key = a.key)
      BY <2>3, SavedKey
    <3>4. QED
      BY <2>3, <3>2, <3>3 DEF Remembered
  <2>4. ASSUME NEW t \in Slots, slot[t].saving, slot[t].status = "ok",
               slot[t].key = a.key, slot[t].who = a.who, slot[t].op = a.op
        PROVE  Remembered(a)'
    <3>1. CASE t = s
      <4>1. Kept(s).until >= a.at + ResultTTL
        BY <1>7, <2>2, <2>4, <3>1, TimesAssumption
      <4>2. QED
        BY <1>3, <1>6, <1>7, <2>4, <3>1, <4>1 DEF Remembered
    <3>2. CASE t # s
      BY <1>2, <2>4, <3>2 DEF Remembered
    <3>3. QED
      BY <3>1, <3>2
  <2>5. QED
    BY <2>1, <2>3, <2>4 DEF Remembered
<1>10. faults' = 0 => Memory'
  BY <1>1, <1>9 DEF Memory, GatedSuccess
<1>11. QED
  BY <1>8, <1>10 DEF StickInv

\* A kept answer is the remembered one.
LEMMA ReplaySticks ==
    ASSUME GateInv, StickInv, NEW s \in Slots, NEW k \in Keys, GateReplays(s, k)
    PROVE  StickInv'
<1>1. /\ ~slot[s].saving /\ slot[s].key = k /\ Leave(s) /\ Tell(s, marker[k].status, "gate")
      /\ UNCHANGED <<marker, clock, faults>> /\ marker[k].state \in {"completed", "failed"}
      /\ marker[k].who = slot[s].who /\ marker[k].op = slot[s].op
  BY Stages DEF GateInv, GateReplays, AtGate, SameFingerprint
<1>2. slot'[s].stage = 0 /\ \A t \in Slots \ {s} : slot'[t] = slot[t]
  BY <1>1, LeftSlot DEF GateInv
<1>3. Gatekept'
  BY <1>2 DEF StickInv, Gatekept
<1>4. clock \in Nat /\ \A a \in answers' : a \in answers \/ (a.at = clock /\ a.via = "gate")
  BY <1>1 DEF Tell, GateInv, TypeOK
<1>5. PastAnswers'
  BY <1>1, <1>4 DEF StickInv, PastAnswers
<1>6. faults' = 0 => Memory'
  <2>1. \A a \in answers' : a \in answers \/ ~GatedSuccess(a)
    BY <1>4 DEF GatedSuccess
  <2>2. QED
    BY <1>1, <1>2, <1>4, <2>1, MemoryKeeps DEF StickInv
<1>7. ASSUME faults = 0, NEW a \in answers, GatedSuccess(a), clock < a.at + ResultTTL,
             slot[s].key = a.key
      PROVE  marker[k].status = "ok"
  <2>1. Remembered(a)
    BY <1>7 DEF StickInv, Memory
  <2>2. QED
    BY <1>1, <1>7, <2>1, SavedKey DEF Remembered
<1>8. SuccessSticks'
  BY <1>1, <1>7, SticksKeeps
<1>9. QED
  BY <1>3, <1>5, <1>6, <1>8 DEF StickInv

\* A handler answers under a key that nothing is remembered of.
LEMMA HandleSticks ==
    ASSUME GateInv, StickInv, NEW s \in Slots, Handle(s)
    PROVE  StickInv'
<1>1. PICK status \in Statuses :
          /\ Executes(slot[s].op, status)
          /\ Tell(s, status, "handler")
          /\ IF slot[s].acquired
             THEN slot' = [slot EXCEPT ![s].saving = TRUE, ![s].status = status]
             ELSE Leave(s)
  BY DEF Handle
<1>2. /\ slot[s].stage = 3 /\ ~slot[s].saving /\ slot[s] \in SlotState
      /\ UNCHANGED <<marker, clock>>
  BY Stages DEF GateInv, Handle, TypeOK
<1>3. \A t \in Slots \ {s} : slot'[t] = slot[t]
  BY <1>1, LeftSlot DEF GateInv, TypeOK
<1>4. ~slot[s].acquired => slot'[s].stage = 0
  BY <1>1, LeftSlot DEF GateInv
<1>5. slot[s].acquired =>
        /\ slot'[s].saving /\ slot'[s].status = status /\ slot'[s].acquired
        /\ slot'[s].key = slot[s].key /\ slot'[s].who = slot[s].who /\ slot'[s].op = slot[s].op
  <2> SUFFICES ASSUME slot[s].acquired
               PROVE  /\ slot'[s].saving /\ slot'[s].status = status /\ slot'[s].acquired
                      /\ slot'[s].key = slot[s].key /\ slot'[s].who = slot[s].who
                      /\ slot'[s].op = slot[s].op
    OBVIOUS
  <2> DEFINE saved == [slot[s] EXCEPT !.saving = TRUE]
             after == [saved EXCEPT !.status = status]
  <2>1. slot' = [slot EXCEPT ![s] = after]
    BY <1>1 DEF GateInv, TypeOK
  <2>2. /\ saved \in SlotState /\ saved.saving /\ saved.acquired = slot[s].acquired
        /\ saved.key = slot[s].key /\ saved.who = slot[s].who /\ saved.op = slot[s].op
    BY <1>2 DEF SlotState
  <2> HIDE DEF saved
  <2>3. /\ after.saving /\ after.status = status /\ after.acquired
        /\ after.key = slot[s].key /\ after.who = slot[s].who /\ after.op = slot[s].op
    BY <2>2 DEF SlotState
  <2> HIDE DEF after
  <2>4. QED
    BY <2>1, <2>3 DEF GateInv, TypeOK
<1>6. Gatekept'
  BY <1>3, <1>4, <1>5 DEF StickInv, Gatekept
<1>7. /\ clock \in Nat
      /\ \A a \in answers' : \/ a \in answers
                             \/ /\ a.at = clock /\ a.status = status /\ a.key = slot[s].key
                                /\ a.who = slot[s].who /\ a.op = slot[s].op
  BY <1>1 DEF Tell, GateInv, TypeOK
<1>8. PastAnswers'
  BY <1>2, <1>7 DEF StickInv, PastAnswers
<1>9. faults' = 0 => faults = 0
  BY <1>1 DEF Executes, Fault, GateInv, TypeOK
<1>10. faults' = 0 => Memory'
  <2>1. ASSUME NEW a \in answers', a \notin answers, GatedSuccess(a) PROVE Remembered(a)'
    <3>1. slot[s].acquired
      BY <1>2, <1>7, <2>1 DEF StickInv, Gatekept, GatedSuccess
    <3>2. QED
      BY <1>5, <1>7, <2>1, <3>1 DEF Remembered, GatedSuccess
  <2>2. QED
    BY <1>2, <1>3, <1>7, <1>9, <2>1, MemoryKeeps DEF StickInv
<1>11. ASSUME faults = 0, NEW a \in answers, GatedSuccess(a), clock < a.at + ResultTTL,
              slot[s].key = a.key, slot[s].op = a.op
       PROVE  FALSE
  <2>1. Remembered(a)
    BY <1>11 DEF StickInv, Memory
  <2>2. slot[s].acquired
    BY <1>2, <1>11 DEF StickInv, Gatekept, GatedSuccess
  <2>3. marker[a.key].state = "processing" /\ marker[a.key].owner = s
    BY <1>11, <2>2 DEF GateInv, Holders
  <2>4. QED
    BY <1>2, <2>1, <2>3, SavedKey DEF Remembered
<1>12. SuccessSticks'
  BY <1>1, <1>9, <1>11, SticksKeeps
<1>13. QED
  BY <1>6, <1>8, <1>10, <1>12 DEF StickInv

LEMMA StickInvStep == GateInv /\ StickInv /\ [Next]_gateVars => StickInv'
<1> SUFFICES ASSUME GateInv, StickInv, [Next]_gateVars PROVE StickInv'
  OBVIOUS
<1>0. TypeOK /\ clock \in Nat /\ faults \in Nat
  BY DEF GateInv, TypeOK
<1>1. ASSUME NEW s \in Slots, NEW k \in Keys \cup {None}, NEW u \in Subjects, NEW o \in Ops,
             Arrive(s, k, u, o)
      PROVE  StickInv'
  <2>1. /\ slot[s].stage = 0 /\ slot'[s].stage = 1
        /\ \A t \in Slots \ {s} : slot'[t] = slot[t]
        /\ UNCHANGED <<marker, answers, clock, faults>>
    BY <1>0, <1>1 DEF Arrive, TypeOK
  <2>2. ~slot[s].saving
    BY <2>1 DEF GateInv, Savers, Holders
  <2>3. QED
    BY <1>0, <2>1, <2>2, SilentKeeps
<1>2. ASSUME NEW s \in Slots, Authorize(s) PROVE StickInv'
  <2>1. slot[s].stage = 1 /\ ~slot[s].saving /\ UNCHANGED <<marker, answers, clock, faults>>
    BY <1>0, <1>2, Stages DEF Authorize
  <2>2. CASE Leave(s)
    BY <2>1, <2>2, SilentLeaveKeeps
  <2>3. CASE Advance(s)
    <3>1. slot'[s].stage = 2 /\ \A t \in Slots \ {s} : slot'[t] = slot[t]
      BY <1>0, <2>1, <2>3, AdvancedSlot
    <3>2. QED
      BY <1>0, <2>1, <3>1, SilentKeeps
  <2>4. QED
    BY <1>2, <2>2, <2>3 DEF Authorize
<1>3. ASSUME NEW s \in Slots, GateBypassed(s) PROVE StickInv'
  <2>1. /\ ~slot[s].saving /\ UNCHANGED <<marker, answers, clock, faults>> /\ Advance(s)
        /\ slot[s].key = None \/ slot[s].op \notin Gated
    BY <1>0, <1>3, Stages DEF GateBypassed
  <2>2. /\ slot'[s].key = None \/ slot'[s].op \notin Gated
        /\ \A t \in Slots \ {s} : slot'[t] = slot[t]
    BY <1>0, <2>1, AdvancedSlot
  <2>3. QED
    BY <1>0, <2>1, <2>2, SilentKeeps
<1>4. ASSUME NEW s \in Slots, NEW k \in Keys, GateAcquired(s, k) PROVE StickInv'
  <2>1. ~slot[s].saving /\ UNCHANGED <<answers, clock, faults>> /\ ~Live(k)
    BY <1>0, <1>4, Stages DEF GateAcquired, AtGate
  <2>2. \A h \in Keys : marker'[h] = marker[h] \/ ~Live(h)
    BY <1>0, <1>4, <2>1 DEF GateAcquired, TypeOK
  <2>3. slot'[s].acquired /\ \A t \in Slots \ {s} : slot'[t] = slot[t]
    <3> DEFINE moved == [slot[s] EXCEPT !.stage = @ + 1]
               held == [moved EXCEPT !.acquired = TRUE]
    <3>1. slot' = [slot EXCEPT ![s] = held]
      BY <1>0, <1>4 DEF GateAcquired, TypeOK
    <3>2. DOMAIN moved = DOMAIN slot[s] /\ "acquired" \in DOMAIN slot[s]
      BY <1>0 DEF TypeOK, SlotState
    <3> HIDE DEF moved
    <3>3. held.acquired
      BY <3>2
    <3> HIDE DEF held
    <3>4. QED
      BY <1>0, <3>1, <3>3 DEF TypeOK
  <2>4. QED
    BY <1>0, <2>1, <2>2, <2>3, SilentKeeps
<1>5. ASSUME NEW s \in Slots, NEW k \in Keys, GateRefused(s, k) PROVE StickInv'
  BY <1>0, <1>5, Stages, SilentLeaveKeeps DEF GateRefused, AtGate
<1>6. ASSUME NEW s \in Slots, NEW k \in Keys, GateReplays(s, k) PROVE StickInv'
  BY <1>6, ReplaySticks
<1>7. ASSUME NEW s \in Slots, NEW k \in Keys, GateUnavailable(s, k) PROVE StickInv'
  BY <1>7, SilentLeaveKeeps DEF GateUnavailable
<1>8. ASSUME NEW s \in Slots, Handle(s) PROVE StickInv'
  BY <1>8, HandleSticks
<1>9. ASSUME NEW s \in Slots, Panic(s) \/ PersistFails(s) \/ Crash(s) PROVE StickInv'
  BY <1>9, SilentLeaveKeeps DEF Panic, PersistFails, Crash
<1>10. ASSUME NEW s \in Slots, Persist(s) PROVE StickInv'
  BY <1>10, PersistSticks
<1>11. CASE Tick \/ UNCHANGED gateVars \/ \E u \in Subjects : Revoke(u)
  <2>1. UNCHANGED <<slot, marker, answers, faults>> /\ clock' \in {clock, clock + 1}
    BY <1>11 DEF Tick, Revoke, gateVars
  <2>2. clock' \in Nat /\ clock' >= clock
    BY <1>0, <2>1
  <2>3. QED
    BY <2>1, <2>2, SilentKeeps
<1>12. QED
  BY <1>1, <1>2, <1>3, <1>4, <1>5, <1>6, <1>7, <1>8, <1>9, <1>10, <1>11 DEF Next

\* As long as nothing fails, a gated request that was told of its success is
\* told so again whenever it is repeated before the result is forgotten: the
\* key is held until the answer is kept, and kept until it may be forgotten.
THEOREM SuccessIsRemembered == Spec => []SuccessSticks
<1>1. Init => StickInv
  <2> SUFFICES ASSUME Init PROVE StickInv
    OBVIOUS
  <2>1. answers = {} /\ \A s \in Slots : slot[s].stage = 0
    BY DEF Init, IdleSlot
  <2>2. QED
    BY <2>1 DEF StickInv, Gatekept, PastAnswers, Memory, SuccessSticks
<1>2. StickInv => SuccessSticks
  BY DEF StickInv
<1>3. QED
  BY <1>1, <1>2, StickInvStep, GateInvAlways, PTL DEF Spec

=============================================================================
