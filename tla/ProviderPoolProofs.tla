------------------------- MODULE ProviderPoolProofs -------------------------
(***************************************************************************)
(* The connection cache, for any number of instances, endpoints and        *)
(* concurrent callers: no connection is leaked, calls go where they were   *)
(* meant to go, and calls to an instance that stays put are not cut.       *)
(***************************************************************************)
EXTENDS ProviderPool, TLAPS

\* A connection is kept under the instance it was made for.
KeptBelongs == \A i \in Instances : pool[i] # 0 => conns[pool[i]].instance = i

\* A caller has taken one of the instances that offer its dataset and has had
\* its endpoint checked.
HasPicked(k) == k.pc \in {"picked", "calling"}

PickedChecked ==
    \A c \in Callers : HasPicked(caller[c]) =>
        /\ caller[c].instance \in Instances
        /\ caller[c].target \in Allowed
        /\ caller[c].instance \in caller[c].dataset

\* A caller chooses among instances that offer its dataset.
ChoicesOffer ==
    \A c \in Callers : caller[c].pc = "choosing" => Choices(c) \subseteq caller[c].dataset

\* Everybody agrees about the endpoint of an instance that has not moved.
Steady ==
    \A i \in Instances \ moved :
        /\ \A n \in 1 .. Len(conns) : conns[n].instance = i => conns[n].target = registry[i]
        /\ \A c \in Callers :
              /\ HasPicked(caller[c]) /\ caller[c].instance = i => caller[c].target = registry[i]
              /\ caller[c].pc = "choosing" => caller[c].choice[i] \in {None, registry[i]}

ClosedIsQuiet == closed => \A c \in Callers : caller[c].pc = "idle"

PoolInv ==
    /\ TypeOK
    /\ KeptBelongs
    /\ OpenIsKept
    /\ PickedChecked
    /\ ChoicesOffer
    /\ CallsPickedEndpoint
    /\ Steady
    /\ CutOnlyIfMoved
    /\ ClosedIsQuiet

-----------------------------------------------------------------------------
LEMMA IdleTyped == IdleCaller \in CallerState
BY InstanceCountAssumption DEF IdleCaller, CallerState, NoChoice

\* What closing the connection of one instance does to the connections.
LEMMA WithoutFacts ==
    ASSUME PoolInv, NEW i \in Instances
    PROVE  /\ Without(i) \in Seq(Conn)
           /\ Len(Without(i)) = Len(conns)
           /\ \A n \in 1 .. Len(conns) :
                 /\ Without(i)[n].instance = conns[n].instance
                 /\ Without(i)[n].target = conns[n].target
                 /\ Without(i)[n].open = (conns[n].open /\ conns[n].instance # i)
<1>1. conns \in Seq(Conn) /\ pool[i] \in 0 .. Len(conns) /\ Len(conns) \in Nat
  BY DEF PoolInv, TypeOK
<1>2. \A n \in 1 .. Len(conns) : conns[n] \in Conn
  BY <1>1
<1>3. \A n \in 1 .. Len(conns) : conns[n].open <=> pool[conns[n].instance] = n
  BY DEF PoolInv, OpenIsKept
<1>4. CASE pool[i] = 0
  <2>1. \A n \in 1 .. Len(conns) : conns[n].instance = i => ~conns[n].open
    BY <1>1, <1>3, <1>4
  <2>2. \A n \in 1 .. Len(conns) : conns[n].open \in BOOLEAN
    BY <1>2 DEF Conn
  <2>3. \A n \in 1 .. Len(conns) : conns[n].open = (conns[n].open /\ conns[n].instance # i)
    BY <2>1, <2>2
  <2>4. Without(i) = conns
    BY <1>4 DEF Without
  <2>5. QED
    BY <1>1, <2>3, <2>4
<1>5. CASE pool[i] # 0
  <2> DEFINE k == pool[i]
  <2>1. k \in 1 .. Len(conns) /\ conns[k].instance = i
    BY <1>1, <1>5 DEF PoolInv, KeptBelongs
  <2> DEFINE r == [conns[k] EXCEPT !.open = FALSE]
  <2>2. Without(i) = [conns EXCEPT ![k] = r]
    BY <1>5 DEF Without
  <2>3. /\ r \in Conn /\ r.instance = conns[k].instance
        /\ r.target = conns[k].target /\ r.open = FALSE
    BY <1>2, <2>1 DEF Conn
  <2> HIDE DEF r
  <2>4. Without(i) \in Seq(Conn) /\ Len(Without(i)) = Len(conns)
    BY <1>1, <2>1, <2>2, <2>3
  <2>5. ASSUME NEW n \in 1 .. Len(conns)
        PROVE  /\ Without(i)[n].instance = conns[n].instance
               /\ Without(i)[n].target = conns[n].target
               /\ Without(i)[n].open = (conns[n].open /\ conns[n].instance # i)
    <3>1. conns[n] \in Conn /\ conns[n].open \in BOOLEAN
      BY <1>2 DEF Conn
    <3>2. CASE n = k
      <4>1. Without(i)[n] = r
        BY <3>2, <1>1, <2>1, <2>2
      <4>2. (conns[n].open /\ conns[n].instance # i) = FALSE
        BY <3>2, <2>1
      <4>3. QED
        BY <4>1, <4>2, <2>3, <3>2
    <3>3. CASE n # k
      <4>1. Without(i)[n] = conns[n]
        BY <3>3, <1>1, <2>1, <2>2
      <4>2. conns[n].instance = i => ~conns[n].open
        BY <3>3, <1>3
      <4>3. QED
        BY <3>1, <4>1, <4>2
    <3>4. QED
      BY <3>2, <3>3
  <2>6. QED
    BY <2>4, <2>5
<1>6. QED
  BY <1>4, <1>5

\* The facts of the invariant, with its parts opened.
LEMMA PoolFacts ==
    ASSUME PoolInv
    PROVE  /\ conns \in Seq(Conn) /\ Len(conns) \in Nat
           /\ pool \in [Instances -> 0 .. Len(conns)]
           /\ caller \in [Callers -> CallerState]
           /\ \A n \in 1 .. Len(conns) : conns[n] \in Conn
           /\ \A c \in Callers : caller[c] \in CallerState
BY DEF PoolInv, TypeOK

-----------------------------------------------------------------------------
\* What the snapshot holds is offered, and current for an instance that has
\* not moved.
LEMMA LookPreserves ==
    ASSUME PoolInv, NEW c \in Callers, NEW dataset \in Datasets, Look(c, dataset)
    PROVE  PoolInv'
<1> DEFINE choice == [i \in Instances |->
                        IF i \in Candidates(dataset) THEN registry[i] ELSE None]
           k1 == [IdleCaller EXCEPT !.pc = "choosing"]
           k2 == [k1 EXCEPT !.dataset = dataset]
           k == [k2 EXCEPT !.choice = choice]
<1>1. UNCHANGED <<registry, cooling, cursor, pool, conns, closed, moved, changes>> /\ ~closed
  BY DEF Look
<1>2. registry \in [Instances -> Targets \cup {None}] /\ dataset \subseteq Instances
  BY DatasetsAssumption DEF PoolInv, TypeOK
<1>3. /\ choice \in [Instances -> Targets \cup {None}]
      /\ \A i \in Instances : choice[i] \in {None, registry[i]}
      /\ \A i \in Instances : choice[i] # None => i \in dataset
  BY <1>2 DEF Candidates
<1>4. caller' = [caller EXCEPT ![c] = k]
  BY DEF Look
<1> HIDE DEF choice
<1>5. k1 \in CallerState /\ k1.pc = "choosing"
  BY IdleTyped DEF CallerState
<1>6. k2 \in CallerState /\ k2.pc = "choosing" /\ k2.dataset = dataset
  <2> HIDE DEF k1
  <2> QED BY <1>2, <1>5 DEF CallerState
<1>7. k \in CallerState /\ k.pc = "choosing" /\ k.dataset = dataset /\ k.choice = choice
  <2> HIDE DEF k2
  <2> QED BY <1>3, <1>6 DEF CallerState
<1> HIDE DEF k
<1>8. /\ caller' \in [Callers -> CallerState] /\ caller'[c] = k
      /\ \A d \in Callers : d # c => caller'[d] = caller[d]
  BY <1>4, <1>7, PoolFacts
<1>9. TypeOK'
  BY <1>1, <1>8 DEF PoolInv, TypeOK
<1>10. PickedChecked' /\ CallsPickedEndpoint' /\ CutOnlyIfMoved'
  BY <1>1, <1>7, <1>8
  DEF PoolInv, PickedChecked, CallsPickedEndpoint, CutOnlyIfMoved, HasPicked
<1>11. ChoicesOffer'
  <2>1. ASSUME NEW d \in Callers, caller'[d].pc = "choosing", NEW i \in Instances,
               caller'[d].choice[i] # None
        PROVE  i \in caller'[d].dataset
    BY <2>1, <1>3, <1>7, <1>8 DEF PoolInv, ChoicesOffer, Choices
  <2>2. QED
    BY <2>1 DEF ChoicesOffer, Choices
<1>12. Steady'
  <2>1. ASSUME NEW i \in Instances \ moved, NEW d \in Callers
        PROVE  /\ HasPicked(caller'[d]) /\ caller'[d].instance = i
                      => caller'[d].target = registry[i]
               /\ caller'[d].pc = "choosing" => caller'[d].choice[i] \in {None, registry[i]}
    BY <1>3, <1>7, <1>8 DEF PoolInv, Steady, HasPicked
  <2>2. \A i \in Instances \ moved, n \in 1 .. Len(conns) :
          conns[n].instance = i => conns[n].target = registry[i]
    BY DEF PoolInv, Steady
  <2>3. QED
    BY <2>1, <2>2, <1>1 DEF Steady
<1>13. KeptBelongs' /\ OpenIsKept' /\ ClosedIsQuiet'
  BY <1>1 DEF PoolInv, KeptBelongs, OpenIsKept, ClosedIsQuiet
<1>14. QED
  BY <1>9, <1>10, <1>11, <1>12, <1>13 DEF PoolInv

\* Steps that leave the connections and the pool alone, and move callers only
\* to idle or to a pick of an allowed endpoint, preserve the invariant.
LEMMA PickPreserves ==
    ASSUME PoolInv, NEW c \in Callers, Pick(c)
    PROVE  PoolInv'
<1> DEFINE old == caller[c]
<1>1. PICK i \in Choices(c) :
          caller' = [caller EXCEPT ![c] =
               IF old.choice[i] \in Allowed
               THEN [IdleCaller EXCEPT !.pc = "picked", !.dataset = old.dataset,
                                       !.instance = i, !.target = old.choice[i]]
               ELSE IdleCaller]
  BY DEF Pick
<1>2. i \in Instances /\ old.choice[i] # None /\ i \in 0 .. InstanceCount
  BY InstanceCountAssumption DEF Choices, Instances
<1>3. /\ UNCHANGED <<registry, cooling, pool, conns, closed, moved, changes>>
      /\ old.pc = "choosing" /\ cursor' = cursor + 1
  BY DEF Pick
<1>4. old \in CallerState /\ old.choice[i] \in Targets \cup {None} /\ i \in old.dataset
  BY <1>2, <1>3, PoolFacts DEF PoolInv, ChoicesOffer, CallerState
<1> DEFINE k1 == [IdleCaller EXCEPT !.pc = "picked"]
           k2 == [k1 EXCEPT !.dataset = old.dataset]
           k3 == [k2 EXCEPT !.instance = i]
           k == [k3 EXCEPT !.target = old.choice[i]]
<1>5. k1 \in CallerState /\ k1.pc = "picked"
  BY IdleTyped DEF CallerState
<1>6. k2 \in CallerState /\ k2.pc = "picked" /\ k2.dataset = old.dataset
  <2>1. old.dataset \in SUBSET Instances
    BY <1>4 DEF CallerState
  <2> HIDE DEF k1, old
  <2> QED BY <1>5, <2>1 DEF CallerState
<1>7. k3 \in CallerState /\ k3.pc = "picked" /\ k3.dataset = old.dataset /\ k3.instance = i
  <2> HIDE DEF k2, old
  <2> QED BY <1>2, <1>6 DEF CallerState
<1>8. /\ k \in CallerState /\ k.pc = "picked" /\ k.dataset = old.dataset /\ k.instance = i
      /\ k.target = old.choice[i]
  <2> HIDE DEF k3, old
  <2> QED BY <1>4, <1>7 DEF CallerState
<1>9. caller' = [caller EXCEPT ![c] = IF old.choice[i] \in Allowed THEN k ELSE IdleCaller]
  BY <1>1
<1> HIDE DEF k
<1>10. /\ caller' \in [Callers -> CallerState]
       /\ caller'[c] = IF old.choice[i] \in Allowed THEN k ELSE IdleCaller
       /\ \A d \in Callers : d # c => caller'[d] = caller[d]
  BY <1>8, <1>9, IdleTyped, PoolFacts
<1>11. \A d \in Callers :
          \/ caller'[d] = caller[d]
          \/ caller'[d].pc = "idle"
          \/ /\ caller'[d].pc = "picked"
             /\ caller'[d].instance = i
             /\ caller'[d].dataset = old.dataset
             /\ caller'[d].target = old.choice[i]
             /\ old.choice[i] \in Allowed
  BY <1>8, <1>10 DEF IdleCaller
<1>12. TypeOK'
  <2>1. cursor' \in Nat
    BY <1>3 DEF PoolInv, TypeOK
  <2>2. QED
    BY <2>1, <1>3, <1>10 DEF PoolInv, TypeOK
<1>13. PickedChecked' /\ CallsPickedEndpoint'
  BY <1>2, <1>3, <1>4, <1>11 DEF PoolInv, PickedChecked, CallsPickedEndpoint, HasPicked
<1>14. ChoicesOffer'
  BY <1>11 DEF PoolInv, ChoicesOffer, Choices
<1>15. Steady'
  <2>1. i \notin moved => old.choice[i] = registry[i]
    BY <1>2, <1>3 DEF PoolInv, Steady
  <2> HIDE DEF old
  <2>2. ASSUME NEW j \in Instances \ moved
        PROVE  /\ \A n \in 1 .. Len(conns) : conns[n].instance = j =>
                                                conns[n].target = registry[j]
               /\ \A d \in Callers :
                    /\ HasPicked(caller'[d]) /\ caller'[d].instance = j
                          => caller'[d].target = registry[j]
                    /\ caller'[d].pc = "choosing"
                          => caller'[d].choice[j] \in {None, registry[j]}
    BY <1>11, <2>1 DEF PoolInv, Steady, HasPicked
  <2>3. QED
    BY <2>2, <1>3 DEF Steady
<1>16. KeptBelongs' /\ OpenIsKept'
  BY <1>3 DEF PoolInv, KeptBelongs, OpenIsKept
<1>17. ClosedIsQuiet'
  BY <1>3 DEF PoolInv, ClosedIsQuiet
<1>18. CutOnlyIfMoved'
  BY <1>3, <1>11 DEF PoolInv, CutOnlyIfMoved
<1>19. QED
  BY <1>12, <1>13, <1>14, <1>15, <1>16, <1>17, <1>18 DEF PoolInv

\* Whoever does not take a snapshot chooses among what it chose among before.
LEMMA ChoicesKept ==
    ASSUME PoolInv,
           \A d \in Callers : caller'[d] = caller[d] \/ caller'[d].pc # "choosing"
    PROVE  ChoicesOffer'
BY DEF PoolInv, ChoicesOffer, Choices

LEMMA ReusePreserves ==
    ASSUME PoolInv, NEW c \in Callers, Reuse(c)
    PROVE  PoolInv'
<1> DEFINE i == caller[c].instance
<1>1. /\ caller[c].pc = "picked" /\ i \in Instances
      /\ caller[c].target \in Allowed /\ i \in caller[c].dataset
  BY DEF Reuse, PoolInv, PickedChecked, HasPicked
<1>2. pool[i] # 0 /\ conns[pool[i]].target = caller[c].target
  BY DEF Reuse, Reusable
<1>3. UNCHANGED <<registry, cooling, cursor, pool, conns, closed, moved, changes>>
  BY DEF Reuse
<1>4. caller' = [caller EXCEPT ![c].pc = "calling", ![c].conn = pool[i]]
  BY DEF Reuse, Call
<1>5. pool[i] \in 1 .. Len(conns) /\ conns[pool[i]].instance = i
  BY <1>1, <1>2, PoolFacts DEF PoolInv, KeptBelongs
<1>6. /\ caller'[c].pc = "calling" /\ caller'[c].conn = pool[i]
      /\ caller'[c].instance = i /\ caller'[c].target = caller[c].target
      /\ caller'[c].dataset = caller[c].dataset
      /\ caller'[c] \in CallerState
  <2>1. caller[c] \in CallerState /\ pool[i] \in Nat
    BY <1>5, PoolFacts
  <2>2. caller'[c] = [caller[c] EXCEPT !.pc = "calling", !.conn = pool[i]]
    BY <1>4, <2>1, PoolFacts DEF CallerState
  <2>3. QED
    BY <2>1, <2>2 DEF CallerState
<1>7. \A d \in Callers : d # c => caller'[d] = caller[d]
  BY <1>4, PoolFacts
<1>8. TypeOK'
  <2>1. caller' \in [Callers -> CallerState]
    BY <1>4, <1>6, <1>7, PoolFacts
  <2>2. QED
    BY <2>1, <1>3 DEF PoolInv, TypeOK
<1>9. PickedChecked' /\ CallsPickedEndpoint'
  BY <1>1, <1>2, <1>3, <1>5, <1>6, <1>7
  DEF PoolInv, PickedChecked, CallsPickedEndpoint, HasPicked
<1>10. Steady' /\ ChoicesOffer'
  <2>1. Steady'
    BY <1>1, <1>3, <1>6, <1>7 DEF PoolInv, Steady, HasPicked
  <2>2. QED
    BY <2>1, <1>6, <1>7, ChoicesKept
<1>11. KeptBelongs' /\ OpenIsKept'
  BY <1>3 DEF PoolInv, KeptBelongs, OpenIsKept
<1>12. CutOnlyIfMoved'
  <2>1. conns[pool[i]].open
    BY <1>5, <1>1 DEF PoolInv, OpenIsKept
  <2>2. QED
    BY <2>1, <1>3, <1>6, <1>7 DEF PoolInv, CutOnlyIfMoved
<1>13. ClosedIsQuiet'
  BY <1>1, <1>3, <1>7 DEF PoolInv, ClosedIsQuiet
<1>14. QED
  BY <1>8, <1>9, <1>10, <1>11, <1>12, <1>13 DEF PoolInv

\* Both outcomes of a dial: the new connections, the new entry of the pool.
\* The caller that dials knows of a move if somebody uses the old connection.
LEMMA DialFacts ==
    ASSUME PoolInv, NEW c \in Callers, caller[c].pc = "picked",
           ~Reusable(caller[c].instance, caller[c].target)
    PROVE  /\ caller[c].instance \in Instances
           /\ caller[c].target \in Allowed
           /\ caller[c].instance \in caller[c].dataset
           /\ pool[caller[c].instance] # 0 => caller[c].instance \in moved
<1> DEFINE i == caller[c].instance
<1>1. i \in Instances /\ caller[c].target \in Allowed /\ i \in caller[c].dataset
  BY DEF PoolInv, PickedChecked, HasPicked
<1>2. ASSUME pool[i] # 0, i \notin moved PROVE FALSE
  <2>1. pool[i] \in 1 .. Len(conns) /\ conns[pool[i]].instance = i
    BY <1>1, <1>2, PoolFacts DEF PoolInv, KeptBelongs
  <2>2. conns[pool[i]].target = registry[i] /\ caller[c].target = registry[i]
    BY <1>1, <1>2, <2>1 DEF PoolInv, Steady, HasPicked
  <2>3. QED
    BY <1>2, <2>2 DEF Reusable
<1>3. QED
  BY <1>1, <1>2

LEMMA DialFailsPreserves ==
    ASSUME PoolInv, NEW c \in Callers, DialFails(c)
    PROVE  PoolInv'
<1> DEFINE i == caller[c].instance
<1>1. i \in Instances /\ (pool[i] # 0 => i \in moved)
  BY DialFacts DEF DialFails
<1>2. /\ UNCHANGED <<registry, cooling, cursor, closed, moved, changes>>
      /\ caller[c].pc = "picked"
  BY DEF DialFails
<1>3. conns' = Without(i) /\ pool' = [pool EXCEPT ![i] = 0]
  BY DEF DialFails
<1>4. /\ conns' \in Seq(Conn) /\ Len(conns') = Len(conns)
      /\ \A n \in 1 .. Len(conns) :
            /\ conns'[n].instance = conns[n].instance
            /\ conns'[n].target = conns[n].target
            /\ conns'[n].open = (conns[n].open /\ conns[n].instance # i)
  BY <1>1, <1>3, WithoutFacts
<1>5. /\ pool' \in [Instances -> 0 .. Len(conns')]
      /\ pool'[i] = 0
      /\ \A j \in Instances : j # i => pool'[j] = pool[j]
  BY <1>1, <1>3, <1>4, PoolFacts
<1>6. /\ caller' \in [Callers -> CallerState] /\ caller'[c].pc = "idle"
      /\ \A d \in Callers : d # c => caller'[d] = caller[d]
  BY PoolFacts, IdleTyped DEF DialFails, IdleCaller
<1>7. TypeOK'
  BY <1>2, <1>4, <1>5, <1>6 DEF PoolInv, TypeOK
<1>8. KeptBelongs'
  BY <1>1, <1>4, <1>5, PoolFacts DEF PoolInv, KeptBelongs
<1>9. OpenIsKept'
  <2>1. ASSUME NEW n \in 1 .. Len(conns)
        PROVE  conns'[n].open <=> pool'[conns'[n].instance] = n
    <3>1. conns[n].instance \in Instances /\ conns[n].open \in BOOLEAN
      BY PoolFacts DEF Conn
    <3>2. conns[n].open <=> pool[conns[n].instance] = n
      BY DEF PoolInv, OpenIsKept
    <3>3. CASE conns[n].instance = i
      <4>1. ~conns'[n].open
        BY <3>3, <1>4
      <4>2. pool'[conns'[n].instance] # n
        BY <3>3, <1>4, <1>5
      <4>3. QED
        BY <4>1, <4>2
    <3>4. CASE conns[n].instance # i
      <4>1. conns'[n].open <=> conns[n].open
        BY <3>4, <1>4
      <4>2. pool'[conns'[n].instance] = pool[conns[n].instance]
        BY <3>1, <3>4, <1>4, <1>5
      <4>3. QED
        BY <4>1, <4>2, <3>2
    <3>5. QED
      BY <3>3, <3>4
  <2>2. QED
    BY <2>1, <1>4 DEF OpenIsKept
<1>10. PickedChecked' /\ CallsPickedEndpoint' /\ ChoicesOffer'
  <2>1. PickedChecked' /\ CallsPickedEndpoint'
    BY <1>4, <1>6 DEF PoolInv, PickedChecked, CallsPickedEndpoint, HasPicked
  <2>2. QED
    BY <2>1, <1>6, ChoicesKept
<1>11. Steady'
  <2>1. ASSUME NEW j \in Instances \ moved
        PROVE  /\ \A n \in 1 .. Len(conns) : conns'[n].instance = j =>
                                                conns'[n].target = registry[j]
               /\ \A d \in Callers :
                    /\ HasPicked(caller'[d]) /\ caller'[d].instance = j
                          => caller'[d].target = registry[j]
                    /\ caller'[d].pc = "choosing"
                          => caller'[d].choice[j] \in {None, registry[j]}
    BY <1>4, <1>6 DEF PoolInv, Steady, HasPicked
  <2>2. QED
    BY <2>1, <1>2, <1>4 DEF Steady
<1>12. CutOnlyIfMoved'
  <2>1. ASSUME NEW d \in Callers, caller'[d].pc = "calling",
               ~conns'[caller'[d].conn].open
        PROVE  caller'[d].instance \in moved
    <3>1. d # c /\ caller'[d] = caller[d] /\ caller[d].conn \in 1 .. Len(conns)
      BY <2>1, <1>6 DEF PoolInv, CallsPickedEndpoint
    <3>2. conns[caller[d].conn].instance = caller[d].instance
      BY <2>1, <3>1 DEF PoolInv, CallsPickedEndpoint
    <3>3. CASE ~conns[caller[d].conn].open
      BY <3>1, <3>3, <2>1 DEF PoolInv, CutOnlyIfMoved
    <3>4. CASE conns[caller[d].conn].open
      <4>1. caller[d].instance = i
        BY <3>1, <3>2, <3>4, <2>1, <1>4
      <4>2. pool[i] = caller[d].conn
        BY <4>1, <3>1, <3>2, <3>4 DEF PoolInv, OpenIsKept
      <4>3. QED
        BY <4>1, <4>2, <3>1, <1>1
    <3>5. QED
      BY <3>3, <3>4
  <2>2. QED
    BY <2>1, <1>2 DEF CutOnlyIfMoved
<1>13. ClosedIsQuiet'
  BY <1>2 DEF PoolInv, ClosedIsQuiet
<1>14. QED
  BY <1>7, <1>8, <1>9, <1>10, <1>11, <1>12, <1>13 DEF PoolInv

LEMMA DialPreserves ==
    ASSUME PoolInv, NEW c \in Callers, Dial(c)
    PROVE  PoolInv'
<1> DEFINE i == caller[c].instance
           new == [instance |-> i, target |-> caller[c].target, open |-> TRUE]
           N == Len(conns) + 1
<1>1. /\ i \in Instances /\ caller[c].target \in Allowed /\ i \in caller[c].dataset
      /\ pool[i] # 0 => i \in moved
  BY DialFacts DEF Dial
<1>2. /\ UNCHANGED <<registry, cooling, cursor, closed, moved, changes>>
      /\ caller[c].pc = "picked"
  BY DEF Dial
<1>3. conns' = Append(Without(i), new) /\ pool' = [pool EXCEPT ![i] = N]
  BY DEF Dial
<1>4. /\ conns' \in Seq(Conn) /\ Len(conns') = N /\ conns'[N] = new
      /\ \A n \in 1 .. Len(conns) :
            /\ conns'[n].instance = conns[n].instance
            /\ conns'[n].target = conns[n].target
            /\ conns'[n].open = (conns[n].open /\ conns[n].instance # i)
  <2>1. new \in Conn
    BY <1>1, TargetsAssumption DEF Conn
  <2> HIDE DEF new
  <2>2. /\ conns' \in Seq(Conn) /\ Len(conns') = N /\ conns'[N] = new
        /\ \A n \in 1 .. Len(conns) : conns'[n] = Without(i)[n]
    BY <2>1, <1>1, <1>3, WithoutFacts, PoolFacts
  <2>3. QED
    BY <2>2, <1>1, WithoutFacts
<1>5. /\ pool' \in [Instances -> 0 .. Len(conns')]
      /\ pool'[i] = N
      /\ \A j \in Instances : j # i => pool'[j] = pool[j]
  BY <1>1, <1>3, <1>4, PoolFacts
<1>6. N \in Nat /\ 1 .. Len(conns') = (1 .. Len(conns)) \cup {N} /\ N \notin 1 .. Len(conns)
  BY <1>4, PoolFacts
<1>7. /\ caller' \in [Callers -> CallerState]
      /\ caller'[c].pc = "calling" /\ caller'[c].conn = N
      /\ caller'[c].instance = i /\ caller'[c].target = caller[c].target
      /\ caller'[c].dataset = caller[c].dataset
      /\ \A d \in Callers : d # c => caller'[d] = caller[d]
  <2>1. caller[c] \in CallerState
    BY PoolFacts
  <2>2. caller' = [caller EXCEPT ![c].pc = "calling", ![c].conn = N]
    BY DEF Dial, Call
  <2>3. caller'[c] = [caller[c] EXCEPT !.pc = "calling", !.conn = N]
    BY <2>1, <2>2, PoolFacts DEF CallerState
  <2>4. \A d \in Callers : d # c => caller'[d] = caller[d]
    BY <2>2, PoolFacts
  <2>5. /\ caller'[c].pc = "calling" /\ caller'[c].conn = N
        /\ caller'[c].instance = i /\ caller'[c].target = caller[c].target
        /\ caller'[c].dataset = caller[c].dataset
        /\ caller'[c] \in CallerState
    BY <2>1, <2>3, <1>6 DEF CallerState
  <2>6. caller' \in [Callers -> CallerState]
    BY <2>2, <2>4, <2>5, PoolFacts
  <2>7. QED
    BY <2>4, <2>5, <2>6
<1> HIDE DEF N
<1>8. TypeOK'
  BY <1>2, <1>4, <1>5, <1>7 DEF PoolInv, TypeOK
<1>9. KeptBelongs'
  <2>1. ASSUME NEW j \in Instances, pool'[j] # 0
        PROVE  conns'[pool'[j]].instance = j
    <3>1. CASE j = i
      BY <3>1, <1>4, <1>5
    <3>2. CASE j # i
      <4>1. pool'[j] = pool[j] /\ pool[j] \in 1 .. Len(conns)
        BY <2>1, <3>2, <1>5, PoolFacts
      <4>2. QED
        BY <4>1, <1>4 DEF PoolInv, KeptBelongs
    <3>3. QED
      BY <3>1, <3>2
  <2>2. QED
    BY <2>1 DEF KeptBelongs
<1>10. OpenIsKept'
  <2>1. ASSUME NEW n \in 1 .. Len(conns)
        PROVE  conns'[n].open <=> pool'[conns'[n].instance] = n
    <3>1. conns[n].instance \in Instances /\ conns[n].open \in BOOLEAN
      BY PoolFacts DEF Conn
    <3>2. conns[n].open <=> pool[conns[n].instance] = n
      BY DEF PoolInv, OpenIsKept
    <3>3. CASE conns[n].instance = i
      <4>1. ~conns'[n].open
        BY <3>3, <1>4
      <4>2. pool'[conns'[n].instance] # n
        BY <3>3, <1>4, <1>5, <1>6
      <4>3. QED
        BY <4>1, <4>2
    <3>4. CASE conns[n].instance # i
      <4>1. conns'[n].open <=> conns[n].open
        BY <3>4, <1>4
      <4>2. pool'[conns'[n].instance] = pool[conns[n].instance]
        BY <3>1, <3>4, <1>4, <1>5
      <4>3. QED
        BY <4>1, <4>2, <3>2
    <3>5. QED
      BY <3>3, <3>4
  <2>2. conns'[N].open /\ pool'[conns'[N].instance] = N
    BY <1>4, <1>5
  <2>3. QED
    BY <2>1, <2>2, <1>6 DEF OpenIsKept
<1>11. PickedChecked' /\ ChoicesOffer'
  <2>1. PickedChecked'
    BY <1>1, <1>7 DEF PoolInv, PickedChecked, HasPicked
  <2>2. QED
    BY <2>1, <1>7, ChoicesKept
<1>12. CallsPickedEndpoint'
  <2>1. ASSUME NEW d \in Callers, caller'[d].pc = "calling"
        PROVE  /\ caller'[d].conn \in 1 .. Len(conns')
               /\ conns'[caller'[d].conn].instance = caller'[d].instance
               /\ conns'[caller'[d].conn].target = caller'[d].target
               /\ caller'[d].target \in Allowed
               /\ caller'[d].instance \in caller'[d].dataset
    <3>1. CASE d = c
      BY <3>1, <1>1, <1>4, <1>6, <1>7
    <3>2. CASE d # c
      BY <2>1, <3>2, <1>4, <1>6, <1>7 DEF PoolInv, CallsPickedEndpoint
    <3>3. QED
      BY <3>1, <3>2
  <2>2. QED
    BY <2>1 DEF CallsPickedEndpoint
<1>13. Steady'
  <2>1. ASSUME NEW j \in Instances \ moved
        PROVE  /\ \A n \in 1 .. Len(conns) : conns'[n].instance = j =>
                                                conns'[n].target = registry[j]
               /\ i = j => caller[c].target = registry[j]
               /\ \A d \in Callers :
                    /\ HasPicked(caller'[d]) /\ caller'[d].instance = j
                          => caller'[d].target = registry[j]
                    /\ caller'[d].pc = "choosing"
                          => caller'[d].choice[j] \in {None, registry[j]}
    BY <1>2, <1>4, <1>7 DEF PoolInv, Steady, HasPicked
  <2>2. \A j \in Instances \ moved : conns'[N].instance = j => conns'[N].target = registry[j]
    BY <2>1, <1>4
  <2>3. QED
    BY <2>1, <2>2, <1>2, <1>6 DEF Steady
<1>14. CutOnlyIfMoved'
  <2>1. ASSUME NEW d \in Callers, caller'[d].pc = "calling",
               ~conns'[caller'[d].conn].open
        PROVE  caller'[d].instance \in moved
    <3>1. d # c
      BY <2>1, <1>4, <1>7
    <3>2. /\ caller'[d] = caller[d] /\ caller[d].conn \in 1 .. Len(conns)
          /\ conns[caller[d].conn].instance = caller[d].instance
      BY <2>1, <3>1, <1>7 DEF PoolInv, CallsPickedEndpoint
    <3>3. CASE ~conns[caller[d].conn].open
      BY <3>2, <3>3, <2>1 DEF PoolInv, CutOnlyIfMoved
    <3>4. CASE conns[caller[d].conn].open
      <4>1. caller[d].instance = i
        BY <3>2, <3>4, <2>1, <1>4
      <4>2. pool[i] = caller[d].conn
        BY <4>1, <3>2, <3>4 DEF PoolInv, OpenIsKept
      <4>3. QED
        BY <4>1, <4>2, <3>2, <1>1
    <3>5. QED
      BY <3>3, <3>4
  <2>2. QED
    BY <2>1, <1>2 DEF CutOnlyIfMoved
<1>15. ClosedIsQuiet'
  BY <1>2 DEF PoolInv, ClosedIsQuiet
<1>16. QED
  BY <1>8, <1>9, <1>10, <1>11, <1>12, <1>13, <1>14, <1>15 DEF PoolInv

-----------------------------------------------------------------------------
LEMMA FinishPreserves ==
    ASSUME PoolInv, NEW c \in Callers, Finish(c)
    PROVE  PoolInv'
<1>1. /\ UNCHANGED <<registry, cursor, pool, conns, closed, moved, changes>>
      /\ caller[c].pc = "calling"
      /\ caller' = [caller EXCEPT ![c] = IdleCaller]
  BY DEF Finish
<1>2. /\ caller' \in [Callers -> CallerState] /\ caller'[c].pc = "idle"
      /\ \A d \in Callers : d # c => caller'[d] = caller[d]
  BY <1>1, PoolFacts, IdleTyped DEF IdleCaller
<1>3. cooling' \subseteq Instances
  <2>1. caller[c].instance \in Instances
    BY <1>1 DEF PoolInv, PickedChecked, HasPicked
  <2>2. QED
    BY <2>1 DEF Finish, PoolInv, TypeOK
<1>5. TypeOK'
  BY <1>1, <1>2, <1>3 DEF PoolInv, TypeOK
<1>6. KeptBelongs' /\ OpenIsKept'
  BY <1>1 DEF PoolInv, KeptBelongs, OpenIsKept
<1>7. PickedChecked' /\ CallsPickedEndpoint' /\ CutOnlyIfMoved'
  BY <1>1, <1>2 DEF PoolInv, PickedChecked, CallsPickedEndpoint, CutOnlyIfMoved, HasPicked
<1>8. Steady' /\ ChoicesOffer'
  <2>1. Steady'
    BY <1>1, <1>2 DEF PoolInv, Steady, HasPicked
  <2>2. QED
    BY <2>1, <1>2, ChoicesKept
<1>9. ClosedIsQuiet'
  BY <1>1, <1>2 DEF PoolInv, ClosedIsQuiet
<1>10. QED
  BY <1>5, <1>6, <1>7, <1>8, <1>9 DEF PoolInv

LEMMA RegisterPreserves ==
    ASSUME PoolInv, NEW i \in Instances, NEW target \in Targets \cup {None},
           Register(i, target)
    PROVE  PoolInv'
<1>1. /\ UNCHANGED <<cooling, cursor, pool, conns, caller, closed>>
      /\ registry' = [registry EXCEPT ![i] = target]
      /\ moved' = moved \cup {i}
      /\ changes' = changes + 1
  BY DEF Register
<1>2. /\ registry' \in [Instances -> Targets \cup {None}]
      /\ \A j \in Instances : j # i => registry'[j] = registry[j]
  BY <1>1 DEF PoolInv, TypeOK
<1>3. changes' \in Nat /\ moved' \subseteq Instances
  BY <1>1 DEF Register, PoolInv, TypeOK
<1>4. TypeOK'
  BY <1>1, <1>2, <1>3 DEF PoolInv, TypeOK
<1>5. KeptBelongs' /\ OpenIsKept' /\ PickedChecked' /\ CallsPickedEndpoint' /\ ChoicesOffer'
  BY <1>1 DEF PoolInv, KeptBelongs, OpenIsKept, PickedChecked, CallsPickedEndpoint,
     ChoicesOffer, Choices
<1>6. CutOnlyIfMoved' /\ ClosedIsQuiet'
  BY <1>1 DEF PoolInv, CutOnlyIfMoved, ClosedIsQuiet
<1>7. Steady'
  BY <1>1, <1>2 DEF PoolInv, Steady
<1>8. QED
  BY <1>4, <1>5, <1>6, <1>7 DEF PoolInv

LEMMA CoolDownPreserves ==
    ASSUME PoolInv, NEW i \in Instances, CoolDown(i)
    PROVE  PoolInv'
<1>1. /\ UNCHANGED <<registry, cursor, pool, conns, caller, closed, moved, changes>>
      /\ cooling' = cooling \ {i}
  BY DEF CoolDown
<1>3. TypeOK'
  BY <1>1 DEF PoolInv, TypeOK
<1>4. KeptBelongs' /\ OpenIsKept' /\ PickedChecked' /\ CallsPickedEndpoint' /\ ChoicesOffer'
  BY <1>1 DEF PoolInv, KeptBelongs, OpenIsKept, PickedChecked, CallsPickedEndpoint,
     ChoicesOffer, Choices
<1>5. Steady' /\ CutOnlyIfMoved' /\ ClosedIsQuiet'
  BY <1>1 DEF PoolInv, Steady, CutOnlyIfMoved, ClosedIsQuiet
<1>6. QED
  BY <1>3, <1>4, <1>5 DEF PoolInv

LEMMA ClosePreserves ==
    ASSUME PoolInv, Close
    PROVE  PoolInv'
<1> DEFINE shut(n) == [conns[n] EXCEPT !.open = @ /\ pool[conns[n].instance] # n]
<1>1. /\ UNCHANGED <<registry, cooling, cursor, caller, moved, changes>>
      /\ closed' = TRUE
      /\ \A c \in Callers : caller[c].pc = "idle"
      /\ conns' = [n \in DOMAIN conns |-> shut(n)]
      /\ pool' = [i \in Instances |-> 0]
  BY DEF Close
<1>2. DOMAIN conns = 1 .. Len(conns)
  BY PoolFacts
<1>3. ASSUME NEW n \in 1 .. Len(conns)
      PROVE  /\ shut(n) \in Conn /\ shut(n).instance = conns[n].instance
             /\ shut(n).target = conns[n].target /\ ~shut(n).open
  <2>1. conns[n] \in Conn
    BY PoolFacts
  <2>2. conns[n].open <=> pool[conns[n].instance] = n
    BY DEF PoolInv, OpenIsKept
  <2>3. (conns[n].open /\ pool[conns[n].instance] # n) = FALSE
    BY <2>2
  <2>4. shut(n) = [conns[n] EXCEPT !.open = FALSE]
    BY <2>3
  <2> HIDE DEF shut
  <2>5. QED
    BY <2>1, <2>4 DEF Conn
<1> HIDE DEF shut
<1>4. /\ conns' \in Seq(Conn) /\ Len(conns') = Len(conns)
      /\ \A n \in 1 .. Len(conns) : conns'[n] = shut(n)
  BY <1>1, <1>2, <1>3, PoolFacts
<1>5. TypeOK'
  BY <1>1, <1>4, PoolFacts DEF PoolInv, TypeOK
<1>6. KeptBelongs' /\ ClosedIsQuiet' /\ PickedChecked' /\ ChoicesOffer'
  BY <1>1 DEF KeptBelongs, ClosedIsQuiet, PickedChecked, ChoicesOffer, HasPicked
<1>7. OpenIsKept'
  <2>1. ASSUME NEW n \in 1 .. Len(conns)
        PROVE  ~conns'[n].open /\ pool'[conns'[n].instance] # n
    <3>1. conns'[n].instance \in Instances
      BY <1>3, <1>4 DEF Conn
    <3>2. QED
      BY <3>1, <1>1, <1>3, <1>4
  <2>2. QED
    BY <2>1, <1>4 DEF OpenIsKept
<1>8. CallsPickedEndpoint' /\ CutOnlyIfMoved'
  BY <1>1 DEF CallsPickedEndpoint, CutOnlyIfMoved
<1>9. Steady'
  <2>1. \A n \in 1 .. Len(conns) : /\ conns'[n].instance = conns[n].instance
                                   /\ conns'[n].target = conns[n].target
    BY <1>3, <1>4
  <2>2. \A i \in Instances \ moved, n \in 1 .. Len(conns) :
          conns'[n].instance = i => conns'[n].target = registry[i]
    BY <2>1 DEF PoolInv, Steady
  <2>3. /\ UNCHANGED <<registry, caller, moved>> /\ Len(conns') = Len(conns)
        /\ \A c \in Callers : caller[c].pc = "idle"
    BY <1>1, <1>4
  <2>4. QED
    BY <2>2, <2>3 DEF Steady, HasPicked
<1>10. QED
  BY <1>5, <1>6, <1>7, <1>8, <1>9 DEF PoolInv

-----------------------------------------------------------------------------
LEMMA InitPool == Init => PoolInv
<1> SUFFICES ASSUME Init PROVE PoolInv
  OBVIOUS
<1>1. Len(conns) = 0 /\ 1 .. Len(conns) = {} /\ \A c \in Callers : caller[c] = IdleCaller
  BY DEF Init
<1>2. TypeOK
  <2>1. conns \in Seq(Conn)
    BY DEF Init
  <2>2. pool \in [Instances -> 0 .. Len(conns)]
    BY <1>1 DEF Init
  <2>3. caller \in [Callers -> CallerState]
    BY IdleTyped DEF Init
  <2>4. QED
    BY <2>1, <2>2, <2>3 DEF Init, TypeOK
<1>3. KeptBelongs /\ OpenIsKept
  BY <1>1 DEF Init, KeptBelongs, OpenIsKept
<1>4. \A c \in Callers : caller[c].pc = "idle"
  BY <1>1 DEF IdleCaller
<1>5. QED
  BY <1>1, <1>2, <1>3, <1>4 DEF PoolInv, PickedChecked, CallsPickedEndpoint, Steady,
     CutOnlyIfMoved, ClosedIsQuiet, ChoicesOffer, HasPicked

LEMMA NextPool == PoolInv /\ [Next]_poolVars => PoolInv'
<1> SUFFICES ASSUME PoolInv, [Next]_poolVars PROVE PoolInv'
  OBVIOUS
<1>1. ASSUME NEW c \in Callers, Pick(c) \/ Reuse(c) \/ Dial(c) \/ DialFails(c) \/ Finish(c)
      PROVE  PoolInv'
  BY <1>1, PickPreserves, ReusePreserves, DialPreserves, DialFailsPreserves, FinishPreserves
<1>2. CASE UNCHANGED poolVars
  BY <1>2 DEF poolVars, PoolInv, TypeOK, KeptBelongs, OpenIsKept, PickedChecked,
     CallsPickedEndpoint, Steady, CutOnlyIfMoved, ClosedIsQuiet, ChoicesOffer, Choices
<1>3. QED
  BY <1>1, <1>2, LookPreserves, CoolDownPreserves, RegisterPreserves, ClosePreserves DEF Next

LEMMA PoolInvariant == Spec => []PoolInv
<1>1. QED
  BY InitPool, NextPool, PTL DEF Spec

\* Whatever moves, fails or is closed while callers race for the mutex, the
\* open connections are exactly the kept ones (client and Close, provider.go).
THEOREM NoConnectionLeaks == Spec => []OpenIsKept
<1>1. PoolInv => OpenIsKept
  BY DEF PoolInv
<1>2. QED
  BY <1>1, PoolInvariant, PTL

\* A call of client returns a connection to the endpoint that was checked,
\* although the pool is looked up after the check and under the mutex only.
THEOREM CallsGoWhereChecked == Spec => []CallsPickedEndpoint
<1>1. PoolInv => CallsPickedEndpoint
  BY DEF PoolInv
<1>2. QED
  BY <1>1, PoolInvariant, PTL

\* The connection.Close of client only ever hits calls to an instance whose
\* endpoint has changed: concurrent callers do not cut each other otherwise.
THEOREM SteadyCallsAreNotCut == Spec => []CutOnlyIfMoved
<1>1. PoolInv => CutOnlyIfMoved
  BY DEF PoolInv
<1>2. QED
  BY <1>1, PoolInvariant, PTL

=============================================================================
