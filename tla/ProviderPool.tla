---------------------------- MODULE ProviderPool ----------------------------
(***************************************************************************)
(* GRPCProvider's connections (provider.go): client takes the instances    *)
(* that offer a dataset from the discovery's snapshot, picks one by a      *)
(* counter that all services and datasets share, checks its endpoint and   *)
(* then, under the mutex, reuses, replaces or makes the connection kept    *)
(* for that instance.  Exports and descriptor requests do this             *)
(* concurrently while instances come, go and move.                         *)
(***************************************************************************)
EXTENDS Naturals, Sequences, FiniteSets

CONSTANTS
    InstanceCount,      \* instances of the provider service that ever register
    Datasets,           \* what calls ask for: a dataset of a service is the set
                        \* of the instances that offer it
    Targets,            \* endpoints, without their scheme
    Allowed,            \* endpoints validateProviderTarget accepts
    Callers,            \* concurrent Stream and DescribeDataset calls
    None,               \* no endpoint
    MaxDials,           \* bound: connections made
    MaxChanges,         \* bound: registrations and removals of endpoints
    MaxPicks            \* bound: calls

\* The instances, in the order in which the discovery lists them.
Instances == 1 .. InstanceCount

ASSUME InstanceCountAssumption == InstanceCount \in Nat
ASSUME DatasetsAssumption == Datasets \subseteq SUBSET Instances
ASSUME TargetsAssumption == Allowed \subseteq Targets
ASSUME NoneAssumption == None \notin Targets
ASSUME PoolBoundAssumption == MaxDials \in Nat /\ MaxChanges \in Nat /\ MaxPicks \in Nat

VARIABLES
    registry,           \* the discovery's snapshot: [Instances -> endpoint]
    cooling,            \* instances reported as failed
    cursor,             \* p.cursor, one for all calls
    pool,               \* p.connections: [Instances -> index in conns, or 0]
    conns,              \* every connection ever made
    caller,             \* [Callers -> the call]
    closed,             \* Close has run
    moved,              \* history: instances whose endpoint has changed
    changes

poolVars == <<registry, cooling, cursor, pool, conns, caller, closed, moved,
              changes>>

Conn == [instance : Instances, target : Targets, open : BOOLEAN]

\* No instance.
NoChoice == [i \in Instances |-> None]

IdleCaller == [pc |-> "idle", dataset |-> {}, choice |-> NoChoice, instance |-> 0,
               target |-> None, conn |-> 0]

\* choice: the candidates of a call, with their endpoints, as they were in the
\* snapshot.
CallerState == [pc : {"idle", "choosing", "picked", "calling"},
                dataset : SUBSET Instances,
                choice : [Instances -> Targets \cup {None}],
                instance : 0 .. InstanceCount,
                target : Targets \cup {None},
                conn : Nat]

TypeOK ==
    /\ registry \in [Instances -> Targets \cup {None}]
    /\ cooling \subseteq Instances
    /\ cursor \in Nat
    /\ conns \in Seq(Conn)
    /\ pool \in [Instances -> 0 .. Len(conns)]
    /\ caller \in [Callers -> CallerState]
    /\ closed \in BOOLEAN
    /\ moved \subseteq Instances
    /\ changes \in Nat

Init ==
    /\ registry \in [Instances -> Targets]
    /\ cooling = {}
    /\ cursor = 0
    /\ pool = [i \in Instances |-> 0]
    /\ conns = <<>>
    /\ caller = [c \in Callers |-> IdleCaller]
    /\ closed = FALSE
    /\ moved = {}
    /\ changes = 0

-----------------------------------------------------------------------------
\* What the discovery returns of the instances that offer the dataset: those
\* that are registered and not cooling down.
Candidates(dataset) == {i \in dataset : registry[i] # None /\ i \notin cooling}

\* client, up to the snapshot.  Without candidates it returns an error.
Look(c, dataset) ==
    /\ caller[c].pc = "idle"
    /\ ~closed
    /\ Candidates(dataset) # {}
    /\ caller' = [caller EXCEPT ![c] = [IdleCaller EXCEPT
                    !.pc = "choosing", !.dataset = dataset,
                    !.choice = [i \in Instances |->
                                  IF i \in Candidates(dataset) THEN registry[i] ELSE None]]]
    /\ UNCHANGED <<registry, cooling, cursor, pool, conns, closed, moved, changes>>

Choices(c) == {i \in Instances : caller[c].choice[i] # None}

\* candidates[(cursor.Add(1) - 1) % len(candidates)] is i.
HasTurn(c, i) ==
    Cardinality({other \in Choices(c) : other < i}) = cursor % Cardinality(Choices(c))

\* client, from the counter to the mutex: whatever has happened to the
\* instance since the snapshot.  An endpoint that is not allowed is an error.
Pick(c) ==
    /\ caller[c].pc = "choosing"
    /\ cursor < MaxPicks
    /\ cursor' = cursor + 1
    /\ \E i \in Choices(c) :
          /\ HasTurn(c, i)
          /\ caller' = [caller EXCEPT ![c] =
               IF caller[c].choice[i] \in Allowed
               THEN [IdleCaller EXCEPT !.pc = "picked", !.dataset = caller[c].dataset,
                                       !.instance = i, !.target = caller[c].choice[i]]
               ELSE IdleCaller]
    /\ UNCHANGED <<registry, cooling, pool, conns, closed, moved, changes>>

\* Mutant of Reusable: whatever connection the instance has is used.
AnyConnection(i, target) == pool[i] # 0

\* Mutant of Reusable: every call makes a connection.
NoConnection(i, target) == FALSE

Reusable(i, target) == pool[i] # 0 /\ conns[pool[i]].target = target

\* Mutant of Without: the connection that is replaced stays open.
WithoutClosing(i) == conns

\* The connection kept for i is closed.
Without(i) == IF pool[i] = 0 THEN conns ELSE [conns EXCEPT ![pool[i]].open = FALSE]

Call(c, n) == caller' = [caller EXCEPT ![c].pc = "calling", ![c].conn = n]

\* client, under the mutex: the kept connection serves the picked endpoint.
Reuse(c) ==
    /\ caller[c].pc = "picked"
    /\ Reusable(caller[c].instance, caller[c].target)
    /\ Call(c, pool[caller[c].instance])
    /\ UNCHANGED <<registry, cooling, cursor, pool, conns, closed, moved, changes>>

\* client, under the mutex: a new connection, in place of the kept one.
Dial(c) ==
    LET i == caller[c].instance
    IN  /\ caller[c].pc = "picked"
        /\ ~Reusable(i, caller[c].target)
        /\ Len(conns) < MaxDials
        /\ conns' = Append(Without(i), [instance |-> i, target |-> caller[c].target,
                                        open |-> TRUE])
        /\ pool' = [pool EXCEPT ![i] = Len(conns) + 1]
        /\ Call(c, Len(conns) + 1)
        /\ UNCHANGED <<registry, cooling, cursor, closed, moved, changes>>

\* The same, when dial returns an error: the kept connection is gone.
DialFails(c) ==
    LET i == caller[c].instance
    IN  /\ caller[c].pc = "picked"
        /\ ~Reusable(i, caller[c].target)
        /\ conns' = Without(i)
        /\ pool' = [pool EXCEPT ![i] = 0]
        /\ caller' = [caller EXCEPT ![c] = IdleCaller]
        /\ UNCHANGED <<registry, cooling, cursor, closed, moved, changes>>

\* The call ends; on an open connection it may succeed.  Failures are
\* reported, except those of a stream that are not the provider's.
Finish(c) ==
    /\ caller[c].pc = "calling"
    /\ caller' = [caller EXCEPT ![c] = IdleCaller]
    /\ \/ conns[caller[c].conn].open /\ cooling' = cooling \ {caller[c].instance}
       \/ cooling' = cooling \cup {caller[c].instance}
       \/ UNCHANGED cooling
    /\ UNCHANGED <<registry, cursor, pool, conns, closed, moved, changes>>

-----------------------------------------------------------------------------
\* The discovery learns of an instance's new endpoint, or of its end.
Register(i, target) ==
    /\ changes < MaxChanges
    /\ changes' = changes + 1
    /\ registry[i] # target
    /\ registry' = [registry EXCEPT ![i] = target]
    /\ moved' = moved \cup {i}
    /\ UNCHANGED <<cooling, cursor, pool, conns, caller, closed>>

\* ReportFailure's cooldown is over.
CoolDown(i) ==
    /\ i \in cooling
    /\ cooling' = cooling \ {i}
    /\ UNCHANGED <<registry, cursor, pool, conns, caller, closed, moved, changes>>

\* Close runs after the stop hooks of everything that calls the provider, and
\* these wait for their calls.
Close ==
    /\ ~closed
    /\ \A c \in Callers : caller[c].pc = "idle"
    /\ closed' = TRUE
    /\ conns' = [n \in DOMAIN conns |->
                    [conns[n] EXCEPT !.open = @ /\ pool[conns[n].instance] # n]]
    /\ pool' = [i \in Instances |-> 0]
    /\ UNCHANGED <<registry, cooling, cursor, caller, moved, changes>>

Next ==
    \/ \E c \in Callers, dataset \in Datasets : Look(c, dataset)
    \/ \E c \in Callers : Pick(c) \/ Reuse(c) \/ Dial(c) \/ DialFails(c) \/ Finish(c)
    \/ \E i \in Instances : CoolDown(i)
    \/ \E i \in Instances, target \in Targets \cup {None} : Register(i, target)
    \/ Close

Spec == Init /\ [][Next]_poolVars

-----------------------------------------------------------------------------
\* The open connections are the kept ones: none is leaked when an endpoint
\* moves, a dial fails or the provider is closed, and none is kept closed.
OpenIsKept ==
    \A n \in 1 .. Len(conns) : conns[n].open <=> pool[conns[n].instance] = n

\* A call goes to the endpoint that was picked and checked for it, of the
\* instance that will be blamed for it, one that offers what the call is about,
\* although others have moved the cursor and the instance since the snapshot.
CallsPickedEndpoint ==
    \A c \in Callers : caller[c].pc = "calling" =>
        /\ caller[c].conn \in 1 .. Len(conns)
        /\ conns[caller[c].conn].instance = caller[c].instance
        /\ conns[caller[c].conn].target = caller[c].target
        /\ caller[c].target \in Allowed
        /\ caller[c].instance \in caller[c].dataset

\* Nobody cuts a call to an instance that has always had the same endpoint.
CutOnlyIfMoved ==
    \A c \in Callers :
        caller[c].pc = "calling" /\ ~conns[caller[c].conn].open
            => caller[c].instance \in moved

=============================================================================
