--------------------------- MODULE RuntimeProofs ---------------------------
(***************************************************************************)
(* No task uses a closed resource, for any number of tasks.                *)
(***************************************************************************)
EXTENDS Runtime, TLAPS

\* Of the started hooks only the last one may have been stopped.
StartedIsOpen ==
    \A n \in 1 .. started :
        Hooks[n] \in closed => n = started /\ called

\* A server is idle before its start hook, takes no tasks once its stop hook
\* is called, and is idle when that has returned.
ServerInv ==
    \A n \in 1 .. Len(Hooks) : Hooks[n] \in Servers =>
        /\ n > started => /\ tasks[Hooks[n]] = 0
                          /\ Hooks[n] = "runtime" => loops = {}
        /\ n > started \/ (n = started /\ called) => Hooks[n] \notin accepting

\* Stop hooks are only called when the process stops.
PhaseInv ==
    /\ phase \in {"starting", "serving"} => ~called /\ closed = {}
    /\ phase = "serving" => started = Len(Hooks)
    /\ called => started > 0

\* The resources constructed before the first hook that may fail are closed as
\* soon as their stop hook is called, and the process only exits when all stop
\* hooks have returned or the timeout has passed.
ExitInv ==
    /\ phase \in {"stopping", "exited"} =>
          \A n \in 1 .. 8 :
             Hooks[n] \in Resources /\ (n > started \/ (n = started /\ called))
                => Hooks[n] \in closed
    /\ phase = "exited" => started = 0 \/ deadline

RuntimeInv == TypeOK /\ StartedIsOpen /\ ServerInv /\ PhaseInv

-----------------------------------------------------------------------------
\* The order of the hooks, position by position.
LEMMA HookOrder ==
    /\ Len(Hooks) = 13
    /\ Hooks[1] = "logger" /\ Hooks[2] = "database" /\ Hooks[3] = "tracing"
    /\ Hooks[4] = "redis" /\ Hooks[5] = "bus" /\ Hooks[6] = "outbound"
    /\ Hooks[7] = "discovery" /\ Hooks[8] = "provider" /\ Hooks[9] = "runtime"
    /\ Hooks[10] = "scheduler" /\ Hooks[11] = "auth" /\ Hooks[12] = "grpc"
    /\ Hooks[13] = "http"
  BY DEF Hooks

\* No two hooks have the same name.
LEMMA HooksDiffer ==
    \A m, n \in 1 .. Len(Hooks) : Hooks[m] = Hooks[n] => m = n
  BY HookOrder

\* Every server has a hook.
LEMMA ServerHooks ==
    \A s \in Servers : \E n \in 1 .. Len(Hooks) : Hooks[n] = s
  <1>1. /\ 9 \in 1 .. Len(Hooks) /\ 10 \in 1 .. Len(Hooks)
        /\ 12 \in 1 .. Len(Hooks) /\ 13 \in 1 .. Len(Hooks)
    BY HookOrder
  <1>. QED
    BY <1>1, HookOrder DEF Servers

\* What the tasks of a server use was constructed before it: this is where the
\* order of the hooks matters.
LEMMA UsesEarlier ==
    ASSUME NEW n \in 1 .. Len(Hooks), Hooks[n] \in Servers,
           NEW m \in 1 .. Len(Hooks), Hooks[m] \in Uses(Hooks[n])
    PROVE  m < n
  BY HookOrder DEF Uses, Servers, Resources

\* Everything a task uses has a hook.
LEMMA UsesHaveHooks ==
    \A s \in Servers : \A r \in Uses(s) : \E m \in 1 .. Len(Hooks) : Hooks[m] = r
  <1>1. \A m \in 1 .. 13 : m \in 1 .. Len(Hooks)
    BY HookOrder
  <1>2. \A r \in Resources : \E m \in 1 .. 13 : Hooks[m] = r
    BY HookOrder DEF Resources
  <1>3. \A s \in Servers : Uses(s) \subseteq Resources
    BY DEF Uses, Servers, Resources
  <1>. QED
    BY <1>1, <1>2, <1>3

-----------------------------------------------------------------------------
LEMMA RuntimeInvInit == Init => RuntimeInv
  <1>. SUFFICES ASSUME Init PROVE RuntimeInv
    OBVIOUS
  <1>1. TypeOK
    <2>1. started \in 0 .. Len(Hooks)
      BY HookOrder DEF Init
    <2>2. tasks \in [Servers -> 0 .. MaxTasks]
      BY MaxTasksAssumption DEF Init
    <2>. QED
      BY <2>1, <2>2 DEF Init, TypeOK
  <1>2. StartedIsOpen /\ PhaseInv
    BY DEF Init, StartedIsOpen, PhaseInv
  <1>3. ServerInv
    BY DEF Init, ServerInv
  <1>. QED
    BY <1>1, <1>2, <1>3 DEF RuntimeInv

LEMMA RuntimeInvNext == RuntimeInv /\ [Next]_runtimeVars => RuntimeInv'
  <1>. SUFFICES ASSUME RuntimeInv, [Next]_runtimeVars PROVE RuntimeInv'
    OBVIOUS
  <1>. USE MaxTasksAssumption DEF RuntimeInv
  <1>1. CASE StartHook
    <2>1. started + 1 \in 1 .. Len(Hooks)
      BY <1>1, HookOrder DEF StartHook, TypeOK
    <2>2. TypeOK'
      <3>1. started' \in 0 .. Len(Hooks)
        BY <1>1, <2>1, HookOrder DEF StartHook
      <3>2. accepting' \subseteq enabled /\ loops' \subseteq Loops
        BY <1>1 DEF StartHook, TypeOK
      <3>. QED
        BY <1>1, <3>1, <3>2 DEF StartHook, TypeOK
    <2>3. StartedIsOpen' /\ PhaseInv'
      BY <1>1 DEF StartHook, TypeOK, StartedIsOpen, PhaseInv
    <2>4. ServerInv'
      BY <1>1, <2>1, HooksDiffer, HookOrder DEF StartHook, TypeOK, ServerInv, PhaseInv, Servers
    <2>. QED
      BY <2>2, <2>3, <2>4
  <1>2. CASE StartFails \/ Run \/ Signal \/ Timeout \/ Exit
    <2>1. TypeOK'
      BY <1>2 DEF StartFails, Run, Signal, Timeout, Exit, TypeOK
    <2>2. UNCHANGED <<started, called, accepting, tasks, loops, closed>>
      BY <1>2 DEF StartFails, Run, Signal, Timeout, Exit
    <2>3. StartedIsOpen' /\ ServerInv'
      BY <2>2 DEF StartedIsOpen, ServerInv
    <2>4. PhaseInv'
      BY <1>2 DEF StartFails, Run, Signal, Timeout, Exit, PhaseInv
    <2>. QED
      BY <2>1, <2>3, <2>4
  <1>3. ASSUME NEW s \in Servers, TaskBegins(s) PROVE RuntimeInv'
    <2>1. TypeOK'
      BY <1>3 DEF TaskBegins, TypeOK
    <2>2. StartedIsOpen' /\ PhaseInv'
      BY <1>3 DEF TaskBegins, StartedIsOpen, PhaseInv
    <2>3. ServerInv'
      BY <1>3 DEF TaskBegins, ServerInv, TypeOK
    <2>. QED
      BY <2>1, <2>2, <2>3
  <1>4. ASSUME NEW s \in Servers, TaskEnds(s) PROVE RuntimeInv'
    <2>1. TypeOK'
      BY <1>4 DEF TaskEnds, TypeOK
    <2>2. StartedIsOpen' /\ PhaseInv'
      BY <1>4 DEF TaskEnds, StartedIsOpen, PhaseInv
    <2>3. ServerInv'
      BY <1>4 DEF TaskEnds, ServerInv, TypeOK
    <2>. QED
      BY <2>1, <2>2, <2>3
  <1>5. CASE (\E s \in Servers : ServeFails(s)) \/ ConsumerFails \/ (\E l \in Loops : LoopEnds(l))
    <2>1. /\ UNCHANGED <<phase, started, called, enabled, tasks, canceled, closed, deadline>>
          /\ accepting' \subseteq accepting /\ loops' \subseteq loops
      BY <1>5 DEF ServeFails, ConsumerFails, LoopEnds
    <2>2. TypeOK'
      BY <2>1 DEF TypeOK
    <2>3. StartedIsOpen' /\ PhaseInv'
      BY <2>1 DEF StartedIsOpen, PhaseInv
    <2>4. ServerInv'
      BY <2>1 DEF ServerInv
    <2>. QED
      BY <2>2, <2>3, <2>4
  <1>6. CASE StopHook
    <2>1. TypeOK'
      BY <1>6 DEF StopHook, TypeOK, Cancels
    <2>2. StartedIsOpen'
      BY <1>6, HooksDiffer DEF StopHook, StartedIsOpen, TypeOK, Current
    <2>3. ServerInv'
      BY <1>6 DEF StopHook, ServerInv, TypeOK, Current
    <2>4. PhaseInv'
      BY <1>6 DEF StopHook, PhaseInv, TypeOK
    <2>. QED
      BY <2>1, <2>2, <2>3, <2>4
  <1>7. CASE HookStopped
    <2>1. started > 0 /\ started - 1 \in 0 .. Len(Hooks)
      BY <1>7 DEF HookStopped, TypeOK, PhaseInv
    <2>2. TypeOK'
      BY <1>7, <2>1 DEF HookStopped, TypeOK
    <2>3. StartedIsOpen'
      BY <1>7, <2>1 DEF HookStopped, StartedIsOpen, TypeOK
    <2>4. ServerInv'
      BY <1>7, <2>1 DEF HookStopped, ServerInv, TypeOK, Current, Drained
    <2>5. PhaseInv'
      BY <1>7 DEF HookStopped, PhaseInv
    <2>. QED
      BY <2>2, <2>3, <2>4, <2>5
  <1>8. CASE UNCHANGED runtimeVars
    BY <1>8 DEF runtimeVars, TypeOK, StartedIsOpen, ServerInv, PhaseInv
  <1>. QED
    BY <1>1, <1>2, <1>3, <1>4, <1>5, <1>6, <1>7, <1>8 DEF Next

LEMMA ExitInvNext == RuntimeInv /\ ExitInv /\ [Next]_runtimeVars => ExitInv'
  <1>. SUFFICES ASSUME RuntimeInv, ExitInv, [Next]_runtimeVars PROVE ExitInv'
    OBVIOUS
  <1>. USE DEF RuntimeInv
  <1>1. CASE StartHook \/ Run
    BY <1>1 DEF StartHook, Run, ExitInv
  <1>2. CASE StartFails
    <2>1. started >= 8
      BY <1>2, HookOrder DEF StartFails, TypeOK, Servers
    <2>. QED
      BY <1>2, <2>1 DEF StartFails, ExitInv, PhaseInv, TypeOK
  <1>3. CASE Signal
    <2>1. started = 13
      BY <1>3, HookOrder DEF Signal, PhaseInv
    <2>. QED
      BY <1>3, <2>1 DEF Signal, ExitInv
  <1>4. CASE StopHook
    BY <1>4 DEF StopHook, ExitInv, TypeOK, Current
  <1>5. CASE HookStopped
    BY <1>5 DEF HookStopped, ExitInv, TypeOK
  <1>6. CASE Timeout \/ Exit
    BY <1>6 DEF Timeout, Exit, ExitInv
  <1>7. CASE \/ \E s \in Servers : TaskBegins(s) \/ TaskEnds(s) \/ ServeFails(s)
             \/ \E l \in Loops : LoopEnds(l)
             \/ ConsumerFails \/ UNCHANGED runtimeVars
    <2>1. UNCHANGED <<phase, started, called, closed, deadline>>
      BY <1>7 DEF TaskBegins, TaskEnds, ServeFails, LoopEnds, ConsumerFails, runtimeVars
    <2>. QED
      BY <2>1 DEF ExitInv
  <1>. QED
    BY <1>1, <1>2, <1>3, <1>4, <1>5, <1>6, <1>7 DEF Next

-----------------------------------------------------------------------------
\* No request, export, cron job or loop of the runtime is in progress when
\* something it calls is closed (the stop hooks run in reverse order of
\* construction and each waits for the tasks of its server).
THEOREM TasksUseOpenResources == Spec => []NothingUsesClosed
  <1>1. RuntimeInv => NothingUsesClosed
    <2>. SUFFICES ASSUME RuntimeInv, NEW s \in Servers,
                         tasks[s] > 0 \/ (s = "runtime" /\ loops # {}),
                         NEW r \in Uses(s), r \in closed
                  PROVE  FALSE
      BY DEF NothingUsesClosed
    <2>1. PICK n \in 1 .. Len(Hooks) : Hooks[n] = s
      BY ServerHooks
    <2>2. PICK m \in 1 .. Len(Hooks) : Hooks[m] = r
      BY UsesHaveHooks
    <2>3. m < n
      BY <2>1, <2>2, UsesEarlier
    <2>4. n <= started
      BY <2>1, HookOrder DEF RuntimeInv, ServerInv, TypeOK
    <2>. QED
      BY <2>2, <2>3, <2>4, HookOrder DEF RuntimeInv, StartedIsOpen, TypeOK
  <1>. QED
    BY <1>1, RuntimeInvInit, RuntimeInvNext, PTL DEF Spec

\* A process that exits within its shutdown timeout, after a signal or a failed
\* start, has finished its tasks and closed its resources.
THEOREM ExitIsClean == Spec => []CleanExit
  <1>1. Init => ExitInv
    BY DEF Init, ExitInv
  <1>2. RuntimeInv /\ ExitInv => CleanExit
    <2>. SUFFICES ASSUME RuntimeInv, ExitInv, phase = "exited", ~deadline
                  PROVE  /\ accepting = {} /\ loops = {}
                         /\ \A s \in Servers : tasks[s] = 0
                         /\ Resources \ {"auth"} \subseteq closed
      BY DEF CleanExit
    <2>1. started = 0
      BY DEF ExitInv
    <2>2. \A s \in Servers : tasks[s] = 0 /\ s \notin accepting
      <3>. SUFFICES ASSUME NEW s \in Servers PROVE tasks[s] = 0 /\ s \notin accepting
        OBVIOUS
      <3>1. PICK n \in 1 .. Len(Hooks) : Hooks[n] = s
        BY ServerHooks
      <3>. QED
        BY <2>1, <3>1, HookOrder DEF RuntimeInv, ServerInv
    <2>3. accepting = {}
      BY <2>2 DEF RuntimeInv, TypeOK
    <2>4. loops = {}
      BY <2>1, HookOrder DEF RuntimeInv, ServerInv, Servers
    <2>5. Resources \ {"auth"} \subseteq closed
      BY <2>1, HookOrder DEF ExitInv, Resources
    <2>. QED
      BY <2>2, <2>3, <2>4, <2>5
  <1>. QED
    BY <1>1, <1>2, RuntimeInvInit, RuntimeInvNext, ExitInvNext, PTL DEF Spec

=============================================================================
