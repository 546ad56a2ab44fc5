------------------------------ MODULE Runtime ------------------------------
(***************************************************************************)
(* One process of the service, from its start to its exit (app.New, the    *)
(* lifecycle hooks of its parts).  fx calls the start hooks in the order   *)
(* in which the parts were constructed and the stop hooks in reverse, one  *)
(* at a time; it gives up when the shutdown timeout has passed.  Parts     *)
(* that serve (the outbox runtime, the scheduler, both transports) have    *)
(* tasks in progress, which use the parts that were constructed before.    *)
(*                                                                         *)
(* The discovery's goroutine is cancelled and not waited for; it serves no *)
(* task and is left out.                                                   *)
(***************************************************************************)
EXTENDS Naturals, Sequences

CONSTANT MaxTasks       \* bound: tasks of one server at the same time

ASSUME MaxTasksAssumption == MaxTasks \in Nat

-----------------------------------------------------------------------------
\* Mutant of Hooks: the runtime is constructed before what its worker needs.
HooksRuntimeFirst ==
    <<"logger", "database", "tracing", "redis", "bus", "runtime", "outbound",
      "discovery", "provider", "scheduler", "auth", "grpc", "http">>

\* The hooks in the order of their registration: every constructor registers
\* after those of its parameters, in the order of the modules of New.
Hooks ==
    <<"logger", "database", "tracing", "redis", "bus", "outbound",
      "discovery", "provider", "runtime", "scheduler", "auth", "grpc", "http">>

Servers == {"runtime", "scheduler", "grpc", "http"}

\* What a stop hook closes.
Resources == {"logger", "database", "tracing", "redis", "bus", "outbound",
              "provider", "auth"}

\* What the tasks of a server, and the loops of the runtime, call.
Uses(s) ==
    CASE s = "runtime"   -> {"logger", "database", "bus", "outbound", "provider"}
      [] s = "scheduler" -> {"logger", "database", "redis"}
      [] OTHER           -> Resources \ {"bus"}

\* The goroutines of exportEventRuntime.
Loops == {"dispatcher", "retention", "consumer"}

VARIABLES
    phase,              \* of the process
    started,            \* the first hooks of Hooks that are started
    called,             \* the stop hook of the last of them has been called
    enabled,            \* servers the configuration enables
    accepting,          \* servers that take new tasks
    tasks,              \* [Servers -> tasks in progress]
    loops,              \* goroutines of the runtime
    canceled,           \* the runtime's context is canceled
    closed,             \* resources that are closed
    deadline            \* the shutdown timeout has passed

runtimeVars == <<phase, started, called, enabled, accepting, tasks, loops,
                 canceled, closed, deadline>>

TypeOK ==
    /\ phase \in {"starting", "serving", "stopping", "exited"}
    /\ started \in 0 .. Len(Hooks)
    /\ called \in BOOLEAN
    /\ enabled \subseteq Servers
    /\ accepting \subseteq enabled
    /\ tasks \in [Servers -> 0 .. MaxTasks]
    /\ loops \subseteq Loops
    /\ canceled \in BOOLEAN
    /\ closed \subseteq Resources
    /\ deadline \in BOOLEAN

\* All parts are constructed and their resources open.
Init ==
    /\ phase = "starting"
    /\ started = 0
    /\ called = FALSE
    /\ enabled \in {e \in SUBSET Servers : "http" \in e}
    /\ accepting = {}
    /\ tasks = [s \in Servers |-> 0]
    /\ loops = {}
    /\ canceled = FALSE
    /\ closed = {}
    /\ deadline = FALSE

-----------------------------------------------------------------------------
(* Start *)

\* The next start hook succeeds; one of a disabled server does nothing.
StartHook ==
    LET h == Hooks[started + 1]
    IN  /\ phase = "starting"
        /\ started < Len(Hooks)
        /\ started' = started + 1
        /\ accepting' = IF h \in enabled THEN accepting \cup {h} ELSE accepting
        /\ loops' = IF h = "runtime" /\ h \in enabled THEN Loops ELSE loops
        /\ UNCHANGED <<phase, called, enabled, tasks, canceled, closed, deadline>>

\* A start hook returns an error: no listener, or no outbox or bus for the
\* runtime.  fx stops the hooks before it.
StartFails ==
    /\ phase = "starting"
    /\ started < Len(Hooks)
    /\ Hooks[started + 1] \in enabled \ {"scheduler"}
    /\ phase' = "stopping"
    /\ UNCHANGED <<started, called, enabled, accepting, tasks, loops, canceled,
                   closed, deadline>>

Run ==
    /\ phase = "starting"
    /\ started = Len(Hooks)
    /\ phase' = "serving"
    /\ UNCHANGED <<started, called, enabled, accepting, tasks, loops, canceled,
                   closed, deadline>>

\* The process is told to terminate.
Signal ==
    /\ phase = "serving"
    /\ phase' = "stopping"
    /\ UNCHANGED <<started, called, enabled, accepting, tasks, loops, canceled,
                   closed, deadline>>

-----------------------------------------------------------------------------
(* Tasks *)

\* A request, a delivery or a cron entry that is due.
TaskBegins(s) ==
    /\ phase # "exited"
    /\ s \in accepting
    /\ tasks[s] < MaxTasks
    /\ tasks' = [tasks EXCEPT ![s] = @ + 1]
    /\ UNCHANGED <<phase, started, called, enabled, accepting, loops, canceled,
                   closed, deadline>>

\* It is finished, or its context or its own time limit ends it.
TaskEnds(s) ==
    /\ phase # "exited"
    /\ tasks[s] > 0
    /\ tasks' = [tasks EXCEPT ![s] = @ - 1]
    /\ UNCHANGED <<phase, started, called, enabled, accepting, loops, canceled,
                   closed, deadline>>

\* Serve returns an error, which is only logged.
ServeFails(s) ==
    /\ phase # "exited"
    /\ s \in accepting \cap {"grpc", "http"}
    /\ accepting' = accepting \ {s}
    /\ UNCHANGED <<phase, started, called, enabled, tasks, loops, canceled,
                   closed, deadline>>

\* A loop ends when its context is canceled, the consumer after its handlers.
LoopEnds(l) ==
    /\ phase # "exited"
    /\ canceled
    /\ l \in loops
    /\ l = "consumer" => tasks["runtime"] = 0
    /\ loops' = loops \ {l}
    /\ UNCHANGED <<phase, started, called, enabled, accepting, tasks, canceled,
                   closed, deadline>>

\* ConsumeWithOptions returns an error, which is only logged.
ConsumerFails ==
    /\ phase # "exited"
    /\ "consumer" \in loops
    /\ tasks["runtime"] = 0
    /\ loops' = loops \ {"consumer"}
    /\ accepting' = accepting \ {"runtime"}
    /\ UNCHANGED <<phase, started, called, enabled, tasks, canceled, closed, deadline>>

-----------------------------------------------------------------------------
(* Stop *)

Current == Hooks[started]

\* Mutant of Cancels: stop waits for the loops without telling them.
CancelsNothing == FALSE

\* runtime.stop cancels if start has set its cancel function.
Cancels == Current = "runtime" /\ "runtime" \in enabled

\* The last started hook's stop function is called: a server takes no more
\* tasks, a resource is closed.
StopHook ==
    /\ phase = "stopping"
    /\ started > 0
    /\ ~called
    /\ ~deadline
    /\ called' = TRUE
    /\ accepting' = accepting \ {Current}
    /\ canceled' = (canceled \/ Cancels)
    /\ closed' = closed \cup ({Current} \cap Resources)
    /\ UNCHANGED <<phase, started, enabled, tasks, loops, deadline>>

\* Mutant of Drained: the hook of the scheduler does not wait for its jobs.
DrainedUnlessCron ==
    /\ Current \in Servers \ {"scheduler"} => tasks[Current] = 0
    /\ Current = "runtime" => loops = {}

\* Shutdown, GracefulStop, cron's Stop and wg.Wait.
Drained ==
    /\ Current \in Servers => tasks[Current] = 0
    /\ Current = "runtime" => loops = {}

\* It returns, and fx turns to the hook before it.
HookStopped ==
    /\ phase = "stopping"
    /\ called
    /\ Drained
    /\ called' = FALSE
    /\ started' = started - 1
    /\ UNCHANGED <<phase, enabled, accepting, tasks, loops, canceled, closed, deadline>>

\* The timeout passes.  The hook that waits returns the context's error, or is
\* abandoned, and the hooks before it are not called.
Timeout ==
    /\ phase = "stopping"
    /\ ~deadline
    /\ deadline' = TRUE
    /\ UNCHANGED <<phase, started, called, enabled, accepting, tasks, loops,
                   canceled, closed>>

Exit ==
    /\ phase = "stopping"
    /\ started = 0 \/ deadline
    /\ phase' = "exited"
    /\ UNCHANGED <<started, called, enabled, accepting, tasks, loops, canceled,
                   closed, deadline>>

Next ==
    \/ StartHook \/ StartFails \/ Run \/ Signal
    \/ \E s \in Servers : TaskBegins(s) \/ TaskEnds(s) \/ ServeFails(s)
    \/ \E l \in Loops : LoopEnds(l)
    \/ ConsumerFails
    \/ StopHook \/ HookStopped \/ Timeout \/ Exit

Spec == Init /\ [][Next]_runtimeVars

\* fx proceeds, loops notice a canceled context and every task ends: requests
\* and exports by their deadlines, cron jobs after ten minutes.  The shutdown
\* timeout is not needed.
Fairness ==
    /\ WF_runtimeVars(StartHook) /\ WF_runtimeVars(Run)
    /\ WF_runtimeVars(StopHook) /\ WF_runtimeVars(HookStopped) /\ WF_runtimeVars(Exit)
    /\ \A s \in Servers : WF_runtimeVars(TaskEnds(s))
    /\ \A l \in Loops : WF_runtimeVars(LoopEnds(l))

FairSpec == Spec /\ Fairness

-----------------------------------------------------------------------------
\* No task, and no loop of the runtime, is in progress when something it calls
\* is closed: not in an orderly stop, not when the timeout cuts it short and
\* not when the start fails half way.
NothingUsesClosed ==
    \A s \in Servers :
        tasks[s] > 0 \/ (s = "runtime" /\ loops # {}) => Uses(s) \cap closed = {}

\* A process that exits before its timeout has finished every task it took and
\* closed its resources, except for the token verifier, whose hook comes after
\* the first one that may fail.
CleanExit ==
    phase = "exited" /\ ~deadline =>
        /\ accepting = {} /\ loops = {}
        /\ \A s \in Servers : tasks[s] = 0
        /\ Resources \ {"auth"} \subseteq closed

\* Once it is told to stop, or fails to start, the process exits, without the
\* help of the timeout: new tasks do not keep it busy and no goroutine is
\* waited for that does not end.
StopEnds == phase = "stopping" ~> phase = "exited"

=============================================================================
