-------------------------------- MODULE PodOps --------------------------------
(***************************************************************************)
(* Pod operations under concurrency: PodOpExecutor (executor.py), the      *)
(* queued calls of each attempt of exec / read_file / write_file (pod.py:  *)
(* the restart check, the operation, and after a failed exec another       *)
(* check) and the retry loop around them (_sandbox_environment.py), with   *)
(* the commands the attempts leave running in the pod.                     *)
(*                                                                         *)
(* An operation is an asyncio task; a work item is one call that runs, or  *)
(* is to run, on a worker thread.  Cancelling the task cannot stop a       *)
(* thread, and losing a connection does not stop a command.                *)
(***************************************************************************)
EXTENDS Integers, FiniteSets, Sequences

CONSTANTS
    Ops,          \* concurrent calls of exec / read_file / write_file
    Tasks,        \* task_init() calls
    MaxPodOps,    \* config.max_pod_ops of each task, 0 for None
    DefaultOps,   \* INSPECT_MAX_POD_OPS, or cpu_count * 4
    MaxAttempts   \* stop_after_attempt

ASSUME PodOpsAssumption ==
    /\ IsFiniteSet(Ops)
    /\ MaxPodOps \in [Tasks -> Nat]
    /\ DefaultOps \in Nat \ {0}
    /\ MaxAttempts \in Nat \ {0}

VARIABLES
    maxWorkers,  \* PodOpExecutor._instance._max_workers, 0 while there is none
    init,        \* outcome of each task_init()
    pc,          \* await point of each operation
    attempt,     \* tenacity's attempt number
    stage,       \* which call of the attempt: "check", "run" or "diagnose"
    queue,       \* work queue of the thread pool
    threads,     \* items being run by worker threads
    commands,    \* items whose command is running in the pod
    starts,      \* history: commands started for each operation
    answered     \* history: how many were, when the operation got a result; 0 before

vars == <<maxWorkers, init, pc, attempt, stage, queue, threads, commands, starts, answered>>

opVars == <<pc, attempt, stage, queue, threads, commands, starts, answered>>

Stages == {"check", "run", "diagnose"}

Items == [op : Ops, att : 1..MaxAttempts, stage : Stages]

Ended == {"returned", "raised", "cancelled"}

Init ==
    /\ maxWorkers = 0
    /\ init = [t \in Tasks |-> "none"]
    /\ pc = [o \in Ops |-> "idle"]
    /\ attempt = [o \in Ops |-> 1]
    /\ stage = [o \in Ops |-> "check"]
    /\ queue = << >>
    /\ threads = {}
    /\ commands = {}
    /\ starts = [o \in Ops |-> 0]
    /\ answered = [o \in Ops |-> 0]

-------------------------------------------------------------------------------
(* PodOpExecutor.get_instance, called by task_init                         *)

\* The pool size a new instance takes from max_pod_ops or the environment.
WorkersFor(n) == IF n # 0 THEN n ELSE DefaultOps

\* BUG: a later setting is silently ignored.
ConflictIgnored(n) == FALSE

\* There is an instance, and another size is asked for.
Conflict(n) == maxWorkers # 0 /\ n # 0 /\ maxWorkers # n

TaskInit(t) ==
    /\ init[t] = "none"
    /\ init' = [init EXCEPT ![t] = IF Conflict(MaxPodOps[t]) THEN "error" ELSE "ok"]
    /\ maxWorkers' = IF maxWorkers = 0 THEN WorkersFor(MaxPodOps[t]) ELSE maxWorkers
    /\ UNCHANGED opVars

-------------------------------------------------------------------------------
(* queue_operation                                                         *)

\* The item of an operation's current call.
ItemOf(o) == [op |-> o, att |-> attempt[o], stage |-> stage[o]]

\* BUG: a cancelled operation keeps its permit.
DisplayedLeaky == {o \in Ops : pc[o] \in {"awaiting", "cancelled"}}

\* Operations inside `async with concurrency("pod-op", ...)`, as displayed.
Displayed == {o \in Ops : pc[o] = "awaiting"}

\* An operation is called, by a sample of a task whose task_init() succeeded.
Begin(o) ==
    /\ pc[o] = "idle"
    /\ \E t \in Tasks : init[t] = "ok"
    /\ pc' = [pc EXCEPT ![o] = "waitPermit"]
    /\ UNCHANGED <<maxWorkers, init, attempt, stage, queue, threads, commands, starts, answered>>

\* BUG: one permit more than there are threads.
PermitFreeOffByOne == Cardinality(Displayed) <= maxWorkers

PermitFree == Cardinality(Displayed) < maxWorkers

\* Permit acquired; run_in_executor puts the call on the pool's queue.
Acquire(o) ==
    /\ pc[o] = "waitPermit"
    /\ PermitFree
    /\ pc' = [pc EXCEPT ![o] = "awaiting"]
    /\ queue' = Append(queue, ItemOf(o))
    /\ UNCHANGED <<maxWorkers, init, attempt, stage, threads, commands, starts, answered>>

\* ThreadPoolExecutor (external): an idle worker takes the oldest item.
Pick ==
    /\ queue # << >>
    /\ Cardinality(threads) < maxWorkers
    /\ threads' = threads \cup {Head(queue)}
    /\ queue' = Tail(queue)
    /\ UNCHANGED <<maxWorkers, init, pc, attempt, stage, commands, starts, answered>>

\* The thread has opened its connection and the command starts in the pod.
StartCommand(i) ==
    /\ i \in threads \ commands
    /\ i.stage = "run"
    /\ commands' = commands \cup {i}
    /\ starts' = [starts EXCEPT ![i.op] = @ + 1]
    /\ UNCHANGED <<maxWorkers, init, pc, attempt, stage, queue, threads, answered>>

-------------------------------------------------------------------------------
(* A thread ends.  Its result reaches the operation only if that still     *)
(* awaits it; the permit is given back in the same step.                   *)

Attended(i) == pc[i.op] = "awaiting" /\ ItemOf(i.op) = i

\* The operation, if it still awaits i, goes on at await point p, for call st.
Resume(i, p, st) ==
    /\ pc' = [pc EXCEPT ![i.op] = IF Attended(i) THEN p ELSE @]
    /\ stage' = [stage EXCEPT ![i.op] = IF Attended(i) THEN st ELSE @]

RetriesLeft(o) == attempt[o] < MaxAttempts

\* A transient error is retried after a back-off, or re-raised.
AfterTransient(o) == IF RetriesLeft(o) THEN "backoff" ELSE "raised"

\* The restart check passes (or warns): the operation's own call is queued next.
CheckPasses(i) ==
    /\ i \in threads
    /\ i.stage = "check"
    /\ threads' = threads \ {i}
    /\ Resume(i, "waitPermit", "run")
    /\ UNCHANGED <<maxWorkers, init, attempt, queue, commands, starts, answered>>

\* BUG: a restart is taken for a transient error, and the command run again.
AfterRestartRetried(o) == AfterTransient(o)

\* PodReplacedError and ContainerRestartedError are not in _TRANSIENT_TYPES: the
\* operation raises them, whatever attempts are left.
AfterRestart(o) == "raised"

\* The command ends while the thread is connected to it, and its result reaches
\* the operation.  A failed exec raises the restart its check has warned of, or
\* has the pod checked again.
CommandEnds(i) ==
    /\ i \in threads \cap commands
    /\ threads' = threads \ {i}
    /\ commands' = commands \ {i}
    /\ answered' = [answered EXCEPT ![i.op] = IF Attended(i) THEN starts[i.op] ELSE @]
    /\ \/ Resume(i, "returned", "run")
       \/ Resume(i, "waitPermit", "diagnose")
       \/ Resume(i, AfterRestart(i.op), "run")
    /\ UNCHANGED <<maxWorkers, init, attempt, queue, starts>>

\* _diagnose_restart_after_failed_exec: a restart is raised; with none, or when
\* the check itself fails, the result is returned.
Diagnosed(i) ==
    /\ i \in threads
    /\ i.stage = "diagnose"
    /\ threads' = threads \ {i}
    /\ Resume(i, "returned", "diagnose") \/ Resume(i, AfterRestart(i.op), "diagnose")
    /\ UNCHANGED <<maxWorkers, init, attempt, queue, commands, starts, answered>>

\* BUG: the operation stops waiting for the thread but the thread goes on.
ThreadsGivenUp(i) == threads

\* The threads when the one that ran i is free again.
ThreadsWithout(i) == threads \ {i}

\* An error that is retried.  The command runs on in the pod when the connection
\* was lost, and is over when its own failure is the error (PodError).
TransientError(i) ==
    /\ i \in threads
    /\ i.stage # "diagnose"
    /\ threads' = ThreadsWithout(i)
    /\ commands' \in {commands, commands \ {i}}
    /\ Resume(i, AfterTransient(i.op), i.stage)
    /\ UNCHANGED <<maxWorkers, init, attempt, queue, starts, answered>>

\* An error that is re-raised: one of _PERMANENT_TYPES, or of no transient type
\* (a restart the check raises; the output limit, which leaves the command running).
PermanentError(i) ==
    /\ i \in threads
    /\ i.stage # "diagnose"
    /\ threads' = threads \ {i}
    /\ commands' \in {commands, commands \ {i}}
    /\ Resume(i, "raised", i.stage)
    /\ UNCHANGED <<maxWorkers, init, attempt, queue, starts, answered>>

NextNumber(o) == attempt[o] + 1

\* The next attempt: Pod.exec and the like start over with the check.
NextAttempt(o) ==
    /\ pc[o] = "backoff"
    /\ pc' = [pc EXCEPT ![o] = "waitPermit"]
    /\ attempt' = [attempt EXCEPT ![o] = NextNumber(o)]
    /\ stage' = [stage EXCEPT ![o] = "check"]
    /\ UNCHANGED <<maxWorkers, init, queue, threads, commands, starts, answered>>

\* A command nobody is connected to any more ends by itself.
AbandonedEnds(i) ==
    /\ i \in commands \ threads
    /\ commands' = commands \ {i}
    /\ UNCHANGED <<maxWorkers, init, pc, attempt, stage, queue, threads, starts, answered>>

\* Cancelling the future withdraws a call that no thread has taken yet.
QueueWithout(o) ==
    IF \E k \in DOMAIN queue : queue[k] = ItemOf(o)
    THEN LET at == CHOOSE k \in DOMAIN queue : queue[k] = ItemOf(o)
         IN  [k \in 1..(Len(queue) - 1) |-> IF k < at THEN queue[k] ELSE queue[k + 1]]
    ELSE queue

\* CancelledError at whichever await the operation is suspended; a thread that
\* has its call goes on, and the permit is given back all the same.
Cancel(o) ==
    /\ pc[o] \in {"waitPermit", "awaiting", "backoff"}
    /\ pc' = [pc EXCEPT ![o] = "cancelled"]
    /\ queue' = QueueWithout(o)
    /\ UNCHANGED <<maxWorkers, init, attempt, stage, threads, commands, starts, answered>>

-------------------------------------------------------------------------------
OpStep(o) == Begin(o) \/ Acquire(o) \/ NextAttempt(o) \/ Cancel(o)

ThreadStep(i) ==
    \/ StartCommand(i) \/ CheckPasses(i) \/ CommandEnds(i) \/ Diagnosed(i)
    \/ TransientError(i) \/ PermanentError(i)

AllOver == (\A o \in Ops : pc[o] \in Ended \cup {"idle"}) /\ UNCHANGED vars

Next ==
    \/ \E t \in Tasks : TaskInit(t)
    \/ \E o \in Ops : OpStep(o)
    \/ Pick
    \/ \E i \in Items : ThreadStep(i) \/ AbandonedEnds(i)
    \/ AllOver

Spec == Init /\ [][Next]_vars

\* The event loop and the pool run what they can, permits are handed out in
\* order, and a command or its connection ends at some time.
FairSpec ==
    /\ Spec
    /\ WF_vars(Pick)
    /\ \A o \in Ops : SF_vars(Acquire(o)) /\ WF_vars(NextAttempt(o))
    /\ \A i \in Items :
          WF_vars(\/ CheckPasses(i) \/ CommandEnds(i) \/ Diagnosed(i)
                  \/ TransientError(i) \/ PermanentError(i))

-------------------------------------------------------------------------------
(* Properties                                                              *)

\* "Raise an error when a conflicting max_pod_ops setting would otherwise be
\* ignored" (CHANGELOG): every task whose task_init() succeeded with a setting
\* runs with it, whichever tasks came before or after.
SettingHonoured ==
    \A t \in Tasks : init[t] = "ok" /\ MaxPodOps[t] # 0 => maxWorkers = MaxPodOps[t]

\* "Other than the user display, the use of the semaphore is redundant"
\* (queue_operation): an admitted call waits for a thread only while a cancelled
\* operation's call still occupies one.
AdmittedWaitsOnlyForAbandoned ==
    queue # << >> /\ Cardinality(threads) = maxWorkers =>
        \E i \in threads : ~Attended(i)

\* "it may run again on retry" (docs/design/limitations.md), but the attempts of
\* an operation take turns: no two of its calls are in threads at once, however
\* it was cancelled or lost its connection, and its commands are no more than
\* its attempts, which stop_after_attempt limits.
AttemptsInTurn ==
    /\ \A i, j \in threads : i.op = j.op => i = j
    /\ \A o \in Ops : starts[o] <= attempt[o] /\ attempt[o] <= MaxAttempts

\* "if a command partially executed before the error, it may run again on retry"
\* (docs/design/limitations.md), but only then: once an operation has a command's
\* result, that command is the last it starts, whatever restart the checks before
\* or after it have found and whichever of its attempts are left.
ResultIsLast == \A o \in Ops : answered[o] # 0 => starts[o] = answered[o]

\* Every operation ends, however retries, cancellations and abandoned threads
\* compete for permits and threads.
OpsEnd == \A o \in Ops : pc[o] = "waitPermit" ~> pc[o] \in Ended

===============================================================================
