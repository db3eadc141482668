--------------------------- MODULE ReleaseLifecycle ---------------------------
(***************************************************************************)
(* Life of the Helm releases of one eval: sample_init / sample_cleanup /   *)
(* task_cleanup (_sandbox_environment.py), HelmReleaseManager              *)
(* (_manager.py), Release.install and uninstall (_helm.py), the two        *)
(* semaphores, the `helm` subprocesses and the cluster they act on.        *)
(*                                                                         *)
(* Every sample owns one release, named after it (release names are fresh  *)
(* uuids).  A sample is an asyncio task whose await points are the values  *)
(* of pc; between two of them it runs atomically, so each action below is  *)
(* one run from an await to the next.  The children of uninstall_all's     *)
(* gather are tasks of their own.  helm runs in the background and changes *)
(* the cluster on its own schedule.                                        *)
(***************************************************************************)
EXTENDS Integers, FiniteSets

CONSTANTS
    Samples,             \* samples of the eval, each with its release
    Tasks,               \* task_cleanup() calls that share the manager
    MaxInstall,          \* INSPECT_MAX_HELM_INSTALL
    MaxUninstall,        \* INSPECT_MAX_HELM_UNINSTALL
    MaxInstallAttempts,  \* MAX_INSTALL_ATTEMPTS
    Capacity,            \* releases the cluster has resources for
    MaxCancels,          \* bound: CancelledErrors delivered to one sample
    Cleanup              \* FALSE: eval run with --no-sandbox-cleanup

ASSUME ReleaseAssumption ==
    /\ IsFiniteSet(Samples)
    /\ Tasks # {}
    /\ MaxInstall \in Nat \ {0}
    /\ MaxUninstall \in Nat \ {0}
    /\ MaxInstallAttempts \in Nat \ {0}
    /\ Capacity \in Nat \ {0}
    /\ MaxCancels \in Nat
    /\ Cleanup \in BOOLEAN

VARIABLES
    pc,           \* await point each sample task is suspended at
    attempt,      \* local `attempt` of Release.install
    result,       \* outcome of the last helm install process
    cancels,      \* CancelledErrors delivered to each sample so far
    tracked,      \* HelmReleaseManager._installed_releases
    task,         \* state of each task_cleanup() call
    child,        \* children of the gather in each uninstall_all()
    installProc,  \* the helm install OS process of each release
    release,      \* the release as the cluster holds it
    reported      \* releases named in an error log or cleanup instruction

vars == <<pc, attempt, result, cancels, tracked, task, child, installProc,
          release, reported>>

-------------------------------------------------------------------------------
(* Await points of a sample.                                               *)

\* BUG: the sleep between two attempts is outside the semaphore.
HoldsInstallNotAsleep == {"installing", "termInstall", "awaitWatcher", "diagnose"}

\* Await points of Release.install inside `async with _install_semaphore()`.
HoldsInstall == {"installing", "termInstall", "awaitWatcher", "quotaSleep",
                 "diagnose"}

\* Await points of a sample inside `async with _uninstall_semaphore()`.
HoldsUninstall == {"cancelUninstall", "cleanup", "termUninstall"}

\* A CancelledError is being handled and will be re-raised.
Unwinding == {"termInstall", "cancelWait", "cancelUninstall", "termUninstall"}

\* The sample task has ended.
Ended == {"finished", "raised", "cancelled"}

SamplePC == {"idle", "waitInstall", "quotaSleep", "listPods", "running",
             "cancelWait", "cleanupWait"} \cup HoldsInstall \cup HoldsUninstall \cup Ended

\* A release name is fresh, so the cluster starts without any of them.
Init ==
    /\ pc = [s \in Samples |-> "idle"]
    /\ attempt = [s \in Samples |-> 0]
    /\ result = [s \in Samples |-> "none"]
    /\ cancels = [s \in Samples |-> 0]
    /\ tracked = {}
    /\ task = [t \in Tasks |-> "running"]
    /\ child = [t \in Tasks |-> [s \in Samples |-> "none"]]
    /\ installProc = [s \in Samples |-> "none"]
    /\ release = [s \in Samples |-> "absent"]
    /\ reported = {}

\* Faults of the eval process may leave a child in one of the states `more`
\* (EvalFaults).
TypeOKWith(more) ==
    /\ pc \in [Samples -> SamplePC]
    /\ attempt \in [Samples -> 0..MaxInstallAttempts]
    /\ result \in [Samples -> {"none", "ok", "quota", "error"}]
    /\ cancels \in [Samples -> 0..MaxCancels]
    /\ tracked \subseteq Samples
    /\ task \in [Tasks -> {"running", "cleaning", "done"}]
    /\ child \in [Tasks -> [Samples -> {"none", "waiting", "helm", "ok", "failed"} \cup more]]
    /\ installProc \in [Samples -> {"none", "running", "terminating"}]
    /\ release \in [Samples -> {"absent", "pending", "deployed", "failed"}]
    /\ reported \subseteq Samples

\* Types; no install makes more attempts than MAX_INSTALL_ATTEMPTS.
TypeOK == TypeOKWith({})

-------------------------------------------------------------------------------
(* Semaphores: `async with` frees the permit on every way out, so the      *)
(* permits in use are the tasks inside the two blocks.                     *)

InstallHolders == {s \in Samples : pc[s] \in HoldsInstall}

InstallPermitFree == Cardinality(InstallHolders) < MaxInstall

SampleUninstalls == {s \in Samples : pc[s] \in HoldsUninstall}

ChildUninstalls == {c \in Tasks \X Samples : child[c[1]][c[2]] = "helm"}

\* BUG: one semaphore for both operations.
SharedPermitFree ==
    Cardinality(InstallHolders) + Cardinality(SampleUninstalls)
        + Cardinality(ChildUninstalls) < MaxInstall

UninstallPermitFree ==
    Cardinality(SampleUninstalls) + Cardinality(ChildUninstalls) < MaxUninstall

-------------------------------------------------------------------------------
(* sample_init: HelmReleaseManager.install and Release.install             *)

\* BUG: the release is not tracked before it is installed.
SampleInitUntracked(s) ==
    /\ pc[s] = "idle"
    /\ \A t \in Tasks : task[t] = "running"
    /\ pc' = [pc EXCEPT ![s] = "waitInstall"]
    /\ UNCHANGED <<attempt, result, cancels, tracked, task, child, installProc,
                   release, reported>>

\* The release is tracked before anything is installed.  No sample starts
\* once a task_cleanup() has.
SampleInit(s) ==
    /\ pc[s] = "idle"
    /\ \A t \in Tasks : task[t] = "running"
    /\ tracked' = tracked \cup {s}
    /\ pc' = [pc EXCEPT ![s] = "waitInstall"]
    /\ UNCHANGED <<attempt, result, cancels, task, child, installProc, release,
                   reported>>

\* Permit acquired; _install starts `helm install` (attempt 1).
AcquireInstall(s) ==
    /\ pc[s] = "waitInstall"
    /\ InstallPermitFree
    /\ pc' = [pc EXCEPT ![s] = "installing"]
    /\ attempt' = [attempt EXCEPT ![s] = 1]
    /\ installProc' = [installProc EXCEPT ![s] = "running"]
    /\ UNCHANGED <<result, cancels, tracked, task, child, release, reported>>

\* BUG: one attempt too many.
AfterInstallOffByOne(res, a) ==
    IF res = "ok" THEN "listPods"
    ELSE IF res = "error" THEN "diagnose"
    ELSE IF a > MaxInstallAttempts THEN "raised" ELSE "quotaSleep"

\* _install after its `finally`: the watcher has ended.  Success leaves the
\* semaphore and lists the pods; a quota conflict is retried after a sleep, at
\* most MaxInstallAttempts in all; other errors gather pod diagnostics first.
AfterInstall(res, a) ==
    IF res = "ok" THEN "listPods"
    ELSE IF res = "error" THEN "diagnose"
    ELSE IF a >= MaxInstallAttempts THEN "raised" ELSE "quotaSleep"

\* BUG: `attempt` is not incremented.
AttemptUncounted(res, a) == a

\* `attempt += 1` before the sleep.
AttemptAfter(res, a) == IF AfterInstall(res, a) = "quotaSleep" THEN a + 1 ELSE a

WatcherDone(s) ==
    /\ pc[s] = "awaitWatcher"
    /\ pc' = [pc EXCEPT ![s] = AfterInstall(result[s], attempt[s])]
    /\ attempt' = [attempt EXCEPT ![s] = AttemptAfter(result[s], @)]
    /\ UNCHANGED <<result, cancels, tracked, task, child, installProc, release,
                   reported>>

\* The sleep between attempts is over; `helm upgrade --install` starts, under
\* the permit the first attempt acquired.
QuotaRetry(s) ==
    /\ pc[s] = "quotaSleep"
    /\ pc' = [pc EXCEPT ![s] = "installing"]
    /\ installProc' = [installProc EXCEPT ![s] = "running"]
    /\ UNCHANGED <<attempt, result, cancels, tracked, task, child, release, reported>>

\* _raise_install_error raises once the diagnostics are in; the release stays
\* tracked.
DiagnoseDone(s) ==
    /\ pc[s] = "diagnose"
    /\ pc' = [pc EXCEPT ![s] = "raised"]
    /\ UNCHANGED <<attempt, result, cancels, tracked, task, child, installProc,
                   release, reported>>

\* get_sandbox_pods answers: the sample runs, or fails on an ApiException or
\* because there are no pods.
PodsListed(s) ==
    /\ pc[s] = "listPods"
    /\ \E next \in {"running", "raised"} : pc' = [pc EXCEPT ![s] = next]
    /\ UNCHANGED <<attempt, result, cancels, tracked, task, child, installProc,
                   release, reported>>

-------------------------------------------------------------------------------
(* The helm install process and the cluster (external)                     *)

\* helm records the release and creates its resources.  `install` needs a free
\* name; `upgrade --install` also takes over a failed release.
HelmCreate(s) ==
    /\ installProc[s] # "none"
    /\ release[s] = "absent" \/ (release[s] = "failed" /\ attempt[s] > 1)
    /\ release' = [release EXCEPT ![s] = "pending"]
    /\ UNCHANGED <<pc, attempt, result, cancels, tracked, task, child,
                   installProc, reported>>

Deployed == {r \in Samples : release[r] = "deployed"}

\* The pods become ready once the cluster has room for them.
HelmReady(s) ==
    /\ installProc[s] # "none"
    /\ release[s] = "pending"
    /\ Cardinality(Deployed) < Capacity
    /\ release' = [release EXCEPT ![s] = "deployed"]
    /\ UNCHANGED <<pc, attempt, result, cancels, tracked, task, child,
                   installProc, reported>>

\* `helm install --wait` exits 0 once the pods are ready.  _run_subprocess
\* returns and _install's `finally` cancels the watcher and awaits it.
HelmInstallOk(s) ==
    /\ pc[s] = "installing"
    /\ release[s] = "deployed"
    /\ pc' = [pc EXCEPT ![s] = "awaitWatcher"]
    /\ result' = [result EXCEPT ![s] = "ok"]
    /\ installProc' = [installProc EXCEPT ![s] = "none"]
    /\ UNCHANGED <<attempt, cancels, tracked, task, child, release, reported>>

\* helm exits non-zero: a resource quota conflict, or its --timeout or another
\* error.  What it had created stays behind as a failed release.
HelmInstallFails(s) ==
    /\ pc[s] = "installing"
    /\ release[s] # "deployed"
    /\ pc' = [pc EXCEPT ![s] = "awaitWatcher"]
    /\ \E res \in {"quota", "error"} : result' = [result EXCEPT ![s] = res]
    /\ installProc' = [installProc EXCEPT ![s] = "none"]
    /\ release' = [release EXCEPT ![s] = IF @ = "absent" THEN @ ELSE "failed"]
    /\ UNCHANGED <<attempt, cancels, tracked, task, child, reported>>

\* BUG: no uninstall when the install is cancelled.
NoUninstallOnCancel == "cancelled"

\* `except CancelledError` of Release.install: outside the install semaphore,
\* uninstall(quiet=True) first waits for an uninstall permit.
OnInstallCancelled == "cancelWait"

\* A SIGTERMed helm process exits.  The coroutine that awaits it (communicate()
\* in _run_subprocess) re-raises CancelledError; nobody may be awaiting it.
HelmInstallTerminated(s) ==
    /\ installProc[s] = "terminating"
    /\ installProc' = [installProc EXCEPT ![s] = "none"]
    /\ pc' = [pc EXCEPT ![s] = IF @ = "termInstall" THEN OnInstallCancelled ELSE @]
    /\ release' = [release EXCEPT ![s] = IF @ = "pending" THEN "failed" ELSE @]
    /\ UNCHANGED <<attempt, result, cancels, tracked, task, child, reported>>

-------------------------------------------------------------------------------
(* Cancellation (asyncio delivers it at the await point the task is at)    *)

\* BUG: the cancelled install does not wait for the helm process to end.
CancelToNoWait(p) ==
    IF p \in {"waitInstall", "installing", "quotaSleep", "diagnose"} THEN OnInstallCancelled
    ELSE IF p \in {"cancelUninstall", "cleanup"} THEN "termUninstall"
    ELSE IF p = "awaitWatcher" THEN p
    ELSE "cancelled"

\* Where a CancelledError takes a task suspended at p.  Awaiting helm, the task
\* sends SIGTERM and awaits the exit; a second cancellation ends that wait too.
\* Awaiting the watcher, the error is suppressed with the watcher's own.  While
\* the sample runs it ends as interrupted: sample_cleanup leaves the release to
\* task_cleanup.
CancelTo(p) ==
    IF p \in {"waitInstall", "quotaSleep", "diagnose", "termInstall"} THEN OnInstallCancelled
    ELSE IF p = "installing" THEN "termInstall"
    ELSE IF p \in {"cancelUninstall", "cleanup"} THEN "termUninstall"
    ELSE IF p = "awaitWatcher" THEN p
    ELSE "cancelled"

Cancel(s) ==
    /\ pc[s] \notin Ended \cup {"idle"}
    /\ cancels[s] < MaxCancels
    /\ cancels' = [cancels EXCEPT ![s] = @ + 1]
    /\ pc' = [pc EXCEPT ![s] = CancelTo(@)]
    /\ installProc' = [installProc EXCEPT
           ![s] = IF pc[s] = "installing" THEN "terminating" ELSE @]
    /\ UNCHANGED <<attempt, result, tracked, task, child, release, reported>>

-------------------------------------------------------------------------------
(* uninstall, as called by the cancelled install and by sample_cleanup     *)

\* The solver is done: sample_cleanup(interrupted=False).  Inspect does not
\* call it under --no-sandbox-cleanup.
SampleEnd(s) ==
    /\ pc[s] = "running"
    /\ pc' = [pc EXCEPT ![s] = IF Cleanup THEN "cleanupWait" ELSE "finished"]
    /\ UNCHANGED <<attempt, result, cancels, tracked, task, child, installProc,
                   release, reported>>

AcquireUninstall(s) ==
    /\ pc[s] \in {"cancelWait", "cleanupWait"}
    /\ UninstallPermitFree
    /\ pc' = [pc EXCEPT ![s] = IF @ = "cancelWait" THEN "cancelUninstall" ELSE "cleanup"]
    /\ UNCHANGED <<attempt, result, cancels, tracked, task, child, installProc,
                   release, reported>>

\* The cancelled install's uninstall succeeds (also when there is nothing to
\* uninstall); CancelledError is re-raised.  The release stays tracked.
CancelUninstalled(s) ==
    /\ pc[s] = "cancelUninstall"
    /\ pc' = [pc EXCEPT ![s] = "cancelled"]
    /\ release' = [release EXCEPT ![s] = "absent"]
    /\ UNCHANGED <<attempt, result, cancels, tracked, task, child, installProc,
                   reported>>

\* HelmReleaseManager.uninstall: only then is the release removed from the list
\* (list.remove raises ValueError when it is not there).
SampleUninstalled(s) ==
    /\ pc[s] = "cleanup"
    /\ pc' = [pc EXCEPT ![s] = IF s \in tracked THEN "finished" ELSE "raised"]
    /\ release' = [release EXCEPT ![s] = "absent"]
    /\ tracked' = tracked \ {s}
    /\ UNCHANGED <<attempt, result, cancels, task, child, installProc, reported>>

\* BUG: the release is dropped from the list although it is still installed.
UninstallFailsAndForgets(s) ==
    /\ pc[s] \in {"cancelUninstall", "cleanup"}
    /\ pc' = [pc EXCEPT ![s] = "raised"]
    /\ release' = [release EXCEPT ![s] = IF @ = "absent" THEN @ ELSE "failed"]
    /\ reported' = reported \cup {s}
    /\ tracked' = tracked \ {s}
    /\ UNCHANGED <<attempt, result, cancels, task, child, installProc>>

\* helm uninstall fails: _raise_runtime_error logs the release and raises.
UninstallFails(s) ==
    /\ pc[s] \in {"cancelUninstall", "cleanup"}
    /\ pc' = [pc EXCEPT ![s] = "raised"]
    /\ release' = [release EXCEPT ![s] = IF @ = "absent" THEN @ ELSE "failed"]
    /\ reported' = reported \cup {s}
    /\ UNCHANGED <<attempt, result, cancels, tracked, task, child, installProc>>

\* A helm uninstall that was SIGTERMed exits, having done its work or not.
UninstallTerminated(s) ==
    /\ pc[s] = "termUninstall"
    /\ pc' = [pc EXCEPT ![s] = "cancelled"]
    /\ \E r \in {release[s], "absent"} : release' = [release EXCEPT ![s] = r]
    /\ UNCHANGED <<attempt, result, cancels, tracked, task, child, installProc,
                   reported>>

-------------------------------------------------------------------------------
(* task_cleanup: HelmReleaseManager.uninstall_all                          *)

\* BUG: the list is cleared only after the gather.
TrackedDuringUninstallAll == tracked

\* The list is cleared before the children are awaited.
TrackedAfterTake == {}

\* The releases _print_cleanup_instructions names.
CleanupInstructions == tracked

\* The harness calls task_cleanup() once every sample has ended or is unwinding
\* a cancellation ("the timing of uninstall operations can be interleaved").
TaskCleanup(t) ==
    /\ task[t] = "running"
    /\ \A s \in Samples : pc[s] \in Ended \cup Unwinding \cup {"idle"}
    /\ IF tracked = {} \/ ~Cleanup
       THEN /\ task' = [task EXCEPT ![t] = "done"]
            /\ reported' = reported \cup CleanupInstructions
            /\ UNCHANGED <<child, tracked>>
       ELSE /\ task' = [task EXCEPT ![t] = "cleaning"]
            /\ child' = [child EXCEPT ![t] =
                  [s \in Samples |-> IF s \in tracked THEN "waiting" ELSE "none"]]
            /\ tracked' = TrackedAfterTake
            /\ UNCHANGED reported
    /\ UNCHANGED <<pc, attempt, result, cancels, installProc, release>>

ChildAcquire(t, s) ==
    /\ child[t][s] = "waiting"
    /\ UninstallPermitFree
    /\ child' = [child EXCEPT ![t][s] = "helm"]
    /\ UNCHANGED <<pc, attempt, result, cancels, tracked, task, installProc,
                   release, reported>>

ChildUninstalled(t, s) ==
    /\ child[t][s] = "helm"
    /\ child' = [child EXCEPT ![t][s] = "ok"]
    /\ release' = [release EXCEPT ![s] = "absent"]
    /\ UNCHANGED <<pc, attempt, result, cancels, tracked, task, installProc,
                   reported>>

ChildFails(t, s) ==
    /\ child[t][s] = "helm"
    /\ child' = [child EXCEPT ![t][s] = "failed"]
    /\ release' = [release EXCEPT ![s] = IF @ = "absent" THEN @ ELSE "failed"]
    /\ reported' = reported \cup {s}
    /\ UNCHANGED <<pc, attempt, result, cancels, tracked, task, installProc>>

\* gather(return_exceptions=True) returns when every child has ended; the ones
\* that failed are named.
TaskCleanupDone(t) ==
    /\ task[t] = "cleaning"
    /\ \A s \in Samples : child[t][s] \notin {"waiting", "helm"}
    /\ task' = [task EXCEPT ![t] = "done"]
    /\ reported' = reported \cup {s \in Samples : child[t][s] = "failed"}
    /\ UNCHANGED <<pc, attempt, result, cancels, tracked, child, installProc,
                   release>>

-------------------------------------------------------------------------------
\* Everything has come to rest: the eval process is about to exit.
Settled ==
    /\ \A s \in Samples : pc[s] \in Ended \cup {"idle"} /\ installProc[s] = "none"
    /\ \A t \in Tasks : task[t] = "done"

EvalOver == Settled /\ UNCHANGED vars

SampleStep(s) ==
    \/ SampleInit(s) \/ AcquireInstall(s) \/ WatcherDone(s) \/ QuotaRetry(s)
    \/ DiagnoseDone(s) \/ PodsListed(s) \/ SampleEnd(s) \/ AcquireUninstall(s)
    \/ CancelUninstalled(s) \/ SampleUninstalled(s) \/ UninstallFails(s)
    \/ UninstallTerminated(s) \/ Cancel(s)

HelmStep(s) ==
    \/ HelmCreate(s) \/ HelmReady(s) \/ HelmInstallOk(s)
    \/ HelmInstallFails(s) \/ HelmInstallTerminated(s)

TaskStep(t) ==
    \/ TaskCleanup(t) \/ TaskCleanupDone(t)
    \/ \E s \in Samples :
          ChildAcquire(t, s) \/ ChildUninstalled(t, s) \/ ChildFails(t, s)

Next ==
    \/ \E s \in Samples : SampleStep(s) \/ HelmStep(s)
    \/ \E t \in Tasks : TaskStep(t)
    \/ EvalOver

Spec == Init /\ [][Next]_vars

-------------------------------------------------------------------------------
(* Properties                                                              *)

\* When the eval is over, a release that is still in the cluster has been named
\* to the operator: by the error log of the uninstall that failed, or by the
\* cleanup instructions of uninstall_all(print_only=True).  Cancelled installs,
\* failed uninstalls and a task_cleanup() that overlaps them included.
NoSilentLeak ==
    Settled => \A s \in Samples : release[s] # "absent" => s \in reported

\* What an ended sample leaves in the cluster is still on the manager's list or
\* has been taken over by an uninstall_all(): a failed or interrupted
\* uninstall in sample_cleanup never drops the release.
LeftoverTakenOver ==
    \A s \in Samples : pc[s] \in Ended /\ release[s] # "absent" =>
        s \in tracked \/ \E t \in Tasks : child[t][s] # "none"

\* HelmReleaseManager.uninstall finds the release it removes from the list: an
\* uninstall_all() that clears the list never overtakes a sample_cleanup().
RemoveFindsRelease ==
    \A s \in Samples : pc[s] \in {"cleanupWait", "cleanup"} => s \in tracked

\* "Uninstall the release now that we know the install process has terminated"
\* (Release.install): no helm install is alive when the handler uninstalls.
InstallDeadBeforeUninstall ==
    \A s \in Samples : pc[s] \in {"cancelWait", "cancelUninstall"} =>
        installProc[s] = "none"

\* The package limits the number of concurrent `helm install` operations
\* (docs/tips/concurrency.md): live helm install processes, cancelled ones
\* included, never outnumber the permits.
HelmInstallsBounded ==
    Cardinality({s \in Samples : installProc[s] # "none"}) <= MaxInstall

\* Two uninstall_all() calls never uninstall the same release ("Clear the list
\* before awaiting the tasks to prevent other calls from interfering").
BatchesDisjoint ==
    \A t, u \in Tasks : t # u =>
        \A s \in Samples : child[t][s] = "none" \/ child[u][s] = "none"

\* Once a sample has ended and its release is gone, nothing brings the release
\* back: no helm process outlives the sample that started it.
NoResurrection ==
    [][\A s \in Samples : pc[s] \in Ended /\ release[s] = "absent"
                            => release'[s] = "absent"]_vars

-------------------------------------------------------------------------------
(* The inductive invariants behind the properties                          *)

\* The sample is under way and not unwinding a cancellation.
Active == SamplePC \ (Ended \cup Unwinding \cup {"idle"})

\* An active sample's release is on the list, and no task_cleanup() has begun.
ActiveTracked ==
    \A s \in Samples : pc[s] \in Active =>
        s \in tracked /\ \A t \in Tasks : task[t] = "running"

\* A sample that has not begun has left no trace.
IdleUntouched ==
    \A s \in Samples : pc[s] = "idle" =>
        /\ s \notin tracked
        /\ release[s] = "absent"
        /\ \A t \in Tasks : child[t][s] = "none"

\* A helm install process was started by its sample, which has not got past the
\* install except by cancellation.
ProcStarted ==
    \A s \in Samples :
        /\ installProc[s] = "running" => pc[s] = "installing"
        /\ installProc[s] = "terminating" => pc[s] \in Unwinding \cup {"raised", "cancelled"}

\* A helm install process has its coroutine waiting for it.
ProcAwaited ==
    \A s \in Samples :
        /\ installProc[s] = "running" => pc[s] = "installing"
        /\ installProc[s] = "terminating" => pc[s] = "termInstall"

UnwindingCancelled ==
    \A s \in Samples : pc[s] \in Unwinding => cancels[s] > 0

\* uninstall_all(): children only once it has begun, waiting ones only until it
\* is done, and what they took is no longer on the list.
ChildrenOfCleanup ==
    \A t \in Tasks : \A s \in Samples :
        /\ task[t] = "running" => child[t][s] = "none"
        /\ child[t][s] \in {"waiting", "helm"} => task[t] = "cleaning"
        /\ child[t][s] # "none" => s \notin tracked

\* After the first task_cleanup() the list is empty, or has been printed.
ListHandedOver ==
    \A t \in Tasks : task[t] # "running" =>
        tracked \subseteq reported /\ (Cleanup => tracked = {})

\* Whoever holds a release in the cluster: the list, a child that is still to
\* uninstall it (or was left in one of the states `more`), the operator, or the
\* cancelled install.
ReleaseCoveredWith(more) ==
    \A s \in Samples : release[s] # "absent" =>
        \/ s \in tracked
        \/ \E t \in Tasks : child[t][s] \in {"waiting", "helm"} \cup more
        \/ s \in reported
        \/ pc[s] \in {"termInstall", "cancelWait", "cancelUninstall"}

\* A sample that has begun keeps its release on the list or in a batch until
\* sample_cleanup has uninstalled it.
ReleaseOwned ==
    \A s \in Samples : pc[s] # "idle" =>
        \/ s \in tracked
        \/ \E t \in Tasks : child[t][s] # "none"
        \/ pc[s] = "finished" /\ release[s] = "absent"

\* What holds of the manager's list and the batches however often samples are
\* cancelled.
ListInvWith(more) ==
    /\ TypeOKWith(more)
    /\ ActiveTracked
    /\ IdleUntouched
    /\ ProcStarted
    /\ ChildrenOfCleanup
    /\ BatchesDisjoint
    /\ ListHandedOver
    /\ ReleaseOwned

\* What holds in addition when MaxCancels <= 1.
ReleaseInvWith(more) ==
    /\ ListInvWith(more)
    /\ ProcAwaited
    /\ UnwindingCancelled
    /\ ReleaseCoveredWith(more)

ReleaseInv == ReleaseInvWith({})

-------------------------------------------------------------------------------
(* Refinement: ReleaseLifecycle implements ReleaseCustody (MaxCancels <= 1) *)

\* Releases in the cluster, in whatever state.
InCluster == {s \in Samples : release[s] # "absent"}

\* Releases the eval still answers for: the manager's list, the uninstalls that
\* uninstall_all() has taken over, and the handler of a cancelled install.
Held ==
    {s \in Samples :
        \/ s \in tracked
        \/ \E t \in Tasks : child[t][s] \in {"waiting", "helm"}
        \/ pc[s] \in {"termInstall", "cancelWait", "cancelUninstall"}}

Custody ==
    INSTANCE ReleaseCustody WITH
        Releases <- Samples, here <- InCluster, held <- Held, told <- reported,
        over <- Settled

\* Every step of the lifecycle is a step of the custody contract: no interleaving
\* of installs, retries, cancellations, failed uninstalls and task_cleanup() calls
\* creates a release nobody holds, lets go of one that is still installed without
\* telling the operator, or ends the eval with an unmentioned release.
KeepsCustody == Custody!Spec

-------------------------------------------------------------------------------
(* Liveness                                                                *)

\* The steps a sample's task takes without waiting for a permit, and the end of
\* the helm uninstall it awaits.  It is at one await point at a time, so weak
\* fairness of the disjunction is weak fairness of each.
SampleProgress(s) ==
    \/ WatcherDone(s) \/ QuotaRetry(s) \/ DiagnoseDone(s) \/ PodsListed(s)
    \/ CancelUninstalled(s) \/ SampleUninstalled(s) \/ UninstallFails(s)
    \/ UninstallTerminated(s)

\* asyncio runs every task that can run, the semaphores serve their waiters in
\* order (hence strong fairness of an acquisition), and a helm process makes
\* progress.  A helm install that waits for capacity is NOT assumed to give up.
ProgressFairness ==
    /\ \A s \in Samples :
        /\ WF_vars(SampleProgress(s))
        /\ SF_vars(AcquireInstall(s) \/ AcquireUninstall(s))
        /\ WF_vars(HelmCreate(s) \/ HelmInstallOk(s) \/ HelmInstallTerminated(s))
    /\ \A t \in Tasks : \A s \in Samples :
        /\ SF_vars(ChildAcquire(t, s))
        /\ WF_vars(ChildUninstalled(t, s) \/ ChildFails(t, s))

FairSpec == Spec /\ ProgressFairness

\* In addition helm's --timeout ends an install that cannot complete, solvers
\* end, and the harness calls task_cleanup() when it may.
TimeoutFairness ==
    /\ \A s \in Samples : WF_vars(HelmInstallFails(s) \/ SampleEnd(s))
    /\ \A t \in Tasks : WF_vars(TaskCleanup(t) \/ TaskCleanupDone(t))

\* "There is a separate semaphore for installs and uninstalls.  This prevents
\* deadlocks if the cluster capacity has been reached" (docs/tips/concurrency.md):
\* a sample that wants its release gone gets there however long installs wait.
UninstallNotStarved ==
    \A s \in Samples : pc[s] \in {"cleanupWait", "cancelWait"} ~> pc[s] \in Ended

\* With helm's --timeout every eval comes to rest: quota conflicts, a full
\* cluster, cancellations and failed uninstalls leave no task waiting for ever.
EventuallySettled == TimeoutFairness => <>Settled

===============================================================================
