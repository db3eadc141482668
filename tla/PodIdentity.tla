----------------------------- MODULE PodIdentity ------------------------------
(***************************************************************************)
(* The cached identity of a pod and the operations that check it: Pod      *)
(* (_pod/pod.py), check_for_pod_restart (_pod/op.py) and the retrying      *)
(* exec / read_file / write_file of K8sSandboxEnvironment.                 *)
(*                                                                         *)
(* A caller is a coroutine with one operation at a time; the check runs in *)
(* a worker thread of PodOpExecutor, so the checks of two callers          *)
(* interleave between any two accesses to self._info.  The pod is replaced *)
(* (new uid) and its container restarted (higher count) by the cluster.    *)
(***************************************************************************)
EXTENDS Integers

CONSTANTS
    Callers,       \* coroutines operating on the pod
    MaxUid,        \* bound: pods that bear the name one after the other
    MaxRestarts,   \* bound: container restarts of one pod
    MaxAttempts    \* stop_after_attempt(5) of _retry()

ASSUME PodAssumption ==
    /\ MaxUid \in Nat \ {0}
    /\ MaxRestarts \in Nat
    /\ MaxAttempts \in Nat \ {0}

VARIABLES
    pod,        \* identity of the running pod: uid and restart count
    published,  \* the kubelet has published its container statuses
    behavior,   \* restarted_container_behavior
    info,       \* Pod._info: the cached identity
    pc,         \* where each caller's operation is
    kind,       \* "exec", or "file" for read_file and write_file
    phase,      \* "pre": check before the operation, "post": after a failed exec
    attempt,    \* attempt of the retry loop
    mine,       \* identity the check started from
    seen,       \* snapshot read_pod returned
    base,       \* self._info as dataclasses.replace read it
    warned,     \* warned_restart of Pod.exec is not None
    reported,   \* history: identities made known by an error or a warning
    before,     \* history: `reported` when the caller's check began
    preSeen,    \* history: snapshot of the pre-check of this attempt
    failedOn    \* history: identity of the pod when the exec failed

vars == <<pod, published, behavior, info, pc, kind, phase, attempt, mine, seen,
          base, warned, reported, before, preSeen, failedOn>>

callerVars == <<kind, phase, attempt, mine, seen, base, warned, before, preSeen,
                failedOn>>

-------------------------------------------------------------------------------
Uids == 1..MaxUid
Counts == 0..MaxRestarts
Identities == [uid : Uids, rc : Counts]
Snapshots == [uid : Uids, rc : Counts, pub : BOOLEAN]

\* An operation that has returned or raised; "failure" is an ExecResult with
\* success=False, "restart" a PodReplacedError or ContainerRestartedError,
\* "error" any other exception.
Outcomes == {"success", "failure", "undiagnosed", "restart", "error"}

PC == {"idle", "check", "reading", "load", "store", "operating", "backoff"}
          \cup Outcomes

FirstPod == [uid |-> 1, rc |-> 0]
FirstSnapshot == [uid |-> 1, rc |-> 0, pub |-> TRUE]

\* get_sandbox_pods builds the Pod from the pod it listed after the install.
Init ==
    /\ pod = FirstPod
    /\ published = TRUE
    /\ behavior \in {"warn", "raise"}
    /\ info = FirstPod
    /\ pc = [c \in Callers |-> "idle"]
    /\ kind = [c \in Callers |-> "exec"]
    /\ phase = [c \in Callers |-> "pre"]
    /\ attempt = [c \in Callers |-> 0]
    /\ mine = [c \in Callers |-> FirstPod]
    /\ seen = [c \in Callers |-> FirstSnapshot]
    /\ base = [c \in Callers |-> FirstPod]
    /\ warned = [c \in Callers |-> FALSE]
    /\ reported = {FirstPod}
    /\ before = [c \in Callers |-> {}]
    /\ preSeen = [c \in Callers |-> FirstSnapshot]
    /\ failedOn = [c \in Callers |-> FirstPod]

\* Types; no operation makes more attempts than stop_after_attempt allows.
TypeOK ==
    /\ pod \in Identities
    /\ published \in BOOLEAN
    /\ behavior \in {"warn", "raise"}
    /\ info \in Identities
    /\ pc \in [Callers -> PC]
    /\ kind \in [Callers -> {"exec", "file"}]
    /\ phase \in [Callers -> {"pre", "post"}]
    /\ attempt \in [Callers -> 0..MaxAttempts]
    /\ mine \in [Callers -> Identities]
    /\ seen \in [Callers -> Snapshots]
    /\ base \in [Callers -> Identities]
    /\ warned \in [Callers -> BOOLEAN]
    /\ reported \subseteq Identities
    /\ before \in [Callers -> SUBSET Identities]
    /\ preSeen \in [Callers -> Snapshots]
    /\ failedOn \in [Callers -> Identities]

-------------------------------------------------------------------------------
(* The cluster (external)                                                  *)

RestartContainer ==
    /\ pod.rc < MaxRestarts
    /\ pod' = [uid |-> pod.uid, rc |-> pod.rc + 1]
    /\ UNCHANGED <<published, behavior, info, pc, callerVars, reported>>

\* Eviction: the workload recreates the pod under the same name.
ReplacePod ==
    /\ pod.uid < MaxUid
    /\ pod' = [uid |-> pod.uid + 1, rc |-> 0]
    /\ published' = FALSE
    /\ UNCHANGED <<behavior, info, pc, callerVars, reported>>

PublishStatuses ==
    /\ ~published
    /\ published' = TRUE
    /\ UNCHANGED <<pod, behavior, info, pc, callerVars, reported>>

-------------------------------------------------------------------------------
(* check_for_pod_restart                                                   *)

\* restart_count_for is 0 while the statuses are unpublished.
Snapshot == [uid |-> pod.uid, rc |-> IF published THEN pod.rc ELSE 0,
             pub |-> published]

\* Replaced, or restarted if there are statuses to compare.
Changed(id, snap) == snap.uid # id.uid \/ (snap.pub /\ snap.rc > id.rc)

\* BUG: a replacement refreshes the uid only.
RefreshedKeepCount(id, b, snap) ==
    IF snap.uid # id.uid THEN [uid |-> snap.uid, rc |-> b.rc]
                         ELSE [uid |-> b.uid, rc |-> snap.rc]

\* dataclasses.replace: PodReplacedError brings uid and count, a
\* ContainerRestartedError the count only, put on top of the identity cached
\* at that moment (b).
Refreshed(id, b, snap) ==
    IF snap.uid # id.uid THEN [uid |-> snap.uid, rc |-> snap.rc]
                         ELSE [uid |-> b.uid, rc |-> snap.rc]

\* The worker thread reads self._info.
BeginCheck(c) ==
    /\ pc[c] = "check"
    /\ pc' = [pc EXCEPT ![c] = "reading"]
    /\ mine' = [mine EXCEPT ![c] = info]
    /\ before' = [before EXCEPT ![c] = reported]
    /\ UNCHANGED <<pod, published, behavior, info, kind, phase, attempt, seen,
                   base, warned, reported, preSeen, failedOn>>

\* What follows a check without detection: the operation itself, or after a
\* failed exec its plain result.
AfterCleanCheck(c) == IF phase[c] = "pre" THEN "operating" ELSE "failure"

\* read_pod answers and the snapshot is compared with the identity the check
\* started from.
ReadPod(c) ==
    /\ pc[c] = "reading"
    /\ seen' = [seen EXCEPT ![c] = Snapshot]
    /\ preSeen' = [preSeen EXCEPT ![c] = IF phase[c] = "pre" THEN Snapshot ELSE @]
    /\ pc' = [pc EXCEPT ![c] =
                 IF Changed(mine[c], Snapshot) THEN "load" ELSE AfterCleanCheck(c)]
    /\ UNCHANGED <<pod, published, behavior, info, kind, phase, attempt, mine,
                   base, warned, reported, before, failedOn>>

\* The right-hand side reads self._info ...
LoadInfo(c) ==
    /\ pc[c] = "load"
    /\ base' = [base EXCEPT ![c] = info]
    /\ pc' = [pc EXCEPT ![c] = "store"]
    /\ UNCHANGED <<pod, published, behavior, info, kind, phase, attempt, mine,
                   seen, warned, reported, before, preSeen, failedOn>>

\* ... and the assignment replaces it.  "raise" raises, which is not retried;
\* "warn" logs and goes on before an operation, while Pod.exec raises the error
\* it is handed after a failed one.
StoreInfo(c) ==
    /\ pc[c] = "store"
    /\ info' = Refreshed(mine[c], base[c], seen[c])
    /\ reported' = reported \cup {[uid |-> seen[c].uid, rc |-> seen[c].rc]}
    /\ IF behavior = "warn" /\ phase[c] = "pre"
       THEN /\ pc' = [pc EXCEPT ![c] = "operating"]
            /\ warned' = [warned EXCEPT ![c] = TRUE]
       ELSE /\ pc' = [pc EXCEPT ![c] = "restart"]
            /\ UNCHANGED warned
    /\ UNCHANGED <<pod, published, behavior, kind, phase, attempt, mine, seen,
                   base, before, preSeen, failedOn>>

-------------------------------------------------------------------------------
(* exec, read_file and write_file                                          *)

\* An operation of the sandbox environment begins: first attempt.
StartOp(c, k) ==
    /\ pc[c] = "idle"
    /\ pc' = [pc EXCEPT ![c] = "check"]
    /\ kind' = [kind EXCEPT ![c] = k]
    /\ phase' = [phase EXCEPT ![c] = "pre"]
    /\ attempt' = [attempt EXCEPT ![c] = 1]
    /\ warned' = [warned EXCEPT ![c] = FALSE]
    /\ UNCHANGED <<pod, published, behavior, info, mine, seen, base, reported,
                   before, preSeen, failedOn>>

\* BUG: one attempt too many.
AfterTransientOffByOne(c) == IF attempt[c] > MaxAttempts THEN "error" ELSE "backoff"

\* _retry(): a transient error is retried up to the last attempt.
AfterTransient(c) == IF attempt[c] = MaxAttempts THEN "error" ELSE "backoff"

\* read_pod fails.  Before the operation the error is transient (ApiException,
\* OSError) or permanent (RuntimeError: no such container); after a failed exec
\* it is logged and the original result returned.
ReadPodFails(c) ==
    /\ pc[c] = "reading"
    /\ \E next \in IF phase[c] = "post" THEN {"undiagnosed"}
                                        ELSE {"error", AfterTransient(c)} :
          pc' = [pc EXCEPT ![c] = next]
    /\ UNCHANGED <<pod, published, behavior, info, callerVars, reported>>

\* The operation succeeds, or fails with a transient or a permanent error.
OperationEnds(c) ==
    /\ pc[c] = "operating"
    /\ \E next \in {"success", "error", AfterTransient(c)} :
          pc' = [pc EXCEPT ![c] = next]
    /\ UNCHANGED <<pod, published, behavior, info, callerVars, reported>>

\* BUG: no re-check after a failed exec.
AfterFailedExecNoRecheck(c) == IF warned[c] THEN "restart" ELSE "failure"

\* A restart this call was warned of is raised as the cause; otherwise
\* _diagnose_restart_after_failed_exec checks again.
AfterFailedExec(c) == IF warned[c] THEN "restart" ELSE "check"

\* The command exits with a non-zero code.
ExecFails(c) ==
    /\ pc[c] = "operating"
    /\ kind[c] = "exec"
    /\ pc' = [pc EXCEPT ![c] = AfterFailedExec(c)]
    /\ phase' = [phase EXCEPT ![c] = "post"]
    /\ failedOn' = [failedOn EXCEPT ![c] = pod]
    /\ UNCHANGED <<pod, published, behavior, info, kind, attempt, mine, seen,
                   base, warned, reported, before, preSeen>>

\* The back-off is over: Pod.exec (or the file operation) is called afresh.
Retry(c) ==
    /\ pc[c] = "backoff"
    /\ pc' = [pc EXCEPT ![c] = "check"]
    /\ phase' = [phase EXCEPT ![c] = "pre"]
    /\ attempt' = [attempt EXCEPT ![c] = @ + 1]
    /\ warned' = [warned EXCEPT ![c] = FALSE]
    /\ UNCHANGED <<pod, published, behavior, info, kind, mine, seen, base,
                   reported, before, preSeen, failedOn>>

\* The caller takes the outcome.
EndOp(c) ==
    /\ pc[c] \in Outcomes
    /\ pc' = [pc EXCEPT ![c] = "idle"]
    /\ UNCHANGED <<pod, published, behavior, info, callerVars, reported>>

CallerStep(c) ==
    \/ \E k \in {"exec", "file"} : StartOp(c, k)
    \/ BeginCheck(c) \/ ReadPod(c) \/ LoadInfo(c) \/ StoreInfo(c)
    \/ ReadPodFails(c) \/ OperationEnds(c) \/ ExecFails(c) \/ Retry(c) \/ EndOp(c)

Next ==
    \/ RestartContainer \/ ReplacePod \/ PublishStatuses
    \/ \E c \in Callers : CallerStep(c)

Spec == Init /\ [][Next]_vars

-------------------------------------------------------------------------------
(* Properties                                                              *)

\* The snapshot snap is covered by an identity of ids: nothing has happened to
\* the pod since one of them.
Covered(snap, ids) == \E id \in ids : id.uid = snap.uid /\ id.rc >= snap.rc

\* "The sandbox provider refreshes its cached pod identity when this is raised,
\* so subsequent operations ... will not re-raise ... unless yet another
\* replacement occurs" (PodReplacedError; the same for a restart): a check that
\* began after an incident was made known does not detect it again.
NoReRaise ==
    \A c \in Callers : pc[c] \in {"load", "store"} => ~Covered(seen[c], before[c])

\* "The framework will issue a warning if a container restarts during an eval"
\* (docs/design/limitations.md): when a check that saw container statuses lets
\* the operation go on, everything it saw has been made known.
NoMissedRestart ==
    \A c \in Callers : pc[c] = "operating" /\ seen[c].pub => Covered(seen[c], reported)

\* The cached identity is one the pod has had: uid and restart count belong
\* together ("refresh its full cached identity atomically", op.py).
IdentityWasReal ==
    info.uid <= pod.uid /\ (info.uid = pod.uid => info.rc <= pod.rc)

\* A failed exec that is returned as a plain result was not hit by a restart:
\* the pod it failed on is the one its pre-check saw
\* (_diagnose_restart_after_failed_exec).
FailedExecDiagnosed ==
    \A c \in Callers : pc[c] = "failure" =>
        /\ failedOn[c].uid = preSeen[c].uid
        /\ preSeen[c].pub => failedOn[c].rc = preSeen[c].rc

-------------------------------------------------------------------------------
(* The inductive invariant when operations do not overlap                  *)

\* There is one caller at most.
Serial == \A a, b \in Callers : a = b

\* Identity or snapshot x is one the pod has already had.
Past(x) == x.uid <= pod.uid /\ (x.uid = pod.uid => x.rc <= pod.rc)

\* The cache holds the latest identity made known, and all of them were real.
CacheIsLatest ==
    /\ info \in reported
    /\ \A id \in reported :
        /\ Past(id)
        /\ id.uid < info.uid \/ (id.uid = info.uid /\ id.rc <= info.rc)

\* A check in progress works on the identity that is still cached.
CheckIsFresh ==
    \A c \in Callers :
        /\ pc[c] \in {"reading", "load", "store"} =>
              mine[c] = info /\ before[c] = reported
        /\ pc[c] = "store" => base[c] = info
        /\ pc[c] \in {"load", "store"} =>
              /\ Changed(mine[c], seen[c])
              /\ Past(seen[c])
              /\ seen[c].uid >= mine[c].uid
              /\ seen[c].uid # mine[c].uid \/ seen[c].pub

\* From the pre-check to the end of the re-check the cache is what the pre-check
\* saw; statuses once published stay published.
PreCheckHolds ==
    \A c \in Callers :
        /\ Past(preSeen[c])
        /\ preSeen[c].uid = pod.uid /\ preSeen[c].pub => published
        /\ pc[c] = "operating" \/ (phase[c] = "post" /\ pc[c] \in {"check", "reading"}) =>
              /\ info.uid = preSeen[c].uid
              /\ preSeen[c].pub => info.rc = preSeen[c].rc
        /\ phase[c] = "pre" /\ pc[c] \in {"load", "store"} => preSeen[c] = seen[c]

\* The pod an exec failed on lies between what the pre-check saw and the present.
FailureIsRecent ==
    \A c \in Callers : phase[c] = "post" /\ pc[c] \in {"check", "reading"} =>
        /\ Past(failedOn[c])
        /\ preSeen[c].uid <= failedOn[c].uid
        /\ preSeen[c].uid = failedOn[c].uid => preSeen[c].rc <= failedOn[c].rc

\* Only a failed exec is re-checked, and a re-check does not operate.
PhaseOK ==
    \A c \in Callers :
        /\ pc[c] = "operating" => phase[c] = "pre"
        /\ pc[c] \in {"check", "reading", "load", "store", "operating", "backoff"}
             => attempt[c] > 0
        /\ pc[c] = "backoff" => attempt[c] < MaxAttempts

PodInv ==
    /\ TypeOK
    /\ CacheIsLatest
    /\ CheckIsFresh
    /\ PreCheckHolds
    /\ FailureIsRecent
    /\ PhaseOK
    /\ NoMissedRestart
    /\ FailedExecDiagnosed

===============================================================================
