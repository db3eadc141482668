------------------------------ MODULE CliCleanup ------------------------------
(***************************************************************************)
(* `inspect sandbox cleanup k8s [release]`: cli_cleanup                    *)
(* (_sandbox_environment.py), uninstall_unmanaged_release and              *)
(* uninstall_all_unmanaged_releases (_manager.py), get_all_release_names   *)
(* and uninstall (_helm.py).  Each element of Cleaners is an operator who  *)
(* runs the command, and may run it again.  The command knows nothing of   *)
(* the evals: it sees the cluster alone, which others change meanwhile.    *)
(***************************************************************************)
EXTENDS Integers, FiniteSets

CONSTANTS
    Releases,      \* Inspect releases of the namespace, all labelled
    Cleaners,      \* operators who run the command
    MaxUninstall,  \* INSPECT_MAX_HELM_UNINSTALL, per process
    ListsPending,  \* helm list shows pending releases (Helm 4: yes, Helm 3: no)
    OtherContext   \* releases not in the operators' current kubeconfig context

VARIABLES
    release,  \* each release as the cluster holds it
    phase,    \* where each command is, or how it ended
    names,    \* the releases each command has listed or was given
    work,     \* the uninstalls under each command's gather
    context   \* the kubeconfig context each command runs in

cliVars == <<phase, names, work, context>>

\* Exit status 0: all uninstalled; nothing found; not confirmed; the one named
\* release uninstalled.  Otherwise sys.exit(1) or an exception.
ExitPhases == {"complete", "noneFound", "declined", "removed", "failures", "raised"}

Idle == [r \in Releases |-> "none"]

CliInit ==
    /\ phase = [c \in Cleaners |-> "idle"]
    /\ names = [c \in Cleaners |-> {}]
    /\ work = [c \in Cleaners |-> Idle]
    /\ context = [c \in Cleaners |-> "current"]

\* context_name=None: helm and the namespace follow the current context.
Reachable(c) == IF context[c] = "current" THEN Releases \ OtherContext ELSE OtherContext

\* BUG: failed releases are not listed.
ShownDeployedOnly == {"deployed"}

\* The states of a release that `helm list` shows without --all.
Shown == {"deployed", "failed"} \cup (IF ListsPending THEN {"pending"} ELSE {})

Visible(c) == {r \in Reachable(c) : release[r] \in Shown}

-------------------------------------------------------------------------------
\* get_all_release_names answers; the operator is asked to confirm.
ListNames(c) ==
    /\ phase[c] = "idle"
    /\ names' = [names EXCEPT ![c] = Visible(c)]
    /\ phase' = [phase EXCEPT ![c] = IF Visible(c) = {} THEN "noneFound" ELSE "confirm"]
    /\ UNCHANGED <<release, work, context>>

\* helm list fails: its status is not looked at and its output is empty.
ListFails(c) ==
    /\ phase[c] = "idle"
    /\ phase' = [phase EXCEPT ![c] = "noneFound"]
    /\ UNCHANGED <<release, names, work, context>>

Confirm(c) ==
    /\ phase[c] = "confirm"
    /\ phase' = [phase EXCEPT ![c] = "uninstallAll"]
    /\ work' = [work EXCEPT ![c] =
           [r \in Releases |-> IF r \in names[c] THEN "waiting" ELSE "none"]]
    /\ UNCHANGED <<release, names, context>>

Decline(c) ==
    /\ phase[c] = "confirm"
    /\ phase' = [phase EXCEPT ![c] = "declined"]
    /\ UNCHANGED <<release, names, work, context>>

\* uninstall_unmanaged_release: no list and no question.  ctx is the context
\* the operator has made current for this.
CleanupOne(c, r, ctx) ==
    /\ phase[c] = "idle"
    /\ phase' = [phase EXCEPT ![c] = "uninstallOne"]
    /\ names' = [names EXCEPT ![c] = {r}]
    /\ work' = [work EXCEPT ![c][r] = "waiting"]
    /\ context' = [context EXCEPT ![c] = ctx]
    /\ UNCHANGED release

-------------------------------------------------------------------------------
(* uninstall, under the semaphore of the command's own event loop          *)

StartUninstall(c, r) ==
    /\ work[c][r] = "waiting"
    /\ Cardinality({x \in Releases : work[c][x] = "helm"}) < MaxUninstall
    /\ work' = [work EXCEPT ![c][r] = "helm"]
    /\ UNCHANGED <<release, phase, names, context>>

\* helm uninstall --wait exits 0: the release is gone, or (--ignore-not-found)
\* there is none of that name in this context.
Uninstalled(c, r) ==
    /\ work[c][r] = "helm"
    /\ work' = [work EXCEPT ![c][r] = "ok"]
    /\ release' = [release EXCEPT ![r] = IF r \in Reachable(c) THEN "absent" ELSE @]
    /\ UNCHANGED <<phase, names, context>>

\* helm uninstall fails: uninstall raises.
UninstallError(c, r) ==
    /\ work[c][r] = "helm"
    /\ work' = [work EXCEPT ![c][r] = "failed"]
    /\ release' = [release EXCEPT
           ![r] = IF r \in Reachable(c) /\ @ # "absent" THEN "failed" ELSE @]
    /\ UNCHANGED <<phase, names, context>>

Failed(c) == {r \in Releases : work[c][r] = "failed"}

\* BUG: gather's results are not looked at.
ExitIgnoringFailures(c) == IF phase[c] = "uninstallAll" THEN "complete" ELSE "removed"

\* How the command ends: sys.exit(1) when the list of failures is not empty; the
\* uninstall of one release raises.
Exit(c) ==
    IF phase[c] = "uninstallAll"
    THEN IF Failed(c) = {} THEN "complete" ELSE "failures"
    ELSE IF Failed(c) = {} THEN "removed" ELSE "raised"

\* Every uninstall has ended.
Gathered(c) ==
    /\ phase[c] \in {"uninstallAll", "uninstallOne"}
    /\ \A r \in Releases : work[c][r] \notin {"waiting", "helm"}
    /\ phase' = [phase EXCEPT ![c] = Exit(c)]
    /\ UNCHANGED <<release, names, work, context>>

\* The operator runs the command again, in the usual context.
Again(c) ==
    /\ phase[c] \in ExitPhases
    /\ phase' = [phase EXCEPT ![c] = "idle"]
    /\ names' = [names EXCEPT ![c] = {}]
    /\ work' = [work EXCEPT ![c] = Idle]
    /\ context' = [context EXCEPT ![c] = "current"]
    /\ UNCHANGED release

CliStep(c) ==
    \/ ListNames(c) \/ ListFails(c) \/ Confirm(c) \/ Decline(c)
    \/ Gathered(c) \/ Again(c)
    \/ \E r \in Releases : StartUninstall(c, r) \/ Uninstalled(c, r) \/ UninstallError(c, r)

===============================================================================
