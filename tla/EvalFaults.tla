------------------------------ MODULE EvalFaults ------------------------------
(***************************************************************************)
(* ReleaseLifecycle and CliCleanup composed over one cluster, with the     *)
(* faults the cleanup command is there for: the eval process dies at any   *)
(* moment (its helm processes die with it or go on as orphans), or its     *)
(* uninstall_all() is interrupted.                                         *)
(***************************************************************************)
EXTENDS ReleaseLifecycle

CONSTANTS
    Cleaners,      \* operators who run `inspect sandbox cleanup k8s`
    ListsPending,  \* helm list shows pending releases
    OtherContext   \* samples configured with another kubeconfig context

ASSUME FaultAssumption == ListsPending \in BOOLEAN /\ OtherContext \subseteq Samples

VARIABLES
    alive,    \* the eval process is running
    phase, names, work, context,   \* the cleanup commands (CliCleanup)
    calm      \* history: nothing was being installed when the command began

Cli == INSTANCE CliCleanup WITH Releases <- Samples

cliVars == <<phase, names, work, context>>

faultVars == <<vars, cliVars, alive, calm>>

FaultInit ==
    /\ Init
    /\ Cli!CliInit
    /\ alive = TRUE
    /\ calm = [c \in Cleaners |-> FALSE]

-------------------------------------------------------------------------------
(* Faults of the eval process                                              *)

\* The process is killed.  A helm install dies with it, leaving the release as
\* it is, or goes on without it.
Crash ==
    /\ alive
    /\ ~Settled
    /\ alive' = FALSE
    /\ \E dead \in SUBSET Samples :
          installProc' = [s \in Samples |-> IF s \in dead THEN "none" ELSE installProc[s]]
    /\ UNCHANGED <<pc, attempt, result, cancels, tracked, task, child, release,
                   reported, cliVars, calm>>

\* An orphaned helm install ends by itself.
OrphanExits(s) ==
    /\ ~alive
    /\ installProc[s] # "none"
    /\ installProc' = [installProc EXCEPT ![s] = "none"]
    /\ release' = [release EXCEPT ![s] = IF @ = "pending" THEN "failed" ELSE @]
    /\ UNCHANGED <<pc, attempt, result, cancels, tracked, task, child, reported,
                   alive, cliVars, calm>>

\* A helm uninstall the eval had started succeeds after its death.
OrphanUninstalls(s) ==
    /\ ~alive
    /\ pc[s] \in HoldsUninstall \/ \E t \in Tasks : child[t][s] = "helm"
    /\ release' = [release EXCEPT ![s] = "absent"]
    /\ pc' = [pc EXCEPT ![s] = IF @ \in HoldsUninstall THEN "cancelled" ELSE @]
    /\ child' = [t \in Tasks |-> [child[t] EXCEPT ![s] = IF @ = "helm" THEN "ok" ELSE @]]
    /\ UNCHANGED <<attempt, result, cancels, tracked, task, installProc, reported,
                   alive, cliVars, calm>>

\* task_cleanup() is cancelled at its gather: the children are cancelled (a helm
\* uninstall is terminated, having done its work or not), CancelledError leaves
\* uninstall_all(), and the loop over the results does not run.
InterruptCleanup(t) ==
    /\ alive
    /\ task[t] = "cleaning"
    /\ \E s \in Samples : child[t][s] \in {"waiting", "helm"}
    /\ task' = [task EXCEPT ![t] = "done"]
    /\ child' = [child EXCEPT ![t] = [s \in Samples |->
           IF @[s] \in {"waiting", "helm"} THEN "interrupted" ELSE @[s]]]
    /\ \E gone \in SUBSET {s \in Samples : child[t][s] = "helm"} :
          release' = [s \in Samples |-> IF s \in gone THEN "absent" ELSE release[s]]
    /\ UNCHANGED <<pc, attempt, result, cancels, tracked, installProc, reported,
                   alive, cliVars, calm>>

-------------------------------------------------------------------------------
(* The operator                                                            *)

\* No helm install runs and none will be started.
Calm == (~alive \/ Settled) /\ \A s \in Samples : installProc[s] = "none"

\* Releases for which uninstall_all() has printed the command that removes them:
\* the ones that failed to uninstall, or all under --no-sandbox-cleanup.
Instructed ==
    IF Cleanup THEN {s \in Samples : \E t \in Tasks : task[t] = "done" /\ child[t][s] = "failed"}
    ELSE {s \in tracked : \E t \in Tasks : task[t] = "done"}

\* BUG: the error log does not name the context.
NoContextHint(s) == "current"

\* The context in which the printed command is to be run.  The error log of a
\* failed uninstall names the release's context; the table of the cleanup
\* instructions does not.
InstructedContext(s) == IF Cleanup /\ s \in OtherContext THEN "other" ELSE "current"

FollowInstruction(c, s) ==
    /\ alive /\ Settled
    /\ s \in Instructed
    /\ Cli!CleanupOne(c, s, InstructedContext(s))

\* A cleanup command's own steps; `calm` is fixed when the command starts.
CliRuns(c) ==
    /\ Cli!CliStep(c) \/ \E s \in Samples : FollowInstruction(c, s)
    /\ calm' = [calm EXCEPT ![c] = IF phase[c] = "idle" THEN Calm ELSE @]
    /\ UNCHANGED <<pc, attempt, result, cancels, tracked, task, child, installProc,
                   reported, alive>>

EvalRuns == alive /\ Next /\ UNCHANGED <<alive, cliVars, calm>>

\* An orphaned helm install goes on creating and readying its resources.
OrphanRuns ==
    /\ ~alive
    /\ \E s \in Samples : HelmCreate(s) \/ HelmReady(s)
    /\ UNCHANGED <<alive, cliVars, calm>>

FaultNext ==
    \/ EvalRuns \/ Crash \/ OrphanRuns
    \/ \E s \in Samples : OrphanExits(s) \/ OrphanUninstalls(s)
    \/ \E t \in Tasks : InterruptCleanup(t)
    \/ \E c \in Cleaners : CliRuns(c)

FaultSpec == FaultInit /\ [][FaultNext]_faultVars

-------------------------------------------------------------------------------
(* Properties                                                              *)

\* A cleanup that began after the eval's death (or end) with no helm install left
\* running, and that reports "Complete." and exits 0, has removed every release
\* of the current context that `helm list` shows, whatever state the crash left
\* it in and whichever other operators or orphaned uninstalls ran beside it.
CompleteMeansGone ==
    \A c \in Cleaners : phase[c] = "complete" /\ calm[c] => Cli!Visible(c) = {}

\* Following the command that uninstall_all() printed for a release removes it:
\* exit 0 means the release is gone, although --ignore-not-found also exits 0
\* for a release that lives in another context.
InstructionsSuffice ==
    \A c \in Cleaners : \A s \in names[c] :
        phase[c] = "removed" /\ calm[c] => release[s] = "absent"

\* "... left installed with no record of it anywhere.  Name it and say how to
\* remove it" (uninstall_all): an eval that ends has named every release it left
\* in the cluster, whatever operators removed meanwhile, but for those whose
\* uninstall was cancelled with uninstall_all() itself.
RecordKept ==
    alive /\ Settled => \A s \in Samples : release[s] # "absent" =>
        s \in reported \/ \E t \in Tasks : child[t][s] = "interrupted"

-------------------------------------------------------------------------------
(* Liveness                                                                *)

\* One of the operators, who runs the command again until nothing is left.
Diligent == CHOOSE c \in Cleaners : TRUE

\* Orphaned helm installs end (--timeout).  One operator keeps at it, now and
\* then confirms, and helm does not fail this operator every time.  The others
\* may do anything, or stop half-way.
OperatorFairness ==
    LET Runs(A) == ~alive /\ A /\ CliRuns(Diligent)
        Proceed == \/ Cli!Gathered(Diligent) \/ Cli!Again(Diligent)
                   \/ \E s \in Samples : Cli!StartUninstall(Diligent, s)
    IN  /\ \A s \in Samples : WF_faultVars(OrphanExits(s))
        /\ WF_faultVars(Runs(Proceed))
        /\ SF_faultVars(Runs(Cli!ListNames(Diligent)))
        /\ SF_faultVars(Runs(Cli!Confirm(Diligent)))
        /\ \A s \in Samples \ OtherContext : SF_faultVars(Runs(Cli!Uninstalled(Diligent, s)))

FaultFairSpec == FaultSpec /\ OperatorFairness

\* Wherever the eval dies, one operator who keeps running the cleanup command
\* brings the context back to a state without releases, for good.
CrashRecovered ==
    ~alive ~> [](\A s \in Samples \ OtherContext : release[s] = "absent")

===============================================================================
