------------------------ MODULE ReleaseLifecycleProofs ------------------------
(***************************************************************************)
(* Proofs about ReleaseLifecycle, for every number of samples, permits,    *)
(* attempts and task_cleanup() calls, and, at the end, about EvalFaults,   *)
(* for any number of operators too, wherever the eval dies.                *)
(***************************************************************************)
EXTENDS EvalFaults, FiniteSetTheorems, TLAPS

\* A step of the specification is one of the actions, or changes nothing.
LEMMA StepCases ==
    ASSUME [Next]_vars
    PROVE  \/ \E s \in Samples :
                \/ SampleInit(s) \/ AcquireInstall(s) \/ WatcherDone(s)
                \/ QuotaRetry(s) \/ DiagnoseDone(s) \/ PodsListed(s)
                \/ SampleEnd(s) \/ AcquireUninstall(s) \/ CancelUninstalled(s)
                \/ SampleUninstalled(s) \/ UninstallFails(s)
                \/ UninstallTerminated(s) \/ Cancel(s)
           \/ \E s \in Samples :
                \/ HelmCreate(s) \/ HelmReady(s) \/ HelmInstallOk(s)
                \/ HelmInstallFails(s) \/ HelmInstallTerminated(s)
           \/ \E t \in Tasks : TaskCleanup(t) \/ TaskCleanupDone(t)
           \/ \E t \in Tasks, s \in Samples :
                ChildAcquire(t, s) \/ ChildUninstalled(t, s) \/ ChildFails(t, s)
           \/ UNCHANGED vars
BY DEF Next, SampleStep, HelmStep, TaskStep, EvalOver

-------------------------------------------------------------------------------
(* Type correctness                                                        *)

\* What the await points lead to are await points again.
LEMMA NextAwait ==
    /\ \A p \in SamplePC : CancelTo(p) \in SamplePC
    /\ \A res \in {"none", "ok", "quota", "error"}, a \in 0..MaxInstallAttempts :
          /\ AfterInstall(res, a) \in SamplePC
          /\ AfterInstall(res, a) = "quotaSleep" => a < MaxInstallAttempts
  <1>1. \A p \in SamplePC : CancelTo(p) \in SamplePC
    BY DEF CancelTo, OnInstallCancelled, SamplePC, HoldsInstall, HoldsUninstall, Ended
  <1>2. \A res \in {"none", "ok", "quota", "error"}, a \in 0..MaxInstallAttempts :
           /\ AfterInstall(res, a) \in SamplePC
           /\ AfterInstall(res, a) = "quotaSleep" => a < MaxInstallAttempts
    BY ReleaseAssumption
    DEF AfterInstall, SamplePC, HoldsInstall, HoldsUninstall, Ended
  <1> QED BY <1>1, <1>2

LEMMA TypeInitWith == ASSUME NEW more, Init PROVE TypeOKWith(more)
BY ReleaseAssumption DEF Init, TypeOKWith, SamplePC

\* Every action preserves the types; a retry never takes `attempt` past the limit.
LEMMA TypeStepWith ==
    ASSUME NEW more, TypeOKWith(more), [Next]_vars
    PROVE  TypeOKWith(more)'
  <1> USE ReleaseAssumption DEF TypeOKWith
  <1>1. ASSUME NEW s \in Samples, SampleInit(s) PROVE TypeOKWith(more)'
    BY <1>1 DEF SampleInit, SamplePC
  <1>2. ASSUME NEW s \in Samples, AcquireInstall(s) PROVE TypeOKWith(more)'
    BY <1>2 DEF AcquireInstall, SamplePC, HoldsInstall
  <1>3. ASSUME NEW s \in Samples, WatcherDone(s) PROVE TypeOKWith(more)'
    BY <1>3, NextAwait DEF WatcherDone, AttemptAfter
  <1>4. ASSUME NEW s \in Samples, QuotaRetry(s) PROVE TypeOKWith(more)'
    BY <1>4 DEF QuotaRetry, SamplePC, HoldsInstall
  <1>5. ASSUME NEW s \in Samples, DiagnoseDone(s) PROVE TypeOKWith(more)'
    BY <1>5 DEF DiagnoseDone, SamplePC, Ended
  <1>6. ASSUME NEW s \in Samples, PodsListed(s) PROVE TypeOKWith(more)'
    BY <1>6 DEF PodsListed, SamplePC, Ended
  <1>7. ASSUME NEW s \in Samples, SampleEnd(s) PROVE TypeOKWith(more)'
    BY <1>7 DEF SampleEnd, SamplePC, Ended
  <1>8. ASSUME NEW s \in Samples, AcquireUninstall(s) PROVE TypeOKWith(more)'
    BY <1>8 DEF AcquireUninstall, SamplePC, HoldsUninstall
  <1>9. ASSUME NEW s \in Samples, CancelUninstalled(s) PROVE TypeOKWith(more)'
    BY <1>9 DEF CancelUninstalled, SamplePC, Ended
  <1>10. ASSUME NEW s \in Samples, SampleUninstalled(s) PROVE TypeOKWith(more)'
    BY <1>10 DEF SampleUninstalled, SamplePC, Ended
  <1>11. ASSUME NEW s \in Samples, UninstallFails(s) PROVE TypeOKWith(more)'
    BY <1>11 DEF UninstallFails, SamplePC, Ended
  <1>12. ASSUME NEW s \in Samples, UninstallTerminated(s) PROVE TypeOKWith(more)'
    BY <1>12 DEF UninstallTerminated, SamplePC, Ended
  <1>13. ASSUME NEW s \in Samples, Cancel(s) PROVE TypeOKWith(more)'
    BY <1>13, NextAwait DEF Cancel
  <1>14. ASSUME NEW s \in Samples, HelmCreate(s) PROVE TypeOKWith(more)'
    BY <1>14 DEF HelmCreate
  <1>15. ASSUME NEW s \in Samples, HelmReady(s) PROVE TypeOKWith(more)'
    BY <1>15 DEF HelmReady
  <1>16. ASSUME NEW s \in Samples, HelmInstallOk(s) PROVE TypeOKWith(more)'
    BY <1>16 DEF HelmInstallOk, SamplePC, HoldsInstall
  <1>17. ASSUME NEW s \in Samples, HelmInstallFails(s) PROVE TypeOKWith(more)'
    BY <1>17 DEF HelmInstallFails, SamplePC, HoldsInstall
  <1>18. ASSUME NEW s \in Samples, HelmInstallTerminated(s) PROVE TypeOKWith(more)'
    BY <1>18 DEF HelmInstallTerminated, OnInstallCancelled, SamplePC
  <1>19. ASSUME NEW t \in Tasks, TaskCleanup(t) PROVE TypeOKWith(more)'
    <2>1. CASE tracked = {} \/ ~Cleanup
      BY <1>19, <2>1 DEF TaskCleanup, CleanupInstructions
    <2>2. CASE ~(tracked = {} \/ ~Cleanup)
      <3>1. child' \in [Tasks -> [Samples ->
                          {"none", "waiting", "helm", "ok", "failed"} \cup more]]
        BY <1>19, <2>2 DEF TaskCleanup
      <3>2. tracked' = {} /\ task' \in [Tasks -> {"running", "cleaning", "done"}]
        BY <1>19, <2>2 DEF TaskCleanup, TrackedAfterTake
      <3>3. UNCHANGED <<pc, attempt, result, cancels, installProc, release, reported>>
        BY <1>19, <2>2 DEF TaskCleanup
      <3> QED BY <3>1, <3>2, <3>3
    <2> QED BY <2>1, <2>2
  <1>20. ASSUME NEW t \in Tasks, TaskCleanupDone(t) PROVE TypeOKWith(more)'
    BY <1>20 DEF TaskCleanupDone
  <1>21. ASSUME NEW t \in Tasks, NEW s \in Samples, ChildAcquire(t, s) PROVE TypeOKWith(more)'
    BY <1>21 DEF ChildAcquire
  <1>22. ASSUME NEW t \in Tasks, NEW s \in Samples, ChildUninstalled(t, s) PROVE TypeOKWith(more)'
    BY <1>22 DEF ChildUninstalled
  <1>23. ASSUME NEW t \in Tasks, NEW s \in Samples, ChildFails(t, s) PROVE TypeOKWith(more)'
    BY <1>23 DEF ChildFails
  <1>24. CASE UNCHANGED vars
    BY <1>24 DEF vars
  <1> QED
    BY StepCases, <1>1, <1>2, <1>3, <1>4, <1>5, <1>6, <1>7, <1>8, <1>9, <1>10,
       <1>11, <1>12, <1>13, <1>14, <1>15, <1>16, <1>17, <1>18, <1>19, <1>20,
       <1>21, <1>22, <1>23, <1>24

LEMMA TypeStep == TypeOK /\ [Next]_vars => TypeOK'
BY TypeStepWith DEF TypeOK

LEMMA TypeInit == Init => TypeOK
BY TypeInitWith DEF TypeOK

\* The state keeps its type: in particular an install is attempted at most
\* MAX_INSTALL_ATTEMPTS times, whatever helm answers.
THEOREM TypeCorrect == Spec => []TypeOK
BY TypeInit, TypeStep, PTL DEF Spec

-------------------------------------------------------------------------------
(* The inductive invariants                                                *)

LEMMA ListInvInitWith == ASSUME NEW more, Init PROVE ListInvWith(more)
  <1>1. TypeOKWith(more)
    BY TypeInitWith
  <1> QED
    BY <1>1 DEF Init, ListInvWith, ActiveTracked, IdleUntouched, ProcStarted,
       ChildrenOfCleanup, BatchesDisjoint, ListHandedOver, ReleaseOwned, Active, Unwinding,
       Ended

LEMMA ListInvStepWith ==
    ASSUME NEW more, ListInvWith(more), [Next]_vars
    PROVE  ListInvWith(more)'
  <1>0. TypeOKWith(more)'
    BY TypeStepWith DEF ListInvWith
  <1> USE ReleaseAssumption DEF ListInvWith, TypeOKWith, ActiveTracked, IdleUntouched,
       ProcStarted, ChildrenOfCleanup, BatchesDisjoint, ListHandedOver, ReleaseOwned, Active,
       Unwinding, Ended, SamplePC, HoldsInstall, HoldsUninstall
  <1>1. ASSUME NEW s \in Samples, SampleInit(s) PROVE ListInvWith(more)'
    BY <1>0, <1>1 DEF SampleInit
  <1>2. ASSUME NEW s \in Samples, AcquireInstall(s) PROVE ListInvWith(more)'
    BY <1>0, <1>2 DEF AcquireInstall
  <1>3. ASSUME NEW s \in Samples, WatcherDone(s) PROVE ListInvWith(more)'
    BY <1>0, <1>3 DEF WatcherDone, AfterInstall
  <1>4. ASSUME NEW s \in Samples, QuotaRetry(s) PROVE ListInvWith(more)'
    BY <1>0, <1>4 DEF QuotaRetry
  <1>5. ASSUME NEW s \in Samples, DiagnoseDone(s) PROVE ListInvWith(more)'
    BY <1>0, <1>5 DEF DiagnoseDone
  <1>6. ASSUME NEW s \in Samples, PodsListed(s) PROVE ListInvWith(more)'
    BY <1>0, <1>6 DEF PodsListed
  <1>7. ASSUME NEW s \in Samples, SampleEnd(s) PROVE ListInvWith(more)'
    BY <1>0, <1>7 DEF SampleEnd
  <1>8. ASSUME NEW s \in Samples, AcquireUninstall(s) PROVE ListInvWith(more)'
    BY <1>0, <1>8 DEF AcquireUninstall
  <1>9. ASSUME NEW s \in Samples, CancelUninstalled(s) PROVE ListInvWith(more)'
    BY <1>0, <1>9 DEF CancelUninstalled
  <1>10. ASSUME NEW s \in Samples, SampleUninstalled(s) PROVE ListInvWith(more)'
    BY <1>0, <1>10 DEF SampleUninstalled
  <1>11. ASSUME NEW s \in Samples, UninstallFails(s) PROVE ListInvWith(more)'
    BY <1>0, <1>11 DEF UninstallFails
  <1>12. ASSUME NEW s \in Samples, UninstallTerminated(s) PROVE ListInvWith(more)'
    BY <1>0, <1>12 DEF UninstallTerminated
  <1>13. ASSUME NEW s \in Samples, Cancel(s) PROVE ListInvWith(more)'
    BY <1>0, <1>13 DEF Cancel, CancelTo, OnInstallCancelled
  <1>14. ASSUME NEW s \in Samples, HelmCreate(s) PROVE ListInvWith(more)'
    BY <1>0, <1>14 DEF HelmCreate
  <1>15. ASSUME NEW s \in Samples, HelmReady(s) PROVE ListInvWith(more)'
    BY <1>0, <1>15 DEF HelmReady
  <1>16. ASSUME NEW s \in Samples, HelmInstallOk(s) PROVE ListInvWith(more)'
    BY <1>0, <1>16 DEF HelmInstallOk
  <1>17. ASSUME NEW s \in Samples, HelmInstallFails(s) PROVE ListInvWith(more)'
    BY <1>0, <1>17 DEF HelmInstallFails
  <1>18. ASSUME NEW s \in Samples, HelmInstallTerminated(s) PROVE ListInvWith(more)'
    BY <1>0, <1>18 DEF HelmInstallTerminated, OnInstallCancelled
  <1>19. ASSUME NEW t \in Tasks, TaskCleanup(t) PROVE ListInvWith(more)'
    <2>0. /\ UNCHANGED <<pc, attempt, result, cancels, installProc, release>>
          /\ \A s \in Samples : pc[s] \notin Active
      BY <1>19 DEF TaskCleanup
    <2>1. CASE tracked = {} \/ ~Cleanup
      BY <1>0, <1>19, <2>0, <2>1 DEF TaskCleanup, CleanupInstructions
    <2>2. CASE ~(tracked = {} \/ ~Cleanup)
      <3>1. /\ task' = [task EXCEPT ![t] = "cleaning"]
            /\ tracked' = {} /\ reported' = reported
            /\ \A s \in Samples :
                 child'[t][s] = IF s \in tracked THEN "waiting" ELSE "none"
            /\ \A u \in Tasks \ {t} : child'[u] = child[u]
        BY <1>19, <2>2 DEF TaskCleanup, TrackedAfterTake
      <3>2. \A s \in Samples : child[t][s] = "none"
        BY <1>19 DEF TaskCleanup
      <3>3. ActiveTracked' /\ ProcStarted' /\ ListHandedOver'
        BY <2>0, <3>1
      <3>4. IdleUntouched'
        BY <2>0, <3>1
      <3>5. ChildrenOfCleanup'
        BY <3>1
      <3>6. BatchesDisjoint'
        BY <3>1
      <3>7. ReleaseOwned'
        <4> SUFFICES ASSUME NEW s \in Samples, pc[s] # "idle"
                     PROVE  \/ \E u \in Tasks : child'[u][s] # "none"
                            \/ pc[s] = "finished" /\ release[s] = "absent"
          BY <2>0, <3>1
        <4>1. CASE s \in tracked
          BY <3>1, <4>1
        <4>2. CASE \E u \in Tasks : child[u][s] # "none"
          BY <3>1, <3>2, <4>2
        <4> QED BY <4>1, <4>2
      <3> QED BY <1>0, <3>3, <3>4, <3>5, <3>6, <3>7
    <2> QED BY <2>1, <2>2
  <1>20. ASSUME NEW t \in Tasks, TaskCleanupDone(t) PROVE ListInvWith(more)'
    BY <1>0, <1>20 DEF TaskCleanupDone
  <1>21. ASSUME NEW t \in Tasks, NEW s \in Samples, ChildAcquire(t, s) PROVE ListInvWith(more)'
    BY <1>0, <1>21 DEF ChildAcquire
  <1>22. ASSUME NEW t \in Tasks, NEW s \in Samples, ChildUninstalled(t, s) PROVE ListInvWith(more)'
    BY <1>0, <1>22 DEF ChildUninstalled
  <1>23. ASSUME NEW t \in Tasks, NEW s \in Samples, ChildFails(t, s) PROVE ListInvWith(more)'
    BY <1>0, <1>23 DEF ChildFails
  <1>24. CASE UNCHANGED vars
    BY <1>0, <1>24 DEF vars
  <1> QED
    BY StepCases, <1>1, <1>2, <1>3, <1>4, <1>5, <1>6, <1>7, <1>8, <1>9, <1>10, <1>11, <1>12,
       <1>13, <1>14, <1>15, <1>16, <1>17, <1>18, <1>19, <1>20, <1>21, <1>22, <1>23, <1>24

\* The list and the batches are consistent however often samples are cancelled.
LEMMA ListInvariant == Spec => []ListInvWith({})
  <1>1. Init => ListInvWith({})
    BY ListInvInitWith
  <1>2. ListInvWith({}) /\ [Next]_vars => ListInvWith({})'
    BY ListInvStepWith
  <1> QED BY <1>1, <1>2, PTL DEF Spec

LEMMA ReleaseInvInitWith == ASSUME NEW more, Init PROVE ReleaseInvWith(more)
  <1>1. ListInvWith(more)
    BY ListInvInitWith
  <1> QED
    BY <1>1 DEF Init, ReleaseInvWith, ProcAwaited, UnwindingCancelled, ReleaseCoveredWith,
       Unwinding

LEMMA ReleaseInvStepWith ==
    ASSUME MaxCancels <= 1, NEW more, ReleaseInvWith(more), [Next]_vars
    PROVE  ReleaseInvWith(more)'
  <1>0. ListInvWith(more)'
    BY ListInvStepWith DEF ReleaseInvWith
  <1> DEFINE Rest == ProcAwaited /\ UnwindingCancelled /\ ReleaseCoveredWith(more)
  <1> USE ReleaseAssumption DEF ReleaseInvWith, ListInvWith, TypeOKWith, ActiveTracked,
       ProcAwaited, UnwindingCancelled, ChildrenOfCleanup, ReleaseCoveredWith, Active,
       Unwinding, Ended, SamplePC, HoldsInstall, HoldsUninstall
  <1>1. ASSUME NEW s \in Samples, SampleInit(s) PROVE Rest'
    BY <1>1 DEF SampleInit
  <1>2. ASSUME NEW s \in Samples, AcquireInstall(s) PROVE Rest'
    BY <1>2 DEF AcquireInstall
  <1>3. ASSUME NEW s \in Samples, WatcherDone(s) PROVE Rest'
    BY <1>3 DEF WatcherDone, AfterInstall
  <1>4. ASSUME NEW s \in Samples, QuotaRetry(s) PROVE Rest'
    BY <1>4 DEF QuotaRetry
  <1>5. ASSUME NEW s \in Samples, DiagnoseDone(s) PROVE Rest'
    BY <1>5 DEF DiagnoseDone
  <1>6. ASSUME NEW s \in Samples, PodsListed(s) PROVE Rest'
    BY <1>6 DEF PodsListed
  <1>7. ASSUME NEW s \in Samples, SampleEnd(s) PROVE Rest'
    BY <1>7 DEF SampleEnd
  <1>8. ASSUME NEW s \in Samples, AcquireUninstall(s) PROVE Rest'
    BY <1>8 DEF AcquireUninstall
  <1>9. ASSUME NEW s \in Samples, CancelUninstalled(s) PROVE Rest'
    BY <1>9 DEF CancelUninstalled
  <1>10. ASSUME NEW s \in Samples, SampleUninstalled(s) PROVE Rest'
    BY <1>10 DEF SampleUninstalled
  <1>11. ASSUME NEW s \in Samples, UninstallFails(s) PROVE Rest'
    BY <1>11 DEF UninstallFails
  <1>12. ASSUME NEW s \in Samples, UninstallTerminated(s) PROVE Rest'
    BY <1>12 DEF UninstallTerminated
  <1>13. ASSUME NEW s \in Samples, Cancel(s) PROVE Rest'
    BY <1>13 DEF Cancel, CancelTo, OnInstallCancelled
  <1>14. ASSUME NEW s \in Samples, HelmCreate(s) PROVE Rest'
    BY <1>14 DEF HelmCreate
  <1>15. ASSUME NEW s \in Samples, HelmReady(s) PROVE Rest'
    BY <1>15 DEF HelmReady
  <1>16. ASSUME NEW s \in Samples, HelmInstallOk(s) PROVE Rest'
    BY <1>16 DEF HelmInstallOk
  <1>17. ASSUME NEW s \in Samples, HelmInstallFails(s) PROVE Rest'
    BY <1>17 DEF HelmInstallFails
  <1>18. ASSUME NEW s \in Samples, HelmInstallTerminated(s) PROVE Rest'
    BY <1>18 DEF HelmInstallTerminated, OnInstallCancelled
  <1>19. ASSUME NEW t \in Tasks, TaskCleanup(t) PROVE Rest'
    <2>0. /\ UNCHANGED <<pc, attempt, result, cancels, installProc, release>>
          /\ \A s \in Samples : pc[s] \notin Active
      BY <1>19 DEF TaskCleanup
    <2>1. CASE tracked = {} \/ ~Cleanup
      BY <1>19, <2>0, <2>1 DEF TaskCleanup, CleanupInstructions
    <2>2. CASE ~(tracked = {} \/ ~Cleanup)
      <3>1. /\ task' = [task EXCEPT ![t] = "cleaning"]
            /\ tracked' = {} /\ reported' = reported
            /\ \A s \in Samples :
                 child'[t][s] = IF s \in tracked THEN "waiting" ELSE "none"
            /\ \A u \in Tasks \ {t} : child'[u] = child[u]
        BY <1>19, <2>2 DEF TaskCleanup, TrackedAfterTake
      <3>2. \A s \in Samples : child[t][s] = "none"
        BY <1>19 DEF TaskCleanup
      <3>3. ProcAwaited' /\ UnwindingCancelled'
        BY <2>0
      <3>4. ReleaseCoveredWith(more)'
        <4> SUFFICES ASSUME NEW s \in Samples, release[s] # "absent"
                     PROVE  \/ \E u \in Tasks : child'[u][s] \in {"waiting", "helm"} \cup more
                            \/ s \in reported
                            \/ pc[s] \in {"termInstall", "cancelWait", "cancelUninstall"}
          BY <2>0, <3>1
        <4>1. CASE s \in tracked
          BY <3>1, <4>1
        <4>2. CASE \E u \in Tasks : child[u][s] \in {"waiting", "helm"} \cup more
          BY <3>1, <3>2, <4>2
        <4> QED BY <4>1, <4>2
      <3> QED BY <3>3, <3>4
    <2> QED BY <2>1, <2>2
  <1>20. ASSUME NEW t \in Tasks, TaskCleanupDone(t) PROVE Rest'
    BY <1>20 DEF TaskCleanupDone
  <1>21. ASSUME NEW t \in Tasks, NEW s \in Samples, ChildAcquire(t, s) PROVE Rest'
    BY <1>21 DEF ChildAcquire
  <1>22. ASSUME NEW t \in Tasks, NEW s \in Samples, ChildUninstalled(t, s) PROVE Rest'
    BY <1>22 DEF ChildUninstalled
  <1>23. ASSUME NEW t \in Tasks, NEW s \in Samples, ChildFails(t, s) PROVE Rest'
    BY <1>23 DEF ChildFails
  <1>24. ASSUME UNCHANGED vars PROVE Rest'
    BY <1>24 DEF vars
  <1> HIDE DEF Rest, ListInvWith, ProcAwaited, UnwindingCancelled, ReleaseCoveredWith
  <1>25. Rest'
    BY StepCases, <1>1, <1>2, <1>3, <1>4, <1>5, <1>6, <1>7, <1>8, <1>9, <1>10, <1>11, <1>12,
       <1>13, <1>14, <1>15, <1>16, <1>17, <1>18, <1>19, <1>20, <1>21, <1>22, <1>23, <1>24
  <1> QED BY <1>0, <1>25 DEF Rest

LEMMA ReleaseInvInit == Init => ReleaseInv
BY ReleaseInvInitWith DEF ReleaseInv

LEMMA ReleaseInvStep ==
    ASSUME MaxCancels <= 1
    PROVE  ReleaseInv /\ [Next]_vars => ReleaseInv'
BY ReleaseInvStepWith DEF ReleaseInv

\* The invariant holds as long as no sample is cancelled a second time.
LEMMA ReleaseInvariant ==
    ASSUME MaxCancels <= 1
    PROVE  Spec => []ReleaseInv
BY ReleaseInvInit, ReleaseInvStep, PTL DEF Spec

-------------------------------------------------------------------------------
(* What it gives                                                           *)

\* When everything has come to rest, the list has been handed over and no child
\* or cancelled install is left to hold a release: only the operator can.
LEMMA LeakReported == ReleaseInv => NoSilentLeak
  <1> SUFFICES ASSUME ReleaseInv, Settled, NEW s \in Samples, release[s] # "absent"
               PROVE  s \in reported
    BY DEF NoSilentLeak
  <1>1. \A t \in Tasks : task[t] = "done" /\ child[t][s] \notin {"waiting", "helm"}
    BY DEF Settled, ReleaseInv, ReleaseInvWith, ListInvWith, ChildrenOfCleanup
  <1>2. tracked \subseteq reported
    BY <1>1, ReleaseAssumption DEF ReleaseInv, ReleaseInvWith, ListInvWith, ListHandedOver
  <1>3. pc[s] \notin {"termInstall", "cancelWait", "cancelUninstall"}
    BY DEF Settled, Ended
  <1> QED BY <1>1, <1>2, <1>3 DEF ReleaseInv, ReleaseInvWith, ListInvWith, ReleaseCoveredWith

\* No release outlives the eval without the operator having been told its name,
\* for every number of samples, permits and task_cleanup() calls.
THEOREM NoSilentLeakHolds ==
    ASSUME MaxCancels <= 1
    PROVE  Spec => []NoSilentLeak
BY LeakReported, ReleaseInvariant, PTL

\* A failed or interrupted uninstall never makes the manager forget a release.
THEOREM LeftoverTakenOverHolds == Spec => []LeftoverTakenOver
  <1>1. ListInvWith({}) => LeftoverTakenOver
    BY DEF ListInvWith, ReleaseOwned, LeftoverTakenOver, Ended
  <1> QED BY <1>1, ListInvariant, PTL

\* list.remove in HelmReleaseManager.uninstall never raises ValueError.
THEOREM RemoveFindsReleaseHolds == Spec => []RemoveFindsRelease
  <1>1. ListInvWith({}) => RemoveFindsRelease
    BY DEF ListInvWith, ActiveTracked, RemoveFindsRelease, Active, SamplePC,
       Ended, Unwinding, HoldsInstall, HoldsUninstall
  <1> QED BY <1>1, ListInvariant, PTL

\* The cancelled install uninstalls only after its helm process has terminated.
THEOREM InstallDeadBeforeUninstallHolds ==
    ASSUME MaxCancels <= 1
    PROVE  Spec => []InstallDeadBeforeUninstall
  <1>1. ReleaseInv => InstallDeadBeforeUninstall
    BY DEF ReleaseInv, ReleaseInvWith, ListInvWith, TypeOKWith, ProcAwaited,
       InstallDeadBeforeUninstall
  <1> QED BY <1>1, ReleaseInvariant, PTL

\* Two uninstall_all() calls never work on the same release.
THEOREM BatchesDisjointHolds == Spec => []BatchesDisjoint
  <1>1. ListInvWith({}) => BatchesDisjoint
    BY DEF ListInvWith
  <1> QED BY <1>1, ListInvariant, PTL

\* Once a sample has ended, nothing brings its uninstalled release back.
THEOREM NoResurrectionHolds ==
    ASSUME MaxCancels <= 1
    PROVE  Spec => NoResurrection
  <1> DEFINE Stays == \A s \in Samples : pc[s] \in Ended /\ release[s] = "absent"
                                            => release'[s] = "absent"
  <1>1. ReleaseInv /\ [Next]_vars => [Stays]_vars
    <2> SUFFICES ASSUME ReleaseInv, [Next]_vars, NEW r \in Samples,
                        pc[r] \in Ended, release[r] = "absent"
                 PROVE  release'[r] = "absent"
      OBVIOUS
    <2>1. ASSUME NEW s \in Samples, HelmCreate(s) PROVE release'[r] = "absent"
      <3>1. r # s
        BY <2>1 DEF HelmCreate, ReleaseInv, ReleaseInvWith, ListInvWith, TypeOKWith,
           ProcAwaited, Ended
      <3> QED BY <2>1, <3>1 DEF HelmCreate, ReleaseInv, ReleaseInvWith, ListInvWith, TypeOKWith
    <2>2. ASSUME NEW s \in Samples,
                 \/ HelmReady(s) \/ HelmInstallOk(s) \/ HelmInstallFails(s)
                 \/ HelmInstallTerminated(s) \/ SampleUninstalled(s)
                 \/ CancelUninstalled(s) \/ UninstallFails(s) \/ UninstallTerminated(s)
          PROVE release'[r] = "absent"
      BY <2>2 DEF HelmReady, HelmInstallOk, HelmInstallFails, HelmInstallTerminated,
         SampleUninstalled, CancelUninstalled, UninstallFails, UninstallTerminated,
         ReleaseInv, ReleaseInvWith, ListInvWith, TypeOKWith
    <2>3. ASSUME NEW s \in Samples,
                 \/ SampleInit(s) \/ AcquireInstall(s) \/ WatcherDone(s)
                 \/ QuotaRetry(s) \/ DiagnoseDone(s) \/ PodsListed(s)
                 \/ SampleEnd(s) \/ AcquireUninstall(s) \/ Cancel(s)
          PROVE release'[r] = "absent"
      BY <2>3 DEF SampleInit, AcquireInstall, WatcherDone, QuotaRetry, DiagnoseDone,
         PodsListed, SampleEnd, AcquireUninstall, Cancel
    <2>4. ASSUME NEW t \in Tasks, TaskCleanup(t) \/ TaskCleanupDone(t)
          PROVE release'[r] = "absent"
      BY <2>4 DEF TaskCleanup, TaskCleanupDone
    <2>5. ASSUME NEW t \in Tasks, NEW s \in Samples,
                 ChildAcquire(t, s) \/ ChildUninstalled(t, s) \/ ChildFails(t, s)
          PROVE release'[r] = "absent"
      BY <2>5 DEF ChildAcquire, ChildUninstalled, ChildFails, ReleaseInv, ReleaseInvWith,
         ListInvWith,
         TypeOKWith
    <2>6. CASE UNCHANGED vars
      BY <2>6 DEF vars
    <2> QED BY StepCases, <2>1, <2>2, <2>3, <2>4, <2>5, <2>6
  <1>2. []ReleaseInv /\ [][Next]_vars => [][Stays]_vars
    BY <1>1, PTL
  <1> QED BY <1>2, ReleaseInvariant, PTL DEF Spec, NoResurrection

-------------------------------------------------------------------------------
(* The install semaphore                                                   *)

PermitsRespected == Cardinality(InstallHolders) <= MaxInstall

\* Only an acquisition adds a holder.
LEMMA HoldersStep ==
    ASSUME TypeOK, [Next]_vars
    PROVE  \/ InstallHolders' \subseteq InstallHolders
           \/ InstallPermitFree /\ \E s \in Samples : InstallHolders' = InstallHolders \cup {s}
  <1> USE DEF TypeOK, TypeOKWith, InstallHolders, HoldsInstall
  <1>1. ASSUME NEW s \in Samples, AcquireInstall(s)
        PROVE  InstallPermitFree /\ InstallHolders' = InstallHolders \cup {s}
    BY <1>1 DEF AcquireInstall
  <1>2. ASSUME NEW s \in Samples,
               \/ WatcherDone(s) \/ QuotaRetry(s) \/ Cancel(s) \/ HelmInstallOk(s)
               \/ HelmInstallFails(s) \/ HelmInstallTerminated(s)
        PROVE  InstallHolders' \subseteq InstallHolders
    BY <1>2 DEF WatcherDone, QuotaRetry, Cancel, CancelTo, OnInstallCancelled,
       HelmInstallOk, HelmInstallFails, HelmInstallTerminated
  <1>3. ASSUME NEW s \in Samples,
               \/ SampleInit(s) \/ DiagnoseDone(s) \/ PodsListed(s) \/ SampleEnd(s)
               \/ AcquireUninstall(s) \/ CancelUninstalled(s) \/ SampleUninstalled(s)
               \/ UninstallFails(s) \/ UninstallTerminated(s)
        PROVE  InstallHolders' \subseteq InstallHolders
    BY <1>3 DEF SampleInit, DiagnoseDone, PodsListed, SampleEnd, AcquireUninstall,
       CancelUninstalled, SampleUninstalled, UninstallFails, UninstallTerminated
  <1>4. ASSUME UNCHANGED pc PROVE InstallHolders' \subseteq InstallHolders
    BY <1>4
  <1>5. ASSUME NEW s \in Samples, HelmCreate(s) \/ HelmReady(s) PROVE UNCHANGED pc
    BY <1>5 DEF HelmCreate, HelmReady
  <1>6. ASSUME NEW t \in Tasks, TaskCleanup(t) \/ TaskCleanupDone(t) PROVE UNCHANGED pc
    BY <1>6 DEF TaskCleanup, TaskCleanupDone
  <1>7. ASSUME NEW t \in Tasks, NEW s \in Samples,
               ChildAcquire(t, s) \/ ChildUninstalled(t, s) \/ ChildFails(t, s)
        PROVE  UNCHANGED pc
    BY <1>7 DEF ChildAcquire, ChildUninstalled, ChildFails
  <1>8. CASE UNCHANGED vars
    BY <1>4, <1>8 DEF vars
  <1> HIDE DEF InstallHolders
  <1> QED BY StepCases, <1>1, <1>2, <1>3, <1>4, <1>5, <1>6, <1>7, <1>8

LEMMA PermitsStep == TypeOK /\ PermitsRespected /\ [Next]_vars => PermitsRespected'
  <1> SUFFICES ASSUME TypeOK, PermitsRespected, [Next]_vars PROVE PermitsRespected'
    OBVIOUS
  <1>1. IsFiniteSet(InstallHolders)
    BY FS_Subset, ReleaseAssumption DEF InstallHolders
  <1>2. CASE InstallHolders' \subseteq InstallHolders
    <2>1. Cardinality(InstallHolders') <= Cardinality(InstallHolders)
      BY <1>1, <1>2, FS_Subset
    <2>2. IsFiniteSet(InstallHolders')
      BY <1>1, <1>2, FS_Subset
    <2>3. Cardinality(InstallHolders) \in Nat /\ Cardinality(InstallHolders') \in Nat
      BY <1>1, <2>2, FS_CardinalityType
    <2> QED BY <2>1, <2>3, ReleaseAssumption DEF PermitsRespected
  <1>3. ASSUME InstallPermitFree, NEW s \in Samples,
               InstallHolders' = InstallHolders \cup {s}
        PROVE  PermitsRespected'
    <2>1. \/ Cardinality(InstallHolders') = Cardinality(InstallHolders)
          \/ Cardinality(InstallHolders') = Cardinality(InstallHolders) + 1
      BY <1>1, <1>3, FS_AddElement
    <2>2. Cardinality(InstallHolders) \in Nat
      BY <1>1, FS_CardinalityType
    <2> QED BY <1>3, <2>1, <2>2, ReleaseAssumption DEF InstallPermitFree, PermitsRespected
  <1> QED BY HoldersStep, <1>2, <1>3

\* Live helm install processes never outnumber INSPECT_MAX_HELM_INSTALL, the
\* ones being terminated included.
THEOREM HelmInstallsBoundedHolds ==
    ASSUME MaxCancels <= 1
    PROVE  Spec => []HelmInstallsBounded
  <1>1. Init => PermitsRespected
    <2> SUFFICES ASSUME Init PROVE PermitsRespected
      OBVIOUS
    <2>1. InstallHolders = {}
      BY DEF Init, InstallHolders, HoldsInstall
    <2> QED BY <2>1, FS_EmptySet, ReleaseAssumption DEF PermitsRespected
  <1>2. ReleaseInv => TypeOK
    BY DEF ReleaseInv, ReleaseInvWith, ListInvWith, TypeOK
  <1>3. ReleaseInv /\ PermitsRespected => HelmInstallsBounded
    <2> SUFFICES ASSUME ReleaseInv, PermitsRespected PROVE HelmInstallsBounded
      OBVIOUS
    <2> DEFINE Live == {s \in Samples : installProc[s] # "none"}
    <2>1. Live \subseteq InstallHolders
      BY DEF ReleaseInv, ReleaseInvWith, ListInvWith, TypeOKWith, ProcAwaited, InstallHolders,
         HoldsInstall
    <2>2. IsFiniteSet(InstallHolders)
      BY FS_Subset, ReleaseAssumption DEF InstallHolders
    <2>3. Cardinality(Live) <= Cardinality(InstallHolders) /\ IsFiniteSet(Live)
      BY <2>1, <2>2, FS_Subset
    <2>4. Cardinality(Live) \in Nat /\ Cardinality(InstallHolders) \in Nat
      BY <2>2, <2>3, FS_CardinalityType
    <2>5. Cardinality(Live) <= MaxInstall
      BY <2>3, <2>4, ReleaseAssumption DEF PermitsRespected
    <2> QED BY <2>5 DEF HelmInstallsBounded
  <1> QED BY <1>1, <1>2, <1>3, PermitsStep, ReleaseInvariant, PTL DEF Spec

-------------------------------------------------------------------------------
(* Refinement of ReleaseCustody                                            *)

\* The part of ChildrenOfCleanup that does not depend on the number of cancels.
ChildrenWhileCleaning ==
    \A t \in Tasks : \A s \in Samples :
        child[t][s] \in {"waiting", "helm"} => task[t] = "cleaning"

\* Once everything has come to rest, nothing happens any more.
LEMMA SettledStays ==
    ASSUME ChildrenWhileCleaning, Settled, [Next]_vars
    PROVE  UNCHANGED vars
  <1>1. \A t \in Tasks : task[t] = "done"
    BY DEF Settled
  <1>2. \A s \in Samples : pc[s] \in Ended \cup {"idle"} /\ installProc[s] = "none"
    BY DEF Settled
  <1>3. PICK u \in Tasks : TRUE
    BY ReleaseAssumption
  <1>4. ASSUME NEW s \in Samples PROVE ~SampleStep(s)
    BY <1>1, <1>2, <1>3 DEF SampleStep, Ended, SampleInit, AcquireInstall, WatcherDone,
       QuotaRetry, DiagnoseDone, PodsListed, SampleEnd, AcquireUninstall, CancelUninstalled,
       SampleUninstalled, UninstallFails, UninstallTerminated, Cancel
  <1>5. ASSUME NEW s \in Samples PROVE ~HelmStep(s)
    BY <1>2 DEF HelmStep, Ended, HelmCreate, HelmReady, HelmInstallOk, HelmInstallFails,
       HelmInstallTerminated
  <1>6. ASSUME NEW t \in Tasks PROVE ~TaskStep(t)
    BY <1>1 DEF TaskStep, TaskCleanup, TaskCleanupDone, ChildAcquire, ChildUninstalled,
       ChildFails, ChildrenWhileCleaning
  <1> QED BY <1>4, <1>5, <1>6 DEF Next, EvalOver

\* A set that agrees with B but for s, which it may only have lost.
LEMMA AtMostLost ==
    ASSUME NEW U, NEW A \in SUBSET U, NEW B \in SUBSET U, NEW s \in U,
           \A r \in U \ {s} : r \in A <=> r \in B, s \in A => s \in B
    PROVE  A \in {B, B \ {s}}
  <1>1. CASE s \in A
    <2>1. A = B
      BY <1>1
    <2> QED BY <2>1
  <1>2. CASE s \notin A
    <2>1. A = B \ {s}
      BY <1>2
    <2> QED BY <2>1
  <1> QED BY <1>1, <1>2

\* The effect of a step on who answers for which release: one of the steps of the
\* contract, where letting nobody know (Tell({})) is a step that changes nothing.
CustodyEffect ==
    \/ \E r \in Samples : Custody!Take(r) \/ Custody!Create(r) \/ Custody!Remove(r)
    \/ \E S \in SUBSET Samples : Custody!Tell(S)

\* A step that moves no release between the cluster, the holders and the operator.
LEMMA NothingMoves ==
    ASSUME InCluster' = InCluster, Held' = Held, reported' = reported
    PROVE  CustodyEffect
  <1>1. Custody!Tell({})
    BY DEF Custody!Tell
  <1> QED BY <1>1 DEF CustodyEffect

LEMMA EffectOfStep ==
    ASSUME MaxCancels <= 1, ReleaseInv, [Next]_vars
    PROVE  CustodyEffect
  <1> USE DEF ReleaseInv, ReleaseInvWith, ListInvWith, TypeOKWith
  <1>1. ASSUME NEW s \in Samples, SampleInit(s) PROVE CustodyEffect
    <2>1. InCluster' = InCluster /\ Held' = Held \cup {s} /\ reported' = reported
      BY <1>1 DEF SampleInit, InCluster, Held
    <2>2. Custody!Take(s)
      BY <2>1 DEF Custody!Take
    <2> QED BY <2>2 DEF CustodyEffect
  <1>2. ASSUME NEW s \in Samples,
               \/ AcquireInstall(s) \/ WatcherDone(s) \/ QuotaRetry(s) \/ DiagnoseDone(s)
               \/ PodsListed(s) \/ SampleEnd(s) \/ AcquireUninstall(s)
        PROVE  CustodyEffect
    <2>1. InCluster' = InCluster /\ reported' = reported
      BY <1>2 DEF AcquireInstall, WatcherDone, QuotaRetry, DiagnoseDone, PodsListed,
         SampleEnd, AcquireUninstall, InCluster
    <2>2. Held' = Held
      BY <1>2 DEF AcquireInstall, WatcherDone, AfterInstall, QuotaRetry, DiagnoseDone,
         PodsListed, SampleEnd, AcquireUninstall, Held
    <2> QED BY <2>1, <2>2, NothingMoves
  <1>3. ASSUME NEW s \in Samples, CancelUninstalled(s) \/ SampleUninstalled(s)
        PROVE  CustodyEffect
    <2>1. InCluster' = InCluster \ {s} /\ reported' = reported
      BY <1>3 DEF CancelUninstalled, SampleUninstalled, InCluster
    <2>2. Held' \in {Held, Held \ {s}}
      <3>1. \A r \in Samples \ {s} : r \in Held' <=> r \in Held
        BY <1>3 DEF CancelUninstalled, SampleUninstalled, Held
      <3>2. s \in Held' => s \in Held
        BY <1>3 DEF CancelUninstalled, SampleUninstalled, Held
      <3>3. Held \subseteq Samples /\ Held' \subseteq Samples
        BY DEF Held
      <3> QED BY <3>1, <3>2, <3>3, AtMostLost
    <2>3. Custody!Remove(s)
      BY <2>1, <2>2 DEF Custody!Remove
    <2> QED BY <2>3 DEF CustodyEffect
  <1>4. ASSUME NEW s \in Samples, UninstallFails(s) PROVE CustodyEffect
    <2>1. InCluster' = InCluster /\ reported' = reported \cup {s}
      BY <1>4 DEF UninstallFails, InCluster
    <2>2. Held' \subseteq Held /\ Held \ {s} \subseteq Held'
      BY <1>4 DEF UninstallFails, Held
    <2>3. Custody!Tell({s})
      BY <2>1, <2>2 DEF Custody!Tell
    <2> QED BY <2>3 DEF CustodyEffect
  <1>5. ASSUME NEW s \in Samples, UninstallTerminated(s) PROVE CustodyEffect
    <2>1. Held' = Held /\ reported' = reported
      BY <1>5 DEF UninstallTerminated, Held
    <2>2. InCluster' = InCluster \/ InCluster' = InCluster \ {s}
      <3>1. PICK r \in {release[s], "absent"} : release' = [release EXCEPT ![s] = r]
        BY <1>5 DEF UninstallTerminated
      <3>2. CASE r = release[s]
        BY <3>1, <3>2 DEF InCluster
      <3>3. CASE r = "absent"
        BY <3>1, <3>3 DEF InCluster
      <3> QED BY <3>2, <3>3
    <2>3. CASE InCluster' = InCluster
      BY <2>1, <2>3, NothingMoves
    <2>4. CASE InCluster' = InCluster \ {s}
      <3>1. Custody!Remove(s)
        BY <2>1, <2>4 DEF Custody!Remove
      <3> QED BY <3>1 DEF CustodyEffect
    <2> QED BY <2>2, <2>3, <2>4
  <1>6. ASSUME NEW s \in Samples, Cancel(s) PROVE CustodyEffect
    <2>1. InCluster' = InCluster /\ reported' = reported
      BY <1>6 DEF Cancel, InCluster
    <2>2. s \in tracked
      <3>1. pc[s] \notin Unwinding
        BY <1>6, ReleaseAssumption DEF Cancel, UnwindingCancelled
      <3> QED BY <1>6, <3>1 DEF Cancel, ActiveTracked, Active
    <2>3. Held' = Held
      BY <1>6, <2>2 DEF Cancel, Held
    <2> QED BY <2>1, <2>3, NothingMoves
  <1>7. ASSUME NEW s \in Samples, HelmCreate(s) PROVE CustodyEffect
    <2>1. InCluster' = InCluster \cup {s} /\ Held' = Held /\ reported' = reported
      BY <1>7 DEF HelmCreate, InCluster, Held
    <2>2. pc[s] = "installing" \/ pc[s] = "termInstall"
      BY <1>7 DEF HelmCreate, ProcAwaited
    <2>3. s \in Held
      BY <2>2 DEF Held, ActiveTracked, Active, Ended, Unwinding, SamplePC, HoldsInstall
    <2>4. Custody!Create(s)
      BY <2>1, <2>3 DEF Custody!Create
    <2> QED BY <2>4 DEF CustodyEffect
  <1>8. ASSUME NEW s \in Samples,
               \/ HelmReady(s) \/ HelmInstallOk(s) \/ HelmInstallFails(s)
               \/ HelmInstallTerminated(s)
        PROVE  CustodyEffect
    <2>1. InCluster' = InCluster /\ reported' = reported
      BY <1>8 DEF HelmReady, HelmInstallOk, HelmInstallFails, HelmInstallTerminated, InCluster
    <2>2. Held' = Held
      BY <1>8 DEF HelmReady, HelmInstallOk, HelmInstallFails, HelmInstallTerminated,
         OnInstallCancelled, Held
    <2> QED BY <2>1, <2>2, NothingMoves
  <1>9. ASSUME NEW t \in Tasks, TaskCleanup(t) PROVE CustodyEffect
    <2>0. InCluster' = InCluster /\ UNCHANGED pc
      BY <1>9 DEF TaskCleanup, InCluster
    <2>1. CASE tracked = {} \/ ~Cleanup
      <3>1. Held' = Held /\ reported' = reported \cup tracked
        BY <1>9, <2>1 DEF TaskCleanup, CleanupInstructions, Held
      <3>2. Custody!Tell(tracked)
        BY <2>0, <3>1 DEF Custody!Tell
      <3> QED BY <3>2 DEF CustodyEffect
    <2>2. CASE ~(tracked = {} \/ ~Cleanup)
      <3>1. /\ tracked' = {} /\ reported' = reported
            /\ \A s \in Samples :
                 child'[t][s] = IF s \in tracked THEN "waiting" ELSE "none"
            /\ \A u \in Tasks \ {t} : child'[u] = child[u]
            /\ \A s \in Samples : child[t][s] = "none"
        BY <1>9, <2>2 DEF TaskCleanup, TrackedAfterTake, ChildrenOfCleanup
      <3>2. ASSUME NEW s \in Samples
            PROVE  (\E u \in Tasks : child'[u][s] \in {"waiting", "helm"}) <=>
                     s \in tracked \/ \E u \in Tasks : child[u][s] \in {"waiting", "helm"}
        <4>1. \A u \in Tasks : child'[u][s] \in {"waiting", "helm"} <=>
                (u = t /\ s \in tracked) \/ child[u][s] \in {"waiting", "helm"}
          BY <3>1
        <4> QED BY <4>1
      <3>3. Held' = Held
        BY <2>0, <3>1, <3>2 DEF Held
      <3> QED BY <2>0, <3>1, <3>3, NothingMoves
    <2> QED BY <2>1, <2>2
  <1>10. ASSUME NEW t \in Tasks, TaskCleanupDone(t) PROVE CustodyEffect
    <2> DEFINE Failed == {s \in Samples : child[t][s] = "failed"}
    <2>1. InCluster' = InCluster /\ Held' = Held /\ reported' = reported \cup Failed
      BY <1>10 DEF TaskCleanupDone, InCluster, Held
    <2>2. Custody!Tell(Failed)
      BY <2>1 DEF Custody!Tell
    <2> HIDE DEF Failed
    <2>3. Failed \in SUBSET Samples
      BY DEF Failed
    <2> QED BY <2>2, <2>3 DEF CustodyEffect
  <1>11. ASSUME NEW t \in Tasks, NEW s \in Samples, ChildAcquire(t, s) PROVE CustodyEffect
    <2>1. \A u \in Tasks, r \in Samples :
            child'[u][r] \in {"waiting", "helm"} <=> child[u][r] \in {"waiting", "helm"}
      BY <1>11 DEF ChildAcquire
    <2>2. InCluster' = InCluster /\ Held' = Held /\ reported' = reported
      BY <1>11, <2>1 DEF ChildAcquire, InCluster, Held
    <2> QED BY <2>2, NothingMoves
  <1>12. ASSUME NEW t \in Tasks, NEW s \in Samples, ChildUninstalled(t, s) \/ ChildFails(t, s)
         PROVE  CustodyEffect
    <2>1. \A u \in Tasks : \A r \in Samples \ {s} : child'[u][r] = child[u][r]
      BY <1>12 DEF ChildUninstalled, ChildFails
    <2>2. UNCHANGED <<pc, tracked>> /\ s \in Held
      BY <1>12 DEF ChildUninstalled, ChildFails, Held
    <2>3. Held \subseteq Samples /\ Held' \subseteq Samples
      BY DEF Held
    <2>4. \A r \in Samples \ {s} : r \in Held' <=> r \in Held
      BY <2>1, <2>2 DEF Held
    <2>5. Held' \in {Held, Held \ {s}}
      BY <2>2, <2>3, <2>4, AtMostLost
    <2>6. CASE ChildUninstalled(t, s)
      <3>1. InCluster' = InCluster \ {s} /\ reported' = reported
        BY <2>6 DEF ChildUninstalled, InCluster
      <3>2. Custody!Remove(s)
        BY <2>5, <3>1 DEF Custody!Remove
      <3> QED BY <3>2 DEF CustodyEffect
    <2>7. CASE ChildFails(t, s)
      <3>1. InCluster' = InCluster /\ reported' = reported \cup {s}
        BY <2>7 DEF ChildFails, InCluster
      <3>2. Custody!Tell({s})
        BY <2>5, <3>1 DEF Custody!Tell
      <3> QED BY <3>2 DEF CustodyEffect
    <2> QED BY <1>12, <2>6, <2>7
  <1>13. CASE UNCHANGED vars
    <2>1. InCluster' = InCluster /\ Held' = Held /\ reported' = reported
      BY <1>13 DEF vars, InCluster, Held
    <2> QED BY <2>1, NothingMoves
  <1> QED
    BY StepCases, <1>1, <1>2, <1>3, <1>4, <1>5, <1>6, <1>7, <1>8, <1>9, <1>10, <1>11, <1>12, <1>13

\* ReleaseLifecycle implements ReleaseCustody: a release is only ever created while
\* the eval holds it, is let go of only when it is gone or the operator has been
\* told, and the eval ends only when the operator knows of what is left
\* (HelmReleaseManager), for every number of samples and task_cleanup() calls.
THEOREM KeepsCustodyHolds ==
    ASSUME MaxCancels <= 1
    PROVE  Spec => KeepsCustody
  <1>1. Init => Custody!Init
    <2> SUFFICES ASSUME Init PROVE Custody!Init
      OBVIOUS
    <2>1. InCluster = {} /\ Held = {} /\ reported = {}
      BY DEF Init, InCluster, Held
    <2>2. Settled = FALSE
      BY ReleaseAssumption DEF Init, Settled
    <2> QED BY <2>1, <2>2 DEF Custody!Init
  <1>2. ReleaseInv /\ ReleaseInv' /\ [Next]_vars => [Custody!Next]_(Custody!custody)
    <2> SUFFICES ASSUME ReleaseInv, ReleaseInv', [Next]_vars
                 PROVE  [Custody!Next]_(Custody!custody)
      OBVIOUS
    <2>1. CASE Settled
      <3>1. UNCHANGED vars
        BY <2>1, SettledStays
        DEF ReleaseInv, ReleaseInvWith, ListInvWith, ChildrenOfCleanup, ChildrenWhileCleaning
      <3>2. UNCHANGED <<InCluster, Held, reported, Settled>>
        BY <3>1 DEF vars, InCluster, Held, Settled
      <3> QED BY <3>2 DEF Custody!custody
    <2>2. CASE ~Settled
      <3>1. CustodyEffect
        BY EffectOfStep
      <3>2. NoSilentLeak'
        BY LeakReported, PTL
      <3>3. Custody!MayEnd
        BY <3>2 DEF NoSilentLeak, InCluster, Settled, Custody!MayEnd
      <3> QED BY <2>2, <3>1, <3>3 DEF CustodyEffect, Custody!Next
    <2> QED BY <2>1, <2>2
  <1> QED
    BY <1>1, <1>2, ReleaseInvariant, PTL DEF Spec, KeepsCustody, Custody!Spec

-------------------------------------------------------------------------------
(* EvalFaults: the eval's death, its operators and the cleanup command.     *)

Interrupted == {"interrupted"}

CliTypeOK ==
    /\ phase \in [Cleaners -> {"idle", "confirm", "uninstallAll", "uninstallOne",
                               "complete", "noneFound", "declined", "removed", "failures",
                               "raised"}]
    /\ names \in [Cleaners -> SUBSET Samples]
    /\ work \in [Cleaners -> [Samples -> {"none", "waiting", "helm", "ok", "failed"}]]
    /\ context \in [Cleaners -> {"current", "other"}]
    /\ calm \in [Cleaners -> BOOLEAN]

FaultTypeOK == TypeOKWith(Interrupted) /\ ChildrenWhileCleaning /\ CliTypeOK

\* What is known of a command while it runs and when it has ended.  `ok` of an
\* uninstall says that a release of its context is gone only for a calm cluster,
\* where nothing brings it back; the list of a calm cluster is complete only if
\* helm lists pending releases; and the one release of an instruction is looked
\* for in its own context only if the instruction names that, or there is one.
CommandSound(c) ==
    /\ phase[c] = "idle" => \A r \in Samples : work[c][r] = "none"
    /\ phase[c] \in {"uninstallAll", "uninstallOne", "complete", "removed"} =>
          \A r \in names[c] : work[c][r] # "none"
    /\ phase[c] \in {"complete", "removed"} => \A r \in Samples : work[c][r] \in {"none", "ok"}
    /\ calm[c] => \A r \in Cli!Reachable(c) : work[c][r] = "ok" => release[r] = "absent"
    /\ ListsPending /\ calm[c] /\ phase[c] \in {"confirm", "uninstallAll", "complete"} =>
          \A r \in Cli!Reachable(c) : release[r] # "absent" => r \in names[c]
    /\ (Cleanup \/ OtherContext = {}) /\ phase[c] \in {"uninstallOne", "removed"} =>
          names[c] \subseteq Cli!Reachable(c)

\* A command that began in a calm cluster runs in a calm cluster.
StillCalm == \A c \in Cleaners : calm[c] => Calm

CleanupInv == FaultTypeOK /\ StillCalm /\ \A c \in Cleaners : CommandSound(c)

\* A step of the eval process, of its orphans, or stuttering: the commands do not
\* take part.
WithoutCommands == UNCHANGED <<cliVars, calm>>

-------------------------------------------------------------------------------
(* Types                                                                   *)

LEMMA FaultTypeInit == FaultInit => FaultTypeOK
  <1> SUFFICES ASSUME FaultInit PROVE FaultTypeOK
    OBVIOUS
  <1>1. TypeOKWith(Interrupted)
    BY TypeInitWith DEF FaultInit
  <1>2. ChildrenWhileCleaning
    BY DEF FaultInit, Init, ChildrenWhileCleaning
  <1>3. calm \in [Cleaners -> BOOLEAN]
    BY Zenon DEF FaultInit
  <1>4. CliTypeOK
    BY <1>3 DEF FaultInit, Cli!CliInit, Cli!Idle, CliTypeOK
  <1> QED BY <1>1, <1>2, <1>4 DEF FaultTypeOK

\* The children of an uninstall_all() that is over have all ended.
LEMMA ChildrenStep ==
    ASSUME NEW more, TypeOKWith(more), ChildrenWhileCleaning, [Next]_vars
    PROVE  ChildrenWhileCleaning'
  <1> USE DEF TypeOKWith, ChildrenWhileCleaning
  <1>1. ASSUME NEW t \in Tasks, TaskCleanup(t) PROVE ChildrenWhileCleaning'
    <2>1. CASE tracked = {} \/ ~Cleanup
      BY <1>1, <2>1 DEF TaskCleanup
    <2>2. CASE ~(tracked = {} \/ ~Cleanup)
      BY <1>1, <2>2 DEF TaskCleanup
    <2> QED BY <2>1, <2>2
  <1>2. ASSUME NEW t \in Tasks, TaskCleanupDone(t) PROVE ChildrenWhileCleaning'
    BY <1>2 DEF TaskCleanupDone
  <1>3. ASSUME NEW t \in Tasks, NEW s \in Samples,
               ChildAcquire(t, s) \/ ChildUninstalled(t, s) \/ ChildFails(t, s)
        PROVE  ChildrenWhileCleaning'
    BY <1>3 DEF ChildAcquire, ChildUninstalled, ChildFails
  <1>4. CASE UNCHANGED <<task, child>>
    BY <1>4
  <1>5. ASSUME NEW s \in Samples,
               \/ SampleInit(s) \/ AcquireInstall(s) \/ WatcherDone(s) \/ QuotaRetry(s)
               \/ DiagnoseDone(s) \/ PodsListed(s) \/ SampleEnd(s) \/ AcquireUninstall(s)
               \/ CancelUninstalled(s) \/ SampleUninstalled(s) \/ UninstallFails(s)
               \/ UninstallTerminated(s) \/ Cancel(s)
        PROVE  UNCHANGED <<task, child>>
    BY <1>5 DEF SampleInit, AcquireInstall, WatcherDone, QuotaRetry, DiagnoseDone, PodsListed,
       SampleEnd, AcquireUninstall, CancelUninstalled, SampleUninstalled, UninstallFails,
       UninstallTerminated, Cancel
  <1>6. ASSUME NEW s \in Samples,
               \/ HelmCreate(s) \/ HelmReady(s) \/ HelmInstallOk(s) \/ HelmInstallFails(s)
               \/ HelmInstallTerminated(s)
        PROVE  UNCHANGED <<task, child>>
    BY <1>6 DEF HelmCreate, HelmReady, HelmInstallOk, HelmInstallFails, HelmInstallTerminated
  <1>7. UNCHANGED vars => UNCHANGED <<task, child>>
    BY DEF vars
  <1> QED BY StepCases, <1>1, <1>2, <1>3, <1>4, <1>5, <1>6, <1>7

\* The faults and the orphans keep the types.
LEMMA FaultTypeStep ==
    ASSUME FaultTypeOK, WithoutCommands,
           \/ EvalRuns \/ Crash \/ OrphanRuns
           \/ \E s \in Samples : OrphanExits(s) \/ OrphanUninstalls(s)
           \/ \E t \in Tasks : InterruptCleanup(t)
    PROVE  FaultTypeOK'
  <1> USE DEF FaultTypeOK
  <1>0. CliTypeOK'
    BY DEF WithoutCommands, cliVars, CliTypeOK
  <1>1. CASE EvalRuns
    BY <1>0, <1>1, TypeStepWith, ChildrenStep DEF EvalRuns
  <1>2. CASE Crash
    BY <1>0, <1>2 DEF Crash, TypeOKWith, ChildrenWhileCleaning
  <1>3. CASE OrphanRuns
    BY <1>0, <1>3 DEF OrphanRuns, HelmCreate, HelmReady, TypeOKWith, ChildrenWhileCleaning
  <1>4. ASSUME NEW s \in Samples, OrphanExits(s) PROVE FaultTypeOK'
    BY <1>0, <1>4 DEF OrphanExits, TypeOKWith, ChildrenWhileCleaning
  <1>5. ASSUME NEW s \in Samples, OrphanUninstalls(s) PROVE FaultTypeOK'
    <2>1. child' = [t \in Tasks |-> [child[t] EXCEPT ![s] = IF @ = "helm" THEN "ok" ELSE @]]
      BY <1>5 DEF OrphanUninstalls
    <2>2. child' \in [Tasks -> [Samples ->
                        {"none", "waiting", "helm", "ok", "failed"} \cup Interrupted]]
      BY <2>1 DEF TypeOKWith
    <2>3. pc' \in [Samples -> SamplePC] /\ release' \in
            [Samples -> {"absent", "pending", "deployed", "failed"}]
      BY <1>5 DEF OrphanUninstalls, TypeOKWith, SamplePC, Ended
    <2>4. TypeOKWith(Interrupted)'
      BY <1>5, <2>2, <2>3 DEF OrphanUninstalls, TypeOKWith
    <2>5. \A t \in Tasks : \A r \in Samples :
            child'[t][r] \in {"waiting", "helm"} => child[t][r] \in {"waiting", "helm"}
      BY <2>1 DEF TypeOKWith
    <2>6. ChildrenWhileCleaning'
      BY <1>5, <2>5 DEF OrphanUninstalls, ChildrenWhileCleaning
    <2> QED BY <1>0, <2>4, <2>6
  <1>6. ASSUME NEW t \in Tasks, InterruptCleanup(t) PROVE FaultTypeOK'
    <2>1. /\ \A s \in Samples : child'[t][s] =
               IF child[t][s] \in {"waiting", "helm"} THEN "interrupted" ELSE child[t][s]
          /\ \A u \in Tasks \ {t} : child'[u] = child[u]
          /\ child' \in [Tasks -> [Samples ->
                          {"none", "waiting", "helm", "ok", "failed"} \cup Interrupted]]
      BY <1>6 DEF InterruptCleanup, TypeOKWith, Interrupted
    <2>2. task' \in [Tasks -> {"running", "cleaning", "done"}]
          /\ \A u \in Tasks \ {t} : task'[u] = task[u]
      BY <1>6 DEF InterruptCleanup, TypeOKWith
    <2>3. release' \in [Samples -> {"absent", "pending", "deployed", "failed"}]
      BY <1>6 DEF InterruptCleanup, TypeOKWith
    <2>4. TypeOKWith(Interrupted)'
      BY <1>6, <2>1, <2>2, <2>3 DEF InterruptCleanup, TypeOKWith
    <2>5. ChildrenWhileCleaning'
      BY <2>1, <2>2 DEF ChildrenWhileCleaning
    <2> QED BY <1>0, <2>4, <2>5
  <1> QED BY <1>1, <1>2, <1>3, <1>4, <1>5, <1>6

-------------------------------------------------------------------------------
(* A calm cluster                                                          *)

\* Calm lasts, and in a calm cluster no release comes back: the eval that has
\* ended does nothing more, and no orphan of one that died is left to install.
LEMMA CalmStep ==
    ASSUME FaultTypeOK, Calm,
           \/ EvalRuns \/ Crash \/ OrphanRuns
           \/ \E s \in Samples : OrphanExits(s) \/ OrphanUninstalls(s)
           \/ \E t \in Tasks : InterruptCleanup(t)
    PROVE  Calm' /\ \A s \in Samples : release[s] = "absent" => release'[s] = "absent"
  <1> USE DEF FaultTypeOK, TypeOKWith
  <1>1. CASE EvalRuns
    <2>1. alive /\ Settled
      BY <1>1 DEF EvalRuns, Calm
    <2>2. UNCHANGED vars
      BY <1>1, <2>1, SettledStays DEF EvalRuns
    <2> QED BY <1>1, <2>2 DEF EvalRuns, vars, Calm, Settled
  <1>2. CASE Crash
    BY <1>2 DEF Crash, Calm
  <1>3. CASE OrphanRuns
    BY <1>3 DEF OrphanRuns, Calm, HelmCreate, HelmReady
  <1>4. ASSUME NEW s \in Samples, OrphanExits(s) PROVE FALSE
    BY <1>4 DEF OrphanExits, Calm
  <1>5. ASSUME NEW s \in Samples, OrphanUninstalls(s)
        PROVE  Calm' /\ \A r \in Samples : release[r] = "absent" => release'[r] = "absent"
    BY <1>5 DEF OrphanUninstalls, Calm
  <1>6. ASSUME NEW t \in Tasks, InterruptCleanup(t) PROVE FALSE
    BY <1>6 DEF InterruptCleanup, Calm, Settled
  <1> QED BY <1>1, <1>2, <1>3, <1>4, <1>5, <1>6

\* What is known of a command survives whatever leaves the command alone and
\* brings no release back.
LEMMA KeptSound ==
    ASSUME NEW c \in Cleaners, CommandSound(c),
           phase'[c] = phase[c], names'[c] = names[c], work'[c] = work[c],
           context'[c] = context[c], calm'[c] = calm[c],
           calm[c] => \A s \in Samples : release[s] = "absent" => release'[s] = "absent",
           OtherContext \subseteq Samples
    PROVE  CommandSound(c)'
  <1>1. Cli!Reachable(c)' = Cli!Reachable(c) /\ Cli!Reachable(c) \subseteq Samples
    BY DEF Cli!Reachable
  <1> QED BY <1>1 DEF CommandSound

-------------------------------------------------------------------------------
(* The steps of a command                                                  *)

\* A step of command c keeps the types, brings no release back and leaves the
\* other commands alone.
CommandStepOK(c) ==
    /\ phase' \in [Cleaners -> {"idle", "confirm", "uninstallAll", "uninstallOne",
                                "complete", "noneFound", "declined", "removed", "failures",
                                "raised"}]
    /\ names' \in [Cleaners -> SUBSET Samples]
    /\ work' \in [Cleaners -> [Samples -> {"none", "waiting", "helm", "ok", "failed"}]]
    /\ context' \in [Cleaners -> {"current", "other"}]
    /\ release' \in [Samples -> {"absent", "pending", "deployed", "failed"}]
    /\ \A s \in Samples : release[s] = "absent" => release'[s] = "absent"
    /\ \A d \in Cleaners \ {c} :
          /\ phase'[d] = phase[d] /\ names'[d] = names[d]
          /\ work'[d] = work[d] /\ context'[d] = context[d]

\* The actions of one command, FollowInstruction's included.
LEMMA CommandCases ==
    ASSUME NEW c \in Cleaners, CliRuns(c)
    PROVE  \/ Cli!ListNames(c) \/ Cli!ListFails(c) \/ Cli!Confirm(c) \/ Cli!Decline(c)
           \/ Cli!Gathered(c) \/ Cli!Again(c)
           \/ \E r \in Samples :
                 \/ Cli!StartUninstall(c, r) \/ Cli!Uninstalled(c, r)
                 \/ Cli!UninstallError(c, r)
                 \/ Cli!CleanupOne(c, r, InstructedContext(r))
BY DEF CliRuns, Cli!CliStep, FollowInstruction

LEMMA CommandTypes ==
    ASSUME FaultTypeOK, NEW c \in Cleaners, CliRuns(c)
    PROVE  CommandStepOK(c)
  <1> USE FaultAssumption DEF FaultTypeOK, TypeOKWith, CliTypeOK, CommandStepOK
  <1>1. CASE Cli!ListNames(c)
    BY <1>1 DEF Cli!ListNames, Cli!Visible, Cli!Reachable
  <1>2. CASE Cli!ListFails(c) \/ Cli!Decline(c) \/ Cli!Gathered(c)
    BY <1>2 DEF Cli!ListFails, Cli!Decline, Cli!Gathered, Cli!Exit
  <1>3. CASE Cli!Confirm(c)
    BY <1>3 DEF Cli!Confirm
  <1>4. CASE Cli!Again(c)
    BY <1>4 DEF Cli!Again, Cli!Idle
  <1>5. ASSUME NEW r \in Samples, Cli!StartUninstall(c, r) PROVE CommandStepOK(c)
    BY <1>5 DEF Cli!StartUninstall
  <1>6. ASSUME NEW r \in Samples, Cli!Uninstalled(c, r) PROVE CommandStepOK(c)
    BY <1>6 DEF Cli!Uninstalled
  <1>7. ASSUME NEW r \in Samples, Cli!UninstallError(c, r) PROVE CommandStepOK(c)
    BY <1>7 DEF Cli!UninstallError
  <1>8. ASSUME NEW r \in Samples, Cli!CleanupOne(c, r, InstructedContext(r))
        PROVE  CommandStepOK(c)
    BY <1>8 DEF Cli!CleanupOne, InstructedContext
  <1> QED BY <1>1, <1>2, <1>3, <1>4, <1>5, <1>6, <1>7, <1>8, CommandCases

\* Nothing but `calm` and the cluster changes for the eval.
LEMMA CommandKeepsCalm ==
    ASSUME NEW c \in Cleaners, CliRuns(c)
    PROVE  Calm' = Calm
BY DEF CliRuns, Calm, Settled

LEMMA CommandFaultTypes ==
    ASSUME FaultTypeOK, NEW c \in Cleaners, CliRuns(c)
    PROVE  FaultTypeOK'
  <1>1. CommandStepOK(c)
    BY CommandTypes
  <1>2. calm' = [calm EXCEPT ![c] = IF phase[c] = "idle" THEN Calm ELSE @]
        /\ calm \in [Cleaners -> BOOLEAN]
    BY DEF CliRuns, FaultTypeOK, CliTypeOK
  <1>3. Calm \in BOOLEAN
    BY DEF Calm
  <1>4. calm' \in [Cleaners -> BOOLEAN]
    BY <1>2, <1>3, Zenon
  <1>5. CliTypeOK'
    BY <1>1, <1>4 DEF CommandStepOK, CliTypeOK
  <1>6. TypeOKWith(Interrupted)' /\ ChildrenWhileCleaning'
    BY <1>1 DEF CliRuns, CommandStepOK, FaultTypeOK, TypeOKWith, ChildrenWhileCleaning
  <1> QED BY <1>5, <1>6 DEF FaultTypeOK

\* The command itself: it lists every release of its context, uninstalls all it
\* listed, and ends well only if every uninstall did.
LEMMA CommandStepSound ==
    ASSUME FaultTypeOK, NEW c \in Cleaners, CommandSound(c), CliRuns(c),
           calm'[c] = IF phase[c] = "idle" THEN Calm ELSE calm[c]
    PROVE  CommandSound(c)'
  <1> USE FaultAssumption DEF FaultTypeOK, TypeOKWith, CliTypeOK
  <1>1. CASE Cli!ListNames(c)
    <2>1. Cli!Reachable(c)' = Cli!Reachable(c) /\ Cli!Reachable(c) \subseteq Samples
      BY <1>1 DEF Cli!ListNames, Cli!Reachable
    <2>2. /\ phase'[c] \in {"noneFound", "confirm"} /\ names'[c] = Cli!Visible(c)
          /\ work' = work /\ release' = release
          /\ \A r \in Samples : work[c][r] = "none"
      BY <1>1 DEF Cli!ListNames, CommandSound
    <2>3. ListsPending => \A r \in Cli!Reachable(c) : release[r] # "absent" => r \in Cli!Visible(c)
      BY <2>1 DEF Cli!Visible, Cli!Shown
    <2> QED BY <2>1, <2>2, <2>3 DEF CommandSound
  <1>2. CASE Cli!ListFails(c)
    BY <1>2 DEF Cli!ListFails, CommandSound, Cli!Reachable
  <1>3. CASE Cli!Decline(c)
    BY <1>3 DEF Cli!Decline, CommandSound, Cli!Reachable
  <1>4. CASE Cli!Confirm(c)
    BY <1>4 DEF Cli!Confirm, CommandSound, Cli!Reachable
  <1>5. CASE Cli!Gathered(c)
    BY <1>5 DEF Cli!Gathered, Cli!Exit, Cli!Failed, CommandSound, Cli!Reachable
  <1>6. CASE Cli!Again(c)
    BY <1>6 DEF Cli!Again, Cli!Idle, CommandSound, Cli!Reachable
  <1>7. ASSUME NEW r \in Samples, Cli!StartUninstall(c, r) PROVE CommandSound(c)'
    BY <1>7 DEF Cli!StartUninstall, CommandSound, Cli!Reachable
  <1>8. ASSUME NEW r \in Samples, Cli!Uninstalled(c, r) PROVE CommandSound(c)'
    BY <1>8 DEF Cli!Uninstalled, CommandSound, Cli!Reachable
  <1>9. ASSUME NEW r \in Samples, Cli!UninstallError(c, r) PROVE CommandSound(c)'
    BY <1>9 DEF Cli!UninstallError, CommandSound, Cli!Reachable
  <1>10. ASSUME NEW r \in Samples, Cli!CleanupOne(c, r, InstructedContext(r))
         PROVE  CommandSound(c)'
    BY <1>10 DEF Cli!CleanupOne, InstructedContext, CommandSound, Cli!Reachable
  <1> QED BY <1>1, <1>2, <1>3, <1>4, <1>5, <1>6, <1>7, <1>8, <1>9, <1>10, CommandCases

-------------------------------------------------------------------------------
(* The invariant of the commands                                           *)

LEMMA CleanupInvInit == FaultInit => CleanupInv
  <1> SUFFICES ASSUME FaultInit PROVE CleanupInv
    OBVIOUS
  <1>1. FaultTypeOK
    BY FaultTypeInit
  <1>2. \A c \in Cleaners : calm[c] = FALSE
    BY Zenon DEF FaultInit
  <1>3. \A c \in Cleaners : CommandSound(c)
    BY <1>2 DEF FaultInit, Cli!CliInit, Cli!Idle, CommandSound
  <1> QED BY <1>1, <1>2, <1>3 DEF CleanupInv, StillCalm

LEMMA CleanupInvStep == CleanupInv /\ [FaultNext]_faultVars => CleanupInv'
  <1> SUFFICES ASSUME CleanupInv, [FaultNext]_faultVars PROVE CleanupInv'
    OBVIOUS
  <1> USE DEF CleanupInv
  <1>1. CASE \/ EvalRuns \/ Crash \/ OrphanRuns
             \/ \E s \in Samples : OrphanExits(s) \/ OrphanUninstalls(s)
             \/ \E t \in Tasks : InterruptCleanup(t)
    <2>1. WithoutCommands
      BY <1>1 DEF WithoutCommands, EvalRuns, Crash, OrphanRuns, OrphanExits, OrphanUninstalls,
         InterruptCleanup
    <2>2. FaultTypeOK'
      BY <1>1, <2>1, FaultTypeStep
    <2>3. ASSUME NEW c \in Cleaners, calm[c]
          PROVE  Calm' /\ \A s \in Samples : release[s] = "absent" => release'[s] = "absent"
      BY <1>1, <2>3, CalmStep DEF StillCalm
    <2>4. StillCalm'
      BY <2>1, <2>3 DEF StillCalm, WithoutCommands
    <2>5. ASSUME NEW c \in Cleaners PROVE CommandSound(c)'
      BY <2>1, <2>3, KeptSound, FaultAssumption DEF WithoutCommands, cliVars
    <2> QED BY <2>2, <2>4, <2>5
  <1>2. ASSUME NEW c \in Cleaners, CliRuns(c) PROVE CleanupInv'
    <2>1. FaultTypeOK' /\ CommandStepOK(c) /\ Calm' = Calm
      BY <1>2, CommandFaultTypes, CommandTypes, CommandKeepsCalm
    <2>2. calm' = [calm EXCEPT ![c] = IF phase[c] = "idle" THEN Calm ELSE @]
          /\ calm \in [Cleaners -> BOOLEAN]
      BY <1>2 DEF CliRuns, FaultTypeOK, CliTypeOK
    <2>3. calm'[c] = IF phase[c] = "idle" THEN Calm ELSE calm[c]
      BY <2>2, Zenon
    <2>4. \A d \in Cleaners \ {c} : calm'[d] = calm[d]
      BY <2>2, Zenon
    <2>5. ASSUME NEW d \in Cleaners, calm'[d] PROVE Calm
      <3>1. CASE d = c
        BY <2>3, <2>5, <3>1 DEF StillCalm
      <3>2. CASE d # c
        BY <2>4, <2>5, <3>2 DEF StillCalm
      <3> QED BY <3>1, <3>2
    <2>6. StillCalm'
      BY <2>1, <2>5 DEF StillCalm
    <2>7. CommandSound(c)'
      BY <1>2, <2>3, CommandStepSound
    <2>8. ASSUME NEW d \in Cleaners \ {c} PROVE CommandSound(d)'
      BY <2>1, <2>4, <2>8, KeptSound, FaultAssumption DEF CommandStepOK
    <2> QED BY <2>1, <2>6, <2>7, <2>8
  <1>3. CASE UNCHANGED faultVars
    <2>1. UNCHANGED <<vars, cliVars, alive, calm>>
      BY <1>3 DEF faultVars
    <2>2. FaultTypeOK'
      BY <2>1 DEF vars, cliVars, FaultTypeOK, TypeOKWith, ChildrenWhileCleaning, CliTypeOK
    <2>3. StillCalm'
      BY <2>1 DEF vars, StillCalm, Calm, Settled
    <2>4. ASSUME NEW c \in Cleaners PROVE CommandSound(c)'
      BY <2>1, KeptSound, FaultAssumption DEF vars, cliVars
    <2> QED BY <2>2, <2>3, <2>4
  <1> QED BY <1>1, <1>2, <1>3 DEF FaultNext

LEMMA CleanupInvariant == FaultSpec => []CleanupInv
BY CleanupInvInit, CleanupInvStep, PTL DEF FaultSpec

\* With a helm that lists pending releases, a cleanup of a calm cluster that ends
\* with "Complete." and status 0 leaves no release of its context, whichever
\* operators and orphaned uninstalls worked beside it.
THEOREM CompleteMeansGoneHolds ==
    ASSUME ListsPending
    PROVE  FaultSpec => []CompleteMeansGone
  <1>1. CleanupInv => CompleteMeansGone
    <2> SUFFICES ASSUME CleanupInv, NEW c \in Cleaners, phase[c] = "complete", calm[c],
                        NEW r \in Cli!Reachable(c), release[r] # "absent"
                 PROVE  FALSE
      BY DEF CompleteMeansGone, Cli!Visible, Cli!Shown
    <2>1. r \in names[c] /\ r \in Samples
      BY FaultAssumption DEF CleanupInv, CommandSound, Cli!Reachable
    <2>2. work[c][r] = "ok"
      BY <2>1 DEF CleanupInv, CommandSound
    <2> QED BY <2>2 DEF CleanupInv, CommandSound
  <1> QED BY <1>1, CleanupInvariant, PTL

\* The command printed for a release that failed to uninstall removes it, in any
\* context; the table printed under --no-sandbox-cleanup does where there is one
\* context, for it does not name another.
THEOREM InstructionsSufficeHolds ==
    ASSUME Cleanup \/ OtherContext = {}
    PROVE  FaultSpec => []InstructionsSuffice
  <1>1. CleanupInv => InstructionsSuffice
    <2> SUFFICES ASSUME CleanupInv, NEW c \in Cleaners, NEW s \in names[c],
                        phase[c] = "removed", calm[c]
                 PROVE  release[s] = "absent"
      BY DEF InstructionsSuffice
    <2>1. s \in Samples /\ s \in Cli!Reachable(c)
      BY DEF CleanupInv, FaultTypeOK, CliTypeOK, CommandSound
    <2>2. work[c][s] = "ok"
      BY <2>1 DEF CleanupInv, CommandSound
    <2> QED BY <2>1, <2>2 DEF CleanupInv, CommandSound
  <1> QED BY <1>1, CleanupInvariant, PTL

-------------------------------------------------------------------------------
(* The record an eval leaves                                               *)

\* ReleaseInv as long as the eval is alive, where a child of an uninstall_all()
\* that was cancelled answers for its release too.
RecordInv == FaultTypeOK /\ (alive => ReleaseInvWith(Interrupted))

\* An operator's command only takes releases away, which no clause forbids.
LEMMA RecordAfterCommand ==
    ASSUME RecordInv, alive, NEW c \in Cleaners, CliRuns(c)
    PROVE  ReleaseInvWith(Interrupted)'
  <1>1. CommandStepOK(c)
    BY CommandTypes DEF RecordInv
  <1>2. UNCHANGED <<pc, attempt, result, cancels, tracked, task, child, installProc, reported>>
    BY DEF CliRuns
  <1>3. TypeOKWith(Interrupted)'
    BY CommandFaultTypes DEF RecordInv, FaultTypeOK
  <1>4. \A s \in Samples : release'[s] # "absent" => release[s] # "absent"
    BY <1>1 DEF CommandStepOK
  <1> QED
    BY <1>1, <1>2, <1>3, <1>4 DEF RecordInv, ReleaseInvWith, ListInvWith, ActiveTracked,
       IdleUntouched, ProcStarted, ProcAwaited, UnwindingCancelled, ChildrenOfCleanup,
       BatchesDisjoint, ListHandedOver, ReleaseCoveredWith, ReleaseOwned

LEMMA RecordAfterInterrupt ==
    ASSUME RecordInv, NEW t \in Tasks, InterruptCleanup(t)
    PROVE  ReleaseInvWith(Interrupted)'
  <1>1. UNCHANGED <<pc, attempt, result, cancels, tracked, installProc, reported>>
    BY DEF InterruptCleanup
  <1>2. TypeOKWith(Interrupted)'
    <2>1. WithoutCommands
      BY DEF InterruptCleanup, WithoutCommands
    <2> QED BY <2>1, FaultTypeStep DEF RecordInv, FaultTypeOK
  <1>3. ReleaseInvWith(Interrupted)
    BY DEF RecordInv, InterruptCleanup
  <1>4. /\ \A s \in Samples : child'[t][s] =
             IF child[t][s] \in {"waiting", "helm"} THEN "interrupted" ELSE child[t][s]
        /\ \A u \in Tasks \ {t} : child'[u] = child[u]
    BY <1>3 DEF InterruptCleanup, ReleaseInvWith, ListInvWith, TypeOKWith
  <1>5. task[t] = "cleaning" /\ task'[t] = "done" /\ \A u \in Tasks \ {t} : task'[u] = task[u]
    BY <1>3 DEF InterruptCleanup, ReleaseInvWith, ListInvWith, TypeOKWith
  <1>6. \A s \in Samples : release'[s] # "absent" => release[s] # "absent"
    BY DEF InterruptCleanup
  <1>7. \A u \in Tasks : \A s \in Samples : child'[u][s] = "none" <=> child[u][s] = "none"
    BY <1>4
  <1>8. ActiveTracked' /\ ProcStarted' /\ ProcAwaited' /\ UnwindingCancelled'
    BY <1>1, <1>3, <1>5 DEF ReleaseInvWith, ListInvWith, ActiveTracked, ProcStarted,
       ProcAwaited, UnwindingCancelled
  <1>9. IdleUntouched' /\ BatchesDisjoint' /\ ReleaseOwned'
    BY <1>1, <1>3, <1>6, <1>7 DEF ReleaseInvWith, ListInvWith, IdleUntouched, BatchesDisjoint,
       ReleaseOwned
  <1>10. ChildrenOfCleanup' /\ ListHandedOver'
    BY <1>1, <1>3, <1>4, <1>5 DEF ReleaseInvWith, ListInvWith, ChildrenOfCleanup, ListHandedOver
  <1>11. ReleaseCoveredWith(Interrupted)'
    BY <1>1, <1>3, <1>4, <1>6 DEF ReleaseInvWith, ListInvWith, ReleaseCoveredWith, Interrupted
  <1> QED BY <1>2, <1>8, <1>9, <1>10, <1>11 DEF ReleaseInvWith, ListInvWith

LEMMA RecordInvStep ==
    ASSUME MaxCancels <= 1
    PROVE  RecordInv /\ CleanupInv /\ [FaultNext]_faultVars /\ CleanupInv' => RecordInv'
  <1> SUFFICES ASSUME RecordInv, CleanupInv, [FaultNext]_faultVars, CleanupInv', alive'
               PROVE  ReleaseInvWith(Interrupted)'
    BY DEF RecordInv, CleanupInv
  <1>1. CASE EvalRuns
    BY <1>1, ReleaseInvStepWith DEF EvalRuns, RecordInv
  <1>2. ASSUME NEW t \in Tasks, InterruptCleanup(t) PROVE ReleaseInvWith(Interrupted)'
    BY <1>2, RecordAfterInterrupt
  <1>3. ASSUME NEW c \in Cleaners, CliRuns(c) PROVE ReleaseInvWith(Interrupted)'
    BY <1>3, RecordAfterCommand DEF CliRuns
  <1>4. CASE UNCHANGED faultVars
    <2>1. alive /\ UNCHANGED vars
      BY <1>4 DEF faultVars
    <2> QED BY <2>1, ReleaseInvStepWith DEF RecordInv
  <1>5. CASE Crash \/ OrphanRuns \/ \E s \in Samples : OrphanExits(s) \/ OrphanUninstalls(s)
    BY <1>5 DEF Crash, OrphanRuns, OrphanExits, OrphanUninstalls
  <1> QED BY <1>1, <1>2, <1>3, <1>4, <1>5 DEF FaultNext

\* An eval that comes to rest has named every release it left in the cluster, but
\* for those whose uninstall was cancelled with uninstall_all() itself, whatever
\* operators removed meanwhile.
THEOREM RecordKeptHolds ==
    ASSUME MaxCancels <= 1
    PROVE  FaultSpec => []RecordKept
  <1>1. FaultInit => RecordInv
    BY FaultTypeInit, ReleaseInvInitWith DEF FaultInit, RecordInv
  <1>2. RecordInv => RecordKept
    <2> SUFFICES ASSUME RecordInv, alive, Settled, NEW s \in Samples, release[s] # "absent",
                        \A t \in Tasks : child[t][s] # "interrupted"
                 PROVE  s \in reported
      BY DEF RecordKept
    <2>1. ReleaseInvWith(Interrupted)
      BY DEF RecordInv
    <2>2. \A t \in Tasks : task[t] = "done" /\ child[t][s] \notin {"waiting", "helm"}
      BY <2>1 DEF Settled, ReleaseInvWith, ListInvWith, ChildrenOfCleanup
    <2>3. tracked \subseteq reported
      BY <2>1, <2>2, ReleaseAssumption DEF ReleaseInvWith, ListInvWith, ListHandedOver
    <2>4. pc[s] \notin {"termInstall", "cancelWait", "cancelUninstall"}
      BY DEF Settled, Ended
    <2> QED BY <2>1, <2>2, <2>3, <2>4 DEF ReleaseInvWith, ReleaseCoveredWith, Interrupted
  <1> QED BY <1>1, <1>2, RecordInvStep, CleanupInvariant, PTL DEF FaultSpec

===============================================================================
