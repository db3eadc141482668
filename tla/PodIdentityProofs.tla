-------------------------- MODULE PodIdentityProofs ---------------------------
(***************************************************************************)
(* Proofs about PodIdentity: types for any number of callers, and, when    *)
(* operations on the pod do not overlap, the guarantees its docstrings and *)
(* docs state, for every number of replacements, restarts and attempts.    *)
(***************************************************************************)
EXTENDS PodIdentity, TLAPS

LEMMA StepCases ==
    ASSUME [Next]_vars
    PROVE  \/ RestartContainer \/ ReplacePod \/ PublishStatuses
           \/ \E c \in Callers :
                \/ \E k \in {"exec", "file"} : StartOp(c, k)
                \/ BeginCheck(c) \/ ReadPod(c) \/ LoadInfo(c) \/ StoreInfo(c)
                \/ ReadPodFails(c) \/ OperationEnds(c) \/ ExecFails(c)
                \/ Retry(c) \/ EndOp(c)
           \/ UNCHANGED vars
BY DEF Next, CallerStep

-------------------------------------------------------------------------------
(* Type correctness                                                        *)

TypeInv == TypeOK /\ PhaseOK

LEMMA SnapshotType == TypeOK => Snapshot \in Snapshots
  <1> SUFFICES ASSUME TypeOK PROVE Snapshot \in Snapshots
    OBVIOUS
  <1>1. pod.uid \in Uids /\ pod.rc \in Counts /\ published \in BOOLEAN
    BY DEF TypeOK, Identities
  <1>2. (IF published THEN pod.rc ELSE 0) \in Counts
    BY <1>1, PodAssumption DEF Counts
  <1> QED BY <1>1, <1>2 DEF Snapshot, Snapshots

LEMMA RefreshedType ==
    ASSUME NEW id \in Identities, NEW b \in Identities, NEW snap \in Snapshots
    PROVE  /\ Refreshed(id, b, snap) \in Identities
           /\ [uid |-> snap.uid, rc |-> snap.rc] \in Identities
  <1>1. snap.uid \in Uids /\ snap.rc \in Counts /\ b.uid \in Uids
    BY DEF Identities, Snapshots
  <1>2. [uid |-> snap.uid, rc |-> snap.rc] \in Identities
    BY <1>1 DEF Identities
  <1>3. [uid |-> b.uid, rc |-> snap.rc] \in Identities
    BY <1>1 DEF Identities
  <1> QED BY <1>2, <1>3 DEF Refreshed

LEMMA TypeInit == Init => TypeInv
  <1>1. 1 \in Uids /\ 0 \in Counts
    BY PodAssumption DEF Uids, Counts
  <1>2. FirstPod \in Identities /\ FirstSnapshot \in Snapshots
    BY <1>1 DEF FirstPod, FirstSnapshot, Identities, Snapshots
  <1> SUFFICES ASSUME Init PROVE TypeInv
    OBVIOUS
  <1>3. /\ pc \in [Callers -> PC] /\ kind \in [Callers -> {"exec", "file"}]
        /\ phase \in [Callers -> {"pre", "post"}]
        /\ behavior \in {"warn", "raise"}
    BY DEF Init, PC
  <1>4. attempt \in [Callers -> 0..MaxAttempts]
    BY PodAssumption DEF Init
  <1>5. warned \in [Callers -> BOOLEAN] /\ published \in BOOLEAN
    BY DEF Init
  <1>6. /\ pod \in Identities /\ info \in Identities /\ reported \subseteq Identities
        /\ mine \in [Callers -> Identities] /\ base \in [Callers -> Identities]
        /\ failedOn \in [Callers -> Identities]
    BY <1>2 DEF Init
  <1>7. before \in [Callers -> SUBSET Identities]
    BY DEF Init
  <1>8. seen \in [Callers -> Snapshots] /\ preSeen \in [Callers -> Snapshots]
    BY <1>2 DEF Init
  <1>9. PhaseOK
    BY DEF Init, PhaseOK
  <1> QED
    BY <1>3, <1>4, <1>5, <1>6, <1>7, <1>8, <1>9 DEF TypeInv, TypeOK

LEMMA TypeStep == TypeInv /\ [Next]_vars => TypeInv'
  <1> SUFFICES ASSUME TypeInv, [Next]_vars PROVE TypeInv'
    OBVIOUS
  <1> USE PodAssumption DEF TypeInv, TypeOK, PhaseOK
  <1>1. CASE RestartContainer
    <2>1. pod' \in Identities
      <3>1. pod.rc + 1 \in Counts
        BY <1>1 DEF RestartContainer, Identities, Counts
      <3> QED BY <1>1, <3>1 DEF RestartContainer, Identities
    <2> QED BY <1>1, <2>1 DEF RestartContainer, callerVars
  <1>2. CASE ReplacePod
    <2>1. pod' \in Identities
      <3>1. pod.uid + 1 \in Uids /\ 0 \in Counts
        BY <1>2 DEF ReplacePod, Identities, Uids, Counts
      <3> QED BY <1>2, <3>1 DEF ReplacePod, Identities
    <2> QED BY <1>2, <2>1 DEF ReplacePod, callerVars
  <1>3. CASE PublishStatuses
    BY <1>3 DEF PublishStatuses, callerVars
  <1>4. ASSUME NEW c \in Callers, NEW k \in {"exec", "file"}, StartOp(c, k) PROVE TypeInv'
    BY <1>4 DEF StartOp, PC
  <1>5. ASSUME NEW c \in Callers, BeginCheck(c) PROVE TypeInv'
    BY <1>5 DEF BeginCheck, PC
  <1>6. ASSUME NEW c \in Callers, ReadPod(c) PROVE TypeInv'
    BY <1>6, SnapshotType DEF ReadPod, AfterCleanCheck, PC, Outcomes
  <1>7. ASSUME NEW c \in Callers, LoadInfo(c) PROVE TypeInv'
    BY <1>7 DEF LoadInfo, PC
  <1>8. ASSUME NEW c \in Callers, StoreInfo(c) PROVE TypeInv'
    <2>1. info' \in Identities /\ reported' \subseteq Identities
      BY <1>8, RefreshedType DEF StoreInfo
    <2> QED BY <1>8, <2>1 DEF StoreInfo, PC, Outcomes
  <1>9. ASSUME NEW c \in Callers, ReadPodFails(c) PROVE TypeInv'
    BY <1>9 DEF ReadPodFails, AfterTransient, callerVars, PC, Outcomes
  <1>10. ASSUME NEW c \in Callers, OperationEnds(c) PROVE TypeInv'
    BY <1>10 DEF OperationEnds, AfterTransient, callerVars, PC, Outcomes
  <1>11. ASSUME NEW c \in Callers, ExecFails(c) PROVE TypeInv'
    BY <1>11 DEF ExecFails, AfterFailedExec, PC, Outcomes
  <1>12. ASSUME NEW c \in Callers, Retry(c) PROVE TypeInv'
    BY <1>12 DEF Retry, PC
  <1>13. ASSUME NEW c \in Callers, EndOp(c) PROVE TypeInv'
    BY <1>13 DEF EndOp, callerVars, PC
  <1>14. CASE UNCHANGED vars
    BY <1>14 DEF vars
  <1> QED
    BY StepCases, <1>1, <1>2, <1>3, <1>4, <1>5, <1>6, <1>7, <1>8, <1>9, <1>10,
       <1>11, <1>12, <1>13, <1>14

\* The state keeps its type, with any number of callers: no operation makes more
\* than MaxAttempts attempts.
THEOREM PodTypeCorrect == Spec => []TypeOK
  <1>1. TypeInv => TypeOK
    BY DEF TypeInv
  <1> QED BY <1>1, TypeInit, TypeStep, PTL DEF Spec

-------------------------------------------------------------------------------
(* One operation at a time                                                 *)

LEMMA PodInvInit == Init => PodInv
  <1> SUFFICES ASSUME Init PROVE PodInv
    OBVIOUS
  <1>1. TypeOK /\ PhaseOK
    BY TypeInit DEF TypeInv
  <1>2. CacheIsLatest /\ CheckIsFresh
    BY DEF Init, CacheIsLatest, CheckIsFresh, Past, FirstPod
  <1>3. PreCheckHolds /\ FailureIsRecent
    BY DEF Init, PreCheckHolds, FailureIsRecent, Past, FirstPod, FirstSnapshot
  <1>4. NoMissedRestart /\ FailedExecDiagnosed
    BY DEF Init, NoMissedRestart, FailedExecDiagnosed
  <1> QED BY <1>1, <1>2, <1>3, <1>4 DEF PodInv

\* What the running pod was, it has been ever since.
LEMMA PastStep ==
    ASSUME TypeOK, [Next]_vars, NEW x, x.uid \in Uids, x.rc \in Counts, Past(x)
    PROVE  Past(x)'
  <1> USE DEF TypeOK, Identities, Uids, Counts, Past
  <1>1. CASE RestartContainer
    BY <1>1 DEF RestartContainer
  <1>2. CASE ReplacePod
    BY <1>2 DEF ReplacePod
  <1>3. CASE UNCHANGED pod
    BY <1>3
  <1> QED
    BY <1>1, <1>2, <1>3, StepCases DEF PublishStatuses, StartOp, BeginCheck, ReadPod,
       LoadInfo, StoreInfo, ReadPodFails, OperationEnds, ExecFails, Retry, EndOp, vars

LEMMA PodInvStep ==
    ASSUME Serial, PodInv, [Next]_vars
    PROVE  PodInv'
  <1>1. TypeOK' /\ PhaseOK'
    BY TypeStep DEF PodInv, TypeInv
  <1> DEFINE Rest == /\ CacheIsLatest /\ CheckIsFresh /\ PreCheckHolds
                     /\ FailureIsRecent /\ NoMissedRestart /\ FailedExecDiagnosed
  <1> SUFFICES Rest'
    BY <1>1 DEF PodInv
  <1> USE PodAssumption DEF PodInv, TypeOK, PhaseOK, Serial, Identities, Snapshots,
                            Uids, Counts
  <1>2. CASE RestartContainer
    BY <1>2 DEF RestartContainer, callerVars, CacheIsLatest, CheckIsFresh, PreCheckHolds, FailureIsRecent,
       NoMissedRestart, FailedExecDiagnosed, Past, Covered
  <1>3. CASE ReplacePod
    BY <1>3 DEF ReplacePod, callerVars, CacheIsLatest, CheckIsFresh, PreCheckHolds, FailureIsRecent,
       NoMissedRestart, FailedExecDiagnosed, Past, Covered
  <1>4. CASE PublishStatuses
    BY <1>4 DEF PublishStatuses, callerVars, CacheIsLatest, CheckIsFresh, PreCheckHolds, FailureIsRecent,
       NoMissedRestart, FailedExecDiagnosed, Past, Covered
  <1>5. ASSUME NEW c \in Callers, NEW k \in {"exec", "file"}, StartOp(c, k)
        PROVE  Rest'
    BY <1>5 DEF StartOp, CacheIsLatest, CheckIsFresh, PreCheckHolds, FailureIsRecent,
       NoMissedRestart, FailedExecDiagnosed, Past, Covered
  <1>6. ASSUME NEW c \in Callers, BeginCheck(c) PROVE Rest'
    BY <1>6 DEF BeginCheck, CacheIsLatest, CheckIsFresh, PreCheckHolds, FailureIsRecent,
       NoMissedRestart, FailedExecDiagnosed, Past, Covered
  <1>7. ASSUME NEW c \in Callers, ReadPod(c) PROVE Rest'
    <2>1. mine[c] = info /\ info.uid <= pod.uid /\ (info.uid = pod.uid => info.rc <= pod.rc)
      BY <1>7 DEF ReadPod, CheckIsFresh, CacheIsLatest, Past
    <2>2. /\ Snapshot.uid = pod.uid /\ Snapshot.pub = published
          /\ Snapshot.rc \in Counts /\ Snapshot.rc <= pod.rc
          /\ published => Snapshot.rc = pod.rc
      BY DEF Snapshot
    <2> DEFINE Clean == ~Changed(info, Snapshot)
    <2>3. Clean => pod.uid = info.uid /\ (published => pod.rc = info.rc)
      <3>1. info.uid \in Int /\ info.rc \in Int /\ pod.uid \in Int /\ pod.rc \in Int
        OBVIOUS
      <3>2. Clean => Snapshot.uid = info.uid /\ ~(Snapshot.pub /\ Snapshot.rc > info.rc)
        BY DEF Changed
      <3> HIDE DEF Clean
      <3>3. Clean => pod.uid = info.uid
        BY <2>2, <3>2
      <3>4. ASSUME Clean, published PROVE pod.rc = info.rc
        <4>1. Snapshot.pub /\ Snapshot.rc = pod.rc
          BY <2>2, <3>4
        <4> QED BY <2>1, <3>1, <3>2, <3>3, <3>4, <4>1
      <3> QED BY <3>3, <3>4
    <2>4. CacheIsLatest'
      BY <1>7 DEF ReadPod, CacheIsLatest, Past
    <2>5. CheckIsFresh'
      BY <1>7, <2>1, <2>2 DEF ReadPod, AfterCleanCheck, Changed, CheckIsFresh, Past
    <2>6. PreCheckHolds'
      <3>1. CASE phase[c] = "pre"
        <4>1. preSeen'[c] = Snapshot /\ seen'[c] = Snapshot /\ phase'[c] = "pre"
          BY <1>7, <3>1 DEF ReadPod
        <4>2. pc'[c] = "operating" => Clean
          BY <1>7, <2>1, <3>1 DEF ReadPod, AfterCleanCheck
        <4>3. /\ Past(preSeen[c])'
              /\ preSeen'[c].uid = pod'.uid /\ preSeen'[c].pub => published'
          BY <1>7, <2>2, <4>1 DEF ReadPod, Past
        <4>4. pc'[c] = "operating" => /\ info'.uid = preSeen'[c].uid
                                      /\ preSeen'[c].pub => info'.rc = preSeen'[c].rc
          <5>1. /\ info' = info /\ preSeen'[c].uid = pod.uid
                /\ preSeen'[c].pub => published /\ preSeen'[c].rc = pod.rc
            BY <1>7, <2>2, <4>1 DEF ReadPod
          <5> HIDE DEF Clean
          <5> QED BY <2>3, <4>2, <5>1
        <4> QED BY <4>1, <4>3, <4>4 DEF PreCheckHolds
      <3>2. CASE phase[c] = "post"
        BY <1>7, <3>2 DEF ReadPod, AfterCleanCheck, PreCheckHolds, Past
      <3> QED BY <3>1, <3>2
    <2>7. FailureIsRecent'
      BY <1>7 DEF ReadPod, AfterCleanCheck, FailureIsRecent
    <2>8. NoMissedRestart'
      BY <1>7, <2>1, <2>2 DEF ReadPod, AfterCleanCheck, Changed, CacheIsLatest,
         NoMissedRestart, Covered
    <2>9. FailedExecDiagnosed'
      <3> SUFFICES ASSUME pc'[c] = "failure"
                   PROVE  /\ failedOn[c].uid = preSeen[c].uid
                          /\ preSeen[c].pub => failedOn[c].rc = preSeen[c].rc
        BY <1>7 DEF ReadPod, FailedExecDiagnosed, AfterCleanCheck
      <3>1. phase[c] = "post" /\ Clean
        BY <1>7, <2>1 DEF ReadPod, AfterCleanCheck
      <3>2. /\ info.uid = preSeen[c].uid /\ (preSeen[c].pub => info.rc = preSeen[c].rc)
            /\ preSeen[c].uid = pod.uid /\ preSeen[c].pub => published
            /\ Past(failedOn[c]) /\ preSeen[c].uid <= failedOn[c].uid
            /\ preSeen[c].uid = failedOn[c].uid => preSeen[c].rc <= failedOn[c].rc
        BY <1>7, <3>1 DEF ReadPod, PreCheckHolds, FailureIsRecent
      <3> HIDE DEF Clean
      <3>3. /\ failedOn[c].uid \in Int /\ failedOn[c].rc \in Int /\ pod.uid \in Int
            /\ pod.rc \in Int /\ preSeen[c].uid \in Int /\ preSeen[c].rc \in Int
        OBVIOUS
      <3> HIDE DEF PodInv
      <3>4. pod.uid = preSeen[c].uid
        BY <2>3, <3>1, <3>2
      <3>5. failedOn[c].uid <= pod.uid /\ (failedOn[c].uid = pod.uid => failedOn[c].rc <= pod.rc)
        BY <3>2 DEF Past
      <3>6. failedOn[c].uid = preSeen[c].uid
        BY <3>2, <3>3, <3>4, <3>5
      <3>7. ASSUME preSeen[c].pub PROVE failedOn[c].rc = preSeen[c].rc
        <4>1. pod.rc = preSeen[c].rc
          BY <2>3, <3>1, <3>2, <3>7, <3>4
        <4> QED BY <3>2, <3>3, <3>6, <3>4, <3>5, <4>1
      <3> QED BY <3>6, <3>7
    <2> QED BY <2>4, <2>5, <2>6, <2>7, <2>8, <2>9
  <1>8. ASSUME NEW c \in Callers, LoadInfo(c) PROVE Rest'
    BY <1>8 DEF LoadInfo, CacheIsLatest, CheckIsFresh, PreCheckHolds, FailureIsRecent,
       NoMissedRestart, FailedExecDiagnosed, Past, Covered
  <1>9. ASSUME NEW c \in Callers, StoreInfo(c) PROVE Rest'
    <2>1. info' = [uid |-> seen[c].uid, rc |-> seen[c].rc]
      BY <1>9 DEF StoreInfo, Refreshed, CheckIsFresh
    <2>2. /\ Past(seen[c])
          /\ info.uid < seen[c].uid \/ (info.uid = seen[c].uid /\ info.rc < seen[c].rc)
      <3>1. /\ mine[c] = info /\ Changed(mine[c], seen[c]) /\ Past(seen[c])
            /\ seen[c].uid >= mine[c].uid
            /\ seen[c].uid # mine[c].uid \/ seen[c].pub
        BY <1>9 DEF StoreInfo, CheckIsFresh
      <3>2. info.uid \in Int /\ seen[c].uid \in Int /\ info.rc \in Int /\ seen[c].rc \in Int
        OBVIOUS
      <3>3. CASE seen[c].uid # mine[c].uid
        <4>1. \A m, n \in Int : n >= m /\ n # m => m < n
          OBVIOUS
        <4>2. seen[c].uid >= info.uid /\ seen[c].uid # info.uid
          BY <3>1, <3>3, Zenon
        <4>3. info.uid < seen[c].uid
          BY <3>2, <4>1, <4>2, Zenon
        <4> QED BY <3>1, <4>3
      <3>4. CASE seen[c].uid = mine[c].uid
        BY <3>1, <3>2, <3>4 DEF Changed
      <3> QED BY <3>3, <3>4
    <2>3. CacheIsLatest'
      <3>1. info' \in reported' /\ info'.uid = seen[c].uid /\ info'.rc = seen[c].rc
        BY <1>9, <2>1 DEF StoreInfo
      <3>2. ASSUME NEW id \in reported
            PROVE  /\ Past(id)'
                   /\ id.uid < info'.uid \/ (id.uid = info'.uid /\ id.rc <= info'.rc)
        <4>1. id.uid \in Int /\ id.rc \in Int /\ info.uid \in Int /\ info.rc \in Int
              /\ seen[c].uid \in Int /\ seen[c].rc \in Int
          OBVIOUS
        <4> QED BY <1>9, <2>2, <3>1, <4>1 DEF StoreInfo, CacheIsLatest, Past
      <3>3. Past(info)'
        BY <1>9, <2>2, <3>1 DEF StoreInfo, Past
      <3>4. reported' = reported \cup {info'}
        BY <1>9, <2>1 DEF StoreInfo
      <3>5. info'.uid \in Int /\ info'.rc \in Int
        BY <3>1
      <3> QED BY <3>1, <3>2, <3>3, <3>4, <3>5 DEF CacheIsLatest, Past
    <2>4. CheckIsFresh' /\ FailureIsRecent' /\ FailedExecDiagnosed'
      BY <1>9 DEF StoreInfo, CheckIsFresh, FailureIsRecent, FailedExecDiagnosed
    <2>5. PreCheckHolds'
      BY <1>9, <2>1 DEF StoreInfo, PreCheckHolds, CheckIsFresh, Past
    <2>6. NoMissedRestart'
      <3>1. info' \in reported' /\ info'.uid = seen[c].uid /\ info'.rc = seen[c].rc
        BY <1>9, <2>1 DEF StoreInfo
      <3>2. seen' = seen /\ seen[c].rc \in Int
        BY <1>9 DEF StoreInfo
      <3> QED BY <3>1, <3>2 DEF NoMissedRestart, Covered
    <2> QED BY <2>3, <2>4, <2>5, <2>6
  <1>10. ASSUME NEW c \in Callers, ReadPodFails(c) PROVE Rest'
    BY <1>10 DEF ReadPodFails, AfterTransient, callerVars, CacheIsLatest, CheckIsFresh, PreCheckHolds, FailureIsRecent,
       NoMissedRestart, FailedExecDiagnosed, Past, Covered
  <1>11. ASSUME NEW c \in Callers, OperationEnds(c) PROVE Rest'
    BY <1>11 DEF OperationEnds, AfterTransient, callerVars, CacheIsLatest, CheckIsFresh, PreCheckHolds, FailureIsRecent,
       NoMissedRestart, FailedExecDiagnosed, Past, Covered
  <1>12. ASSUME NEW c \in Callers, ExecFails(c) PROVE Rest'
    BY <1>12 DEF ExecFails, AfterFailedExec, CacheIsLatest, CheckIsFresh, PreCheckHolds, FailureIsRecent,
       NoMissedRestart, FailedExecDiagnosed, Past, Covered
  <1>13. ASSUME NEW c \in Callers, Retry(c) PROVE Rest'
    BY <1>13 DEF Retry, CacheIsLatest, CheckIsFresh, PreCheckHolds, FailureIsRecent,
       NoMissedRestart, FailedExecDiagnosed, Past, Covered
  <1>14. ASSUME NEW c \in Callers, EndOp(c) PROVE Rest'
    BY <1>14 DEF EndOp, callerVars, Outcomes, CacheIsLatest, CheckIsFresh, PreCheckHolds, FailureIsRecent,
       NoMissedRestart, FailedExecDiagnosed, Past, Covered
  <1>15. CASE UNCHANGED vars
    BY <1>15 DEF vars, CacheIsLatest, CheckIsFresh, PreCheckHolds, FailureIsRecent,
       NoMissedRestart, FailedExecDiagnosed, Past, Covered, Changed
  <1> QED
    BY StepCases, <1>2, <1>3, <1>4, <1>5, <1>6, <1>7, <1>8, <1>9,
       <1>10, <1>11, <1>12, <1>13, <1>14, <1>15

LEMMA PodInvariant == ASSUME Serial PROVE Spec => []PodInv
  <1>1. PodInv /\ [Next]_vars => PodInv'
    BY PodInvStep
  <1> QED BY <1>1, PodInvInit, PTL DEF Spec

\* PodReplacedError and ContainerRestartedError keep what their docstrings say
\* when operations do not overlap: the identity a check starts from is the latest
\* one made known, and what it detects is newer.
THEOREM NoReRaiseHolds == ASSUME Serial PROVE Spec => []NoReRaise
  <1>1. PodInv => NoReRaise
    <2> SUFFICES ASSUME PodInv, NEW c \in Callers, pc[c] \in {"load", "store"},
                        NEW id \in reported, id.uid = seen[c].uid, id.rc >= seen[c].rc
                 PROVE  FALSE
      BY DEF NoReRaise, Covered, PodInv, CheckIsFresh
    <2>1. /\ id.uid < info.uid \/ (id.uid = info.uid /\ id.rc <= info.rc)
          /\ mine[c] = info /\ Changed(info, seen[c]) /\ seen[c].uid >= info.uid
      BY DEF PodInv, CacheIsLatest, CheckIsFresh
    <2>2. /\ id.uid \in Int /\ id.rc \in Int /\ info.uid \in Int /\ info.rc \in Int
          /\ seen[c].uid \in Int /\ seen[c].rc \in Int
      BY PodAssumption DEF PodInv, TypeOK, Identities, Snapshots, Uids, Counts
    <2>3. seen[c].uid = info.uid /\ id.uid = info.uid /\ id.rc <= info.rc
      BY <2>1, <2>2
    <2> QED BY <2>1, <2>2, <2>3 DEF Changed
  <1> QED BY <1>1, PodInvariant, PTL

\* No check that saw container statuses lets an operation go on with a restart it
\* has not made known, when operations do not overlap.
THEOREM NoMissedRestartHolds == ASSUME Serial PROVE Spec => []NoMissedRestart
  <1>1. PodInv => NoMissedRestart
    BY DEF PodInv
  <1> QED BY <1>1, PodInvariant, PTL

\* The cached uid and restart count belong together, when operations do not
\* overlap.
THEOREM IdentityWasRealHolds == ASSUME Serial PROVE Spec => []IdentityWasReal
  <1>1. PodInv => IdentityWasReal
    BY DEF PodInv, CacheIsLatest, Past, IdentityWasReal
  <1> QED BY <1>1, PodInvariant, PTL

\* A plain failed ExecResult of a diagnosed exec was not caused by a restart since
\* the pre-check, when operations do not overlap.
THEOREM FailedExecDiagnosedHolds == ASSUME Serial PROVE Spec => []FailedExecDiagnosed
  <1>1. PodInv => FailedExecDiagnosed
    BY DEF PodInv
  <1> QED BY <1>1, PodInvariant, PTL

===============================================================================
