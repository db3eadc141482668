----------------------------- MODULE PodOpsProofs ------------------------------
(***************************************************************************)
(* What PodOps satisfies for any finite number of operations, any tasks    *)
(* with any settings, and any number of attempts.                          *)
(***************************************************************************)
EXTENDS PodOps, FiniteSetTheorems, SequenceTheorems, TLAPS

Places == {"idle", "waitPermit", "awaiting", "backoff"} \cup Ended

TypeOK ==
    /\ maxWorkers \in Nat
    /\ init \in [Tasks -> {"none", "ok", "error"}]
    /\ pc \in [Ops -> Places]
    /\ attempt \in [Ops -> 1..MaxAttempts]
    /\ stage \in [Ops -> Stages]
    /\ queue \in Seq(Items)
    /\ threads \in SUBSET Items
    /\ commands \in SUBSET {i \in Items : i.stage = "run"}
    /\ starts \in [Ops -> Nat]
    /\ answered \in [Ops -> Nat]

\* A task that was initialised has an executor, of the size it asked for.
Sized == SettingHonoured /\ \A t \in Tasks : init[t] = "ok" => maxWorkers # 0

\* The permits in use do not exceed the threads.
PermitsLimited == Cardinality(Displayed) <= maxWorkers

\* A queued call is the current one of an operation that awaits it, queued once
\* and in no thread: cancelling withdraws it.
QueueAwaited ==
    \A k \in 1..Len(queue) :
        /\ pc[queue[k].op] = "awaiting"
        /\ queue[k] = ItemOf(queue[k].op)
        /\ \A l \in 1..Len(queue) : queue[l].op = queue[k].op => l = k
        /\ \A i \in threads : i.op # queue[k].op

\* The call a thread runs is the last one of its operation, which awaits it or
\* was cancelled while it did; in the second case the operation stands still.
ThreadsCurrent ==
    \A i \in threads : pc[i.op] \in {"awaiting", "cancelled"} /\ i = ItemOf(i.op)

\* The command of the operation's current attempt is still to be started.
ToStart(o) ==
    \/ stage[o] = "check"
    \/ /\ stage[o] = "run"
       /\ \/ pc[o] = "waitPermit"
          \/ \E k \in 1..Len(queue) : queue[k] = ItemOf(o)
          \/ ItemOf(o) \in threads \ commands

\* One command per attempt: every attempt that has yet to start its own leaves
\* one to spare.
StartsCounted ==
    \A o \in Ops :
        /\ starts[o] <= attempt[o]
        /\ ToStart(o) => starts[o] < attempt[o]
        /\ pc[o] = "backoff" => attempt[o] < MaxAttempts
        /\ pc[o] = "idle" => stage[o] = "check"

\* An operation that has its result only has the pod checked again, or is over.
Settled ==
    \A o \in Ops : answered[o] # 0 =>
        /\ starts[o] = answered[o]
        /\ pc[o] # "backoff"
        /\ stage[o] = "diagnose" \/ pc[o] \in {"returned", "raised"}

PodOpsInv ==
    /\ TypeOK /\ Sized /\ PermitsLimited /\ QueueAwaited /\ ThreadsCurrent
    /\ StartsCounted /\ Settled

-------------------------------------------------------------------------------
(* The queue and the permits                                               *)

\* What is left of the queue without o's call are items of it, in other places:
\* place(k) == IF k < at THEN k ELSE k + 1 is injective.
LEMMA QueueWithoutProperties ==
  ASSUME TypeOK, NEW o \in Ops
  PROVE  /\ QueueWithout(o) \in Seq(Items)
         /\ \E place \in [1..Len(QueueWithout(o)) -> 1..Len(queue)] :
              /\ \A k \in 1..Len(QueueWithout(o)) : QueueWithout(o)[k] = queue[place[k]]
              /\ \A k, l \in 1..Len(QueueWithout(o)) : place[k] = place[l] => k = l
         /\ QueueAwaited => \A k \in 1..Len(QueueWithout(o)) : QueueWithout(o)[k] # ItemOf(o)
  <1> DEFINE q == QueueWithout(o)
  <1>0. queue \in Seq(Items) /\ Len(queue) \in Nat /\ DOMAIN queue = 1..Len(queue)
    BY DEF TypeOK
  <1>1. CASE \E k \in DOMAIN queue : queue[k] = ItemOf(o)
    <2> DEFINE at == CHOOSE k \in DOMAIN queue : queue[k] = ItemOf(o)
    <2> DEFINE place == [k \in 1..(Len(queue) - 1) |-> IF k < at THEN k ELSE k + 1]
    <2>1. at \in 1..Len(queue) /\ queue[at] = ItemOf(o)
      BY <1>0, <1>1
    <2>2. q = [k \in 1..(Len(queue) - 1) |-> IF k < at THEN queue[k] ELSE queue[k + 1]]
      BY <1>1 DEF QueueWithout
    <2> HIDE DEF at
    <2>3. \A k \in 1..(Len(queue) - 1) : place[k] \in 1..Len(queue) /\ place[k] # at
      BY <1>0, <2>1
    <2>4. \A k \in 1..(Len(queue) - 1) : q[k] = queue[place[k]]
      BY <1>0, <2>1, <2>2
    <2>5. \A k, l \in 1..(Len(queue) - 1) : place[k] = place[l] => k = l
      BY <1>0, <2>1
    <2>6. \A k \in 1..(Len(queue) - 1) : q[k] \in Items
      BY <1>0, <2>3, <2>4
    <2>7. q \in Seq(Items) /\ Len(q) = Len(queue) - 1
      <3>1. q \in [1..(Len(queue) - 1) -> Items] /\ Len(queue) - 1 \in Nat
        BY <1>0, <2>1, <2>2, <2>6
      <3> QED BY <3>1
    <2>8. QueueAwaited => \A k \in 1..Len(q) : q[k] # ItemOf(o)
      <3> SUFFICES ASSUME QueueAwaited, NEW k \in 1..Len(q), q[k] = ItemOf(o) PROVE FALSE
        OBVIOUS
      <3>1. place[k] \in 1..Len(queue) /\ place[k] # at /\ queue[place[k]].op = queue[at].op
        BY <2>1, <2>3, <2>4, <2>7
      <3> QED BY <2>1, <3>1 DEF QueueAwaited
    <2>9. place \in [1..Len(q) -> 1..Len(queue)]
      BY <2>3, <2>7
    <2>10. /\ \A k \in 1..Len(q) : q[k] = queue[place[k]]
           /\ \A k, l \in 1..Len(q) : place[k] = place[l] => k = l
      BY <2>4, <2>5, <2>7
    <2> HIDE DEF place
    <2> QED BY <2>7, <2>8, <2>9, <2>10
  <1>2. CASE ~\E k \in DOMAIN queue : queue[k] = ItemOf(o)
    <2>1. q = queue
      BY <1>2 DEF QueueWithout
    <2> DEFINE place == [k \in 1..Len(queue) |-> k]
    <2>2. place \in [1..Len(q) -> 1..Len(queue)]
          /\ (\A k \in 1..Len(q) : q[k] = queue[place[k]])
          /\ (\A k, l \in 1..Len(q) : place[k] = place[l] => k = l)
      BY <2>1
    <2> QED BY <1>0, <1>2, <2>1, <2>2
  <1> QED BY <1>1, <1>2

LEMMA QueuedItems ==
  ASSUME queue \in Seq(Items), NEW k \in 1..Len(queue)
  PROVE  queue[k] \in Items /\ queue[k].op \in Ops
  <1>1. queue[k] \in Items
    BY ElementOfSeq
  <1> QED BY <1>1 DEF Items

LEMMA DisplayedFinite == IsFiniteSet(Displayed) /\ Cardinality(Displayed) \in Nat
  <1>1. Displayed \in SUBSET Ops
    BY DEF Displayed
  <1>2. IsFiniteSet(Displayed)
    BY <1>1, FS_Subset, PodOpsAssumption
  <1> QED BY <1>2, FS_CardinalityType

\* A step after which no further operation holds a permit keeps their number.
LEMMA PermitsKept ==
  ASSUME TypeOK, PermitsLimited, maxWorkers' \in Nat, maxWorkers' >= maxWorkers,
         Displayed' \subseteq Displayed
  PROVE  PermitsLimited'
  <1>1. Cardinality(Displayed') <= Cardinality(Displayed) /\ Cardinality(Displayed') \in Nat
    <2>1. IsFiniteSet(Displayed') /\ Cardinality(Displayed') <= Cardinality(Displayed)
      BY DisplayedFinite, FS_Subset
    <2> QED BY <2>1, FS_CardinalityType
  <1> QED BY <1>1, DisplayedFinite DEF PermitsLimited, TypeOK

-------------------------------------------------------------------------------
(* The steps                                                               *)

\* What the ends of a thread's item have in common: the thread is free, the
\* command may run on, and the operation goes on only if it still awaits the
\* item, to a place where nothing of its current attempt is queued or running.
ThreadOver(i) ==
    /\ i \in threads
    /\ threads' = threads \ {i}
    /\ commands' \in {commands, commands \ {i}}
    /\ \E p \in {"waitPermit", "backoff", "returned", "raised"}, st \in Stages :
          /\ Resume(i, p, st)
          /\ p = "backoff" => attempt[i.op] < MaxAttempts
          /\ st = "check" => i.stage = "check"
          /\ st = "run" /\ p = "waitPermit" => i.stage = "check"
          /\ i.stage = "diagnose" => p \in {"returned", "raised"} /\ st = "diagnose"
          /\ \/ UNCHANGED answered
             \/ /\ answered' = [answered EXCEPT ![i.op] = IF Attended(i) THEN starts[i.op] ELSE @]
                /\ p # "backoff"
                /\ p \in {"returned", "raised"} \/ st = "diagnose"
    /\ UNCHANGED <<maxWorkers, init, attempt, queue, starts>>

LEMMA EndsAreOver ==
  ASSUME TypeOK, NEW i \in Items,
         CheckPasses(i) \/ CommandEnds(i) \/ Diagnosed(i) \/ TransientError(i)
           \/ PermanentError(i)
  PROVE  ThreadOver(i)
  <1> DEFINE Goes(p, st) ==
        /\ p \in {"waitPermit", "backoff", "returned", "raised"} /\ st \in Stages
        /\ Resume(i, p, st)
        /\ p = "backoff" => attempt[i.op] < MaxAttempts
        /\ st = "check" => i.stage = "check"
        /\ st = "run" /\ p = "waitPermit" => i.stage = "check"
        /\ i.stage = "diagnose" => p \in {"returned", "raised"} /\ st = "diagnose"
        /\ \/ UNCHANGED answered
           \/ /\ answered' = [answered EXCEPT ![i.op] = IF Attended(i) THEN starts[i.op] ELSE @]
              /\ p # "backoff"
              /\ p \in {"returned", "raised"} \/ st = "diagnose"
  <1>0. i.op \in Ops /\ i.stage \in Stages
    BY DEF Items
  <1>1. /\ AfterTransient(i.op) \in {"backoff", "raised"}
        /\ AfterTransient(i.op) = "backoff" => attempt[i.op] < MaxAttempts
    BY DEF AfterTransient, RetriesLeft
  <1>2. CASE CheckPasses(i)
    <2>1. Goes("waitPermit", "run")
      BY <1>2 DEF CheckPasses, Stages
    <2> HIDE DEF Goes
    <2> QED BY <1>2, <2>1 DEF CheckPasses, ThreadOver, Goes
  <1>3. CASE CommandEnds(i)
    <2>0. i.stage = "run"
      BY <1>3 DEF CommandEnds, TypeOK
    <2>1. Goes("returned", "run") \/ Goes("waitPermit", "diagnose") \/ Goes("raised", "run")
      BY <1>3, <2>0 DEF CommandEnds, AfterRestart, Stages
    <2> HIDE DEF Goes
    <2> QED BY <1>3, <2>1 DEF CommandEnds, ThreadOver, Goes
  <1>4. CASE Diagnosed(i)
    <2>1. Goes("returned", "diagnose") \/ Goes("raised", "diagnose")
      BY <1>4 DEF Diagnosed, AfterRestart, Stages
    <2> HIDE DEF Goes
    <2> QED BY <1>4, <2>1 DEF Diagnosed, ThreadOver, Goes
  <1>5. CASE TransientError(i)
    <2>1. Goes(AfterTransient(i.op), i.stage)
      BY <1>0, <1>1, <1>5 DEF TransientError
    <2> HIDE DEF Goes
    <2> QED BY <1>5, <2>1 DEF TransientError, ThreadsWithout, ThreadOver, Goes
  <1>6. CASE PermanentError(i)
    <2>1. Goes("raised", i.stage)
      BY <1>0, <1>6 DEF PermanentError
    <2> HIDE DEF Goes
    <2> QED BY <1>6, <2>1 DEF PermanentError, ThreadOver, Goes
  <1> QED BY <1>2, <1>3, <1>4, <1>5, <1>6

LEMMA ThreadOverStep ==
  ASSUME PodOpsInv, NEW i \in Items, ThreadOver(i)
  PROVE  PodOpsInv'
  <1> USE DEF PodOpsInv
  <1>0. /\ i \in threads /\ i.op \in Ops
        /\ i = ItemOf(i.op) /\ i.stage = stage[i.op]
        /\ pc[i.op] \in {"awaiting", "cancelled"}
        /\ Attended(i) <=> pc[i.op] = "awaiting"
    BY DEF ThreadOver, Items, ThreadsCurrent, ItemOf, Attended
  <1>1. PICK p \in {"waitPermit", "backoff", "returned", "raised"}, st \in Stages :
          /\ pc' = [pc EXCEPT ![i.op] = IF Attended(i) THEN p ELSE @]
          /\ stage' = [stage EXCEPT ![i.op] = IF Attended(i) THEN st ELSE @]
          /\ p = "backoff" => attempt[i.op] < MaxAttempts
          /\ st = "check" => stage[i.op] = "check"
          /\ st = "run" /\ p = "waitPermit" => stage[i.op] = "check"
          /\ stage[i.op] = "diagnose" => p \in {"returned", "raised"} /\ st = "diagnose"
          /\ \/ UNCHANGED answered
             \/ /\ answered' = [answered EXCEPT ![i.op] = IF Attended(i) THEN starts[i.op] ELSE @]
                /\ p # "backoff"
                /\ p \in {"returned", "raised"} \/ st = "diagnose"
    BY <1>0 DEF ThreadOver, Resume
  <1>2. UNCHANGED <<maxWorkers, init, attempt, queue, starts>>
        /\ threads' = threads \ {i} /\ commands' \in {commands, commands \ {i}}
    BY DEF ThreadOver
  <1>3. \A o \in Ops \ {i.op} : pc'[o] = pc[o] /\ stage'[o] = stage[o]
    BY <1>1 DEF TypeOK
  <1>4. /\ pc'[i.op] = IF pc[i.op] = "awaiting" THEN p ELSE pc[i.op]
        /\ stage'[i.op] = IF pc[i.op] = "awaiting" THEN st ELSE stage[i.op]
    BY <1>0, <1>1 DEF TypeOK
  <1>5. TypeOK'
    <2>1. answered' \in [Ops -> Nat]
      BY <1>1 DEF TypeOK
    <2> QED BY <1>1, <1>2, <2>1 DEF TypeOK, Places, Ended
  <1>6. Sized'
    BY <1>2 DEF Sized, SettingHonoured
  <1>7. PermitsLimited'
    <2>1. Displayed' \subseteq Displayed
      BY <1>3, <1>4 DEF Displayed
    <2> QED BY <1>2, <2>1, PermitsKept DEF TypeOK
  <1>8. \A j \in threads : j.op = i.op => j = i
    BY <1>0 DEF ThreadsCurrent
  <1>9. \A o \in Ops \ {i.op} : ItemOf(o)' = ItemOf(o)
    BY <1>2, <1>3 DEF ItemOf
  <1>10. QueueAwaited'
    <2>1. \A k \in 1..Len(queue) : queue[k].op \in Ops \ {i.op}
      BY <1>0, QueuedItems DEF QueueAwaited, TypeOK
    <2> QED BY <1>2, <1>3, <1>9, <2>1 DEF QueueAwaited
  <1>11. ThreadsCurrent'
    <2>1. \A j \in threads' : j \in threads /\ j.op \in Ops \ {i.op}
      BY <1>2, <1>8 DEF TypeOK, Items
    <2> QED BY <1>3, <1>9, <2>1 DEF ThreadsCurrent
  <1>12. ASSUME NEW o \in Ops, ToStart(o)' PROVE ToStart(o)
    <2>1. CASE o # i.op
      <3>1. ItemOf(o)' \in threads' \ commands' => ItemOf(o) \in threads \ commands
        BY <1>2, <1>9, <2>1, <1>0 DEF ItemOf
      <3> QED BY <1>2, <1>3, <1>9, <1>12, <2>1, <3>1 DEF ToStart
    <2>2. CASE o = i.op
      <3>1. ItemOf(o)' \notin threads'
        <4>1. ItemOf(o)'.op = o
          BY DEF ItemOf
        <4> QED BY <4>1, <1>2, <1>8, <2>2
      <3>2. ~\E k \in 1..Len(queue') : queue'[k] = ItemOf(o)'
        <4>1. ItemOf(o)'.op = o
          BY DEF ItemOf
        <4> QED BY <4>1, <1>0, <1>2, <2>2 DEF QueueAwaited
      <3>3. stage'[o] = "check" \/ (stage'[o] = "run" /\ pc'[o] = "waitPermit")
        BY <3>1, <3>2, <1>12 DEF ToStart
      <3>4. stage[o] = "check"
        BY <3>3, <1>0, <1>1, <1>4, <2>2
      <3> QED BY <3>4 DEF ToStart
    <2> QED BY <2>1, <2>2
  <1>13. StartsCounted'
    BY <1>0, <1>1, <1>2, <1>3, <1>4, <1>12 DEF StartsCounted
  <1>14. Settled'
    <2> SUFFICES ASSUME NEW o \in Ops, answered'[o] # 0
                 PROVE  /\ starts'[o] = answered'[o]
                        /\ pc'[o] # "backoff"
                        /\ stage'[o] = "diagnose" \/ pc'[o] \in {"returned", "raised"}
      BY DEF Settled
    <2>1. CASE o # i.op
      <3>1. answered'[o] = answered[o]
        BY <1>1, <2>1 DEF TypeOK
      <3> QED BY <1>2, <1>3, <2>1, <3>1 DEF Settled
    <2>2. CASE o = i.op /\ answered'[o] = answered[o]
      <3>1. stage[o] = "diagnose" /\ starts[o] = answered[o]
        BY <1>0, <2>2 DEF Settled
      <3> QED BY <1>0, <1>1, <1>2, <1>4, <2>2, <3>1
    <2>3. CASE o = i.op /\ answered'[o] # answered[o]
      <3>1. pc[o] = "awaiting" /\ answered'[o] = starts[o] /\ p # "backoff"
              /\ (p \in {"returned", "raised"} \/ st = "diagnose")
        BY <1>0, <1>1, <2>3 DEF TypeOK
      <3> QED BY <1>2, <1>4, <2>3, <3>1
    <2> QED BY <2>1, <2>2, <2>3
  <1> QED BY <1>5, <1>6, <1>7, <1>10, <1>11, <1>13, <1>14

LEMMA TaskInitStep ==
  ASSUME PodOpsInv, NEW t \in Tasks, TaskInit(t)
  PROVE  PodOpsInv'
  <1> USE DEF PodOpsInv
  <1>0. UNCHANGED <<pc, attempt, stage, queue, threads, commands, starts, answered>>
    BY DEF TaskInit, opVars
  <1>1. maxWorkers' \in Nat /\ maxWorkers' >= maxWorkers
    <2>1. MaxPodOps[t] \in Nat /\ DefaultOps \in Nat /\ maxWorkers \in Nat
      BY PodOpsAssumption DEF TypeOK
    <2>2. WorkersFor(MaxPodOps[t]) \in Nat
      BY <2>1 DEF WorkersFor
    <2>3. maxWorkers' = IF maxWorkers = 0 THEN WorkersFor(MaxPodOps[t]) ELSE maxWorkers
      BY DEF TaskInit
    <2> QED BY <2>1, <2>2, <2>3
  <1>2. TypeOK'
    BY <1>0, <1>1 DEF TaskInit, TypeOK
  <1>3. Sized'
    <2>1. CASE maxWorkers = 0
      <3>1. \A u \in Tasks : init[u] # "ok"
        BY <2>1 DEF Sized
      <3>2. \A u \in Tasks \ {t} : init'[u] = init[u]
        BY DEF TaskInit, TypeOK
      <3>3. maxWorkers' = WorkersFor(MaxPodOps[t]) /\ maxWorkers' # 0
        BY <2>1, PodOpsAssumption DEF TaskInit, WorkersFor
      <3> QED BY <3>1, <3>2, <3>3 DEF Sized, SettingHonoured, WorkersFor
    <2>2. CASE maxWorkers # 0
      <3>1. maxWorkers' = maxWorkers
        BY <2>2 DEF TaskInit
      <3>2. init'[t] = "ok" => ~Conflict(MaxPodOps[t])
        BY DEF TaskInit, TypeOK
      <3>3. \A u \in Tasks \ {t} : init'[u] = init[u]
        BY DEF TaskInit, TypeOK
      <3> QED BY <2>2, <3>1, <3>2, <3>3 DEF Sized, SettingHonoured, Conflict
    <2> QED BY <2>1, <2>2
  <1>4. PermitsLimited'
    <2>1. Displayed' = Displayed
      BY <1>0 DEF Displayed
    <2> QED BY <1>1, <2>1, PermitsKept
  <1>5. QueueAwaited' /\ ThreadsCurrent' /\ StartsCounted' /\ Settled'
    BY <1>0 DEF QueueAwaited, ThreadsCurrent, StartsCounted, ToStart, ItemOf, Settled
  <1> QED BY <1>2, <1>3, <1>4, <1>5

LEMMA AcquireStep ==
  ASSUME PodOpsInv, NEW o \in Ops, Acquire(o)
  PROVE  PodOpsInv'
  <1> USE DEF PodOpsInv
  <1>0. /\ pc[o] = "waitPermit"
        /\ pc' = [pc EXCEPT ![o] = "awaiting"]
        /\ queue' = Append(queue, ItemOf(o))
        /\ UNCHANGED <<maxWorkers, init, attempt, stage, threads, commands, starts, answered>>
        /\ ItemOf(o) \in Items /\ ItemOf(o).op = o
        /\ queue \in Seq(Items)
    BY DEF Acquire, TypeOK, ItemOf, Items
  <1>1. /\ queue' \in Seq(Items) /\ Len(queue) \in Nat /\ Len(queue') = Len(queue) + 1
        /\ \A k \in 1..Len(queue) : queue'[k] = queue[k]
        /\ queue'[Len(queue) + 1] = ItemOf(o)
    BY <1>0, AppendProperties
  <1>2. TypeOK'
    BY <1>0, <1>1 DEF TypeOK, Places
  <1>3. Sized'
    BY <1>0 DEF Sized, SettingHonoured
  <1>4. PermitsLimited'
    <2>1. Displayed' = Displayed \cup {o} /\ o \notin Displayed
      BY <1>0 DEF Displayed, TypeOK
    <2>2. Cardinality(Displayed') = Cardinality(Displayed) + 1
      BY <2>1, DisplayedFinite, FS_AddElement
    <2>3. Cardinality(Displayed) < maxWorkers
      BY DEF Acquire, PermitFree
    <2> QED BY <1>0, <2>2, <2>3, DisplayedFinite DEF PermitsLimited, TypeOK
  <1>5. \A x \in Ops : ItemOf(x)' = ItemOf(x)
    BY <1>0 DEF ItemOf
  <1>6. (\A k \in 1..Len(queue) : queue[k].op # o) /\ (\A i \in threads : i.op # o)
    BY <1>0 DEF QueueAwaited, ThreadsCurrent
  <1>7. \A x \in Ops \ {o} : pc'[x] = pc[x]
    BY <1>0 DEF TypeOK
  <1>8. QueueAwaited'
    <2> SUFFICES ASSUME NEW k \in 1..Len(queue')
                 PROVE  /\ pc'[queue'[k].op] = "awaiting"
                        /\ queue'[k] = ItemOf(queue'[k].op)
                        /\ \A l \in 1..Len(queue') : queue'[l].op = queue'[k].op => l = k
                        /\ \A i \in threads' : i.op # queue'[k].op
      BY <1>0 DEF QueueAwaited, ItemOf
    <2>1. CASE k \in 1..Len(queue)
      <3>1. queue[k].op \in Ops \ {o} /\ queue'[k] = queue[k]
        BY <1>0, <1>1, <1>6, <2>1, QueuedItems
      <3> QED BY <1>0, <1>1, <1>5, <1>6, <1>7, <2>1, <3>1 DEF QueueAwaited
    <2>2. CASE k = Len(queue) + 1
      <3>1. queue'[k] = ItemOf(o) /\ pc'[o] = "awaiting"
        BY <1>0, <1>1, <2>2 DEF TypeOK
      <3> QED BY <1>0, <1>1, <1>5, <1>6, <2>2, <3>1
    <2> QED BY <1>1, <2>1, <2>2
  <1>9. ThreadsCurrent'
    <2>1. \A i \in threads : i.op \in Ops \ {o}
      BY <1>6 DEF TypeOK, Items
    <2> QED BY <1>0, <1>5, <1>7, <2>1 DEF ThreadsCurrent
  <1>10. ASSUME NEW x \in Ops, ToStart(x)' PROVE ToStart(x)
    <2>1. CASE x = o
      BY <1>0, <1>10, <2>1 DEF ToStart
    <2>2. CASE x # o
      <3>1. \A k \in 1..Len(queue') : queue'[k] = ItemOf(x) =>
              k \in 1..Len(queue) /\ queue[k] = ItemOf(x)
        <4>1. ItemOf(x).op = x
          BY DEF ItemOf
        <4> QED BY <1>0, <1>1, <2>2, <4>1
      <3> QED BY <1>0, <1>5, <1>7, <1>10, <2>2, <3>1 DEF ToStart
    <2> QED BY <2>1, <2>2
  <1>11. StartsCounted'
    BY <1>0, <1>10 DEF StartsCounted, TypeOK
  <1>12. Settled'
    BY <1>0 DEF Settled, TypeOK
  <1> QED BY <1>2, <1>3, <1>4, <1>8, <1>9, <1>11, <1>12

LEMMA PickStep ==
  ASSUME PodOpsInv, Pick
  PROVE  PodOpsInv'
  <1> USE DEF PodOpsInv
  <1>0. /\ queue # << >> /\ queue \in Seq(Items)
        /\ threads' = threads \cup {Head(queue)}
        /\ queue' = Tail(queue)
        /\ UNCHANGED <<maxWorkers, init, pc, attempt, stage, commands, starts, answered>>
    BY DEF Pick, TypeOK
  <1>1. /\ Len(queue) \in Nat /\ Len(queue) # 0 /\ Head(queue) = queue[1]
        /\ queue' \in Seq(Items) /\ Len(queue') = Len(queue) - 1
        /\ \A k \in 1..Len(queue') : queue'[k] = queue[k + 1] /\ k + 1 \in 1..Len(queue)
    BY <1>0, HeadTailProperties
  <1>2. 1 \in 1..Len(queue) /\ queue[1] \in Items
    BY <1>0, <1>1, QueuedItems
  <1>3. TypeOK'
    BY <1>0, <1>1, <1>2 DEF TypeOK
  <1>4. Sized'
    BY <1>0 DEF Sized, SettingHonoured
  <1>5. PermitsLimited'
    <2>1. Displayed' = Displayed
      BY <1>0 DEF Displayed
    <2> QED BY <1>0, <2>1, PermitsKept DEF TypeOK
  <1>6. \A x : ItemOf(x)' = ItemOf(x)
    BY <1>0 DEF ItemOf
  <1>7. QueueAwaited'
    <2> SUFFICES ASSUME NEW k \in 1..Len(queue')
                 PROVE  /\ pc'[queue'[k].op] = "awaiting"
                        /\ queue'[k] = ItemOf(queue'[k].op)
                        /\ \A l \in 1..Len(queue') : queue'[l].op = queue'[k].op => l = k
                        /\ \A i \in threads' : i.op # queue'[k].op
      BY <1>0 DEF QueueAwaited, ItemOf
    <2>1. queue'[k] = queue[k + 1] /\ k + 1 \in 1..Len(queue) /\ k + 1 # 1
      BY <1>1
    <2>2. \A l \in 1..Len(queue') : queue'[l].op = queue'[k].op => l = k
      <3>1. \A l \in 1..Len(queue') : queue'[l].op = queue'[k].op => l + 1 = k + 1
        BY <1>1, <2>1 DEF QueueAwaited
      <3> QED BY <3>1
    <2>3. Head(queue).op # queue[k + 1].op
      BY <1>1, <1>2, <2>1 DEF QueueAwaited
    <2> QED BY <1>0, <1>6, <2>1, <2>2, <2>3 DEF QueueAwaited
  <1>8. ThreadsCurrent'
    BY <1>0, <1>1, <1>2, <1>6 DEF ThreadsCurrent, QueueAwaited
  <1>9. ASSUME NEW x \in Ops, ToStart(x)' PROVE ToStart(x)
    BY <1>0, <1>1, <1>2, <1>6, <1>9 DEF ToStart
  <1>10. StartsCounted'
    BY <1>0, <1>9 DEF StartsCounted
  <1>11. Settled'
    BY <1>0 DEF Settled
  <1> QED BY <1>3, <1>4, <1>5, <1>7, <1>8, <1>10, <1>11

LEMMA CancelStep ==
  ASSUME PodOpsInv, NEW o \in Ops, Cancel(o)
  PROVE  PodOpsInv'
  <1> USE DEF PodOpsInv
  <1>0. /\ pc[o] \in {"waitPermit", "awaiting", "backoff"}
        /\ pc' = [pc EXCEPT ![o] = "cancelled"]
        /\ queue' = QueueWithout(o)
        /\ UNCHANGED <<maxWorkers, init, attempt, stage, threads, commands, starts, answered>>
    BY DEF Cancel
  <1>1. /\ queue' \in Seq(Items)
        /\ \A k \in 1..Len(queue') : queue'[k] # ItemOf(o)
    BY <1>0, QueueWithoutProperties
  <1>2. PICK place \in [1..Len(queue') -> 1..Len(queue)] :
          /\ \A k \in 1..Len(queue') : queue'[k] = queue[place[k]]
          /\ \A k, l \in 1..Len(queue') : place[k] = place[l] => k = l
    BY <1>0, QueueWithoutProperties
  <1>3. TypeOK'
    BY <1>0, <1>1 DEF TypeOK, Places, Ended
  <1>4. Sized'
    BY <1>0 DEF Sized, SettingHonoured
  <1>5. PermitsLimited'
    <2>1. Displayed' \subseteq Displayed
      BY <1>0 DEF Displayed, TypeOK
    <2> QED BY <1>0, <2>1, PermitsKept DEF TypeOK
  <1>6. \A x \in Ops \ {o} : pc'[x] = pc[x]
    BY <1>0 DEF TypeOK
  <1>7. QueueAwaited'
    <2> SUFFICES ASSUME NEW k \in 1..Len(queue')
                 PROVE  /\ pc'[queue'[k].op] = "awaiting"
                        /\ queue'[k] = ItemOf(queue'[k].op)
                        /\ \A l \in 1..Len(queue') : queue'[l].op = queue'[k].op => l = k
                        /\ \A i \in threads' : i.op # queue'[k].op
      BY <1>0 DEF QueueAwaited, ItemOf
    <2>1. place[k] \in 1..Len(queue) /\ queue'[k] = queue[place[k]]
      BY <1>2
    <2>2. queue'[k].op \in Ops /\ queue'[k] = ItemOf(queue'[k].op)
      BY <2>1, QueuedItems DEF TypeOK, QueueAwaited
    <2>3. queue'[k].op # o
      BY <1>1, <2>2
    <2>4. pc'[queue'[k].op] = "awaiting" /\ \A i \in threads' : i.op # queue'[k].op
      BY <1>0, <1>6, <2>1, <2>2, <2>3 DEF QueueAwaited
    <2>5. ASSUME NEW l \in 1..Len(queue'), queue'[l].op = queue'[k].op PROVE l = k
      <3>1. place[l] \in 1..Len(queue) /\ queue'[l] = queue[place[l]]
        BY <1>2
      <3>2. place[l] = place[k]
        BY <2>1, <2>5, <3>1 DEF QueueAwaited
      <3> QED BY <1>2, <3>2
    <2> QED BY <2>2, <2>4, <2>5
  <1>8. ThreadsCurrent'
    <2>1. \A i \in threads : i.op \in Ops
      BY DEF TypeOK, Items
    <2>2. \A x \in Ops : pc[x] \in {"awaiting", "cancelled"} => pc'[x] \in {"awaiting", "cancelled"}
      BY <1>0 DEF TypeOK
    <2> QED BY <1>0, <2>1, <2>2 DEF ThreadsCurrent, ItemOf
  <1>9. ASSUME NEW x \in Ops, ToStart(x)' PROVE ToStart(x)
    <2>1. pc'[x] = "waitPermit" => pc[x] = "waitPermit"
      BY <1>0 DEF TypeOK
    <2>2. \A k \in 1..Len(queue') : \E l \in 1..Len(queue) : queue'[k] = queue[l]
      BY <1>2
    <2> QED BY <1>0, <1>9, <2>1, <2>2 DEF ToStart, ItemOf
  <1>10. StartsCounted'
    BY <1>0, <1>9 DEF StartsCounted, TypeOK
  <1>11. Settled'
    BY <1>0 DEF Settled, TypeOK
  <1> QED BY <1>3, <1>4, <1>5, <1>7, <1>8, <1>10, <1>11

\* A step that moves one operation, which is not in a queue or a thread, to
\* waitPermit: Begin and NextAttempt.
LEMMA MoveStep ==
  ASSUME PodOpsInv, NEW o \in Ops,
         \/ Begin(o)
         \/ NextAttempt(o)
  PROVE  PodOpsInv'
  <1> USE DEF PodOpsInv
  <1>0. /\ pc[o] \in {"idle", "backoff"} /\ pc' = [pc EXCEPT ![o] = "waitPermit"]
        /\ UNCHANGED <<maxWorkers, init, queue, threads, commands, starts, answered>>
        /\ \/ Begin(o) /\ UNCHANGED <<attempt, stage>>
           \/ /\ NextAttempt(o) /\ attempt[o] < MaxAttempts
              /\ attempt' = [attempt EXCEPT ![o] = @ + 1]
              /\ stage' = [stage EXCEPT ![o] = "check"]
    BY DEF Begin, NextAttempt, NextNumber, StartsCounted
  <1>1. TypeOK'
    <2>1. attempt' \in [Ops -> 1..MaxAttempts]
      <3>1. \A n \in 1..MaxAttempts : n < MaxAttempts => n + 1 \in 1..MaxAttempts
        BY PodOpsAssumption
      <3>2. attempt[o] \in 1..MaxAttempts
        BY DEF TypeOK
      <3> QED BY <1>0, <3>1, <3>2 DEF TypeOK
    <2>2. pc' \in [Ops -> Places] /\ stage' \in [Ops -> Stages]
      BY <1>0 DEF TypeOK, Places, Stages
    <2> QED BY <1>0, <2>1, <2>2 DEF TypeOK
  <1>2. Sized'
    BY <1>0 DEF Sized, SettingHonoured
  <1>3. PermitsLimited'
    <2>1. Displayed' \subseteq Displayed
      BY <1>0 DEF Displayed, TypeOK
    <2> QED BY <1>0, <2>1, PermitsKept DEF TypeOK
  <1>4. \A x \in Ops \ {o} : pc'[x] = pc[x] /\ attempt'[x] = attempt[x] /\ stage'[x] = stage[x]
    BY <1>0 DEF TypeOK
  <1>5. /\ \A k \in 1..Len(queue) : queue[k].op \in Ops \ {o}
        /\ \A i \in threads : i.op \in Ops \ {o}
    BY <1>0, QueuedItems DEF QueueAwaited, ThreadsCurrent, TypeOK, Items
  <1>6. QueueAwaited'
    BY <1>0, <1>4, <1>5 DEF QueueAwaited, ItemOf
  <1>7. ThreadsCurrent'
    BY <1>0, <1>4, <1>5 DEF ThreadsCurrent, ItemOf
  <1>8. ASSUME NEW x \in Ops
        PROVE  /\ starts'[x] <= attempt'[x]
               /\ ToStart(x)' => starts'[x] < attempt'[x]
               /\ pc'[x] = "backoff" => attempt'[x] < MaxAttempts
               /\ pc'[x] = "idle" => stage'[x] = "check"
    <2>1. CASE x # o
      <3>1. ToStart(x)' => ToStart(x)
        BY <1>0, <1>4, <2>1 DEF ToStart, ItemOf
      <3> QED BY <1>0, <1>4, <2>1, <3>1 DEF StartsCounted
    <2>2. CASE x = o /\ Begin(o)
      <3>1. ToStart(o) /\ pc'[o] = "waitPermit"
        BY <1>0, <2>2 DEF Begin, StartsCounted, ToStart, TypeOK
      <3> QED BY <1>0, <2>2, <3>1 DEF Begin, StartsCounted
    <2>3. CASE x = o /\ NextAttempt(o)
      <3>1. attempt'[o] = attempt[o] + 1 /\ starts'[o] = starts[o] /\ pc'[o] = "waitPermit"
        BY <1>0, <2>3 DEF TypeOK, NextAttempt, NextNumber
      <3> QED BY <2>3, <3>1, PodOpsAssumption DEF StartsCounted, TypeOK
    <2> QED BY <1>0, <2>1, <2>2, <2>3
  <1>9. StartsCounted'
    BY <1>8 DEF StartsCounted
  <1>10. Settled'
    <2>1. answered[o] = 0
      BY <1>0 DEF Begin, NextAttempt, Settled, StartsCounted
    <2> QED BY <1>0, <1>4, <2>1 DEF Settled
  <1> QED BY <1>1, <1>2, <1>3, <1>6, <1>7, <1>9, <1>10

\* The other steps: a command starts or ends, and stuttering.
LEMMA CommandStep ==
  ASSUME PodOpsInv, NEW i \in Items, StartCommand(i) \/ AbandonedEnds(i)
  PROVE  PodOpsInv'
  <1> USE DEF PodOpsInv
  <1>0. /\ UNCHANGED <<maxWorkers, init, pc, attempt, stage, queue, threads, answered>>
        /\ i.op \in Ops
    BY DEF StartCommand, AbandonedEnds, Items
  <1>1. TypeOK'
    <2>1. commands' \in SUBSET {j \in Items : j.stage = "run"}
      BY DEF TypeOK, StartCommand, AbandonedEnds
    <2>2. starts' \in [Ops -> Nat]
      <3>1. starts \in [Ops -> Nat]
        BY DEF TypeOK
      <3>2. starts' = starts \/ starts' = [starts EXCEPT ![i.op] = @ + 1]
        BY DEF StartCommand, AbandonedEnds
      <3> QED BY <1>0, <3>1, <3>2
    <2> QED BY <1>0, <2>1, <2>2 DEF TypeOK
  <1>2. Sized' /\ QueueAwaited' /\ ThreadsCurrent'
    BY <1>0 DEF Sized, SettingHonoured, QueueAwaited, ThreadsCurrent, ItemOf
  <1>3. PermitsLimited'
    <2>1. Displayed' = Displayed
      BY <1>0 DEF Displayed
    <2> QED BY <1>0, <2>1, PermitsKept DEF TypeOK
  <1>4. CASE StartCommand(i)
    <2>1. /\ i \in threads \ commands /\ i.stage = "run" /\ i = ItemOf(i.op)
          /\ commands' = commands \cup {i}
          /\ starts' = [starts EXCEPT ![i.op] = @ + 1]
      BY <1>4 DEF StartCommand, ThreadsCurrent
    <2>2. stage[i.op] = "run" /\ ToStart(i.op)
      BY <2>1 DEF ItemOf, ToStart
    <2>3. starts'[i.op] = starts[i.op] + 1 /\ starts[i.op] < attempt[i.op]
      BY <1>0, <2>1, <2>2 DEF StartsCounted, TypeOK
    <2>4. ~ToStart(i.op)'
      <3>1. pc[i.op] # "waitPermit" /\ \A k \in 1..Len(queue) : queue[k].op # i.op
        BY <2>1 DEF ThreadsCurrent, QueueAwaited
      <3>2. \A k \in 1..Len(queue) : queue[k] # ItemOf(i.op)
        BY <3>1 DEF ItemOf
      <3> QED BY <1>0, <2>1, <2>2, <3>1, <3>2 DEF ToStart, ItemOf
    <2>5. \A x \in Ops \ {i.op} : starts'[x] = starts[x] /\ (ToStart(x)' => ToStart(x))
      BY <1>0, <2>1 DEF ToStart, ItemOf, TypeOK
    <2>6. attempt[i.op] \in Nat /\ starts[i.op] \in Nat
      BY <1>0, PodOpsAssumption DEF TypeOK
    <2>7. StartsCounted'
      BY <1>0, <2>3, <2>4, <2>5, <2>6 DEF StartsCounted
    <2>8. answered[i.op] = 0
      BY <1>0, <2>1, <2>2 DEF Settled, ThreadsCurrent
    <2>9. Settled'
      BY <1>0, <2>5, <2>8 DEF Settled
    <2> QED BY <1>1, <1>2, <1>3, <2>7, <2>9
  <1>5. CASE AbandonedEnds(i)
    <2>1. threads' \ commands' = threads \ commands /\ starts' = starts
      BY <1>0, <1>5 DEF AbandonedEnds
    <2>2. \A x \in Ops : ToStart(x)' => ToStart(x)
      BY <1>0, <2>1 DEF ToStart, ItemOf
    <2>3. StartsCounted'
      BY <1>0, <2>1, <2>2 DEF StartsCounted
    <2>4. Settled'
      BY <1>0, <2>1 DEF Settled
    <2> QED BY <1>1, <1>2, <1>3, <2>3, <2>4
  <1> QED BY <1>4, <1>5

LEMMA StutterStep ==
  ASSUME PodOpsInv, UNCHANGED vars
  PROVE  PodOpsInv'
  <1>1. Displayed' = Displayed
    BY DEF vars, Displayed
  <1> QED
    BY <1>1 DEF PodOpsInv, vars, TypeOK, Sized, SettingHonoured, PermitsLimited, QueueAwaited,
      ThreadsCurrent, StartsCounted, ToStart, ItemOf, Settled

LEMMA PodOpsInit == Init => PodOpsInv
  <1> SUFFICES ASSUME Init PROVE PodOpsInv
    OBVIOUS
  <1>1. TypeOK
    BY PodOpsAssumption DEF Init, TypeOK, Places, Stages
  <1>2. Displayed = {}
    BY DEF Init, Displayed
  <1>3. PermitsLimited
    BY <1>2, FS_EmptySet DEF PermitsLimited, Init
  <1>4. Sized /\ QueueAwaited /\ ThreadsCurrent
    BY DEF Init, Sized, SettingHonoured, QueueAwaited, ThreadsCurrent
  <1>5. StartsCounted
    BY PodOpsAssumption DEF Init, StartsCounted
  <1>6. Settled
    BY DEF Init, Settled
  <1> QED
    BY <1>1, <1>3, <1>4, <1>5, <1>6 DEF PodOpsInv

\* The types of all the variables, and the invariant the properties rest on.
THEOREM PodOpsInvHolds == Spec => []PodOpsInv
  <1>1. PodOpsInv /\ [Next]_vars => PodOpsInv'
    <2> SUFFICES ASSUME PodOpsInv, [Next]_vars PROVE PodOpsInv'
      OBVIOUS
    <2>0. TypeOK
      BY DEF PodOpsInv
    <2>1. ASSUME NEW t \in Tasks, TaskInit(t) PROVE PodOpsInv'
      BY <2>1, TaskInitStep
    <2>2. ASSUME NEW o \in Ops, OpStep(o) PROVE PodOpsInv'
      BY <2>2, AcquireStep, CancelStep, MoveStep DEF OpStep
    <2>3. CASE Pick
      BY <2>3, PickStep
    <2>4. ASSUME NEW i \in Items, ThreadStep(i) \/ AbandonedEnds(i) PROVE PodOpsInv'
      <3>1. CASE StartCommand(i) \/ AbandonedEnds(i)
        BY <3>1, CommandStep
      <3>2. CASE CheckPasses(i) \/ CommandEnds(i) \/ Diagnosed(i) \/ TransientError(i)
                   \/ PermanentError(i)
        BY <3>2, <2>0, EndsAreOver, ThreadOverStep
      <3> QED BY <2>4, <3>1, <3>2 DEF ThreadStep
    <2>5. CASE UNCHANGED vars
      BY <2>5, StutterStep
    <2> QED
      BY <2>1, <2>2, <2>3, <2>4, <2>5 DEF Next, AllOver
  <1> QED BY PodOpsInit, <1>1, PTL DEF Spec

-------------------------------------------------------------------------------
(* Properties                                                              *)

\* Every task whose task_init() succeeded with a setting of its own runs with
\* that setting, in whichever order any number of tasks come
\* (PodOpExecutor.get_instance).
THEOREM SettingHonouredHolds == Spec => []SettingHonoured
  <1>1. PodOpsInv => SettingHonoured
    BY DEF PodOpsInv, Sized
  <1> QED BY <1>1, PodOpsInvHolds, PTL

\* The calls of an operation are in threads one at a time, and its commands are
\* no more than its attempts (queue_operation under the retry loop): a thread
\* always runs the last call of its operation, even of a cancelled one.
THEOREM AttemptsInTurnHolds == Spec => []AttemptsInTurn
  <1>1. PodOpsInv => AttemptsInTurn
    <2> SUFFICES ASSUME PodOpsInv PROVE AttemptsInTurn
      OBVIOUS
    <2>1. \A i, j \in threads : i.op = j.op => i = j
      BY DEF PodOpsInv, ThreadsCurrent
    <2>2. \A o \in Ops : starts[o] <= attempt[o] /\ attempt[o] <= MaxAttempts
      BY PodOpsAssumption DEF PodOpsInv, StartsCounted, TypeOK
    <2> QED BY <2>1, <2>2 DEF AttemptsInTurn
  <1> QED BY <1>1, PodOpsInvHolds, PTL

\* The command whose result an operation has is the last it starts (Pod.exec under
\* the retry loop): a restart found afterwards is raised, not retried, so that
\* only the pod's check is still to run.
THEOREM ResultIsLastHolds == Spec => []ResultIsLast
  <1>1. PodOpsInv => ResultIsLast
    BY DEF PodOpsInv, Settled, ResultIsLast
  <1> QED BY <1>1, PodOpsInvHolds, PTL

\* A call that has its permit waits for a thread only while a cancelled
\* operation's call occupies one (queue_operation): otherwise the operations in
\* threads and the one in the queue hold a permit each, more than there are.
THEOREM AdmittedWaitsOnlyForAbandonedHolds == Spec => []AdmittedWaitsOnlyForAbandoned
  <1>1. PodOpsInv => AdmittedWaitsOnlyForAbandoned
    <2> SUFFICES ASSUME PodOpsInv, queue # << >>, Cardinality(threads) = maxWorkers,
                        \A i \in threads : Attended(i)
                 PROVE  FALSE
      BY DEF AdmittedWaitsOnlyForAbandoned
    <2> DEFINE first == queue[1].op
    <2> DEFINE others == Displayed \ {first}
    <2> DEFINE holder == [i \in threads |-> i.op]
    <2>1. queue \in Seq(Items) /\ 1 \in 1..Len(queue)
      BY EmptySeq DEF PodOpsInv, TypeOK
    <2>2. first \in Displayed /\ \A i \in threads : i.op # first
      BY <2>1, QueuedItems DEF PodOpsInv, QueueAwaited, Displayed
    <2>3. \A i \in threads : i.op \in Displayed
      BY DEF Attended, Displayed, PodOpsInv, TypeOK, Items
    <2>4. holder \in Injection(threads, others)
      BY <2>2, <2>3 DEF Injection, IsInjective, PodOpsInv, ThreadsCurrent
    <2>5. IsFiniteSet(others) /\ Cardinality(others) = Cardinality(Displayed) - 1
      BY <2>2, DisplayedFinite, FS_RemoveElement
    <2>6. Cardinality(threads) <= Cardinality(others)
      BY <2>4, <2>5, FS_Injection
    <2> QED
      BY <2>5, <2>6, DisplayedFinite DEF PodOpsInv, PermitsLimited, TypeOK
  <1> QED BY <1>1, PodOpsInvHolds, PTL

===============================================================================
