-------------------------- MODULE KubeClientsProofs ----------------------------
(***************************************************************************)
(* What KubeClients satisfies for any number of threads, Release calls and *)
(* contexts, any refresh age and any running time.                         *)
(***************************************************************************)
EXTENDS KubeClients, TLAPS

Threads == Workers \cup Helpers
Client == [owner : Owners, ctx : Contexts, born : Nat]

TypeOK ==
    /\ config \in {"none", "kubeconfig", "incluster"}
    /\ loads \in Nat
    /\ now \in Nat
    /\ cache \in [Owners -> [Contexts -> Client \cup {NoClient}]]
    /\ closed \in SUBSET Client
    /\ pc \in [Owners -> {"idle", "ensureLoaded", "loading", "loaded"}]
    /\ wanted \in [Owners -> Contexts]
    /\ using \in [Threads -> Client \cup {NoClient}]
    /\ call \in [Calls -> Client \cup {NoClient}]

\* The thread that loads holds the lock, and nothing has been loaded before.
OneLoader ==
    /\ \A th \in Owners : pc[th] = "loading" => lock = th /\ config = "none"
    /\ config = "none" => loads = 0
    /\ loads <= 1

\* A cached client belongs to the thread and the context it is cached for, was
\* not created in the future, and is open.
CacheOwned ==
    \A th \in Owners, c \in Contexts : cache[th][c] # NoClient =>
        /\ cache[th][c].owner = th
        /\ cache[th][c].ctx = c
        /\ cache[th][c].born <= now
        /\ cache[th][c] \notin closed

\* Only clients of earlier ticks have been closed, so that a new client, which
\* carries the present time, is none of them.
ClosedBefore == \A client \in closed : client.born < now

\* A pod operation under way uses the client its own thread has cached, and that
\* thread is not in k8s_client(); what Release obtained was created for the loop.
UsedByOwner ==
    /\ \A w \in Workers : using[w] # NoClient =>
          /\ pc[w] = "idle"
          /\ using[w] = cache[w][using[w].ctx]
    /\ \A h \in Helpers : using[h] # NoClient => using[h].owner = Loop
    /\ \A k \in Calls : call[k] # NoClient => call[k].owner = Loop

ClientsInv == TypeOK /\ OneLoader /\ CacheOwned /\ ClosedBefore /\ UsedByOwner

-------------------------------------------------------------------------------
(* get_client                                                              *)

\* No client is the absent one: NoClient has no owner among the threads.
LEMMA ClientPresent == \A client \in Client : client # NoClient /\ client.owner # "none"
  BY ClientsAssumption DEF Client, NoClient, Owners

\* get_client returns a client of the calling thread and the wanted context that
\* is open.
LEMMA GotClient ==
  ASSUME ClientsInv, NEW th \in Owners
  PROVE  /\ Got(th) \in Client
         /\ Got(th).owner = th
         /\ Got(th).ctx = wanted[th]
         /\ Got(th).born <= now
         /\ Got(th) \notin closed
  <1> DEFINE cached == cache[th][wanted[th]]
  <1>0. wanted[th] \in Contexts /\ cached \in Client \cup {NoClient} /\ now \in Nat
    BY DEF ClientsInv, TypeOK
  <1>1. CASE cached = NoClient \/ Expired(cached)
    <2>1. Got(th) = [owner |-> th, ctx |-> wanted[th], born |-> now]
      BY <1>1 DEF Got, Factory, NewClient
    <2> QED
      BY <2>1, <1>0, ClientsAssumption DEF Client, ClientsInv, ClosedBefore, TypeOK
  <1>2. CASE ~(cached = NoClient \/ Expired(cached))
    <2>1. Got(th) = cached /\ cached # NoClient
      BY <1>2 DEF Got, Factory
    <2> QED
      BY <2>1, <1>0 DEF ClientsInv, CacheOwned
  <1> QED BY <1>1, <1>2

\* An expired client is not one of the present tick.
LEMMA ExpiredBefore ==
  ASSUME ClientsInv, NEW client \in Client \cup {NoClient}, Expired(client)
  PROVE  client \in Client /\ client.born < now
  BY ClientsAssumption DEF Expired, ClientsInv, TypeOK, Client

\* The caches and the closed clients after get_client keep their invariant, and
\* the clients of the other threads stay as they were.
LEMMA GetClientKeeps ==
  ASSUME ClientsInv, NEW th \in Owners, GetClient(th), now' = now
  PROVE  /\ cache' \in [Owners -> [Contexts -> Client \cup {NoClient}]]
         /\ closed' \in SUBSET Client
         /\ CacheOwned'
         /\ ClosedBefore'
         /\ \A o \in Owners \ {th} : cache'[o] = cache[o]
         /\ cache'[th][wanted[th]] = Got(th)
  <1> DEFINE cached == cache[th][wanted[th]]
  <1>0. /\ wanted[th] \in Contexts
        /\ cached \in Client \cup {NoClient}
        /\ cache \in [Owners -> [Contexts -> Client \cup {NoClient}]]
        /\ closed \in SUBSET Client
    BY DEF ClientsInv, TypeOK
  <1>1. cache' = [cache EXCEPT ![th][wanted[th]] = Got(th)]
    BY DEF GetClient, Factory
  <1>2. closed' = IF Expired(cached) THEN closed \cup {cached} ELSE closed
    BY DEF GetClient, Factory
  <1>3. cache' \in [Owners -> [Contexts -> Client \cup {NoClient}]]
    BY <1>0, <1>1, GotClient
  <1>4. closed' \in SUBSET Client /\ ClosedBefore'
    BY <1>0, <1>2, ExpiredBefore DEF ClosedBefore, ClientsInv
  <1>5. \A o \in Owners \ {th} : cache'[o] = cache[o]
    BY <1>0, <1>1
  <1>6. cache'[th][wanted[th]] = Got(th)
    BY <1>0, <1>1
  <1>7. \A c \in Contexts \ {wanted[th]} : cache'[th][c] = cache[th][c]
    BY <1>0, <1>1
  <1>8. ASSUME NEW o \in Owners, NEW c \in Contexts, cache'[o][c] # NoClient
        PROVE  /\ cache'[o][c].owner = o /\ cache'[o][c].ctx = c
               /\ cache'[o][c].born <= now' /\ cache'[o][c] \notin closed'
    <2>1. CASE o = th /\ c = wanted[th]
      <3>1. Expired(cached) => Got(th).born = now
        BY DEF Got, Factory, NewClient
      <3>2. Got(th) \notin closed'
        BY <3>1, <1>0, <1>2, GotClient, ExpiredBefore DEF ClientsInv, TypeOK, Client
      <3> QED BY <2>1, <3>2, <1>6, GotClient
    <2>2. CASE ~(o = th /\ c = wanted[th])
      <3>1. cache'[o][c] = cache[o][c]
        BY <2>2, <1>5, <1>7
      <3>2. cache[o][c].owner = o /\ cache[o][c].ctx = c /\ cache[o][c].born <= now
             /\ cache[o][c] \notin closed
        BY <3>1, <1>8 DEF ClientsInv, CacheOwned
      <3>3. cached # NoClient => cached.owner = th /\ cached.ctx = wanted[th]
        BY <1>0 DEF ClientsInv, CacheOwned
      <3>4. Expired(cached) => cached # cache[o][c]
        BY <2>2, <3>2, <3>3 DEF Expired
      <3> QED BY <3>1, <3>2, <3>4, <1>2
    <2> QED BY <2>1, <2>2
  <1>9. CacheOwned'
    BY <1>8 DEF CacheOwned
  <1> QED BY <1>3, <1>4, <1>5, <1>6, <1>9

-------------------------------------------------------------------------------
(* The inductive invariant                                                 *)

LEMMA ClientsInit == Init => ClientsInv
  <1> SUFFICES ASSUME Init PROVE ClientsInv
    OBVIOUS
  <1>1. TypeOK
    BY DEF Init, TypeOK, Threads
  <1>2. OneLoader
    BY DEF Init, OneLoader
  <1>3. CacheOwned /\ ClosedBefore /\ UsedByOwner
    BY ClientsAssumption DEF Init, CacheOwned, ClosedBefore, UsedByOwner, Owners
  <1> QED
    BY <1>1, <1>2, <1>3 DEF ClientsInv

\* A step that leaves the caches and the clients alone.
LEMMA CachesKept ==
  ASSUME ClientsInv, now \in Nat, now' \in Nat, now' >= now,
         UNCHANGED <<cache, closed>>
  PROVE  CacheOwned' /\ ClosedBefore'
  BY DEF ClientsInv, TypeOK, CacheOwned, ClosedBefore, Client

LEMMA ClientsStep == ClientsInv /\ [Next]_vars => ClientsInv'
  <1> SUFFICES ASSUME ClientsInv, [Next]_vars PROVE ClientsInv'
    OBVIOUS
  <1> USE DEF ClientsInv
  <1>0. now \in Nat /\ Loop \in Owners /\ Workers \subseteq Owners
    BY DEF TypeOK, Owners
  <1>1. CASE Tick
    BY <1>1, <1>0, CachesKept DEF Tick, TypeOK, OneLoader, UsedByOwner
  <1>2. CASE ConfigAppears
    BY <1>2, <1>0, CachesKept DEF ConfigAppears, TypeOK, OneLoader, UsedByOwner
  <1>3. ASSUME NEW th \in Owners, Ask(th) PROVE ClientsInv'
    <2>1. TypeOK'
      BY <1>3 DEF Ask, TypeOK
    <2>2. OneLoader'
      BY <1>3 DEF Ask, TypeOK, OneLoader
    <2>3. UsedByOwner'
      BY <1>3 DEF Ask, TypeOK, UsedByOwner, Threads
    <2> QED BY <1>3, <2>1, <2>2, <2>3, <1>0, CachesKept DEF Ask
  <1>4. ASSUME NEW th \in Owners, Locked(th) PROVE ClientsInv'
    <2>1. TypeOK'
      BY <1>4 DEF Locked, TypeOK
    <2>2. OneLoader'
      BY <1>4, <1>0, ClientsAssumption DEF Locked, TypeOK, OneLoader, Owners, Free
    <2>3. UsedByOwner'
      BY <1>4, <1>0 DEF Locked, TypeOK, UsedByOwner
    <2> QED BY <1>4, <2>1, <2>2, <2>3, <1>0, CachesKept DEF Locked
  <1>5. ASSUME NEW th \in Owners, Load(th) PROVE ClientsInv'
    <2>1. TypeOK'
      BY <1>5 DEF Load, Loadable, TypeOK
    <2>2. OneLoader'
      BY <1>5, <1>0 DEF Load, TypeOK, OneLoader
    <2>3. UsedByOwner'
      BY <1>5, <1>0 DEF Load, TypeOK, UsedByOwner
    <2> QED BY <1>5, <2>1, <2>2, <2>3, <1>0, CachesKept DEF Load
  <1>6. ASSUME NEW th \in Owners, CreateFails(th) PROVE ClientsInv'
    <2> DEFINE c == wanted[th]
    <2> DEFINE cached == cache[th][c]
    <2>0. /\ c \in Contexts
          /\ cached \in Client \cup {NoClient}
          /\ cache' = [cache EXCEPT ![th][c] = NoClient]
          /\ closed' = closed \cup ({cached} \ {NoClient})
          /\ pc' = [pc EXCEPT ![th] = "idle"]
          /\ UNCHANGED <<config, lock, loads, now, wanted, using, call>>
      BY <1>6 DEF CreateFails, Factory, TypeOK
    <2>1. cached # NoClient => cached \in Client /\ cached.born < now
      BY <1>6, <2>0, ExpiredBefore DEF CreateFails, Factory, Got
    <2>2. /\ \A d \in Contexts : cache'[th][d] = IF d = c THEN NoClient ELSE cache[th][d]
          /\ \A o \in Owners \ {th} : cache'[o] = cache[o]
      BY <2>0 DEF TypeOK
    <2>3. TypeOK'
      BY <2>0, <2>1 DEF TypeOK
    <2>4. OneLoader'
      BY <2>0 DEF TypeOK, OneLoader
    <2>5. ClosedBefore'
      BY <2>0, <2>1 DEF ClosedBefore
    <2>6. ASSUME NEW o \in Owners, NEW d \in Contexts, cache'[o][d] # NoClient
          PROVE  /\ cache'[o][d].owner = o /\ cache'[o][d].ctx = d
                 /\ cache'[o][d].born <= now' /\ cache'[o][d] \notin closed'
      <3>1. cache'[o][d] = cache[o][d] /\ ~(o = th /\ d = c)
        BY <2>2, <2>6
      <3>2. cache[o][d] # cached
        BY <3>1, <2>0, <2>6 DEF CacheOwned
      <3> QED BY <3>1, <3>2, <2>0, <2>6 DEF CacheOwned
    <2>7. UsedByOwner'
      BY <1>6, <2>0, <2>2, <1>0 DEF CreateFails, TypeOK, UsedByOwner
    <2> QED BY <2>3, <2>4, <2>5, <2>6, <2>7 DEF CacheOwned
  <1>7. ASSUME NEW w \in Workers, WorkerObtains(w) PROVE ClientsInv'
    <2>0. w \in Owners /\ now' = now /\ GetClient(w)
      BY <1>7, <1>0 DEF WorkerObtains
    <2>1. TypeOK'
      BY <1>7, <2>0, GetClientKeeps, GotClient DEF WorkerObtains, TypeOK, Threads
    <2>2. OneLoader'
      BY <1>7, <2>0 DEF WorkerObtains, TypeOK, OneLoader
    <2>3. CacheOwned' /\ ClosedBefore'
      BY <2>0, GetClientKeeps
    <2>4. ASSUME NEW v \in Workers, using'[v] # NoClient
          PROVE  pc'[v] = "idle" /\ using'[v] = cache'[v][using'[v].ctx]
      <3>1. CASE v = w
        <4>1. using'[w] = Got(w) /\ pc'[w] = "idle"
          BY <1>7, <2>0 DEF WorkerObtains, TypeOK, Threads
        <4> QED BY <3>1, <4>1, <2>0, GetClientKeeps, GotClient
      <3>2. CASE v # w
        <4>1. using'[v] = using[v] /\ pc'[v] = pc[v] /\ cache'[v] = cache[v]
          BY <1>7, <3>2, <2>0, <1>0, GetClientKeeps DEF WorkerObtains, TypeOK, Threads
        <4> QED BY <4>1, <2>4 DEF UsedByOwner
      <3> QED BY <3>1, <3>2
    <2>5. \A h \in Helpers : using'[h] = using[h]
      BY <1>7, ClientsAssumption DEF WorkerObtains, TypeOK, Threads
    <2>6. UsedByOwner'
      BY <1>7, <2>4, <2>5 DEF WorkerObtains, UsedByOwner
    <2> QED BY <2>1, <2>2, <2>3, <2>6
  <1>8. ASSUME NEW k \in Calls, LoopObtains(k) PROVE ClientsInv'
    <2>0. now' = now /\ GetClient(Loop)
      BY <1>8 DEF LoopObtains
    <2>1. TypeOK'
      BY <1>8, <2>0, <1>0, GetClientKeeps, GotClient DEF LoopObtains, TypeOK
    <2>2. OneLoader'
      BY <1>8, <1>0 DEF LoopObtains, TypeOK, OneLoader
    <2>3. CacheOwned' /\ ClosedBefore'
      BY <2>0, <1>0, GetClientKeeps
    <2>4. \A w \in Workers : pc'[w] = pc[w] /\ cache'[w] = cache[w]
      BY <1>8, <2>0, <1>0, GetClientKeeps, ClientsAssumption DEF LoopObtains, TypeOK
    <2>5. UsedByOwner'
      BY <1>8, <2>0, <2>4, <1>0, GotClient DEF LoopObtains, TypeOK, UsedByOwner
    <2> QED BY <2>1, <2>2, <2>3, <2>5
  <1>9. ASSUME NEW k \in Calls, ReleaseDone(k) PROVE ClientsInv'
    BY <1>9, <1>0, CachesKept DEF ReleaseDone, TypeOK, OneLoader, UsedByOwner
  <1>10. ASSUME NEW h \in Helpers, NEW k \in Calls, HelperStarts(h, k) PROVE ClientsInv'
    <2>1. TypeOK' /\ OneLoader'
      BY <1>10 DEF HelperStarts, TypeOK, OneLoader, Threads
    <2>2. UsedByOwner'
      BY <1>10, ClientsAssumption DEF HelperStarts, TypeOK, UsedByOwner, Threads
    <2> QED BY <1>10, <2>1, <2>2, <1>0, CachesKept DEF HelperStarts
  <1>11. ASSUME NEW th \in Threads, CallEnds(th) PROVE ClientsInv'
    <2>1. TypeOK' /\ OneLoader'
      BY <1>11 DEF CallEnds, TypeOK, OneLoader
    <2>2. UsedByOwner'
      BY <1>11 DEF CallEnds, TypeOK, UsedByOwner, Threads
    <2> QED BY <1>11, <2>1, <2>2, <1>0, CachesKept DEF CallEnds
  <1>12. CASE UNCHANGED vars
    BY <1>12, <1>0, CachesKept DEF vars, TypeOK, OneLoader, UsedByOwner
  <1> QED
    BY <1>1, <1>2, <1>3, <1>4, <1>5, <1>6, <1>7, <1>8, <1>9, <1>10, <1>11, <1>12
    DEF Next, Threads

\* The types of all the variables, and the invariant the properties rest on.
THEOREM ClientsInvHolds == Spec => []ClientsInv
  BY ClientsInit, ClientsStep, PTL DEF Spec

-------------------------------------------------------------------------------
(* Properties                                                              *)

\* No two threads share the client of a pod operation, and no renewal closes it
\* while the operation runs (_ThreadLocalClientFactory): it is cached by the
\* operation's thread alone, and cached clients are open.
THEOREM OwnOpenClientHolds == Spec => []OwnOpenClient
  <1>1. ClientsInv => OwnOpenClient
    <2> SUFFICES ASSUME ClientsInv, NEW w \in Workers, using[w] # NoClient
                 PROVE  /\ \A th \in (Workers \cup Helpers) \ {w} : using[th] # using[w]
                        /\ using[w] \notin closed
      BY DEF OwnOpenClient
    <2>1. using[w] \in Client /\ using[w].ctx \in Contexts /\ w \in Owners /\ w # Loop
      BY ClientsAssumption DEF ClientsInv, TypeOK, Threads, Client, Owners
    <2>2. using[w].owner = w /\ using[w] \notin closed
      BY <2>1 DEF ClientsInv, UsedByOwner, CacheOwned
    <2>3. ASSUME NEW v \in Workers \ {w} PROVE using[v] # using[w]
      <3>1. using[v] # NoClient => using[v] \in Client /\ using[v].ctx \in Contexts
                                   /\ v \in Owners
        BY DEF ClientsInv, TypeOK, Threads, Client, Owners
      <3>2. using[v] # NoClient => using[v].owner = v
        BY <3>1 DEF ClientsInv, UsedByOwner, CacheOwned
      <3> QED BY <3>2, <2>2
    <2>4. ASSUME NEW h \in Helpers PROVE using[h] # using[w]
      BY <2>1, <2>2 DEF ClientsInv, UsedByOwner
    <2> QED BY <2>2, <2>3, <2>4
  <1> QED BY <1>1, ClientsInvHolds, PTL

\* The configuration is loaded at most once (_Config.ensure_loaded): the thread
\* that loads holds the lock and saw no configuration under it.
THEOREM LoadedOnceHolds == Spec => []LoadedOnce
  <1>1. ClientsInv => LoadedOnce
    BY DEF ClientsInv, OneLoader, LoadedOnce
  <1> QED BY <1>1, ClientsInvHolds, PTL

===============================================================================
