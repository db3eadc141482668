----------------------------- MODULE KubeClients ------------------------------
(***************************************************************************)
(* k8s_client() (_kubernetes_api.py): the configuration loaded once under  *)
(* a lock, and the clients cached per thread and context and renewed by    *)
(* age, with the threads that use them.  A pod operation obtains and uses  *)
(* its client in one worker thread.  Release (_helm.py) obtains clients in *)
(* the event loop's thread and has threads of the default executor use     *)
(* them: get_sandbox_pods once, the scheduling watcher over and over.      *)
(***************************************************************************)
EXTENDS Integers, FiniteSets

CONSTANTS
    Workers,       \* threads of the pod-op executor
    Helpers,       \* threads of asyncio's default executor
    Loop,          \* the event loop's thread
    Calls,         \* get_sandbox_pods and watcher calls of the releases
    Contexts,      \* kubeconfig contexts in use, None among them
    RefreshAfter,  \* INSPECT_K8S_CLIENT_REFRESH_SECONDS, 0 for never
    MaxTime        \* bound: the clock stops here

ASSUME ClientsAssumption ==
    /\ Loop \notin Workers \cup Helpers
    /\ Workers \cap Helpers = {}
    /\ {"free", "none"} \cap (Workers \cup {Loop}) = {}   \* no thread stands for "nobody"
    /\ RefreshAfter \in Nat
    /\ MaxTime \in Nat

Owners == Workers \cup {Loop}

VARIABLES
    available,  \* which configurations the host has: "kubeconfig", "incluster"
    config,     \* _Config._instance
    lock,       \* holder of _Config._load_lock, or Free
    loads,      \* history: configurations loaded
    now,        \* time.monotonic()
    cache,      \* _clients of each thread's factory, with _created_at
    closed,     \* clients whose api_client has been closed
    pc,         \* where each owner thread is within k8s_client()
    wanted,     \* the context each owner thread asks for
    using,      \* client each thread is making an API call with
    call        \* the client each Release call has obtained

vars == <<available, config, lock, loads, now, cache, closed, pc, wanted, using, call>>

Free == "free"
NoClient == [owner |-> "none", ctx |-> "none", born |-> 0]

Init ==
    /\ available \in SUBSET {"kubeconfig", "incluster"}
    /\ config = "none"
    /\ lock = Free
    /\ loads = 0
    /\ now = 0
    /\ cache = [th \in Owners |-> [c \in Contexts |-> NoClient]]
    /\ closed = {}
    /\ pc = [th \in Owners |-> "idle"]
    /\ wanted \in [Owners -> Contexts]
    /\ using = [th \in Workers \cup Helpers |-> NoClient]
    /\ call = [k \in Calls |-> NoClient]

Tick ==
    /\ now < MaxTime
    /\ now' = now + 1
    /\ UNCHANGED <<available, config, lock, loads, cache, closed, pc, wanted, using, call>>

-------------------------------------------------------------------------------
(* _Config.ensure_loaded                                                   *)

\* k8s_client(ctx) is called.
Ask(th) ==
    /\ pc[th] = "idle"
    /\ th \in Workers => using[th] = NoClient
    /\ pc' = [pc EXCEPT ![th] = "ensureLoaded"]
    /\ \E c \in Contexts : wanted' = [wanted EXCEPT ![th] = c]
    /\ UNCHANGED <<available, config, lock, loads, now, cache, closed, using, call>>

\* BUG: no lock.
LockedUnguarded(th) ==
    /\ pc[th] = "ensureLoaded"
    /\ pc' = [pc EXCEPT ![th] = IF config = "none" THEN "loading" ELSE "loaded"]
    /\ UNCHANGED <<available, config, lock, loads, now, cache, closed, wanted, using, call>>

\* with cls._load_lock: a loaded instance is simply returned.
Locked(th) ==
    /\ pc[th] = "ensureLoaded"
    /\ lock = Free
    /\ IF config = "none"
       THEN lock' = th /\ pc' = [pc EXCEPT ![th] = "loading"]
       ELSE lock' = lock /\ pc' = [pc EXCEPT ![th] = "loaded"]
    /\ UNCHANGED <<available, config, loads, now, cache, closed, wanted, using, call>>

\* _load: the kubeconfig first, the service account of the pod next.
Loadable ==
    IF "kubeconfig" \in available THEN "kubeconfig"
    ELSE IF "incluster" \in available THEN "incluster" ELSE "none"

\* A ConfigException leaves k8s_client(); the next call loads again.
Load(th) ==
    /\ pc[th] = "loading"
    /\ config' = Loadable
    /\ loads' = IF Loadable = "none" THEN loads ELSE loads + 1
    /\ lock' = Free
    /\ pc' = [pc EXCEPT ![th] = IF Loadable = "none" THEN "idle" ELSE "loaded"]
    /\ UNCHANGED <<available, now, cache, closed, wanted, using, call>>

\* A kubeconfig appears on the host.
ConfigAppears ==
    /\ available = {}
    /\ available' = {"kubeconfig"}
    /\ UNCHANGED <<config, lock, loads, now, cache, closed, pc, wanted, using, call>>

-------------------------------------------------------------------------------
(* _ThreadLocalClientFactory.get_client                                    *)

\* _maybe_refresh: a cached client that has reached its age is closed.
Expired(client) ==
    client # NoClient /\ RefreshAfter > 0 /\ now - client.born >= RefreshAfter

\* BUG: one cache for all threads.
SharedFactory(th) == Loop

\* threading.local: each thread has its own factory.
Factory(th) == th

NewClient(th, c) == [owner |-> Factory(th), ctx |-> c, born |-> now]

\* What get_client returns.
Got(th) ==
    LET cached == cache[Factory(th)][wanted[th]]
    IN  IF cached = NoClient \/ Expired(cached) THEN NewClient(th, wanted[th]) ELSE cached

\* The cache and the closed clients after get_client.
GetClient(th) ==
    LET cached == cache[Factory(th)][wanted[th]]
    IN  /\ cache' = [cache EXCEPT ![Factory(th)][wanted[th]] = Got(th)]
        /\ closed' = IF Expired(cached) THEN closed \cup {cached} ELSE closed

\* A pod operation goes on with the client it has obtained, in the same thread.
WorkerObtains(w) ==
    /\ pc[w] = "loaded"
    /\ GetClient(w)
    /\ using' = [using EXCEPT ![w] = Got(w)]
    /\ pc' = [pc EXCEPT ![w] = "idle"]
    /\ UNCHANGED <<available, config, lock, loads, now, wanted, call>>

\* Release keeps the client it has obtained in the event loop's thread.
LoopObtains(k) ==
    /\ pc[Loop] = "loaded"
    /\ call[k] = NoClient
    /\ GetClient(Loop)
    /\ call' = [call EXCEPT ![k] = Got(Loop)]
    /\ pc' = [pc EXCEPT ![Loop] = "idle"]
    /\ UNCHANGED <<available, config, lock, loads, now, wanted, using>>

\* new_client_from_config raises: the factory has no client of that context.
CreateFails(th) ==
    /\ pc[th] = "loaded"
    /\ Got(th) # cache[Factory(th)][wanted[th]]
    /\ cache' = [cache EXCEPT ![Factory(th)][wanted[th]] = NoClient]
    /\ closed' = closed \cup ({cache[Factory(th)][wanted[th]]} \ {NoClient})
    /\ pc' = [pc EXCEPT ![th] = "idle"]
    /\ UNCHANGED <<available, config, lock, loads, now, wanted, using, call>>

-------------------------------------------------------------------------------
(* API calls                                                               *)

\* run_in_executor(None, ...): a helper thread calls with the loop's client.
HelperStarts(h, k) ==
    /\ using[h] = NoClient
    /\ call[k] # NoClient
    /\ using' = [using EXCEPT ![h] = call[k]]
    /\ UNCHANGED <<available, config, lock, loads, now, cache, closed, pc, wanted, call>>

CallEnds(th) ==
    /\ using[th] # NoClient
    /\ using' = [using EXCEPT ![th] = NoClient]
    /\ UNCHANGED <<available, config, lock, loads, now, cache, closed, pc, wanted, call>>

\* The pods are listed, or the watcher is cancelled.
ReleaseDone(k) ==
    /\ call[k] # NoClient
    /\ call' = [call EXCEPT ![k] = NoClient]
    /\ UNCHANGED <<available, config, lock, loads, now, cache, closed, pc, wanted, using>>

Next ==
    \/ Tick \/ ConfigAppears
    \/ \E th \in Owners : Ask(th) \/ Locked(th) \/ Load(th) \/ CreateFails(th)
    \/ \E w \in Workers : WorkerObtains(w)
    \/ \E k \in Calls : LoopObtains(k) \/ ReleaseDone(k)
    \/ \E h \in Helpers, k \in Calls : HelperStarts(h, k)
    \/ \E th \in Workers \cup Helpers : CallEnds(th)

Spec == Init /\ [][Next]_vars

-------------------------------------------------------------------------------
(* Properties                                                              *)

\* "A Kubernetes client cannot be used simultaneously from multiple threads"
\* (k8s_client): the client of a pod operation under way is shared with no other
\* pod operation and no thread of the default executor, and no renewal, its own
\* thread's included, closes it.
OwnOpenClient ==
    \A w \in Workers : using[w] # NoClient =>
        /\ \A th \in (Workers \cup Helpers) \ {w} : using[th] # using[w]
        /\ using[w] \notin closed

\* "Loaded only once for performance and thread-safety" (_Config): two threads
\* that make the first call together load one configuration, which stays.
LoadedOnce == loads <= 1

===============================================================================
