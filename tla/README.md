# Formal models of inspect_k8s_sandbox

TLA+ models of the parts of `k8s_sandbox` in which order, failure and
concurrency decide correctness, the TLC runs that check them on small instances,
and TLAPS proofs of their main properties for every instance. Paths below are
relative to the repository's `src/k8s_sandbox/`. `PROJECT.json` holds the
machine-readable inventory: components, runs, the definition-to-source map,
hazards, findings, theorems.

Running: `tlc -workers 2 -config <run>.cfg MC<Module>` and
`tlapm <Module>Proofs.tla`.

## 1. The system

| Component | State | Operations | Talks to |
|---|---|---|---|
| `K8sSandboxEnvironment` (`_sandbox_environment.py`) | release, pod, config of one sandbox | task/sample init and cleanup, exec, read_file, write_file, connection, cli_cleanup | everything below; called by Inspect |
| `HelmReleaseManager` (`_manager.py`) | list of installed releases, shared by a task's samples through a context variable | install, uninstall, uninstall_all | `Release` |
| `Release` (`_helm.py`) | name; locals of `install` | install (quota retries, cancellation), uninstall, get_sandbox_pods | `helm` subprocesses, two semaphores, the watcher task |
| `Pod` (`_pod/pod.py`) | `_info`: cached uid and restart count | exec, read_file, write_file, check_for_pod_restart | API server, worker threads |
| exec and read_file operations (`_pod/execute.py`, `_pod/read.py`, `_pod/buffer.py`, `_pod/get_returncode.py`) | two limited buffers, return code | the loop over one websocket | `WSClient`, the container runtime |
| write_file (`_pod/write.py`), keepalive thread (`_pod/op.py`) | none / stop event | chunked stdin; resize frames | `WSClient` |
| `PodOpExecutor` (`_pod/executor.py`) | thread pool, semaphore | queue_operation | worker threads |
| Client factory (`_kubernetes_api.py`) | loaded config (one, under a lock), clients and their age per thread | k8s_client, refresh | kubernetes client library |
| CLI cleanup (`_manager.py`) | none | uninstall one or all labelled releases | `helm` |
| Compose converter (`compose/_converter.py`) | the loaded dicts, which it empties as it reads them | convert_compose_to_helm_values | the values of the built-in chart |
| Config, values sources, helm arguments (`_sandbox_environment.py`, `compose/_compose.py`, `_helm.py`) | none kept | resolve the configuration, choose and build the values file, metadata to `--set-string`, labels | Compose converter, `helm` |
| Diagnostics, logging, prerequisites, the chart | none | I/O, formatting, templates | |

How they interact. Inspect runs each sample as an asyncio task: `sample_init`
tracks a release and installs it, `sample_cleanup` uninstalls it unless the
sample was interrupted, and `task_cleanup` uninstalls what is left. `helm` runs
as a subprocess under a permit. Tool calls of a sample become operations on a
pod; each first checks, in a worker thread, whether the pod is still the one it
knew, then opens a websocket and talks to the command over it.

What is hard here:

- cancellation at every await of an install, with `helm` still running, next to
  a `task_cleanup()` that uninstalls the same releases;
- which of list, batch or operator is responsible for a release when an
  uninstall fails or is interrupted;
- two semaphores and a cluster with limited capacity;
- one cached identity, read and written by several worker threads, for a pod that
  is replaced and restarted meanwhile;
- an eval process that dies with `helm` processes under way, and a cleanup command
  that knows nothing but the cluster;
- threads that cannot be cancelled, commands that outlive their connection, and
  retries of what may already have been done;
- clients that belong to a thread, a configuration shared by all, renewal by age;
- text that passes through Helm's own parser, and documents whose parts may be the
  same object;
- a websocket client that buffers a frame on every peek, a sentinel that must not
  be left in the buffer, background processes that hold the connection open, and
  connections that close or break at any point.

What makes each part correct:

- releases: none is left in the cluster without the operator being told; none
  comes back; none is uninstalled under a live install; no task waits for ever;
- pods: every replacement and restart is made known, once; a failed command that
  was hit by one is not reported as an ordinary failure;
- streams: a result is complete, within its limit, and only given when the command
  has ended; the loop ends when the command does; a written file is whole; a
  silent command does not lose its connection;
- pod operations: each ends, has one thread at a time, runs at most once per
  attempt, not again once its result has come, and not at all once cancelled in the
  queue;
- cleanup: success means that what could be seen is gone, and after a crash the
  cluster can be brought back to empty;
- clients: pod operations have open clients of their own;
- conversions: what is converted is what was declared, or the file is refused; what
  reaches Helm is what was meant.

## 2. Modules

| Module | Models | Properties |
|---|---|---|
| `ReleaseLifecycle` | `sample_init`, `sample_cleanup`, `task_cleanup`, `HelmReleaseManager`, `Release.install`/`uninstall`, `_run_subprocess`, both semaphores; external: `helm`, cluster | 10 |
| `PodIdentity` | `Pod`, `check_for_pod_restart`, the retrying operations; external: cluster | 4, and 1 proved only |
| `OpStream` | exec's and read_file's stream loops, `LimitedBuffer`, `get_returncode`; external: server, network, `WSClient` | 5, and 1 proved only |
| `ReleaseCustody` | the contract that `ReleaseLifecycle` implements | `KeepsCustody` |
| `CliCleanup` | `cli_cleanup`, `uninstall_unmanaged_release`, `uninstall_all_unmanaged_releases`, `get_all_release_names` | |
| `EvalFaults` | composes `ReleaseLifecycle` and `CliCleanup` over one cluster; crash of the eval, orphaned helm processes, interrupted `uninstall_all()` | 4 |
| `PodOps` | `PodOpExecutor`, the calls of each attempt, `_retry()`, cancellation; external: thread pool, commands in the pod | 5 |
| `WriteStream` | `WriteFileOperation`, `_write_stdin_chunked`, `get_returncode`, retries; external: shell, runtime, network | 2 |
| `Keepalive` | `_send_keepalive` and `create_websocket_client_for_exec`; external: time, idle timeout | 2 |
| `KubeClients` | `k8s_client`, `_Config`, `_ThreadLocalClientFactory` and their users; external: time | 2 |
| `ComposeConverter` | `convert_compose_to_helm_values`, stage by stage | 3 |
| `SampleValues` | configuration, values source, metadata, labels and helm arguments; external: Helm's parser | 2 |
| `MC*` | instances for TLC (symmetry, sets of inputs) | |
| `ReleaseLifecycleProofs` (with `EvalFaults`), `PodIdentityProofs`, `PodOpsProofs`, `OpStreamProofs`, `WriteStreamProofs`, `KeepaliveProofs`, `KubeClientsProofs`, `ValuesProofs` (`ComposeConverter` and `SampleValues`) | inductive invariants, theorems and proofs (section 4) | |

`EvalFaults` EXTENDS `ReleaseLifecycle` and INSTANCEs `CliCleanup` with the cluster's
`release` in common. `PodOps` has the retries and threads of the operations that
`PodIdentity` (their checks), `OpStream` and `WriteStream` (one connection, frame by
frame, and for writes the attempts) and `Keepalive` (its second thread) describe in
detail. `SampleValues` takes the outcome of `ComposeConverter` as "converted or
refused"; a release whose arguments it describes is one `ReleaseLifecycle` installs.
The names of its specification (`ValuesSpec`, `ValuesNext`) differ from those of
`ComposeConverter`, so that `ValuesProofs` extends both.

### ReleaseLifecycle

Each sample is an asyncio task and `pc[s]` is the await point it is suspended at;
an action is one run from an await to the next, so everything the code does
between two awaits is one step. `tracked` is `_installed_releases`; `task` and
`child` are the `uninstall_all()` calls and the children of their `gather`;
`installProc` and `release` are the `helm install` process and the release in the
cluster, which change on their own (`HelmCreate`, `HelmReady`, ...). A semaphore has
no variable: `async with` gives the permit back on every way out, so the permits
in use are the tasks at the await points inside the block (`HoldsInstall`,
`HoldsUninstall`). `reported` records the releases the operator has been told of.

| Code | Definitions |
|---|---|
| `HelmReleaseManager.install` | `SampleInit` |
| `Release.install`, `_install`, `_raise_install_error` | `AcquireInstall`, `WatcherDone` (`AfterInstall`, `AttemptAfter`), `QuotaRetry`, `DiagnoseDone` |
| `get_sandbox_pods` | `PodsListed` |
| CancelledError in `Release.install` and `_run_subprocess` | `Cancel` (`CancelTo`), `OnInstallCancelled`, `HelmInstallTerminated`, `UninstallTerminated` |
| `uninstall` | `AcquireUninstall`, `CancelUninstalled`, `SampleUninstalled`, `UninstallFails` |
| `uninstall_all` | `TaskCleanup` (`TrackedAfterTake`, `CleanupInstructions`), `ChildAcquire`, `ChildUninstalled`, `ChildFails`, `TaskCleanupDone` |

Abstractions. A release has one state per name. Arguments, values files and
messages are left out. While a cancelled install unwinds, the await of its watcher
is part of the step in which helm exits: nothing can happen in it that the wait for
helm does not allow. The harness (external) is assumed to start no sample after a
`task_cleanup()` and to call it only when every sample has ended or is unwinding
a cancellation; the comment in `Release.install` describes this interleaving.
`MaxCancels` bounds the CancelledErrors a sample receives: 1 is a plain
`task.cancel()`, 2 lets a second one arrive while the first is handled.

### PodIdentity

A caller has one operation at a time; `pc` follows it through the check (read of
`self._info`, `read_pod`, read and write of `self._info` in `dataclasses.replace`),
the operation, the re-check after a failed exec and the back-off of `_retry()`.
The check runs in a worker thread, so each access to `self._info` is a step of its
own. `RestartContainer`, `ReplacePod` and `PublishStatuses` are the cluster.
`reported`, `before`, `preSeen` and `failedOn` are history variables
for the properties and influence nothing. `_check_for_pod_restart_sync` is
`BeginCheck`, `ReadPod`, `LoadInfo`, `StoreInfo`; `check_for_pod_restart` is
`Snapshot` and `Changed`; `Pod.exec` is `ExecFails` and `AfterFailedExec`.

### OpStream

One connection. The server sends data frames on two channels, for exec a sentinel
with the exit code, a status frame and the close; it may linger after the sentinel,
close early or be reset at any time, and owes the client nothing. `wire` is the
socket, `buf` the channels of `WSClient`, `connected` its `is_open()`. An `update`,
and each peek with its implicit `update(0)`, takes at most one frame off the
socket. `HandleStderr`, `ExecStdout` and `ReadStdout` are the bodies of the two
loops, `Room`/`AppendLimited`/`Overflows` are `LimitedBuffer.append`, `GetReturncode`
is `get_returncode`, `OutcomesOf` the tests on the return code. The sentinel arrives
in one frame, as the code assumes. A data unit stands for a block of bytes;
`head -c` on the pod, which bounds what the server sends, is left out, so the model
allows more frames than the pod would send.

### ReleaseCustody

Four sets and flags: releases in the cluster, held by the eval, told to the operator,
and whether the eval is over. Nothing is created that is not held; nothing that is
installed is let go of except by telling the operator; the eval ends only when the
operator knows of all that is left. `ReleaseLifecycle!Custody` is the refinement
mapping (`InCluster`, `Held`, `reported`, `Settled`).

### CliCleanup and EvalFaults

A cleaner is an operator who runs the command, again and again; `phase`, `names`
and `work` follow `uninstall_all_unmanaged_releases` from `helm list` to the exit
status. The releases of `ReleaseLifecycle` change under it. `Crash` stops the eval at
any state: each `helm install` dies with it, leaving the release as it is, or goes on
(`OrphanRuns`) and ends by itself. `InterruptCleanup` is a CancelledError at the
gather of `uninstall_all()`. `calm` records, per command, that no install was running
or could start when it began: the properties say nothing about a release that is
created after it was listed. `OtherContext` are the samples configured with a
kubeconfig context that is not the operators' current one. A failed `helm uninstall`
leaves the release in place.

### PodOps

An operation is a task, an item one call handed to the thread pool: the check, the
operation itself and, after a failed exec, the re-check. Threads, queue and running
commands are sets apart, since a cancelled task gives its permit back and leaves its
thread, and a lost connection leaves its command. Which errors occur is free; which
of them are retried, swallowed or raised is the code's: `TransientError` are the types
in `_TRANSIENT_TYPES` (a lost connection, or the command's own `PodError`), everything
else is raised with attempts left (`PermanentError`). `PodReplacedError` and
`ContainerRestartedError` are of the second kind, whichever check finds them
(`AfterRestart`). `answered` is a history variable: the command whose result the
operation has had.

### WriteStream

Data is counted in chunks. Each attempt has a connection, a shell and a position of
its own, and all shells share the file. A restarted write truncates the file when its
shell starts and writes every chunk at its place, as `head -c N > F` does. A shell may
start after its connection has broken and the next attempt has begun; `late` records
it, and `WrittenMeansComplete` excepts it.

### Keepalive

Discrete time: `idle` counts since the server's last data frame, `waited` since the
thread's last wait. The thread runs at most `MaxDelay` late, and
`Interval + MaxDelay < IdleTimeout` is the code's "well under any realistic idle
timeout" (60 s against 4 h); an instance with 3 + 2 < 6 has the tightest margin.
A send may fail although the connection is open (`FrameFails`), and the thread then ends;
`failed` records it, and `KeptAlive` excepts what the idle timeout does afterwards.

### KubeClients

A client is named by its owner, context and time of creation. Worker threads obtain
and use their client in one thread; the event loop's thread obtains clients that
threads of the default executor use (`HelperStarts`). The lock, the one load and the
failures of loading and creating are steps of their own.

### ComposeConverter

The document is a heap of dicts, because the converter pops keys from the objects
that `yaml.safe_load` returned, and an alias makes two places hold one object. Each
stage of `_convert_service` and of the top level is an action that continues, refuses
(`ComposeConverterError`) or crashes (any other exception). A missing or null `services`
is refused; an empty one is converted (`FirstStage`). Properties compare the
values with the document as it was loaded (`Asked`, `Said`), written down
independently of the stages; `ConvertedAsDeclared` excepts a service that shares a
dict, at whatever depth, with one before it (`Aliased`). Files are valid for the Compose schema; names, images,
commands and environment values are abstract.

### SampleValues

The steps of `sample_init` up to the arguments of `helm install`. Metadata texts are
sequences of characters, since escaping is what is checked; `ReadValue` is Helm's
reading of a `--set` value: a backslash protects and a comma ends it (`ReadText`), but
a value that begins with `{` is a list, with `--set-string` too (`ReadList`), and
refused when nothing closes it. `MetadataDelivered` says which of the two Helm reads,
from the configuration and the metadata themselves (`Referred`, `FirstWith`), not from
what the code resolved them to. A file that is configured as a Compose file is not
looked at for references to metadata, by the code or by `Referred` (section 3).
`_key_to_pascal` and the substring test on chart files are constant functions. `corednsImage` is escaped like metadata and
left out.

## 3. Runs

| Run | Shows | Instance |
|---|---|---|
| `release_safety` | no silent leak, no resurrection, one batch per release, no uninstall under a live install, installs within permits, releases found and taken over; implements `ReleaseCustody` | 2 samples, 2 `task_cleanup()`, 1 permit each, 3 attempts, 1 cancellation per sample |
| `release_liveness` | an uninstall gets its permit although installs wait for capacity and never give up; with helm's `--timeout` every eval comes to rest | 2 samples, capacity 1, 2 attempts |
| `cleanup` | reported success means gone; the printed commands work; what an eval leaves is named; after a crash anywhere the operators' context ends up empty for good | 2 samples (one in another context), 2 operators |
| `pod_serial` | all pod properties for operations that do not overlap | 1 caller, 3 pods, 2 restarts each, 3 attempts |
| `pod_concurrent_missed` | *violated*: overlapping checks hide a restart | 2 callers |
| `pod_ops` | settings honoured, admission, attempts that take turns, no more runs than attempts, none after a result; every operation ends | 2 operations, 2 attempts, 1 or 2 threads, 3 tasks |
| `op_stream` | results complete, limited, and only after the end of the command; the loop ends | limit 2, 4 data units |
| `write_stream` | a returned write is complete; every write ends | 2 chunks, 3 attempts |
| `keepalive` | the connection is kept unless a frame failed; the thread ends | 3 + 2 < 6 ticks |
| `clients` | own, open clients for pod operations; one load | 2 workers, 1 helper, refresh at 2 of 3 ticks |
| `compose` | converted as declared, nothing dropped, default service, volume names | up to 2 services, 3 features of the first, 1 of the second, 11 top levels |
| `sample_values` | metadata literal unless it begins with `{`, Compose always converted | all kinds of configuration, texts of up to 2 of 7 characters, and lists with a character after them |

Bounds. Two samples with one permit each and room for one release make every
contention happen: waiting for a permit, for capacity and for one another; a third
sample adds only more of the same waiters. Two `task_cleanup()` calls are the
least for `BatchesDisjoint`. Three attempts give a first, a middle and a last one.
Two operators, and two releases, one of which they cannot see, let one command
overtake another; cancellation of samples, which `release_safety` has, is left out
there. Three pods and two restarts let an identity be two incidents behind. Two
operations with one thread leave one waiting behind an abandoned call. Output of twice
the limit reaches the limit exactly, passes it in one frame and on both channels.
Three attempts let the shells of two earlier writes interfere with the last. Three
features of one service, next to a feature of another, meet every combination of three
stages of the conversion; two characters of text meet every order of the escaping
passes, and `{c}d` a list with something after it. Symmetry is used in runs without liveness only. `--no-sandbox-cleanup`
(`Cleanup = FALSE`) is covered by the theorems, which hold for both values.

Deadlock is checked in every run: the modules stutter explicitly where the system
may stop (`EvalOver`, `Finished`, `AllOver`, `Over`, `Ended`, `ValuesEnded`).

Fairness. `ReleaseLifecycle`: weak fairness of the steps of a task that waits for
nothing (the event loop runs every ready task) and of a `helm` process that can
proceed; strong fairness of acquiring a permit, since asyncio semaphores serve
their waiters in order. `UninstallNotStarved` does not assume that an install waiting
for capacity ever gives up; `EventuallySettled` has helm's `--timeout`, solvers that
end and a harness that calls `task_cleanup()` as its hypothesis (`TimeoutFairness`).
`OpStream`: weak fairness of the worker thread only. `WriteStream`: the worker thread,
the pod's processes and the report of their end; connections need not break. `PodOps`:
the pool takes queued calls, permits are handed out in order (strong), and every call
in a thread ends. `Keepalive`: threads run and the operation ends. `EvalFaults`:
orphaned installs end (`--timeout`), and one operator, who goes on until nothing is
left, confirms, and is not refused by helm, now and then (strong); the others may do
anything. Cancellation, failures and everything the server does are never fair.

### Where the code and its documentation differ

`pod_concurrent_missed` shows it in a run: `self._info` is read, compared and replaced
in worker threads without a lock (`_pod/pod.py:71-86`), so that the count of an old pod
lands on the identity of the new one and hides its restarts. The same race makes a
stale refresh raise an incident again that was already made known (`NoReRaise` with
two callers), against the docstring of `PodReplacedError`.

Met while modelling, and the reason for the exceptions in the properties:

- A second CancelledError ends the wait for the SIGTERMed helm (`_helm.py:539`); the
  handler then uninstalls "now that we know the install process has terminated"
  (`_helm.py:232`), which it has not. With `MaxCancels = 2`
  `InstallDeadBeforeUninstall` fails, and so do `NoSilentLeak`, `NoResurrection` and
  `HelmInstallsBounded`; the theorems on these assume `MaxCancels <= 1`. What the manager
  keeps (`LeftoverTakenOver`, `RemoveFindsRelease`, `BatchesDisjoint`) is proved without
  this assumption.
- `suppress(..., CancelledError): await watcher` (`_helm.py:326`) also suppresses a
  CancelledError meant for the install, in the await between the exit of helm and the
  end of the watcher: the sample runs. `WatcherDone` and `CancelTo` have this.
- A detected restart is remembered for one call of `Pod.exec` only
  (`_pod/pod.py:146-154`); `docs/design/limitations.md` promises it for "a subsequent
  `exec()`", also when another operation detected it.
- `close()` raising after the sentinel leaves exec's loop before the output limit is
  verified (`_pod/execute.py:142-145`), and truncated output is a result
  (`closeRaised` in `OutputComplete`).
- A request whose connection broke before its shell started may start it after the
  retry has written the file, and empties it (`late` in `WrittenMeansComplete`).
- CancelledError at the gather of `uninstall_all()`, which has cleared its list, skips
  the loop that names what is left (`_manager.py:82-98`; "interrupted" in `RecordKept`).
- `get_all_release_names` does not look at the status of `helm list` (`_helm.py:494`):
  a failure reads as "No Inspect sandbox releases found" (`ListFails`). It is called
  without `--all`, so a Helm that hides pending releases does not show what a killed
  install leaves behind (`ListsPending = FALSE` makes `CrashRecovered` fail).
- The table printed under `--no-sandbox-cleanup` does not name the context of a release
  (`_manager.py:200`; `InstructedContext`).
- A cancelled operation gives back the permit that Inspect displays while its thread
  goes on (`_pod/executor.py:92`), against `docs/tips/concurrency.md`.
- `Release` obtains clients in the event loop's thread and uses them in others
  (`_helm.py:244`, `339`), against the docstring of `k8s_client`; hence
  `OwnOpenClient` is about pod operations. The docstring of `_Config` has the order
  of `_load` reversed.
- Services that share a dict through a YAML alias: converting the first empties it for
  the second (`compose/_converter.py:466`; `Aliased`). A null `deploy`, a healthcheck
  without `test` and a `mem_limit` without a unit raise other exceptions than
  `ComposeConverterError` ("crash" in the model). A service renamed to `default` has no
  DNS record under its Compose name (`_converter.py:94`).
- The task name goes after `--set` unescaped (`_helm.py:303`), next to `_helm_escape`
  for metadata; static values files are not checked for nulls (`_helm.py:169`).
- `_helm_escape` escapes the four characters of its docstring, "so the value is passed
  through literally" (`_helm.py:511-513`), and not `{`: a metadata text that begins with
  it, as any JSON object does, is read as a list, or refused because nothing closes it
  (`Braced` in `MetadataDelivered`). TLC finds it when the exception is taken out.
- Metadata keys "referenced in the chart templates or config file" are passed on
  (`_sandbox_environment.py:466-467`), but a Compose file is resolved to no values file
  (`_sandbox_environment.py:619-640`), so a key that only it refers to is not (`Referred`).
- One keepalive frame that fails ends the thread, although the connection may be open
  (`_pod/op.py:212-217`); a command that is silent for longer than the idle timeout
  afterwards loses it (`failed` in `KeptAlive`).

## 4. Proofs

| Module | Theorems | Assumed |
|---|---|---|
| `ReleaseLifecycleProofs` | `TypeCorrect`, `LeftoverTakenOverHolds`, `RemoveFindsReleaseHolds`, `BatchesDisjointHolds` | `ReleaseAssumption` |
| | `NoSilentLeakHolds`, `InstallDeadBeforeUninstallHolds`, `NoResurrectionHolds`, `HelmInstallsBoundedHolds`, and the refinement `KeepsCustodyHolds` | and `MaxCancels <= 1` |
| | `CompleteMeansGoneHolds` | `ReleaseAssumption`, `FaultAssumption` and `ListsPending` |
| | `InstructionsSufficeHolds` | the same two, and `Cleanup` or `OtherContext = {}` |
| | `RecordKeptHolds` | the same two, and `MaxCancels <= 1` |
| `PodIdentityProofs` | `PodTypeCorrect` | `PodAssumption` |
| | `NoReRaiseHolds`, `NoMissedRestartHolds`, `IdentityWasRealHolds`, `FailedExecDiagnosedHolds` | and `Serial`: at most one caller |
| `PodOpsProofs` | `PodOpsInvHolds`, `SettingHonouredHolds`, `AttemptsInTurnHolds`, `ResultIsLastHolds`, `AdmittedWaitsOnlyForAbandonedHolds` | `PodOpsAssumption` |
| `OpStreamProofs` | `StreamTypeCorrect`, `BuffersLimitedHolds`, `NeverBlocksOnSentinelHolds`, `ResultMeansCommandEndedHolds`, `OutputCompleteHolds` | `StreamAssumption` |
| `WriteStreamProofs` | `WrittenMeansCompleteHolds` | `WriteAssumption` |
| `KeepaliveProofs` | `KeptAliveHolds` | `KeepaliveAssumption` |
| `KubeClientsProofs` | `ClientsInvHolds`, `OwnOpenClientHolds`, `LoadedOnceHolds` | `ClientsAssumption` |
| `ValuesProofs` | `ComposeConvertedHolds` | nothing |
| | `MetadataDeliveredHolds` | `MetadataAssumption` |
| | `DefaultResolvedHolds` | `LoadAssumption` |
| | `NothingSilentlyDroppedHolds` | `LoadAssumption`, and `Separate(Load(file))` for every file |
| | `ConvertedAsDeclaredHolds` | the same, and `Readable(Load(file))` for every file |

`IdentityWasReal` and `NeverBlocksOnSentinel` are proved and not part of a run: they
are the safety arguments behind `NoMissedRestart` and `EndsAfterCommand`, which the
runs check. The types of `PodOps` and `KubeClients` are part of the invariants that
their first theorem states.

The additional assumptions are needed; section 3 says what the code does when
`MaxCancels`, `Serial`, `Cleanup` or `OtherContext` are otherwise. Without
`ListsPending`, `CompleteMeansGone` is false with two releases in one context: an
operator who had listed a release before its retry made it pending again fails to
uninstall it, and another operator, who could not see it then, has reported
completion when it shows up as failed. `ClientsAssumption` says that the markers for
"nobody" are not threads, `LoadAssumption` that a loaded mapping has each key once,
`MetadataAssumption` that metadata is text under known keys and that no key is named
like the value for the task's name (the code prefixes them with `sampleMetadata`).
All other assumptions are the types of the constants, and for the keepalive the margin
its comment claims.

`Separate` is what `NothingSilentlyDroppedHolds` asks of a document: the dicts of each
kind (services, health checks, deployments, their resources, the amounts in them,
extensions, the resources in those) are of that kind only, no service is an alias of
another, and a value that the schema wants to be a dict is one or null. A YAML alias
may share a health check or a deployment between services; the theorem covers that. It
does not cover `b: *a` for a whole service: the second one is then converted from an
empty dict, and what it declared is gone without a word.

`Readable` is what `ConvertedAsDeclaredHolds` asks besides: the dicts that the converter
only reads (the top level, the declared volumes, the `requests` and `limits` of an
extension) are none of those it takes keys out of, services and declared volumes are
dicts, and durations are made of numbers. An anchor on a `limits` of `deploy` that an
extension uses as its own `limits` is therefore not covered: the amounts are popped from
it before the extension is merged. TLC evaluates both hypotheses on every document of the
`compose` run (`SeparateFiles`), those with aliases included.

`ListInvWith` holds however often samples are cancelled. A task that is under way is on
the list and no `task_cleanup()` has begun (`ActiveTracked`); a batch is disjoint from
the list (`ChildrenOfCleanup`) and from other batches; after the first `task_cleanup()`
the list is empty or printed (`ListHandedOver`); and a sample that has begun is on the
list or in a batch until `sample_cleanup` has uninstalled its release (`ReleaseOwned`),
which no helm process can bring back because a sample never gets past its install
with one alive, except by cancellation (`ProcStarted`).

`ReleaseInvWith` adds what needs `MaxCancels <= 1`. `NoSilentLeak` speaks of the end of
the eval; to get there one has to know at every moment who answers for a release.
`ReleaseCoveredWith` says it: the list, a child that is still to uninstall it, the
operator, or the cancelled install. `ProcAwaited` (a live helm process has its
coroutine waiting for it) is what one cancellation guarantees and two do not; the
process properties follow from it. `HelmInstallsBounded` needs in addition that the
holders of the install semaphore are no more than the permits, a cardinality
argument over finite sets. The parameter of both are the states, besides the ordinary
ones, in which a fault may leave a child: none for `ReleaseInv`, "interrupted" in
`EvalFaults`, so that one proof of each action serves both.

`KeepsCustody`. Under the mapping each action is one step of the contract
(`EffectOfStep`: `SampleInit` takes, `HelmCreate` creates what is held, a successful
uninstall removes, a failed one and the instructions tell, the others do nothing), the
end of the eval is allowed because `NoSilentLeak` holds then (`LeakReported`), and
nothing happens after it (`SettledStays`).

`CleanupInv`. A calm cluster stays calm and no release comes back in it (`StillCalm`,
`CalmStep`): the eval that has ended does nothing more, and one that died has no
install left to go on. So what a command knows of its releases lasts whatever others
do (`KeptSound`), and `CommandSound` follows it: the list of a calm cluster holds every
release of the context, each listed one is given an uninstall, an uninstall that
succeeded means gone, and a good exit status means that all of them did.

`RecordInv` is `ReleaseInvWith(Interrupted)` for as long as the eval is alive. An
operator's command only removes releases, which none of its clauses forbids.

`PodInv`. The cache is the latest identity made known and all of them were real
(`CacheIsLatest`), and a check in progress still works on what is cached
(`CheckIsFresh`): this is where a second caller breaks the proof, as it breaks the
code. `PreCheckHolds` and `FailureIsRecent` place the pod on which an exec failed
between what the pre-check and the re-check saw.

`PodOpsInv`. A queued call is the current one of an operation that awaits it, queued
once and in no thread (`QueueAwaited`), and a thread runs the last call of its
operation, which awaits it or was cancelled (`ThreadsCurrent`); hence one thread per
operation. An attempt that has still to start its command leaves one to spare
(`StartsCounted`). An operation that has had a result has ended or is at its re-check,
and nothing leads from there to another attempt (`Settled`), which is `ResultIsLast`. `AdmittedWaitsOnlyForAbandoned` counts: if no thread were abandoned,
the operations in the threads and the queued one would hold a permit each, one more
than there are (`PermitsLimited`).

`StreamInv`. exec's round ends with stdout drained and nothing is taken off the
socket before the next blocking update (`StdoutDrained`); the client knows of a
sentinel only what the server sent (`SentinelOnlyIfSent`).

`DeliveryInv`. Frames are numbered as they are sent (`ServerOrder`). Of each channel the
client has taken a prefix, into its output or its buffer, and the rest is on the wire,
in order and with nothing missing, for as long as the output is not truncated (`Flow`
in `Delivery`). The sentinel is in one place at a time (`BufferOrder`), and the loop is
left with the sentinel read, with the close read and the wire empty, or by the limit
error (`LoopOrder`). So once the sentinel is buffered everything before it has been
taken, and once the loop is left it is in the output itself.

`WriteInv`. While the connection is open nothing closes head's stdin, so a head that
ends has counted to the size (`CountedWhileOpen`) and only such a one is reported as a
success (`Reported`); unless a shell starts late, the file holds what the current head
has read, for earlier heads only write chunks in their place (`FileHolds`).

`KeepaliveInv`. The server has been without a frame no longer than the thread has been
in its round, which is at most `Interval + MaxDelay`, as long as no frame has failed
(`WhileWorking`).

`ClientsInv`. A cached client belongs to the thread that caches it and is open
(`CacheOwned`); a closed one is older than any client that can still be made
(`ClosedBefore`: it had reached a positive age), so a new client is never one of them;
a pod operation uses what its own thread has cached and that thread is not renewing
(`UsedByOwner`). The thread that loads holds the lock and saw no configuration
(`OneLoader`).

`ChoiceInv` ties, step by step, what was resolved to the configuration, the source of
the values to what was resolved, and what Helm is given to the source.

`MetadataInv`. After n entries `extra` holds the texts of first entries only, and every
name among them that is mentioned (`Collected`), so an entry that does not clash is
the first of its name; and what is mentioned is what the configuration refers to
(`ResolvedInv`). `EscapeRead` is the result about text: `ReadText(_helm_escape(t))`
is t, with nothing after it; and `_helm_escape(t)` begins with a brace exactly if t does
(`EscapeBraced`), so `ReadValue` gives t as a text, or a list. It goes by induction on the length of a prefix: the pass
for one character leaves alone what the passes before it have written
(`EscapedStage`), so every character of t is written in turn, with a backslash before
it if it is one of the four (`Spells`); and by induction from the end the reading that
starts at the place of the k-th character gives the text from there on.

`NamesInv`. Services are converted in the order of the document, one output name each,
different ones because the names of the document differ and only the service chosen
at the start is renamed. `DefaultResolved` counts the outputs by a bijection with the
services.

`DroppedInv`. The conversion only removes keys from dicts, from each kind of dict only
those that the code pops from it (`Shrunk`); the dicts of the services to come are as
they were loaded (`Untouched`); what has been removed from a dict that services may
share was looked at and accepted, so a service that finds it empty has nothing left to
refuse (`Cleared`); and every key that the current service has lost is in its values,
or folded into another, together with the keys inside it (`Handled`). A service is done
when its dict is empty, so then every key it was loaded with has been handled.

`DeclaredInv`. `ConvertedAsDeclared` compares the values of a service with the document
as it was loaded, while each stage reads the document as the stages before it left it. The
invariant says that the two agree where it matters: a dict that neither an earlier service
nor an earlier stage has reached is as it was loaded (`Frame`); the keys that later stages
take are still in the service's dict (`KeysLeft`); and what they add is not yet in its
values (`Coming`). Then each stage gives what the document declares, and the parts given
so far (`Given`: mounts, probe, amounts from `deploy` or the short keys, isolation, and at
the end the amounts merged with the extension) stay given, for the service at hand and
for those before it. A service that shares no dict with an earlier one finds its dicts
as they were loaded. For the mounts to resolve, the volumes are renamed alike at the top
level (`VolumeNames`).

Inductions over sequences and recursive functions are done with the least member of a
set of naturals (`LeastNatural`, from `WFMin`), because the induction theorems of the
library take an operator as a parameter.

Only model-checked:

- the liveness properties: fairness and ENABLED are out of the prover's reach;
- what the violated run shows.

## 5. Not modelled

- Diagnostics (`_diagnostics.py`), logging, prerequisites: I/O and formatting; the
  await of the diagnosis is a step of `ReleaseLifecycle`.
- The chart and the schemas: templates and data interpreted by helm. The Compose
  schema is a precondition of `ComposeConverter`'s files.
- `_str_to_list`, `_key_to_pascal` and the characters of names: conversions of single
  strings; abstract names, or a constant function, stand for them.
- `connection()` and the kubectl command it formats: no state.
- Lookups of contexts and of the default namespace: reads of the loaded configuration.
- Releases that an eval creates while a cleanup command runs: the documentation warns
  of it and nothing in the code excludes it, hence `calm`.

## 6. Plan

Done: all modules of section 2 with their runs; the theorems of section 4, which
state 33 of the runs' 40 properties: all invariants and the action properties. The other
seven are liveness.

Next: an in-memory `ComposeConfig` and a Compose file as two inputs of one composition of
`SampleValues` and `ComposeConverter`.
