-------------------------- MODULE ComposeConverter --------------------------
(***************************************************************************)
(* convert_compose_to_helm_values: a Compose file, already loaded and       *)
(* validated against the Compose schema, becomes the values of the built-in *)
(* chart.  The converter works by POPPING keys from the loaded dicts, so    *)
(* the dicts are cells of a heap: a YAML alias, or a merge key, makes two   *)
(* places of the document hold the same cell, and what the conversion of    *)
(* one service removes, the next one no longer finds.                       *)
(*                                                                          *)
(* A value is a record told apart by its fields: [ref] a dict, [unit, n] a  *)
(* quantity with a unit, [num] a bare number, [h, m, s] a duration, [null]  *)
(* None, [v] any other scalar.  Wording and log lines are left out.         *)
(***************************************************************************)
EXTENDS Naturals, Sequences, FiniteSets, Functions

CONSTANTS
  Files,     \* Compose files
  Load(_),   \* a file as loaded: [heap, order], order the names of the services
  K8sName    \* a function: what _make_volume_name_k8s_compliant makes of a name

\* A mapping that was loaded has each of its keys once.
ASSUME LoadAssumption ==
  \A file \in Files : LET order == Load(file).order
                       IN order \in Seq(STRING) /\ IsInjective(order)

VARIABLES
  doc,       \* the document as it was loaded
  heap,      \* the loaded dicts: cell -> (key -> value)
  at,        \* the position, in YAML order, of the service being converted
  stage,     \* the part of the conversion that comes next
  result,    \* the values built so far for the service being converted
  out,       \* the values built: [services, volumes, networks, ext]
  status     \* "running", or how the conversion ended

vars == <<doc, heap, at, stage, result, out, status>>

Null == [null |-> TRUE]

\* A dict of one key, and the union of two dicts, in which the first one's value
\* of a common key stands.
k :> v == [x \in {k} |-> v]

f @@ g == [x \in DOMAIN f \cup DOMAIN g |-> IF x \in DOMAIN f THEN f[x] ELSE g[x]]

-----------------------------------------------------------------------------
(* The loaded dicts.  A cell is a name and the number of the service that   *)
(* wrote it, 0 for the top level.                                           *)

TopCell == <<"top", 0>>
ServicesCell == <<"services", 0>>

Get(h, c, k) == IF k \in DOMAIN h[c] THEN h[c][k] ELSE Null

Popped(h, c, keys) == [h EXCEPT ![c] = Restrict(@, DOMAIN @ \ keys)]

IsDict(v) == "ref" \in DOMAIN v

\* Python truth: None and an empty dict are false.
Truthy(h, v) == v # Null /\ (IsDict(v) => DOMAIN h[v.ref] # {})

Cell(i) == heap[ServicesCell][doc.order[i]].ref

src == Cell(at)

Declared(k) == Get(heap, src, k) # Null

-----------------------------------------------------------------------------
(* Conversions of one value.                                                *)

ByteUnits == [b |-> "", k |-> "Ki", kb |-> "Ki", m |-> "Mi", mb |-> "Mi",
              g |-> "Gi", gb |-> "Gi"]

\* re.match() on a number is a TypeError; an unknown unit is reported.
ByteStatus(v) ==
  IF "unit" \notin DOMAIN v THEN "crash"
  ELSE IF v.unit \notin DOMAIN ByteUnits THEN "error" ELSE "ok"

_convert_byte_value(v) == [n |-> v.n, unit |-> ByteUnits[v.unit]]

_duration_to_seconds(v) == v.h * 3600 + v.m * 60 + v.s

_make_volume_name_k8s_compliant(v) == K8sName[v]

-----------------------------------------------------------------------------
(* The steps of the conversion.  Raise ends it: "error" is a                *)
(* ComposeConverterError, "crash" any other Python exception.               *)

Raise(kind) ==
  /\ status' = kind
  /\ UNCHANGED <<doc, heap, at, stage, result, out>>

\* Continue with the next stage of the same service.
Goto(next, h, r) ==
  /\ stage' = next
  /\ heap' = h
  /\ result' = r
  /\ UNCHANGED <<doc, at, out, status>>

In(s) == status = "running" /\ stage = s

\* A rename that takes the first service whatever its marks say.
FirstIsDefault(h, order) ==
  IF "default" \in Range(order) \/ Len(order) <= 1 THEN Null ELSE [v |-> order[1]]

\* The service to rename, or Null; YAML order decides between equals.
_determine_default_service(h, order) ==
  LET marked == {i \in DOMAIN order :
                   Get(h, h[ServicesCell][order[i]].ref, "x-default") = [v |-> "true"]}
  IN IF "default" \in Range(order) \/ (marked = {} /\ Len(order) <= 1) THEN Null
     ELSE [v |-> order[IF marked = {} THEN 1
                       ELSE CHOOSE i \in marked : \A j \in marked : i <= j]]

\* Decided once, before any service is converted.
OutputName(name) ==
  IF [v |-> name] = _determine_default_service(doc.heap, doc.order)
  THEN "default" ELSE name

\* 'services' is required, but may be empty.
FirstStage ==
  IF Get(doc.heap, TopCell, "services") = Null THEN "noServices"
  ELSE IF Len(doc.order) > 0 THEN "plain" ELSE "volumes"

Init ==
  /\ \E file \in Files : doc = Load(file)
  /\ heap = doc.heap
  /\ at = 1
  /\ stage = FirstStage
  /\ result = <<>>
  /\ out = [services |-> <<>>, volumes |-> {}, networks |-> {}, ext |-> <<>>]
  /\ status = "running"

NoServices == In("noServices") /\ Raise("error")

\* Keys that are moved under another name, and those whose value is rewritten.
PlainKeys == [runtime |-> "runtimeClassName", image |-> "image",
              entrypoint |-> "command", command |-> "args",
              working_dir |-> "workingDir", environment |-> "env"]

\* An environment or volumes list item without its separator is [bad].
BadItem(k) == Declared(k) /\ "bad" \in DOMAIN Get(heap, src, k)

Mounts(v) == {<<_make_volume_name_k8s_compliant(m[1]), m[2]>> : m \in v.mounts}

Plain ==
  /\ In("plain")
  /\ \/ (BadItem("environment") \/ BadItem("volumes")) /\ Raise("error")
     \/ /\ ~BadItem("environment") /\ ~BadItem("volumes")
        /\ LET moved == {k \in DOMAIN PlainKeys : Declared(k)}
           IN Goto("healthcheck",
                   Popped(heap, src, DOMAIN PlainKeys \cup {"volumes"}),
                   [d \in {PlainKeys[k] : k \in moved} |->
                      heap[src][CHOOSE k \in moved : PlainKeys[k] = d]]
                   @@ ("dnsRecord" :> TRUE)
                   @@ (IF Declared("volumes")
                       THEN "volumes" :> Mounts(heap[src]["volumes"]) ELSE <<>>))

ProbeKeys == [start_period |-> "initialDelaySeconds", interval |-> "periodSeconds",
              timeout |-> "timeoutSeconds", retries |-> "failureThreshold"]

\* N retries become a threshold of N + 1; the other keys are durations.
ProbeValue(k, v) == IF k = "retries" THEN v.num + 1 ELSE _duration_to_seconds(v)

BadProbeValue(k, v) == k # "retries" /\ "h" \notin DOMAIN v

_healthcheck_to_readiness_probe ==
  /\ In("healthcheck")
  /\ \/ /\ ~Declared("healthcheck")
        /\ Goto("deploy", Popped(heap, src, {"healthcheck"}), result)
     \/ /\ Declared("healthcheck")
        /\ LET c == heap[src]["healthcheck"].ref
               timed == {k \in DOMAIN ProbeKeys : Get(heap, c, k) # Null}
               left == DOMAIN heap[c] \ ({"test", "start_interval"} \cup DOMAIN ProbeKeys)
               bad == \/ heap[c]["test"].v \notin {"CMD", "CMD-SHELL"}
                      \/ \E k \in timed : BadProbeValue(k, heap[c][k])
                      \/ left # {}
           IN \/ "test" \notin DOMAIN heap[c] /\ Raise("crash")
              \/ "test" \in DOMAIN heap[c] /\ bad /\ Raise("error")
              \/ /\ "test" \in DOMAIN heap[c] /\ ~bad
                 /\ Goto("deploy",
                      Popped(Popped(heap, c, DOMAIN heap[c]), src, {"healthcheck"}),
                      result @@ ("readinessProbe" :>
                        [d \in {ProbeKeys[k] : k \in timed} |->
                           LET k == CHOOSE k \in timed : ProbeKeys[k] = d
                           IN ProbeValue(k, heap[c][k])]))

-----------------------------------------------------------------------------
(* Resources.  A helper that pops returns the heap it leaves, what it built *)
(* and "ok", "error" or "crash".                                            *)

Ret(h, v, st) == [heap |-> h, val |-> v, st |-> st]

\* The amounts a dict declares, under their Kubernetes names.
Amounts(h, c, keys) ==
  [k \in {k \in DOMAIN keys : Get(h, c, keys[k]) # Null} |->
     IF k = "memory" THEN _convert_byte_value(h[c][keys[k]]) ELSE h[c][keys[k]]]

MemoryStatus(v) == IF v = Null THEN "ok" ELSE ByteStatus(v)

\* limits, or reservations; nothing is built of an empty or missing one.
_convert_resource(h, v) ==
  IF ~Truthy(h, v) THEN Ret(h, Null, "ok")
  ELSE LET keys == [cpu |-> "cpus", memory |-> "memory"]
           mem == MemoryStatus(Get(h, v.ref, "memory"))
           st == IF mem = "ok" /\ DOMAIN h[v.ref] \ Range(keys) # {} THEN "error" ELSE mem
       IN Ret(Popped(h, v.ref, Range(keys)),
              IF st = "ok" THEN Amounts(h, v.ref, keys) ELSE Null, st)

_convert_resources(h, c) ==
  LET lim == _convert_resource(Popped(h, c, {"limits"}), Get(h, c, "limits"))
      res == _convert_resource(Popped(lim.heap, c, {"reservations"}),
                               Get(h, c, "reservations"))
      st == IF lim.st # "ok" THEN lim.st
            ELSE IF res.st = "ok" /\ DOMAIN res.heap[c] # {} THEN "error" ELSE res.st
      section(name, r) == IF r.val = Null THEN <<>> ELSE name :> r.val
  IN Ret(res.heap, section("limits", lim) @@ section("requests", res), st)

_set_requests_to_limits_if_unset(r) ==
  IF "limits" \in DOMAIN r /\ "requests" \notin DOMAIN r
  THEN r @@ ("requests" :> r["limits"]) ELSE r

\* deploy.resources takes precedence over the shortcuts mem_limit and cpus.
_convert_deploy ==
  LET short == [cpu |-> "cpus", memory |-> "mem_limit"]
      h0 == Popped(heap, src, {"mem_limit", "cpus", "deploy"})
      v == Get(heap, src, "deploy")
      resources == IF v = Null THEN Null ELSE Get(h0, v.ref, "resources")
      h1 == IF v = Null THEN h0 ELSE Popped(h0, v.ref, {"resources"})
      mem == MemoryStatus(Get(heap, src, "mem_limit"))
      built == IF Truthy(h1, resources) THEN _convert_resources(h1, resources.ref)
               ELSE Ret(h1, IF mem # "ok" \/ \A k \in Range(short) : ~Declared(k) THEN <<>>
                            ELSE "limits" :> Amounts(heap, src, short), mem)
      made == _set_requests_to_limits_if_unset(built.val)
      kept == Truthy(h1, resources) \/ DOMAIN made # {}
  IN /\ In("deploy")
     /\ \/ "deploy" \in DOMAIN heap[src] /\ v = Null /\ Raise("crash")
        \/ /\ "deploy" \in DOMAIN heap[src] => v # Null
           /\ \/ built.st # "ok" /\ Raise(built.st)
              \/ /\ built.st = "ok"
                 /\ \/ v # Null /\ DOMAIN built.heap[v.ref] # {} /\ Raise("error")
                    \/ /\ v # Null => DOMAIN built.heap[v.ref] = {}
                       /\ Goto("security", built.heap,
                               IF kept THEN result @@ ("resources" :> made) ELSE result)

-----------------------------------------------------------------------------
(* user and security_opt share the security context; a later seccomp entry  *)
(* replaces an earlier one, and any other option is refused.                *)

Profile == [unconfined |-> "Unconfined", builtin |-> "RuntimeDefault",
            relative |-> "Localhost"]

Seccomp(opts) ==
  LET at_ == {i \in DOMAIN opts : opts[i][1] = "seccomp"}
  IN IF at_ = {} THEN <<>>
     ELSE "seccompProfile" :> Profile[opts[CHOOSE i \in at_ : \A j \in at_ : j <= i][2]]

BadOption(opts) ==
  \E i \in DOMAIN opts : opts[i][1] # "seccomp" \/ opts[i][2] \notin DOMAIN Profile

BadUser == Declared("user") /\ "bad" \in DOMAIN heap[src]["user"]

_user_to_security_context(u) ==
  ("runAsUser" :> u.uid) @@ (IF "gid" \in DOMAIN u THEN "runAsGroup" :> u.gid ELSE <<>>)

Security ==
  LET opts == IF Declared("security_opt") THEN heap[src]["security_opt"].opts ELSE <<>>
      context == (IF Declared("user") THEN _user_to_security_context(heap[src]["user"])
                  ELSE <<>>) @@ Seccomp(opts)
  IN /\ In("security")
     /\ \/ (BadUser \/ BadOption(opts)) /\ Raise("error")
        \/ /\ ~BadUser /\ ~BadOption(opts)
           /\ Goto("network",
                   Popped(heap, src, {"user", "security_opt", "memswap_limit"}),
                   IF DOMAIN context = {} THEN result
                   ELSE result @@ ("securityContext" :> context))

\* network_mode none isolates the service and excludes networks; bridge is
\* Docker's default and changes nothing.
Network ==
  LET mode == Get(heap, src, "network_mode")
      none == mode = [v |-> "none"]
      refused == (none /\ Declared("networks")) \/ mode \notin {Null, [v |-> "none"], [v |-> "bridge"]}
      h == Popped(heap, src, {"network_mode"})
  IN /\ In("network")
     /\ \/ refused /\ Raise("error")
        \/ ~refused /\ none /\ Goto("hostname", h, result @@ ("networkIsolated" :> TRUE))
        \/ /\ ~refused /\ ~none
           /\ Goto("hostname", Popped(h, src, {"networks"}),
                   IF Declared("networks")
                   THEN result @@ ("networks" :> heap[src]["networks"]) ELSE result)

IgnoredKeys == {"expose", "init", "x-local", "build", "x-default"}

\* Only the service's own name is accepted; the ignored keys are only logged.
Hostname ==
  LET host == Get(heap, src, "hostname")
      other == host # Null /\ host # [v |-> doc.order[at]]
  IN /\ In("hostname")
     /\ \/ other /\ Raise("error")
        \/ /\ ~other
           /\ Goto("extension", Popped(heap, src, {"hostname"} \cup IgnoredKeys), result)

ExtensionKeys == {"x-inspect_k8s_sandbox", "x-k8s"}

\* The extension of a dict, under either of its names.
Extension(h, c) ==
  LET present == DOMAIN h[c] \cap ExtensionKeys
  IN IF present = {} THEN Null ELSE h[c][CHOOSE k \in present : TRUE]

BothKeys(c) == ExtensionKeys \subseteq DOMAIN heap[c]

OverrideSilently(built, h, c) == FALSE

\* A key that the shortcuts already set is a conflict.
Conflict(built, h, c) ==
  \E sec \in {"requests", "limits"} :
    /\ Get(h, c, sec) # Null /\ sec \in DOMAIN built
    /\ DOMAIN h[h[c][sec].ref] \cap DOMAIN built[sec] # {}

_merge_extension_resources(built, h, c) ==
  LET sections == {sec \in {"requests", "limits"} : Get(h, c, sec) # Null}
  IN [sec \in DOMAIN built \cup sections |->
        (IF sec \in sections THEN h[h[c][sec].ref] ELSE <<>>)
        @@ (IF sec \in DOMAIN built THEN built[sec] ELSE <<>>)]

_apply_service_extensions ==
  LET ext == Extension(heap, src)
      h0 == Popped(heap, src, ExtensionKeys)
  IN /\ In("extension")
     /\ \/ (BothKeys(src) \/ (ext # Null /\ ~IsDict(ext))) /\ Raise("error")
        \/ ~BothKeys(src) /\ ext = Null /\ Goto("leftover", h0, result)
        \/ /\ ~BothKeys(src) /\ ext # Null /\ IsDict(ext)
           /\ LET more == Get(h0, ext.ref, "resources")
                  h1 == Popped(h0, ext.ref, {"resources"})
                  built == IF "resources" \in DOMAIN result THEN result["resources"] ELSE <<>>
                  bad == \/ DOMAIN h1[ext.ref] # {}
                         \/ /\ more # Null
                            /\ IsDict(more) =>
                                 \/ DOMAIN h1[more.ref] \ {"requests", "limits"} # {}
                                 \/ \E sec \in {"requests", "limits"} :
                                      Get(h1, more.ref, sec) # Null /\ ~IsDict(h1[more.ref][sec])
                                 \/ Conflict(built, h1, more.ref)
              IN \/ bad /\ Raise("error")
                 \/ ~bad /\ more = Null /\ Goto("leftover", h1, result)
                 \/ /\ ~bad /\ more # Null
                    /\ Goto("leftover", Popped(h1, more.ref, {"requests", "limits"}),
                            ("resources" :> _merge_extension_resources(built, h1, more.ref))
                            @@ result)

NoLeftoverCheck(c) == {}

LeftoverKeys(c) == DOMAIN heap[c]

LastService == at = Len(doc.order)

\* A key that no stage took is an error; then the next service, if any.
ServiceDone ==
  /\ In("leftover")
  /\ \/ LeftoverKeys(src) # {} /\ Raise("error")
     \/ /\ LeftoverKeys(src) = {}
        /\ out' = [out EXCEPT !.services = (OutputName(doc.order[at]) :> result) @@ @]
        /\ at' = at + 1
        /\ stage' = IF LastService THEN "volumes" ELSE "plain"
        /\ result' = <<>>
        /\ UNCHANGED <<doc, heap, status>>

-----------------------------------------------------------------------------
(* The top-level keys, after the services.                                  *)

GotoTop(next, h, o) ==
  /\ stage' = next
  /\ heap' = h
  /\ out' = o
  /\ UNCHANGED <<doc, at, result, status>>

\* The entries of a top-level section; None and {} have none.
Entries(k) == LET v == Get(heap, TopCell, k) IN IF v = Null THEN <<>> ELSE heap[v.ref]

\* A volume with any setting is refused.
_convert_volumes ==
  LET src_ == Entries("volumes")
      bad == \E n \in DOMAIN src_ : Truthy(heap, src_[n])
  IN /\ In("volumes")
     /\ \/ bad /\ Raise("error")
        \/ /\ ~bad
           /\ GotoTop("networks", Popped(heap, TopCell, {"volumes"}),
                [out EXCEPT !.volumes =
                   {_make_volume_name_k8s_compliant(n) : n \in DOMAIN src_}])

\* A network must be a dict of at most a bridge driver (not a null one) and
\* 'internal'.
BadNetwork(v) ==
  \/ ~IsDict(v)
  \/ "driver" \in DOMAIN heap[v.ref] /\ heap[v.ref]["driver"] # [v |-> "bridge"]
  \/ DOMAIN heap[v.ref] \ {"driver", "internal"} # {}

_convert_networks ==
  LET src_ == Entries("networks")
      bad == \E n \in DOMAIN src_ : BadNetwork(src_[n])
      cells == {src_[n].ref : n \in DOMAIN src_}
  IN /\ In("networks")
     /\ \/ bad /\ Raise("error")
        \/ /\ ~bad
           /\ GotoTop("extensions",
                [c \in DOMAIN heap |-> IF c \in cells THEN <<>>
                                       ELSE Popped(heap, TopCell, {"networks"})[c]],
                [out EXCEPT !.networks = DOMAIN src_])

\* The type each extension key must have.
ExtensionTypes ==
  [allow_domains |-> "list", allow_entities |-> "list", service_account_name |-> "str",
   automount_service_account_token |-> "bool", service_account_create |-> "bool"]

_convert_extensions ==
  LET ext == Extension(heap, TopCell)
      h == Popped(heap, TopCell, ExtensionKeys)
      \* allow_domains and allow_entities may be null, the others may not.
      given == {k \in DOMAIN heap[ext.ref] :
                  ~(heap[ext.ref][k] = Null /\ k \in {"allow_domains", "allow_entities"})}
      bad == \E k \in given : \/ k \notin DOMAIN ExtensionTypes
                               \/ heap[ext.ref][k] = Null
                               \/ heap[ext.ref][k].type # ExtensionTypes[k]
  IN /\ In("extensions")
     /\ \/ BothKeys(TopCell) /\ Raise("error")
        \/ ~BothKeys(TopCell) /\ ~Truthy(heap, ext) /\ GotoTop("top", h, out)
        \/ ~BothKeys(TopCell) /\ Truthy(heap, ext) /\ ~IsDict(ext) /\ Raise("crash")
        \/ /\ ~BothKeys(TopCell) /\ Truthy(heap, ext) /\ IsDict(ext)
           /\ \/ bad /\ Raise("error")
              \/ /\ ~bad
                 /\ GotoTop("top", Popped(h, ext.ref, DOMAIN heap[ext.ref]),
                            [out EXCEPT !.ext = Restrict(heap[ext.ref], given)])

\* 'services' was taken first, 'version' is ignored; any other key left is an error.
TopDone ==
  /\ In("top")
  /\ status' = IF DOMAIN heap[TopCell] \ {"services", "version"} = {} THEN "done" ELSE "error"
  /\ UNCHANGED <<doc, heap, at, stage, result, out>>

Ended == status # "running" /\ UNCHANGED vars

Next ==
  \/ NoServices \/ Plain \/ _healthcheck_to_readiness_probe \/ _convert_deploy \/ Security
  \/ Network \/ Hostname \/ _apply_service_extensions \/ ServiceDone
  \/ _convert_volumes \/ _convert_networks \/ _convert_extensions \/ TopDone \/ Ended

Spec == Init /\ [][Next]_vars

-----------------------------------------------------------------------------
(* Properties, stated over the document as it was loaded.                   *)

\* The values of the service that is i-th in YAML order.
Converted(i) == out.services[OutputName(doc.order[i])]

Said(i, k) == Get(doc.heap, doc.heap[ServicesCell][doc.order[i]].ref, k)

Under(v, k) == IF v = Null \/ ~IsDict(v) THEN Null ELSE Get(doc.heap, v.ref, k)

\* The amounts a dict of the document declares, with the shortcut's names.
AmountSaid(v, k, names) ==
  LET x == Under(v, names[k])
  IN IF x # Null /\ k = "memory" THEN [n |-> x.n, unit |-> ByteUnits[x.unit]] ELSE x

\* The section of deploy.resources if that says anything, else, for the limits,
\* the service itself, which has the shortcuts; with the names of its amounts.
ResourcesSaid(i) == Under(Said(i, "deploy"), "resources")

Own(i, sec) ==
  IF Truthy(doc.heap, ResourcesSaid(i))
  THEN Under(ResourcesSaid(i), IF sec = "limits" THEN "limits" ELSE "reservations")
  ELSE IF sec = "limits" THEN doc.heap[ServicesCell][doc.order[i]] ELSE Null

AmountNames(i) ==
  IF Truthy(doc.heap, ResourcesSaid(i)) THEN [cpu |-> "cpus", memory |-> "memory"]
  ELSE [cpu |-> "cpus", memory |-> "mem_limit"]

\* A request that nothing sets is the limit.
Derived(i, sec, k) ==
  LET from == IF sec = "requests" /\ Truthy(doc.heap, Own(i, "requests"))
              THEN "requests" ELSE "limits"
  IN IF k \in DOMAIN AmountNames(i) THEN AmountSaid(Own(i, from), k, AmountNames(i)) ELSE Null

ExtensionSaid(i, sec) ==
  Under(Under(Extension(doc.heap, doc.heap[ServicesCell][doc.order[i]].ref), "resources"), sec)

\* The values a service's own declarations ask for, the extension's and the
\* derived one.  Two are a conflict.
Asked(i, sec, k) == {Under(ExtensionSaid(i, sec), k), Derived(i, sec, k)} \ {Null}

Built(i, sec, k) ==
  IF /\ "resources" \in DOMAIN Converted(i)
     /\ sec \in DOMAIN Converted(i)["resources"]
     /\ k \in DOMAIN Converted(i)["resources"][sec]
  THEN Converted(i)["resources"][sec][k] ELSE Null

ResourcesAsDeclared(i) ==
  \A sec \in {"requests", "limits"}, k \in {"cpu", "memory", "ephemeral-storage"} :
    {Built(i, sec, k)} \ {Null} = Asked(i, sec, k)

ProbeAsDeclared(i) ==
  LET probe(d) == Converted(i)["readinessProbe"][d]
      check == Said(i, "healthcheck")
  IN check # Null =>
       /\ "readinessProbe" \in DOMAIN Converted(i)
       /\ \A k \in DOMAIN ProbeKeys \ {"retries"} : LET d == Under(check, k) IN
            d # Null => probe(ProbeKeys[k]) = d.s + 60 * (d.m + 60 * d.h)
       /\ Under(check, "retries") # Null =>
            probe("failureThreshold") = Under(check, "retries").num + 1

\* The dicts of a document by what they are: of the services, and those that the
\* dicts cs hold under one of the keys ks.
ServiceCell(d, i) == d.heap[ServicesCell][d.order[i]].ref

Services(d) == {ServiceCell(d, i) : i \in DOMAIN d.order}

Inside(d, cs, ks) ==
  UNION {{d.heap[c][k].ref : k \in {k \in ks \cap DOMAIN d.heap[c] : IsDict(d.heap[c][k])}} : c \in cs}

Healthchecks(d) == Inside(d, Services(d), {"healthcheck"})
Deploys(d) == Inside(d, Services(d), {"deploy"})
Resources(d) == Inside(d, Deploys(d), {"resources"})
AmountDicts(d) == Inside(d, Resources(d), {"limits", "reservations"})
Extensions(d) == Inside(d, Services(d), ExtensionKeys)
ExtResources(d) == Inside(d, Extensions(d), {"resources"})

\* The dicts below service i that its conversion takes keys out of.
HealthDicts(d, i) == Inside(d, {ServiceCell(d, i)}, {"healthcheck"})

DeployDicts(d, i) ==
  LET deploy == Inside(d, {ServiceCell(d, i)}, {"deploy"})
      resources == Inside(d, deploy, {"resources"})
  IN deploy \cup resources \cup Inside(d, resources, {"limits", "reservations"})

ExtensionDicts(d, i) ==
  LET ext == Inside(d, {ServiceCell(d, i)}, ExtensionKeys)
  IN ext \cup Inside(d, ext, {"resources"})

Nested(d, i) == HealthDicts(d, i) \cup DeployDicts(d, i) \cup ExtensionDicts(d, i)

\* A dict of service i is also one of a service before it (a YAML alias).
Aliased(i) == \E j \in 1 .. i - 1 : Nested(doc, i) \cap Nested(doc, j) # {}

\* A mount of a declared volume still names a declared volume: the renaming
\* for Kubernetes is the same in the mounts and in the top-level section.
MountsResolve(i) ==
  LET said == Said(i, "volumes")
      declared == Under([ref |-> TopCell], "volumes")
  IN said # Null /\ declared # Null =>
       \A m \in said.mounts : m[1] \in DOMAIN doc.heap[declared.ref] =>
         \E w \in Converted(i)["volumes"] : w[2] = m[2] /\ w[1] \in out.volumes

\* What a conversion that succeeds gives a service is what the service's own
\* keys ask for: its limits and requests (the extension merged with what
\* deploy.resources, or else mem_limit and cpus, set), its probe, its mounts and
\* its isolation.  It depends on nothing that the conversion of another service
\* popped from the document before, unless the two share a dict through a YAML
\* alias, which the first conversion empties.
ConvertedAsDeclared ==
  status = "done" => \A i \in DOMAIN doc.order : ~Aliased(i) =>
    /\ ResourcesAsDeclared(i)
    /\ ProbeAsDeclared(i)
    /\ MountsResolve(i)
    /\ ("networkIsolated" \in DOMAIN Converted(i)) <=> (Said(i, "network_mode") = [v |-> "none"])

\* Aliases share dicts of one kind only, and no service is an alias of another;
\* where the Compose schema wants a dict there is a dict, or nothing.
Separate(d) ==
  LET kinds == <<{ServicesCell}, Services(d), Healthchecks(d), Deploys(d), Resources(d),
                 AmountDicts(d), Extensions(d), ExtResources(d)>>
      dictOrNull(c, k) == Get(d.heap, c, k) = Null \/ IsDict(Get(d.heap, c, k))
  IN /\ \A i, j \in DOMAIN d.order : ServiceCell(d, i) = ServiceCell(d, j) => i = j
     /\ \A m, n \in DOMAIN kinds : m < n => kinds[m] \cap kinds[n] = {}
     /\ \A n \in DOMAIN kinds : kinds[n] \subseteq DOMAIN d.heap
     /\ \A c \in Services(d) : dictOrNull(c, "healthcheck") /\ dictOrNull(c, "deploy")
     /\ \A c \in Deploys(d) : dictOrNull(c, "resources")
     /\ \A c \in Resources(d) : dictOrNull(c, "limits") /\ dictOrNull(c, "reservations")

\* What the conversion of the services only reads is in none of the dicts that it
\* takes keys out of: the top level, its volumes and the sections of an extension.
\* A service and the declared volumes are dicts, and a duration is made of numbers.
Readable(d) ==
  LET read == {TopCell} \cup Inside(d, {TopCell}, {"volumes"})
                \cup Inside(d, ExtResources(d), {"requests", "limits"})
      volumes == Get(d.heap, TopCell, "volumes")
  IN /\ read \subseteq DOMAIN d.heap
     /\ read \cap (Services(d) \cup UNION {Nested(d, i) : i \in DOMAIN d.order}) = {}
     /\ \A i \in DOMAIN d.order : IsDict(d.heap[ServicesCell][d.order[i]])
     /\ volumes = Null \/ IsDict(volumes)
     /\ \A c \in Healthchecks(d) : \A k \in DOMAIN d.heap[c] : LET v == d.heap[c][k] IN
          "h" \in DOMAIN v => v.h \in Nat /\ v.m \in Nat /\ v.s \in Nat

\* Keys whose effect is not a key of the same meaning in the values: ignored
\* with a log line, or folded into resources or isolation (see above), or a list
\* that may be empty.
FoldedKeys == IgnoredKeys \cup ExtensionKeys \cup
  {"memswap_limit", "hostname", "network_mode", "deploy", "mem_limit", "cpus", "security_opt"}

HelmKeys == PlainKeys @@ [volumes |-> "volumes", healthcheck |-> "readinessProbe",
  user |-> "securityContext", networks |-> "networks"]

\* What the converter does not support it refuses: when it succeeds, every
\* key that a service set, and every key inside its deploy, resources,
\* healthcheck and extension, has been converted or is one of those documented
\* as ignored, and every security option is a seccomp profile that was set.
NothingSilentlyDropped ==
  status = "done" => \A i \in DOMAIN doc.order :
    LET self == doc.heap[ServicesCell][doc.order[i]]
        res == Under(Said(i, "deploy"), "resources")
        keysIn(v) == IF v = Null THEN {} ELSE DOMAIN doc.heap[v.ref]
    IN /\ \A k \in keysIn(self) : Said(i, k) # Null =>
            k \in FoldedKeys \/ (k \in DOMAIN HelmKeys /\ HelmKeys[k] \in DOMAIN Converted(i))
       /\ keysIn(Said(i, "deploy")) \subseteq {"resources"}
       /\ keysIn(res) \subseteq {"limits", "reservations"}
       /\ \A sec \in {"limits", "reservations"} :
            keysIn(Under(res, sec)) \subseteq {"cpus", "memory"}
       /\ keysIn(Said(i, "healthcheck"))
            \subseteq {"test", "start_interval"} \cup DOMAIN ProbeKeys
       /\ \A k \in ExtensionKeys :
            /\ keysIn(Said(i, k)) \subseteq {"resources"}
            /\ keysIn(Under(Said(i, k), "resources")) \subseteq {"requests", "limits"}
       /\ Said(i, "security_opt") # Null =>
            \A j \in DOMAIN Said(i, "security_opt").opts :
              /\ Said(i, "security_opt").opts[j][1] = "seccomp"
              /\ "securityContext" \in DOMAIN Converted(i)

\* The documented order: a service named default, else one with x-default,
\* else the first of several in YAML order; and no service is lost to the
\* renaming.
DefaultResolved ==
  status = "done" =>
    LET names == doc.order
        marked(i) == Said(i, "x-default") = [v |-> "true"]
        isDefault(i) == "default" = OutputName(names[i])
    IN /\ Cardinality(DOMAIN out.services) = Len(names)
       /\ \A i \in DOMAIN names : isDefault(i) =>
            \/ names[i] = "default"
            \/ "default" \notin Range(names) /\ marked(i)
            \/ "default" \notin Range(names) /\ i = 1 /\ \A j \in DOMAIN names : ~marked(j)
       /\ Len(names) > 1 => "default" \in DOMAIN out.services

====
