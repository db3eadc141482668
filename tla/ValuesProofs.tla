---------------------------- MODULE ValuesProofs ----------------------------
(***************************************************************************)
(* Proofs about the way from a sample's configuration to Helm's arguments   *)
(* (SampleValues) and about the Compose converter on it (ComposeConverter), *)
(* for every configuration and every loaded document.                       *)
(***************************************************************************)
EXTENDS ComposeConverter, SampleValues, FiniteSetTheorems, WellFoundedInduction, TLAPS

-----------------------------------------------------------------------------
(* SampleValues: what is known of the choices made at each step.            *)

\* What Resolve leaves stands for the configuration as the user gave it.
ResolvedFrom ==
    /\ resolved.chart = IF config.kind = "k8s" /\ config.chart # "none" THEN "custom" ELSE "builtin"
    /\ resolved.values = IF ToCompose THEN NoFile ELSE config.file
    /\ resolved.compose = IF ToCompose THEN config.file ELSE NoFile

\* Only the built-in chart is installed with converted values.
SourceChosen == source = SourceOf /\ (source # "static" => resolved.chart = "builtin")

ChoiceInv ==
    /\ pc \in {"resolve", "metadata", "values", "install", "installed", "error"}
    /\ pc \in {"metadata", "values", "install", "installed"} => ResolvedFrom
    /\ pc \in {"values", "install", "installed"} => SourceChosen
    /\ pc \in {"install", "installed"} =>
          passed = IF source # "static" THEN "converted"
                   ELSE IF resolved.values = NoFile THEN "none" ELSE "asIs"

\* Every step keeps ChoiceInv.
LEMMA ChoiceStep ==
    ASSUME ChoiceInv, [ValuesNext]_valuesVars
    PROVE  ChoiceInv'
  <1> USE DEF ChoiceInv
  <1>1. CASE Resolve
    <2>1. CASE Fail
      BY <2>1 DEF Fail
    <2>2. CASE pc' = "metadata"
      BY <1>1, <2>2 DEF Resolve, Fail, ResolvedFrom, ToCompose
    <2> QED
      BY <1>1, <2>1, <2>2 DEF Resolve
  <1>2. CASE ConvertKey
    BY <1>2 DEF ConvertKey, ResolvedFrom, ToCompose
  <1>3. CASE _create_values_source
    <2>1. CASE Fail
      BY <2>1 DEF Fail
    <2>2. ASSUME ~Fail
          PROVE  ChoiceInv'
      <3>1. /\ pc = "metadata" /\ pc' = "values" /\ source' = SourceOf
            /\ UNCHANGED <<config, resolved, passed>>
            /\ SourceOf = "static" \/ resolved.chart = "builtin"
        BY <1>3, <2>2 DEF _create_values_source
      <3>2. SourceOf' = SourceOf
        BY <3>1 DEF SourceOf, is_docker_compose_file
      <3> QED
        BY <3>1, <3>2 DEF SourceChosen, ResolvedFrom, ToCompose
    <2> QED
      BY <2>1, <2>2
  <1>4. CASE ValuesFile
    BY <1>4 DEF ValuesFile, Fail, SourceChosen, SourceOf, is_docker_compose_file,
       ResolvedFrom, ToCompose
  <1>5. CASE _install
    BY <1>5 DEF _install, Fail, SourceChosen, SourceOf, is_docker_compose_file,
       ResolvedFrom, ToCompose
  <1>6. CASE ValuesEnded \/ UNCHANGED valuesVars
    BY <1>6 DEF ValuesEnded, valuesVars, SourceChosen, SourceOf, is_docker_compose_file,
       ResolvedFrom, ToCompose
  <1> QED
    BY <1>1, <1>2, <1>3, <1>4, <1>5, <1>6 DEF ValuesNext

\* A file with a Compose file's name is converted, so with the built-in chart.
LEMMA ChoiceImpliesConverted ==
    ASSUME ChoiceInv
    PROVE  ComposeConverted
  <1> SUFFICES ASSUME pc = "installed"
               PROVE  /\ config.file.name \in {"compose", "prefixed"} => passed = "converted"
                      /\ passed = "converted" => config.kind # "k8s" \/ config.chart = "none"
    BY DEF ComposeConverted
  <1>1. ResolvedFrom /\ SourceChosen
    BY DEF ChoiceInv
  <1>2. ASSUME config.file.name \in {"compose", "prefixed"}
        PROVE  source # "static"
    <2>1. config.file # NoFile
      BY <1>2 DEF NoFile
    <2> QED
      BY <1>1, <1>2, <2>1 DEF ResolvedFrom, SourceChosen, SourceOf, is_docker_compose_file
  <1> QED
    BY <1>1, <1>2 DEF ChoiceInv, ResolvedFrom, SourceChosen

\* However a Compose file was configured, Helm is given the values converted
\* from it, and what is converted is installed with the built-in chart
\* (_create_values_source, ComposeValuesSource): for any configurations.
THEOREM ComposeConvertedHolds == ValuesSpec => []ComposeConverted
  <1>1. ValuesInit => ChoiceInv
    BY DEF ValuesInit, ChoiceInv
  <1>2. ChoiceInv /\ [ValuesNext]_valuesVars => ChoiceInv'
    BY ChoiceStep
  <1>3. ChoiceInv => ComposeConverted
    BY ChoiceImpliesConverted
  <1> QED
    BY <1>1, <1>2, <1>3, PTL DEF ValuesSpec

-----------------------------------------------------------------------------
(* Natural numbers.                                                         *)

\* A set of natural numbers with a member has a least one.
LEMMA LeastNatural ==
    ASSUME NEW S \in SUBSET Nat, S # {}
    PROVE  \E m \in S : \A k \in S : m <= k
  <1> DEFINE R == OpToRel(<, Nat)
  <1>1. IsWellFoundedOn(R, Nat)
    BY NatLessThanWellFounded
  <1>2. \A x, y \in Nat : <<y, x>> \in R <=> y < x
    BY DEF OpToRel
  <1> HIDE DEF R
  <1>3. \E x \in S : \A y \in S : ~(<<y, x>> \in R)
    BY <1>1, WFMin
  <1>4. PICK x \in S : \A y \in S : ~(<<y, x>> \in R)
    BY <1>3
  <1>5. ASSUME NEW y \in S
        PROVE  x <= y
    <2>1. x \in Nat /\ y \in Nat /\ ~(y < x)
      BY <1>2, <1>4
    <2> QED
      BY <2>1
  <1> QED
    BY <1>5

-----------------------------------------------------------------------------
(* ComposeConverter: the names of the services.                             *)

ServiceStages == {"plain", "healthcheck", "deploy", "security", "network", "hostname",
                  "extension", "leftover"}

TopStages == {"volumes", "networks", "extensions", "top"}

\* The services before the current one have been converted, each under its own
\* output name, and the top level comes after the last of them.
NamesInv ==
    /\ \E file \in Files : doc = Load(file)
    /\ stage \in ServiceStages \cup TopStages \cup {"noServices"}
    /\ at \in 1 .. Len(doc.order) + 1
    /\ stage \in ServiceStages => at <= Len(doc.order)
    /\ stage \in TopStages => at = Len(doc.order) + 1
    /\ status = "done" => stage = "top"
    /\ "services" \in DOMAIN out
    /\ DOMAIN out.services = {OutputName(doc.order[i]) : i \in 1 .. at - 1}

\* A step raises, passes on to the next stage of the service or of the top
\* level, or finishes the service or the document.
StepForms ==
    \/ UNCHANGED <<doc, heap, at, stage, result, out>> /\ status' # "done"
    \/ /\ status = "running" /\ stage \in ServiceStages /\ stage' \in ServiceStages
       /\ UNCHANGED <<doc, at, out, status>>
    \/ /\ status = "running" /\ stage = "leftover" /\ LeftoverKeys(src) = {}
       /\ out' = [out EXCEPT !.services = (OutputName(doc.order[at]) :> result) @@ @]
       /\ at' = at + 1
       /\ stage' = IF LastService THEN "volumes" ELSE "plain"
       /\ UNCHANGED <<doc, heap, status>>
    \/ /\ status = "running" /\ stage \in TopStages /\ stage' \in TopStages
       /\ DOMAIN out' = DOMAIN out /\ out'.services = out.services
       /\ UNCHANGED <<doc, at, result, status>>
    \/ status = "running" /\ stage = "top" /\ UNCHANGED <<doc, heap, at, stage, result, out>>
    \/ UNCHANGED vars

\* Every step of the conversion has one of these forms.
LEMMA StepHasForm ==
    ASSUME [Next]_vars, "services" \in DOMAIN out
    PROVE  StepForms
  <1> USE DEF ServiceStages, TopStages, In, StepForms
  <1>1. CASE NoServices
    BY <1>1 DEF NoServices, Raise
  <1>2. CASE Plain
    BY <1>2 DEF Plain, Raise, Goto
  <1>3. CASE _healthcheck_to_readiness_probe
    BY <1>3 DEF _healthcheck_to_readiness_probe, Raise, Goto
  <1>4. CASE _convert_deploy
    <2>1. \A v : MemoryStatus(v) \in {"ok", "error", "crash"}
      BY DEF MemoryStatus, ByteStatus
    <2>2. \A h, v : _convert_resource(h, v).st \in {"ok", "error", "crash"}
      BY <2>1 DEF _convert_resource, Ret
    <2>3. \A h, c : _convert_resources(h, c).st \in {"ok", "error", "crash"}
      BY <2>2 DEF _convert_resources, Ret
    <2> QED
      BY <1>4, <2>1, <2>3 DEF _convert_deploy, Raise, Goto, Ret
  <1>5. CASE Security
    BY <1>5 DEF Security, Raise, Goto
  <1>6. CASE Network
    BY <1>6 DEF Network, Raise, Goto
  <1>7. CASE Hostname
    BY <1>7 DEF Hostname, Raise, Goto
  <1>8. CASE _apply_service_extensions
    BY <1>8 DEF _apply_service_extensions, Raise, Goto
  <1>9. CASE ServiceDone
    BY <1>9 DEF ServiceDone, Raise
  <1>10. CASE _convert_volumes
    BY <1>10 DEF _convert_volumes, Raise, GotoTop
  <1>11. CASE _convert_networks
    BY <1>11 DEF _convert_networks, Raise, GotoTop
  <1>12. CASE _convert_extensions
    BY <1>12 DEF _convert_extensions, Raise, GotoTop
  <1>13. CASE TopDone
    BY <1>13 DEF TopDone
  <1>14. CASE Ended \/ UNCHANGED vars
    BY <1>14 DEF Ended
  <1> QED
    BY <1>1, <1>2, <1>3, <1>4, <1>5, <1>6, <1>7, <1>8, <1>9, <1>10, <1>11, <1>12, <1>13,
       <1>14 DEF Next

Marked(h, order, i) == Get(h, h[ServicesCell][order[i]].ref, "x-default") = [v |-> "true"]

\* A scalar is not None.
LEMMA NameIsNotNull == \A x : [v |-> x] # Null
  <1>1. \A x : DOMAIN [v |-> x] = {"v"}
    OBVIOUS
  <1>2. DOMAIN Null = {"null"}
    BY DEF Null
  <1> QED
    BY <1>1, <1>2

\* At most one service is renamed: none beside a service named default, else a
\* marked one, or the first of several when none is marked.
LEMMA DefaultService ==
    ASSUME NEW h, NEW order \in Seq(STRING), Len(order) > 0
    PROVE  \/ /\ _determine_default_service(h, order) = Null
              /\ "default" \in Range(order) \/ Len(order) = 1
           \/ /\ "default" \notin Range(order)
              /\ \E i \in DOMAIN order :
                   /\ _determine_default_service(h, order) = [v |-> order[i]]
                   /\ \/ Marked(h, order, i)
                      \/ i = 1 /\ \A j \in DOMAIN order : ~Marked(h, order, j)
  <1> DEFINE marked == {i \in DOMAIN order : Marked(h, order, i)}
             chosen == IF marked = {} THEN 1 ELSE CHOOSE i \in marked : \A j \in marked : i <= j
  <1>1. _determine_default_service(h, order) =
          IF "default" \in Range(order) \/ (marked = {} /\ Len(order) <= 1) THEN Null
          ELSE [v |-> order[chosen]]
    BY DEF _determine_default_service, Marked
  <1>2. ASSUME marked # {}
        PROVE  chosen \in marked
    <2>1. marked \in SUBSET Nat
      OBVIOUS
    <2>2. \E m \in marked : \A k \in marked : m <= k
      BY <1>2, <2>1, LeastNatural
    <2> QED
      BY <1>2, <2>2
  <1>3. ASSUME marked = {}
        PROVE  chosen = 1 /\ 1 \in DOMAIN order
    BY <1>3
  <1>4. chosen \in DOMAIN order
    BY <1>2, <1>3
  <1>5. \/ Marked(h, order, chosen)
        \/ chosen = 1 /\ \A j \in DOMAIN order : ~Marked(h, order, j)
    BY <1>2, <1>3
  <1>6. Len(order) <= 1 => Len(order) = 1
    OBVIOUS
  <1> HIDE DEF chosen, marked
  <1> QED
    BY <1>1, <1>4, <1>5, <1>6

\* A loaded file's order of services.
LEMMA DocumentOrder ==
    ASSUME NamesInv
    PROVE  doc.order \in Seq(STRING) /\ IsInjective(doc.order)
  BY LoadAssumption DEF NamesInv

\* The renaming keeps the names of two services apart.
LEMMA NamesApart ==
    ASSUME NamesInv, NEW i \in DOMAIN doc.order, NEW j \in DOMAIN doc.order,
           OutputName(doc.order[i]) = OutputName(doc.order[j])
    PROVE  i = j
  <1>1. doc.order \in Seq(STRING) /\ IsInjective(doc.order) /\ Len(doc.order) > 0
    BY DocumentOrder
  <1>2. doc.order[i] \in Range(doc.order) /\ doc.order[j] \in Range(doc.order)
    BY DEF Range
  <1>3. doc.order[i] = doc.order[j]
    BY <1>1, <1>2, DefaultService, NameIsNotNull DEF OutputName
  <1> QED
    BY <1>1, <1>3 DEF IsInjective

\* Every step keeps NamesInv.
LEMMA NamesInvStep ==
    ASSUME NamesInv, [Next]_vars
    PROVE  NamesInv'
  <1>1. StepForms
    BY StepHasForm DEF NamesInv
  <1>2. doc' = doc
    BY <1>1 DEF StepForms, vars
  <1>3. \A n : OutputName(n)' = OutputName(n)
    BY <1>2 DEF OutputName
  <1>4. ASSUME /\ stage = "leftover"
               /\ out' = [out EXCEPT !.services = (OutputName(doc.order[at]) :> result) @@ @]
               /\ at' = at + 1
               /\ stage' = IF LastService THEN "volumes" ELSE "plain"
               /\ UNCHANGED status
               /\ status = "running"
        PROVE  NamesInv'
    <2> DEFINE name == OutputName(doc.order[at])
    <2>1. /\ at \in 1 .. Len(doc.order) /\ "services" \in DOMAIN out
          /\ DOMAIN out.services = {OutputName(doc.order[i]) : i \in 1 .. at - 1}
      BY <1>4 DEF NamesInv, ServiceStages
    <2>2. out'.services = (name :> result) @@ out.services /\ DOMAIN out' = DOMAIN out
      BY <1>4, <2>1
    <2>3. DOMAIN out'.services = {name} \cup DOMAIN out.services
      BY <2>2 DEF :>, @@
    <2>4. DOMAIN out'.services = {OutputName(doc.order[i]) : i \in 1 .. at' - 1}
      <3>1. 1 .. at' - 1 = (1 .. at - 1) \cup {at}
        BY <1>4, <2>1
      <3> QED
        BY <2>1, <2>3, <3>1
    <2>5. Len(doc.order) \in Nat
      BY DocumentOrder
    <2>6. (DOMAIN out.services = {OutputName(doc.order[i]) : i \in 1 .. at - 1})'
      BY <1>2, <1>3, <2>4
    <2>7. /\ at' \in 1 .. Len(doc'.order) + 1
          /\ stage' \in ServiceStages => at' <= Len(doc'.order)
          /\ stage' \in TopStages => at' = Len(doc'.order) + 1
          /\ stage' \in ServiceStages \cup TopStages \cup {"noServices"}
          /\ ~(status' = "done")
      BY <1>2, <1>4, <2>1, <2>5 DEF ServiceStages, TopStages, LastService
    <2>8. (\E file \in Files : doc = Load(file))'
      BY <1>2 DEF NamesInv
    <2>9. "services" \in DOMAIN out'
      BY <2>1, <2>2
    <2> QED
      BY <2>6, <2>7, <2>8, <2>9 DEF NamesInv
  <1>5. CASE /\ stage' = stage /\ at' = at /\ out' = out /\ (status' = "done" => stage = "top")
    BY <1>2, <1>3, <1>5 DEF NamesInv
  <1>6. CASE /\ stage \in ServiceStages /\ stage' \in ServiceStages
             /\ status = "running" /\ UNCHANGED <<at, out, status>>
    BY <1>2, <1>3, <1>6 DEF NamesInv, ServiceStages, TopStages
  <1>7. CASE /\ stage \in TopStages /\ stage' \in TopStages
             /\ DOMAIN out' = DOMAIN out /\ out'.services = out.services
             /\ status = "running" /\ UNCHANGED <<at, status>>
    BY <1>2, <1>3, <1>7 DEF NamesInv, ServiceStages, TopStages
  <1> QED
    BY <1>1, <1>4, <1>5, <1>6, <1>7 DEF StepForms, vars, NamesInv

\* NamesInv holds of every document just loaded.
LEMMA NamesInvInit == Init => NamesInv
  <1> SUFFICES ASSUME Init
               PROVE  NamesInv
    OBVIOUS
  <1>1. \E file \in Files : doc = Load(file)
    BY DEF Init
  <1>2. doc.order \in Seq(STRING)
    BY <1>1, LoadAssumption
  <1>3. DOMAIN out.services = {} /\ "services" \in DOMAIN out /\ 1 .. at - 1 = {}
    BY DEF Init
  <1>4. DOMAIN out.services = {OutputName(doc.order[i]) : i \in 1 .. at - 1}
    BY <1>3
  <1>5. /\ stage \in {"plain", "noServices", "volumes"}
        /\ stage = "plain" => Len(doc.order) > 0
        /\ stage = "volumes" => Len(doc.order) = 0
    BY <1>2 DEF Init, FirstStage
  <1> QED
    BY <1>1, <1>2, <1>3, <1>4, <1>5 DEF Init, NamesInv, ServiceStages, TopStages

\* NamesInv, once the conversion is done, is enough for DefaultResolved.
LEMMA NamesImplyDefault ==
    ASSUME NamesInv
    PROVE  DefaultResolved
  <1> DEFINE names == doc.order
             marked(i) == Said(i, "x-default") = [v |-> "true"]
             isDefault(i) == "default" = OutputName(names[i])
  <1> SUFFICES ASSUME status = "done"
               PROVE  /\ Cardinality(DOMAIN out.services) = Len(names)
                      /\ \A i \in DOMAIN names : isDefault(i) =>
                            \/ names[i] = "default"
                            \/ "default" \notin Range(names) /\ marked(i)
                            \/ /\ "default" \notin Range(names) /\ i = 1
                               /\ \A j \in DOMAIN names : ~marked(j)
                      /\ Len(names) > 1 => "default" \in DOMAIN out.services
    BY DEF DefaultResolved
  <1>1. names \in Seq(STRING) /\ IsInjective(names)
    BY DocumentOrder
  <1>2. DOMAIN out.services = {OutputName(names[i]) : i \in 1 .. Len(names)}
    <2>1. at = Len(names) + 1
      BY DEF NamesInv, TopStages
    <2>2. at - 1 = Len(names)
      BY <1>1, <2>1
    <2> QED
      BY <2>2 DEF NamesInv
  <1>3. Cardinality(DOMAIN out.services) = Len(names)
    <2> DEFINE f == [i \in 1 .. Len(names) |-> OutputName(names[i])]
    <2>1. f \in Bijection(1 .. Len(names), DOMAIN out.services)
      <3>1. f \in [1 .. Len(names) -> DOMAIN out.services]
        BY <1>2
      <3>2. IsInjective(f)
        BY <1>1, NamesApart DEF IsInjective
      <3>3. \A n \in DOMAIN out.services : \E i \in 1 .. Len(names) : f[i] = n
        BY <1>2
      <3> QED
        BY <3>1, <3>2, <3>3 DEF Bijection, Injection, Surjection
    <2>2. ExistsBijection(1 .. Len(names), DOMAIN out.services)
      BY <2>1 DEF ExistsBijection
    <2>3. Len(names) \in Nat
      BY <1>1
    <2>4. IsFiniteSet(1 .. Len(names)) /\ Cardinality(1 .. Len(names)) = Len(names)
      BY <2>3, FS_Interval
    <2> HIDE DEF f
    <2> QED
      BY <2>2, <2>4, FS_Bijection
  <1>4. \A i : marked(i) <=> Marked(doc.heap, names, i)
    BY DEF Said, Marked
  <1>5. ASSUME NEW i \in DOMAIN names, isDefault(i)
        PROVE  \/ names[i] = "default"
               \/ "default" \notin Range(names) /\ marked(i)
               \/ /\ "default" \notin Range(names) /\ i = 1
                  /\ \A j \in DOMAIN names : ~marked(j)
    <2>1. Len(names) > 0
      BY <1>1
    <2>2. CASE names[i] = "default"
      BY <2>2
    <2>3. ASSUME names[i] # "default"
          PROVE  [v |-> names[i]] = _determine_default_service(doc.heap, names)
      BY <1>5, <2>3 DEF OutputName
    <2>4. ASSUME names[i] # "default"
          PROVE  /\ "default" \notin Range(names)
                 /\ \/ Marked(doc.heap, names, i)
                    \/ i = 1 /\ \A j \in DOMAIN names : ~Marked(doc.heap, names, j)
      <3>1. /\ "default" \notin Range(names)
            /\ \E k \in DOMAIN names :
                 /\ [v |-> names[i]] = [v |-> names[k]]
                 /\ \/ Marked(doc.heap, names, k)
                    \/ k = 1 /\ \A j \in DOMAIN names : ~Marked(doc.heap, names, j)
        BY <1>1, <2>1, <2>3, <2>4, DefaultService, NameIsNotNull
      <3> QED
        BY <1>1, <3>1 DEF IsInjective
    <2> QED
      BY <1>4, <2>2, <2>4
  <1>6. ASSUME Len(names) > 1
        PROVE  "default" \in DOMAIN out.services
    <2>1. CASE "default" \in Range(names)
      <3>1. PICK i \in DOMAIN names : names[i] = "default"
        BY <2>1 DEF Range
      <3>2. OutputName(names[i]) = "default"
        BY <3>1 DEF OutputName
      <3> QED
        BY <1>1, <1>2, <3>2
    <2>2. CASE "default" \notin Range(names)
      <3>1. PICK i \in DOMAIN names :
              _determine_default_service(doc.heap, names) = [v |-> names[i]]
        BY <1>1, <1>6, <2>2, DefaultService
      <3>2. OutputName(names[i]) = "default"
        BY <3>1 DEF OutputName
      <3> QED
        BY <1>1, <1>2, <3>2
    <2> QED
      BY <2>1, <2>2
  <1> QED
    BY <1>3, <1>5, <1>6

\* The service that Inspect addresses as default is the documented one, and the
\* renaming loses no service (_determine_default_service): for any document.
THEOREM DefaultResolvedHolds == Spec => []DefaultResolved
  <1>1. NamesInv /\ [Next]_vars => NamesInv'
    BY NamesInvStep
  <1>2. NamesInv => DefaultResolved
    BY NamesImplyDefault
  <1> QED
    BY <1>1, <1>2, NamesInvInit, PTL DEF Spec

-----------------------------------------------------------------------------
(* ComposeConverter: what is taken out of the document.                     *)

\* What the conversion has taken out of a dict so far.
Removed(d, h, c) == DOMAIN d.heap[c] \ DOMAIN h[c]

\* The loaded dicts only lose keys, each kind of dict only those that the code
\* pops from it.
Shrunk(d, h) ==
    /\ DOMAIN h = DOMAIN d.heap
    /\ \A c \in DOMAIN h : /\ DOMAIN h[c] \subseteq DOMAIN d.heap[c]
                           /\ \A k \in DOMAIN h[c] : h[c][k] = d.heap[c][k]
    /\ h[ServicesCell] = d.heap[ServicesCell]
    /\ \A c \in Deploys(d) : Removed(d, h, c) \subseteq {"resources"}
    /\ \A c \in Resources(d) : Removed(d, h, c) \subseteq {"limits", "reservations"}
    /\ \A c \in AmountDicts(d) : Removed(d, h, c) \subseteq {"cpus", "memory"}
    /\ \A c \in Extensions(d) : Removed(d, h, c) \subseteq {"resources"}
    /\ \A c \in ExtResources(d) : Removed(d, h, c) \subseteq {"requests", "limits"}

KeysIn(d, v) == IF v = Null THEN {} ELSE DOMAIN d.heap[v.ref]

AmountsFine(d, v) == KeysIn(d, v) \subseteq {"cpus", "memory"}

ResourcesFine(d, v) ==
    /\ KeysIn(d, v) \subseteq {"limits", "reservations"}
    /\ \A sec \in KeysIn(d, v) : AmountsFine(d, d.heap[v.ref][sec])

DeployFine(d, v) ==
    /\ KeysIn(d, v) \subseteq {"resources"}
    /\ \A k \in KeysIn(d, v) : ResourcesFine(d, d.heap[v.ref][k])

HealthFine(d, v) == KeysIn(d, v) \subseteq {"test", "start_interval"} \cup DOMAIN ProbeKeys

ExtensionFine(d, v) ==
    /\ KeysIn(d, v) \subseteq {"resources"}
    /\ \A k \in KeysIn(d, v) : KeysIn(d, d.heap[v.ref][k]) \subseteq {"requests", "limits"}

\* What was taken out of a dict that two services may share was looked at, so a
\* service that finds nothing left in it has nothing to refuse.
Cleared(d, h) ==
    /\ \A c \in Healthchecks(d) : Removed(d, h, c) # {} => HealthFine(d, [ref |-> c])
    /\ \A c \in Deploys(d) : \A k \in Removed(d, h, c) : ResourcesFine(d, d.heap[c][k])
    /\ \A c \in Resources(d) : \A k \in Removed(d, h, c) : AmountsFine(d, d.heap[c][k])
    /\ \A c \in Extensions(d) : \A k \in Removed(d, h, c) :
          KeysIn(d, d.heap[c][k]) \subseteq {"requests", "limits"}

\* Key k of service i has been converted into r, or is documented as ignored,
\* and so have the keys inside it.
Handled(d, i, k, r) ==
    LET v == d.heap[ServiceCell(d, i)][k]
    IN v # Null =>
         /\ k \in FoldedKeys \/ (k \in DOMAIN HelmKeys /\ HelmKeys[k] \in DOMAIN r)
         /\ k = "deploy" => DeployFine(d, v)
         /\ k = "healthcheck" => HealthFine(d, v)
         /\ k \in ExtensionKeys => ExtensionFine(d, v)
         /\ k = "security_opt" => \A j \in DOMAIN v.opts :
               v.opts[j][1] = "seccomp" /\ "securityContext" \in DOMAIN r

\* The dicts of the services to come are as they were loaded.
Untouched(d, h, i) == h[ServiceCell(d, i)] = d.heap[ServiceCell(d, i)]

\* While service i is converted, with r built so far.
Held(d, h, i, r) ==
    /\ Shrunk(d, h)
    /\ Cleared(d, h)
    /\ \A j \in DOMAIN d.order : j > i => Untouched(d, h, j)
    /\ \A k \in Removed(d, h, ServiceCell(d, i)) : Handled(d, i, k, r)

DroppedInv ==
    /\ stage \in ServiceStages =>
          Held(doc, heap, at, result) /\ (stage = "plain" => Untouched(doc, heap, at))
    /\ \A i \in 1 .. at - 1 : \A k \in DOMAIN doc.heap[ServiceCell(doc, i)] :
          Handled(doc, i, k, Converted(i))

\* Two kinds of dicts of a document have no dict in common.
LEMMA KindsApart ==
    ASSUME NEW d, Separate(d)
    PROVE  /\ \A c \in Services(d) :
                /\ c # ServicesCell /\ c \notin Healthchecks(d) /\ c \notin Deploys(d)
                /\ c \notin Resources(d) /\ c \notin AmountDicts(d) /\ c \notin Extensions(d)
                /\ c \notin ExtResources(d)
           /\ \A c \in Healthchecks(d) :
                /\ c # ServicesCell /\ c \notin Deploys(d) /\ c \notin Resources(d)
                /\ c \notin AmountDicts(d) /\ c \notin Extensions(d) /\ c \notin ExtResources(d)
           /\ \A c \in Deploys(d) :
                /\ c # ServicesCell /\ c \notin Resources(d) /\ c \notin AmountDicts(d)
                /\ c \notin Extensions(d) /\ c \notin ExtResources(d)
           /\ \A c \in Resources(d) :
                /\ c # ServicesCell /\ c \notin AmountDicts(d) /\ c \notin Extensions(d)
                /\ c \notin ExtResources(d)
           /\ \A c \in AmountDicts(d) :
                /\ c # ServicesCell /\ c \notin Extensions(d) /\ c \notin ExtResources(d)
           /\ \A c \in Extensions(d) :
                /\ c # ServicesCell /\ c \notin ExtResources(d)
           /\ \A c \in ExtResources(d) :
                /\ c # ServicesCell
  <1> DEFINE kinds == <<{ServicesCell}, Services(d), Healthchecks(d), Deploys(d), Resources(d),
                        AmountDicts(d), Extensions(d), ExtResources(d)>>
  <1>1. \A m, n \in 1 .. 8 : m # n => kinds[m] \cap kinds[n] = {}
    BY DEF Separate
  <1>2. /\ kinds[1] = {ServicesCell} /\ kinds[2] = Services(d) /\ kinds[3] = Healthchecks(d)
        /\ kinds[4] = Deploys(d) /\ kinds[5] = Resources(d) /\ kinds[6] = AmountDicts(d)
        /\ kinds[7] = Extensions(d) /\ kinds[8] = ExtResources(d)
    OBVIOUS
  <1> HIDE DEF kinds
  <1>3. /\ {ServicesCell} \cap Services(d) = {}
        /\ {ServicesCell} \cap Healthchecks(d) = {}
        /\ {ServicesCell} \cap Deploys(d) = {}
        /\ {ServicesCell} \cap Resources(d) = {}
        /\ {ServicesCell} \cap AmountDicts(d) = {}
        /\ {ServicesCell} \cap Extensions(d) = {}
        /\ {ServicesCell} \cap ExtResources(d) = {}
    BY <1>1, <1>2
  <1>4. /\ Services(d) \cap Healthchecks(d) = {}
        /\ Services(d) \cap Deploys(d) = {}
        /\ Services(d) \cap Resources(d) = {}
        /\ Services(d) \cap AmountDicts(d) = {}
        /\ Services(d) \cap Extensions(d) = {}
        /\ Services(d) \cap ExtResources(d) = {}
    BY <1>1, <1>2
  <1>5. /\ Healthchecks(d) \cap Deploys(d) = {}
        /\ Healthchecks(d) \cap Resources(d) = {}
        /\ Healthchecks(d) \cap AmountDicts(d) = {}
        /\ Healthchecks(d) \cap Extensions(d) = {}
        /\ Healthchecks(d) \cap ExtResources(d) = {}
    BY <1>1, <1>2
  <1>6. /\ Deploys(d) \cap Resources(d) = {}
        /\ Deploys(d) \cap AmountDicts(d) = {}
        /\ Deploys(d) \cap Extensions(d) = {}
        /\ Deploys(d) \cap ExtResources(d) = {}
    BY <1>1, <1>2
  <1>7. /\ Resources(d) \cap AmountDicts(d) = {}
        /\ Resources(d) \cap Extensions(d) = {}
        /\ Resources(d) \cap ExtResources(d) = {}
    BY <1>1, <1>2
  <1>8. /\ AmountDicts(d) \cap Extensions(d) = {}
        /\ AmountDicts(d) \cap ExtResources(d) = {}
    BY <1>1, <1>2
  <1>9. /\ Extensions(d) \cap ExtResources(d) = {}
    BY <1>1, <1>2
  <1> QED
    BY <1>3, <1>4, <1>5, <1>6, <1>7, <1>8, <1>9

\* The dicts of every kind are dicts of the document.
LEMMA KindsLoaded ==
    ASSUME NEW d, Separate(d)
    PROVE  /\ ServicesCell \in DOMAIN d.heap
           /\ Services(d) \subseteq DOMAIN d.heap /\ Healthchecks(d) \subseteq DOMAIN d.heap
           /\ Deploys(d) \subseteq DOMAIN d.heap /\ Resources(d) \subseteq DOMAIN d.heap
           /\ AmountDicts(d) \subseteq DOMAIN d.heap /\ Extensions(d) \subseteq DOMAIN d.heap
           /\ ExtResources(d) \subseteq DOMAIN d.heap
  <1> DEFINE kinds == <<{ServicesCell}, Services(d), Healthchecks(d), Deploys(d), Resources(d),
                        AmountDicts(d), Extensions(d), ExtResources(d)>>
  <1>1. \A n \in 1 .. 8 : kinds[n] \subseteq DOMAIN d.heap
    BY DEF Separate
  <1>2. /\ kinds[1] = {ServicesCell} /\ kinds[2] = Services(d) /\ kinds[3] = Healthchecks(d)
        /\ kinds[4] = Deploys(d) /\ kinds[5] = Resources(d) /\ kinds[6] = AmountDicts(d)
        /\ kinds[7] = Extensions(d) /\ kinds[8] = ExtResources(d)
    OBVIOUS
  <1> HIDE DEF kinds
  <1> QED
    BY <1>1, <1>2

\* A dict found under one of the keys is in the kind.
LEMMA InsideMember ==
    ASSUME NEW d, NEW cs, NEW ks, NEW c \in cs, NEW k \in ks, k \in DOMAIN d.heap[c],
           IsDict(d.heap[c][k])
    PROVE  d.heap[c][k].ref \in Inside(d, cs, ks)
  BY DEF Inside

\* What Popped leaves.
LEMMA PoppedHeap ==
    ASSUME NEW h, NEW c \in DOMAIN h, NEW ks
    PROVE  /\ DOMAIN Popped(h, c, ks) = DOMAIN h
           /\ \A x \in DOMAIN h : x # c => Popped(h, c, ks)[x] = h[x]
           /\ DOMAIN Popped(h, c, ks)[c] = DOMAIN h[c] \ ks
           /\ \A k \in DOMAIN h[c] \ ks : Popped(h, c, ks)[c][k] = h[c][k]
  <1> DEFINE g == Restrict(h[c], DOMAIN h[c] \ ks)
  <1>1. Popped(h, c, ks) = [h EXCEPT ![c] = g]
    BY DEF Popped
  <1>2. DOMAIN g = DOMAIN h[c] \ ks /\ \A k \in DOMAIN h[c] \ ks : g[k] = h[c][k]
    BY DEF Restrict
  <1> HIDE DEF g
  <1> QED
    BY <1>1, <1>2

\* The keys that the code pops from each kind of dict.
Poppable(d, c, ks) ==
    \/ c \in Services(d) \cup Healthchecks(d)
    \/ c \in Deploys(d) \cup Extensions(d) /\ ks \subseteq {"resources"}
    \/ c \in Resources(d) /\ ks \subseteq {"limits", "reservations"}
    \/ c \in AmountDicts(d) /\ ks \subseteq {"cpus", "memory"}
    \/ c \in ExtResources(d) /\ ks \subseteq {"requests", "limits"}

\* Removing poppable keys from a dict leaves the heap shrunk and the other dicts alone.
LEMMA PopShrunk ==
    ASSUME NEW d, Separate(d), NEW h, Shrunk(d, h), NEW c, NEW ks, Poppable(d, c, ks)
    PROVE  /\ Shrunk(d, Popped(h, c, ks))
           /\ c \in DOMAIN h
           /\ Removed(d, Popped(h, c, ks), c) = Removed(d, h, c) \cup (ks \cap DOMAIN d.heap[c])
           /\ \A x \in DOMAIN h : x # c => Popped(h, c, ks)[x] = h[x]
  <1> DEFINE g == Popped(h, c, ks)
  <1>1. c \in DOMAIN h
    BY KindsLoaded DEF Poppable, Shrunk
  <1>2. /\ DOMAIN g = DOMAIN h
        /\ \A x \in DOMAIN h : x # c => g[x] = h[x]
        /\ DOMAIN g[c] = DOMAIN h[c] \ ks
        /\ \A k \in DOMAIN h[c] \ ks : g[c][k] = h[c][k]
    BY <1>1, PoppedHeap
  <1> HIDE DEF g
  <1>3. /\ DOMAIN h = DOMAIN d.heap
        /\ \A x \in DOMAIN h : /\ DOMAIN h[x] \subseteq DOMAIN d.heap[x]
                               /\ \A k \in DOMAIN h[x] : h[x][k] = d.heap[x][k]
    BY DEF Shrunk
  <1>4. Removed(d, g, c) = Removed(d, h, c) \cup (ks \cap DOMAIN d.heap[c])
    BY <1>1, <1>2, <1>3 DEF Removed
  <1>5. \A x \in DOMAIN h : x # c => Removed(d, g, x) = Removed(d, h, x)
    BY <1>2 DEF Removed
  <1>6. /\ DOMAIN g = DOMAIN d.heap
        /\ \A x \in DOMAIN g : /\ DOMAIN g[x] \subseteq DOMAIN d.heap[x]
                               /\ \A k \in DOMAIN g[x] : g[x][k] = d.heap[x][k]
    BY <1>1, <1>2, <1>3
  <1>7. g[ServicesCell] = d.heap[ServicesCell]
    <2>1. c # ServicesCell
      BY KindsApart DEF Poppable
    <2>2. ServicesCell \in DOMAIN h
      BY <1>3, KindsLoaded
    <2> QED
      BY <1>2, <2>1, <2>2 DEF Shrunk
  <1>8. ASSUME NEW X, NEW K, \A x \in X : Removed(d, h, x) \subseteq K,
               c \in X => ks \subseteq K, X \subseteq DOMAIN h
        PROVE  \A x \in X : Removed(d, g, x) \subseteq K
    BY <1>4, <1>5, <1>8
  <1>9. /\ Deploys(d) \subseteq DOMAIN h /\ Resources(d) \subseteq DOMAIN h
        /\ AmountDicts(d) \subseteq DOMAIN h /\ Extensions(d) \subseteq DOMAIN h
        /\ ExtResources(d) \subseteq DOMAIN h
    BY <1>3, KindsLoaded
  <1>10. \A x \in Deploys(d) : Removed(d, g, x) \subseteq {"resources"}
    <2>1. c \in Deploys(d) => ks \subseteq {"resources"}
      BY KindsApart DEF Poppable
    <2> QED
      BY <1>8, <1>9, <2>1 DEF Shrunk
  <1>11. \A x \in Resources(d) : Removed(d, g, x) \subseteq {"limits", "reservations"}
    <2>1. c \in Resources(d) => ks \subseteq {"limits", "reservations"}
      BY KindsApart DEF Poppable
    <2> QED
      BY <1>8, <1>9, <2>1 DEF Shrunk
  <1>12. \A x \in AmountDicts(d) : Removed(d, g, x) \subseteq {"cpus", "memory"}
    <2>1. c \in AmountDicts(d) => ks \subseteq {"cpus", "memory"}
      BY KindsApart DEF Poppable
    <2> QED
      BY <1>8, <1>9, <2>1 DEF Shrunk
  <1>13. \A x \in Extensions(d) : Removed(d, g, x) \subseteq {"resources"}
    <2>1. c \in Extensions(d) => ks \subseteq {"resources"}
      BY KindsApart DEF Poppable
    <2> QED
      BY <1>8, <1>9, <2>1 DEF Shrunk
  <1>14. \A x \in ExtResources(d) : Removed(d, g, x) \subseteq {"requests", "limits"}
    <2>1. c \in ExtResources(d) => ks \subseteq {"requests", "limits"}
      BY KindsApart DEF Poppable
    <2> QED
      BY <1>8, <1>9, <2>1 DEF Shrunk
  <1>15. Shrunk(d, g)
    BY <1>6, <1>7, <1>10, <1>11, <1>12, <1>13, <1>14 DEF Shrunk
  <1> QED
    BY <1>1, <1>2, <1>4, <1>15 DEF g

\* Nothing that was converted is lost from what is built.
LEMMA HandledMore ==
    ASSUME NEW d, NEW i, NEW k, NEW r, NEW q, DOMAIN r \subseteq DOMAIN q, Handled(d, i, k, r)
    PROVE  Handled(d, i, k, q)
  BY DEF Handled

\* The dict of a service is of the kind of services.
LEMMA ServiceCellKind ==
    ASSUME NEW d, NEW i \in DOMAIN d.order
    PROVE  ServiceCell(d, i) \in Services(d)
  BY DEF Services

\* Dicts are Cleared by what has become of the dicts of their own kinds.
LEMMA ClearedKept ==
    ASSUME NEW d, NEW h, NEW g, Cleared(d, h),
           \A c \in Healthchecks(d) : Removed(d, g, c) = Removed(d, h, c)
                                        \/ HealthFine(d, [ref |-> c]),
           \A c \in Deploys(d) : \A k \in Removed(d, g, c) :
                k \in Removed(d, h, c) \/ ResourcesFine(d, d.heap[c][k]),
           \A c \in Resources(d) : \A k \in Removed(d, g, c) :
                k \in Removed(d, h, c) \/ AmountsFine(d, d.heap[c][k]),
           \A c \in Extensions(d) : \A k \in Removed(d, g, c) :
                \/ k \in Removed(d, h, c)
                \/ KeysIn(d, d.heap[c][k]) \subseteq {"requests", "limits"}
    PROVE  Cleared(d, g)
  BY DEF Cleared

\* Taking keys out of the dict of the service itself, each of them handled.
LEMMA PopHeld ==
    ASSUME NEW d, Separate(d), d.order \in Seq(STRING), NEW i \in DOMAIN d.order,
           NEW h, NEW r, NEW q, NEW ks, Held(d, h, i, r),
           DOMAIN r \subseteq DOMAIN q \/ Untouched(d, h, i),
           \A k \in ks \cap DOMAIN h[ServiceCell(d, i)] : Handled(d, i, k, q)
    PROVE  Held(d, Popped(h, ServiceCell(d, i), ks), i, q)
  <1> DEFINE c == ServiceCell(d, i)
             g == Popped(h, c, ks)
  <1>1. c \in Services(d) /\ Shrunk(d, h) /\ Cleared(d, h)
    BY ServiceCellKind DEF Held
  <1>2. /\ Shrunk(d, g) /\ c \in DOMAIN h
        /\ Removed(d, g, c) = Removed(d, h, c) \cup (ks \cap DOMAIN d.heap[c])
        /\ \A x \in DOMAIN h : x # c => g[x] = h[x]
    BY <1>1, PopShrunk DEF Poppable
  <1> HIDE DEF g
  <1>3. DOMAIN h = DOMAIN d.heap
    BY <1>1 DEF Shrunk
  <1>4. \A x \in DOMAIN h : x # c => Removed(d, g, x) = Removed(d, h, x)
    BY <1>2 DEF Removed
  <1>5. Cleared(d, g)
    <2>1. \A x \in Healthchecks(d) \cup Deploys(d) \cup Resources(d) \cup Extensions(d) :
            Removed(d, g, x) = Removed(d, h, x)
      BY <1>1, <1>3, <1>4, KindsApart, KindsLoaded
    <2> QED
      BY <1>1, <2>1, ClearedKept
  <1>6. ASSUME NEW j \in DOMAIN d.order, j > i, j # i
        PROVE  Untouched(d, g, j)
    <2>1. ServiceCell(d, j) # c
      BY <1>6 DEF Separate
    <2>2. ServiceCell(d, j) \in DOMAIN h
      BY <1>3, KindsLoaded, ServiceCellKind
    <2>3. Untouched(d, h, j)
      BY <1>6 DEF Held
    <2> QED
      BY <1>2, <2>1, <2>2, <2>3 DEF Untouched
  <1>7. ASSUME NEW k \in Removed(d, g, c)
        PROVE  Handled(d, i, k, q)
    <2>1. CASE k \in Removed(d, h, c)
      <3>1. Handled(d, i, k, r) /\ ~Untouched(d, h, i)
        BY <2>1 DEF Held, Untouched, Removed
      <3> QED
        BY <3>1, HandledMore
    <2>2. CASE k \notin Removed(d, h, c)
      <3>1. k \in ks /\ k \in DOMAIN h[c]
        BY <1>2, <1>7, <2>2 DEF Removed
      <3> QED
        BY <3>1
    <2> QED
      BY <2>1, <2>2
  <1>8. \A j \in DOMAIN d.order : j > i => j # i
    OBVIOUS
  <1> QED
    BY <1>2, <1>5, <1>6, <1>7, <1>8 DEF Held, g

\* The service being converted, in the terms of the document.
LEMMA CurrentService ==
    ASSUME NamesInv, DroppedInv, Separate(doc), stage \in ServiceStages
    PROVE  /\ doc.order \in Seq(STRING) /\ at \in DOMAIN doc.order
           /\ Held(doc, heap, at, result)
           /\ src = ServiceCell(doc, at) /\ src \in Services(doc) /\ src \in DOMAIN heap
           /\ \A k \in DOMAIN heap[src] : heap[src][k] = doc.heap[src][k]
  <1>1. doc.order \in Seq(STRING) /\ at \in DOMAIN doc.order
    BY DocumentOrder DEF NamesInv
  <1>2. Held(doc, heap, at, result) /\ Shrunk(doc, heap)
    BY DEF DroppedInv, Held
  <1>3. src = ServiceCell(doc, at)
    BY <1>2 DEF Shrunk, src, Cell, ServiceCell
  <1>4. src \in Services(doc) /\ src \in DOMAIN heap
    BY <1>1, <1>2, <1>3, ServiceCellKind, KindsLoaded DEF Shrunk
  <1> QED
    BY <1>1, <1>2, <1>3, <1>4 DEF Shrunk

\* What a step that goes on with the same service must establish.
StepHeld == Held(doc, heap', at, result')

\* A key with one of the plain names has the value's name of the chart.
LEMMA PlainNames ==
    /\ \A k \in DOMAIN PlainKeys : k \in DOMAIN HelmKeys /\ HelmKeys[k] = PlainKeys[k]
    /\ {"volumes", "healthcheck", "user", "networks"} \subseteq DOMAIN HelmKeys
    /\ HelmKeys["volumes"] = "volumes" /\ HelmKeys["healthcheck"] = "readinessProbe"
    /\ HelmKeys["user"] = "securityContext" /\ HelmKeys["networks"] = "networks"
    /\ \A k \in DOMAIN PlainKeys : k \notin {"deploy", "healthcheck", "security_opt"}
    /\ DOMAIN PlainKeys \cap ExtensionKeys = {}
  <1>1. DOMAIN PlainKeys = {"runtime", "image", "entrypoint", "command", "working_dir",
                            "environment"}
    BY DEF PlainKeys
  <1> DEFINE rest == [volumes |-> "volumes", healthcheck |-> "readinessProbe",
                      user |-> "securityContext", networks |-> "networks"]
  <1>2. HelmKeys = [k \in DOMAIN PlainKeys \cup DOMAIN rest |->
                      IF k \in DOMAIN PlainKeys THEN PlainKeys[k] ELSE rest[k]]
    BY DEF HelmKeys, @@
  <1>3. DOMAIN rest = {"volumes", "healthcheck", "user", "networks"}
    OBVIOUS
  <1>4. /\ rest["volumes"] = "volumes" /\ rest["healthcheck"] = "readinessProbe"
        /\ rest["user"] = "securityContext" /\ rest["networks"] = "networks"
    OBVIOUS
  <1> HIDE DEF rest
  <1> QED
    BY <1>1, <1>2, <1>3, <1>4 DEF ExtensionKeys

\* The domain of a union of dicts.
LEMMA UnionDomain == \A f, g : DOMAIN (f @@ g) = DOMAIN f \cup DOMAIN g
  BY DEF @@

\* The dict of one key has that key.
LEMMA ItemDomain == \A k, v : DOMAIN (k :> v) = {k}
  BY DEF :>

\* The stage of the plain keys keeps what is held.
LEMMA PlainHeld ==
    ASSUME NamesInv, DroppedInv, Separate(doc), Plain, status' = "running"
    PROVE  StepHeld
  <1> DEFINE moved == {k \in DOMAIN PlainKeys : Declared(k)}
             first == [d \in {PlainKeys[k] : k \in moved} |->
                         heap[src][CHOOSE k \in moved : PlainKeys[k] = d]]
             mounts == IF Declared("volumes")
                       THEN "volumes" :> Mounts(heap[src]["volumes"]) ELSE <<>>
             ks == DOMAIN PlainKeys \cup {"volumes"}
  <1>1. /\ stage = "plain"
        /\ heap' = Popped(heap, src, ks)
        /\ result' = first @@ ("dnsRecord" :> TRUE) @@ mounts
    BY DEF Plain, Raise, Goto, In
  <1>2. /\ \A k \in moved : PlainKeys[k] \in DOMAIN result'
        /\ Declared("volumes") => "volumes" \in DOMAIN result'
    <2>1. DOMAIN first = {PlainKeys[k] : k \in moved}
      OBVIOUS
    <2>2. Declared("volumes") => "volumes" \in DOMAIN mounts
      BY ItemDomain
    <2> DEFINE record == "dnsRecord" :> TRUE
    <2> HIDE DEF first, mounts, record
    <2>3. DOMAIN result' = DOMAIN (first @@ record) \cup DOMAIN mounts
      BY <1>1, UnionDomain DEF record
    <2>4. DOMAIN (first @@ record) = DOMAIN first \cup DOMAIN record
      BY UnionDomain
    <2> QED
      BY <2>1, <2>2, <2>3, <2>4
  <1>3. stage \in ServiceStages
    BY <1>1 DEF ServiceStages
  <1>4. /\ doc.order \in Seq(STRING) /\ at \in DOMAIN doc.order /\ Held(doc, heap, at, result)
        /\ src = ServiceCell(doc, at)
        /\ \A k \in DOMAIN heap[src] : heap[src][k] = doc.heap[src][k]
    BY <1>3, CurrentService
  <1>5. Untouched(doc, heap, at)
    BY <1>1, <1>3 DEF DroppedInv
  <1>6. ASSUME NEW k \in ks \cap DOMAIN heap[src]
        PROVE  Handled(doc, at, k, result')
    <2> SUFFICES ASSUME heap[src][k] # Null
                 PROVE  Handled(doc, at, k, result')
      BY <1>4 DEF Handled
    <2>1. Declared(k)
      BY DEF Declared, Get
    <2>2. k \in DOMAIN HelmKeys /\ HelmKeys[k] \in DOMAIN result'
      BY <1>2, <2>1, PlainNames
    <2>3. k \notin {"deploy", "healthcheck", "security_opt"} /\ k \notin ExtensionKeys
      BY PlainNames DEF ExtensionKeys
    <2> QED
      BY <2>2, <2>3 DEF Handled
  <1> HIDE DEF ks
  <1> QED
    BY <1>1, <1>4, <1>5, <1>6, PopHeld DEF StepHeld

\* The keys that are only ignored or folded need nothing in the values.
LEMMA FoldedHandled ==
    ASSUME NEW d, NEW i, NEW k, NEW r,
           k \in IgnoredKeys \cup {"memswap_limit", "hostname", "network_mode", "mem_limit", "cpus"}
    PROVE  Handled(d, i, k, r)
  BY DEF Handled, FoldedKeys, IgnoredKeys, ExtensionKeys

\* So does the stage of the security options.
LEMMA SecurityHeld ==
    ASSUME NamesInv, DroppedInv, Separate(doc), Security, status' = "running"
    PROVE  StepHeld
  <1> DEFINE opts == IF Declared("security_opt") THEN heap[src]["security_opt"].opts ELSE <<>>
             user == IF Declared("user") THEN _user_to_security_context(heap[src]["user"])
                     ELSE <<>>
             context == user @@ Seccomp(opts)
             ks == {"user", "security_opt", "memswap_limit"}
  <1>1. /\ stage = "security" /\ ~BadOption(opts)
        /\ heap' = Popped(heap, src, ks)
        /\ result' = IF DOMAIN context = {} THEN result
                     ELSE result @@ ("securityContext" :> context)
    BY DEF Security, Raise, Goto, In
  <1>2. stage \in ServiceStages
    BY <1>1 DEF ServiceStages
  <1>3. /\ doc.order \in Seq(STRING) /\ at \in DOMAIN doc.order /\ Held(doc, heap, at, result)
        /\ src = ServiceCell(doc, at)
        /\ \A k \in DOMAIN heap[src] : heap[src][k] = doc.heap[src][k]
    BY <1>2, CurrentService
  <1>4. DOMAIN context = DOMAIN user \cup DOMAIN Seccomp(opts)
    BY UnionDomain
  <1>5. DOMAIN context # {} => "securityContext" \in DOMAIN result'
    <2> HIDE DEF context
    <2> QED
      BY <1>1 DEF :>, @@
  <1>6. DOMAIN result \subseteq DOMAIN result'
    <2> HIDE DEF context
    <2> QED
      BY <1>1, UnionDomain
  <1>7. Declared("user") => "runAsUser" \in DOMAIN context
    <2>1. ASSUME NEW u
          PROVE  "runAsUser" \in DOMAIN _user_to_security_context(u)
      BY DEF _user_to_security_context, :>, @@
    <2>2. Declared("user") => "runAsUser" \in DOMAIN user
      BY <2>1
    <2> HIDE DEF user
    <2> QED
      BY <1>4, <2>2
  <1>8. ASSUME NEW j \in DOMAIN opts
        PROVE  opts[j][1] = "seccomp" /\ DOMAIN context # {}
    <2> HIDE DEF opts
    <2>1. opts[j][1] = "seccomp"
      BY <1>1 DEF BadOption
    <2>2. "seccompProfile" \in DOMAIN Seccomp(opts)
      BY <2>1 DEF Seccomp, :>
    <2> QED
      BY <1>4, <2>1, <2>2
  <1>9. ASSUME NEW k \in ks \cap DOMAIN heap[src]
        PROVE  Handled(doc, at, k, result')
    <2>1. CASE heap[src][k] = Null
      BY <1>3, <2>1 DEF Handled
    <2>2. ASSUME heap[src][k] # Null
          PROVE  Declared(k)
      BY <2>2 DEF Declared, Get
    <2>3. CASE heap[src][k] # Null /\ k = "user"
      BY <1>3, <1>5, <1>7, <2>2, <2>3, PlainNames DEF Handled, ExtensionKeys
    <2>4. CASE heap[src][k] # Null /\ k = "security_opt"
      <3>1. opts = doc.heap[ServiceCell(doc, at)][k].opts
        BY <1>3, <2>2, <2>4
      <3> HIDE DEF opts
      <3>2. \A j \in DOMAIN doc.heap[ServiceCell(doc, at)][k].opts :
              /\ doc.heap[ServiceCell(doc, at)][k].opts[j][1] = "seccomp"
              /\ "securityContext" \in DOMAIN result'
        BY <1>5, <1>8, <3>1
      <3> QED
        BY <2>4, <3>2 DEF Handled, FoldedKeys, ExtensionKeys
    <2>5. CASE k = "memswap_limit"
      BY <2>5, FoldedHandled
    <2> QED
      BY <2>1, <2>3, <2>4, <2>5
  <1> HIDE DEF ks
  <1> QED
    BY <1>1, <1>3, <1>6, <1>9, PopHeld DEF StepHeld

\* So does the stage of the networks.
LEMMA NetworkHeld ==
    ASSUME NamesInv, DroppedInv, Separate(doc), Network, status' = "running"
    PROVE  StepHeld
  <1> DEFINE none == Get(heap, src, "network_mode") = [v |-> "none"]
             h == Popped(heap, src, {"network_mode"})
  <1>1. stage = "network"
    BY DEF Network, In
  <1>2. stage \in ServiceStages
    BY <1>1 DEF ServiceStages
  <1>3. /\ doc.order \in Seq(STRING) /\ at \in DOMAIN doc.order /\ Held(doc, heap, at, result)
        /\ src = ServiceCell(doc, at) /\ src \in DOMAIN heap
        /\ \A k \in DOMAIN heap[src] : heap[src][k] = doc.heap[src][k]
    BY <1>2, CurrentService
  <1>4. \A r : DOMAIN result \subseteq DOMAIN r => Held(doc, h, at, r)
    BY <1>3, FoldedHandled, PopHeld
  <1>5. CASE heap' = h /\ result' = result @@ ("networkIsolated" :> TRUE)
    <2>1. DOMAIN result \subseteq DOMAIN result'
      BY <1>5, UnionDomain
    <2> QED
      BY <1>4, <1>5, <2>1 DEF StepHeld
  <1>6. CASE /\ heap' = Popped(h, src, {"networks"})
             /\ result' = IF Declared("networks")
                          THEN result @@ ("networks" :> heap[src]["networks"]) ELSE result
    <2>1. /\ DOMAIN result \subseteq DOMAIN result'
          /\ Declared("networks") => "networks" \in DOMAIN result'
      BY <1>6 DEF :>, @@
    <2>2. DOMAIN h[src] \subseteq DOMAIN heap[src]
      BY <1>3, PoppedHeap
    <2>3. Held(doc, h, at, result')
      BY <1>4, <2>1
    <2>4. ASSUME NEW k \in {"networks"} \cap DOMAIN h[src]
          PROVE  Handled(doc, at, k, result')
      <3>1. CASE heap[src][k] = Null
        BY <1>3, <2>2, <3>1 DEF Handled
      <3>2. ASSUME heap[src][k] # Null
            PROVE  Declared(k)
        BY <2>2, <3>2 DEF Declared, Get
      <3>3. CASE heap[src][k] # Null
        BY <2>1, <3>2, <3>3, PlainNames DEF Handled, ExtensionKeys
      <3> QED
        BY <3>1, <3>3
    <2> HIDE DEF h
    <2> QED
      BY <1>3, <1>6, <2>3, <2>4, PopHeld DEF StepHeld
  <1> QED
    BY <1>5, <1>6 DEF Network, Raise, Goto, In

\* So does the stage of the host name.
LEMMA HostnameHeld ==
    ASSUME NamesInv, DroppedInv, Separate(doc), Hostname, status' = "running"
    PROVE  StepHeld
  <1> DEFINE ks == {"hostname"} \cup IgnoredKeys
  <1>1. stage = "hostname" /\ heap' = Popped(heap, src, ks) /\ result' = result
    BY DEF Hostname, Raise, Goto, In
  <1>2. stage \in ServiceStages
    BY <1>1 DEF ServiceStages
  <1>3. /\ doc.order \in Seq(STRING) /\ at \in DOMAIN doc.order /\ Held(doc, heap, at, result)
        /\ src = ServiceCell(doc, at)
    BY <1>2, CurrentService
  <1>4. \A k \in ks : Handled(doc, at, k, result)
    BY FoldedHandled
  <1> HIDE DEF ks
  <1> QED
    BY <1>1, <1>3, <1>4, PopHeld DEF StepHeld

\* A dict other than a service's may change in between, if that leaves it Cleared.
LEMMA HeldAgain ==
    ASSUME NEW d, NEW i \in DOMAIN d.order, NEW h, NEW g, NEW r, Held(d, h, i, r),
           Shrunk(d, g), Cleared(d, g), \A x \in Services(d) : g[x] = h[x]
    PROVE  Held(d, g, i, r)
  <1>1. \A j \in DOMAIN d.order : g[ServiceCell(d, j)] = h[ServiceCell(d, j)]
    BY ServiceCellKind
  <1>2. Removed(d, g, ServiceCell(d, i)) = Removed(d, h, ServiceCell(d, i))
    BY <1>1 DEF Removed
  <1> QED
    BY <1>1, <1>2 DEF Held, Untouched

\* What a dict of the document had is what it still has and what was taken.
LEMMA KeysAccounted ==
    ASSUME NEW d, NEW h, Shrunk(d, h), NEW c \in DOMAIN h
    PROVE  DOMAIN d.heap[c] = DOMAIN h[c] \cup Removed(d, h, c)
  BY DEF Shrunk, Removed

\* A dict is not None.
LEMMA ReferenceNotNull == \A v : IsDict(v) => v # Null
  <1>1. "ref" \notin DOMAIN Null
    BY DEF Null
  <1> QED
    BY <1>1 DEF IsDict

\* So does the stage of the health check.
LEMMA HealthHeld ==
    ASSUME NamesInv, DroppedInv, Separate(doc), _healthcheck_to_readiness_probe,
           status' = "running"
    PROVE  StepHeld
  <1>1. stage = "healthcheck"
    BY DEF _healthcheck_to_readiness_probe, In
  <1>2. stage \in ServiceStages
    BY <1>1 DEF ServiceStages
  <1>3. /\ doc.order \in Seq(STRING) /\ at \in DOMAIN doc.order /\ Held(doc, heap, at, result)
        /\ src = ServiceCell(doc, at) /\ src \in Services(doc) /\ src \in DOMAIN heap
        /\ \A k \in DOMAIN heap[src] : heap[src][k] = doc.heap[src][k]
    BY <1>2, CurrentService
  <1>4. CASE ~Declared("healthcheck")
    <2>1. heap' = Popped(heap, src, {"healthcheck"}) /\ result' = result
      BY <1>4 DEF _healthcheck_to_readiness_probe, Goto
    <2>2. \A k \in {"healthcheck"} \cap DOMAIN heap[src] : Handled(doc, at, k, result')
      BY <1>3, <1>4 DEF Handled, Declared, Get
    <2> QED
      BY <1>3, <2>1, <2>2, PopHeld DEF StepHeld
  <1>5. CASE Declared("healthcheck")
    <2> DEFINE c == heap[src]["healthcheck"].ref
               left == DOMAIN heap[c] \ ({"test", "start_interval"} \cup DOMAIN ProbeKeys)
               g == Popped(heap, c, DOMAIN heap[c])
    <2>1. /\ left = {} /\ heap' = Popped(g, src, {"healthcheck"})
          /\ \E p : result' = result @@ ("readinessProbe" :> p)
      BY <1>5 DEF _healthcheck_to_readiness_probe, Goto, Raise
    <2>2. /\ "healthcheck" \in DOMAIN heap[src]
          /\ doc.heap[src]["healthcheck"] = heap[src]["healthcheck"]
          /\ heap[src]["healthcheck"] # Null
      BY <1>3, <1>5 DEF Declared, Get
    <2>3. "healthcheck" \in DOMAIN doc.heap[src]
      BY <1>3, <2>2 DEF Held, Shrunk
    <2>4. IsDict(doc.heap[src]["healthcheck"])
      BY <1>3, <2>2, <2>3 DEF Separate, Get
    <2>5. c \in Healthchecks(doc)
      BY <1>3, <2>2, <2>3, <2>4, InsideMember DEF Healthchecks
    <2>6. Shrunk(doc, heap) /\ Cleared(doc, heap)
      BY <1>3 DEF Held
    <2> HIDE DEF c
    <2>7. /\ Shrunk(doc, g) /\ c \in DOMAIN heap
          /\ \A x \in DOMAIN heap : x # c => g[x] = heap[x]
      BY <2>5, <2>6, PopShrunk DEF Poppable
    <2>8. DOMAIN doc.heap[c] \subseteq {"test", "start_interval"} \cup DOMAIN ProbeKeys
      <3>1. CASE Removed(doc, heap, c) # {}
        <4>1. HealthFine(doc, [ref |-> c])
          BY <2>5, <2>6, <3>1 DEF Cleared
        <4>2. IsDict([ref |-> c])
          BY DEF IsDict
        <4> QED
          BY <4>1, <4>2, ReferenceNotNull DEF HealthFine, KeysIn
      <3>2. CASE Removed(doc, heap, c) = {}
        BY <2>1, <2>6, <2>7, <3>2, KeysAccounted
      <3> QED
        BY <3>1, <3>2
    <2> HIDE DEF g
    <2>9. Cleared(doc, g)
      <3>1. HealthFine(doc, [ref |-> c])
        BY <2>8 DEF HealthFine, KeysIn
      <3>2. \A x \in DOMAIN heap : x # c => Removed(doc, g, x) = Removed(doc, heap, x)
        BY <2>7 DEF Removed
      <3>3. DOMAIN heap = DOMAIN doc.heap
        BY <2>6 DEF Shrunk
      <3>4. \A x \in Deploys(doc) \cup Resources(doc) \cup Extensions(doc) :
              Removed(doc, g, x) = Removed(doc, heap, x)
        BY <2>5, <3>2, <3>3, KindsApart, KindsLoaded
      <3>5. \A x \in Healthchecks(doc) : \/ Removed(doc, g, x) = Removed(doc, heap, x)
                                         \/ HealthFine(doc, [ref |-> x])
        BY <3>1, <3>2, <3>3, KindsLoaded
      <3> QED
        BY <2>6, <3>4, <3>5, ClearedKept
    <2>10. Held(doc, g, at, result)
      <3>1. \A x \in Services(doc) : g[x] = heap[x]
        BY <2>5, <2>6, <2>7, KindsApart, KindsLoaded DEF Shrunk
      <3> QED
        BY <1>3, <2>7, <2>9, <3>1, HeldAgain
    <2>11. DOMAIN result \subseteq DOMAIN result' /\ "readinessProbe" \in DOMAIN result'
      BY <2>1 DEF :>, @@
    <2>12. Handled(doc, at, "healthcheck", result')
      <3>1. HealthFine(doc, doc.heap[src]["healthcheck"])
        BY <2>2, <2>8 DEF HealthFine, KeysIn, c
      <3> QED
        BY <1>3, <2>11, <3>1, PlainNames DEF Handled, ExtensionKeys
    <2>13. \A k \in {"healthcheck"} \cap DOMAIN g[src] : Handled(doc, at, k, result')
      BY <2>12
    <2> QED
      BY <1>3, <2>1, <2>10, <2>11, <2>13, PopHeld DEF StepHeld
  <1> QED
    BY <1>4, <1>5

\* So does the stage of the extensions.
LEMMA ExtensionHeld ==
    ASSUME NamesInv, DroppedInv, Separate(doc), _apply_service_extensions, status' = "running"
    PROVE  StepHeld
  <1> DEFINE ext == Extension(heap, src)
             h0 == Popped(heap, src, ExtensionKeys)
             built == IF "resources" \in DOMAIN result THEN result["resources"] ELSE <<>>
  <1>1. stage = "extension" /\ ~BothKeys(src) /\ (ext = Null \/ IsDict(ext))
    BY DEF _apply_service_extensions, In, Raise
  <1>2. stage \in ServiceStages
    BY <1>1 DEF ServiceStages
  <1>3. /\ doc.order \in Seq(STRING) /\ at \in DOMAIN doc.order /\ Held(doc, heap, at, result)
        /\ src = ServiceCell(doc, at) /\ src \in Services(doc) /\ src \in DOMAIN heap
        /\ \A k \in DOMAIN heap[src] : heap[src][k] = doc.heap[src][k]
    BY <1>2, CurrentService
  <1>4. Shrunk(doc, heap) /\ Cleared(doc, heap) /\ DOMAIN heap = DOMAIN doc.heap
    BY <1>3 DEF Held, Shrunk
  <1>5. \A k \in ExtensionKeys \cap DOMAIN heap[src] : heap[src][k] = ext
    <2> SUFFICES ASSUME NEW k \in ExtensionKeys \cap DOMAIN heap[src]
                 PROVE  heap[src][k] = ext
      OBVIOUS
    <2>1. DOMAIN heap[src] \cap ExtensionKeys = {k}
      BY <1>1 DEF BothKeys, ExtensionKeys
    <2>2. (CHOOSE x \in DOMAIN heap[src] \cap ExtensionKeys : TRUE) = k
      BY <2>1
    <2> QED
      BY <2>1, <2>2 DEF Extension
  <1>6. CASE ext = Null
    <2>1. heap' = h0 /\ result' = result
      <3>1. ~IsDict(ext)
        BY <1>6, ReferenceNotNull
      <3> QED
        BY <1>1, <1>6, <3>1 DEF _apply_service_extensions, Goto, Raise
    <2>2. \A k \in ExtensionKeys \cap DOMAIN heap[src] : Handled(doc, at, k, result')
      BY <1>3, <1>5, <1>6 DEF Handled
    <2> QED
      BY <1>3, <2>1, <2>2, PopHeld DEF StepHeld
  <1>7. CASE IsDict(ext)
    <2> DEFINE c == ext.ref
               more == Get(h0, c, "resources")
               h1 == Popped(h0, c, {"resources"})
               m == more.ref
               h2 == Popped(h1, m, {"requests", "limits"})
    <2>1. ext # Null
      BY <1>7, ReferenceNotNull
    <2>2. /\ DOMAIN h1[c] = {}
          /\ more # Null => IsDict(more) /\ DOMAIN h1[m] \subseteq {"requests", "limits"}
          /\ \/ more = Null /\ heap' = h1 /\ result' = result
             \/ /\ more # Null /\ heap' = h2
                /\ \E p : result' = ("resources" :> p) @@ result
      BY <1>1, <1>7, <2>1 DEF _apply_service_extensions, Goto, Raise
    <2>3. PICK k0 \in ExtensionKeys \cap DOMAIN heap[src] : heap[src][k0] = ext
      <3>1. DOMAIN heap[src] \cap ExtensionKeys # {}
        BY <2>1 DEF Extension
      <3> QED
        BY <1>5, <3>1
    <2>4. c \in Extensions(doc)
      <3>1. k0 \in DOMAIN doc.heap[src] /\ doc.heap[src][k0] = ext
        BY <1>3, <1>4, <2>3 DEF Shrunk
      <3> QED
        BY <1>3, <1>7, <2>3, <3>1, InsideMember DEF Extensions
    <2> HIDE DEF ext
    <2>5. /\ Shrunk(doc, h0) /\ DOMAIN h0 = DOMAIN heap
          /\ \A x \in DOMAIN heap : x # src => h0[x] = heap[x]
      BY <1>3, <1>4, PopShrunk DEF Poppable, Shrunk
    <2>6. c \in DOMAIN heap /\ c # src /\ h0[c] = heap[c]
      BY <1>3, <1>4, <2>4, <2>5, KindsApart, KindsLoaded
    <2> HIDE DEF h0, c
    <2>7. /\ Shrunk(doc, h1) /\ DOMAIN h1 = DOMAIN heap
          /\ \A x \in DOMAIN heap : x # c => h1[x] = h0[x]
      <3>1. Poppable(doc, c, {"resources"})
        BY <2>4 DEF Poppable
      <3>2. Shrunk(doc, h1) /\ \A x \in DOMAIN h0 : x # c => h1[x] = h0[x]
        BY <2>5, <3>1, PopShrunk
      <3> QED
        BY <1>4, <2>5, <3>2 DEF Shrunk
    <2> HIDE DEF h1
    <2>8. DOMAIN doc.heap[c] \subseteq {"resources"}
      <3>1. Removed(doc, h1, c) \subseteq {"resources"}
        BY <2>4, <2>7 DEF Shrunk
      <3>2. DOMAIN doc.heap[c] = DOMAIN h1[c] \cup Removed(doc, h1, c)
        BY <2>6, <2>7, KeysAccounted
      <3> QED
        BY <2>2, <3>1, <3>2
    <2>9. more # Null => more = doc.heap[c]["resources"] /\ "resources" \in DOMAIN doc.heap[c]
      BY <1>4, <2>6 DEF Get, Shrunk
    <2>10. more # Null => m \in ExtResources(doc)
      BY <2>2, <2>4, <2>9, InsideMember DEF ExtResources
    <2>11. ASSUME more # Null
           PROVE  KeysIn(doc, more) \subseteq {"requests", "limits"}
      <3>1. m \in DOMAIN h1
        BY <1>4, <2>7, <2>10, <2>11, KindsLoaded
      <3>2. Removed(doc, h1, m) \subseteq {"requests", "limits"}
        BY <2>7, <2>10, <2>11 DEF Shrunk
      <3>3. DOMAIN doc.heap[m] = DOMAIN h1[m] \cup Removed(doc, h1, m)
        BY <2>7, <3>1, KeysAccounted
      <3> QED
        BY <2>2, <2>11, <3>2, <3>3 DEF KeysIn
    <2>12. \A k \in DOMAIN doc.heap[c] :
             KeysIn(doc, doc.heap[c][k]) \subseteq {"requests", "limits"}
      <3> SUFFICES ASSUME NEW k \in DOMAIN doc.heap[c]
                   PROVE  KeysIn(doc, doc.heap[c][k]) \subseteq {"requests", "limits"}
        OBVIOUS
      <3>1. k = "resources"
        BY <2>8
      <3>2. CASE k \in Removed(doc, heap, c)
        BY <1>4, <2>4, <3>2 DEF Cleared
      <3>3. CASE k \in DOMAIN heap[c] /\ more # Null
        BY <2>9, <2>11, <3>1, <3>3
      <3>4. CASE k \in DOMAIN heap[c] /\ more = Null
        <4>1. doc.heap[c][k] = Null
          BY <1>4, <2>6, <3>1, <3>4 DEF Get, Shrunk
        <4> QED
          BY <4>1 DEF KeysIn
      <3> QED
        BY <3>2, <3>3, <3>4 DEF Removed
    <2>13. \A k \in ExtensionKeys \cap DOMAIN heap[src] : \A r : Handled(doc, at, k, r)
      <3> SUFFICES ASSUME NEW k \in ExtensionKeys \cap DOMAIN heap[src], NEW r
                   PROVE  Handled(doc, at, k, r)
        OBVIOUS
      <3>1. doc.heap[ServiceCell(doc, at)][k] = ext
        BY <1>3, <1>5
      <3>2. ExtensionFine(doc, ext)
        BY <2>1, <2>8, <2>12 DEF ExtensionFine, KeysIn, c
      <3> QED
        BY <3>1, <3>2 DEF Handled, FoldedKeys, ExtensionKeys
    <2>14. DOMAIN result \subseteq DOMAIN result'
      BY <2>2 DEF :>, @@
    <2>15. Held(doc, h0, at, result')
      BY <1>3, <2>13, <2>14, PopHeld DEF h0
    <2>16. Shrunk(doc, heap') /\ \A x \in DOMAIN heap :
             x # c /\ x \notin ExtResources(doc) => heap'[x] = h0[x]
      <3>1. CASE more = Null
        BY <2>2, <2>7, <3>1
      <3>2. CASE more # Null
        <4>1. Poppable(doc, m, {"requests", "limits"})
          BY <2>10, <3>2 DEF Poppable
        <4>2. Shrunk(doc, h2) /\ \A x \in DOMAIN h1 : x # m => h2[x] = h1[x]
          BY <2>7, <4>1, PopShrunk
        <4> HIDE DEF h2, m
        <4> QED
          BY <2>2, <2>7, <2>10, <3>2, <4>2
      <3> QED
        BY <3>1, <3>2
    <2>17. \A x \in DOMAIN heap : x # c /\ x \notin ExtResources(doc) =>
             Removed(doc, heap', x) = Removed(doc, h0, x)
      BY <2>16 DEF Removed
    <2>18. Cleared(doc, heap')
      <3>1. \A x \in Healthchecks(doc) \cup Deploys(doc) \cup Resources(doc) :
              Removed(doc, heap', x) = Removed(doc, h0, x)
        BY <1>4, <2>4, <2>17, KindsApart, KindsLoaded
      <3>2. \A x \in Extensions(doc) : x # c => Removed(doc, heap', x) = Removed(doc, h0, x)
        BY <1>4, <2>17, KindsApart, KindsLoaded
      <3>3. \A x \in Extensions(doc) : \A k \in Removed(doc, heap', x) :
              \/ k \in Removed(doc, h0, x)
              \/ KeysIn(doc, doc.heap[x][k]) \subseteq {"requests", "limits"}
        BY <2>12, <3>2 DEF Removed
      <3>4. Cleared(doc, h0)
        BY <2>15 DEF Held
      <3> QED
        BY <3>1, <3>3, <3>4, ClearedKept
    <2>19. \A x \in Services(doc) : heap'[x] = h0[x]
      BY <1>4, <2>4, <2>16, KindsApart, KindsLoaded
    <2> QED
      BY <1>3, <2>15, <2>16, <2>18, <2>19, HeldAgain DEF StepHeld
  <1> QED
    BY <1>1, <1>6, <1>7

\* limits or reservations: once converted, nothing was in it but what is known.
LEMMA ConvertResource ==
    ASSUME NEW d, Separate(d), NEW h, Shrunk(d, h), NEW v,
           v = Null \/ (IsDict(v) /\ v.ref \in AmountDicts(d)),
           _convert_resource(h, v).st = "ok"
    PROVE  /\ Shrunk(d, _convert_resource(h, v).heap)
           /\ \A x \in DOMAIN h : x \notin AmountDicts(d) =>
                _convert_resource(h, v).heap[x] = h[x]
           /\ AmountsFine(d, v)
  <1> DEFINE keys == [cpu |-> "cpus", memory |-> "memory"]
             g == _convert_resource(h, v).heap
  <1>1. Range(keys) = {"cpus", "memory"}
    <2>1. DOMAIN keys = {"cpu", "memory"} /\ keys["cpu"] = "cpus" /\ keys["memory"] = "memory"
      OBVIOUS
    <2> HIDE DEF keys
    <2> QED
      BY <2>1 DEF Range
  <1>2. CASE ~Truthy(h, v)
    <2>1. g = h
      BY <1>2 DEF _convert_resource, Ret
    <2>2. CASE v = Null
      BY <2>1, <2>2 DEF AmountsFine, KeysIn
    <2>3. CASE v # Null
      <3>1. IsDict(v) /\ v.ref \in AmountDicts(d) /\ DOMAIN h[v.ref] = {} /\ v.ref \in DOMAIN h
        BY <1>2, <2>3, KindsLoaded DEF Truthy, Shrunk
      <3>2. DOMAIN d.heap[v.ref] = DOMAIN h[v.ref] \cup Removed(d, h, v.ref)
        BY <3>1, KeysAccounted
      <3>3. Removed(d, h, v.ref) \subseteq {"cpus", "memory"}
        BY <3>1 DEF Shrunk
      <3> QED
        BY <2>1, <3>1, <3>2, <3>3 DEF AmountsFine, KeysIn
    <2> QED
      BY <2>2, <2>3
  <1>3. CASE Truthy(h, v)
    <2>1. v # Null /\ IsDict(v) /\ v.ref \in AmountDicts(d) /\ v.ref \in DOMAIN h
      BY <1>3, KindsLoaded DEF Truthy, Shrunk
    <2>2. g = Popped(h, v.ref, {"cpus", "memory"})
      BY <1>1, <1>3 DEF _convert_resource, Ret
    <2>3. DOMAIN h[v.ref] \subseteq {"cpus", "memory"}
      BY <1>1, <1>3 DEF _convert_resource, Ret
    <2>4. DOMAIN d.heap[v.ref] = DOMAIN h[v.ref] \cup Removed(d, h, v.ref)
      BY <2>1, KeysAccounted
    <2>5. Removed(d, h, v.ref) \subseteq {"cpus", "memory"}
      BY <2>1 DEF Shrunk
    <2>6. Poppable(d, v.ref, {"cpus", "memory"})
      BY <2>1 DEF Poppable
    <2>7. Shrunk(d, g) /\ \A x \in DOMAIN h : x # v.ref => g[x] = h[x]
      BY <2>2, <2>6, PopShrunk
    <2> HIDE DEF g
    <2>8. AmountsFine(d, v)
      BY <2>1, <2>3, <2>4, <2>5 DEF AmountsFine, KeysIn
    <2> QED
      BY <2>1, <2>7, <2>8 DEF g
  <1> QED
    BY <1>2, <1>3

\* deploy.resources: c is its dict, in a document of which h is left.
LEMMA ConvertResources ==
    ASSUME NEW d, Separate(d), NEW h, Shrunk(d, h), NEW c \in Resources(d),
           \A k \in Removed(d, h, c) : AmountsFine(d, d.heap[c][k]),
           _convert_resources(h, c).st = "ok"
    PROVE  /\ Shrunk(d, _convert_resources(h, c).heap)
           /\ \A x \in DOMAIN h : x # c /\ x \notin AmountDicts(d) =>
                _convert_resources(h, c).heap[x] = h[x]
           /\ DOMAIN d.heap[c] \subseteq {"limits", "reservations"}
           /\ \A k \in DOMAIN d.heap[c] : AmountsFine(d, d.heap[c][k])
  <1> DEFINE h1 == Popped(h, c, {"limits"})
             lim == _convert_resource(h1, Get(h, c, "limits"))
             h2 == Popped(lim.heap, c, {"reservations"})
             res == _convert_resource(h2, Get(h, c, "reservations"))
  <1>1. /\ lim.st = "ok" /\ res.st = "ok" /\ DOMAIN res.heap[c] = {}
        /\ _convert_resources(h, c).heap = res.heap
    BY DEF _convert_resources, Ret
  <1>2. DOMAIN h = DOMAIN d.heap /\ c \in DOMAIN h
    BY KindsLoaded DEF Shrunk
  <1>3. \A sec \in {"limits", "reservations"} :
          \/ Get(h, c, sec) = Null
          \/ /\ IsDict(Get(h, c, sec)) /\ Get(h, c, sec).ref \in AmountDicts(d)
             /\ Get(h, c, sec) = d.heap[c][sec]
    <2> SUFFICES ASSUME NEW sec \in {"limits", "reservations"}, Get(h, c, sec) # Null
                 PROVE  /\ IsDict(Get(h, c, sec)) /\ Get(h, c, sec).ref \in AmountDicts(d)
                        /\ Get(h, c, sec) = d.heap[c][sec]
      OBVIOUS
    <2>1. sec \in DOMAIN d.heap[c] /\ Get(h, c, sec) = d.heap[c][sec]
      BY <1>2 DEF Get, Shrunk
    <2>2. IsDict(d.heap[c][sec])
      BY <2>1 DEF Separate, Get
    <2> QED
      BY <2>1, <2>2, InsideMember DEF AmountDicts
  <1>4. Poppable(d, c, {"limits"}) /\ Poppable(d, c, {"reservations"})
    BY DEF Poppable
  <1>5. /\ Shrunk(d, h1) /\ DOMAIN h1 = DOMAIN h
        /\ \A x \in DOMAIN h : x # c => h1[x] = h[x]
    <2>1. Shrunk(d, h1) /\ \A x \in DOMAIN h : x # c => h1[x] = h[x]
      BY <1>4, PopShrunk
    <2> QED
      BY <1>2, <2>1 DEF Shrunk
  <1> HIDE DEF h1
  <1>6. /\ Shrunk(d, lim.heap) /\ AmountsFine(d, Get(h, c, "limits"))
        /\ \A x \in DOMAIN h1 : x \notin AmountDicts(d) => lim.heap[x] = h1[x]
    BY <1>1, <1>3, <1>5, ConvertResource
  <1> HIDE DEF lim
  <1>7. /\ Shrunk(d, h2) /\ \A x \in DOMAIN lim.heap : x # c => h2[x] = lim.heap[x]
    BY <1>4, <1>6, PopShrunk
  <1> HIDE DEF h2
  <1>8. /\ Shrunk(d, res.heap) /\ AmountsFine(d, Get(h, c, "reservations"))
        /\ \A x \in DOMAIN h2 : x \notin AmountDicts(d) => res.heap[x] = h2[x]
    BY <1>1, <1>3, <1>7, ConvertResource
  <1> HIDE DEF res
  <1>9. DOMAIN lim.heap = DOMAIN h /\ DOMAIN h2 = DOMAIN h /\ DOMAIN res.heap = DOMAIN h
    BY <1>2, <1>6, <1>7, <1>8 DEF Shrunk
  <1>10. \A x \in DOMAIN h : x # c /\ x \notin AmountDicts(d) => res.heap[x] = h[x]
    BY <1>5, <1>6, <1>7, <1>8, <1>9
  <1>11. DOMAIN d.heap[c] \subseteq {"limits", "reservations"}
    <2>1. DOMAIN d.heap[c] = DOMAIN res.heap[c] \cup Removed(d, res.heap, c)
      BY <1>2, <1>8, <1>9, KeysAccounted
    <2>2. Removed(d, res.heap, c) \subseteq {"limits", "reservations"}
      BY <1>8 DEF Shrunk
    <2> QED
      BY <1>1, <2>1, <2>2
  <1>12. ASSUME NEW k \in DOMAIN d.heap[c]
         PROVE  AmountsFine(d, d.heap[c][k])
    <2>1. CASE k \in Removed(d, h, c)
      BY <2>1
    <2>2. CASE k \in DOMAIN h[c]
      <3>1. Get(h, c, k) = d.heap[c][k]
        BY <1>2, <2>2 DEF Get, Shrunk
      <3> QED
        BY <1>6, <1>8, <1>11, <3>1
    <2> QED
      BY <2>1, <2>2 DEF Removed
  <1> QED
    BY <1>1, <1>8, <1>10, <1>11, <1>12

\* So does the stage of the deployment and its resources.
LEMMA DeployHeld ==
    ASSUME NamesInv, DroppedInv, Separate(doc), _convert_deploy, stage' = "security"
    PROVE  StepHeld
  <1> DEFINE v == Get(heap, src, "deploy")
             ks == {"mem_limit", "cpus", "deploy"}
             h0 == Popped(heap, src, ks)
             resources == IF v = Null THEN Null ELSE Get(h0, v.ref, "resources")
             h1 == IF v = Null THEN h0 ELSE Popped(h0, v.ref, {"resources"})
  <1>1. /\ stage = "deploy"
        /\ v # Null => DOMAIN heap'[v.ref] = {}
        /\ \/ Truthy(h1, resources) /\ heap' = _convert_resources(h1, resources.ref).heap
                /\ _convert_resources(h1, resources.ref).st = "ok"
           \/ ~Truthy(h1, resources) /\ heap' = h1
        /\ result' = result \/ \E p : result' = result @@ ("resources" :> p)
    <2> DEFINE short == [cpu |-> "cpus", memory |-> "mem_limit"]
               mem == MemoryStatus(Get(heap, src, "mem_limit"))
               amounts == IF mem # "ok" \/ \A k \in Range(short) : ~Declared(k) THEN <<>>
                          ELSE "limits" :> Amounts(heap, src, short)
               built == IF Truthy(h1, resources) THEN _convert_resources(h1, resources.ref)
                        ELSE Ret(h1, amounts, mem)
               made == _set_requests_to_limits_if_unset(built.val)
               kept == Truthy(h1, resources) \/ DOMAIN made # {}
    <2>1. stage = "deploy"
      BY DEF _convert_deploy, In
    <2>2. /\ built.st = "ok" /\ heap' = built.heap
          /\ v # Null => DOMAIN built.heap[v.ref] = {}
          /\ result' = IF kept THEN result @@ ("resources" :> made) ELSE result
      BY <2>1 DEF _convert_deploy, Goto, Raise
    <2>3. ~Truthy(h1, resources) => built.heap = h1
      BY DEF Ret
    <2> HIDE DEF made, kept, amounts, mem
    <2> QED
      BY <2>1, <2>2, <2>3
  <1>2. stage \in ServiceStages
    BY <1>1 DEF ServiceStages
  <1>3. /\ doc.order \in Seq(STRING) /\ at \in DOMAIN doc.order /\ Held(doc, heap, at, result)
        /\ src = ServiceCell(doc, at) /\ src \in Services(doc) /\ src \in DOMAIN heap
        /\ \A k \in DOMAIN heap[src] : heap[src][k] = doc.heap[src][k]
    BY <1>2, CurrentService
  <1>4. Shrunk(doc, heap) /\ Cleared(doc, heap) /\ DOMAIN heap = DOMAIN doc.heap
    BY <1>3 DEF Held, Shrunk
  <1>5. DOMAIN result \subseteq DOMAIN result'
    BY <1>1 DEF :>, @@
  <1>6. \A k \in {"mem_limit", "cpus"} : Handled(doc, at, k, result')
    BY FoldedHandled
  <1>7. CASE v = Null
    <2>1. heap' = h0
      BY <1>1, <1>7 DEF Truthy
    <2>2. \A k \in ks \cap DOMAIN heap[src] : Handled(doc, at, k, result')
      <3>1. "deploy" \in DOMAIN heap[src] => Handled(doc, at, "deploy", result')
        BY <1>3, <1>7 DEF Get, Handled
      <3> QED
        BY <1>6, <3>1
    <2> HIDE DEF ks
    <2> QED
      BY <1>3, <1>5, <2>1, <2>2, PopHeld DEF StepHeld
  <1>8. CASE v # Null
    <2> DEFINE c == v.ref
               r == resources.ref
    <2>1. /\ "deploy" \in DOMAIN heap[src] /\ v = doc.heap[src]["deploy"]
          /\ "deploy" \in DOMAIN doc.heap[src]
      BY <1>3, <1>4, <1>8 DEF Get, Shrunk
    <2>2. IsDict(v)
      BY <1>3, <1>8, <2>1 DEF Separate, Get
    <2>3. c \in Deploys(doc)
      BY <1>3, <2>1, <2>2, InsideMember DEF Deploys
    <2>4. /\ resources = Get(h0, c, "resources") /\ h1 = Popped(h0, c, {"resources"})
          /\ DOMAIN heap'[c] = {}
      BY <1>1, <1>8
    <2>5. /\ Shrunk(doc, h0) /\ DOMAIN h0 = DOMAIN heap
          /\ \A x \in DOMAIN heap : x # src => h0[x] = heap[x]
      BY <1>3, <1>4, PopShrunk DEF Poppable, Shrunk
    <2>6. c \in DOMAIN heap /\ c # src /\ h0[c] = heap[c]
      BY <1>3, <1>4, <2>3, <2>5, KindsApart, KindsLoaded
    <2> HIDE DEF v, h0, resources, h1, c
    <2>7. /\ Shrunk(doc, h1) /\ DOMAIN h1 = DOMAIN heap
          /\ \A x \in DOMAIN heap : x # c => h1[x] = h0[x]
      <3>1. Poppable(doc, c, {"resources"})
        BY <2>3 DEF Poppable
      <3>2. Shrunk(doc, h1) /\ \A x \in DOMAIN h0 : x # c => h1[x] = h0[x]
        BY <2>4, <2>5, <3>1, PopShrunk
      <3> QED
        BY <1>4, <2>5, <3>2 DEF Shrunk
    <2>8. ASSUME resources # Null
          PROVE  /\ IsDict(resources) /\ r \in Resources(doc) /\ r \in DOMAIN heap
                 /\ h1[r] = heap[r]
                 /\ "resources" \in DOMAIN doc.heap[c] /\ resources = doc.heap[c]["resources"]
                 /\ \A k \in Removed(doc, h1, r) : AmountsFine(doc, doc.heap[r][k])
      <3>1. "resources" \in DOMAIN doc.heap[c] /\ resources = doc.heap[c]["resources"]
        BY <1>4, <2>4, <2>6, <2>8 DEF Get, Shrunk
      <3>2. IsDict(resources)
        BY <2>3, <2>8, <3>1 DEF Separate, Get
      <3>3. r \in Resources(doc)
        BY <2>3, <3>1, <3>2, InsideMember DEF Resources
      <3>4. r \in DOMAIN heap /\ r # c /\ r # src
        BY <1>3, <1>4, <2>3, <3>3, KindsApart, KindsLoaded
      <3>5. h1[r] = heap[r]
        BY <2>5, <2>7, <3>4
      <3>6. Removed(doc, h1, r) = Removed(doc, heap, r)
        BY <3>5 DEF Removed
      <3> QED
        BY <1>4, <3>1, <3>2, <3>3, <3>4, <3>5, <3>6 DEF Cleared
    <2> HIDE DEF r
    <2>9. /\ Shrunk(doc, heap')
          /\ \A x \in DOMAIN heap : x \notin Resources(doc) /\ x \notin AmountDicts(doc) =>
               heap'[x] = h1[x]
          /\ \A x \in Resources(doc) : heap'[x] = h1[x] \/ (resources # Null /\ x = r)
          /\ ResourcesFine(doc, resources)
      <3>1. CASE Truthy(h1, resources)
        <4>1. resources # Null
          BY <3>1 DEF Truthy
        <4>2. /\ heap' = _convert_resources(h1, r).heap
              /\ _convert_resources(h1, r).st = "ok"
          BY <1>1, <3>1 DEF r
        <4>3. /\ Shrunk(doc, heap')
              /\ \A x \in DOMAIN h1 : x # r /\ x \notin AmountDicts(doc) => heap'[x] = h1[x]
              /\ DOMAIN doc.heap[r] \subseteq {"limits", "reservations"}
              /\ \A k \in DOMAIN doc.heap[r] : AmountsFine(doc, doc.heap[r][k])
          BY <2>7, <2>8, <4>1, <4>2, ConvertResources
        <4>4. ResourcesFine(doc, resources)
          BY <4>1, <4>3 DEF ResourcesFine, KeysIn, r
        <4>5. \A x \in Resources(doc) : x \in DOMAIN h1 /\ x \notin AmountDicts(doc)
          BY <1>4, <2>7, KindsApart, KindsLoaded
        <4> QED
          BY <2>7, <2>8, <4>1, <4>3, <4>4, <4>5
      <3>2. CASE ~Truthy(h1, resources)
        <4>1. heap' = h1
          BY <1>1, <3>2
        <4>2. CASE resources = Null
          BY <2>7, <4>1, <4>2 DEF ResourcesFine, KeysIn
        <4>3. CASE resources # Null
          <5>1. DOMAIN h1[r] = {}
            BY <2>8, <3>2, <4>3 DEF Truthy, r
          <5>2. DOMAIN doc.heap[r] = DOMAIN h1[r] \cup Removed(doc, h1, r)
            BY <2>7, <2>8, <4>3, KeysAccounted
          <5>3. Removed(doc, h1, r) \subseteq {"limits", "reservations"}
            BY <2>7, <2>8, <4>3 DEF Shrunk
          <5>4. ResourcesFine(doc, resources)
            BY <2>8, <4>3, <5>1, <5>2, <5>3 DEF ResourcesFine, KeysIn, r
          <5> QED
            BY <2>7, <4>1, <5>4
        <4> QED
          BY <4>2, <4>3
      <3> QED
        BY <3>1, <3>2
    <2>10. c \notin Resources(doc) /\ c \notin AmountDicts(doc) /\ heap'[c] = h1[c]
      BY <2>3, <2>6, <2>9, KindsApart
    <2>11. /\ DOMAIN doc.heap[c] \subseteq {"resources"}
           /\ \A k \in DOMAIN doc.heap[c] : ResourcesFine(doc, doc.heap[c][k])
      <3>1. DOMAIN doc.heap[c] = DOMAIN heap'[c] \cup Removed(doc, heap', c)
        BY <1>4, <2>6, <2>9, KeysAccounted DEF Shrunk
      <3>2. Removed(doc, heap', c) \subseteq {"resources"}
        BY <2>3, <2>9 DEF Shrunk
      <3>3. ASSUME NEW k \in DOMAIN doc.heap[c]
            PROVE  ResourcesFine(doc, doc.heap[c][k])
        <4>1. k = "resources"
          BY <2>4, <3>1, <3>2
        <4>2. CASE k \in Removed(doc, heap, c)
          BY <1>4, <2>3, <4>2 DEF Cleared
        <4>3. CASE k \in DOMAIN heap[c]
          <5>1. resources = doc.heap[c][k]
            BY <1>4, <2>4, <2>6, <4>1, <4>3 DEF Get, Shrunk
          <5> QED
            BY <2>9, <5>1
        <4> QED
          BY <4>2, <4>3 DEF Removed
      <3> QED
        BY <2>4, <3>1, <3>2, <3>3
    <2>12. DeployFine(doc, v)
      BY <1>8, <2>11 DEF DeployFine, KeysIn, c
    <2>13. \A k \in ks \cap DOMAIN heap[src] : Handled(doc, at, k, result')
      <3>1. Handled(doc, at, "deploy", result')
        BY <1>3, <2>1, <2>12 DEF Handled, FoldedKeys, ExtensionKeys
      <3> QED
        BY <1>6, <3>1
    <2>14. Held(doc, h0, at, result')
      <3> HIDE DEF ks
      <3> QED
        BY <1>3, <1>5, <2>13, PopHeld DEF h0
    <2>15. Cleared(doc, heap')
      <3>1. \A x \in DOMAIN heap : heap'[x] = h0[x] => Removed(doc, heap', x) = Removed(doc, h0, x)
        BY DEF Removed
      <3>2. \A x \in Healthchecks(doc) \cup Extensions(doc) :
              Removed(doc, heap', x) = Removed(doc, h0, x)
        BY <1>4, <2>3, <2>7, <2>9, <3>1, KindsApart, KindsLoaded
      <3>3. \A x \in Deploys(doc) : x # c => Removed(doc, heap', x) = Removed(doc, h0, x)
        BY <1>4, <2>7, <2>9, <3>1, KindsApart, KindsLoaded
      <3>4. \A x \in Deploys(doc) : \A k \in Removed(doc, heap', x) :
              k \in Removed(doc, h0, x) \/ ResourcesFine(doc, doc.heap[x][k])
        BY <2>11, <3>3 DEF Removed
      <3>5. \A x \in Resources(doc) : \A k \in Removed(doc, heap', x) :
              k \in Removed(doc, h0, x) \/ AmountsFine(doc, doc.heap[x][k])
        <4> SUFFICES ASSUME NEW x \in Resources(doc), NEW k \in Removed(doc, heap', x)
                     PROVE  k \in Removed(doc, h0, x) \/ AmountsFine(doc, doc.heap[x][k])
          OBVIOUS
        <4>1. CASE heap'[x] = h1[x]
          <5>1. x \in DOMAIN heap /\ x # c
            BY <1>4, <2>3, KindsApart, KindsLoaded
          <5> QED
            BY <2>7, <3>1, <4>1, <5>1
        <4>2. CASE resources # Null /\ x = r
          BY <2>9, <4>2 DEF ResourcesFine, KeysIn, Removed, r
        <4> QED
          BY <2>9, <4>1, <4>2
      <3>6. Cleared(doc, h0)
        BY <2>14 DEF Held
      <3> QED
        BY <3>2, <3>4, <3>5, <3>6, ClearedKept
    <2>16. \A x \in Services(doc) : heap'[x] = h0[x]
      BY <1>4, <2>3, <2>7, <2>9, KindsApart, KindsLoaded
    <2> QED
      BY <1>3, <2>9, <2>14, <2>15, <2>16, HeldAgain DEF StepHeld
  <1> QED
    BY <1>7, <1>8

\* Going on with the same service.
LEMMA HeldStep ==
    ASSUME DroppedInv, StepHeld, UNCHANGED <<doc, at, out>>, stage' \in ServiceStages,
           stage' # "plain"
    PROVE  DroppedInv'
  <1>1. Held(doc, heap, at, result)'
    BY DEF StepHeld
  <1>2. \A i : Converted(i)' = Converted(i)
    BY DEF Converted, OutputName
  <1>3. (\A i \in 1 .. at - 1 : \A k \in DOMAIN doc.heap[ServiceCell(doc, i)] :
           Handled(doc, i, k, Converted(i)))'
    BY <1>2 DEF DroppedInv
  <1> QED
    BY <1>1, <1>3 DEF DroppedInv

\* A step that raises, or that converts the top level, keeps what is known of
\* the services.
LEMMA ServicesKept ==
    ASSUME DroppedInv, UNCHANGED <<doc, at>>, out'.services = out.services,
           UNCHANGED <<heap, stage, result>> \/ stage' \notin ServiceStages
    PROVE  DroppedInv'
  <1>1. \A i : Converted(i)' = Converted(i)
    BY DEF Converted, OutputName
  <1>2. (\A i \in 1 .. at - 1 : \A k \in DOMAIN doc.heap[ServiceCell(doc, i)] :
           Handled(doc, i, k, Converted(i)))'
    BY <1>1 DEF DroppedInv
  <1>3. CASE UNCHANGED <<heap, stage, result>>
    BY <1>2, <1>3 DEF DroppedInv
  <1>4. CASE stage' \notin ServiceStages
    BY <1>2, <1>4 DEF DroppedInv
  <1> QED
    BY <1>3, <1>4

\* The service whose dict is empty has been handled altogether.
LEMMA ServiceDoneKept ==
    ASSUME NamesInv, DroppedInv, Separate(doc), ServiceDone, at' = at + 1
    PROVE  DroppedInv'
  <1> DEFINE name == OutputName(doc.order[at])
  <1>1. /\ stage = "leftover" /\ LeftoverKeys(src) = {} /\ UNCHANGED <<doc, heap>>
        /\ out' = [out EXCEPT !.services = (name :> result) @@ @]
        /\ stage' = IF LastService THEN "volumes" ELSE "plain"
        /\ at \in Nat
    <2>1. at \in Nat
      BY DocumentOrder DEF NamesInv
    <2>2. at' # at
      BY <2>1
    <2> QED
      BY <2>1, <2>2 DEF ServiceDone, In, Raise
  <1>2. stage \in ServiceStages
    BY <1>1 DEF ServiceStages
  <1>3. /\ doc.order \in Seq(STRING) /\ at \in DOMAIN doc.order /\ Held(doc, heap, at, result)
        /\ src = ServiceCell(doc, at) /\ src \in DOMAIN heap
    BY <1>2, CurrentService
  <1>4. out'.services = (name :> result) @@ out.services
    BY <1>1 DEF NamesInv
  <1>5. \A i : Converted(i)' = out'.services[OutputName(doc.order[i])]
    BY <1>1 DEF Converted, OutputName
  <1>6. ASSUME NEW i \in 1 .. at' - 1, NEW k \in DOMAIN doc.heap[ServiceCell(doc, i)]
        PROVE  Handled(doc, i, k, Converted(i)')
    <2>1. CASE i = at
      <3>1. Converted(i)' = result
        BY <1>4, <1>5, <2>1 DEF :>, @@
      <3>2. k \in Removed(doc, heap, ServiceCell(doc, at))
        BY <1>1, <1>3, <1>6, <2>1 DEF LeftoverKeys, Removed
      <3> QED
        BY <1>3, <2>1, <3>1, <3>2 DEF Held
    <2>2. CASE i # at
      <3>1. i \in 1 .. at - 1 /\ i \in DOMAIN doc.order
        BY <1>1, <1>3, <1>6, <2>2
      <3>2. OutputName(doc.order[i]) # name
        BY <1>3, <2>2, <3>1, NamesApart
      <3>3. OutputName(doc.order[i]) \in DOMAIN out.services
        BY <3>1 DEF NamesInv
      <3>4. Converted(i)' = Converted(i)
        BY <1>4, <1>5, <3>2, <3>3 DEF :>, @@, Converted
      <3>5. Handled(doc, i, k, Converted(i))
        BY <1>6, <3>1 DEF DroppedInv
      <3> QED
        BY <3>4, <3>5
    <2> QED
      BY <2>1, <2>2
  <1>7. (\A i \in 1 .. at - 1 : \A k \in DOMAIN doc.heap[ServiceCell(doc, i)] :
           Handled(doc, i, k, Converted(i)))'
    BY <1>1, <1>6
  <1>8. CASE LastService
    BY <1>1, <1>7, <1>8 DEF DroppedInv, ServiceStages
  <1>9. CASE ~LastService
    <2>1. at' \in DOMAIN doc.order /\ \A j \in DOMAIN doc.order : j > at' => j > at
      BY <1>1, <1>3, <1>9 DEF LastService
    <2>2. at' > at
      BY <1>1
    <2>3. Untouched(doc, heap, at')
      BY <1>3, <2>1, <2>2 DEF Held
    <2>4. Removed(doc, heap, ServiceCell(doc, at')) = {}
      BY <2>3 DEF Untouched, Removed
    <2>5. Held(doc, heap, at', result')
      BY <1>3, <2>1, <2>4 DEF Held
    <2> QED
      BY <1>1, <1>7, <2>3, <2>5 DEF DroppedInv
  <1> QED
    BY <1>8, <1>9

\* Every step keeps DroppedInv.
LEMMA DroppedInvStep ==
    ASSUME NamesInv, DroppedInv, Separate(doc), [Next]_vars
    PROVE  DroppedInv'
  <1>1. ASSUME NEW e, Raise(e)
        PROVE  DroppedInv'
    BY <1>1, ServicesKept DEF Raise
  <1>2. CASE NoServices
    BY <1>1, <1>2 DEF NoServices
  <1>3. CASE Plain
    <2>1. \/ Raise("error")
          \/ status' = "running" /\ stage' = "healthcheck" /\ UNCHANGED <<doc, at, out>>
      BY <1>3 DEF Plain, Goto, In
    <2> QED
      BY <1>1, <1>3, <2>1, PlainHeld, HeldStep DEF ServiceStages
  <1>4. CASE _healthcheck_to_readiness_probe
    <2>1. \/ Raise("error") \/ Raise("crash")
          \/ status' = "running" /\ stage' = "deploy" /\ UNCHANGED <<doc, at, out>>
      BY <1>4 DEF _healthcheck_to_readiness_probe, Goto, In
    <2> QED
      BY <1>1, <1>4, <2>1, HealthHeld, HeldStep DEF ServiceStages
  <1>5. CASE _convert_deploy
    <2>1. \/ \E e : Raise(e)
          \/ stage' = "security" /\ UNCHANGED <<doc, at, out>>
      BY <1>5 DEF _convert_deploy, Goto
    <2> QED
      BY <1>1, <1>5, <2>1, DeployHeld, HeldStep DEF ServiceStages
  <1>6. CASE Security
    <2>1. \/ Raise("error")
          \/ status' = "running" /\ stage' = "network" /\ UNCHANGED <<doc, at, out>>
      BY <1>6 DEF Security, Goto, In
    <2> QED
      BY <1>1, <1>6, <2>1, SecurityHeld, HeldStep DEF ServiceStages
  <1>7. CASE Network
    <2>1. \/ Raise("error")
          \/ status' = "running" /\ stage' = "hostname" /\ UNCHANGED <<doc, at, out>>
      BY <1>7 DEF Network, Goto, In
    <2> QED
      BY <1>1, <1>7, <2>1, NetworkHeld, HeldStep DEF ServiceStages
  <1>8. CASE Hostname
    <2>1. \/ Raise("error")
          \/ status' = "running" /\ stage' = "extension" /\ UNCHANGED <<doc, at, out>>
      BY <1>8 DEF Hostname, Goto, In
    <2> QED
      BY <1>1, <1>8, <2>1, HostnameHeld, HeldStep DEF ServiceStages
  <1>9. CASE _apply_service_extensions
    <2>1. \/ Raise("error")
          \/ status' = "running" /\ stage' = "leftover" /\ UNCHANGED <<doc, at, out>>
      BY <1>9 DEF _apply_service_extensions, Goto, In
    <2> QED
      BY <1>1, <1>9, <2>1, ExtensionHeld, HeldStep DEF ServiceStages
  <1>10. CASE ServiceDone
    BY <1>1, <1>10, ServiceDoneKept DEF ServiceDone
  <1>11. CASE _convert_volumes
    <2>1. \/ Raise("error")
          \/ /\ stage' = "networks" /\ UNCHANGED <<doc, at>>
             /\ \E x : out' = [out EXCEPT !.volumes = x]
      BY <1>11 DEF _convert_volumes, GotoTop
    <2> QED
      BY <1>1, <2>1, ServicesKept DEF ServiceStages, NamesInv
  <1>12. CASE _convert_networks
    <2>1. \/ Raise("error")
          \/ /\ stage' = "extensions" /\ UNCHANGED <<doc, at>>
             /\ \E x : out' = [out EXCEPT !.networks = x]
      BY <1>12 DEF _convert_networks, GotoTop
    <2> QED
      BY <1>1, <2>1, ServicesKept DEF ServiceStages, NamesInv
  <1>13. CASE _convert_extensions
    <2>1. \/ Raise("error") \/ Raise("crash")
          \/ /\ stage' = "top" /\ UNCHANGED <<doc, at>>
             /\ out' = out \/ \E x : out' = [out EXCEPT !.ext = x]
      BY <1>13 DEF _convert_extensions, GotoTop
    <2> QED
      BY <1>1, <2>1, ServicesKept DEF ServiceStages, NamesInv
  <1>14. CASE TopDone
    BY <1>14, ServicesKept DEF TopDone
  <1>15. CASE Ended \/ UNCHANGED vars
    BY <1>15, ServicesKept DEF Ended, vars
  <1> QED
    BY <1>2, <1>3, <1>4, <1>5, <1>6, <1>7, <1>8, <1>9, <1>10, <1>11, <1>12, <1>13, <1>14,
       <1>15 DEF Next

\* DroppedInv holds of every document just loaded.
LEMMA DroppedInvInit ==
    ASSUME Init
    PROVE  DroppedInv
  <1>1. heap = doc.heap /\ at = 1
    BY DEF Init
  <1>2. \A c : Removed(doc, heap, c) = {}
    BY <1>1 DEF Removed
  <1>3. Shrunk(doc, heap) /\ Cleared(doc, heap)
    BY <1>1, <1>2 DEF Shrunk, Cleared
  <1>4. \A i : Untouched(doc, heap, i)
    BY <1>1 DEF Untouched
  <1>5. 1 .. at - 1 = {}
    BY <1>1
  <1> QED
    BY <1>2, <1>3, <1>4, <1>5 DEF DroppedInv, Held

\* The invariants are enough for NothingSilentlyDropped.
LEMMA DroppedImplies ==
    ASSUME NamesInv, DroppedInv
    PROVE  NothingSilentlyDropped
  <1> SUFFICES ASSUME status = "done", NEW i \in DOMAIN doc.order
               PROVE  LET self == doc.heap[ServicesCell][doc.order[i]]
                          res == Under(Said(i, "deploy"), "resources")
                          keysIn(v) == IF v = Null THEN {} ELSE DOMAIN doc.heap[v.ref]
                      IN /\ \A k \in keysIn(self) : Said(i, k) # Null =>
                              \/ k \in FoldedKeys
                              \/ k \in DOMAIN HelmKeys /\ HelmKeys[k] \in DOMAIN Converted(i)
                         /\ keysIn(Said(i, "deploy")) \subseteq {"resources"}
                         /\ keysIn(res) \subseteq {"limits", "reservations"}
                         /\ \A sec \in {"limits", "reservations"} :
                              keysIn(Under(res, sec)) \subseteq {"cpus", "memory"}
                         /\ keysIn(Said(i, "healthcheck"))
                              \subseteq {"test", "start_interval"} \cup DOMAIN ProbeKeys
                         /\ \A k \in ExtensionKeys :
                              /\ keysIn(Said(i, k)) \subseteq {"resources"}
                              /\ keysIn(Under(Said(i, k), "resources"))
                                   \subseteq {"requests", "limits"}
                         /\ Said(i, "security_opt") # Null =>
                              \A j \in DOMAIN Said(i, "security_opt").opts :
                                /\ Said(i, "security_opt").opts[j][1] = "seccomp"
                                /\ "securityContext" \in DOMAIN Converted(i)
    BY DEF NothingSilentlyDropped
  <1> DEFINE c == ServiceCell(doc, i)
             deploy == Said(i, "deploy")
             res == Under(deploy, "resources")
  <1>1. \A k \in DOMAIN doc.heap[c] : Handled(doc, i, k, Converted(i))
    <2>1. i \in 1 .. at - 1
      BY DocumentOrder DEF NamesInv, TopStages
    <2> QED
      BY <2>1 DEF DroppedInv
  <1>2. \A k : Said(i, k) = IF k \in DOMAIN doc.heap[c] THEN doc.heap[c][k] ELSE Null
    BY DEF Said, Get, ServiceCell
  <1>3. \A k : Said(i, k) # Null =>
          /\ k \in FoldedKeys \/ (k \in DOMAIN HelmKeys /\ HelmKeys[k] \in DOMAIN Converted(i))
          /\ k = "deploy" => DeployFine(doc, Said(i, k))
          /\ k = "healthcheck" => HealthFine(doc, Said(i, k))
          /\ k \in ExtensionKeys => ExtensionFine(doc, Said(i, k))
          /\ k = "security_opt" => \A j \in DOMAIN Said(i, k).opts :
               Said(i, k).opts[j][1] = "seccomp" /\ "securityContext" \in DOMAIN Converted(i)
    BY <1>1, <1>2 DEF Handled
  <1>4. \A v, k : Under(v, k) # Null => /\ v # Null /\ k \in KeysIn(doc, v)
                                        /\ Under(v, k) = doc.heap[v.ref][k]
    BY DEF Under, Get, KeysIn
  <1>5. KeysIn(doc, Null) = {}
    BY DEF KeysIn
  <1>6. KeysIn(doc, deploy) \subseteq {"resources"}
    BY <1>3, <1>5 DEF DeployFine
  <1>7. res # Null => ResourcesFine(doc, res)
    BY <1>3, <1>4 DEF DeployFine
  <1> HIDE DEF res
  <1>8. KeysIn(doc, res) \subseteq {"limits", "reservations"}
    BY <1>5, <1>7 DEF ResourcesFine
  <1>9. \A sec \in {"limits", "reservations"} :
          KeysIn(doc, Under(res, sec)) \subseteq {"cpus", "memory"}
    <2> SUFFICES ASSUME NEW sec \in {"limits", "reservations"}, Under(res, sec) # Null
                 PROVE  KeysIn(doc, Under(res, sec)) \subseteq {"cpus", "memory"}
      BY <1>5
    <2>1. AmountsFine(doc, Under(res, sec))
      BY <1>4, <1>7 DEF ResourcesFine
    <2> QED
      BY <2>1 DEF AmountsFine
  <1>10. KeysIn(doc, Said(i, "healthcheck"))
           \subseteq {"test", "start_interval"} \cup DOMAIN ProbeKeys
    BY <1>3, <1>5 DEF HealthFine
  <1>11. ASSUME NEW k \in ExtensionKeys
         PROVE  /\ KeysIn(doc, Said(i, k)) \subseteq {"resources"}
                /\ KeysIn(doc, Under(Said(i, k), "resources")) \subseteq {"requests", "limits"}
    <2>1. CASE Said(i, k) = Null
      BY <1>4, <1>5, <2>1
    <2>2. CASE Said(i, k) # Null
      <3>1. ExtensionFine(doc, Said(i, k))
        BY <1>3, <2>2
      <3>2. CASE Under(Said(i, k), "resources") = Null
        BY <1>5, <3>1, <3>2 DEF ExtensionFine
      <3>3. CASE Under(Said(i, k), "resources") # Null
        BY <1>4, <3>1, <3>3 DEF ExtensionFine
      <3> QED
        BY <3>2, <3>3
    <2> QED
      BY <2>1, <2>2
  <1> QED
    BY <1>3, <1>6, <1>8, <1>9, <1>10, <1>11 DEF KeysIn, res

\* A conversion that succeeds has dropped nothing that a service of the document
\* set, whatever its dicts hold and whichever of one kind its services share
\* through YAML aliases (ServiceConverter): every key was converted, refused or
\* is documented as ignored, in every document that is Separate.
THEOREM NothingSilentlyDroppedHolds ==
    ASSUME \A file \in Files : Separate(Load(file))
    PROVE  Spec => []NothingSilentlyDropped
  <1> DEFINE IInv == NamesInv /\ DroppedInv
  <1>1. NamesInv => Separate(doc)
    BY DEF NamesInv
  <1>2. Init => IInv
    BY NamesInvInit, DroppedInvInit
  <1>3. IInv /\ [Next]_vars => IInv'
    BY <1>1, NamesInvStep, DroppedInvStep
  <1>4. IInv => NothingSilentlyDropped
    BY DroppedImplies
  <1> HIDE DEF IInv
  <1> QED
    BY <1>2, <1>3, <1>4, PTL DEF Spec

-----------------------------------------------------------------------------
(* ComposeConverter: what a service is given.                               *)

\* The stages up to and including the one that takes the keys in question.
BeforeHealth == {"plain", "healthcheck"}
BeforeDeploy == BeforeHealth \cup {"deploy"}
BeforeNetwork == BeforeDeploy \cup {"security", "network"}
BeforeExtension == BeforeNetwork \cup {"hostname", "extension"}

\* The dicts that have been reached when service i is at stage s.  All others
\* are as they were loaded.
Taken(d, i, s) ==
    (IF s \in BeforeHealth THEN {} ELSE HealthDicts(d, i))
    \cup (IF s \in BeforeDeploy THEN {} ELSE DeployDicts(d, i))
    \cup (IF s \in BeforeExtension THEN {} ELSE ExtensionDicts(d, i))

Frame(d, h, i, s) ==
    \A c \in DOMAIN d.heap :
      \/ h[c] = d.heap[c]
      \/ \E j \in 1 .. i : c = ServiceCell(d, j)
      \/ \E j \in 1 .. i - 1 : c \in Nested(d, j)
      \/ c \in Taken(d, i, s)

\* The keys that a stage to come takes out of the service's dict are still there.
Due(s) ==
    (IF s \in BeforeHealth THEN {"healthcheck"} ELSE {})
    \cup (IF s \in BeforeDeploy THEN {"deploy", "mem_limit", "cpus"} ELSE {})
    \cup (IF s \in BeforeNetwork THEN {"network_mode"} ELSE {})
    \cup (IF s \in BeforeExtension THEN ExtensionKeys ELSE {})

KeysLeft(d, h, i, s) ==
    Due(s) \cap DOMAIN d.heap[ServiceCell(d, i)] \subseteq DOMAIN h[ServiceCell(d, i)]

\* What a stage to come adds to the values of the service is not yet in them.
Coming(s) ==
    (IF s \in BeforeHealth THEN {"readinessProbe"} ELSE {})
    \cup (IF s \in BeforeDeploy THEN {"resources"} ELSE {})
    \cup (IF s \in BeforeNetwork THEN {"networkIsolated"} ELSE {})

\* The parts of what ConvertedAsDeclared asks of the values r of service i.
BuiltIn(r, sec, k) ==
    IF /\ "resources" \in DOMAIN r
       /\ sec \in DOMAIN r["resources"]
       /\ k \in DOMAIN r["resources"][sec]
    THEN r["resources"][sec][k] ELSE Null

Sections == {"requests", "limits"}

ResourceNames == {"cpu", "memory", "ephemeral-storage"}

GivenDerived(i, r) ==
    \A sec \in Sections, k \in ResourceNames : BuiltIn(r, sec, k) = Derived(i, sec, k)

GivenResources(i, r) ==
    \A sec \in Sections, k \in ResourceNames : {BuiltIn(r, sec, k)} \ {Null} = Asked(i, sec, k)

GivenProbe(i, r) ==
    LET check == Said(i, "healthcheck")
    IN check # Null =>
         /\ "readinessProbe" \in DOMAIN r
         /\ \A k \in DOMAIN ProbeKeys \ {"retries"} : LET d == Under(check, k) IN
              d # Null => r["readinessProbe"][ProbeKeys[k]] = d.s + 60 * (d.m + 60 * d.h)
         /\ Under(check, "retries") # Null =>
              r["readinessProbe"]["failureThreshold"] = Under(check, "retries").num + 1

GivenMounts(i, r) ==
    Said(i, "volumes") # Null =>
      "volumes" \in DOMAIN r /\ r["volumes"] = Mounts(Said(i, "volumes"))

GivenIsolation(i, r) ==
    ("networkIsolated" \in DOMAIN r) <=> (Said(i, "network_mode") = [v |-> "none"])

\* What service i has been given when it is at stage s.
Given(i, s, r) ==
    /\ s # "plain" => GivenMounts(i, r)
    /\ s \notin BeforeHealth => GivenProbe(i, r)
    /\ s \notin BeforeDeploy /\ s # "leftover" => GivenDerived(i, r)
    /\ s \notin BeforeNetwork => GivenIsolation(i, r)
    /\ s = "leftover" => GivenResources(i, r)

\* The names of the volumes that the top level declares.
VolumeNames ==
    LET v == Get(doc.heap, TopCell, "volumes")
    IN {_make_volume_name_k8s_compliant(n) : n \in DOMAIN (IF v = Null THEN <<>> ELSE doc.heap[v.ref])}

\* The dicts not yet reached are as loaded, the service at hand has kept the keys its
\* later stages take and has been given what its earlier ones give, and the services
\* before it have been given everything.
DeclaredInv ==
    /\ stage \in ServiceStages =>
          /\ Frame(doc, heap, at, stage)
          /\ KeysLeft(doc, heap, at, stage)
          /\ Coming(stage) \cap DOMAIN result = {}
          /\ ~Aliased(at) => Given(at, stage, result)
    /\ \A i \in 1 .. at - 1 : ~Aliased(i) => Given(i, "leftover", Converted(i))
    /\ "volumes" \in DOMAIN out
    /\ stage = "volumes" => \A c \in {TopCell} \cup Inside(doc, {TopCell}, {"volumes"}) :
                              heap[c] = doc.heap[c]
    /\ stage \in TopStages \ {"volumes"} => out.volumes = VolumeNames

\* The document stays the one that was loaded, and with it what it declares.
LEMMA DeclarationsStay ==
    ASSUME UNCHANGED doc
    PROVE  /\ \A i, s, r : Given(i, s, r)' <=> Given(i, s, r)
           /\ \A i : Aliased(i)' <=> Aliased(i)
           /\ VolumeNames' = VolumeNames
  <1>1. \A i, k : Said(i, k)' = Said(i, k)
    BY DEF Said, Get
  <1>2. \A v, k : Under(v, k)' = Under(v, k)
    BY DEF Under, Get
  <1>3. \A i : ResourcesSaid(i)' = ResourcesSaid(i)
    BY <1>1, <1>2 DEF ResourcesSaid
  <1>4. \A v : Truthy(doc'.heap, v) <=> Truthy(doc.heap, v)
    OBVIOUS
  <1>5. \A i, sec : Own(i, sec)' = Own(i, sec)
    BY <1>2, <1>3, <1>4 DEF Own
  <1>6. \A i : AmountNames(i)' = AmountNames(i)
    BY <1>3, <1>4 DEF AmountNames
  <1>7. \A v, k, names : AmountSaid(v, k, names)' = AmountSaid(v, k, names)
    BY <1>2 DEF AmountSaid
  <1>8. \A i, sec, k : Derived(i, sec, k)' = Derived(i, sec, k)
    BY <1>4, <1>5, <1>6, <1>7 DEF Derived
  <1>9. \A i, sec : ExtensionSaid(i, sec)' = ExtensionSaid(i, sec)
    BY <1>2 DEF ExtensionSaid
  <1>10. \A i, sec, k : Asked(i, sec, k)' = Asked(i, sec, k)
    BY <1>2, <1>8, <1>9 DEF Asked
  <1>11. \A i, r : GivenDerived(i, r)' <=> GivenDerived(i, r)
    BY <1>8 DEF GivenDerived
  <1>12. \A i, r : GivenResources(i, r)' <=> GivenResources(i, r)
    BY <1>10 DEF GivenResources
  <1>13. \A i, r : GivenProbe(i, r)' <=> GivenProbe(i, r)
    BY <1>1, <1>2 DEF GivenProbe
  <1>14. \A i, r : GivenMounts(i, r)' <=> GivenMounts(i, r)
    BY <1>1 DEF GivenMounts
  <1>15. \A i, r : GivenIsolation(i, r)' <=> GivenIsolation(i, r)
    BY <1>1 DEF GivenIsolation
  <1>16. \A i, s, r : Given(i, s, r)' <=> Given(i, s, r)
    BY <1>11, <1>12, <1>13, <1>14, <1>15 DEF Given
  <1>17. \A i : Aliased(i)' <=> Aliased(i)
    BY DEF Aliased
  <1>18. VolumeNames' = VolumeNames
    BY DEF VolumeNames
  <1> QED
    BY <1>16, <1>17, <1>18

\* The dicts below a service, by kind.
LEMMA NestedKinds ==
    ASSUME NEW d, NEW i \in DOMAIN d.order
    PROVE  /\ HealthDicts(d, i) \subseteq Healthchecks(d)
           /\ DeployDicts(d, i) \subseteq Deploys(d) \cup Resources(d) \cup AmountDicts(d)
           /\ ExtensionDicts(d, i) \subseteq Extensions(d) \cup ExtResources(d)
  <1>1. \A cs, ds, ks : cs \subseteq ds => Inside(d, cs, ks) \subseteq Inside(d, ds, ks)
    BY DEF Inside
  <1>2. {ServiceCell(d, i)} \subseteq Services(d)
    BY ServiceCellKind
  <1>3. HealthDicts(d, i) \subseteq Healthchecks(d)
    BY <1>1, <1>2 DEF HealthDicts, Healthchecks
  <1>4. DeployDicts(d, i) \subseteq Deploys(d) \cup Resources(d) \cup AmountDicts(d)
    <2> DEFINE deploy == Inside(d, {ServiceCell(d, i)}, {"deploy"})
               resources == Inside(d, deploy, {"resources"})
    <2>1. deploy \subseteq Deploys(d)
      BY <1>1, <1>2 DEF Deploys
    <2> HIDE DEF deploy
    <2>2. resources \subseteq Resources(d)
      BY <1>1, <2>1 DEF Resources
    <2> HIDE DEF resources
    <2>3. Inside(d, resources, {"limits", "reservations"}) \subseteq AmountDicts(d)
      BY <1>1, <2>2 DEF AmountDicts
    <2> QED
      BY <2>1, <2>2, <2>3 DEF DeployDicts, deploy, resources
  <1>5. ExtensionDicts(d, i) \subseteq Extensions(d) \cup ExtResources(d)
    <2> DEFINE ext == Inside(d, {ServiceCell(d, i)}, ExtensionKeys)
    <2>1. ext \subseteq Extensions(d)
      BY <1>1, <1>2 DEF Extensions
    <2> HIDE DEF ext
    <2>2. Inside(d, ext, {"resources"}) \subseteq ExtResources(d)
      BY <1>1, <2>1 DEF ExtResources
    <2> QED
      BY <2>1, <2>2 DEF ExtensionDicts, ext
  <1> QED
    BY <1>3, <1>4, <1>5

\* What a service that shares no dict with one before it finds in its dicts, as
\* long as its own stages have not been there, is what was loaded.
LEMMA OwnDictsFresh ==
    ASSUME NamesInv, Separate(doc), stage \in ServiceStages, Frame(doc, heap, at, stage),
           ~Aliased(at)
    PROVE  /\ stage \in BeforeHealth => \A c \in HealthDicts(doc, at) : heap[c] = doc.heap[c]
           /\ stage \in BeforeDeploy => \A c \in DeployDicts(doc, at) : heap[c] = doc.heap[c]
           /\ stage \in BeforeExtension =>
                \A c \in ExtensionDicts(doc, at) : heap[c] = doc.heap[c]
  <1>1. doc.order \in Seq(STRING) /\ at \in DOMAIN doc.order
    BY DocumentOrder DEF NamesInv
  <1>2. \A j \in 1 .. at : j \in DOMAIN doc.order
    BY <1>1
  <1>3. /\ HealthDicts(doc, at) \subseteq Healthchecks(doc)
        /\ DeployDicts(doc, at) \subseteq Deploys(doc) \cup Resources(doc) \cup AmountDicts(doc)
        /\ ExtensionDicts(doc, at) \subseteq Extensions(doc) \cup ExtResources(doc)
    BY <1>1, NestedKinds
  <1>4. \A c \in Nested(doc, at) :
          /\ c \in DOMAIN doc.heap
          /\ \A j \in 1 .. at : c # ServiceCell(doc, j)
          /\ \A j \in 1 .. at - 1 : c \notin Nested(doc, j)
    <2> SUFFICES ASSUME NEW c \in Nested(doc, at)
                 PROVE  /\ c \in DOMAIN doc.heap
                        /\ \A j \in 1 .. at : c # ServiceCell(doc, j)
                        /\ \A j \in 1 .. at - 1 : c \notin Nested(doc, j)
      OBVIOUS
    <2>1. c \in Healthchecks(doc) \cup Deploys(doc) \cup Resources(doc) \cup AmountDicts(doc)
                  \cup Extensions(doc) \cup ExtResources(doc)
      BY <1>3 DEF Nested
    <2>2. c \in DOMAIN doc.heap /\ c \notin Services(doc)
      BY <2>1, KindsApart, KindsLoaded
    <2>3. \A j \in 1 .. at : c # ServiceCell(doc, j)
      BY <1>2, <2>2, ServiceCellKind
    <2>4. \A j \in 1 .. at - 1 : c \notin Nested(doc, j)
      BY DEF Aliased
    <2> QED
      BY <2>2, <2>3, <2>4
  <1>5. \A c \in Nested(doc, at) : c \notin Taken(doc, at, stage) => heap[c] = doc.heap[c]
    BY <1>4 DEF Frame
  <1>6. ASSUME stage \in BeforeHealth, NEW c \in HealthDicts(doc, at)
        PROVE  c \notin Taken(doc, at, stage)
    BY <1>6 DEF Taken, BeforeHealth, BeforeDeploy, BeforeNetwork, BeforeExtension
  <1>7. ASSUME stage \in BeforeDeploy, NEW c \in DeployDicts(doc, at)
        PROVE  c \notin Taken(doc, at, stage)
    <2>1. c \notin HealthDicts(doc, at)
      BY <1>3, <1>7, KindsApart
    <2> QED
      BY <1>7, <2>1 DEF Taken, BeforeDeploy, BeforeNetwork, BeforeExtension
  <1>8. ASSUME stage \in BeforeExtension, NEW c \in ExtensionDicts(doc, at)
        PROVE  c \notin Taken(doc, at, stage)
    <2>1. c \notin HealthDicts(doc, at) /\ c \notin DeployDicts(doc, at)
      BY <1>3, <1>8, KindsApart
    <2> QED
      BY <1>8, <2>1 DEF Taken
  <1> QED
    BY <1>5, <1>6, <1>7, <1>8 DEF Nested

\* What the services' conversion only reads is always as it was loaded.
LEMMA ReadFresh ==
    ASSUME NamesInv, Readable(doc), stage \in ServiceStages, Frame(doc, heap, at, stage),
           NEW c \in {TopCell} \cup Inside(doc, {TopCell}, {"volumes"})
                       \cup Inside(doc, ExtResources(doc), {"requests", "limits"})
    PROVE  c \in DOMAIN doc.heap /\ heap[c] = doc.heap[c] /\ c \notin Services(doc)
           /\ c \notin Nested(doc, at)
  <1>1. doc.order \in Seq(STRING) /\ at \in DOMAIN doc.order
    BY DocumentOrder DEF NamesInv
  <1>2. \A j \in 1 .. at : j \in DOMAIN doc.order
    BY <1>1
  <1>3. /\ c \in DOMAIN doc.heap /\ c \notin Services(doc)
        /\ \A j \in DOMAIN doc.order : c \notin Nested(doc, j)
    BY DEF Readable
  <1>4. \A j \in 1 .. at : c # ServiceCell(doc, j)
    BY <1>2, <1>3, ServiceCellKind
  <1>5. \A j \in 1 .. at : c \notin Nested(doc, j)
    BY <1>2, <1>3
  <1>6. at \in 1 .. at /\ \A j \in 1 .. at - 1 : j \in 1 .. at
    BY <1>1
  <1>7. c \notin Taken(doc, at, stage)
    BY <1>5, <1>6 DEF Taken, Nested
  <1> QED
    BY <1>3, <1>4, <1>5, <1>6, <1>7 DEF Frame

\* Two dicts with the same keys and values, those of the keys ks aside.
SameBut(f, g, ks) ==
    \A x : x \notin ks => /\ x \in DOMAIN g <=> x \in DOMAIN f
                          /\ x \in DOMAIN f => g[x] = f[x]

\* A stage takes the keys ks out of the service's dict, takes keys out of the
\* dicts cs, and sets the values rs.
StageShape(ks, cs, rs) ==
    /\ UNCHANGED <<doc, at, out>>
    /\ \A x \in DOMAIN doc.heap : x # ServiceCell(doc, at) /\ x \notin cs => heap'[x] = heap[x]
    /\ DOMAIN heap[ServiceCell(doc, at)] \ ks \subseteq DOMAIN heap'[ServiceCell(doc, at)]
    /\ SameBut(result, result', rs)

\* What a stage leaves alone stays as the service was given it.
LEMMA GivenCarried ==
    ASSUME NEW i, NEW r, NEW q, NEW ks, SameBut(r, q, ks)
    PROVE  /\ "volumes" \notin ks /\ GivenMounts(i, r) => GivenMounts(i, q)
           /\ "readinessProbe" \notin ks /\ GivenProbe(i, r) => GivenProbe(i, q)
           /\ "networkIsolated" \notin ks /\ GivenIsolation(i, r) => GivenIsolation(i, q)
           /\ "resources" \notin ks /\ GivenDerived(i, r) => GivenDerived(i, q)
  <1>1. "volumes" \notin ks /\ GivenMounts(i, r) => GivenMounts(i, q)
    BY DEF SameBut, GivenMounts
  <1>2. ASSUME "readinessProbe" \notin ks, GivenProbe(i, r)
        PROVE  GivenProbe(i, q)
    <2>1. /\ "readinessProbe" \in DOMAIN q <=> "readinessProbe" \in DOMAIN r
          /\ "readinessProbe" \in DOMAIN r => q["readinessProbe"] = r["readinessProbe"]
      BY <1>2 DEF SameBut
    <2> QED
      BY <1>2, <2>1 DEF GivenProbe
  <1>3. "networkIsolated" \notin ks /\ GivenIsolation(i, r) => GivenIsolation(i, q)
    BY DEF SameBut, GivenIsolation
  <1>4. ASSUME "resources" \notin ks, GivenDerived(i, r)
        PROVE  GivenDerived(i, q)
    <2>1. /\ "resources" \in DOMAIN q <=> "resources" \in DOMAIN r
          /\ "resources" \in DOMAIN r => q["resources"] = r["resources"]
      BY <1>4 DEF SameBut
    <2>2. \A sec, k : BuiltIn(q, sec, k) = BuiltIn(r, sec, k)
      BY <2>1 DEF BuiltIn
    <2> QED
      BY <1>4, <2>2 DEF GivenDerived
  <1> QED
    BY <1>1, <1>2, <1>3, <1>4

\* A value added to a dict that does not have it.
LEMMA ItemAdded ==
    ASSUME NEW f, NEW k, NEW v
    PROVE  /\ SameBut(f, f @@ (k :> v), {k})
           /\ k \in DOMAIN (f @@ (k :> v))
           /\ k \notin DOMAIN f => (f @@ (k :> v))[k] = v
           /\ SameBut(f, (k :> v) @@ f, {k})
           /\ k \in DOMAIN ((k :> v) @@ f) /\ ((k :> v) @@ f)[k] = v
  <1>1. DOMAIN (k :> v) = {k} /\ (k :> v)[k] = v
    BY DEF :>
  <1> DEFINE e == k :> v
  <1> HIDE DEF e
  <1>2. /\ DOMAIN (f @@ e) = DOMAIN f \cup {k}
        /\ \A x \in DOMAIN f : (f @@ e)[x] = f[x]
        /\ k \notin DOMAIN f => (f @@ e)[k] = v
    BY <1>1 DEF @@, e
  <1>3. /\ DOMAIN (e @@ f) = DOMAIN f \cup {k}
        /\ \A x \in DOMAIN f : x # k => (e @@ f)[x] = f[x]
        /\ (e @@ f)[k] = v
    BY <1>1 DEF @@, e
  <1> QED
    BY <1>2, <1>3 DEF SameBut, e

\* The invariant after a stage, from what the stage did.
LEMMA DeclaredStage ==
    ASSUME NamesInv, DroppedInv, DeclaredInv, Separate(doc), stage \in ServiceStages,
           stage' \in ServiceStages, NEW ks, NEW cs, NEW rs, StageShape(ks, cs, rs),
           Taken(doc, at, stage) \cup cs \subseteq Taken(doc, at, stage'),
           Due(stage') \subseteq Due(stage) \ ks,
           Coming(stage') \cap DOMAIN result' = {},
           ~Aliased(at) => Given(at, stage', result')
    PROVE  DeclaredInv'
  <1>1. UNCHANGED <<doc, at, out>>
    BY DEF StageShape
  <1>2. /\ \A i, s, r : Given(i, s, r)' <=> Given(i, s, r)
        /\ \A i : Aliased(i)' <=> Aliased(i)
    BY <1>1, DeclarationsStay
  <1>3. at \in DOMAIN doc.order /\ at \in Nat /\ at \in 1 .. at
    BY DocumentOrder DEF NamesInv
  <1>4. Frame(doc, heap', at, stage')
    <2> SUFFICES ASSUME NEW c \in DOMAIN doc.heap,
                        ~(\E j \in 1 .. at : c = ServiceCell(doc, j)),
                        ~(\E j \in 1 .. at - 1 : c \in Nested(doc, j)),
                        c \notin Taken(doc, at, stage')
                 PROVE  heap'[c] = doc.heap[c]
      BY DEF Frame
    <2>1. heap[c] = doc.heap[c]
      BY DEF DeclaredInv, Frame
    <2>2. c # ServiceCell(doc, at) /\ c \notin cs
      BY <1>3
    <2> QED
      BY <2>1, <2>2 DEF StageShape
  <1>5. KeysLeft(doc, heap', at, stage')
    BY DEF DeclaredInv, KeysLeft, StageShape
  <1>6. (\A i \in 1 .. at - 1 : ~Aliased(i) => Given(i, "leftover", Converted(i)))'
    <2>1. \A i : Converted(i)' = Converted(i)
      BY <1>1 DEF Converted, OutputName
    <2> QED
      BY <1>1, <1>2, <2>1 DEF DeclaredInv
  <1>7. (~Aliased(at) => Given(at, stage, result))'
    BY <1>1, <1>2
  <1>8. stage' # "volumes" /\ stage' \notin TopStages
    BY DEF ServiceStages, TopStages
  <1>9. "volumes" \in DOMAIN out'
    BY <1>1 DEF DeclaredInv
  <1>10. (Frame(doc, heap, at, stage) /\ KeysLeft(doc, heap, at, stage))'
    BY <1>1, <1>4, <1>5
  <1> QED
    BY <1>6, <1>7, <1>8, <1>9, <1>10 DEF DeclaredInv

\* What a key of the service's dict says, for a key that is still there.
LEMMA DueSaid ==
    ASSUME NamesInv, DroppedInv, DeclaredInv, Separate(doc), stage \in ServiceStages
    PROVE  \A k \in Due(stage) : /\ Get(heap, src, k) = Said(at, k)
                                 /\ k \in DOMAIN heap[src] <=> k \in DOMAIN doc.heap[src]
  <1>1. /\ Held(doc, heap, at, result)
        /\ src = ServiceCell(doc, at) /\ src \in DOMAIN heap
        /\ \A k \in DOMAIN heap[src] : heap[src][k] = doc.heap[src][k]
    BY CurrentService
  <1>2. DOMAIN heap[src] \subseteq DOMAIN doc.heap[src]
    BY <1>1 DEF Held, Shrunk
  <1>3. KeysLeft(doc, heap, at, stage)
    BY DEF DeclaredInv
  <1>4. \A k : Said(at, k) = Get(doc.heap, src, k)
    BY <1>1 DEF Said, ServiceCell
  <1>5. \A k \in Due(stage) : k \in DOMAIN heap[src] <=> k \in DOMAIN doc.heap[src]
    BY <1>1, <1>2, <1>3 DEF KeysLeft
  <1> QED
    BY <1>1, <1>4, <1>5 DEF Get

\* A stage that takes keys only out of the service's dict.
LEMMA PopShape ==
    ASSUME NEW ks, NEW rs, NEW c, c = ServiceCell(doc, at), c \in DOMAIN heap,
           DOMAIN heap = DOMAIN doc.heap, UNCHANGED <<doc, at, out>>,
           heap' = Popped(heap, c, ks), SameBut(result, result', rs)
    PROVE  StageShape(ks, {}, rs)
  <1>1. /\ \A x \in DOMAIN heap : x # c => heap'[x] = heap[x]
        /\ DOMAIN heap'[c] = DOMAIN heap[c] \ ks
    BY PoppedHeap
  <1> QED
    BY <1>1 DEF StageShape

\* The stage of the plain keys gives the service its mounts.
LEMMA PlainDeclared ==
    ASSUME NamesInv, DroppedInv, DeclaredInv, Separate(doc), Plain, stage' = "healthcheck",
           UNCHANGED <<doc, at, out>>, status' = "running"
    PROVE  DeclaredInv'
  <1> DEFINE moved == {k \in DOMAIN PlainKeys : Declared(k)}
             first == [d \in {PlainKeys[k] : k \in moved} |->
                         heap[src][CHOOSE k \in moved : PlainKeys[k] = d]]
             mounts == IF Declared("volumes")
                       THEN "volumes" :> Mounts(heap[src]["volumes"]) ELSE <<>>
             record == "dnsRecord" :> TRUE
             ks == DOMAIN PlainKeys \cup {"volumes"}
  <1>1. /\ stage = "plain"
        /\ heap' = Popped(heap, src, ks)
        /\ result' = first @@ record @@ mounts
    BY DEF Plain, Raise, Goto, In
  <1>2. stage \in ServiceStages /\ stage' \in ServiceStages
    BY <1>1 DEF ServiceStages
  <1>3. /\ Held(doc, heap, at, result)
        /\ src = ServiceCell(doc, at) /\ src \in DOMAIN heap
        /\ \A k \in DOMAIN heap[src] : heap[src][k] = doc.heap[src][k]
    BY <1>2, CurrentService
  <1>4. heap[src] = doc.heap[src]
    BY <1>1, <1>2, <1>3 DEF DroppedInv, Untouched
  <1>5. \A k : Get(heap, src, k) = Said(at, k)
    BY <1>3, <1>4 DEF Said, Get, ServiceCell
  <1>6. DOMAIN heap = DOMAIN doc.heap
    BY <1>3 DEF Held, Shrunk
  <1>7. /\ DOMAIN PlainKeys = {"runtime", "image", "entrypoint", "command", "working_dir",
                               "environment"}
        /\ \A k \in DOMAIN PlainKeys : PlainKeys[k] \notin
             {"volumes", "readinessProbe", "resources", "networkIsolated"}
    BY DEF PlainKeys
  <1>8. /\ DOMAIN first \cap {"volumes", "readinessProbe", "resources", "networkIsolated"} = {}
        /\ DOMAIN record = {"dnsRecord"}
        /\ DOMAIN mounts \subseteq {"volumes"}
        /\ Declared("volumes") => /\ "volumes" \in DOMAIN mounts
                                  /\ mounts["volumes"] = Mounts(heap[src]["volumes"])
    BY <1>7 DEF :>
  <1> HIDE DEF first, record, mounts
  <1>9. /\ DOMAIN result' = DOMAIN first \cup DOMAIN record \cup DOMAIN mounts
        /\ \A x \in DOMAIN mounts :
             x \notin DOMAIN first \cup DOMAIN record => result'[x] = mounts[x]
    BY <1>1 DEF @@
  <1>10. Coming(stage') \cap DOMAIN result' = {}
    BY <1>8, <1>9 DEF Coming, BeforeHealth, BeforeDeploy, BeforeNetwork
  <1>11. GivenMounts(at, result')
    <2> SUFFICES ASSUME Said(at, "volumes") # Null
                 PROVE  "volumes" \in DOMAIN result' /\ result'["volumes"] = Mounts(Said(at, "volumes"))
      BY DEF GivenMounts
    <2>1. Declared("volumes") /\ heap[src]["volumes"] = Said(at, "volumes")
      BY <1>5 DEF Declared, Get
    <2> QED
      BY <1>8, <1>9, <2>1
  <1>12. Given(at, stage', result')
    BY <1>11 DEF Given, BeforeHealth, BeforeDeploy, BeforeNetwork
  <1>13. StageShape(ks, {}, DOMAIN result \cup DOMAIN result')
    <2>1. SameBut(result, result', DOMAIN result \cup DOMAIN result')
      BY DEF SameBut
    <2> HIDE DEF ks
    <2> QED
      BY <1>1, <1>3, <1>6, <2>1, PopShape
  <1>14. Due(stage') \subseteq Due(stage) \ ks
    BY <1>1, <1>7 DEF Due, BeforeHealth, BeforeDeploy, BeforeNetwork, BeforeExtension,
       ExtensionKeys
  <1>15. Taken(doc, at, stage) \cup {} \subseteq Taken(doc, at, stage')
    BY <1>1 DEF Taken, BeforeHealth, BeforeDeploy, BeforeNetwork, BeforeExtension
  <1> HIDE DEF ks
  <1> QED
    BY <1>2, <1>10, <1>12, <1>13, <1>14, <1>15, DeclaredStage

\* So does that of the security options, which adds only the context.
LEMMA SecurityDeclared ==
    ASSUME NamesInv, DroppedInv, DeclaredInv, Separate(doc), Security, stage' = "network",
           UNCHANGED <<doc, at, out>>, status' = "running"
    PROVE  DeclaredInv'
  <1> DEFINE opts == IF Declared("security_opt") THEN heap[src]["security_opt"].opts ELSE <<>>
             context == (IF Declared("user") THEN _user_to_security_context(heap[src]["user"])
                         ELSE <<>>) @@ Seccomp(opts)
             ks == {"user", "security_opt", "memswap_limit"}
  <1>1. /\ stage = "security"
        /\ heap' = Popped(heap, src, ks)
        /\ result' = IF DOMAIN context = {} THEN result
                     ELSE result @@ ("securityContext" :> context)
    BY DEF Security, Raise, Goto, In
  <1>2. stage \in ServiceStages /\ stage' \in ServiceStages
    BY <1>1 DEF ServiceStages
  <1>3. Held(doc, heap, at, result) /\ src = ServiceCell(doc, at) /\ src \in DOMAIN heap
    BY <1>2, CurrentService
  <1>4. DOMAIN heap = DOMAIN doc.heap
    BY <1>3 DEF Held, Shrunk
  <1>5. SameBut(result, result', {"securityContext"})
    <2> HIDE DEF context
    <2>1. SameBut(result, result, {"securityContext"})
      BY DEF SameBut
    <2> QED
      BY <1>1, <2>1, ItemAdded
  <1> HIDE DEF ks
  <1>6. StageShape(ks, {}, {"securityContext"})
    BY <1>1, <1>3, <1>4, <1>5, PopShape
  <1>7. Due(stage') \subseteq Due(stage) \ ks
    BY <1>1 DEF Due, BeforeHealth, BeforeDeploy, BeforeNetwork, BeforeExtension,
       ExtensionKeys, ks
  <1>8. Taken(doc, at, stage) \cup {} \subseteq Taken(doc, at, stage')
    BY <1>1 DEF Taken, BeforeHealth, BeforeDeploy, BeforeNetwork, BeforeExtension
  <1>9. Coming(stage') \cap DOMAIN result' = {}
    <2>1. Coming(stage') = {"networkIsolated"} /\ Coming(stage) = {"networkIsolated"}
      BY <1>1 DEF Coming, BeforeHealth, BeforeDeploy, BeforeNetwork
    <2>2. "networkIsolated" \notin DOMAIN result
      BY <1>2, <2>1 DEF DeclaredInv
    <2> QED
      BY <1>5, <2>1, <2>2 DEF SameBut
  <1>10. ASSUME ~Aliased(at)
         PROVE  Given(at, stage', result')
    <2>1. GivenMounts(at, result) /\ GivenProbe(at, result) /\ GivenDerived(at, result)
      BY <1>1, <1>2, <1>10 DEF DeclaredInv, Given, BeforeHealth, BeforeDeploy
    <2>2. GivenMounts(at, result') /\ GivenProbe(at, result') /\ GivenDerived(at, result')
      BY <1>5, <2>1, GivenCarried
    <2> QED
      BY <2>2 DEF Given, BeforeHealth, BeforeDeploy, BeforeNetwork
  <1> QED
    BY <1>2, <1>6, <1>7, <1>8, <1>9, <1>10, DeclaredStage

\* The stage of the network isolates the service that asks for it, and no other.
LEMMA NetworkDeclared ==
    ASSUME NamesInv, DroppedInv, DeclaredInv, Separate(doc), Network, stage' = "hostname",
           UNCHANGED <<doc, at, out>>, status' = "running"
    PROVE  DeclaredInv'
  <1> DEFINE mode == Get(heap, src, "network_mode")
             none == mode = [v |-> "none"]
             h == Popped(heap, src, {"network_mode"})
             ks == {"network_mode", "networks"}
             rs == {"networkIsolated", "networks"}
  <1>1. /\ stage = "network"
        /\ \/ none /\ heap' = h /\ result' = result @@ ("networkIsolated" :> TRUE)
           \/ /\ ~none /\ heap' = Popped(h, src, {"networks"})
              /\ result' = IF Declared("networks")
                           THEN result @@ ("networks" :> heap[src]["networks"]) ELSE result
    BY DEF Network, Raise, Goto, In
  <1>2. stage \in ServiceStages /\ stage' \in ServiceStages
    BY <1>1 DEF ServiceStages
  <1>3. Held(doc, heap, at, result) /\ src = ServiceCell(doc, at) /\ src \in DOMAIN heap
    BY <1>2, CurrentService
  <1>4. DOMAIN heap = DOMAIN doc.heap
    BY <1>3 DEF Held, Shrunk
  <1>5. mode = Said(at, "network_mode")
    BY <1>1, <1>2, DueSaid DEF Due, BeforeHealth, BeforeDeploy, BeforeNetwork
  <1>6. "networkIsolated" \notin DOMAIN result
    BY <1>1, <1>2 DEF DeclaredInv, Coming, BeforeHealth, BeforeDeploy, BeforeNetwork
  <1>7. /\ SameBut(result, result', rs)
        /\ "networkIsolated" \in DOMAIN result' <=> none
    <2>1. CASE none
      <3>1. result' = result @@ ("networkIsolated" :> TRUE)
        BY <1>1, <2>1
      <3>2. /\ SameBut(result, result', {"networkIsolated"})
            /\ "networkIsolated" \in DOMAIN result'
        BY <3>1, ItemAdded
      <3> QED
        BY <2>1, <3>2 DEF SameBut
    <2>2. CASE ~none
      <3>1. result' = result \/ result' = result @@ ("networks" :> heap[src]["networks"])
        BY <1>1, <2>2
      <3>2. SameBut(result, result', {"networks"})
        <4>1. SameBut(result, result, {"networks"})
          BY DEF SameBut
        <4> QED
          BY <3>1, <4>1, ItemAdded
      <3> QED
        BY <1>6, <2>2, <3>2 DEF SameBut
    <2> QED
      BY <2>1, <2>2
  <1>8. /\ \A x \in DOMAIN heap : x # src => heap'[x] = heap[x]
        /\ DOMAIN heap[src] \ ks \subseteq DOMAIN heap'[src]
    <2>1. /\ DOMAIN h = DOMAIN heap
          /\ \A x \in DOMAIN heap : x # src => h[x] = heap[x]
          /\ DOMAIN h[src] = DOMAIN heap[src] \ {"network_mode"}
      BY <1>3, PoppedHeap
    <2> HIDE DEF h
    <2>2. /\ \A x \in DOMAIN heap : x # src => Popped(h, src, {"networks"})[x] = h[x]
          /\ DOMAIN Popped(h, src, {"networks"})[src] = DOMAIN h[src] \ {"networks"}
      BY <1>3, <2>1, PoppedHeap
    <2>3. heap' = h \/ heap' = Popped(h, src, {"networks"})
      BY <1>1
    <2> QED
      BY <2>1, <2>2, <2>3
  <1> HIDE DEF ks, rs
  <1>9. StageShape(ks, {}, rs)
    BY <1>3, <1>4, <1>7, <1>8 DEF StageShape
  <1>10. Due(stage') \subseteq Due(stage) \ ks
    BY <1>1 DEF Due, BeforeHealth, BeforeDeploy, BeforeNetwork, BeforeExtension,
       ExtensionKeys, ks
  <1>11. Taken(doc, at, stage) \cup {} \subseteq Taken(doc, at, stage')
    BY <1>1 DEF Taken, BeforeHealth, BeforeDeploy, BeforeNetwork, BeforeExtension
  <1>12. Coming(stage') = {}
    BY DEF Coming, BeforeHealth, BeforeDeploy, BeforeNetwork
  <1>13. ASSUME ~Aliased(at)
         PROVE  Given(at, stage', result')
    <2>1. GivenMounts(at, result) /\ GivenProbe(at, result) /\ GivenDerived(at, result)
      BY <1>1, <1>2, <1>13 DEF DeclaredInv, Given, BeforeHealth, BeforeDeploy
    <2>2. GivenMounts(at, result') /\ GivenProbe(at, result') /\ GivenDerived(at, result')
      BY <1>7, <2>1, GivenCarried DEF rs
    <2>3. GivenIsolation(at, result')
      BY <1>5, <1>7 DEF GivenIsolation
    <2> QED
      BY <2>2, <2>3 DEF Given, BeforeHealth, BeforeDeploy, BeforeNetwork
  <1> QED
    BY <1>2, <1>9, <1>10, <1>11, <1>12, <1>13, DeclaredStage

\* The stage of the host name changes nothing of what the service was given.
LEMMA HostnameDeclared ==
    ASSUME NamesInv, DroppedInv, DeclaredInv, Separate(doc), Hostname, stage' = "extension",
           UNCHANGED <<doc, at, out>>, status' = "running"
    PROVE  DeclaredInv'
  <1> DEFINE ks == {"hostname"} \cup IgnoredKeys
  <1>1. stage = "hostname" /\ heap' = Popped(heap, src, ks) /\ result' = result
    BY DEF Hostname, Raise, Goto, In
  <1>2. stage \in ServiceStages /\ stage' \in ServiceStages
    BY <1>1 DEF ServiceStages
  <1>3. Held(doc, heap, at, result) /\ src = ServiceCell(doc, at) /\ src \in DOMAIN heap
    BY <1>2, CurrentService
  <1>4. DOMAIN heap = DOMAIN doc.heap
    BY <1>3 DEF Held, Shrunk
  <1> HIDE DEF ks
  <1>5. StageShape(ks, {}, {})
    <2>1. SameBut(result, result', {})
      BY <1>1 DEF SameBut
    <2> QED
      BY <1>1, <1>3, <1>4, <2>1, PopShape
  <1>6. Due(stage') \subseteq Due(stage) \ ks
    BY <1>1 DEF Due, BeforeHealth, BeforeDeploy, BeforeNetwork, BeforeExtension,
       ExtensionKeys, IgnoredKeys, ks
  <1>7. Taken(doc, at, stage) \cup {} \subseteq Taken(doc, at, stage')
    BY <1>1 DEF Taken, BeforeHealth, BeforeDeploy, BeforeNetwork, BeforeExtension
  <1>8. Coming(stage') = {}
    BY DEF Coming, BeforeHealth, BeforeDeploy, BeforeNetwork
  <1>9. ~Aliased(at) => Given(at, stage', result')
    BY <1>1, <1>2 DEF DeclaredInv, Given, BeforeHealth, BeforeDeploy, BeforeNetwork
  <1> QED
    BY <1>2, <1>5, <1>6, <1>7, <1>8, <1>9, DeclaredStage

\* The stage of the health check gives the service its probe.
LEMMA HealthDeclared ==
    ASSUME NamesInv, DroppedInv, DeclaredInv, Separate(doc), Readable(doc),
           _healthcheck_to_readiness_probe, stage' = "deploy",
           UNCHANGED <<doc, at, out>>, status' = "running"
    PROVE  DeclaredInv'
  <1> DEFINE ks == {"healthcheck"}
             rs == {"readinessProbe"}
  <1>1. stage = "healthcheck"
    BY DEF _healthcheck_to_readiness_probe, In
  <1>2. stage \in ServiceStages /\ stage' \in ServiceStages
    BY <1>1 DEF ServiceStages
  <1>3. /\ doc.order \in Seq(STRING) /\ at \in DOMAIN doc.order /\ Held(doc, heap, at, result)
        /\ src = ServiceCell(doc, at) /\ src \in Services(doc) /\ src \in DOMAIN heap
        /\ \A k \in DOMAIN heap[src] : heap[src][k] = doc.heap[src][k]
    BY <1>2, CurrentService
  <1>4. DOMAIN heap = DOMAIN doc.heap
    BY <1>3 DEF Held, Shrunk
  <1>5. /\ Get(heap, src, "healthcheck") = Said(at, "healthcheck")
        /\ "healthcheck" \in DOMAIN heap[src] <=> "healthcheck" \in DOMAIN doc.heap[src]
    BY <1>1, <1>2, DueSaid DEF Due, BeforeHealth
  <1>6. Coming(stage) \cap DOMAIN result = {} /\ "readinessProbe" \notin DOMAIN result
    BY <1>1, <1>2 DEF DeclaredInv, Coming, BeforeHealth
  <1>7. Coming(stage') \subseteq Coming(stage) \ rs
    BY <1>1 DEF Coming, BeforeHealth, BeforeDeploy, BeforeNetwork
  <1>8. Due(stage') \subseteq Due(stage) \ ks
    BY <1>1 DEF Due, BeforeHealth, BeforeDeploy, BeforeNetwork, BeforeExtension, ExtensionKeys
  <1>9. Taken(doc, at, stage) \cup HealthDicts(doc, at) \subseteq Taken(doc, at, stage')
    BY <1>1 DEF Taken, BeforeHealth, BeforeDeploy, BeforeNetwork, BeforeExtension
  <1>10. SUFFICES /\ StageShape(ks, HealthDicts(doc, at), rs)
                  /\ ~Aliased(at) => GivenProbe(at, result')
    <2>1. ASSUME StageShape(ks, HealthDicts(doc, at), rs), ~Aliased(at), GivenProbe(at, result')
          PROVE  Given(at, stage', result')
      <3>1. GivenMounts(at, result)
        BY <1>1, <1>2, <2>1 DEF DeclaredInv, Given
      <3>2. GivenMounts(at, result')
        BY <2>1, <3>1, GivenCarried DEF StageShape
      <3> QED
        BY <2>1, <3>2 DEF Given, BeforeHealth, BeforeDeploy, BeforeNetwork
    <2>2. ASSUME StageShape(ks, HealthDicts(doc, at), rs)
          PROVE  Coming(stage') \cap DOMAIN result' = {}
      BY <1>6, <1>7, <2>2 DEF StageShape, SameBut
    <2> HIDE DEF ks, rs
    <2> QED
      BY <1>2, <1>8, <1>9, <2>1, <2>2, DeclaredStage
  <1>11. CASE ~Declared("healthcheck")
    <2>1. heap' = Popped(heap, src, ks) /\ result' = result
      BY <1>11 DEF _healthcheck_to_readiness_probe, Goto
    <2>2. SameBut(result, result', rs)
      BY <2>1 DEF SameBut
    <2>3. StageShape(ks, {}, rs)
      <3> HIDE DEF ks, rs
      <3> QED
        BY <1>3, <1>4, <2>1, <2>2, PopShape
    <2>4. StageShape(ks, HealthDicts(doc, at), rs)
      BY <2>3 DEF StageShape
    <2>5. GivenProbe(at, result')
      BY <1>5, <1>11 DEF Declared, GivenProbe
    <2> QED
      BY <2>4, <2>5
  <1>12. CASE Declared("healthcheck")
    <2> DEFINE check == heap[src]["healthcheck"]
               c == check.ref
               timed == {k \in DOMAIN ProbeKeys : Get(heap, c, k) # Null}
               dict == heap[c]
               probe == [d \in {ProbeKeys[k] : k \in timed} |->
                           LET k == CHOOSE k \in timed : ProbeKeys[k] = d
                           IN ProbeValue(k, dict[k])]
               g == Popped(heap, c, DOMAIN heap[c])
    <2>1. /\ heap' = Popped(g, src, ks)
          /\ result' = result @@ ("readinessProbe" :> probe)
          /\ \A k \in timed : ~BadProbeValue(k, heap[c][k])
      BY <1>12 DEF _healthcheck_to_readiness_probe, Goto, Raise
    <2>2. /\ "healthcheck" \in DOMAIN heap[src] /\ "healthcheck" \in DOMAIN doc.heap[src]
          /\ check = doc.heap[src]["healthcheck"] /\ check # Null
          /\ check = Said(at, "healthcheck")
      BY <1>3, <1>5, <1>12 DEF Declared, Get
    <2>3. IsDict(check)
      BY <1>3, <2>2 DEF Separate, Get
    <2>4. c \in HealthDicts(doc, at) /\ c \in Healthchecks(doc)
      <3>1. c \in HealthDicts(doc, at)
        BY <1>3, <2>2, <2>3, InsideMember DEF HealthDicts
      <3> QED
        BY <1>3, <3>1, NestedKinds
    <2>5. c \in DOMAIN heap /\ c # src
      BY <1>3, <1>4, <2>4, KindsApart, KindsLoaded
    <2> HIDE DEF check
    <2>6. /\ DOMAIN g = DOMAIN heap
          /\ \A x \in DOMAIN heap : x # c => g[x] = heap[x]
      BY <2>5, PoppedHeap
    <2> HIDE DEF g
    <2>7. /\ \A x \in DOMAIN heap : x # src => heap'[x] = g[x]
          /\ DOMAIN heap'[src] = DOMAIN g[src] \ ks
      <3> HIDE DEF ks
      <3> QED
        BY <1>3, <2>1, <2>6, PoppedHeap
    <2> HIDE DEF probe
    <2>8. /\ SameBut(result, result', rs)
          /\ "readinessProbe" \in DOMAIN result' /\ result'["readinessProbe"] = probe
      BY <1>6, <2>1, ItemAdded
    <2>9. StageShape(ks, HealthDicts(doc, at), rs)
      BY <1>3, <1>4, <2>4, <2>5, <2>6, <2>7, <2>8 DEF StageShape
    <2>10. ASSUME ~Aliased(at)
           PROVE  GivenProbe(at, result')
      <3>1. heap[c] = doc.heap[c]
        BY <1>1, <1>2, <2>4, <2>10, OwnDictsFresh DEF DeclaredInv, BeforeHealth
      <3>2. \A k : Under(check, k) = Get(heap, c, k)
        BY <2>2, <2>3, <3>1 DEF Under, Get
      <3>3. timed \in SUBSET DOMAIN ProbeKeys
        OBVIOUS
      <3>4. ASSUME NEW k \in timed
            PROVE  probe[ProbeKeys[k]] = ProbeValue(k, Under(check, k))
        <4>1. Under(check, k) = dict[k]
          BY <3>2 DEF Get
        <4> HIDE DEF timed, dict
        <4>2. \A x, y \in DOMAIN ProbeKeys : ProbeKeys[x] = ProbeKeys[y] => x = y
          BY DEF ProbeKeys
        <4>3. (CHOOSE x \in timed : ProbeKeys[x] = ProbeKeys[k]) = k
          BY <3>3, <4>2
        <4>4. probe[ProbeKeys[k]] = ProbeValue(k, dict[k])
          BY <4>3 DEF probe
        <4> QED
          BY <4>1, <4>4
      <3>5. ASSUME NEW k \in DOMAIN ProbeKeys \ {"retries"}, Under(check, k) # Null
            PROVE  LET d == Under(check, k)
                   IN result'["readinessProbe"][ProbeKeys[k]] = d.s + 60 * (d.m + 60 * d.h)
        <4> DEFINE d == Under(check, k)
        <4>1. k \in timed
          BY <3>2, <3>5
        <4>2. d = heap[c][k] /\ k \in DOMAIN doc.heap[c] /\ d = doc.heap[c][k]
          BY <3>1, <3>2, <3>5 DEF Get
        <4>3. "h" \in DOMAIN d
          BY <2>1, <3>5, <4>1, <4>2 DEF BadProbeValue
        <4>4. d.h \in Nat /\ d.m \in Nat /\ d.s \in Nat
          BY <2>4, <4>2, <4>3 DEF Readable
        <4>5. probe[ProbeKeys[k]] = d.h * 3600 + d.m * 60 + d.s
          BY <3>4, <3>5, <4>1 DEF ProbeValue, _duration_to_seconds
        <4> HIDE DEF d
        <4>6. d.h * 3600 + d.m * 60 + d.s = d.s + 60 * (d.m + 60 * d.h)
          BY <4>4
        <4> QED
          BY <2>8, <4>5, <4>6 DEF d
      <3>6. ASSUME Under(check, "retries") # Null
            PROVE  result'["readinessProbe"]["failureThreshold"] = Under(check, "retries").num + 1
        <4>1. "retries" \in DOMAIN ProbeKeys /\ ProbeKeys["retries"] = "failureThreshold"
          BY DEF ProbeKeys
        <4>2. "retries" \in timed
          BY <3>2, <3>6, <4>1
        <4> QED
          BY <2>8, <3>4, <4>1, <4>2 DEF ProbeValue
      <3> QED
        BY <2>2, <2>8, <3>5, <3>6 DEF GivenProbe
    <2> QED
      BY <2>9, <2>10
  <1> QED
    BY <1>11, <1>12

\* The extension's resources, those of the dict m, merged into the values r.
Merged(r, h, m, built, q) ==
    /\ built = IF "resources" \in DOMAIN r THEN r["resources"] ELSE <<>>
    /\ q = ("resources" :> _merge_extension_resources(built, h, m)) @@ r
    /\ ~Conflict(built, h, m)

\* The extension's resources are merged with what was built, which has none of
\* the extension's keys.
LEMMA MergedResources ==
    ASSUME NEW r, NEW h, NEW m, NEW built, NEW q, NEW sec \in Sections, NEW k,
           Merged(r, h, m, built, q)
    PROVE  /\ Get(h, m, sec) # Null /\ k \in DOMAIN h[h[m][sec].ref] =>
                BuiltIn(q, sec, k) = h[h[m][sec].ref][k] /\ BuiltIn(r, sec, k) = Null
           /\ ~(Get(h, m, sec) # Null /\ k \in DOMAIN h[h[m][sec].ref]) =>
                BuiltIn(q, sec, k) = BuiltIn(r, sec, k)
  <1> DEFINE merged == _merge_extension_resources(built, h, m)
             sections == {s \in Sections : Get(h, m, s) # Null}
             theirs == IF sec \in sections THEN h[h[m][sec].ref] ELSE <<>>
             made == IF sec \in DOMAIN built THEN built[sec] ELSE <<>>
  <1>1. "resources" \in DOMAIN q /\ q["resources"] = merged
    <2>1. q = ("resources" :> merged) @@ r
      BY DEF Merged
    <2> HIDE DEF merged
    <2> QED
      BY <2>1 DEF :>, @@
  <1>2. /\ DOMAIN merged = DOMAIN built \cup sections
        /\ sec \in DOMAIN merged => merged[sec] = theirs @@ made
    BY DEF _merge_extension_resources, Sections
  <1>3. sec \in sections <=> Get(h, m, sec) # Null
    OBVIOUS
  <1>4. BuiltIn(r, sec, k) = IF k \in DOMAIN made THEN made[k] ELSE Null
    BY DEF BuiltIn, Merged
  <1>5. sec \in sections => DOMAIN theirs \cap DOMAIN made = {}
    <2>1. CASE sec \in sections /\ sec \in DOMAIN built
      BY <1>3, <2>1 DEF Conflict, Sections, Merged
    <2>2. CASE sec \notin DOMAIN built
      BY <2>2
    <2> QED
      BY <2>1, <2>2
  <1>6. sec \in sections => theirs = h[h[m][sec].ref]
    OBVIOUS
  <1>7. sec \notin DOMAIN merged => DOMAIN made = {} /\ sec \notin sections
    BY <1>2
  <1>8. sec \notin sections => DOMAIN theirs = {}
    OBVIOUS
  <1> HIDE DEF merged, sections, theirs, made
  <1>9. BuiltIn(q, sec, k) = IF k \in DOMAIN theirs THEN theirs[k]
                             ELSE IF k \in DOMAIN made THEN made[k] ELSE Null
    <2>1. CASE sec \in DOMAIN merged
      BY <1>1, <1>2, <2>1 DEF BuiltIn, @@
    <2>2. CASE sec \notin DOMAIN merged
      BY <1>1, <1>7, <1>8, <2>2 DEF BuiltIn
    <2> QED
      BY <2>1, <2>2
  <1> QED
    BY <1>3, <1>4, <1>5, <1>6, <1>8, <1>9

\* The stage of the extension gives the service what its resources ask for.
LEMMA ExtensionDeclared ==
    ASSUME NamesInv, DroppedInv, DeclaredInv, Separate(doc), Readable(doc),
           _apply_service_extensions, stage' = "leftover",
           UNCHANGED <<doc, at, out>>, status' = "running"
    PROVE  DeclaredInv'
  <1> DEFINE ext == Extension(heap, src)
             h0 == Popped(heap, src, ExtensionKeys)
             rs == {"resources"}
  <1>1. stage = "extension" /\ ~BothKeys(src) /\ (ext = Null \/ IsDict(ext))
    BY DEF _apply_service_extensions, In, Raise
  <1>2. stage \in ServiceStages /\ stage' \in ServiceStages
    BY <1>1 DEF ServiceStages
  <1>3. /\ doc.order \in Seq(STRING) /\ at \in DOMAIN doc.order /\ Held(doc, heap, at, result)
        /\ src = ServiceCell(doc, at) /\ src \in Services(doc) /\ src \in DOMAIN heap
        /\ \A k \in DOMAIN heap[src] : heap[src][k] = doc.heap[src][k]
    BY <1>2, CurrentService
  <1>4. Shrunk(doc, heap) /\ DOMAIN heap = DOMAIN doc.heap
    BY <1>3 DEF Held, Shrunk
  <1>5. ext = Extension(doc.heap, doc.heap[ServicesCell][doc.order[at]].ref)
    <2>1. \A k \in ExtensionKeys : k \in DOMAIN heap[src] <=> k \in DOMAIN doc.heap[src]
      BY <1>1, <1>2, DueSaid DEF Due, BeforeExtension
    <2>2. DOMAIN heap[src] \cap ExtensionKeys = DOMAIN doc.heap[src] \cap ExtensionKeys
      BY <2>1
    <2>3. src = doc.heap[ServicesCell][doc.order[at]].ref
      BY <1>3 DEF ServiceCell
    <2>4. Extension(heap, src) = Extension(doc.heap, src)
      <3>1. CASE DOMAIN heap[src] \cap ExtensionKeys = {}
        BY <2>2, <3>1 DEF Extension
      <3>2. CASE DOMAIN heap[src] \cap ExtensionKeys # {}
        <4>1. PICK k \in DOMAIN heap[src] \cap ExtensionKeys :
                DOMAIN heap[src] \cap ExtensionKeys = {k}
          BY <1>1, <3>2 DEF BothKeys, ExtensionKeys
        <4>2. /\ (CHOOSE x \in DOMAIN heap[src] \cap ExtensionKeys : TRUE) = k
              /\ (CHOOSE x \in DOMAIN doc.heap[src] \cap ExtensionKeys : TRUE) = k
          BY <2>2, <4>1
        <4> QED
          BY <1>3, <2>2, <3>2, <4>1, <4>2 DEF Extension
      <3> QED
        BY <3>1, <3>2
    <2> QED
      BY <2>3, <2>4
  <1>6. Due(stage') \subseteq Due(stage) \ ExtensionKeys
    BY DEF Due, BeforeHealth, BeforeDeploy, BeforeNetwork, BeforeExtension
  <1>7. Taken(doc, at, stage) \cup ExtensionDicts(doc, at) \subseteq Taken(doc, at, stage')
    BY <1>1 DEF Taken, BeforeHealth, BeforeDeploy, BeforeNetwork, BeforeExtension
  <1>8. Coming(stage') = {}
    BY DEF Coming, BeforeHealth, BeforeDeploy, BeforeNetwork
  <1>9. SUFFICES /\ StageShape(ExtensionKeys, ExtensionDicts(doc, at), rs)
                 /\ ~Aliased(at) /\ GivenDerived(at, result) => GivenResources(at, result')
    <2>1. ASSUME StageShape(ExtensionKeys, ExtensionDicts(doc, at), rs), ~Aliased(at),
                 GivenDerived(at, result) => GivenResources(at, result')
          PROVE  Given(at, stage', result')
      <3>1. /\ GivenMounts(at, result) /\ GivenProbe(at, result) /\ GivenDerived(at, result)
            /\ GivenIsolation(at, result)
        BY <1>1, <1>2, <2>1 DEF DeclaredInv, Given, BeforeHealth, BeforeDeploy, BeforeNetwork
      <3>2. GivenMounts(at, result') /\ GivenProbe(at, result') /\ GivenIsolation(at, result')
        BY <2>1, <3>1, GivenCarried DEF StageShape
      <3> QED
        BY <2>1, <3>1, <3>2 DEF Given
    <2> HIDE DEF rs
    <2> QED
      BY <1>2, <1>6, <1>7, <1>8, <2>1, DeclaredStage
  <1>10. /\ DOMAIN h0 = DOMAIN heap
         /\ \A x \in DOMAIN heap : x # src => h0[x] = heap[x]
         /\ DOMAIN h0[src] = DOMAIN heap[src] \ ExtensionKeys
    BY <1>3, PoppedHeap
  <1>11. ASSUME GivenDerived(at, result), NEW sec \in Sections, NEW k \in ResourceNames,
                ExtensionSaid(at, sec) = Null
         PROVE  {BuiltIn(result, sec, k)} \ {Null} = Asked(at, sec, k)
    <2>1. Under(ExtensionSaid(at, sec), k) = Null
      BY <1>11 DEF Under
    <2>2. BuiltIn(result, sec, k) = Derived(at, sec, k)
      BY <1>11 DEF GivenDerived
    <2> QED
      BY <2>1, <2>2 DEF Asked
  <1>12. CASE ext = Null
    <2>1. heap' = h0 /\ result' = result
      <3>1. ~IsDict(ext)
        BY <1>12, ReferenceNotNull
      <3> QED
        BY <1>1, <1>12, <3>1 DEF _apply_service_extensions, Goto, Raise
    <2>2. SameBut(result, result', rs)
      BY <2>1 DEF SameBut
    <2>3. StageShape(ExtensionKeys, ExtensionDicts(doc, at), rs)
      BY <1>3, <1>4, <1>10, <2>1, <2>2 DEF StageShape
    <2>4. \A sec : ExtensionSaid(at, sec) = Null
      BY <1>5, <1>12 DEF ExtensionSaid, Under
    <2>5. GivenDerived(at, result) => GivenResources(at, result')
      BY <1>11, <2>1, <2>4 DEF GivenResources
    <2> QED
      BY <2>3, <2>5
  <1>13. CASE IsDict(ext)
    <2> DEFINE c == ext.ref
               more == Get(h0, c, "resources")
               h1 == Popped(h0, c, {"resources"})
               m == more.ref
               h2 == Popped(h1, m, {"requests", "limits"})
               built == IF "resources" \in DOMAIN result THEN result["resources"] ELSE <<>>
    <2>1. ext # Null
      BY <1>13, ReferenceNotNull
    <2>2. \/ more = Null /\ heap' = h1 /\ result' = result
          \/ /\ more # Null /\ IsDict(more) /\ heap' = h2
             /\ result' = ("resources" :> _merge_extension_resources(built, h1, m)) @@ result
             /\ ~Conflict(built, h1, m)
             /\ \A sec \in Sections : Get(h1, m, sec) # Null => IsDict(h1[m][sec])
      BY <1>1, <1>13, <2>1 DEF _apply_service_extensions, Goto, Raise, Sections
    <2>3. c \in Inside(doc, {ServiceCell(doc, at)}, ExtensionKeys)
      <3>1. DOMAIN heap[src] \cap ExtensionKeys # {}
        BY <2>1 DEF Extension
      <3>2. PICK k0 \in ExtensionKeys \cap DOMAIN heap[src] : heap[src][k0] = ext
        BY <3>1 DEF Extension
      <3>3. k0 \in DOMAIN doc.heap[src] /\ doc.heap[src][k0] = ext
        BY <1>3, <1>4, <3>2 DEF Shrunk
      <3> QED
        BY <1>3, <1>13, <3>2, <3>3, InsideMember
    <2>4. c \in ExtensionDicts(doc, at)
      BY <2>3 DEF ExtensionDicts
    <2> HIDE DEF ext
    <2>5. c \in Extensions(doc)
      <3>1. {ServiceCell(doc, at)} \subseteq Services(doc)
        BY <1>3
      <3> QED
        BY <2>3, <3>1 DEF Extensions, Inside
    <2>6. c \in DOMAIN heap /\ c # src
      BY <1>3, <1>4, <2>5, KindsApart, KindsLoaded
    <2>7. Under(ext, "resources") = Get(doc.heap, c, "resources")
      BY <1>13, <2>1 DEF Under
    <2>8. \A sec : ExtensionSaid(at, sec) = Under(Under(ext, "resources"), sec)
      BY <1>5 DEF ExtensionSaid
    <2> HIDE DEF h0, c
    <2>9. more = Get(heap, c, "resources")
      BY <1>10, <2>6 DEF Get
    <2>10. /\ DOMAIN h1 = DOMAIN heap
           /\ \A x \in DOMAIN heap : x # c => h1[x] = h0[x]
      BY <1>10, <2>6, PoppedHeap
    <2> HIDE DEF h1, more
    <2>11. ASSUME more # Null, IsDict(more)
           PROVE  /\ m \in ExtensionDicts(doc, at) /\ m \in ExtResources(doc)
                  /\ m \in DOMAIN heap /\ m # c /\ m # src
                  /\ more = Under(ext, "resources")
      <3>1. more = doc.heap[c]["resources"] /\ "resources" \in DOMAIN doc.heap[c]
        BY <1>4, <2>6, <2>9, <2>11 DEF Get, Shrunk
      <3>2. m \in ExtensionDicts(doc, at)
        BY <2>3, <2>11, <3>1, InsideMember DEF ExtensionDicts
      <3>3. m \in ExtResources(doc)
        BY <2>5, <2>11, <3>1, InsideMember DEF ExtResources
      <3>4. m \in DOMAIN heap /\ m # c /\ m # src
        BY <1>3, <1>4, <2>5, <3>3, KindsApart, KindsLoaded
      <3> QED
        BY <2>7, <3>1, <3>2, <3>3, <3>4 DEF Get
    <2>12. /\ \A x \in DOMAIN heap : x # src /\ x \notin ExtensionDicts(doc, at) => heap'[x] = heap[x]
           /\ heap'[src] = h0[src]
      <3>1. CASE more = Null
        <4>1. heap' = h1
          BY <2>2, <3>1
        <4> QED
          BY <1>3, <1>10, <2>4, <2>6, <2>10, <4>1
      <3>2. CASE more # Null
        <4>1. heap' = h2 /\ IsDict(more)
          BY <2>2, <3>2
        <4>2. m \in ExtensionDicts(doc, at) /\ m \in DOMAIN h1 /\ m # src
          BY <2>10, <2>11, <3>2, <4>1
        <4> HIDE DEF m
        <4>3. \A x \in DOMAIN h1 : x # m => h2[x] = h1[x]
          BY <4>2, PoppedHeap
        <4> HIDE DEF h2
        <4> QED
          BY <1>3, <1>10, <2>4, <2>6, <2>10, <4>1, <4>2, <4>3
      <3> QED
        BY <3>1, <3>2
    <2>13. SameBut(result, result', rs)
      <3>1. CASE result' = result
        BY <3>1 DEF SameBut
      <3>2. CASE result' = ("resources" :> _merge_extension_resources(built, h1, m)) @@ result
        BY <3>2, ItemAdded
      <3> QED
        BY <2>2, <3>1, <3>2
    <2>14. StageShape(ExtensionKeys, ExtensionDicts(doc, at), rs)
      BY <1>3, <1>4, <1>10, <2>12, <2>13 DEF StageShape
    <2>15. ASSUME ~Aliased(at), GivenDerived(at, result)
           PROVE  GivenResources(at, result')
      <3>1. \A x \in ExtensionDicts(doc, at) : heap[x] = doc.heap[x]
        BY <1>1, <1>2, <2>15, OwnDictsFresh DEF DeclaredInv, BeforeExtension
      <3>2. more = Under(ext, "resources")
        BY <2>4, <2>7, <2>9, <3>1 DEF Get
      <3>3. CASE more = Null
        <4>1. \A sec : ExtensionSaid(at, sec) = Null
          BY <2>8, <3>2, <3>3 DEF Under
        <4>2. result' = result
          BY <2>2, <3>3
        <4> QED
          BY <1>11, <2>15, <4>1, <4>2 DEF GivenResources
      <3>4. CASE more # Null
        <4>1. /\ IsDict(more)
              /\ result' = ("resources" :> _merge_extension_resources(built, h1, m)) @@ result
              /\ ~Conflict(built, h1, m)
              /\ \A sec \in Sections : Get(h1, m, sec) # Null => IsDict(h1[m][sec])
          BY <2>2, <3>4
        <4>2. /\ m \in ExtensionDicts(doc, at) /\ m \in ExtResources(doc)
              /\ m \in DOMAIN heap /\ m # c /\ m # src
          BY <2>11, <3>4, <4>1
        <4>3. h1[m] = doc.heap[m]
          BY <1>10, <2>10, <3>1, <4>2
        <4>4. \A sec : ExtensionSaid(at, sec) = Get(h1, m, sec)
          BY <2>8, <3>2, <3>4, <4>1, <4>3 DEF Under, Get
        <4>5. built = IF "resources" \in DOMAIN result THEN result["resources"] ELSE <<>>
          OBVIOUS
        <4> HIDE DEF built, m
        <4>6. Merged(result, h1, m, built, result')
          BY <4>5, <4>1 DEF Merged
        <4>7. ASSUME NEW sec \in Sections, NEW k \in ResourceNames
              PROVE  {BuiltIn(result', sec, k)} \ {Null} = Asked(at, sec, k)
          <5> DEFINE said == Get(h1, m, sec)
          <5>1. /\ said # Null /\ k \in DOMAIN h1[h1[m][sec].ref] =>
                     /\ BuiltIn(result', sec, k) = h1[h1[m][sec].ref][k]
                     /\ BuiltIn(result, sec, k) = Null
                /\ ~(said # Null /\ k \in DOMAIN h1[h1[m][sec].ref]) =>
                     BuiltIn(result', sec, k) = BuiltIn(result, sec, k)
            BY <4>6, MergedResources
          <5>2. BuiltIn(result, sec, k) = Derived(at, sec, k)
            BY <2>15 DEF GivenDerived
          <5>3. CASE said = Null
            <6>1. Under(ExtensionSaid(at, sec), k) = Null
              BY <4>4, <5>3 DEF Under
            <6>2. BuiltIn(result', sec, k) = BuiltIn(result, sec, k)
              BY <5>1, <5>3
            <6> QED
              BY <5>2, <6>1, <6>2 DEF Asked
          <5>4. CASE said # Null
            <6> DEFINE x == h1[m][sec].ref
            <6>1. said = h1[m][sec] /\ sec \in DOMAIN h1[m] /\ IsDict(said)
              BY <4>1, <5>4 DEF Get
            <6>2. x \in Inside(doc, ExtResources(doc), {"requests", "limits"})
              BY <4>2, <4>3, <6>1, InsideMember DEF Sections
            <6>3. /\ x \in DOMAIN doc.heap /\ heap[x] = doc.heap[x] /\ x \notin Services(doc)
                  /\ x \notin Nested(doc, at)
              BY <1>2, <6>2, ReadFresh DEF DeclaredInv
            <6>4. x # src /\ x # c
              BY <1>3, <2>4, <6>3 DEF Nested
            <6>5. h1[x] = doc.heap[x]
              BY <1>4, <1>10, <2>10, <6>3, <6>4
            <6>6. Under(ExtensionSaid(at, sec), k) = IF k \in DOMAIN h1[x] THEN h1[x][k] ELSE Null
              BY <4>4, <5>4, <6>1, <6>5 DEF Under, Get
            <6>7. CASE k \in DOMAIN h1[x]
              <7>1. BuiltIn(result', sec, k) = h1[x][k] /\ Derived(at, sec, k) = Null
                BY <5>1, <5>2, <5>4, <6>7
              <7> QED
                BY <6>6, <6>7, <7>1 DEF Asked
            <6>8. CASE k \notin DOMAIN h1[x]
              <7>1. BuiltIn(result', sec, k) = Derived(at, sec, k)
                BY <5>1, <5>2, <6>8
              <7> QED
                BY <6>6, <6>8, <7>1 DEF Asked
            <6> QED
              BY <6>7, <6>8
          <5> QED
            BY <5>3, <5>4
        <4> QED
          BY <4>7 DEF GivenResources
      <3> QED
        BY <3>3, <3>4
    <2> QED
      BY <2>14, <2>15
  <1> QED
    BY <1>1, <1>12, <1>13

\* Where the amounts of a resource are said: in limits and reservations, or by the
\* service itself.
AmountKeys == [cpu |-> "cpus", memory |-> "memory"]

ShortKeys == [cpu |-> "cpus", memory |-> "mem_limit"]

AmountOf(f, k) == IF k \in DOMAIN f THEN f[k] ELSE Null

\* What a dict of amounts is converted to is what it says.
LEMMA AmountsAreSaid ==
    ASSUME NEW h, NEW c, NEW v, NEW names, IsDict(v),
           \A k \in DOMAIN names : Get(h, c, names[k]) = Get(doc.heap, v.ref, names[k]),
           NEW k
    PROVE  AmountOf(Amounts(h, c, names), k) =
             IF k \in DOMAIN names THEN AmountSaid(v, k, names) ELSE Null
  <1>1. DOMAIN Amounts(h, c, names) = {x \in DOMAIN names : Get(h, c, names[x]) # Null}
    BY DEF Amounts
  <1>2. v # Null
    BY ReferenceNotNull
  <1>3. \A x : Under(v, x) = Get(doc.heap, v.ref, x)
    BY <1>2 DEF Under
  <1>4. CASE k \in DOMAIN Amounts(h, c, names)
    <2>1. k \in DOMAIN names /\ Get(h, c, names[k]) # Null
      BY <1>1, <1>4
    <2>2. h[c][names[k]] = Under(v, names[k]) /\ Under(v, names[k]) # Null
      BY <1>3, <2>1 DEF Get
    <2>3. Amounts(h, c, names)[k] = IF k = "memory" THEN _convert_byte_value(h[c][names[k]])
                                    ELSE h[c][names[k]]
      BY <2>1 DEF Amounts
    <2> QED
      BY <1>4, <2>1, <2>2, <2>3 DEF AmountOf, AmountSaid, _convert_byte_value
  <1>5. CASE k \notin DOMAIN Amounts(h, c, names) /\ k \in DOMAIN names
    <2>1. Under(v, names[k]) = Null
      BY <1>1, <1>3, <1>5
    <2> QED
      BY <1>5, <2>1 DEF AmountOf, AmountSaid
  <1>6. CASE k \notin DOMAIN names
    BY <1>1, <1>6 DEF AmountOf
  <1> QED
    BY <1>4, <1>5, <1>6

\* What the conversion of limits or reservations builds and leaves.
LEMMA ResourceEffect ==
    ASSUME NEW h, NEW v, v = Null \/ (IsDict(v) /\ v.ref \in DOMAIN h),
           NEW ret, ret = _convert_resource(h, v), ret.st = "ok"
    PROVE  /\ DOMAIN ret.heap = DOMAIN h
           /\ \A x \in DOMAIN h : v = Null \/ x # v.ref => ret.heap[x] = h[x]
           /\ Truthy(h, v) => /\ ret.val = Amounts(h, v.ref, AmountKeys) /\ ret.val # Null
                              /\ DOMAIN ret.heap[v.ref] = {}
           /\ ~Truthy(h, v) => ret.val = Null /\ ret.heap = h
  <1>1. Range(AmountKeys) = {"cpus", "memory"} /\ DOMAIN AmountKeys = {"cpu", "memory"}
    <2>1. /\ DOMAIN AmountKeys = {"cpu", "memory"}
          /\ AmountKeys["cpu"] = "cpus" /\ AmountKeys["memory"] = "memory"
      BY DEF AmountKeys
    <2> QED
      BY <2>1 DEF Range
  <1>2. CASE ~Truthy(h, v)
    BY <1>2 DEF _convert_resource, Ret
  <1>3. CASE Truthy(h, v)
    <2>1. v # Null /\ IsDict(v) /\ v.ref \in DOMAIN h
      BY <1>3 DEF Truthy
    <2> DEFINE mem == MemoryStatus(Get(h, v.ref, "memory"))
               st == IF mem = "ok" /\ DOMAIN h[v.ref] \ Range(AmountKeys) # {} THEN "error"
                     ELSE mem
    <2>2. ret = Ret(Popped(h, v.ref, Range(AmountKeys)),
                    IF st = "ok" THEN Amounts(h, v.ref, AmountKeys) ELSE Null, st)
      BY <1>3 DEF _convert_resource, AmountKeys
    <2>3. st = "ok"
      BY <2>2 DEF Ret
    <2>4. /\ ret.heap = Popped(h, v.ref, Range(AmountKeys))
          /\ ret.val = Amounts(h, v.ref, AmountKeys)
      BY <2>2, <2>3 DEF Ret
    <2>5. DOMAIN h[v.ref] \subseteq Range(AmountKeys)
      BY <2>3
    <2>6. /\ DOMAIN ret.heap = DOMAIN h
          /\ \A x \in DOMAIN h : x # v.ref => ret.heap[x] = h[x]
          /\ DOMAIN ret.heap[v.ref] = DOMAIN h[v.ref] \ Range(AmountKeys)
      BY <2>1, <2>4, PoppedHeap
    <2>7. ret.val # Null
      <3>1. "null" \notin DOMAIN Amounts(h, v.ref, AmountKeys)
        BY <1>1 DEF Amounts
      <3>2. DOMAIN Null = {"null"}
        BY DEF Null
      <3> QED
        BY <2>4, <3>1, <3>2
    <2> QED
      BY <1>3, <2>1, <2>4, <2>5, <2>6, <2>7
  <1> QED
    BY <1>2, <1>3

\* What the conversion of deploy.resources, the dict c, builds and leaves.
LEMMA ResourcesEffect ==
    ASSUME NEW h, NEW c \in DOMAIN h, NEW lv, NEW sv,
           lv = Get(h, c, "limits"), sv = Get(h, c, "reservations"),
           lv = Null \/ (IsDict(lv) /\ lv.ref \in DOMAIN h /\ lv.ref # c),
           sv = Null \/ (IsDict(sv) /\ sv.ref \in DOMAIN h /\ sv.ref # c),
           NEW ret, ret = _convert_resources(h, c), ret.st = "ok",
           NEW made, made = _set_requests_to_limits_if_unset(ret.val)
    PROVE  /\ \A x \in DOMAIN h :
                x # c /\ (lv = Null \/ x # lv.ref) /\ (sv = Null \/ x # sv.ref) =>
                  ret.heap[x] = h[x]
           /\ "limits" \in DOMAIN made <=> Truthy(h, lv)
           /\ Truthy(h, lv) => made["limits"] = Amounts(h, lv.ref, AmountKeys)
           /\ "requests" \in DOMAIN made <=> Truthy(h, lv) \/ Truthy(h, sv)
           /\ Truthy(h, sv) => made["requests"] = Amounts(h, sv.ref, AmountKeys)
           /\ Truthy(h, lv) /\ ~Truthy(h, sv) =>
                made["requests"] = Amounts(h, lv.ref, AmountKeys)
  <1> DEFINE h1 == Popped(h, c, {"limits"})
             lim == _convert_resource(h1, lv)
             h2 == Popped(lim.heap, c, {"reservations"})
             res == _convert_resource(h2, sv)
             lsec == IF lim.val = Null THEN <<>> ELSE "limits" :> lim.val
             rsec == IF res.val = Null THEN <<>> ELSE "requests" :> res.val
  <1>1. lim.st = "ok" /\ res.st = "ok" /\ ret.heap = res.heap /\ ret.val = lsec @@ rsec
    BY DEF _convert_resources, Ret
  <1>2. /\ DOMAIN h1 = DOMAIN h /\ \A x \in DOMAIN h : x # c => h1[x] = h[x]
    BY PoppedHeap
  <1> HIDE DEF h1
  <1>3. Truthy(h1, lv) <=> Truthy(h, lv)
    BY <1>2 DEF Truthy
  <1>4. lv # Null => Amounts(h1, lv.ref, AmountKeys) = Amounts(h, lv.ref, AmountKeys)
    BY <1>2 DEF Amounts, Get
  <1>5. /\ DOMAIN lim.heap = DOMAIN h
        /\ \A x \in DOMAIN h : lv = Null \/ x # lv.ref => lim.heap[x] = h1[x]
        /\ Truthy(h, lv) => /\ lim.val = Amounts(h, lv.ref, AmountKeys) /\ lim.val # Null
                            /\ DOMAIN lim.heap[lv.ref] = {}
        /\ ~Truthy(h, lv) => lim.val = Null /\ lim.heap = h1
    <2>1. lv = Null \/ (IsDict(lv) /\ lv.ref \in DOMAIN h1)
      BY <1>2
    <2>2. Truthy(h, lv) => lv # Null
      BY DEF Truthy
    <2>3. /\ DOMAIN lim.heap = DOMAIN h1
          /\ \A x \in DOMAIN h1 : lv = Null \/ x # lv.ref => lim.heap[x] = h1[x]
          /\ Truthy(h1, lv) => /\ lim.val = Amounts(h1, lv.ref, AmountKeys) /\ lim.val # Null
                               /\ DOMAIN lim.heap[lv.ref] = {}
          /\ ~Truthy(h1, lv) => lim.val = Null /\ lim.heap = h1
      BY <1>1, <2>1, ResourceEffect
    <2> HIDE DEF lim
    <2> QED
      BY <1>2, <1>3, <1>4, <2>2, <2>3
  <1> HIDE DEF lim
  <1>6. DOMAIN h2 = DOMAIN h /\ \A x \in DOMAIN h : x # c => h2[x] = lim.heap[x]
    BY <1>5, PoppedHeap
  <1> HIDE DEF h2
  <1>7. /\ DOMAIN res.heap = DOMAIN h
        /\ \A x \in DOMAIN h : sv = Null \/ x # sv.ref => res.heap[x] = h2[x]
        /\ Truthy(h2, sv) => res.val = Amounts(h2, sv.ref, AmountKeys) /\ res.val # Null
        /\ ~Truthy(h2, sv) => res.val = Null
    <2>1. sv = Null \/ (IsDict(sv) /\ sv.ref \in DOMAIN h2)
      BY <1>6
    <2>2. /\ DOMAIN res.heap = DOMAIN h2
          /\ \A x \in DOMAIN h2 : sv = Null \/ x # sv.ref => res.heap[x] = h2[x]
          /\ Truthy(h2, sv) => res.val = Amounts(h2, sv.ref, AmountKeys) /\ res.val # Null
          /\ ~Truthy(h2, sv) => res.val = Null
      BY <1>1, <2>1, ResourceEffect
    <2> HIDE DEF res
    <2> QED
      BY <1>6, <2>2
  <1> HIDE DEF res
  <1>8. \A x \in DOMAIN h :
          x # c /\ (lv = Null \/ x # lv.ref) /\ (sv = Null \/ x # sv.ref) =>
            ret.heap[x] = h[x]
    BY <1>1, <1>2, <1>5, <1>6, <1>7
  <1>9. /\ DOMAIN lsec = (IF lim.val = Null THEN {} ELSE {"limits"})
        /\ lim.val # Null => lsec["limits"] = lim.val
        /\ DOMAIN rsec = (IF res.val = Null THEN {} ELSE {"requests"})
        /\ res.val # Null => rsec["requests"] = res.val
    BY DEF :>
  <1> HIDE DEF lsec, rsec
  <1>10. /\ DOMAIN ret.val = DOMAIN lsec \cup DOMAIN rsec
         /\ "limits" \in DOMAIN lsec => ret.val["limits"] = lsec["limits"]
         /\ "requests" \in DOMAIN rsec => ret.val["requests"] = rsec["requests"]
    BY <1>1, <1>9 DEF @@
  <1>11. /\ "limits" \in DOMAIN ret.val <=> lim.val # Null
         /\ lim.val # Null => ret.val["limits"] = lim.val
         /\ "requests" \in DOMAIN ret.val <=> res.val # Null
         /\ res.val # Null => ret.val["requests"] = res.val
    BY <1>9, <1>10
  <1>12. /\ "limits" \in DOMAIN made <=> "limits" \in DOMAIN ret.val
         /\ "limits" \in DOMAIN ret.val => made["limits"] = ret.val["limits"]
         /\ "requests" \in DOMAIN ret.val =>
              "requests" \in DOMAIN made /\ made["requests"] = ret.val["requests"]
         /\ "requests" \notin DOMAIN ret.val =>
              /\ "requests" \in DOMAIN made <=> "limits" \in DOMAIN ret.val
              /\ "limits" \in DOMAIN ret.val => made["requests"] = ret.val["limits"]
    BY DEF _set_requests_to_limits_if_unset, :>, @@
  <1>13. lim.val # Null <=> Truthy(h, lv)
    BY <1>5
  <1>14. CASE ~Truthy(h, lv) \/ sv = Null \/ sv.ref # lv.ref
    <2>1. sv # Null => h2[sv.ref] = h[sv.ref]
      BY <1>2, <1>5, <1>6, <1>14
    <2>2. Truthy(h2, sv) <=> Truthy(h, sv)
      BY <2>1 DEF Truthy
    <2>3. sv # Null => Amounts(h2, sv.ref, AmountKeys) = Amounts(h, sv.ref, AmountKeys)
      BY <2>1 DEF Amounts, Get
    <2>4. Truthy(h, sv) => sv # Null
      BY DEF Truthy
    <2> QED
      BY <1>5, <1>7, <1>8, <1>11, <1>12, <1>13, <2>2, <2>3, <2>4
  \* limits and reservations are one dict, which is empty when its turn comes again.
  <1>15. CASE Truthy(h, lv) /\ sv # Null /\ sv.ref = lv.ref
    <2>1. DOMAIN h2[sv.ref] = {} /\ ~Truthy(h2, sv)
      BY <1>5, <1>6, <1>15 DEF Truthy
    <2>2. Truthy(h, sv)
      BY <1>15 DEF Truthy
    <2> QED
      BY <1>5, <1>7, <1>8, <1>11, <1>12, <1>13, <1>15, <2>1, <2>2
  <1> QED
    BY <1>14, <1>15

\* The stage of the deployment gives the service the limits and requests of
\* deploy.resources or, if that says nothing, of the shortcuts.
LEMMA DeployDeclared ==
    ASSUME NamesInv, DroppedInv, DeclaredInv, Separate(doc), Readable(doc), _convert_deploy,
           stage' = "security", UNCHANGED <<doc, at, out>>
    PROVE  DeclaredInv'
  <1> DEFINE v == Get(heap, src, "deploy")
             ks == {"mem_limit", "cpus", "deploy"}
             rs == {"resources"}
             h0 == Popped(heap, src, ks)
             resources == IF v = Null THEN Null ELSE Get(h0, v.ref, "resources")
             h1 == IF v = Null THEN h0 ELSE Popped(h0, v.ref, {"resources"})
             r == resources.ref
             mem == MemoryStatus(Get(heap, src, "mem_limit"))
             amounts == IF mem # "ok" \/ \A k \in Range(ShortKeys) : ~Declared(k) THEN <<>>
                        ELSE "limits" :> Amounts(heap, src, ShortKeys)
             whole == Truthy(h1, resources)
             built == IF whole THEN _convert_resources(h1, r) ELSE Ret(h1, amounts, mem)
             made == _set_requests_to_limits_if_unset(built.val)
             kept == whole \/ DOMAIN made # {}
  <1>1. /\ stage = "deploy" /\ built.st = "ok" /\ heap' = built.heap
        /\ result' = IF kept THEN result @@ ("resources" :> made) ELSE result
    <2>1. stage = "deploy"
      BY DEF _convert_deploy, In
    <2> QED
      BY <2>1 DEF _convert_deploy, Goto, Raise, ShortKeys
  <1>2. stage \in ServiceStages /\ stage' \in ServiceStages
    BY <1>1 DEF ServiceStages
  <1>3. /\ doc.order \in Seq(STRING) /\ at \in DOMAIN doc.order /\ Held(doc, heap, at, result)
        /\ src = ServiceCell(doc, at) /\ src \in Services(doc) /\ src \in DOMAIN heap
        /\ \A k \in DOMAIN heap[src] : heap[src][k] = doc.heap[src][k]
    BY <1>2, CurrentService
  <1>4. Shrunk(doc, heap) /\ DOMAIN heap = DOMAIN doc.heap
    BY <1>3 DEF Held, Shrunk
  <1>5. /\ v = Said(at, "deploy")
        /\ \A k \in {"mem_limit", "cpus"} : Get(heap, src, k) = Said(at, k)
        /\ "deploy" \in DOMAIN heap[src] <=> "deploy" \in DOMAIN doc.heap[src]
    BY <1>1, <1>2, DueSaid DEF Due, BeforeHealth, BeforeDeploy
  <1>6. Coming(stage) \cap DOMAIN result = {} /\ "resources" \notin DOMAIN result
    BY <1>1, <1>2 DEF DeclaredInv, Coming, BeforeHealth, BeforeDeploy
  <1>7. Coming(stage') \subseteq Coming(stage) \ rs
    BY <1>1 DEF Coming, BeforeHealth, BeforeDeploy, BeforeNetwork
  <1>8. Due(stage') \subseteq Due(stage) \ ks
    BY <1>1 DEF Due, BeforeHealth, BeforeDeploy, BeforeNetwork, BeforeExtension, ExtensionKeys
  <1>9. Taken(doc, at, stage) \cup DeployDicts(doc, at) \subseteq Taken(doc, at, stage')
    BY <1>1 DEF Taken, BeforeHealth, BeforeDeploy, BeforeNetwork, BeforeExtension
  <1>10. SUFFICES /\ StageShape(ks, DeployDicts(doc, at), rs)
                  /\ ~Aliased(at) => GivenDerived(at, result')
    <2>1. ASSUME StageShape(ks, DeployDicts(doc, at), rs), ~Aliased(at), GivenDerived(at, result')
          PROVE  Given(at, stage', result')
      <3>1. GivenMounts(at, result) /\ GivenProbe(at, result)
        BY <1>1, <1>2, <2>1 DEF DeclaredInv, Given, BeforeHealth
      <3>2. GivenMounts(at, result') /\ GivenProbe(at, result')
        BY <2>1, <3>1, GivenCarried DEF StageShape
      <3> QED
        BY <2>1, <3>2 DEF Given, BeforeHealth, BeforeDeploy, BeforeNetwork
    <2>2. ASSUME StageShape(ks, DeployDicts(doc, at), rs)
          PROVE  Coming(stage') \cap DOMAIN result' = {}
      BY <1>6, <1>7, <2>2 DEF StageShape, SameBut
    <2> HIDE DEF ks, rs
    <2> QED
      BY <1>2, <1>8, <1>9, <2>1, <2>2, DeclaredStage
  <1>11. /\ DOMAIN h0 = DOMAIN heap
         /\ \A x \in DOMAIN heap : x # src => h0[x] = heap[x]
         /\ DOMAIN h0[src] = DOMAIN heap[src] \ ks
    <2> HIDE DEF ks
    <2> QED
      BY <1>3, PoppedHeap
  <1>12. SameBut(result, result', rs)
    <2>1. CASE result' = result
      BY <2>1 DEF SameBut
    <2>2. CASE result' = result @@ ("resources" :> made)
      <3> HIDE DEF made
      <3> QED
        BY <2>2, ItemAdded
    <2> QED
      BY <1>1, <2>1, <2>2
  \* The dicts on the way: deploy, its resources and their two sections.
  <1>13. ASSUME v # Null
         PROVE  /\ IsDict(v) /\ v.ref \in Inside(doc, {src}, {"deploy"})
                /\ v.ref \in Deploys(doc) /\ v.ref \in DOMAIN heap /\ v.ref # src
    <2>1. /\ "deploy" \in DOMAIN heap[src] /\ "deploy" \in DOMAIN doc.heap[src]
          /\ v = doc.heap[src]["deploy"]
      BY <1>3, <1>5, <1>13 DEF Get
    <2>2. IsDict(v)
      BY <1>3, <1>13, <2>1 DEF Separate, Get
    <2>3. v.ref \in Inside(doc, {src}, {"deploy"}) /\ v.ref \in Deploys(doc)
      BY <1>3, <2>1, <2>2, InsideMember DEF Deploys
    <2> QED
      BY <1>3, <1>4, <2>2, <2>3, KindsApart, KindsLoaded
  <1> HIDE DEF v, h0
  <1>14. /\ DOMAIN h1 = DOMAIN heap
         /\ \A x \in DOMAIN heap : v = Null \/ x # v.ref => h1[x] = h0[x]
    <2>1. CASE v = Null
      BY <1>11, <2>1
    <2>2. CASE v # Null
      BY <1>11, <1>13, <2>2, PoppedHeap
    <2> QED
      BY <2>1, <2>2
  <1> HIDE DEF h1
  <1>15. v # Null => resources = Get(heap, v.ref, "resources")
    BY <1>11, <1>13 DEF Get
  <1>16. ASSUME resources # Null
         PROVE  /\ v # Null /\ IsDict(resources)
                /\ r \in DeployDicts(doc, at) /\ r \in Resources(doc)
                /\ r \in Inside(doc, Inside(doc, {src}, {"deploy"}), {"resources"})
                /\ r \in DOMAIN heap /\ r # src /\ r # v.ref
                /\ h1[r] = heap[r]
    <2>1. v # Null
      BY <1>16
    <2>2. "resources" \in DOMAIN doc.heap[v.ref] /\ resources = doc.heap[v.ref]["resources"]
      BY <1>4, <1>13, <1>15, <1>16, <2>1 DEF Get, Shrunk
    <2> HIDE DEF resources
    <2>3. IsDict(resources)
      BY <1>13, <1>16, <2>1, <2>2 DEF Separate, Get
    <2>4. /\ r \in Inside(doc, Inside(doc, {src}, {"deploy"}), {"resources"})
          /\ r \in Resources(doc)
      BY <1>13, <2>1, <2>2, <2>3, InsideMember DEF Resources
    <2>5. r \in DOMAIN heap /\ r # src /\ r # v.ref
      BY <1>3, <1>4, <1>13, <2>1, <2>4, KindsApart, KindsLoaded
    <2>6. h1[r] = heap[r]
      BY <1>11, <1>14, <2>5
    <2> QED
      BY <1>3, <2>1, <2>3, <2>4, <2>5, <2>6 DEF DeployDicts
  <1> HIDE DEF resources, r
  <1>17. ASSUME resources # Null, NEW sec \in {"limits", "reservations"}, NEW w,
                w = Get(h1, r, sec), w # Null
         PROVE  /\ IsDict(w) /\ w.ref \in DeployDicts(doc, at)
                /\ w.ref \in DOMAIN heap /\ w.ref # r /\ w.ref # src /\ w.ref # v.ref
                /\ h1[w.ref] = heap[w.ref]
    <2>1. sec \in DOMAIN doc.heap[r] /\ w = doc.heap[r][sec]
      BY <1>4, <1>16, <1>17 DEF Get, Shrunk
    <2>2. IsDict(w)
      BY <1>16, <1>17, <2>1 DEF Separate, Get
    <2>3. /\ w.ref \in Inside(doc, Inside(doc, Inside(doc, {src}, {"deploy"}), {"resources"}),
                              {"limits", "reservations"})
          /\ w.ref \in AmountDicts(doc)
      BY <1>16, <1>17, <2>1, <2>2, InsideMember DEF AmountDicts
    <2>4. w.ref \in DOMAIN heap /\ w.ref # r /\ w.ref # src /\ w.ref # v.ref
      BY <1>3, <1>4, <1>13, <1>16, <1>17, <2>3, KindsApart, KindsLoaded
    <2>5. h1[w.ref] = heap[w.ref]
      BY <1>11, <1>14, <2>4
    <2> QED
      BY <1>3, <2>2, <2>3, <2>4, <2>5 DEF DeployDicts
  <1> DEFINE lv == Get(h1, r, "limits")
             sv == Get(h1, r, "reservations")
  <1>18. ASSUME whole
         PROVE  /\ \A x \in DOMAIN h1 :
                     x # r /\ (lv = Null \/ x # lv.ref) /\ (sv = Null \/ x # sv.ref) =>
                       built.heap[x] = h1[x]
                /\ "limits" \in DOMAIN made <=> Truthy(h1, lv)
                /\ Truthy(h1, lv) => made["limits"] = Amounts(h1, lv.ref, AmountKeys)
                /\ "requests" \in DOMAIN made <=> Truthy(h1, lv) \/ Truthy(h1, sv)
                /\ Truthy(h1, sv) => made["requests"] = Amounts(h1, sv.ref, AmountKeys)
                /\ Truthy(h1, lv) /\ ~Truthy(h1, sv) =>
                     made["requests"] = Amounts(h1, lv.ref, AmountKeys)
    <2>1. built = _convert_resources(h1, r) /\ resources # Null
      BY <1>18 DEF Truthy
    <2>2. r \in DOMAIN h1
      BY <1>14, <1>16, <2>1
    <2>3. /\ lv = Null \/ (IsDict(lv) /\ lv.ref \in DOMAIN h1 /\ lv.ref # r)
          /\ sv = Null \/ (IsDict(sv) /\ sv.ref \in DOMAIN h1 /\ sv.ref # r)
      BY <1>14, <1>17, <2>1
    <2>4. lv = Get(h1, r, "limits") /\ sv = Get(h1, r, "reservations")
      OBVIOUS
    <2>5. made = _set_requests_to_limits_if_unset(built.val)
      OBVIOUS
    <2> HIDE DEF lv, sv, built, made
    <2> QED
      BY <1>1, <2>1, <2>2, <2>3, <2>4, <2>5, ResourcesEffect
  <1>19. src \notin DeployDicts(doc, at)
    BY <1>3, KindsApart, NestedKinds
  <1>20. /\ \A x \in DOMAIN heap : x # src /\ x \notin DeployDicts(doc, at) => heap'[x] = heap[x]
         /\ heap'[src] = h0[src]
    <2>1. \A x \in DOMAIN heap : x \notin DeployDicts(doc, at) => heap'[x] = h1[x]
      <3>1. CASE whole
        <4>1. resources # Null
          BY <3>1 DEF Truthy
        <4>2. /\ r \in DeployDicts(doc, at)
              /\ lv = Null \/ lv.ref \in DeployDicts(doc, at)
              /\ sv = Null \/ sv.ref \in DeployDicts(doc, at)
          BY <1>16, <1>17, <4>1
        <4> HIDE DEF lv, sv, built, made
        <4> QED
          BY <1>1, <1>14, <1>18, <3>1, <4>2
      <3>2. CASE ~whole
        <4>1. heap' = h1
          BY <1>1, <3>2 DEF Ret
        <4> QED
          BY <4>1
      <3> QED
        BY <3>1, <3>2
    <2>2. \A x \in DOMAIN heap : x \notin DeployDicts(doc, at) => h1[x] = h0[x]
      <3>1. v = Null \/ v.ref \in DeployDicts(doc, at)
        BY <1>3, <1>13 DEF DeployDicts
      <3> QED
        BY <1>14, <3>1
    <2> QED
      BY <1>3, <1>11, <1>19, <2>1, <2>2
  <1>21. StageShape(ks, DeployDicts(doc, at), rs)
    BY <1>3, <1>4, <1>11, <1>12, <1>20 DEF StageShape
  <1>22. ASSUME ~Aliased(at)
         PROVE  GivenDerived(at, result')
    <2>1. \A x \in DeployDicts(doc, at) : heap[x] = doc.heap[x]
      BY <1>1, <1>2, <1>22, OwnDictsFresh DEF DeclaredInv, BeforeDeploy
    <2>2. resources = ResourcesSaid(at)
      <3>1. CASE v = Null
        BY <1>5, <3>1 DEF resources, ResourcesSaid, Under
      <3>2. CASE v # Null
        <4>1. heap[v.ref] = doc.heap[v.ref]
          BY <1>3, <1>13, <2>1, <3>2 DEF DeployDicts
        <4> QED
          BY <1>5, <1>13, <1>15, <3>2, <4>1 DEF ResourcesSaid, Under, Get
      <3> QED
        BY <3>1, <3>2
    <2>3. resources # Null => h1[r] = doc.heap[r] /\ r = resources.ref
      BY <1>16, <2>1 DEF r
    <2>4. whole <=> Truthy(doc.heap, ResourcesSaid(at))
      BY <2>2, <2>3 DEF Truthy
    <2>5. \A sec, k : BuiltIn(result', sec, k) =
            IF sec \in DOMAIN made THEN AmountOf(made[sec], k) ELSE Null
      <3>1. ~kept => DOMAIN made = {}
        OBVIOUS
      <3> HIDE DEF kept, made
      <3>2. CASE kept
        <4>1. result' = result @@ ("resources" :> made)
          BY <1>1, <3>2
        <4>2. "resources" \in DOMAIN result' /\ result'["resources"] = made
          BY <1>6, <4>1, ItemAdded
        <4> QED
          BY <4>2 DEF BuiltIn, AmountOf
      <3>3. CASE ~kept
        BY <1>1, <1>6, <3>1, <3>3 DEF BuiltIn
      <3> QED
        BY <3>2, <3>3
    <2>6. CASE whole
      <3>1. resources # Null /\ IsDict(resources)
        BY <1>16, <2>6 DEF Truthy
      <3>2. AmountNames(at) = AmountKeys
        BY <2>4, <2>6 DEF AmountNames, AmountKeys
      <3>3. Own(at, "limits") = lv /\ Own(at, "requests") = sv
        BY <2>2, <2>3, <2>4, <2>6, <3>1 DEF Own, Under, Get
      <3>4. ASSUME NEW w, w \in {lv, sv}
            PROVE  /\ Truthy(h1, w) <=> Truthy(doc.heap, w)
                   /\ w = Null \/ (IsDict(w) /\ h1[w.ref] = doc.heap[w.ref])
        <4>1. w = Null \/ (IsDict(w) /\ h1[w.ref] = doc.heap[w.ref])
          BY <1>17, <2>1, <3>1, <3>4
        <4> QED
          BY <4>1 DEF Truthy
      <3>5. ASSUME NEW w \in {lv, sv}, NEW k
            PROVE  /\ Truthy(h1, w) => AmountOf(Amounts(h1, w.ref, AmountKeys), k) =
                        IF k \in DOMAIN AmountKeys THEN AmountSaid(w, k, AmountKeys) ELSE Null
                   /\ ~Truthy(h1, w) => AmountSaid(w, k, AmountKeys) = Null
        <4>1. /\ Truthy(h1, w) <=> Truthy(doc.heap, w)
              /\ w = Null \/ (IsDict(w) /\ h1[w.ref] = doc.heap[w.ref])
          BY <3>4
        <4> HIDE DEF lv, sv
        <4>2. ASSUME Truthy(h1, w)
              PROVE  AmountOf(Amounts(h1, w.ref, AmountKeys), k) =
                       IF k \in DOMAIN AmountKeys THEN AmountSaid(w, k, AmountKeys) ELSE Null
          <5>1. IsDict(w) /\ h1[w.ref] = doc.heap[w.ref]
            BY <4>1, <4>2 DEF Truthy
          <5>2. \A x \in DOMAIN AmountKeys :
                  Get(h1, w.ref, AmountKeys[x]) = Get(doc.heap, w.ref, AmountKeys[x])
            BY <5>1 DEF Get
          <5> QED
            BY <5>1, <5>2, AmountsAreSaid
        <4>3. ASSUME ~Truthy(h1, w)
              PROVE  AmountSaid(w, k, AmountKeys) = Null
          <5>1. w = Null \/ DOMAIN doc.heap[w.ref] = {}
            BY <4>1, <4>3 DEF Truthy
          <5>2. \A x : Under(w, x) = Null
            BY <5>1 DEF Under, Get
          <5> QED
            BY <5>2 DEF AmountSaid
        <4> QED
          BY <4>2, <4>3
      <3>6. ASSUME NEW sec \in Sections, NEW k \in ResourceNames
            PROVE  BuiltIn(result', sec, k) = Derived(at, sec, k)
        <4> DEFINE from == IF sec = "requests" /\ Truthy(h1, sv) THEN sv ELSE lv
        <4>1. Derived(at, sec, k) =
                IF k \in DOMAIN AmountKeys THEN AmountSaid(from, k, AmountKeys) ELSE Null
          <5>1. Truthy(doc.heap, Own(at, "requests")) <=> Truthy(h1, sv)
            BY <3>3, <3>4
          <5> QED
            BY <3>2, <3>3, <5>1 DEF Derived
        <4>2. from \in {lv, sv}
          OBVIOUS
        <4>3. /\ sec \in DOMAIN made <=> Truthy(h1, from)
              /\ Truthy(h1, from) => made[sec] = Amounts(h1, from.ref, AmountKeys)
          <5> HIDE DEF lv, sv, made, built
          <5>1. CASE sec = "limits"
            BY <1>18, <2>6, <5>1
          <5>2. CASE sec = "requests" /\ Truthy(h1, sv)
            BY <1>18, <2>6, <5>2
          <5>3. CASE sec = "requests" /\ ~Truthy(h1, sv)
            BY <1>18, <2>6, <5>3
          <5> QED
            BY <5>1, <5>2, <5>3 DEF Sections
        <4> HIDE DEF from, lv, sv, made
        <4> QED
          BY <2>5, <3>5, <4>1, <4>2, <4>3
      <3> QED
        BY <3>6 DEF GivenDerived
    <2>7. CASE ~whole
      <3> DEFINE self == doc.heap[ServicesCell][doc.order[at]]
      <3>1. AmountNames(at) = ShortKeys
        BY <2>4, <2>7 DEF AmountNames, ShortKeys
      <3>2. Own(at, "limits") = self /\ Own(at, "requests") = Null
        BY <2>4, <2>7 DEF Own
      <3>3. IsDict(self) /\ self.ref = src
        BY <1>3 DEF Readable, ServiceCell
      <3>4. \A sec, k : Derived(at, sec, k) =
              IF k \in DOMAIN ShortKeys THEN AmountSaid(self, k, ShortKeys) ELSE Null
        <4>1. ~Truthy(doc.heap, Own(at, "requests"))
          BY <3>2 DEF Truthy
        <4> QED
          BY <3>1, <3>2, <4>1 DEF Derived
      <3>5. /\ DOMAIN ShortKeys = {"cpu", "memory"} /\ Range(ShortKeys) = {"cpus", "mem_limit"}
            /\ \A k \in DOMAIN ShortKeys : ShortKeys[k] \in {"cpus", "mem_limit"}
        <4>1. /\ DOMAIN ShortKeys = {"cpu", "memory"}
              /\ ShortKeys["cpu"] = "cpus" /\ ShortKeys["memory"] = "mem_limit"
          BY DEF ShortKeys
        <4> QED
          BY <4>1 DEF Range
      <3>6. \A k \in DOMAIN ShortKeys :
              Get(heap, src, ShortKeys[k]) = Get(doc.heap, self.ref, ShortKeys[k])
        BY <1>5, <3>5 DEF Said
      <3> HIDE DEF self
      <3>7. \A k : AmountOf(Amounts(heap, src, ShortKeys), k) =
              IF k \in DOMAIN ShortKeys THEN AmountSaid(self, k, ShortKeys) ELSE Null
        BY <3>3, <3>6, AmountsAreSaid
      <3>8. built.val = amounts /\ mem = "ok"
        BY <1>1, <2>7 DEF Ret
      <3>9. CASE \A k \in Range(ShortKeys) : ~Declared(k)
        <4>1. DOMAIN made = {}
          <5>1. built.val = <<>>
            BY <3>8, <3>9
          <5> HIDE DEF built
          <5> QED
            BY <5>1 DEF _set_requests_to_limits_if_unset
        <4>2. DOMAIN Amounts(heap, src, ShortKeys) = {}
          BY <3>5, <3>9 DEF Amounts, Declared
        <4>3. \A sec, k : Derived(at, sec, k) = Null
          BY <3>4, <3>7, <4>2 DEF AmountOf
        <4> HIDE DEF made
        <4> QED
          BY <2>5, <4>1, <4>3 DEF GivenDerived
      <3>10. CASE ~(\A k \in Range(ShortKeys) : ~Declared(k))
        <4> DEFINE short == Amounts(heap, src, ShortKeys)
        <4>1. built.val = "limits" :> short
          BY <3>8, <3>10
        <4> HIDE DEF short
        <4>2. \A sec \in Sections : sec \in DOMAIN made /\ made[sec] = short
          <5> HIDE DEF built
          <5>1. /\ DOMAIN built.val = {"limits"} /\ built.val["limits"] = short
            BY <4>1 DEF :>
          <5> QED
            BY <5>1 DEF _set_requests_to_limits_if_unset, Sections, :>, @@
        <4> HIDE DEF made
        <4> QED
          BY <2>5, <3>4, <3>7, <4>2 DEF GivenDerived, short
      <3> QED
        BY <3>9, <3>10
    <2> QED
      BY <2>6, <2>7
  <1> QED
    BY <1>21, <1>22

\* A service that is done has been given what it asks for, and the next one, if
\* any, finds its dict as it was loaded.
LEMMA ServiceDoneDeclared ==
    ASSUME NamesInv, DroppedInv, DeclaredInv, Separate(doc), Readable(doc), ServiceDone,
           at' = at + 1
    PROVE  DeclaredInv'
  <1> DEFINE name == OutputName(doc.order[at])
  <1>1. /\ stage = "leftover" /\ UNCHANGED <<doc, heap>> /\ result' = <<>>
        /\ out' = [out EXCEPT !.services = (name :> result) @@ @]
        /\ stage' = IF LastService THEN "volumes" ELSE "plain"
        /\ at \in Nat
    <2>1. at \in Nat
      BY DocumentOrder DEF NamesInv
    <2>2. at' # at
      BY <2>1
    <2> QED
      BY <2>1, <2>2 DEF ServiceDone, In, Raise
  <1>2. stage \in ServiceStages
    BY <1>1 DEF ServiceStages
  <1>3. /\ doc.order \in Seq(STRING) /\ at \in DOMAIN doc.order /\ Held(doc, heap, at, result)
    BY <1>2, CurrentService
  <1>4. /\ Frame(doc, heap, at, "leftover")
        /\ ~Aliased(at) => Given(at, "leftover", result)
    BY <1>1, <1>2 DEF DeclaredInv
  <1>5. /\ \A i, s, r : Given(i, s, r)' <=> Given(i, s, r)
        /\ \A i : Aliased(i)' <=> Aliased(i)
    BY <1>1, DeclarationsStay
  <1>6. out'.services = (name :> result) @@ out.services /\ DOMAIN out' = DOMAIN out
    BY <1>1 DEF NamesInv
  <1>7. \A i : Converted(i)' = out'.services[OutputName(doc.order[i])]
    BY <1>1 DEF Converted, OutputName
  <1>8. ASSUME NEW i \in 1 .. at' - 1, ~Aliased(i)
        PROVE  Given(i, "leftover", Converted(i)')
    <2>1. CASE i = at
      <3>1. Converted(i)' = result
        BY <1>6, <1>7, <2>1 DEF :>, @@
      <3> QED
        BY <1>4, <1>8, <2>1, <3>1
    <2>2. CASE i # at
      <3>1. i \in 1 .. at - 1 /\ i \in DOMAIN doc.order
        BY <1>1, <1>3, <1>8, <2>2
      <3>2. OutputName(doc.order[i]) # name
        BY <1>3, <2>2, <3>1, NamesApart
      <3>3. OutputName(doc.order[i]) \in DOMAIN out.services
        BY <3>1 DEF NamesInv
      <3>4. Converted(i)' = Converted(i)
        BY <1>6, <1>7, <3>2, <3>3 DEF :>, @@, Converted
      <3> QED
        BY <1>8, <3>1, <3>4 DEF DeclaredInv
    <2> QED
      BY <2>1, <2>2
  <1>9. (\A i \in 1 .. at - 1 : ~Aliased(i) => Given(i, "leftover", Converted(i)))'
    BY <1>1, <1>5, <1>8
  <1>10. "volumes" \in DOMAIN out'
    BY <1>6 DEF DeclaredInv
  <1>11. CASE LastService
    <2>1. stage' = "volumes" /\ stage' \notin ServiceStages
      BY <1>1, <1>11 DEF ServiceStages
    <2>2. \A c \in {TopCell} \cup Inside(doc, {TopCell}, {"volumes"}) : heap[c] = doc.heap[c]
      BY <1>2, ReadFresh DEF DeclaredInv
    <2>3. (\A c \in {TopCell} \cup Inside(doc, {TopCell}, {"volumes"}) : heap[c] = doc.heap[c])'
      BY <1>1, <2>2
    <2> QED
      BY <1>9, <1>10, <2>1, <2>3 DEF DeclaredInv
  <1>12. CASE ~LastService
    <2>1. stage' = "plain" /\ stage' \notin TopStages /\ stage' # "volumes"
      BY <1>1, <1>12 DEF TopStages
    <2>2. at' \in DOMAIN doc.order /\ at' > at
      BY <1>1, <1>3, <1>12 DEF LastService
    <2>3. Frame(doc, heap, at', "plain")
      <3> SUFFICES ASSUME NEW c \in DOMAIN doc.heap, heap[c] # doc.heap[c]
                   PROVE  \/ \E j \in 1 .. at' : c = ServiceCell(doc, j)
                          \/ \E j \in 1 .. at' - 1 : c \in Nested(doc, j)
        BY DEF Frame
      <3>1. \/ \E j \in 1 .. at : c = ServiceCell(doc, j)
            \/ \E j \in 1 .. at - 1 : c \in Nested(doc, j)
            \/ c \in Nested(doc, at)
        BY <1>4 DEF Frame, Taken, Nested
      <3>2. /\ \A j \in 1 .. at : j \in 1 .. at'
            /\ \A j \in 1 .. at - 1 : j \in 1 .. at' - 1
            /\ at \in 1 .. at' - 1
        BY <1>1, <1>3
      <3> QED
        BY <3>1, <3>2
    <2>4. KeysLeft(doc, heap, at', "plain")
      <3>1. Untouched(doc, heap, at')
        BY <1>3, <2>2 DEF Held
      <3> QED
        BY <3>1 DEF KeysLeft, Untouched
    <2>5. Coming(stage') \cap DOMAIN result' = {}
      BY <1>1
    <2>6. Given(at', "plain", result')
      BY DEF Given, BeforeHealth, BeforeDeploy, BeforeNetwork
    <2>7. (/\ Frame(doc, heap, at, stage) /\ KeysLeft(doc, heap, at, stage)
           /\ Coming(stage) \cap DOMAIN result = {} /\ Given(at, stage, result))'
      BY <1>1, <1>5, <2>1, <2>3, <2>4, <2>5, <2>6
    <2> QED
      BY <1>9, <1>10, <2>1, <2>7 DEF DeclaredInv
  <1> QED
    BY <1>11, <1>12

\* A step of the top level that leaves the services as they are.
LEMMA TopDeclared ==
    ASSUME DeclaredInv, UNCHANGED <<doc, at>>, out'.services = out.services,
           "volumes" \in DOMAIN out', stage' \in TopStages \ {"volumes"},
           out'.volumes = VolumeNames
    PROVE  DeclaredInv'
  <1>1. /\ \A i, s, r : Given(i, s, r)' <=> Given(i, s, r)
        /\ \A i : Aliased(i)' <=> Aliased(i)
        /\ VolumeNames' = VolumeNames
    BY DeclarationsStay
  <1>2. \A i : Converted(i)' = Converted(i)
    BY DEF Converted, OutputName
  <1>3. (\A i \in 1 .. at - 1 : ~Aliased(i) => Given(i, "leftover", Converted(i)))'
    BY <1>1, <1>2 DEF DeclaredInv
  <1>4. stage' \notin ServiceStages /\ stage' # "volumes"
    BY DEF ServiceStages, TopStages
  <1> QED
    BY <1>1, <1>3, <1>4 DEF DeclaredInv

\* A step that only ends the conversion.
LEMMA DeclaredKept ==
    ASSUME DeclaredInv, UNCHANGED <<doc, heap, at, stage, result, out>>
    PROVE  DeclaredInv'
  <1>1. /\ \A i, s, r : Given(i, s, r)' <=> Given(i, s, r)
        /\ \A i : Aliased(i)' <=> Aliased(i)
        /\ VolumeNames' = VolumeNames
    BY DeclarationsStay
  <1>2. \A i : Converted(i)' = Converted(i)
    BY DEF Converted, OutputName
  <1>3. (\A i \in 1 .. at - 1 : ~Aliased(i) => Given(i, "leftover", Converted(i)))'
    BY <1>1, <1>2 DEF DeclaredInv
  <1>4. (stage \in ServiceStages =>
           /\ Frame(doc, heap, at, stage)
           /\ KeysLeft(doc, heap, at, stage)
           /\ Coming(stage) \cap DOMAIN result = {}
           /\ ~Aliased(at) => Given(at, stage, result))'
    BY <1>1 DEF DeclaredInv
  <1>5. (/\ "volumes" \in DOMAIN out
         /\ stage = "volumes" => \A c \in {TopCell} \cup Inside(doc, {TopCell}, {"volumes"}) :
                                   heap[c] = doc.heap[c]
         /\ stage \in TopStages \ {"volumes"} => out.volumes = VolumeNames)'
    BY <1>1 DEF DeclaredInv
  <1> QED
    BY <1>3, <1>4, <1>5 DEF DeclaredInv

\* The declared volumes, as the stage of the volumes finds them.
LEMMA VolumesDeclared ==
    ASSUME DeclaredInv, Readable(doc), stage = "volumes"
    PROVE  {_make_volume_name_k8s_compliant(n) : n \in DOMAIN Entries("volumes")} = VolumeNames
  <1> DEFINE v == Get(doc.heap, TopCell, "volumes")
  <1>1. \A c \in {TopCell} \cup Inside(doc, {TopCell}, {"volumes"}) : heap[c] = doc.heap[c]
    BY DEF DeclaredInv
  <1>2. Get(heap, TopCell, "volumes") = v
    BY <1>1 DEF Get
  <1>3. v # Null => heap[v.ref] = doc.heap[v.ref]
    <2> SUFFICES ASSUME v # Null
                 PROVE  heap[v.ref] = doc.heap[v.ref]
      OBVIOUS
    <2>1. "volumes" \in DOMAIN doc.heap[TopCell] /\ v = doc.heap[TopCell]["volumes"] /\ IsDict(v)
      BY DEF Readable, Get
    <2>2. v.ref \in Inside(doc, {TopCell}, {"volumes"})
      BY <2>1, InsideMember
    <2> QED
      BY <1>1, <2>2
  <1>4. Entries("volumes") = IF v = Null THEN <<>> ELSE doc.heap[v.ref]
    BY <1>2, <1>3 DEF Entries
  <1> QED
    BY <1>4 DEF VolumeNames

\* Every step keeps DeclaredInv.
LEMMA DeclaredInvStep ==
    ASSUME NamesInv, DroppedInv, DeclaredInv, Separate(doc), Readable(doc), [Next]_vars
    PROVE  DeclaredInv'
  <1>1. ASSUME NEW e, Raise(e)
        PROVE  DeclaredInv'
    BY <1>1, DeclaredKept DEF Raise
  <1>2. CASE NoServices
    BY <1>1, <1>2 DEF NoServices
  <1>3. CASE Plain
    <2>1. \/ Raise("error")
          \/ status' = "running" /\ stage' = "healthcheck" /\ UNCHANGED <<doc, at, out>>
      BY <1>3 DEF Plain, Goto, In
    <2> QED
      BY <1>1, <1>3, <2>1, PlainDeclared
  <1>4. CASE _healthcheck_to_readiness_probe
    <2>1. \/ Raise("error") \/ Raise("crash")
          \/ status' = "running" /\ stage' = "deploy" /\ UNCHANGED <<doc, at, out>>
      BY <1>4 DEF _healthcheck_to_readiness_probe, Goto, In
    <2> QED
      BY <1>1, <1>4, <2>1, HealthDeclared
  <1>5. CASE _convert_deploy
    <2>1. \/ \E e : Raise(e)
          \/ stage' = "security" /\ UNCHANGED <<doc, at, out>>
      BY <1>5 DEF _convert_deploy, Goto
    <2> QED
      BY <1>1, <1>5, <2>1, DeployDeclared
  <1>6. CASE Security
    <2>1. \/ Raise("error")
          \/ status' = "running" /\ stage' = "network" /\ UNCHANGED <<doc, at, out>>
      BY <1>6 DEF Security, Goto, In
    <2> QED
      BY <1>1, <1>6, <2>1, SecurityDeclared
  <1>7. CASE Network
    <2>1. \/ Raise("error")
          \/ status' = "running" /\ stage' = "hostname" /\ UNCHANGED <<doc, at, out>>
      BY <1>7 DEF Network, Goto, In
    <2> QED
      BY <1>1, <1>7, <2>1, NetworkDeclared
  <1>8. CASE Hostname
    <2>1. \/ Raise("error")
          \/ status' = "running" /\ stage' = "extension" /\ UNCHANGED <<doc, at, out>>
      BY <1>8 DEF Hostname, Goto, In
    <2> QED
      BY <1>1, <1>8, <2>1, HostnameDeclared
  <1>9. CASE _apply_service_extensions
    <2>1. \/ Raise("error")
          \/ status' = "running" /\ stage' = "leftover" /\ UNCHANGED <<doc, at, out>>
      BY <1>9 DEF _apply_service_extensions, Goto, In
    <2> QED
      BY <1>1, <1>9, <2>1, ExtensionDeclared
  <1>10. CASE ServiceDone
    BY <1>1, <1>10, ServiceDoneDeclared DEF ServiceDone
  <1>11. CASE _convert_volumes
    <2> DEFINE names == {_make_volume_name_k8s_compliant(n) : n \in DOMAIN Entries("volumes")}
    <2>1. \/ Raise("error")
          \/ /\ stage = "volumes" /\ stage' = "networks" /\ UNCHANGED <<doc, at>>
             /\ out' = [out EXCEPT !.volumes = names]
      BY <1>11 DEF _convert_volumes, GotoTop, In
    <2>2. stage = "volumes" => names = VolumeNames
      BY VolumesDeclared
    <2> HIDE DEF names
    <2>3. CASE /\ stage = "volumes" /\ stage' = "networks" /\ UNCHANGED <<doc, at>>
               /\ out' = [out EXCEPT !.volumes = names]
      <3>1. out'.volumes = VolumeNames /\ out'.services = out.services /\ "volumes" \in DOMAIN out'
        BY <2>2, <2>3 DEF NamesInv, DeclaredInv
      <3> QED
        BY <2>3, <3>1, TopDeclared DEF TopStages
    <2> QED
      BY <1>1, <2>1, <2>3
  <1>12. CASE _convert_networks
    <2>1. \/ Raise("error")
          \/ /\ stage = "networks" /\ stage' = "extensions" /\ UNCHANGED <<doc, at>>
             /\ \E x : out' = [out EXCEPT !.networks = x]
      BY <1>12 DEF _convert_networks, GotoTop, In
    <2>2. ASSUME stage = "networks", \E x : out' = [out EXCEPT !.networks = x]
          PROVE  /\ out'.volumes = VolumeNames /\ out'.services = out.services
                 /\ "volumes" \in DOMAIN out'
      BY <2>2 DEF NamesInv, DeclaredInv, TopStages
    <2> QED
      BY <1>1, <2>1, <2>2, TopDeclared DEF TopStages
  <1>13. CASE _convert_extensions
    <2>1. \/ Raise("error") \/ Raise("crash")
          \/ /\ stage = "extensions" /\ stage' = "top" /\ UNCHANGED <<doc, at>>
             /\ out' = out \/ \E x : out' = [out EXCEPT !.ext = x]
      BY <1>13 DEF _convert_extensions, GotoTop, In
    <2>2. ASSUME stage = "extensions", out' = out \/ \E x : out' = [out EXCEPT !.ext = x]
          PROVE  /\ out'.volumes = VolumeNames /\ out'.services = out.services
                 /\ "volumes" \in DOMAIN out'
      BY <2>2 DEF NamesInv, DeclaredInv, TopStages
    <2> QED
      BY <1>1, <2>1, <2>2, TopDeclared DEF TopStages
  <1>14. CASE TopDone
    BY <1>14, DeclaredKept DEF TopDone
  <1>15. CASE Ended \/ UNCHANGED vars
    BY <1>15, DeclaredKept DEF Ended, vars
  <1> QED
    BY <1>2, <1>3, <1>4, <1>5, <1>6, <1>7, <1>8, <1>9, <1>10, <1>11, <1>12, <1>13, <1>14,
       <1>15 DEF Next

\* DeclaredInv holds of every document just loaded.
LEMMA DeclaredInvInit ==
    ASSUME Init
    PROVE  DeclaredInv
  <1>1. heap = doc.heap /\ at = 1 /\ result = <<>> /\ "volumes" \in DOMAIN out
        /\ stage \in {"plain", "noServices", "volumes"}
    BY DEF Init, FirstStage
  <1>2. Frame(doc, heap, at, stage) /\ KeysLeft(doc, heap, at, stage)
    BY <1>1 DEF Frame, KeysLeft
  <1>3. stage \in ServiceStages => stage = "plain"
    BY <1>1 DEF ServiceStages
  <1>4. \A i, r : Given(i, "plain", r)
    BY DEF Given, BeforeHealth, BeforeDeploy, BeforeNetwork
  <1>5. 1 .. at - 1 = {} /\ Coming(stage) \cap DOMAIN result = {}
    BY <1>1
  <1>6. stage \notin TopStages \ {"volumes"}
    BY <1>1 DEF TopStages
  <1> QED
    BY <1>1, <1>2, <1>3, <1>4, <1>5, <1>6 DEF DeclaredInv

\* The invariants are enough for ConvertedAsDeclared.
LEMMA DeclaredImplies ==
    ASSUME NamesInv, DeclaredInv
    PROVE  ConvertedAsDeclared
  <1> SUFFICES ASSUME status = "done", NEW i \in DOMAIN doc.order, ~Aliased(i)
               PROVE  /\ ResourcesAsDeclared(i) /\ ProbeAsDeclared(i) /\ MountsResolve(i)
                      /\ ("networkIsolated" \in DOMAIN Converted(i))
                           <=> (Said(i, "network_mode") = [v |-> "none"])
    BY DEF ConvertedAsDeclared
  <1>1. Given(i, "leftover", Converted(i))
    <2>1. i \in 1 .. at - 1
      BY DocumentOrder DEF NamesInv, TopStages
    <2> QED
      BY <2>1 DEF DeclaredInv
  <1>2. /\ GivenMounts(i, Converted(i)) /\ GivenProbe(i, Converted(i))
        /\ GivenIsolation(i, Converted(i)) /\ GivenResources(i, Converted(i))
    BY <1>1 DEF Given, BeforeHealth, BeforeDeploy, BeforeNetwork
  <1>3. ResourcesAsDeclared(i)
    <2>1. \A sec, k : Built(i, sec, k) = BuiltIn(Converted(i), sec, k)
      BY DEF Built, BuiltIn
    <2> QED
      BY <1>2, <2>1 DEF ResourcesAsDeclared, GivenResources, Sections, ResourceNames
  <1>4. ProbeAsDeclared(i)
    BY <1>2 DEF ProbeAsDeclared, GivenProbe
  <1>5. MountsResolve(i)
    <2> DEFINE said == Said(i, "volumes")
               declared == Under([ref |-> TopCell], "volumes")
    <2>1. declared = Get(doc.heap, TopCell, "volumes")
      <3>1. IsDict([ref |-> TopCell]) /\ [ref |-> TopCell].ref = TopCell
        BY DEF IsDict
      <3> QED
        BY <3>1, ReferenceNotNull DEF Under
    <2>2. out.volumes = VolumeNames
      BY DEF NamesInv, DeclaredInv, TopStages
    <2> SUFFICES ASSUME said # Null, declared # Null, NEW m \in said.mounts,
                        m[1] \in DOMAIN doc.heap[declared.ref]
                 PROVE  \E w \in Converted(i)["volumes"] : w[2] = m[2] /\ w[1] \in out.volumes
      BY DEF MountsResolve
    <2> DEFINE w == <<_make_volume_name_k8s_compliant(m[1]), m[2]>>
    <2>3. w \in Converted(i)["volumes"]
      BY <1>2 DEF GivenMounts, Mounts
    <2>4. w[1] \in out.volumes
      BY <2>1, <2>2 DEF VolumeNames
    <2> QED
      BY <2>3, <2>4
  <1> QED
    BY <1>2, <1>3, <1>4, <1>5 DEF GivenIsolation

\* What a service is given is what its own keys ask for (ServiceConverter and its
\* helpers), whatever was taken out of the document for the services before it,
\* unless it shares a dict with one of them: for any number of services and any
\* documents that are Separate and Readable.
THEOREM ConvertedAsDeclaredHolds ==
    ASSUME \A file \in Files : Separate(Load(file)) /\ Readable(Load(file))
    PROVE  Spec => []ConvertedAsDeclared
  <1> DEFINE IInv == NamesInv /\ DroppedInv /\ DeclaredInv
  <1>1. NamesInv => Separate(doc) /\ Readable(doc)
    BY DEF NamesInv
  <1>2. Init => IInv
    BY NamesInvInit, DroppedInvInit, DeclaredInvInit
  <1>3. IInv /\ [Next]_vars => IInv'
    BY <1>1, NamesInvStep, DroppedInvStep, DeclaredInvStep
  <1>4. IInv => ConvertedAsDeclared
    BY DeclaredImplies
  <1> HIDE DEF IInv
  <1> QED
    BY <1>2, <1>3, <1>4, PTL DEF Spec

-----------------------------------------------------------------------------
(* FlattenSeq and what _helm_escape makes of a text.                        *)

Chars == STRING \cup {Backslash, Comma, Dot, Equals}

Texts == Seq(Chars)

\* The four characters are different.
LEMMA Characters ==
    /\ Backslash \in Chars /\ Comma \in Chars /\ Dot \in Chars /\ Equals \in Chars
    /\ Backslash # Comma /\ Backslash # Dot /\ Backslash # Equals
    /\ Comma # Dot /\ Comma # Equals /\ Dot # Equals
  <1>1. Backslash \in Chars /\ Comma \in Chars /\ Dot \in Chars /\ Equals \in Chars
    BY DEF Chars
  <1>2. Backslash # Comma /\ Backslash # Dot /\ Backslash # Equals
    BY Zenon DEF Backslash, Comma, Dot, Equals
  <1>3. Comma # Dot /\ Comma # Equals /\ Dot # Equals
    BY Zenon DEF Comma, Dot, Equals
  <1> QED
    BY <1>1, <1>2, <1>3

\* f holds the concatenations of the first m members of s.
Flattens(f, s, m) == f = [i \in 1 .. m |-> IF i = 1 THEN s[i] ELSE f[i - 1] \o s[i]]

\* There is such a function, for every n.
LEMMA FlattensExists ==
    ASSUME NEW s, NEW n \in Nat
    PROVE  \E f : Flattens(f, s, n)
  <1> DEFINE S == {m \in Nat : ~\E f : Flattens(f, s, m)}
  <1> SUFFICES ASSUME S # {}
               PROVE  FALSE
    OBVIOUS
  <1>1. PICK m \in S : \A k \in S : m <= k
    BY LeastNatural
  <1>2. m \in Nat /\ ~\E f : Flattens(f, s, m)
    OBVIOUS
  <1>3. m # 0
    <2>1. Flattens([i \in 1 .. 0 |-> <<>>], s, 0)
      BY DEF Flattens
    <2> QED
      BY <1>2, <2>1
  <1>4. m - 1 \in Nat /\ m - 1 \notin S
    BY <1>1, <1>2, <1>3
  <1>5. PICK f : Flattens(f, s, m - 1)
    BY <1>4
  <1> HIDE DEF S
  <1> DEFINE last == IF m = 1 THEN s[1] ELSE f[m - 1] \o s[m]
             g == [i \in 1 .. m |-> IF i < m THEN f[i] ELSE last]
  <1>6. \A i \in 1 .. m : g[i] = IF i = 1 THEN s[i] ELSE g[i - 1] \o s[i]
    <2> SUFFICES ASSUME NEW i \in 1 .. m
                 PROVE  g[i] = IF i = 1 THEN s[i] ELSE g[i - 1] \o s[i]
      OBVIOUS
    <2>1. CASE i = m
      BY <1>2, <1>3, <2>1
    <2>2. CASE i < m
      <3>1. i \in 1 .. m - 1 /\ g[i] = f[i]
        BY <1>2, <2>2
      <3>2. f[i] = IF i = 1 THEN s[i] ELSE f[i - 1] \o s[i]
        BY <1>5, <3>1 DEF Flattens
      <3>3. i # 1 => g[i - 1] = f[i - 1]
        BY <1>2, <2>2
      <3> QED
        BY <3>1, <3>2, <3>3
    <2> QED
      BY <1>2, <2>1, <2>2
  <1>7. g = [i \in 1 .. m |-> g[i]]
    OBVIOUS
  <1> HIDE DEF g
  <1>8. Flattens(g, s, m)
    BY <1>6, <1>7 DEF Flattens
  <1> QED
    BY <1>2, <1>8

\* What it holds at i.
LEMMA FlattensAt ==
    ASSUME NEW s, NEW n \in Nat, NEW f, Flattens(f, s, n), NEW i \in 1 .. n
    PROVE  f[i] = IF i = 1 THEN s[i] ELSE f[i - 1] \o s[i]
  <1> DEFINE e(j) == IF j = 1 THEN s[j] ELSE f[j - 1] \o s[j]
             g == [j \in 1 .. n |-> e(j)]
  <1>1. f = g
    BY DEF Flattens
  <1>2. g[i] = e(i)
    OBVIOUS
  <1> HIDE DEF e, g
  <1>3. f[i] = e(i)
    BY <1>1, <1>2
  <1> QED
    BY <1>3 DEF e

Agree(s, q, n) == \A i \in 1 .. n : s[i] = q[i]

\* It does not depend on what follows.
LEMMA FlattensAgree ==
    ASSUME NEW s, NEW q, NEW n \in Nat, NEW m \in Nat, n <= m, NEW f, NEW g,
           Flattens(f, s, n), Flattens(g, q, m), Agree(s, q, n)
    PROVE  Agree(f, g, n)
  <1> DEFINE S == {i \in 1 .. n : f[i] # g[i]}
  <1> SUFFICES ASSUME S # {}
               PROVE  FALSE
    BY DEF Agree
  <1>1. S \in SUBSET Nat
    OBVIOUS
  <1>2. PICK i \in S : \A k \in S : i <= k
    BY <1>1, LeastNatural
  <1>3. i \in 1 .. n /\ i \in 1 .. m
    OBVIOUS
  <1>4. /\ f[i] = IF i = 1 THEN s[i] ELSE f[i - 1] \o s[i]
        /\ g[i] = IF i = 1 THEN q[i] ELSE g[i - 1] \o q[i]
    BY <1>3, FlattensAt
  <1>5. i # 1 => i - 1 \in 1 .. n /\ i - 1 \notin S
    BY <1>2, <1>3
  <1> QED
    BY <1>3, <1>4, <1>5 DEF Agree

\* FlattenSeq is the last value of such a function.
LEMMA FlattenSeqIs ==
    ASSUME NEW s, Len(s) \in Nat, Len(s) # 0
    PROVE  \E f : Flattens(f, s, Len(s)) /\ Seqs!FlattenSeq(s) = f[Len(s)]
  <1> DEFINE f == CHOOSE f : Flattens(f, s, Len(s))
  <1>1. Seqs!FlattenSeq(s) = f[Len(s)]
    BY DEF Seqs!FlattenSeq, Flattens
  <1>2. \E g : Flattens(g, s, Len(s))
    BY FlattensExists
  <1>3. Flattens(f, s, Len(s))
    BY <1>2
  <1> HIDE DEF f
  <1> QED
    BY <1>1, <1>3

\* FlattenSeq of one member more.
LEMMA FlattenSeqNext ==
    ASSUME NEW s \in Seq(Texts), NEW q \in Seq(Texts), Len(q) = Len(s) + 1,
           \A i \in 1 .. Len(s) : s[i] = q[i], Seqs!FlattenSeq(s) \in Texts
    PROVE  /\ Seqs!FlattenSeq(q) = Seqs!FlattenSeq(s) \o q[Len(q)]
           /\ Seqs!FlattenSeq(q) \in Texts
  <1>1. Len(s) \in Nat /\ Len(q) \in Nat /\ Len(q) # 0 /\ Len(s) <= Len(q)
    OBVIOUS
  <1>a. q[Len(q)] \in Texts
    OBVIOUS
  <1>2. PICK g : Flattens(g, q, Len(q)) /\ Seqs!FlattenSeq(q) = g[Len(q)]
    BY <1>1, FlattenSeqIs
  <1>3. g[Len(q)] = IF Len(q) = 1 THEN q[Len(q)] ELSE g[Len(q) - 1] \o q[Len(q)]
    BY <1>1, <1>2, FlattensAt
  <1>4. Seqs!FlattenSeq(q) = Seqs!FlattenSeq(s) \o q[Len(q)]
    <2>1. CASE Len(s) = 0
      <3>1. Seqs!FlattenSeq(s) = <<>>
        BY <2>1 DEF Seqs!FlattenSeq
      <3>2. g[Len(q)] = q[Len(q)]
        BY <1>1, <1>3, <2>1
      <3> QED
        BY <1>2, <1>a, <3>1, <3>2 DEF Texts
    <2>2. CASE Len(s) # 0
      <3>1. PICK f : Flattens(f, s, Len(s)) /\ Seqs!FlattenSeq(s) = f[Len(s)]
        BY <1>1, <2>2, FlattenSeqIs
      <3>2. Flattens(g, q, Len(q))
        BY <1>2
      <3>3. Flattens(f, s, Len(s))
        BY <3>1
      <3>4. \A i \in 1 .. Len(s) : f[i] = g[i]
        <4> DEFINE n == Len(s)
                   m == Len(q)
        <4>1. n \in Nat /\ m \in Nat /\ n <= m
          BY <1>1
        <4>2. Flattens(f, s, n) /\ Flattens(g, q, m)
          BY <3>2, <3>3
        <4>3. Agree(s, q, n)
          BY DEF Agree
        <4> HIDE DEF n, m
        <4>4. Agree(f, g, n)
          BY <4>1, <4>2, <4>3, FlattensAgree
        <4> QED
          BY <4>4 DEF n, Agree
      <3>5. f[Len(s)] = g[Len(s)] /\ Len(q) - 1 = Len(s) /\ Len(q) # 1
        BY <1>1, <2>2, <3>4
      <3> QED
        BY <1>2, <1>3, <3>1, <3>5
    <2> QED
      BY <2>1, <2>2
  <1>5. \A x, y \in Texts : x \o y \in Texts
    BY DEF Texts
  <1> QED
    BY <1>a, <1>4, <1>5

-----------------------------------------------------------------------------
\* What becomes of one character when c is escaped.
Block(a, c) == IF a = c THEN <<Backslash, c>> ELSE <<a>>

\* The text e and what becomes of a once the characters of S are escaped.
With(e, a, S) == IF a \in S THEN Append(Append(e, Backslash), a) ELSE Append(e, a)

\* The two ways of writing it agree.
LEMMA WithBlock ==
    ASSUME NEW e \in Texts, NEW a \in Chars, NEW c \in Chars, NEW x, x = e \o Block(a, c)
    PROVE  x = With(e, a, {c})
  <1>1. ASSUME NEW S, NEW f \in Seq(S), NEW v \in S, NEW w \in S
        PROVE  f \o <<v, w>> = Append(Append(f, v), w) /\ f \o <<w>> = Append(f, w)
    OBVIOUS
  <1>2. Backslash \in Chars
    BY Characters
  <1>3. e \o <<Backslash, a>> = Append(Append(e, Backslash), a) /\ e \o <<a>> = Append(e, a)
    BY <1>1, <1>2, Zenon DEF Texts
  <1>4. CASE a = c
    <2>1. Block(a, c) = <<Backslash, a>> /\ With(e, a, {c}) = Append(Append(e, Backslash), a)
      BY <1>4 DEF Block, With
    <2> QED
      BY <1>3, <2>1, Zenon
  <1>5. CASE a # c
    <2>1. Block(a, c) = <<a>> /\ With(e, a, {c}) = Append(e, a)
      BY <1>5 DEF Block, With
    <2> QED
      BY <1>3, <2>1, Zenon
  <1> QED
    BY <1>4, <1>5

\* Nothing is made of nothing.
LEMMA EscapedEmpty == ASSUME NEW c PROVE Escaped(<<>>, c) = <<>>
  <1> DEFINE b == [i \in DOMAIN <<>> |-> IF <<>>[i] = c THEN <<Backslash, c>> ELSE <<<<>>[i]>>]
  <1>1. b = <<>>
    OBVIOUS
  <1> HIDE DEF b
  <1>2. Seqs!FlattenSeq(b) = <<>>
    BY <1>1 DEF Seqs!FlattenSeq
  <1> QED
    BY <1>2 DEF Escaped, b

\* Sequences made of members of S.
LEMMA ShortSequences ==
    ASSUME NEW S, NEW x \in S, NEW y \in S, NEW t \in Seq(S)
    PROVE  /\ <<x>> \in Seq(S) /\ <<y, x>> \in Seq(S)
           /\ Append(t, x) \in Seq(S)
  OBVIOUS

\* Escaping one character more, as a concatenation.
LEMMA EscapedAppend ==
    ASSUME NEW t \in Texts, NEW a \in Chars, NEW c \in Chars, Escaped(t, c) \in Texts
    PROVE  /\ Escaped(Append(t, a), c) = Escaped(t, c) \o Block(a, c)
           /\ Escaped(Append(t, a), c) \in Texts
  <1> DEFINE blocks(u) == [i \in DOMAIN u |-> IF u[i] = c THEN <<Backslash, c>> ELSE <<u[i]>>]
             s == blocks(t)
             q == blocks(Append(t, a))
  <1>1. s \in Seq(Texts) /\ q \in Seq(Texts)
    <2>1. ASSUME NEW u \in Texts
          PROVE  blocks(u) \in Seq(Texts)
      <3>1. DOMAIN u = 1 .. Len(u) /\ Len(u) \in Nat /\ \A i \in 1 .. Len(u) : u[i] \in Chars
        BY DEF Texts
      <3>2. \A x \in Chars : <<x>> \in Texts /\ <<Backslash, x>> \in Texts
        BY ShortSequences, Characters DEF Texts
      <3>3. blocks(u) = [i \in 1 .. Len(u) |-> blocks(u)[i]]
        BY <3>1
      <3>4. \A i \in 1 .. Len(u) : blocks(u)[i] \in Texts
        BY <3>1, <3>2
      <3> HIDE DEF blocks
      <3> QED
        BY <3>1, <3>3, <3>4
    <2>2. Append(t, a) \in Texts
      BY ShortSequences DEF Texts
    <2> QED
      BY <2>1, <2>2
  <1>2. Len(s) = Len(t) /\ Len(q) = Len(t) + 1
    BY DEF Texts
  <1>3. \A i \in 1 .. Len(s) : s[i] = q[i]
    BY DEF Texts
  <1>4. q[Len(q)] = Block(a, c)
    BY <1>2 DEF Texts, Block
  <1>5. Seqs!FlattenSeq(s) = Escaped(t, c) /\ Seqs!FlattenSeq(q) = Escaped(Append(t, a), c)
    BY DEF Escaped
  <1> HIDE DEF s, q
  <1> QED
    BY <1>1, <1>2, <1>3, <1>4, <1>5, FlattenSeqNext

\* Escaping one character more.
LEMMA EscapedOne ==
    ASSUME NEW t \in Texts, NEW a \in Chars, NEW c \in Chars, Escaped(t, c) \in Texts
    PROVE  /\ Append(t, a) \in Texts
           /\ Escaped(Append(t, a), c) = With(Escaped(t, c), a, {c})
           /\ Escaped(Append(t, a), c) \in Texts
  <1>1. Append(t, a) \in Texts
    BY DEF Texts
  <1> QED
    BY <1>1, EscapedAppend, WithBlock, Zenon

\* The next pass does not touch what the passes for S have written.
LEMMA EscapedStage ==
    ASSUME NEW S, NEW t \in Texts, NEW a \in Chars, NEW c \in Chars \ S, Backslash # c,
           Escaped(t, c) \in Texts
    PROVE  /\ Escaped(With(t, a, S), c) = With(Escaped(t, c), a, S \cup {c})
           /\ Escaped(With(t, a, S), c) \in Texts
  <1>1. CASE a \in S
    <2> DEFINE u == Append(t, Backslash)
    <2>1. Backslash \in Chars /\ a # c
      BY <1>1, Characters
    <2>2. /\ u \in Texts /\ Escaped(u, c) = With(Escaped(t, c), Backslash, {c})
          /\ Escaped(u, c) \in Texts
      BY <2>1, EscapedOne
    <2> HIDE DEF u
    <2>3. /\ Escaped(Append(u, a), c) = With(Escaped(u, c), a, {c})
          /\ Escaped(Append(u, a), c) \in Texts
      BY <2>2, EscapedOne
    <2> USE DEF u
    <2>4. With(t, a, S) = Append(u, a)
      BY <1>1 DEF With
    <2>5. /\ With(Escaped(t, c), Backslash, {c}) = Append(Escaped(t, c), Backslash)
          /\ With(Escaped(u, c), a, {c}) = Append(Escaped(u, c), a)
      BY <2>1 DEF With
    <2>6. With(Escaped(t, c), a, S \cup {c}) = Append(Append(Escaped(t, c), Backslash), a)
      BY <1>1 DEF With
    <2> QED
      BY <2>2, <2>3, <2>4, <2>5, <2>6
  <1>2. CASE a \notin S
    <2>1. With(t, a, S) = Append(t, a)
      BY <1>2 DEF With
    <2>2. With(Escaped(t, c), a, S \cup {c}) = With(Escaped(t, c), a, {c})
      BY <1>2 DEF With
    <2> QED
      BY <2>1, <2>2, EscapedOne
  <1> QED
    BY <1>1, <1>2

Special == {Backslash, Comma, Dot, Equals}

\* Every pass of _helm_escape makes a text of t.
Escapable(t) ==
    /\ Escaped(t, Backslash) \in Texts
    /\ Escaped(Escaped(t, Backslash), Comma) \in Texts
    /\ Escaped(Escaped(Escaped(t, Backslash), Comma), Dot) \in Texts
    /\ _helm_escape(t) \in Texts

\* What _helm_escape makes of a text with one character more.
LEMMA HelmEscapeNext ==
    ASSUME NEW t \in Texts, NEW a \in Chars, Escapable(t)
    PROVE  /\ Escapable(Append(t, a))
           /\ _helm_escape(Append(t, a)) = With(_helm_escape(t), a, Special)
  <1> DEFINE u == Append(t, a)
             A == {Backslash}
             B == A \cup {Comma}
             C == B \cup {Dot}
             e1 == Escaped(t, Backslash)
             e2 == Escaped(e1, Comma)
             e3 == Escaped(e2, Dot)
             e4 == Escaped(e3, Equals)
             f1 == Escaped(u, Backslash)
             f2 == Escaped(f1, Comma)
             f3 == Escaped(f2, Dot)
             f4 == Escaped(f3, Equals)
  <1>1. e1 \in Texts /\ e2 \in Texts /\ e3 \in Texts /\ e4 \in Texts
    BY DEF Escapable, _helm_escape
  <1>2. Comma \in Chars \ A /\ Dot \in Chars \ B /\ Equals \in Chars \ C
    BY Characters
  <1>3. C \cup {Equals} = Special
    BY DEF Special
  <1>4. f1 = With(e1, a, A) /\ f1 \in Texts
    BY <1>1, EscapedOne, Characters
  <1> HIDE DEF A
  <1> HIDE DEF f1, e1
  <1>5. f2 = With(e2, a, B) /\ f2 \in Texts
    BY <1>1, <1>2, <1>4, EscapedStage, Characters
  <1> HIDE DEF B
  <1> HIDE DEF f2, e2
  <1>6. f3 = With(e3, a, C) /\ f3 \in Texts
    BY <1>1, <1>2, <1>5, EscapedStage, Characters
  <1> HIDE DEF C
  <1> HIDE DEF f3, e3
  <1>7. f4 = With(e4, a, Special) /\ f4 \in Texts
    BY <1>1, <1>2, <1>3, <1>6, EscapedStage, Characters
  <1>8. _helm_escape(t) = e4 /\ _helm_escape(u) = f4
    BY DEF _helm_escape, e1, e2, e3, f1, f2, f3
  <1>9. Escapable(u)
    BY <1>4, <1>5, <1>6, <1>7, <1>8 DEF Escapable, f1, f2, f3
  <1> QED
    BY <1>7, <1>8, <1>9

-----------------------------------------------------------------------------
(* Where each character of a text is found in the escaped text.             *)

\* The first k characters of t are written in the first p[k] of e, for every k
\* up to n.
Spells(e, t, n, p) ==
    /\ p \in [0 .. n -> Nat]
    /\ p[0] = 0 /\ p[n] = Len(e)
    /\ \A k \in 1 .. n :
          /\ p[k] <= Len(e)
          /\ t[k] \in Special => /\ p[k] = p[k - 1] + 2
                                 /\ e[p[k - 1] + 1] = Backslash
                                 /\ e[p[k - 1] + 2] = t[k]
          /\ t[k] \notin Special => p[k] = p[k - 1] + 1 /\ e[p[k - 1] + 1] = t[k]

\* The length and the characters of With.
LEMMA WithIs ==
    ASSUME NEW e \in Texts, NEW a \in Chars, NEW S
    PROVE  /\ a \in S => /\ Len(With(e, a, S)) = Len(e) + 2
                         /\ With(e, a, S)[Len(e) + 1] = Backslash
                         /\ With(e, a, S)[Len(e) + 2] = a
           /\ a \notin S => /\ Len(With(e, a, S)) = Len(e) + 1
                            /\ With(e, a, S)[Len(e) + 1] = a
           /\ \A i \in 1 .. Len(e) : With(e, a, S)[i] = e[i]
  <1>1. ASSUME NEW C, NEW f \in Seq(C), NEW x \in C
        PROVE  /\ Append(f, x) \in Seq(C) /\ Len(Append(f, x)) = Len(f) + 1
               /\ Append(f, x)[Len(f) + 1] = x
               /\ \A i \in 1 .. Len(f) : Append(f, x)[i] = f[i]
    OBVIOUS
  <1>2. Backslash \in Chars /\ Len(e) \in Nat
    BY Characters DEF Texts
  <1> DEFINE f == Append(e, Backslash)
             g == Append(f, a)
             h == Append(e, a)
  <1>3. /\ f \in Seq(Chars) /\ Len(f) = Len(e) + 1 /\ f[Len(e) + 1] = Backslash
        /\ \A i \in 1 .. Len(e) : f[i] = e[i]
    BY <1>1, <1>2 DEF Texts
  <1> HIDE DEF f
  <1>4. /\ Len(g) = Len(f) + 1 /\ g[Len(f) + 1] = a
        /\ \A i \in 1 .. Len(f) : g[i] = f[i]
    BY <1>1, <1>3
  <1>5. /\ Len(h) = Len(e) + 1 /\ h[Len(e) + 1] = a
        /\ \A i \in 1 .. Len(e) : h[i] = e[i]
    BY <1>1 DEF Texts
  <1> HIDE DEF g, h
  <1>6. /\ Len(g) = Len(e) + 2 /\ g[Len(e) + 1] = Backslash /\ g[Len(e) + 2] = a
        /\ \A i \in 1 .. Len(e) : g[i] = e[i]
    BY <1>2, <1>3, <1>4
  <1>7. With(e, a, S) = IF a \in S THEN g ELSE h
    BY DEF With, f, g, h
  <1> QED
    BY <1>5, <1>6, <1>7

\* One character more is written at the end.
LEMMA SpellsNext ==
    ASSUME NEW e \in Texts, NEW t, NEW n \in Nat, t[n + 1] \in Chars, NEW p, Spells(e, t, n, p),
           NEW e2, e2 = With(e, t[n + 1], Special)
    PROVE  \E q : Spells(e2, t, n + 1, q)
  <1> DEFINE a == t[n + 1]
             q == [k \in 0 .. n + 1 |-> IF k = n + 1 THEN Len(e2) ELSE p[k]]
  <1>1. /\ a \in Special => /\ Len(e2) = Len(e) + 2
                            /\ e2[Len(e) + 1] = Backslash /\ e2[Len(e) + 2] = a
        /\ a \notin Special => Len(e2) = Len(e) + 1 /\ e2[Len(e) + 1] = a
        /\ \A i \in 1 .. Len(e) : e2[i] = e[i]
    BY WithIs
  <1>2. Len(e) \in Nat /\ Len(e2) \in Nat /\ Len(e) <= Len(e2)
    BY <1>1 DEF Texts
  <1>3. p \in [0 .. n -> Nat] /\ p[0] = 0 /\ p[n] = Len(e)
    BY DEF Spells
  <1>4. q \in [0 .. n + 1 -> Nat] /\ q[0] = 0 /\ q[n + 1] = Len(e2)
    BY <1>2, <1>3
  <1>5. \A k \in 0 .. n : q[k] = p[k]
    OBVIOUS
  <1> HIDE DEF q
  <1>6. ASSUME NEW k \in 1 .. n + 1
        PROVE  /\ q[k] <= Len(e2)
               /\ t[k] \in Special => /\ q[k] = q[k - 1] + 2
                                      /\ e2[q[k - 1] + 1] = Backslash
                                      /\ e2[q[k - 1] + 2] = t[k]
               /\ t[k] \notin Special => q[k] = q[k - 1] + 1 /\ e2[q[k - 1] + 1] = t[k]
    <2>1. CASE k = n + 1
      <3>1. q[k - 1] = Len(e) /\ q[k] = Len(e2) /\ t[k] = a
        BY <1>3, <1>4, <1>5, <2>1
      <3> HIDE DEF a
      <3> QED
        BY <1>1, <1>2, <3>1
    <2>2. CASE k # n + 1
      <3>1. k \in 1 .. n /\ k \in 0 .. n /\ k - 1 \in 0 .. n
        BY <2>2
      <3>2. q[k] = p[k] /\ q[k - 1] = p[k - 1] /\ p[k] \in Nat /\ p[k - 1] \in Nat
        BY <1>3, <1>5, <3>1
      <3>3. /\ p[k] <= Len(e)
            /\ t[k] \in Special => /\ p[k] = p[k - 1] + 2
                                   /\ e[p[k - 1] + 1] = Backslash
                                   /\ e[p[k - 1] + 2] = t[k]
            /\ t[k] \notin Special => p[k] = p[k - 1] + 1 /\ e[p[k - 1] + 1] = t[k]
        BY <3>1 DEF Spells
      <3>4. /\ p[k - 1] + 1 \in 1 .. Len(e)
            /\ t[k] \in Special => p[k - 1] + 2 \in 1 .. Len(e)
        BY <1>2, <3>2, <3>3
      <3>5. /\ e2[p[k - 1] + 1] = e[p[k - 1] + 1]
            /\ t[k] \in Special => e2[p[k - 1] + 2] = e[p[k - 1] + 2]
        BY <1>1, <3>4
      <3> QED
        BY <1>2, <3>2, <3>3, <3>5
    <2> QED
      BY <2>1, <2>2
  <1>7. Spells(e2, t, n + 1, q)
    BY <1>4, <1>6 DEF Spells
  <1> QED
    BY <1>7

\* _helm_escape writes every character of the text in turn.
LEMMA EscapeSpells ==
    ASSUME NEW t \in Texts
    PROVE  /\ _helm_escape(t) \in Texts
           /\ \E p : Spells(_helm_escape(t), t, Len(t), p)
  <1> DEFINE e(n) == _helm_escape(SubSeq(t, 1, n))
             Good(n) == Escapable(SubSeq(t, 1, n)) /\ \E p : Spells(e(n), t, n, p)
             S == {n \in 0 .. Len(t) : ~Good(n)}
  <1>1. Len(t) \in Nat /\ \A i \in 1 .. Len(t) : t[i] \in Chars
    BY DEF Texts
  <1>2. Good(0)
    <2>1. SubSeq(t, 1, 0) = <<>> /\ <<>> \in Texts
      BY DEF Texts
    <2>2. Escapable(<<>>) /\ _helm_escape(<<>>) = <<>>
      BY <2>1, EscapedEmpty DEF Escapable, _helm_escape
    <2>3. Spells(<<>>, t, 0, [k \in 0 .. 0 |-> 0])
      BY DEF Spells
    <2> QED
      BY <2>1, <2>2, <2>3
  <1>3. ASSUME NEW n \in 0 .. Len(t) - 1, Good(n)
        PROVE  Good(n + 1)
    <2> DEFINE u == SubSeq(t, 1, n)
    <2>1. u \in Texts /\ n \in Nat /\ t[n + 1] \in Chars
      BY <1>1 DEF Texts
    <2>2. SubSeq(t, 1, n + 1) = Append(u, t[n + 1])
      BY <1>1 DEF Texts
    <2>3. Escapable(u) /\ \E p : Spells(_helm_escape(u), t, n, p)
      BY <1>3
    <2> HIDE DEF u
    <2>4. /\ Escapable(Append(u, t[n + 1]))
          /\ _helm_escape(Append(u, t[n + 1])) = With(_helm_escape(u), t[n + 1], Special)
      BY <2>1, <2>3, HelmEscapeNext
    <2>5. \E q : Spells(_helm_escape(Append(u, t[n + 1])), t, n + 1, q)
      BY <2>1, <2>3, <2>4, SpellsNext DEF Escapable
    <2> QED
      BY <2>2, <2>4, <2>5
  <1>4. Good(Len(t))
    <2> SUFFICES ASSUME S # {}
                 PROVE  FALSE
      BY <1>1
    <2> HIDE DEF Good
    <2>1. S \in SUBSET Nat
      BY <1>1
    <2>2. PICK n \in S : \A k \in S : n <= k
      BY <2>1, LeastNatural
    <2>3. n \in 0 .. Len(t) /\ n # 0
      BY <1>2
    <2>4. n - 1 \in 0 .. Len(t) - 1 /\ n - 1 \notin S
      BY <1>1, <2>2, <2>3
    <2>5. Good(n - 1)
      BY <1>1, <2>4
    <2>6. Good((n - 1) + 1) /\ (n - 1) + 1 = n
      BY <1>3, <2>3, <2>4, <2>5
    <2> QED
      BY <2>6
  <1>5. SubSeq(t, 1, Len(t)) = t
    BY DEF Texts
  <1> QED
    BY <1>4, <1>5 DEF Escapable

-----------------------------------------------------------------------------
(* What Helm reads of it.                                                   *)

\* What is read from position i, if f holds what is read further on.
ReadFrom(f, e, i) ==
    IF i > Len(e) THEN [value |-> <<>>, more |-> FALSE]
    ELSE IF e[i] = Comma THEN [value |-> <<>>, more |-> TRUE]
    ELSE IF e[i] = Backslash /\ i < Len(e)
      THEN [f[i + 2] EXCEPT !.value = <<e[i + 1]>> \o @]
    ELSE IF e[i] = Backslash THEN f[i + 1]
    ELSE [f[i + 1] EXCEPT !.value = <<e[i]>> \o @]

Reads(f, e, m) == f = [i \in m .. Len(e) + 2 |-> ReadFrom(f, e, i)]

\* There is such a function.
LEMMA ReadsExists ==
    ASSUME NEW e, Len(e) \in Nat
    PROVE  \E f : Reads(f, e, 1)
  <1> DEFINE top == Len(e) + 2
             Good(n) == \E f : Reads(f, e, top - n)
             S == {n \in 0 .. top - 1 : ~Good(n)}
  <1>1. top \in Nat /\ top > 1
    OBVIOUS
  <1>2. Good(0)
    <2> DEFINE f == [i \in top .. top |-> [value |-> <<>>, more |-> FALSE]]
    <2>1. \A i \in top .. top : ReadFrom(f, e, i) = [value |-> <<>>, more |-> FALSE]
      BY DEF ReadFrom
    <2>2. f = [i \in top .. top |-> ReadFrom(f, e, i)]
      <3> HIDE DEF top
      <3> QED
        BY <2>1
    <2>3. top - 0 = top
      OBVIOUS
    <2> QED
      BY <2>2, <2>3 DEF Reads
  <1>3. ASSUME NEW n \in 0 .. top - 2, Good(n)
        PROVE  Good(n + 1)
    <2> DEFINE m == top - n
    <2>1. PICK f : Reads(f, e, m)
      BY <1>3
    <2>2. m \in Nat /\ m > 1 /\ m <= top /\ top - (n + 1) = m - 1
      OBVIOUS
    <2> HIDE DEF m
    <2> DEFINE g == [i \in m - 1 .. top |-> IF i < m THEN ReadFrom(f, e, i) ELSE f[i]]
    <2>3. \A i \in m .. top : g[i] = f[i] /\ f[i] = ReadFrom(f, e, i)
      <3>1. \A i \in m .. top : g[i] = f[i]
        BY <2>2
      <3>2. \A i \in m .. top : f[i] = ReadFrom(f, e, i)
        <4> DEFINE r(i) == ReadFrom(f, e, i)
                   h == [i \in m .. top |-> r(i)]
        <4>1. f = h
          BY <2>1 DEF Reads
        <4> HIDE DEF r
        <4>2. \A i \in m .. top : h[i] = r(i)
          OBVIOUS
        <4> HIDE DEF h
        <4>3. \A i \in m .. top : f[i] = r(i)
          BY <4>1, <4>2
        <4> QED
          BY <4>3 DEF r
      <3> QED
        BY <3>1, <3>2
    <2>4. g[m - 1] = ReadFrom(f, e, m - 1)
      BY <2>2
    <2> HIDE DEF g
    <2>5. ASSUME NEW i \in m - 1 .. top
          PROVE  ReadFrom(g, e, i) = ReadFrom(f, e, i)
      <3>1. CASE i > Len(e)
        BY <3>1 DEF ReadFrom
      <3>2. CASE ~(i > Len(e))
        <4>1. i + 1 \in m .. top /\ i + 2 \in m .. top
          BY <2>2, <3>2
        <4>2. g[i + 1] = f[i + 1] /\ g[i + 2] = f[i + 2]
          BY <2>3, <4>1
        <4> QED
          BY <4>2 DEF ReadFrom
      <3> QED
        BY <3>1, <3>2
    <2>6. ASSUME NEW i \in m - 1 .. top
          PROVE  g[i] = ReadFrom(g, e, i)
      <3>1. CASE i = m - 1
        BY <2>4, <2>5, <3>1
      <3>2. CASE i # m - 1
        <4>1. i \in m .. top
          BY <2>2, <3>2
        <4> QED
          BY <2>3, <2>5, <4>1
      <3> QED
        BY <3>1, <3>2
    <2>7. g = [i \in m - 1 .. top |-> g[i]]
      BY DEF g
    <2>8. Reads(g, e, m - 1)
      BY <2>6, <2>7 DEF Reads
    <2> QED
      BY <2>2, <2>8
  <1>4. Good(top - 1)
    <2> HIDE DEF Good, top
    <2> SUFFICES ASSUME S # {}
                 PROVE  FALSE
      BY <1>1
    <2>1. S \in SUBSET Nat
      BY <1>1
    <2>2. PICK n \in S : \A k \in S : n <= k
      BY <2>1, LeastNatural
    <2>3. n \in 0 .. top - 1 /\ n # 0
      BY <1>2
    <2>4. n - 1 \in 0 .. top - 2 /\ n - 1 \notin S
      BY <1>1, <2>2, <2>3
    <2>5. Good(n - 1)
      BY <1>1, <2>4
    <2>6. Good((n - 1) + 1) /\ (n - 1) + 1 = n
      BY <1>3, <2>3, <2>4, <2>5
    <2> QED
      BY <2>6
  <1>5. top - (top - 1) = 1
    OBVIOUS
  <1> QED
    BY <1>4, <1>5

\* ReadText is its value at the first position.
LEMMA ReadTextIs ==
    ASSUME NEW e, Len(e) \in Nat
    PROVE  \E f : ReadText(e) = f[1] /\ \A i \in 1 .. Len(e) + 2 : f[i] = ReadFrom(f, e, i)
  <1> DEFINE f == CHOOSE f : Reads(f, e, 1)
             r(i) == ReadFrom(f, e, i)
             h == [i \in 1 .. Len(e) + 2 |-> r(i)]
  <1>1. ReadText(e) = f[1]
    BY DEF ReadText, Reads, ReadFrom
  <1>2. Reads(f, e, 1)
    BY ReadsExists
  <1> HIDE DEF f
  <1>3. f = h
    BY <1>2 DEF Reads
  <1> HIDE DEF r
  <1>4. \A i \in 1 .. Len(e) + 2 : h[i] = r(i)
    OBVIOUS
  <1> HIDE DEF h
  <1>5. \A i \in 1 .. Len(e) + 2 : f[i] = r(i)
    BY <1>3, <1>4
  <1> QED
    BY <1>1, <1>5 DEF r

Reading(v, b) == [value |-> v, more |-> b]

Replaced(r, w) == [r EXCEPT !.value = w]

\* Replacing the value of a reading leaves the rest.
LEMMA ValueReplaced ==
    ASSUME NEW v, NEW w, NEW b, NEW r, r = Reading(v, b)
    PROVE  Replaced(r, w) = Reading(w, b)
  <1>1. r = [x \in {"value", "more"} |-> r[x]] /\ r.more = b
    BY DEF Reading
  <1>2. Replaced(r, w) = [x \in {"value", "more"} |-> IF x = "value" THEN w ELSE r[x]]
    BY <1>1 DEF Replaced
  <1>3. Reading(w, b) = [x \in {"value", "more"} |-> IF x = "value" THEN w ELSE b]
    BY DEF Reading
  <1> QED
    BY <1>1, <1>2, <1>3

\* The same where nothing follows.
LEMMA LastReplaced ==
    ASSUME NEW v, NEW r, r = Reading(v, FALSE)
    PROVE  \A w : Replaced(r, w) = Reading(w, FALSE)
  BY ValueReplaced, Zenon

\* Reading an escaped text gives the text, and nothing follows it.
LEMMA EscapeRead ==
    ASSUME NEW t \in Texts
    PROVE  ReadText(_helm_escape(t)) = [value |-> t, more |-> FALSE]
  <1> DEFINE e == _helm_escape(t)
             rest(k) == SubSeq(t, k + 1, Len(t))
  <1>1. e \in Texts /\ \E p : Spells(e, t, Len(t), p)
    BY EscapeSpells
  <1>2. PICK p : Spells(e, t, Len(t), p)
    BY <1>1
  <1>3. Len(e) \in Nat /\ Len(t) \in Nat
    BY <1>1 DEF Texts
  <1> HIDE DEF e
  <1>4. PICK f : ReadText(e) = f[1] /\ \A i \in 1 .. Len(e) + 2 : f[i] = ReadFrom(f, e, i)
    BY <1>3, ReadTextIs
  <1>5. rest(Len(t)) = <<>> /\ rest(0) = t
    BY DEF Texts
  <1>6. \A k \in 1 .. Len(t) : <<t[k]>> \o rest(k) = rest(k - 1)
    <2>1. ASSUME NEW C, NEW u \in Seq(C), NEW k \in 1 .. Len(u)
          PROVE  <<u[k]>> \o SubSeq(u, k + 1, Len(u)) = SubSeq(u, (k - 1) + 1, Len(u))
      OBVIOUS
    <2> QED
      BY <2>1, Zenon DEF Texts
  <1> HIDE DEF rest
  <1> DEFINE Good(k) == f[p[k] + 1] = [value |-> rest(k), more |-> FALSE]
             S == {d \in 0 .. Len(t) : ~Good(Len(t) - d)}
  <1>7. p \in [0 .. Len(t) -> Nat] /\ p[0] = 0 /\ p[Len(t)] = Len(e)
    BY <1>2 DEF Spells
  <1>8. Good(Len(t))
    <2>1. f[Len(e) + 1] = ReadFrom(f, e, Len(e) + 1)
      BY <1>3, <1>4
    <2>2. ReadFrom(f, e, Len(e) + 1) = [value |-> <<>>, more |-> FALSE]
      BY <1>3 DEF ReadFrom
    <2> QED
      BY <1>5, <1>7, <2>1, <2>2
  <1>9. ASSUME NEW k \in 1 .. Len(t), Good(k)
        PROVE  Good(k - 1)
    <2> DEFINE i == p[k - 1] + 1
    <2>1. p[k - 1] \in Nat /\ p[k] \in Nat
      BY <1>3, <1>7
    <2>2. /\ p[k] <= Len(e)
          /\ t[k] \in Special => p[k] = p[k - 1] + 2 /\ e[i] = Backslash /\ e[p[k - 1] + 2] = t[k]
          /\ t[k] \notin Special => p[k] = p[k - 1] + 1 /\ e[i] = t[k]
      BY <1>2, <1>3 DEF Spells
    <2>3. i \in 1 .. Len(e) + 2 /\ ~(i > Len(e))
      BY <1>3, <2>1, <2>2
    <2>4. f[i] = ReadFrom(f, e, i)
      BY <1>4, <2>3
    <2>5. \A x : [f[p[k] + 1] EXCEPT !.value = <<x>> \o @]
                   = [value |-> <<x>> \o rest(k), more |-> FALSE]
      <3> DEFINE r == f[p[k] + 1]
      <3>1. r = [value |-> rest(k), more |-> FALSE]
        BY <1>9
      <3> HIDE DEF r
      <3>2. r.value = rest(k)
        BY <3>1
      <3>3. \A x : [r EXCEPT !.value = <<x>> \o @] = [value |-> <<x>> \o r.value, more |-> FALSE]
        <4>1. r = Reading(rest(k), FALSE)
          BY <3>1, Zenon DEF Reading
        <4>2. \A w : Replaced(r, w) = Reading(w, FALSE)
          BY <4>1, LastReplaced, Zenon
        <4> QED
          BY <4>2, Zenon DEF Reading, Replaced
      <3> QED
        BY <3>2, <3>3, Zenon DEF r
    <2>6. Backslash # Comma /\ Backslash \in Special /\ Comma \in Special
      BY Characters DEF Special
    <2>7. CASE t[k] \in Special
      <3>1. i < Len(e) /\ i + 2 = p[k] + 1 /\ e[i + 1] = t[k] /\ e[i] = Backslash
        BY <1>3, <2>1, <2>2, <2>7
      <3> HIDE DEF i
      <3>2. f[i] = [f[i + 2] EXCEPT !.value = <<e[i + 1]>> \o @]
        BY <2>3, <2>4, <2>6, <3>1 DEF ReadFrom
      <3>3. f[i] = [value |-> <<t[k]>> \o rest(k), more |-> FALSE]
        BY <2>5, <3>1, <3>2
      <3> QED
        BY <1>6, <3>3 DEF i
    <2>8. CASE t[k] \notin Special
      <3>1. i + 1 = p[k] + 1 /\ e[i] = t[k] /\ e[i] # Comma /\ e[i] # Backslash
        BY <2>1, <2>2, <2>6, <2>8
      <3> HIDE DEF i
      <3>2. f[i] = [f[i + 1] EXCEPT !.value = <<e[i]>> \o @]
        BY <2>3, <2>4, <3>1 DEF ReadFrom
      <3>3. f[i] = [value |-> <<t[k]>> \o rest(k), more |-> FALSE]
        BY <2>5, <3>1, <3>2
      <3> QED
        BY <1>6, <3>3 DEF i
    <2> QED
      BY <2>7, <2>8
  <1>10. Good(0)
    <2> HIDE DEF Good
    <2> SUFFICES ASSUME S # {}
                 PROVE  FALSE
      BY <1>3
    <2>1. S \in SUBSET Nat
      BY <1>3
    <2>2. PICK d \in S : \A c \in S : d <= c
      BY <2>1, LeastNatural
    <2>3. d \in 0 .. Len(t) /\ d # 0
      BY <1>3, <1>8
    <2>4. d - 1 \in 0 .. Len(t) /\ d - 1 \notin S
      BY <1>3, <2>2, <2>3
    <2>5. Good(Len(t) - (d - 1)) /\ Len(t) - (d - 1) \in 1 .. Len(t)
      BY <1>3, <2>3, <2>4
    <2>6. Good((Len(t) - (d - 1)) - 1) /\ (Len(t) - (d - 1)) - 1 = Len(t) - d
      BY <1>3, <1>9, <2>3, <2>5
    <2> QED
      BY <2>6
  <1>11. p[0] + 1 = 1
    BY <1>7
  <1>12. f[1] = [value |-> t, more |-> FALSE]
    BY <1>5, <1>10, <1>11, Zenon
  <1> QED
    BY <1>4, <1>12, Zenon DEF e

\* Escaping leaves a brace at the beginning, and makes none.
LEMMA EscapeBraced ==
    ASSUME NEW t \in Texts
    PROVE  Braced(_helm_escape(t)) <=> Braced(t)
  <1> DEFINE e == _helm_escape(t)
  <1>1. e \in Texts /\ \E p : Spells(e, t, Len(t), p)
    BY EscapeSpells
  <1>2. PICK p : Spells(e, t, Len(t), p)
    BY <1>1
  <1>3. Len(e) \in Nat /\ Len(t) \in Nat
    BY <1>1 DEF Texts
  <1>4. (e = <<>> <=> Len(e) = 0) /\ (t = <<>> <=> Len(t) = 0)
    <2>1. ASSUME NEW C, NEW u \in Seq(C)
          PROVE  u = <<>> <=> Len(u) = 0
      OBVIOUS
    <2> HIDE DEF e
    <2> QED
      BY <1>1, <2>1, Zenon DEF Texts
  <1> HIDE DEF e
  <1>5. OpenBrace # Backslash /\ OpenBrace \notin Special
    BY Zenon DEF OpenBrace, Backslash, Comma, Dot, Equals, Special
  <1>6. CASE Len(t) = 0
    <2>1. Len(e) = 0
      BY <1>2, <1>6 DEF Spells
    <2> QED
      BY <1>4, <1>6, <2>1 DEF Braced, e
  <1>7. CASE Len(t) # 0
    <2>1. 1 \in 1 .. Len(t) /\ 1 - 1 = 0 /\ p[0] = 0
      BY <1>2, <1>3, <1>7 DEF Spells
    <2>2. /\ p[1] <= Len(e)
          /\ t[1] \in Special => p[1] = 2 /\ e[1] = Backslash
          /\ t[1] \notin Special => p[1] = 1 /\ e[1] = t[1]
      BY <1>2, <2>1 DEF Spells
    <2>3. Len(e) # 0
      BY <2>2
    <2>4. e[1] = OpenBrace <=> t[1] = OpenBrace
      BY <1>5, <2>2
    <2> QED
      BY <1>4, <1>7, <2>3, <2>4 DEF Braced, e
  <1> QED
    BY <1>6, <1>7

\* Helm reads an escaped text as that text, or takes it for a list.
LEMMA EscapedValueRead ==
    ASSUME NEW t \in Texts
    PROVE  /\ Braced(t) => ReadValue(_helm_escape(t)).kind = "list"
           /\ ~Braced(t) => ReadValue(_helm_escape(t))
                              = [kind |-> "text", is |-> [value |-> t, more |-> FALSE]]
  <1>1. CASE Braced(t)
    <2>1. ReadValue(_helm_escape(t)) = [kind |-> "list", is |-> ReadList(_helm_escape(t))]
      BY <1>1, EscapeBraced, Zenon DEF ReadValue
    <2> QED
      BY <1>1, <2>1
  <1>2. CASE ~Braced(t)
    <2>1. ReadValue(_helm_escape(t)) = [kind |-> "text", is |-> ReadText(_helm_escape(t))]
      BY <1>2, EscapeBraced, Zenon DEF ReadValue
    <2> QED
      BY <1>2, <2>1, EscapeRead, Zenon
  <1> QED
    BY <1>1, <1>2


-----------------------------------------------------------------------------
(* SampleValues: which metadata reaches Helm.                               *)

Name(i) == Pascal[given.metadata[i][1]]

\* No entry before the j-th has its name.
First(j) == \A l \in 1 .. j - 1 : Name(l) # Name(j)

Names == {Pascal[key] : key \in DOMAIN Pascal}

Passable(name) == name # Unsupported /\ Mentioned(name)

\* extra holds what is to be passed of the first n entries: only the texts of
\* first entries, and every name that is mentioned.
Collected(n) ==
    /\ extra \in Seq(Names \X Seq(STRING))
    /\ \A i \in 1 .. Len(extra) :
          \E j \in 1 .. n : /\ First(j) /\ Passable(Name(j))
                            /\ extra[i][1] = Name(j) /\ extra[i][2] = given.metadata[j][2]
    /\ \A j \in 1 .. n : Passable(Name(j)) => \E i \in 1 .. Len(extra) : extra[i][1] = Name(j)

\* The entries from n + 1 on have not been looked at.
Remaining(n) ==
    /\ todo \in Seq((DOMAIN Pascal) \X Seq(STRING))
    /\ Len(todo) = Len(given.metadata) - n
    /\ \A i \in 1 .. Len(todo) : todo[i] = given.metadata[n + i]

\* The arguments are the name of the task and the escaped texts.
Passed ==
    /\ DOMAIN args.sets = 1 .. Len(extra) + 1
    /\ args.sets[1][1] = "inspectTaskName"
    /\ \A i \in 1 .. Len(extra) :
          args.sets[i + 1] = <<extra[i][1], _helm_escape(extra[i][2])>>

MetadataInv ==
    /\ given.metadata \in Seq((DOMAIN Pascal) \X Seq(STRING))
    /\ \E n \in 0 .. Len(given.metadata) : Remaining(n) /\ Collected(n) /\ (pc = "resolve" => n = 0)
    /\ pc \in {"values", "install", "installed"} => todo = <<>>
    /\ pc = "installed" => Passed

\* MetadataInv holds before anything is resolved.
LEMMA MetadataInit == ValuesInit => MetadataInv
  <1> SUFFICES ASSUME ValuesInit
               PROVE  MetadataInv
    OBVIOUS
  <1>1. /\ given.metadata \in Seq((DOMAIN Pascal) \X Seq(STRING))
        /\ todo = given.metadata /\ extra = <<>> /\ pc = "resolve"
    BY MetadataAssumption DEF ValuesInit
  <1>2. Remaining(0)
    BY <1>1 DEF Remaining
  <1>3. Collected(0)
    BY <1>1 DEF Collected
  <1> QED
    BY <1>1, <1>2, <1>3 DEF MetadataInv

\* Looking at one entry more keeps MetadataInv.
LEMMA ConvertKeyStep ==
    ASSUME MetadataInv, ConvertKey
    PROVE  MetadataInv'
  <1> DEFINE E == (DOMAIN Pascal) \X Seq(STRING)
             md == given.metadata
  <1>1. /\ pc = "metadata" /\ todo # <<>> /\ todo' = Tail(todo)
        /\ given' = given /\ pc' = pc /\ resolved' = resolved
    BY DEF ConvertKey
  <1>2. md \in Seq(E)
    BY DEF MetadataInv
  <1>3. PICK n \in 0 .. Len(md) : Remaining(n) /\ Collected(n)
    BY DEF MetadataInv
  <1>4. todo \in Seq(E) /\ Len(todo) = Len(md) - n /\ \A i \in 1 .. Len(todo) : todo[i] = md[n + i]
    BY <1>3 DEF Remaining
  <1>5. Len(todo) \in Nat /\ Len(todo) # 0 /\ Len(md) \in Nat /\ n + 1 \in 1 .. Len(md)
    BY <1>1, <1>2, <1>4
  <1>6. Remaining(n + 1)'
    <2>1. /\ Tail(todo) \in Seq(E) /\ Len(Tail(todo)) = Len(todo) - 1
          /\ \A i \in 1 .. Len(todo) - 1 : Tail(todo)[i] = todo[i + 1]
      BY <1>4, <1>5
    <2>2. \A i \in 1 .. Len(todo) - 1 : todo[i + 1] = md[(n + 1) + i]
      <3> SUFFICES ASSUME NEW i \in 1 .. Len(todo) - 1
                   PROVE  todo[i + 1] = md[(n + 1) + i]
        OBVIOUS
      <3>1. i + 1 \in 1 .. Len(todo) /\ n + (i + 1) = (n + 1) + i
        BY <1>5
      <3> QED
        BY <1>4, <3>1
    <2> HIDE DEF E, md
    <2>3. /\ todo' \in Seq(E) /\ Len(todo') = Len(md) - (n + 1)
          /\ \A i \in 1 .. Len(todo') : todo'[i] = md[(n + 1) + i]
      <3>1. todo' \in Seq(E) /\ Len(todo') = Len(todo) - 1
        BY <1>1, <2>1
      <3>2. \A i \in 1 .. Len(todo) - 1 : todo'[i] = md[(n + 1) + i]
        BY <1>1, <2>1, <2>2
      <3>3. Len(todo) - 1 = Len(md) - (n + 1)
        BY <1>4, <1>5
      <3> QED
        BY <3>1, <3>2, <3>3
    <2> QED
      BY <1>1, <2>3 DEF Remaining, E, md
  <1> DEFINE entry == md[n + 1]
             name == Name(n + 1)
  <1>7. Head(todo) = entry /\ entry \in E
    BY <1>2, <1>4, <1>5
  <1>8. name = Pascal[entry[1]] /\ name \in Names /\ entry[2] \in Seq(STRING)
    BY <1>7 DEF Name, Names
  <1>9. extra' = IF name = Unsupported \/ Clashes(name) \/ ~Mentioned(name) THEN extra
                 ELSE Append(extra, <<name, entry[2]>>)
    BY <1>7 DEF ConvertKey, Name
  <1>10. /\ \A j : Name(j)' = Name(j) /\ First(j)' = First(j)
         /\ \A x : Passable(x)' = Passable(x)
    BY <1>1 DEF Name, First, Passable, Mentioned
  <1>11. /\ extra \in Seq(Names \X Seq(STRING))
         /\ \A i \in 1 .. Len(extra) :
               \E j \in 1 .. n : /\ First(j) /\ Passable(Name(j))
                                 /\ extra[i][1] = Name(j) /\ extra[i][2] = md[j][2]
         /\ \A j \in 1 .. n : Passable(Name(j)) => \E i \in 1 .. Len(extra) : extra[i][1] = Name(j)
    BY <1>3 DEF Collected
  <1>12. Clashes(name) <=> \E i \in 1 .. Len(extra) : extra[i][1] = name
    <2>1. DOMAIN extra = 1 .. Len(extra)
      BY <1>11
    <2> QED
      BY <2>1, Zenon DEF Clashes, AddedNames
  <1>13. Collected(n + 1)'
    <2> HIDE DEF name, entry, E, md
    <2>1. CASE ~Passable(name) \/ Clashes(name)
      <3>1. extra' = extra
        BY <1>9, <2>1 DEF Passable
      <3>2. \A j \in 1 .. n + 1 : j \in 1 .. n \/ (j = n + 1 /\ Name(j) = name)
        BY DEF name
      <3>3. \A j \in 1 .. n + 1 : Passable(Name(j))
                => \E i \in 1 .. Len(extra) : extra[i][1] = Name(j)
        BY <1>11, <1>12, <2>1, <3>2
      <3>4. \A j \in 1 .. n : j \in 1 .. n + 1
        OBVIOUS
      <3> QED
        BY <1>1, <1>10, <1>11, <3>1, <3>3, <3>4 DEF Collected, md
    <2>2. CASE Passable(name) /\ ~Clashes(name)
      <3> DEFINE added == <<name, entry[2]>>
      <3>1. extra' = Append(extra, added)
        BY <1>9, <2>2 DEF Passable
      <3>2. added \in Names \X Seq(STRING) /\ added[1] = name /\ added[2] = entry[2]
        BY <1>8
      <3> HIDE DEF added
      <3>3. /\ extra' \in Seq(Names \X Seq(STRING)) /\ Len(extra') = Len(extra) + 1
            /\ extra'[Len(extra) + 1] = added
            /\ \A i \in 1 .. Len(extra) : extra'[i] = extra[i]
        BY <1>11, <3>1, <3>2
      <3>4. First(n + 1)
        <4> SUFFICES ASSUME NEW l \in 1 .. n, Name(l) = name
                     PROVE  FALSE
          BY DEF First, name
        <4> QED
          BY <1>11, <1>12, <2>2
      <3>5. \A i \in 1 .. Len(extra') :
              \E j \in 1 .. n + 1 : /\ First(j) /\ Passable(Name(j))
                                    /\ extra'[i][1] = Name(j) /\ extra'[i][2] = md[j][2]
        <4> SUFFICES ASSUME NEW i \in 1 .. Len(extra')
                     PROVE  \E j \in 1 .. n + 1 : /\ First(j) /\ Passable(Name(j))
                                                  /\ extra'[i][1] = Name(j)
                                                  /\ extra'[i][2] = md[j][2]
          OBVIOUS
        <4>1. CASE i = Len(extra) + 1
          <5>1. n + 1 \in 1 .. n + 1 /\ Name(n + 1) = name /\ md[n + 1] = entry
            BY DEF name, entry
          <5> QED
            BY <2>2, <3>2, <3>3, <3>4, <4>1, <5>1
        <4>2. CASE i # Len(extra) + 1
          <5>a. Len(extra) \in Nat /\ i \in 1 .. Len(extra) + 1
            BY <1>11, <3>3
          <5>b. i \in 1 .. Len(extra)
            BY <4>2, <5>a
          <5>1. i \in 1 .. Len(extra) /\ extra'[i] = extra[i]
            BY <3>3, <5>b
          <5>2. PICK j \in 1 .. n : /\ First(j) /\ Passable(Name(j))
                                    /\ extra[i][1] = Name(j) /\ extra[i][2] = md[j][2]
            BY <1>11, <5>1
          <5>3. j \in 1 .. n + 1
            OBVIOUS
          <5> QED
            BY <5>1, <5>2, <5>3
        <4> QED
          BY <4>1, <4>2
      <3>6. \A j \in 1 .. n + 1 : Passable(Name(j))
                => \E i \in 1 .. Len(extra') : extra'[i][1] = Name(j)
        <4> SUFFICES ASSUME NEW j \in 1 .. n + 1, Passable(Name(j))
                     PROVE  \E i \in 1 .. Len(extra') : extra'[i][1] = Name(j)
          OBVIOUS
        <4>1. CASE j = n + 1
          <5>1. Name(j) = name
            BY <4>1 DEF name
          <5>2. Len(extra) + 1 \in 1 .. Len(extra')
            BY <1>11, <3>3
          <5> QED
            BY <3>2, <3>3, <5>1, <5>2
        <4>2. CASE j # n + 1
          <5>1. j \in 1 .. n
            BY <4>2
          <5>2. PICK i \in 1 .. Len(extra) : extra[i][1] = Name(j)
            BY <1>11, <5>1
          <5>3. i \in 1 .. Len(extra')
            BY <1>11, <3>3
          <5> QED
            BY <3>3, <5>2, <5>3
        <4> QED
          BY <4>1, <4>2
      <3> QED
        BY <1>1, <1>10, <3>3, <3>5, <3>6 DEF Collected, md
    <2> QED
      BY <2>1, <2>2
  <1> QED
    BY <1>1, <1>2, <1>5, <1>6, <1>13 DEF MetadataInv

\* Every step keeps MetadataInv.
LEMMA MetadataStep ==
    ASSUME MetadataInv, [ValuesNext]_valuesVars
    PROVE  MetadataInv'
  <1>1. CASE ConvertKey
    BY <1>1, ConvertKeyStep
  <1>2. ASSUME given' = given, todo' = todo, extra' = extra, args' = args, resolved' = resolved,
               pc' # "resolve" \/ pc = "resolve", pc' # "installed" \/ pc = "installed",
               pc' \in {"values", "install"} => todo = <<>> \/ pc \in {"values", "install"}
        PROVE  MetadataInv'
    <2>1. \A n : Remaining(n)' = Remaining(n)
      BY <1>2 DEF Remaining
    <2>2. \A n : Collected(n)' = Collected(n)
      BY <1>2 DEF Collected, First, Name, Passable, Mentioned
    <2>3. Passed' = Passed
      BY <1>2 DEF Passed
    <2> QED
      BY <1>2, <2>1, <2>2, <2>3 DEF MetadataInv
  <1>3. CASE Fail
    BY <1>2, <1>3 DEF Fail
  <1>4. CASE Resolve /\ ~Fail
    <2>1. /\ pc = "resolve" /\ pc' = "metadata"
          /\ given' = given /\ todo' = todo /\ extra' = extra
      BY <1>4 DEF Resolve
    <2>2. Remaining(0) /\ Collected(0) /\ given.metadata \in Seq((DOMAIN Pascal) \X Seq(STRING))
      BY <2>1 DEF MetadataInv
    <2>3. Remaining(0)'
      BY <2>1, <2>2 DEF Remaining
    <2>4. Collected(0)'
      <3>1. extra \in Seq(Names \X Seq(STRING)) /\ Len(extra) = 0
        BY <2>2 DEF Collected
      <3> QED
        BY <2>1, <3>1 DEF Collected
    <2> QED
      BY <2>1, <2>2, <2>3, <2>4 DEF MetadataInv
  <1>5. CASE _create_values_source /\ ~Fail
    <2>1. /\ pc = "metadata" /\ todo = <<>> /\ pc' = "values"
          /\ UNCHANGED <<given, resolved, todo, extra, args>>
      BY <1>5 DEF _create_values_source
    <2> QED
      BY <1>2, <2>1
  <1>6. CASE ValuesFile /\ ~Fail
    <2>1. /\ pc = "values" /\ pc' = "install"
          /\ UNCHANGED <<given, resolved, todo, extra, args>>
      BY <1>6 DEF ValuesFile
    <2> QED
      BY <1>2, <2>1
  <1>7. CASE _install /\ ~Fail
    <2> DEFINE task == <<"inspectTaskName", given.task>>
               esc == [i \in DOMAIN extra |-> <<extra[i][1], _helm_escape(extra[i][2])>>]
    <2>1. /\ pc = "install" /\ pc' = "installed"
          /\ UNCHANGED <<given, resolved, todo, extra>>
          /\ args' = [sets |-> <<task>> \o esc, labels |-> _labels_arg]
      BY <1>7 DEF _install
    <2>2. DOMAIN extra = 1 .. Len(extra) /\ Len(extra) \in Nat
      BY DEF MetadataInv, Collected
    <2>3. /\ Len(<<task>> \o esc) = Len(extra) + 1 /\ (<<task>> \o esc)[1] = task
          /\ DOMAIN (<<task>> \o esc) = 1 .. Len(extra) + 1
          /\ \A i \in 1 .. Len(extra) : (<<task>> \o esc)[i + 1] = esc[i]
      <3> DEFINE C == {task} \cup {esc[i] : i \in 1 .. Len(extra)}
      <3>2. task \in C /\ \A i \in 1 .. Len(extra) : esc[i] \in C
        OBVIOUS
      <3>3. esc = [i \in 1 .. Len(extra) |-> esc[i]]
        BY <2>2
      <3> HIDE DEF C, esc, task
      <3>4. esc \in Seq(C) /\ Len(esc) = Len(extra)
        BY <2>2, <3>2, <3>3
      <3>5. /\ Len(<<task>> \o esc) = Len(esc) + 1 /\ (<<task>> \o esc)[1] = task
            /\ DOMAIN (<<task>> \o esc) = 1 .. Len(esc) + 1
            /\ \A i \in 1 .. Len(esc) : (<<task>> \o esc)[i + 1] = esc[i]
        BY <3>2, <3>4
      <3> QED
        BY <3>4, <3>5, Zenon
    <2>4. Passed'
      <3> DEFINE sets == <<task>> \o esc
      <3>1. args'.sets = sets /\ extra' = extra
        BY <2>1, Zenon
      <3>2. \A i \in 1 .. Len(extra) : esc[i] = <<extra[i][1], _helm_escape(extra[i][2])>>
        BY <2>2
      <3>3. task[1] = "inspectTaskName"
        OBVIOUS
      <3> HIDE DEF task, esc
      <3>4. DOMAIN sets = 1 .. Len(extra) + 1 /\ sets[1] = task
        BY <2>3
      <3>5. \A i \in 1 .. Len(extra) : sets[i + 1] = <<extra[i][1], _helm_escape(extra[i][2])>>
        BY <2>3, <3>2, Zenon
      <3> HIDE DEF sets
      <3> QED
        BY <3>1, <3>3, <3>4, <3>5 DEF Passed
    <2>5. \A n : Remaining(n)' = Remaining(n)
      BY <2>1 DEF Remaining
    <2>6. \A n : Collected(n)' = Collected(n)
      BY <2>1 DEF Collected, First, Name, Passable, Mentioned
    <2> QED
      BY <2>1, <2>4, <2>5, <2>6 DEF MetadataInv
  <1>8. CASE UNCHANGED valuesVars
    BY <1>2, <1>8 DEF valuesVars
  <1> QED
    BY <1>1, <1>3, <1>4, <1>5, <1>6, <1>7, <1>8 DEF ValuesNext, ValuesEnded

\* What was resolved is the file of the configuration, unless it is converted
\* without being looked at.
ResolvedInv ==
    pc \notin {"resolve", "error"} => resolved.values = IF ToCompose THEN NoFile ELSE config.file

LEMMA ResolvedStep ==
    ASSUME ResolvedInv, [ValuesNext]_valuesVars
    PROVE  ResolvedInv'
  <1>1. ASSUME resolved' = resolved, config' = config,
               pc' \in {"resolve", "error"} \/ pc \notin {"resolve", "error"}
        PROVE  ResolvedInv'
    BY <1>1 DEF ResolvedInv, ToCompose
  <1>2. CASE Fail
    BY <1>1, <1>2 DEF Fail
  <1>3. CASE Resolve /\ ~Fail
    <2>1. config' = config /\ resolved'.values = IF ToCompose THEN NoFile ELSE config.file
      BY <1>3 DEF Resolve
    <2> QED
      BY <2>1 DEF ResolvedInv, ToCompose
  <1>4. CASE ConvertKey \/ UNCHANGED valuesVars
    BY <1>1, <1>4 DEF ConvertKey, valuesVars
  <1>5. CASE (_create_values_source \/ ValuesFile \/ _install) /\ ~Fail
    BY <1>1, <1>5 DEF _create_values_source, ValuesFile, _install
  <1> QED
    BY <1>2, <1>3, <1>4, <1>5 DEF ValuesNext, ValuesEnded

\* Under a name Helm has the first text with that name, if it is referred to.
LEMMA MetadataRead ==
    ASSUME MetadataInv, ResolvedInv
    PROVE  MetadataDelivered
  <1> DEFINE Read(name) == [kind |-> "text", is |-> [value |-> FirstWith(name), more |-> FALSE]]
  <1> SUFFICES ASSUME pc = "installed",
                      NEW name \in {Pascal[given.metadata[i][1]] : i \in DOMAIN given.metadata}
                                     \ {Unsupported}
               PROVE  IF ~Referred(name) THEN HelmHas(name) = {}
                      ELSE IF Braced(FirstWith(name))
                           THEN \A read \in HelmHas(name) : read.kind = "list"
                           ELSE HelmHas(name) = {Read(name)}
    BY DEF MetadataDelivered
  <1>0. Referred(name) <=> Mentioned(name)
    BY DEF ResolvedInv, Referred, Mentioned
  <1> HIDE DEF Read
  <1> DEFINE md == given.metadata
             At == {i \in DOMAIN args.sets : args.sets[i][1] = name}
  <1>1. md \in Seq((DOMAIN Pascal) \X Seq(STRING)) /\ Len(md) \in Nat
    BY DEF MetadataInv
  <1>2. Collected(Len(md))
    <2>1. PICK n \in 0 .. Len(md) : Remaining(n) /\ Collected(n)
      BY DEF MetadataInv
    <2>2. Len(todo) = 0 /\ Len(todo) = Len(md) - n
      BY <2>1 DEF MetadataInv, Remaining
    <2> QED
      BY <1>1, <2>1, <2>2
  <1>3. PICK m \in 1 .. Len(md) : Name(m) = name
    <2>1. DOMAIN md = 1 .. Len(md)
      BY <1>1
    <2> QED
      BY <2>1, Zenon DEF Name
  <1>4. name # Unsupported /\ name # "inspectTaskName"
    <2>1. md[m][1] \in DOMAIN Pascal
      BY <1>1
    <2> QED
      BY <1>3, <2>1, MetadataAssumption DEF Name
  <1>5. /\ Passed /\ extra \in Seq(Names \X Seq(STRING)) /\ Len(extra) \in Nat
    BY <1>2 DEF MetadataInv, Collected
  <1>6. ASSUME NEW i \in At
        PROVE  /\ Mentioned(name)
               /\ Braced(FirstWith(name)) => ReadValue(args.sets[i][2]).kind = "list"
               /\ ~Braced(FirstWith(name)) => ReadValue(args.sets[i][2]) = Read(name)
    <2>1. i \in 1 .. Len(extra) + 1 /\ i # 1 /\ args.sets[i][1] = name
      BY <1>4, <1>5 DEF Passed
    <2> DEFINE k == i - 1
    <2>2. k \in 1 .. Len(extra) /\ k + 1 = i
      BY <1>5, <2>1
    <2> HIDE DEF k
    <2>3. args.sets[i] = <<extra[k][1], _helm_escape(extra[k][2])>>
      BY <1>5, <2>2 DEF Passed
    <2>4. args.sets[i][1] = extra[k][1] /\ args.sets[i][2] = _helm_escape(extra[k][2])
      BY <2>3
    <2>5. extra[k][2] \in Seq(STRING)
      BY <1>5, <2>2
    <2>6. extra[k][2] \in Texts
      BY <2>5 DEF Texts, Chars
    <2>7. PICK j \in 1 .. Len(md) : /\ First(j) /\ Passable(Name(j))
                                    /\ extra[k][1] = Name(j) /\ extra[k][2] = md[j][2]
      BY <1>2, <2>2 DEF Collected
    <2>8. Name(j) = name
      BY <2>1, <2>4, <2>7
    <2>9. FirstWith(name) = md[j][2]
      <3> DEFINE P(l) == /\ Pascal[md[l][1]] = name
                         /\ \A h \in 1 .. l - 1 : Pascal[md[h][1]] # name
      <3>1. DOMAIN md = 1 .. Len(md)
        BY <1>1
      <3>2. P(j)
        BY <2>7, <2>8 DEF First, Name
      <3>3. \A l \in 1 .. Len(md) : P(l) => l = j
        <4> SUFFICES ASSUME NEW l \in 1 .. Len(md), P(l), l # j
                     PROVE  FALSE
          OBVIOUS
        <4>1. l \in 1 .. j - 1 \/ j \in 1 .. l - 1
          BY <1>1
        <4> QED
          BY <3>2, <4>1
      <3> HIDE DEF P
      <3>4. (CHOOSE l \in DOMAIN md : P(l)) = j
        BY <3>1, <3>2, <3>3
      <3> QED
        BY <3>4, Zenon DEF FirstWith, P
    <2>10. extra[k][2] = FirstWith(name)
      BY <2>7, <2>9
    <2>11. FirstWith(name) \in Texts /\ args.sets[i][2] = _helm_escape(FirstWith(name))
      BY <2>4, <2>6, <2>10
    <2>12. /\ Braced(FirstWith(name)) => ReadValue(args.sets[i][2]).kind = "list"
           /\ ~Braced(FirstWith(name)) => ReadValue(args.sets[i][2]) = Read(name)
      BY <2>11, EscapedValueRead, Zenon DEF Read
    <2> QED
      BY <2>7, <2>8, <2>12 DEF Passable
  <1>7. HelmHas(name) = {ReadValue(args.sets[i][2]) : i \in At}
    BY Zenon DEF HelmHas
  <1>8. CASE Mentioned(name)
    <2>1. PICK k \in 1 .. Len(extra) : extra[k][1] = name
      BY <1>2, <1>3, <1>4, <1>8 DEF Collected, Passable
    <2>2. k + 1 \in DOMAIN args.sets /\ args.sets[k + 1][1] = name
      BY <1>5, <2>1 DEF Passed
    <2>3. k + 1 \in At
      BY <2>2
    <2> HIDE DEF At
    <2>4. CASE Braced(FirstWith(name))
      <3>1. \A read \in HelmHas(name) : read.kind = "list"
        BY <1>6, <1>7, <2>4
      <3> QED
        BY <1>0, <1>8, <2>4, <3>1, Zenon
    <2>5. CASE ~Braced(FirstWith(name))
      <3>1. \A i \in At : ReadValue(args.sets[i][2]) = Read(name)
        BY <1>6, <2>5
      <3>2. HelmHas(name) = {Read(name)}
        BY <1>7, <2>3, <3>1, Zenon
      <3> QED
        BY <1>0, <1>8, <2>5, <3>2, Zenon
    <2> QED
      BY <2>4, <2>5
  <1>9. CASE ~Mentioned(name)
    <2>1. At = {}
      BY <1>6, <1>9
    <2> HIDE DEF At
    <2>2. HelmHas(name) = {}
      BY <1>7, <2>1
    <2> QED
      BY <1>0, <1>9, <2>2, Zenon
  <1> QED
    BY <1>8, <1>9

\* For every metadata of every length, Helm has under each name that the chart or
\* the values file refers to exactly the text of the first entry with that name,
\* whatever characters it holds after the first (_helm_escape); a text that begins
\* with a brace it takes for a list.
THEOREM MetadataDeliveredHolds == ValuesSpec => []MetadataDelivered
  <1> DEFINE IInv == MetadataInv /\ ResolvedInv
  <1>1. ValuesInit => IInv
    BY MetadataInit DEF ValuesInit, ResolvedInv
  <1>2. IInv /\ [ValuesNext]_valuesVars => IInv'
    BY MetadataStep, ResolvedStep
  <1>3. IInv => MetadataDelivered
    BY MetadataRead
  <1> HIDE DEF IInv
  <1> QED
    BY <1>1, <1>2, <1>3, PTL DEF ValuesSpec

=============================================================================
