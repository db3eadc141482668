------------------------- MODULE MCComposeConverter -------------------------
(* Documents built from sets of features: each service has some, in its own *)
(* dicts or, where Alias names it, in the first service's.                  *)
EXTENDS ComposeConverter, FiniteSetsExt

CONSTANTS
  Features,      \* the first service has up to three of these
  Others,        \* the features the second service may have
  TopFeatures,   \* the features the top level may have
  AliasKeys,     \* keys the second service may share with the first
  Orders         \* the names of the services, in YAML order

Ref(c) == [ref |-> c]
Txt(v) == [v |-> v]

\* The keys a feature adds to the service dict; s is the service's number.
Adds(f, s) ==
  CASE f = "image" -> [image |-> Txt("i"), volumes |-> [mounts |-> {<<"data_1", "/d">>}]]
    [] f = "badEnv" -> [environment |-> [bad |-> TRUE]]
    [] f \in {"health", "slowHealth", "noTest", "odd"} -> [healthcheck |-> Ref(<<"health", s>>)]
    [] f \in {"limits", "reserve", "pids", "replicas", "emptyResources"} ->
         [deploy |-> Ref(<<"deploy", s>>)]
    [] f = "nullDeploy" -> [deploy |-> Null]
    [] f = "mem" -> [mem_limit |-> [n |-> 2, unit |-> "g"]]
    [] f = "memNumber" -> [mem_limit |-> [num |-> 2]]
    [] f = "memTera" -> [mem_limit |-> [n |-> 2, unit |-> "t"]]
    [] f = "cpus" -> [cpus |-> [num |-> 4]]
    [] f = "user" -> [user |-> [uid |-> 1, gid |-> 2]]
    [] f = "badUser" -> [user |-> [bad |-> TRUE]]
    [] f = "seccomp" -> [security_opt |-> [opts |-> <<<<"seccomp", "builtin">>, <<"seccomp", "relative">>>>]]
    [] f = "noOptions" -> [security_opt |-> [opts |-> <<>>]]
    [] f = "apparmor" -> [security_opt |-> [opts |-> <<<<"apparmor", "x">>>>]]
    [] f = "none" -> [network_mode |-> Txt("none")]
    [] f = "host" -> [network_mode |-> Txt("host")]
    [] f = "networks" -> [networks |-> Txt("n")]
    [] f = "hostname" -> [hostname |-> Txt("web")]
    [] f = "marked" -> ("x-default" :> Txt("true"))
    [] f \in {"ext", "extMem", "extOdd", "extFlat"} -> ("x-k8s" :> Ref(<<"ext", s>>))
    [] f = "extText" -> ("x-k8s" :> Txt("t"))
    [] f = "extTwice" -> ("x-inspect_k8s_sandbox" :> Null)
    [] f = "ports" -> [ports |-> Txt("p")]

Cells == {"health", "deploy", "resources", "limits", "reservations", "ext", "extRes", "extReq"}

\* The dict called c of a service with features fs.
Dict(c, s, fs) ==
  LET on(f, d) == IF f \in fs THEN d ELSE <<>>
  IN CASE c = "health" ->
            on("health", [test |-> Txt("CMD"), interval |-> [h |-> 0, m |-> 1, s |-> 30],
                          retries |-> [num |-> 3]])
            @@ on("slowHealth", [test |-> Txt("CMD-SHELL"), timeout |-> Txt("500ms")])
            @@ on("odd", [test |-> Txt("CMD"), disable |-> Txt("true")])
            @@ on("noTest", [interval |-> [h |-> 1, m |-> 0, s |-> 0]])
       [] c = "deploy" -> on("replicas", [replicas |-> [num |-> 2]])
            @@ (IF fs \cap {"limits", "reserve", "pids", "emptyResources"} # {}
                THEN [resources |-> Ref(<<"resources", s>>)] ELSE <<>>)
       [] c = "resources" ->
            (IF fs \cap {"limits", "pids"} # {} THEN [limits |-> Ref(<<"limits", s>>)] ELSE <<>>)
            @@ on("reserve", [reservations |-> Ref(<<"reservations", s>>)])
       [] c = "limits" -> on("limits", [memory |-> [n |-> 1, unit |-> "mb"]])
            @@ on("pids", [pids |-> [num |-> 9]])
       [] c = "reservations" -> [cpus |-> [num |-> 1]]
       [] c = "ext" -> IF fs \cap {"ext", "extMem"} # {} THEN [resources |-> Ref(<<"extRes", s>>)]
                       ELSE IF "extFlat" \in fs THEN [resources |-> Txt("r")]
                       ELSE [other |-> Txt("o")]
       [] c = "extRes" -> [requests |-> Ref(<<"extReq", s>>)]
       [] c = "extReq" -> on("ext", ("ephemeral-storage" :> Txt("80Gi")))
            @@ on("extMem", [memory |-> Txt("1Gi")])

Merge(fs, s) == FoldSet(LAMBDA f, d : Adds(f, s) @@ d, <<>>, fs)

Service(fs, s, shared, first) ==
  LET own == Merge(fs, s)
      theirs == Merge(first, 1)
  IN [k \in DOMAIN own |->
        IF k \in shared /\ k \in DOMAIN theirs THEN theirs[k] ELSE own[k]]

TopAdds(f) ==
  CASE f = "volumes" -> [volumes |-> Ref(<<"vols", 0>>)]
    [] f = "settings" -> [volumes |-> Ref(<<"badVols", 0>>)]
    [] f = "networks" -> [networks |-> Ref(<<"nets", 0>>)]
    [] f = "overlay" -> [networks |-> Ref(<<"badNets", 0>>)]
    [] f = "ext" -> ("x-k8s" :> Ref(<<"topExt", 0>>))
    [] f = "badExt" -> ("x-k8s" :> Ref(<<"badExt", 0>>))
    [] f = "listExt" -> ("x-k8s" :> Txt("l"))
    [] f = "twice" -> ("x-k8s" :> Null) @@ ("x-inspect_k8s_sandbox" :> Null)
    [] f = "secrets" -> [secrets |-> Txt("s")]
    [] f = "nullDriver" -> [networks |-> Ref(<<"nullNets", 0>>)]
    [] f \in {"none", "noServices"} -> [version |-> Txt("3")]

MCLoad(file) ==
  LET fs(s) == IF s = 1 THEN file.first ELSE file.second
      order == file.order
      nums == DOMAIN order
      dicts == [c \in Cells \X nums |-> Dict(c[1], c[2], fs(c[2]))]
      names == [s \in nums |-> <<"service", s>>]
      services == [c \in {names[s] : s \in nums} |-> Service(fs(c[2]), c[2], file.shared, file.first)]
      fixed == [top |-> TopAdds(file.top) @@
                  (IF file.top = "noServices" THEN <<>> ELSE [services |-> Ref(ServicesCell)]),
                services |-> [n \in Range(order) |-> Ref(names[CHOOSE s \in nums : order[s] = n])],
                vols |-> [data_1 |-> Null, logs |-> Null], badVols |-> [data_1 |-> Ref(<<"badNet", 0>>)],
                nets |-> [n |-> Ref(<<"net", 0>>)], badNets |-> [n |-> Ref(<<"badNet", 0>>)],
                nullNets |-> [n |-> Ref(<<"nullNet", 0>>)], nullNet |-> [driver |-> Null],
                net |-> [driver |-> Txt("bridge")], badNet |-> [driver |-> Txt("overlay")],
                topExt |-> [allow_domains |-> [type |-> "list"],
                            service_account_create |-> [type |-> "bool"]],
                badExt |-> [service_account_create |-> [type |-> "str"]]]
  IN [order |-> order, heap |-> [c \in DOMAIN dicts \cup DOMAIN services \cup {<<k, 0>> : k \in DOMAIN fixed} |->
        IF c[2] = 0 THEN fixed[c[1]] ELSE IF c \in DOMAIN services THEN services[c] ELSE dicts[c]]]

\* A second service, and what it shares, only where there is one.
Written(firsts, tops) ==
  [order : {o \in Orders : Len(o) < 2}, first : firsts, second : {{}}, shared : {{}}, top : tops]
  \cup
  [order : {o \in Orders : Len(o) = 2}, first : firsts, second : {{f} : f \in Others},
   shared : SUBSET AliasKeys, top : tops]

\* One feature and every top level, or up to three and the declared volumes; and
\* a file without services.
MCFiles ==
  [order : {<<>>}, first : {{}}, second : {{}}, shared : {{}}, top : {"noServices"}] \cup
  Written({{f} : f \in Features}, TopFeatures) \cup
  Written({{f, g, h} : f \in Features, g \in Features, h \in Features}, {"volumes"})

MCOrders == {<<>>, <<"web">>, <<"web", "db">>, <<"web", "default">>}

MCNames == [data_1 |-> "data-1", logs |-> "logs"]

ASSUME SeparateFiles == \A file \in Files : \A d \in {Load(file)} : Separate(d) /\ Readable(d)

============================================================================
