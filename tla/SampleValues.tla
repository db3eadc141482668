---------------------------- MODULE SampleValues ----------------------------
(***************************************************************************)
(* From the sandbox configuration of a sample to the arguments of its       *)
(* `helm install`, and what Helm reads in them: the resolution of the       *)
(* configuration, the choice and the content of the values file, the        *)
(* sample's metadata as --set-string values, the release's labels.          *)
(*                                                                          *)
(* Text that reaches Helm is a sequence of characters, because Helm's --set *)
(* parser gives some of them a meaning.  Names of files and of metadata     *)
(* keys are abstract.                                                       *)
(***************************************************************************)
EXTENDS Naturals, Sequences

Seqs == INSTANCE SequencesExt

CONSTANTS
  Configs,     \* configurations: [kind, chart, context, file]
  Metadata,    \* the sample's metadata: sequences of <<key, text>>
  TaskNames,   \* names of tasks: texts
  EnvLabels,   \* INSPECT_HELM_LABELS: sequences of <<key, value>>
  Timeouts,    \* INSPECT_HELM_TIMEOUT: "unset", "text", or a number
  Pascal,      \* a function: _key_to_pascal of a key, Unsupported for other characters
  Within,      \* a function: the names whose text contains a name's text
  ChartRefs,   \* names that the files of the chart refer to
  FileRefs     \* names that the values file refers to

\* The sample's metadata is text under keys, and the name made of a key is never
\* that of the value that holds the task's name.
ASSUME MetadataAssumption ==
  /\ Metadata \subseteq Seq((DOMAIN Pascal) \X Seq(STRING))
  /\ \A key \in DOMAIN Pascal : Pascal[key] # "inspectTaskName"

VARIABLES
  config,      \* what the user supplied
  given,       \* the other inputs: [metadata, task, labels, timeout]
  pc,          \* the next step, or how it ended
  resolved,    \* _ResolvedConfig: [chart, values, compose]
  todo,        \* metadata entries not yet looked at
  extra,       \* extra_values: <<name, text>> in the order they were added
  source,      \* the kind of the release's values source
  passed,      \* what `--values` gives Helm: "none", a file "asIs", or "converted"
  args         \* [sets: <<key, text>> after --set, labels: <<key, value>>]

valuesVars == <<config, given, pc, resolved, todo, extra, source, passed, args>>

NoFile == [name |-> "none", exists |-> FALSE]
Unsupported == "unsupported"
Defaults == [chart |-> "builtin", values |-> NoFile, compose |-> NoFile]

ValuesInit ==
  /\ config \in Configs
  /\ given \in [metadata : Metadata, task : TaskNames, labels : EnvLabels,
                timeout : Timeouts]
  /\ pc = "resolve"
  /\ resolved = Defaults
  /\ todo = given.metadata
  /\ extra = <<>>
  /\ source = "none"
  /\ passed = "none"
  /\ args = [sets |-> <<>>, labels |-> <<>>]

Fail ==
  /\ pc' = "error"
  /\ UNCHANGED <<config, given, resolved, todo, extra, source, passed, args>>

-----------------------------------------------------------------------------
(* _validate_and_resolve_k8s_sandbox_config                                 *)

\* is_compose_yaml and is_dockerfile are Inspect's (external); file.name is
\* "compose" for a name both accept, "prefixed" for one only
\* is_docker_compose_file does, as in my-compose.yaml.
is_docker_compose_file(file) == file.name \in {"compose", "prefixed"}

\* A missing file, chart directory or context is refused.
Invalid ==
  CASE config.kind = "none" -> FALSE
    [] config.kind = "k8s" -> \/ config.chart = "missing" \/ config.context = "unknown"
                              \/ config.file # NoFile /\ ~config.file.exists
    [] config.kind = "composeConfig" -> FALSE
    [] config.kind = "path" -> ~config.file.exists
    [] config.kind = "other" -> TRUE

ToCompose ==
  \/ config.kind = "composeConfig"
  \/ config.kind = "path" /\ config.file.name \in {"compose", "dockerfile"}

Resolve ==
  /\ pc = "resolve"
  /\ \/ Invalid /\ Fail
     \/ /\ ~Invalid
        /\ resolved' =
             [chart |-> IF config.kind = "k8s" /\ config.chart # "none" THEN "custom" ELSE "builtin",
              values |-> IF ToCompose THEN NoFile ELSE config.file,
              compose |-> IF ToCompose THEN config.file ELSE NoFile]
        /\ pc' = "metadata"
        /\ UNCHANGED <<config, given, todo, extra, source, passed, args>>

-----------------------------------------------------------------------------
(* _metadata_to_extra_values: one entry per step, in order                  *)

\* What _read_chart_config_text reads mentions the name: a substring test.
Mentioned(name) ==
  \E ref \in ChartRefs \cup (IF resolved.values # NoFile THEN FileRefs ELSE {}) :
    ref \in Within[name]

AddedNames == {extra[i][1] : i \in DOMAIN extra}

Clashes(name) == name \in AddedNames

ConvertKey ==
  /\ pc = "metadata" /\ todo # <<>>
  /\ LET name == Pascal[Head(todo)[1]]
     IN extra' = IF name = Unsupported \/ Clashes(name) \/ ~Mentioned(name) THEN extra
                 ELSE Append(extra, <<name, Head(todo)[2]>>)
  /\ todo' = Tail(todo)
  /\ UNCHANGED <<config, given, pc, resolved, source, passed, args>>

-----------------------------------------------------------------------------
(* _create_release and the values sources                                   *)

\* BUG: only an in-memory ComposeConfig is recognised.
SourceOfConfigOnly ==
  IF resolved.compose # NoFile THEN "composeConfig" ELSE "static"

SourceOf ==
  IF resolved.compose # NoFile THEN "composeConfig"
  ELSE IF is_docker_compose_file(resolved.values) THEN "composeFile" ELSE "static"

\* Converting needs the built-in chart.
_create_values_source ==
  /\ pc = "metadata" /\ todo = <<>>
  /\ \/ SourceOf # "static" /\ resolved.chart = "custom" /\ Fail
     \/ /\ SourceOf = "static" \/ resolved.chart = "builtin"
        /\ source' = SourceOf
        /\ pc' = "values"
        /\ UNCHANGED <<config, given, resolved, todo, extra, passed, args>>

\* A static file is passed as it is.  Of a Compose file the converted values are
\* passed, unless the converter refuses it or validate_no_null_values finds a
\* null in what it made.
ValuesFile ==
  /\ pc = "values"
  /\ \/ source # "static" /\ Fail
     \/ /\ passed' = IF source # "static" THEN "converted"
                     ELSE IF resolved.values = NoFile THEN "none" ELSE "asIs"
        /\ pc' = "install"
        /\ UNCHANGED <<config, given, resolved, todo, extra, source, args>>

-----------------------------------------------------------------------------
(* _install: the arguments                                                  *)

\* The characters that mean something in a --set value.
Backslash == "\\"
Comma == ","
Dot == "."
Equals == "="

\* Every c in the text gets a backslash before it.
Escaped(text, c) ==
  Seqs!FlattenSeq([i \in DOMAIN text |-> IF text[i] = c THEN <<Backslash, c>> ELSE <<text[i]>>])

\* BUG: backslashes are escaped after the characters they escape.
EscapeBackslashLast(text) ==
  Escaped(Escaped(Escaped(Escaped(text, Comma), Dot), Equals), Backslash)

_helm_escape(text) ==
  Escaped(Escaped(Escaped(Escaped(text, Backslash), Comma), Dot), Equals)

\* INSPECT_HELM_TIMEOUT must be a positive integer.
TimeoutInvalid == given.timeout = "text" \/ given.timeout \in {"0", "-1"}

Refused == <<>>

\* The label that `helm list --selector` looks for is always added; a user's
\* label of that name is refused.
_labels_arg ==
  IF \E i \in DOMAIN given.labels : given.labels[i][1] = "inspectSandbox" THEN Refused
  ELSE given.labels \o <<<<"inspectSandbox", "true">>>>

\* The task name goes after --set as it is, the metadata escaped.
_install ==
  /\ pc = "install"
  /\ \/ (TimeoutInvalid \/ _labels_arg = Refused) /\ Fail
     \/ /\ ~TimeoutInvalid /\ _labels_arg # Refused
        /\ args' = [sets |-> <<<<"inspectTaskName", given.task>>>>
                             \o [i \in DOMAIN extra |-> <<extra[i][1], _helm_escape(extra[i][2])>>],
                    labels |-> _labels_arg]
        /\ pc' = "installed"
        /\ UNCHANGED <<config, given, resolved, todo, extra, source, passed>>

ValuesEnded == pc \in {"installed", "error"} /\ UNCHANGED valuesVars

ValuesNext == Resolve \/ ConvertKey \/ _create_values_source \/ ValuesFile \/ _install \/ ValuesEnded

ValuesSpec == ValuesInit /\ [][ValuesNext]_valuesVars

-----------------------------------------------------------------------------
(* What Helm reads (external): strvals, as --set and --set-string use it.   *)

OpenBrace == "{"
CloseBrace == "}"

\* A text ends at the first comma that no backslash protects; what follows is
\* read as another assignment.
ReadText(text) ==
  LET from[i \in 1 .. Len(text) + 2] ==
        IF i > Len(text) THEN [value |-> <<>>, more |-> FALSE]
        ELSE IF text[i] = Comma THEN [value |-> <<>>, more |-> TRUE]
        ELSE IF text[i] = Backslash /\ i < Len(text)
          THEN [from[i + 2] EXCEPT !.value = <<text[i + 1]>> \o @]
        ELSE IF text[i] = Backslash THEN from[i + 1]
        ELSE [from[i + 1] EXCEPT !.value = <<text[i]>> \o @]
  IN from[1]

\* A list ends at the first closing brace that no backslash protects (there must
\* be one) and a comma after it; what follows is another assignment.  Its items
\* are left out.
ReadList(text) ==
  LET brace[i \in 2 .. Len(text) + 2] ==
        IF i > Len(text) \/ text[i] = CloseBrace THEN i
        ELSE IF text[i] = Backslash THEN brace[i + 2] ELSE brace[i + 1]
      end == brace[2]
  IN [closed |-> end <= Len(text),
      more |-> end < Len(text) /\ (text[end + 1] = Comma => end + 1 < Len(text))]

Braced(text) == text # <<>> /\ text[1] = OpenBrace

\* A value that begins with a brace is a list, whatever the flag.
ReadValue(text) ==
  IF Braced(text) THEN [kind |-> "list", is |-> ReadList(text)]
  ELSE [kind |-> "text", is |-> ReadText(text)]

\* The values that Helm has under a key.
HelmHas(k) == {ReadValue(args.sets[i][2]) : i \in {i \in DOMAIN args.sets : args.sets[i][1] = k}}

-----------------------------------------------------------------------------
(* Properties                                                               *)

\* The first entry of the metadata that has a name.
FirstWith(name) ==
  given.metadata[CHOOSE i \in DOMAIN given.metadata :
    /\ Pascal[given.metadata[i][1]] = name
    /\ \A j \in 1 .. i - 1 : Pascal[given.metadata[j][1]] # name][2]

\* A name the chart refers to, or the file the sample is configured with.  A file
\* that is configured as a Compose file or a Dockerfile is not looked at.
Referred(name) ==
  \E ref \in ChartRefs \cup (IF config.file # NoFile /\ ~ToCompose THEN FileRefs ELSE {}) :
    ref \in Within[name]

\* "Each must be escaped with a leading backslash so the value is passed through
\* literally" (_helm_escape): under each name that the chart or the values file
\* refers to Helm has exactly the text of the first metadata key with that name,
\* which sets nothing else, and no other name is set.  The exception is a text
\* that begins with `{`, which is not among the escaped characters: Helm never
\* has it as a text, but takes it for a list, or refuses it for want of a `}`.
MetadataDelivered ==
  pc = "installed" =>
    \A name \in {Pascal[given.metadata[i][1]] : i \in DOMAIN given.metadata} \ {Unsupported} :
      IF ~Referred(name) THEN HelmHas(name) = {}
      ELSE IF Braced(FirstWith(name)) THEN \A read \in HelmHas(name) : read.kind = "list"
      ELSE HelmHas(name) = {[kind |-> "text", is |-> [value |-> FirstWith(name), more |-> FALSE]]}

\* A Compose file never reaches Helm unconverted, whichever way it was
\* configured, and what is converted is installed with the built-in chart.
ComposeConverted ==
  pc = "installed" =>
    /\ config.file.name \in {"compose", "prefixed"} => passed = "converted"
    /\ passed = "converted" => config.kind # "k8s" \/ config.chart = "none"

=============================================================================
