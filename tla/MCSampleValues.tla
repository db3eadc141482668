--------------------------- MODULE MCSampleValues ---------------------------
EXTENDS SampleValues

Chars == {"\\", ",", ".", "=", "{", "}", "a"}
PlainNames == {<<"t">>}

File(names) == [name : names, exists : BOOLEAN]

MCConfigs ==
  [kind : {"none", "other"}, chart : {"none"}, context : {"none"}, file : {NoFile}]
  \cup [kind : {"composeConfig"}, chart : {"none"}, context : {"none"}, file : File({"compose"})]
  \cup [kind : {"path"}, chart : {"none"}, context : {"none"},
        file : File({"values", "compose", "prefixed", "dockerfile"})]
  \cup [kind : {"k8s"}, chart : {"none", "dir", "missing"}, context : {"none", "known", "unknown"},
        file : {NoFile} \cup File({"values", "compose"})]

\* All texts of up to two characters, and lists with something after them.
Texts ==
  {<<>>} \cup {<<c>> : c \in Chars} \cup {<<c, d>> : c \in Chars, d \in Chars}
  \cup {<<"{", c, "}", d>> : c \in Chars, d \in Chars}

\* Two keys with one name, a key whose text is within another's, one refused.
MCPascal == [foo |-> "Foo", Foo |-> "Foo", fooBar |-> "FooBar", other |-> "Other",
             bad |-> Unsupported]
MCWithin == [Foo |-> {"Foo", "FooBar"}, FooBar |-> {"FooBar"}, Other |-> {"Other"}]

MCMetadata ==
  {<<>>} \cup {<<<<"bad", <<"a">>>>, <<"other", <<"a">>>>>>}
  \cup {<<<<k, t>>, <<l, <<"a">>>>>> : k \in {"foo", "fooBar"}, l \in {"Foo", "other"}, t \in Texts}

MCLabels == {<<>>, <<<<"run", "1">>>>, <<<<"run", "1">>, <<"inspectSandbox", "false">>>>}
============================================================================
