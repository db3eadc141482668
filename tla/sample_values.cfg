SPECIFICATION ValuesSpec
CONSTANTS
  Configs <- MCConfigs
  Metadata <- MCMetadata
  TaskNames <- PlainNames
  EnvLabels <- MCLabels
  Timeouts = {"unset", "text", "0", "600"}
  Pascal <- MCPascal
  Within <- MCWithin
  ChartRefs = {"FooBar"}
  FileRefs = {"Other"}
INVARIANTS MetadataDelivered ComposeConverted
