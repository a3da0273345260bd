SPECIFICATION ConsulSpec
CONSTANTS
  Urls = {"u1", "u2"}
  DataSizes = {0, 3}
  BufferSize = 2
  MaxCalls = 2
  TlsConfigs <- PlainOnly
  Clients = {"c1", "c2"}
  Keys <- TwoKeys
  Separator = "/"
  Uses <- MCUses
  ConsulObj <- WithToken
  KvParams <- NoKvToken
  MaxIndex = 3
  MaxValue = 3
  MaxFaults = 1
  Ids <- MCIds
  Names = {"amf", "smf"}
  TagLists <- MCTagLists
  Targets <- MCTargets
  Kinds = {"none", "ttl", "http"}
  MaxOps = 3
  Bytes = {0, 27, 165, 255}
  MaxBytes = 4
  CharsPerLine = 4
  MaxForeign = 2
  Texts <- MCTexts
  CommentTexts <- MCCommentTexts
  Values <- NestedValues
  MaxDepth = 2
  ByteStrings <- SomeStrings
  Escapes = {"a", "hi", "lo", "e9", "n", "none", "control", "cut"}
  MaxLexemes = 4
  Numbers <- SomeNumbers
  IntMax = 127
  IntDigits10 = 2
INVARIANTS
  CallsIndependent KvReliable RegistryFaithful CodeKeepsValue ReadsJson ReadsScalars
CHECK_DEADLOCK FALSE
