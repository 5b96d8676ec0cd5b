SPECIFICATION Spec
CONSTANTS
  Remote <- MCRemote
  Schemas = {"plain", "types", "twins", "nowhere"}
  Lists <- MCLists
  Readonly = {TRUE}
  MaxImports = 1
  Alterable = {1, 4}
  MaxAlters = 3
  MaxCols = 2
  MaxParams = 2
  MaxResults = 2
  Chunk = 2
  MaxLength = 6
  TargRows = 2
  MaxRows = 3
INVARIANTS ColumnsDescribed ImportedAsListed ImportedIsUsable DeserializedAsWritten LobWhole SampleCounted
CHECK_DEADLOCK FALSE
