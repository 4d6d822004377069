SPECIFICATION Spec
CONSTANTS
  Files <- FilesValue
  MaxSize = 105
  Capacity = 10
INVARIANT BufferIsBehindChannel
PROPERTIES
  RefinesPlainReader
  ParseEndsUnlessStringIsCut
CHECK_DEADLOCK FALSE
