SPECIFICATION LogSpec
CONSTANTS
  Capacity = 1
  MaxRetries = 1
  MaxLines = 2
  MaxSegments = 2
PROPERTIES
  EndedLogEndsRequest
CHECK_DEADLOCK FALSE
