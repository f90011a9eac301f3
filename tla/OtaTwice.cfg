SPECIFICATION OtaSpec
CONSTANTS
  Downloads = 2
  Uploads = 0
  CHUNKS = 2
INVARIANT OneWriter
CHECK_DEADLOCK FALSE
