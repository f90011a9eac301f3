SPECIFICATION PolledSpec
CONSTANTS
  Downloads = 2
  Uploads = 2
  CHUNKS = 3
INVARIANTS BootsCompleteImage UploadAlone UploadReleasesFlag
PROPERTY RebootFollows
CHECK_DEADLOCK FALSE
