SPECIFICATION FairSpec
CONSTANTS
  Threads = {wifi, tcpip}
  QueueMax = 3
INVARIANTS HooksCallOriginals HooksFollowLink
PROPERTY BridgeComesUp
