SPECIFICATION Spec
CONSTANTS
  k1 = k1
  k2 = k2
  d1 = d1
  d2 = d2
  httpd = httpd
  console = console
  Tasks = {httpd, console}
  AbortOnError = {console}
  PORTMAP_MAX = 2
  Keys = {k1, k2}
  Dests = {d1, d2}
  Requests <- DistinctRequests
  Addrs = {a1}
  StaticIp = NoAddr
  NoAddr = NoAddr
  Zero = Zero
  NoRule = NoRule
  Unmapped = Unmapped
  BridgeMode = TRUE
  NvsReadFails = TRUE
  Serialized = FALSE
INVARIANTS OwnChangeKept QuietIsSaved
