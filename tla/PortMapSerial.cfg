SPECIFICATION Spec
CONSTANTS
  k1 = k1
  k2 = k2
  d1 = d1
  d2 = d2
  httpd = httpd
  console = console
  Tasks = {httpd, console}
  AbortOnError = {console}
  PORTMAP_MAX = 2
  Keys = {k1, k2}
  Dests = {d1, d2}
  Requests <- DuplicateRequests
  Addrs = {a1, a2}
  StaticIp = NoAddr
  NoAddr = NoAddr
  Zero = Zero
  NoRule = NoRule
  Unmapped = Unmapped
  BridgeMode = FALSE
  NvsReadFails = TRUE
  Serialized = TRUE
INVARIANT ForwardsOnlyRules
PROPERTIES ReconnectRestores StoreSpec
