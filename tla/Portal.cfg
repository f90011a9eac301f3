SPECIFICATION FairSpec
CONSTANTS
  Queries <- SomeQueries
  NoQuery = NoQuery
INVARIANTS PortReleased ServesUntilConnected OfferedServerRuns
PROPERTY DnsEnds
