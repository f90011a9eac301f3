SPECIFICATION Spec
CONSTANTS
  Queries <- SomeQueries
  NoQuery = NoQuery
INVARIANT NoDhcpInBridge
