SPECIFICATION Spec
CONSTANTS
  SIZE = 2
  TTL = 2
  Keys = {c1, c2, c3, NoKey, own}
  Own = {own}
  NoKey = NoKey
  Macs = {m1, m2}
  NoMac = NoMac
  MaxTime = 3
INVARIANTS UniqueKeys EntriesAreLatest NothingOutlivesTTL
PROPERTIES EvictsOnlyOldest TableSpec
