SPECIFICATION FairSpec
CONSTANTS
  WebRequests <- MCWebRequests
  ConsoleRequests <- MCConsoleRequests
  Strings <- MCStrings
  Short = {"", "short"}
  ValidMacs = {"m1"}
  ValidIps = {"ip"}
  ValidMasks = {"mask"}
  ValidOctets = {"4", "7"}
  ValidPowers = {"8", "20", "80"}
  PowerOption <- MCPowerOption
  LongNames = {"toolong"}
  MaxRequests = 3
  MaxCuts = 1
INVARIANTS TypeOK NextBootAsAsked PagesKeep
PROPERTIES OpensOnlyOnRequest PasswordGuards AppliedAfterRestart
CHECK_DEADLOCK FALSE
