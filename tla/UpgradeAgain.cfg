SPECIFICATION Spec
CONSTANTS
  None = None
  Versions <- MCVersions
  Hosts <- JustInstalled
  Requests <- MCRequests
  Sites <- GoodSite
  Wants <- NoWants
  Precedence <- MCPrecedence
  MaxCommands = 2
  MaxFaults = 0
  MaxCrashes = 1
CHECK_DEADLOCK FALSE
INVARIANT UpgradeAgainCompletes
