SPECIFICATION Spec
CONSTANTS
  None = None
  Versions <- MCVersions
  Hosts <- MCHosts
  Requests <- MCRequests
  Sites <- MCSites
  Wants <- MCWants
  Precedence <- MCPrecedence
  MaxCommands = 2
  MaxFaults = 1
  MaxCrashes = 1
CHECK_DEADLOCK FALSE
INVARIANTS InstalledWorks UninstalledIsGone UninstallResumable UnchangedMeansUnchanged
PROPERTIES ProgramNeverLost SettingsKept NoSilentDowngrade
