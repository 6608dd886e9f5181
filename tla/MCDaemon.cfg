SPECIFICATION DaemonSpec
CHECK_DEADLOCK FALSE
CONSTANTS
  HandWritten <- MCHandWritten
  LinkSpots <- MCLinkSpots
  Selections <- MCSelections
  KillAfter = {1, 3, 8}
  MaxCommands = 2
  Configurations <- MCConfigurations
INVARIANTS ShutdownClean
PROPERTIES  SettingsKept 
