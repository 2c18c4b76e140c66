CONSTANTS
  s1 = s1
  s2 = s2
  StationIds <- MCStations
  Inis <- MCLists
  MaxEdits = 2
  MaxCodeFaults = 2
  Observers <- MCStations
  Lists <- MCLists
  Refused <- MCRefused
  MaxMinutes = 2
  MaxSurfFaults = 1
  Tables <- MCTables
  Tasks <- MCTasks
  Configs <- MCConfigs
  Unfit <- MCUnfit
  MaxXmls = 2
  MaxRecords = 2
  MaxColFaults = 1
  Blocks = 2
  MaxVersions = 2
  MaxCommands = 12
  MaxFtpFaults = 1
SPECIFICATION LoadersSpec
CHECK_DEADLOCK FALSE
INVARIANT AbsentIsNull
