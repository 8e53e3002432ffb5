SPECIFICATION SupSpec
CONSTANTS
  ServiceDirs <- MCServiceDirs
  MaxExits = 1
  MaxSpawnFails = 1
  MaxDeaths = 2
INVARIANTS
  DependenciesFirst
PROPERTIES
  ServiceComesBack
  WmComesBack
CHECK_DEADLOCK FALSE
