SPECIFICATION FairSpec
CONSTANTS
  SERVICE_COUNT = 3
  Restart <- MCRestart
  Depends <- MCDepends
  Pids = {1, 2, 3, 4}
PROPERTIES
  FailureIsRestarted
