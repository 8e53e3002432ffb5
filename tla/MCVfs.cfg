SPECIFICATION Spec
CONSTANTS
  block_size = 2
  NDirect = 1
  inodes_per_group = 3
  Task = {t1}
  Path <- MCPath
  MountPath <- MCMount
  NFd = 2
  FirstPipeFd = 0
  MAX_MOUNTS = 2
  File = {1, 2, 3}
  MaxPipes = 1
  Device = {"disk", "sparse", "blank"}
  Image <- MCImage
  U64 = 8
  Lens = {3}
  Seeks <- MCSeeks
  MaxNow = 1
INVARIANTS
  DescriptorsSound
  EndsFollowFiles
  PathsResolve
  ReadExact
CHECK_DEADLOCK FALSE
