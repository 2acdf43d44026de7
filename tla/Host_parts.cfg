SPECIFICATION HostSpec
CONSTANTS
  Procs = {"svc", "ui"}
  Services = {"svc"}
  CopyJobs = {j1}
  Releases <- ThreeVersions
  Scenarios <- ThreeScenarios
  Missing = Missing
  None = None
  Volumes = {v1, v2}
  SlotOf <- OwnSlot
  Subscribers = {"manager"}
  OnlyAttach = {}
  BusCap = 1
  Debounce = 1
  Grace = 1
  AtBoot = {v1}
  MaxMoves = 2
  MaxPauses = 1
  Writers = {w1, w2}
  Lines = {"d1", "e1", "d2", "e2"}
  LevelOf <- DebugOrError
  Levels = {0, 8}
  Limits = {0, 1}
  Capacity = 2
  Blank = Blank
  Trees <- TwoTrees
  Disks = {"left", "right", "only"}
  Devices = {"left", "right", "only", "double", "single", "port", "hub"}
  Numbers = {1, 2, 3}
  MaxDepth = 10
  MaxMisreads = 1
  MaxReplugs = 2
  Nowhere = Nowhere
INVARIANTS TypeOK NoBinaryLost NeverDowngrades UpdateSparesCountedJobs SavedTokenStays InterruptedIsDead OneKeyPerSlot
PROPERTIES  WatcherFollows KeepsLatestLines
CHECK_DEADLOCK FALSE
