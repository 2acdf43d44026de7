SPECIFICATION FairSpec
CONSTANTS
  c1 = c1  c2 = c2
  None = None
  Jobs = {j1}
  Alerts = {a1}
  Chats = {c1, c2}
  Configs <- AllConfigs
  Off <- NotConfigured
  SubCap = 2
  QueueCap = 2
  Retries = 1
  MaxFaults = 2
  MaxBuildFails = 1
  MaxChanges = 1
  MaxProgress = 1
INVARIANTS TypeOK OrderUnlessRetried  
PROPERTIES EndIsLastWord  SettingsTakeEffect
CHECK_DEADLOCK FALSE
