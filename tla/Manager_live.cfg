SPECIFICATION FairSpec
CONSTANTS
  j1 = j1  j2 = j2  j3 = j3
  c1 = c1  c2 = c2  ssd = ssd
  None = None
  Jobs = {j1, j2}
  Drives = {c1, c2, ssd}
  Removable = {c1, c2}
  DefaultDrive = ssd
  Serials = {c1, c2}
  SerialOf <- IdentitySerials
  UnknownPolicies = {"copy"}
  UserAnswers = {}
  CardEdits = {}
  CancelTargets = {j1}
  DestChoices = {}
  MaxConcurrent = 1
  Pluggable = {ssd}
  MayStop = FALSE
  InboxCap = 2
PROPERTY PendingIsResolved
