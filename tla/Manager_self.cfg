SPECIFICATION Spec
CONSTANTS
  j1 = j1  j2 = j2  j3 = j3
  c1 = c1  c2 = c2  ssd = ssd
  None = None
  Jobs = {j1, j2}
  Drives = {c1, ssd}
  Removable = {c1, ssd}
  DefaultDrive = c1
  Serials = {c1, ssd}
  SerialOf <- IdentitySerials
  UnknownPolicies = {"copy"}
  UserAnswers = {}
  CardEdits = {}
  CancelTargets = {}
  DestChoices = {ssd}
  MaxConcurrent = 1
  Pluggable = {c1, ssd}
  MayStop = FALSE
  InboxCap = 2
SYMMETRY JobSymmetry
PROPERTY NeverIngestsDestination
