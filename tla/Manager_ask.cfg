SPECIFICATION Spec
CONSTANTS
  j1 = j1  j2 = j2  j3 = j3
  c1 = c1  c2 = c2  ssd = ssd
  None = None
  Jobs = {j1, j2}
  Drives = {c1, c2}
  Removable = {c1}
  DefaultDrive = c2
  Serials = {c1}
  SerialOf <- IdentitySerials
  UnknownPolicies = {"ask"}
  UserAnswers = {"copy", "always_ignore"}
  CardEdits = {"unknown"}
  CancelTargets = {j1, j2}
  DestChoices = {}
  MaxConcurrent = 1
  Pluggable = {c1}
  MayStop = TRUE
  InboxCap = 1
SYMMETRY JobSymmetry
INVARIANTS OneOwnerPerJob ActiveJobHasOwner
 
