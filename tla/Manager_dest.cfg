SPECIFICATION Spec
CONSTANTS
  j1 = j1  j2 = j2  j3 = j3
  c1 = c1  c2 = c2  ssd = ssd
  None = None
  Jobs = {j1, j2}
  Drives = {c1, ssd}
  Removable = {c1}
  DefaultDrive = ssd
  Serials = {c1}
  SerialOf <- IdentitySerials
  UnknownPolicies = {"copy"}
  UserAnswers = {}
  CardEdits = {}
  CancelTargets = {j1, j2}
  DestChoices = {ssd}
  MaxConcurrent = 1
  Pluggable = {c1, ssd}
  MayStop = TRUE
  InboxCap = 1
SYMMETRY JobSymmetry
INVARIANTS TypeOK OneOwnerPerJob ActiveJobHasOwner  CopyingWithinLimit
PROPERTY FinishedIsFinal
