SPECIFICATION Spec
CONSTANTS
  None = None
  Volumes = {v1, v2}
  SlotOf <- OwnSlot
  Subscribers <- Both
  OnlyAttach <- Wizard
  TheManager = "manager"
  TheWizard = "wizard"
  BusCap = 2
  Debounce = 1
  Grace = 1
  AtBoot = {v1}
  Readers = {v2}
  MaxMoves = 0
  MaxPauses = 0
  Pool <- OneName
  Leitor <- Fallbacks
  UserNames = {"Esquerdo"}
  MaxEdits = 0
  MaxArms = 1
  MayFail = FALSE
PROPERTY UserNameStays
CHECK_DEADLOCK FALSE
