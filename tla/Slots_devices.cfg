SPECIFICATION Spec
CONSTANTS
  None = None
  Volumes = {v1, v2}
  SlotOf <- OwnSlot
  Subscribers <- Both
  OnlyAttach <- Wizard
  TheManager = "manager"
  TheWizard = "wizard"
  BusCap = 2
  Debounce = 1
  Grace = 1
  AtBoot = {v1}
  Readers = {v2}
  MaxMoves = 2
  MaxPauses = 0
  Pool <- OneName
  Leitor <- Fallbacks
  UserNames = {"Davi"}
  MaxEdits = 1
  MaxArms = 1
  MayFail = TRUE
INVARIANTS TypeOK ViewFollows EventsAlternate ReuseOnlyIfUnlogged LogExplainsNames JobKeepsItsSlot
CHECK_DEADLOCK FALSE
