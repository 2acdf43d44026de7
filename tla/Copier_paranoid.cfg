SPECIFICATION Spec
CONSTANTS
  j1 = j1  j2 = j2  a = a  b = b
  None = None
  Damaged = Damaged
  Jobs = {j1, j2}
  Files = {a, b}
  Contents = {a, b}
  Card <- Cards
  ContentOf <- Itself
  KeyOf <- OneKey
  NameOf <- OneName
  Retries = 1
  Paranoid = TRUE
  MayMisread = FALSE
  MayMiswrite = TRUE
  MayCrash = TRUE
INVARIANTS TypeOK IndexSound NoOrphans
PROPERTIES KeepsThePromise RenamedOnlyIfHashMatches
