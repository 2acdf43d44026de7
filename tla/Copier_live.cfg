SPECIFICATION FairSpec
CONSTANTS
  j1 = j1  j2 = j2  a = a  b = b
  None = None
  Damaged = Damaged
  Jobs = {j1, j2}
  Files = {a, b}
  Contents = {a, b}
  Card <- Singles
  ContentOf <- Itself
  KeyOf <- OneKey
  NameOf <- OneName
  Retries = 1
  Paranoid = TRUE
  MayMisread = FALSE
  MayMiswrite = FALSE
  MayCrash = FALSE
PROPERTY JobsEnd
