CONSTANTS
  Levels = 2
  KskDigits = 3
  PrimeDigits = 2
  N = 2
  Seeds = {s1, s2, s3}
  Original = original
  CanFail = TRUE
SPECIFICATION FairSpec
INVARIANTS
  CiphertextsMatch
  NoMaskReuse
PROPERTY KeysAreRebuilt
CHECK_DEADLOCK FALSE
