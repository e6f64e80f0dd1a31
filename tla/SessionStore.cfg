CONSTANTS
  Threads = {t1, t2}
  Ids = {a, b}
  Pubs = {p, q}
  Ttl = 1
  MaxClock = 3
  Absent = Absent
  Nullopt = Nullopt
  Free = Free
SPECIFICATION FairSpec
PROPERTIES
  LastUsedNeverGoesBack
  MutexIsReleased
  ImplementsAbs
