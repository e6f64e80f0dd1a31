CONSTANTS
  Clients = {c1, c2}
  Backlog = 1
  Ttl = 1
  MaxClock = 3
  MaxRestarts = 1
  Faults = {"closed", "silent"}
  Server = Server
  Nobody = Nobody
  Absent = Absent
  Nullopt = Nullopt
SPECIFICATION FairSpec
INVARIANTS
  OwnResult
  NoUnexpectedReply
  RefusedOnlyIfLate
PROPERTY EveryClientEnds
CHECK_DEADLOCK FALSE
