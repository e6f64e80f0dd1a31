CONSTANTS
  Clients = {c1, c2}
  Backlog = 1
  Ttl = 1
  MaxClock = 3
  MaxRestarts = 1
  Faults = {"closed"}
  Server = Server
  Nobody = Nobody
  Absent = Absent
  Nullopt = Nullopt
SPECIFICATION Spec
INVARIANT ServerStaysUp
CHECK_DEADLOCK FALSE
