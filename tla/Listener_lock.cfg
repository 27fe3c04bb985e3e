SPECIFICATION ListenerSpec
CONSTANTS
  Procs = {p1, p2, p3}
  AddressKinds = {"unix", "mode", "badmode", "abstract", "tcp", "localhost", "domain"}
  MaxListens = 4
INVARIANTS LockExcludes
CHECK_DEADLOCK FALSE
