SPECIFICATION MCSpec
CONSTANTS
  Calls = {c1, c2}
  Procs = {p1, p2, p3}
  AddressKinds = {"unix", "mode", "badmode", "abstract", "tcp", "localhost", "domain"}
  MaxListens = 4
  Addresses = {a1, a2}
  Subs = {s1, s2}
  Cleaners = {k1}
  Timers = {t1}
  Publishers = {q1}
SYMMETRY Symmetry
INVARIANTS CallsEndAsAnswered OneCallOneStream OwnAnswer FramesInStep CallsWhatWasNamed CompleteFieldsOnly ReadsBack OptionsInForce OneListener Delivered ListIsRight
CHECK_DEADLOCK FALSE
