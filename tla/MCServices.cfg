SPECIFICATION MCFairSpec
CONSTANTS
  MaxFaults = 3
  Addresses = {a1, a2}
  Kinds = {"http", "proxy", "grpc"}
  MaxActive = 2
  Watchers = {w1, w2}
  MaxChanges = 4
INVARIANTS RenewsWhatItRevokes WellDefinedLifetime StreamsInOrder AnsweredByItsPong
PROPERTIES NeverBackwards RegisteredWhileWanted WatchProgresses EndsAndCatchesUp
CHECK_DEADLOCK FALSE
