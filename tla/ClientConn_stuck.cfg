SPECIFICATION FairSpec
CONSTANTS
  r1 = r1
  r2 = r2
  p1 = p1
  p2 = p2
  Reqs = {r1, r2}
  Pingers = {p1, p2}
  Mixes <- MCMixes
  Limits = {1}
  DefaultLimit = 2
  MaxKeys = 2
PROPERTY CallbacksHonourContext
CHECK_DEADLOCK FALSE
