SPECIFICATION FairSpec
CONSTANTS
  Writers = {w1, w2}
  Readers = {r1}
  Limits = {0}
  Chunks = {0, 1}
  MaxBytes = 2
PROPERTY CallsEnd
