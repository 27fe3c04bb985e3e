SPECIFICATION Spec
CONSTANTS
  Writers = {w1, w2}
  Readers = {r1, r2}
  Limits <- MCLimits
  Chunks = {1}
  MaxBytes = 2
SYMMETRY Symmetry
INVARIANTS TypeOK Fifo ExactlyOnce Bounded NoLostWakeup
PROPERTY ImplementsStream
