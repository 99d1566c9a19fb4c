CONSTANTS
  Ids = {i1, i2, i3}
  Limits = {0, 2}
  Tokens = {eos, a}
  Eos = eos
  NgramSize = 3
  MaxBatch = 2
  MaxTokens = 2
  MaxCalls = 4
SPECIFICATION Spec
SYMMETRY IdSymmetry
INVARIANTS
  TypeOK
  StreamExact
  RunningKept
PROPERTY DropsOldest
CHECK_DEADLOCK FALSE
