SPECIFICATION Spec
CONSTANTS
  Own = dsp
  Chips = {msu1, scc}
  Skew = 2
  Burst = 2
  Capacity = 10
  MaxSize = 12
  MaxJolts = 2
INVARIANT AllMixed
