\* Eviction: 2 keys, 2 draws a round, a counter of 2 bits.
SPECIFICATION Spec
SYMMETRY KeySymmetry
CONSTANTS
  Keys = {k1, k2}
  Collections = {}
  MaxLen = 1
  MaxTime = 1
  Bits = 2
  LfuInit = 1
  Samples = 2
  MaxEvictionsPerPass = 1
  Configs <- Settings
  Deadlines = {1, 2}
  Sizes = {1}
  Besides = {0, 2}
  MaxBatch = 2
  MaxClock = 3
  MaxMinute = 2
INVARIANTS
  TypeOK
  TakesWhatItMay
  LruKeepsTheReRead
  IdleGoesFirst
PROPERTIES
  NoGrowthOverLimit
