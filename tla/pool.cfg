\* Goroutines that list, update and create rows, for ever; all of it may fail.
SPECIFICATION PoolFairSpec
CONSTANTS
  c1 = c1  c2 = c2  c3 = c3
  i1 = i1  i2 = i2
  v1 = v1  v2 = v2
  None = None
  Caller = {c1, c2}
  Id = {i1, i2}
  Value = {v1, v2}
INVARIANT
  PoolTypeOK
PROPERTIES
  CallsAtomic
  CallsReturn
