SPECIFICATION Spec
CONSTANTS
  i1 = i1  i2 = i2  t1 = t1
  r1 = r1  r2 = r2  r3 = r3  r4 = r4  x1 = x1
  Instances = {i1}
  Tools = {}
  Requests = {r1, r2, r3, r4}
  Old = {x1}
  InstanceOf <- MCInstanceOf
  OldNumber <- MCOldNumber
  First = 1
  Last = 5
INVARIANTS TypeOK UniqueNumbers
PROPERTY NeverRewinds
CHECK_DEADLOCK FALSE
