\* The promise of the flag's documentation.
SPECIFICATION Spec
CONSTANTS
  u1 = u1
  u2 = u2
  b1 = b1
  b2 = b2
  Users = {u1, u2}
  Broken = {}
  Movers = {}
  Boundaries = {b1}
  Batch = 1
  MaxFailures = 0
  MaxRestarts = 0
INVARIANT SweepsExclusive
