\* Liveness: no symmetry.
SPECIFICATION Spec
CONSTANTS
  u1 = u1
  u2 = u2
  b1 = b1
  b2 = b2
  Users = {u1, u2}
  Broken = {u2}
  Movers = {u1}
  Boundaries = {b1, b2}
  Batch = 1
  MaxFailures = 1
  MaxRestarts = 1
INVARIANTS TypeOK FlagTracksSweeps
PROPERTIES PlayedIsStored OpenBoundarySwept
