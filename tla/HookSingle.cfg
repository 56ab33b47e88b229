SPECIFICATION Spec
CONSTANTS
  Fds = {d1, d2}
  Fibers = {f1, f2}
  Parallel = FALSE
  Flags = FALSE
  MaxWaits = 1
  MaxInc = 2
  Null = Null
SYMMETRY HookSymmetry
INVARIANTS ParkedReachable TimeoutPending
