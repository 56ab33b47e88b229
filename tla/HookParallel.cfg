SPECIFICATION Spec
CONSTANTS
  Fds = {d1}
  Fibers = {f1, f2}
  Parallel = TRUE
  Flags = TRUE
  MaxWaits = 1
  MaxInc = 2
  Null = Null
SYMMETRY HookSymmetry
INVARIANTS WaitSettled ManagedNonblock
