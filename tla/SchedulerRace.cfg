SPECIFICATION Spec
CONSTANTS
  Workers = {w1, w2}
  w1 = w1
  w2 = w2
  any = any
  Caller = caller
  UseCaller = FALSE
  Fibers = {f1, f2, f3}
  Cbs = {c1, c2}
  Null = Null
  AnyThread = any
  Pins = {any, w1}
  Polls = TRUE
  MaxSuspends = 2
INVARIANTS CountersCover CbOnce
PROPERTIES ImplementsPool
SYMMETRY CbSymmetry
