SPECIFICATION FairSpec
CONSTANTS
  Workers = {}
  w1 = w1
  w2 = w2
  any = any
  Caller = caller
  UseCaller = TRUE
  Fibers = {f1, f2, f3}
  Cbs = {c1, c2}
  Null = Null
  AnyThread = any
  Pins = {any, caller}
  Polls = TRUE
  MaxSuspends = 2
INVARIANTS StopDrains NoFault StopLeavesNothingArmed
 
