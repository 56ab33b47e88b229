SPECIFICATION Spec
CONSTANTS
  Fds = {2}
  InitSize = 2
  MaxGen = 1
  Fibers = {f1, f2}
  Cbs = {c1}
  Pollers = {p1, p2}
  MaxEvents = 64
  Calls = {"addEvent", "delEvent", "cancelEvent", "cancelAll", "close"}
  Hups = TRUE
  Null = Null
INVARIANTS CountMatches CtxAssertHolds   
