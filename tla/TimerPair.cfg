SPECIFICATION Spec
CONSTANTS
  Timers = {1, 2}
  Pollers = {p1}
  Intervals = {1}
  MinNow = 1
  MaxNow = 3
  RollMs = 1
INVARIANTS CbIffQueued OneShotOnce FrontNotified
PROPERTIES CancelledStaysOut
