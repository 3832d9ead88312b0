CONSTANTS
  Events = {e1, e2}
  Callers = {game, net}
  Dispatcher = game
  Delays = {0, 1, 2}
  MaxTime = 3
  MaxId = 3
  NoEvent = NoEvent
SPECIFICATION Spec
CHECK_DEADLOCK FALSE
INVARIANTS
  SchedulerSound
  TakesInTime
PROPERTIES
  StopHolds
  Handled
