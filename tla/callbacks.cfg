\* Two timers and two animation callbacks; one animation callback to a pump.
SPECIFICATION CallbackSpec
CONSTANTS
  MaxTimers = 2
  MaxAnimations = 2
  TimerBudget = 2
  AnimationBudget = 1
  Delays = {0, 2}
  MaxEntries = 3
\* A callback that fails ends the worker.
CHECK_DEADLOCK FALSE
PROPERTIES
  KeepsRounds
  CallbacksRun
