\* Two workers; every thread stops, dials and closes
SPECIFICATION Spec
CONSTANTS
  Main = main
  Workers = {w1, w2}
  NoOne = nobody
  Connections = {c1, c2}
  NoConnection = none
  Stoppers = {main, w1, w2}
  Diallers = {main, w1, w2}
  Closers = {main, w1, w2}
  Keepers = {}
  Timers = {}
  NoTimer = no_timer
  TimerUsers = {main}
  PromptWorkers = FALSE
SYMMETRY Symmetry
INVARIANTS
  DestroyFindsEntry
  TypeOK
  CallbackObjectAlive
  MapAlive
  NothingLeft
  BreaksLiveWorkers
\* run returns: the system stops there.
CHECK_DEADLOCK FALSE
