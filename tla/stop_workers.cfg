\* User timers; workers in their loops before onStart, and nobody closes
SPECIFICATION FairSpec
CONSTANTS
  Main = main
  Workers = {w1, w2}
  NoOne = nobody
  Connections = {c1}
  NoConnection = none
  Stoppers = {main}
  Diallers = {main}
  Closers = {}
  Keepers = {main, w1, w2}
  Timers = {u1}
  NoTimer = no_timer
  TimerUsers = {main, w1}
  PromptWorkers = TRUE
INVARIANTS
  TimerAlive
  RepeatsOn
PROPERTIES
  TimerFires
  AbortReturns
  ShutdownReturns
\* run returns: the system stops there.
CHECK_DEADLOCK FALSE
