\* A connection is closed while _cleanup runs
SPECIFICATION FairSpec
CONSTANTS
  Main = main
  Workers = {w}
  NoOne = nobody
  Connections = {c1}
  NoConnection = none
  Stoppers = {main}
  Diallers = {main}
  Closers = {w}
  Keepers = {}
  Timers = {}
  NoTimer = no_timer
  TimerUsers = {}
  PromptWorkers = TRUE
PROPERTIES
  AbortReturns
\* run returns: the system stops there.
CHECK_DEADLOCK FALSE
