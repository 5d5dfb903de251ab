\* numThreads = 0: one event loop runs every callback, and only code it runs
\* destroys Handles; application threads use theirs at any time.
SPECIFICATION FairSpec
CONSTANTS
  Users           = {u1, u2}
  Worker          = w
  Control         = c
  NoOne           = nobody
  Handles         = {h1, h2}
  ControlOnLoop   = TRUE
  Releasers       = {w, c}
  SelfAssigns     = {}
  SerializeErrors = FALSE
  EmptyChunks     = TRUE
  MaxBuffers      = 1
  MaxItems        = 1
INVARIANTS
  NoDanglingHandle
  NoUseAfterFree
  CallbackHasHandle
PROPERTIES
  HonoursContract
