\* Progress with separate threads; no symmetry, which liveness excludes.
SPECIFICATION FairSpec
CONSTANTS
  Users           = {u1}
  Worker          = w
  Control         = c
  NoOne           = nobody
  Handles         = {h1}
  ControlOnLoop   = FALSE
  Releasers       = {u1, w, c}
  SelfAssigns     = {"copy"}
  SerializeErrors = FALSE
  EmptyChunks     = FALSE
  MaxBuffers      = 1
  MaxItems        = 1
PROPERTIES
  ClosedIsDestroyed
  WritesLeave
