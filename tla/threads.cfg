\* Two application threads, a worker and a control thread; every thread may
\* destroy the Handles it owns.
SPECIFICATION Spec
SYMMETRY Symmetry
CONSTANTS
  Users           = {u1, u2}
  Worker          = w
  Control         = c
  NoOne           = nobody
  Handles         = {h1, h2}
  ControlOnLoop   = FALSE
  Releasers       = {u1, u2, w, c}
  SelfAssigns     = {}
  SerializeErrors = FALSE
  EmptyChunks     = FALSE
  MaxBuffers      = 1
  MaxItems        = 1
INVARIANTS
  TypeOK
  NoLostDestroy
  OneCloser
  ClosedNotReading
  NoIOOnClosedSocket
  NoLostWrite
