\* A claim of the documentation the code does not keep: one property.
SPECIFICATION Spec
SYMMETRY Symmetry
CONSTANTS
  Users           = {u1, u2}
  Worker          = w
  Control         = c
  NoOne           = nobody
  Handles         = {h1, h2}
  ControlOnLoop   = FALSE
  Releasers       = {u1, u2, w, c}
  SelfAssigns     = {}
  SerializeErrors = FALSE
  EmptyChunks     = FALSE
  MaxBuffers      = 1
  MaxItems        = 1
INVARIANTS
  NoDanglingHandle
