\* Two buffers that are filled, emptied, copied and move-assigned
SPECIFICATION Spec
CONSTANTS
  Buffers    = {b1, b2}
  NoBuffer   = noBuffer
  Chunks     = {k1, k2, k3}
  Null       = null
  Chars      = {x, y}
  Junk       = junk
  ChunkSizes = {1, 2}
  MaxText    = 2
  Moving     = FALSE
SYMMETRY Symmetry
INVARIANTS
  TypeOK
  OneOwner
  FinishIsLast
  HoldsText
  IteratorReadsText
