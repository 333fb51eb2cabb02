\* Sizes of up to three digits, a buffer that just holds two or three small boxes.
SPECIFICATION Spec
CONSTANTS
  RADIX = 3
  N_SEGMENT = 4
  maxsize = 13
  Chunks <- SmallChunks
  GrowResults = {TRUE, FALSE}
  MaxDepth = 2
INVARIANTS FailsForSize
PROPERTIES ImplementsBoxes
