\* Frames of up to four NAL units; tables so small that they fill up.
SPECIFICATION Spec
CONSTANTS
  Frames264 <- All264
  Frames265 <- All265
  SpsTable = 2
  PpsTable = 3
  SetBytes = 6
  ArrayTable = 3
  DataBytes = 50
  BufferBytes = 70
INVARIANTS BytesComeThrough RecordHoldsSets OnlyKnownAborts
