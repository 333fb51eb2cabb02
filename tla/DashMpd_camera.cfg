\* A camera whose conversions and files never fail, with irregular key frames
\* closer than the gate.
SPECIFICATION Spec
CONSTANTS
  N_COUNT = 2
  GATE = 5
  SECOND = 8
  Gops = {1, 2, 4}
  MaxGop = 4
  FirstPts = {0, 1}
  MaxTime = 30
  EmptyFrames = {FALSE}
  SaveResults = {TRUE}
  OpenResults = {TRUE}
INVARIANTS TypeOK TimelineContiguous SegmentBounded SegmentsStartWithKey
INVARIANTS SegmentNotTooShort PlaylistFresh
