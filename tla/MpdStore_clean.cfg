\* Two streams, no file errors.
SPECIFICATION Spec
CONSTANTS
  Active = {0, 1}
  N_COUNT = 2
  FILES_MPD_COUNT = 1
  MaxSegments = 6
  OpenResults = {TRUE}
INVARIANTS NothingLeaks ListExclusion
PROPERTIES BacklogDrained
