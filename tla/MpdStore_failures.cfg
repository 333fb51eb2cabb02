\* One stream with the real constants; any file may fail.
SPECIFICATION Spec
CONSTANTS
  Active = {1}
  N_COUNT = 2
  FILES_MPD_COUNT = 4
  MaxSegments = 9
  OpenResults = {TRUE, FALSE}
INVARIANTS NewestPlayable
PROPERTIES KeepsPromise
