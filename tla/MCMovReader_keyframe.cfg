\* Seeks in one video with an index of key frames.
SPECIFICATION Spec
CONSTANTS
  sample_count = 4
  Movies <- IndexedVideos
  Base = 1
  Gap = 1
  timescale = 3
  MS = 2
  Clocks = {0, 2, 3, 5, 7}
  MaxSeeks = 1
INVARIANTS SeekLandsOnSync
