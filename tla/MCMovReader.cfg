\* Files of every layout and composition; films, whose tracks are sought together.
SPECIFICATION Spec
CONSTANTS
  sample_count = 4
  Movies <- ReaderMovies
  Base = 1
  Gap = 1
  timescale = 3
  MS = 2
  Clocks = {0, 2, 3, 5, 7}
  MaxSeeks = 1
INVARIANTS SamplesReadBack CompositionKept TracksInStep HeaderReadsBack
