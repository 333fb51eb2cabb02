\* Empty conversions, a full buffer and files that cannot be written.
SPECIFICATION Spec
CONSTANTS
  N_COUNT = 2
  GATE = 2
  SECOND = 2
  Gops = {1, 3}
  MaxGop = 3
  FirstPts = {0, 1}
  MaxTime = 8
  EmptyFrames = {FALSE, TRUE}
  SaveResults = {FALSE, TRUE}
  OpenResults = {FALSE, TRUE}
INVARIANTS TimelineOrdered AnnouncedCoversListed
PROPERTIES PlaylistsAdvance
