\* The server, and the library as it is used for one file.
SPECIFICATION Spec
CONSTANTS
  Callers <- AllCallers
  frag_interleave = 2
  GROW = 2
  FRAGS_GROW = 1
  WORD = 12
INVARIANTS NoAbort SavedIsWhole SyncSamplesAreKeys IndexSpansSegment EntriesLeadToFragments MemoryOwned
