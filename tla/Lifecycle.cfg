\* No stream, one or both are active.  The process may hang on mtx: no deadlock check.
SPECIFICATION Spec
CONSTANTS
  ActiveSets = {{}, {"stream0"}, {"stream1"}, {"stream0", "stream1"}}
  N_COUNT = 2
  NODATA_LIMIT = 1
  CreateResults = {TRUE, FALSE}
  ScanResults = {TRUE, FALSE}
INVARIANTS HangNeedsTimeout RunMeansPublished SweptClean CountBound ParamsOutliveWorkers
PROPERTIES ShutdownCompletes
CHECK_DEADLOCK FALSE
