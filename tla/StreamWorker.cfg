\* One slice per frame.  H.264: IDR and other slices, SEI, parameter sets;
\* H.265: TRAIL_R and IDR, parameter sets, prefix SEI.  A ring of four frames with I
\* frames two or five apart.
SPECIFICATION WorkerSpec
CONSTANTS
  Codecs = {"h264", "h265"}
  Types264 = {1, 5, 6, 7, 8}
  Types265 = {1, 19, 32, 33, 34, 39}
  MaxNals = 4
  MaxSlices = 1
  MaxFrames = 100
  Capacity = 4
  Gops = {2, 5}
  lDurationBefore = 0
  MaxWait = 1
  MaxMade = 7
INVARIANTS NoAbort KeyIffIrap InTime StartsDecodable
PROPERTIES EndsOrLost
CHECK_DEADLOCK FALSE
