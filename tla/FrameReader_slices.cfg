\* H.264 with up to two slices per frame.
SPECIFICATION Spec
CONSTANTS
  Codecs = {"h264"}
  Types264 = {1, 5, 7, 8}
  Types265 = {}
  MaxNals = 2
  MaxSlices = 2
  MaxFrames = 3
INVARIANTS NoAbort
