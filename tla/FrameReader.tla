----------------------------- MODULE FrameReader -----------------------------
(***************************************************************************)
(* From an encoder's frame to the samples of the segmenter: one turn of    *)
(* the loop of dash_server_worker (a frame is put into Annex-B form, the   *)
(* first one also sets up the stream), h264_read_frame / h265_read_frame   *)
(* with the conversion to length-prefixed NAL units, and the part of       *)
(* mp4_onread that looks at the track number and at the first NAL unit.    *)
(* DashMpd takes over from there.                                          *)
(*                                                                         *)
(* A NAL unit is its type, a frame the sequence of its NAL units.  Their   *)
(* bytes go through unchanged: the start codes the worker writes are four  *)
(* bytes long, like the lengths that replace them.  AnnexB has the         *)
(* bytes, and the tables for parameter sets, which frames as short as      *)
(* those here do not fill.                                                 *)
(***************************************************************************)
EXTENDS Integers, SequencesExt

CONSTANTS
  Codecs,      \* "h264" (encoder 1), "h265" (encoder 0)
  Types264,    \* NAL unit types an H.264 encoder uses
  Types265,    \* NAL unit types an H.265 encoder uses
  MaxNals,     \* bound: NAL units of a frame ahead of its slices
  MaxSlices,   \* bound: slices of a frame
  MaxFrames    \* bound: frames read

ASSUME CodecAssumption == Codecs \subseteq {"h264", "h265"}
ASSUME TypeAssumption  == Types264 \subseteq 0..31 /\ Types265 \subseteq 0..63
ASSUME BoundAssumption == /\ MaxNals \in 0..31 /\ MaxSlices \in Nat
                          /\ MaxFrames \in Nat

VARIABLES
  codec,        \* stm_cfg->encoder, for the life of the worker
  track_id,     \* the worker's number of the next frame
  start_init,   \* has the first frame set up the stream?
  track_video,  \* dash->track_video
  extra,        \* types of the parameter sets in the decoder configuration
  frame,        \* the frame of the last turn
  samples,      \* what mp4_onread got in it, by the slice at the sample's end
  aborted       \* has an assert failed?

vars == <<codec, track_id, start_init, track_video, extra, frame, samples, aborted>>

\* H264_NAL_SPS, H264_NAL_PPS; H265_VPS, H265_SPS, H265_PPS
SetsOf(c) == IF c = "h264" THEN {7, 8} ELSE {32, 33, 34}
ParameterSets == SetsOf(codec)

\* What the loops of the readers take for a slice: it ends a sample.
VclOf(c, type) == IF c = "h264" THEN type <= 5 ELSE type <= 31
VCL(type) == VclOf(codec, type)

\* What the handlers take for a random access point: IDR, or BLA .. RSV_IRAP.
IrapOf(c, type) == IF c = "h264" THEN type = 5 ELSE type \in 16..23
Irap(type) == IrapOf(codec, type)
------------------------------------------------------------------------------
(* The conversion.                                                          *)

\* Faulty variant: parameter sets of H.264 are dropped as those of H.265 are.
Kept_NoSets(type) == type \notin ParameterSets

\* h264_handler copies every NAL unit, hevc_handler all but parameter sets.
Kept(type) == codec = "h264" \/ type \notin ParameterSets

\* The places of a frame where a sample ends.
Slices(nals) == {i \in 1..Len(nals) : VCL(nals[i])}

\* mpeg4_annexbtomp4, hevc_annexbtomp4 for the slice at place i: the places of the
\* NAL units that are copied, in their order.  frame is never moved on, so these
\* are all that came before the slice, earlier slices included.
SampleAt(nals, i) == {j \in 1..i : Kept(nals[j])}

\* The low five bits of the byte behind the first length of a sample: of H.264
\* the type of the NAL unit, of H.265 twice the type.
tmp(type) == IF codec = "h264" THEN type % 32 ELSE (2 * type) % 32

\* What mp4_onread takes for a key frame, before its gate.
keyframe(nals, sample) == tmp(nals[Min(sample)]) \in {7, 14}
------------------------------------------------------------------------------
(* The worker.                                                              *)

\* init_h264_read_frame, init_h265_read_frame: the decoder configuration from the
\* parameter sets up to the first slice; a frame without a slice leaves it empty.
InitReadFrame(nals) ==
  IF start_init THEN UNCHANGED extra
  ELSE extra' = {type \in ParameterSets :
                   \E i \in Slices(nals) : /\ \A j \in Slices(nals) : i <= j
                                           /\ type \in Range(SubSeq(nals, 1, i))}

\* track_video when the readers begin: mp4_onvideo set it on the first frame.
TrackVideo == IF start_init THEN track_video ELSE track_id

\* Faulty variant: only random access points count.
Counted_IrapOnly(nals) == Cardinality({i \in Slices(nals) : Irap(nals[i])})

\* How far the readers count track_video up.
Counted(nals) == Cardinality(Slices(nals))

\* h264_read_frame, h265_read_frame: one mp4_onread per slice, each with the
\* number of the frame.  It asserts that this is the number of the video track
\* (track_audio stays 0), which every call then counts up; and the loop asserts
\* that no NAL unit has type 0.
ReadFrame(nals) ==
  IF /\ 0 \notin Range(nals)
     /\ \A k \in 1..Cardinality(Slices(nals)) : TrackVideo + k - 1 = track_id
  THEN /\ samples' = [i \in Slices(nals) |->
                        [units |-> SampleAt(nals, i),
                         key   |-> keyframe(nals, SampleAt(nals, i))]]
       /\ track_video' = TrackVideo + Counted(nals)
       /\ UNCHANGED aborted
  ELSE aborted' = TRUE /\ UNCHANGED <<track_video, samples>>

\* The encoder delivers a frame: one turn of the loop.
OnFrame(nals) ==
  /\ ~aborted /\ track_id <= MaxFrames
  /\ frame' = nals
  /\ InitReadFrame(nals) /\ start_init' = TRUE
  /\ ReadFrame(nals)
  /\ track_id' = track_id + 1
  /\ UNCHANGED codec
------------------------------------------------------------------------------
(* The encoder, which is outside.                                           *)

\* A random access point is announced: in H.264 it begins with an SPS and has a
\* PPS, in H.265 it has all parameter sets and a prefix SEI, the first of the NAL
\* units that are kept.
Announced(c, head) ==
  /\ SetsOf(c) \subseteq Range(head)
  /\ IF c = "h264" THEN head[1] = 7
     ELSE \E i \in 1..Len(head) : /\ head[i] = 39
                                  /\ \A j \in 1..i - 1 : head[j] \in SetsOf(c)

\* What announces a random access point is in no other frame.
Plain(c, head) == Range(head) \cap (SetsOf(c) \cup {14, 39}) = {}

\* The frames of a codec: other NAL units, then slices, all of a random access point
\* or none.
FramesOf(c) ==
  LET types  == IF c = "h264" THEN Types264 ELSE Types265
      heads  == BoundedSeq({t \in types : ~VclOf(c, t)}, MaxNals)
      slices(some) == BoundedSeq(some, MaxSlices) \ {<<>>}
  IN {h \o s : h \in {g \in heads : Announced(c, g)},
               s \in slices({t \in types : IrapOf(c, t)})}
     \cup
     {h \o s : h \in {g \in heads : Plain(c, g)},
               s \in slices({t \in types : VclOf(c, t) /\ ~IrapOf(c, t)})}

AllFrames == [c \in Codecs |-> FramesOf(c)]

Frames == AllFrames[codec]

Init ==
  /\ codec \in Codecs
  /\ track_id = 1 /\ start_init = FALSE /\ track_video = 0
  /\ extra = {} /\ frame = <<>> /\ samples = <<>> /\ aborted = FALSE

Finished == track_id > MaxFrames /\ UNCHANGED vars

\* get_param has looked for the number of a random access point to begin with.
Next == \/ \E nals \in Frames : (start_init \/ Irap(Last(nals))) /\ OnFrame(nals)
        \/ Finished

Spec == Init /\ [][Next]_vars
------------------------------------------------------------------------------
(* Properties.                                                              *)

\* The asserts of the readers and of mp4_onread (assert(0) for a sample of an
\* unknown track) never fail.  The worker counts frames and the readers count
\* slices, so this rests on an encoder that makes one slice per frame.
NoAbort == ~aborted

\* Exactly the random access points come to the gate as key frames; no other
\* sample may begin a segment, and without one the stream is never cut.
KeyIffIrap ==
  \A k \in DOMAIN samples :
    samples[k].key <=> \E i \in 1..Len(frame) : Irap(frame[i])
==============================================================================
