------------------------------- MODULE DashMpd -------------------------------
(***************************************************************************)
(* The segmenter of one video stream, as its worker thread runs it:        *)
(*                                                                         *)
(*   mp4_onread (dash.cpp)            gates the key frames,                *)
(*   dash_mpd_input / dash_mpd_flush  cut the stream into segments,        *)
(*   dash_adaptation_set_segment      names, hands out and lists them,     *)
(*   dash_mpd_onsegment (dash.cpp)    writes the segment file,             *)
(*   dash_mpd_playlist                writes the next playlist (MPD).      *)
(*                                                                         *)
(* All of it runs in one call of mp4_onread on the worker's stack, so one  *)
(* frame is one action.  What other threads see of it (files, the global   *)
(* list of playlists, the start-up counter) is refined in MpdStore.        *)
(*                                                                         *)
(* There is one adaptation set: mp4_onaudio has no caller.  Timestamps are *)
(* milliseconds in the code; TLC uses a coarser unit.                      *)
(***************************************************************************)
EXTENDS Integers, SequencesExt

CONSTANTS
  N_COUNT,      \* segments kept in the live window (2 in the code)
  GATE,         \* the gate of mp4_onread (600 ms)
  SECOND,       \* a second, in the unit of the timestamps (1000 ms)
  Gops,         \* distances between key frames the encoder may produce
  MaxGop,       \* an upper bound of Gops
  FirstPts,     \* timestamps the first frame may carry
  MaxTime,      \* bound: no frame is stamped later than this
  EmptyFrames,  \* may the Annex-B conversion of a frame come out empty?
  SaveResults,  \* may fmp4_writer_save_segment fail (FALSE), succeed (TRUE)?
  OpenResults   \* may fopen/fwrite of a file fail, succeed?

ASSUME WindowAssumption == N_COUNT \in Nat /\ N_COUNT >= 2
ASSUME GateAssumption   == GATE \in Nat \ {0} /\ SECOND \in Nat \ {0}
ASSUME GopAssumption    == /\ MaxGop \in Nat \ {0}
                           /\ Gops \subseteq 1..MaxGop
ASSUME InputAssumption  == /\ FirstPts \subseteq Nat
                           /\ MaxTime \in Nat
                           /\ EmptyFrames \subseteq BOOLEAN
                           /\ SaveResults \subseteq BOOLEAN
                           /\ OpenResults \subseteq BOOLEAN

VARIABLES
  phase,                 \* "new", "live", "destroyed": the life of dash->mpd
  adapation,             \* dash->adapation_video: 0, or an error value
  clock,                 \* pts of the newest frame, NoTime before the first
  i_timestamp,           \* pts of the newest key frame seen by the gate
  var_timestamp,         \* what the gate has accumulated
  dts, dts_last, raw,    \* the open segment: first dts, last dts, any bytes?
  rap,                   \* does the open segment begin with a key frame?
  error,                 \* the sticky error of the fMP4 writer's buffer
  root,                  \* the listed segments, oldest first
  max_segment_duration,
  count,                 \* dash->count: playlists built
  fname,                 \* dash->fname: number of the next MPD file
  mpd                    \* the newest MPD file: what it lists

gate == <<i_timestamp, var_timestamp>>
open == <<dts, dts_last, raw, rap>>
shown == <<count, fname, mpd>>
vars == <<phase, adapation, clock, gate, open, error, root,
          max_segment_duration, shown>>

NoTime == -1    \* INT64_MIN: below every timestamp
Failed == -1    \* what dash_mpd_add_video_adapation_set returns on an error
NoMpd  == [segs |-> <<>>, minimumUpdatePeriod |-> 0]

\* A listed segment.  rap and file are what the segment file holds: whether its
\* first frame is a key frame, and whether the file could be created.
Segment == [timestamp : Nat, duration : Nat, rap : BOOLEAN, file : BOOLEAN]

EndOf(seg) == seg.timestamp + seg.duration
MAX(a, b) == IF a > b THEN a ELSE b
------------------------------------------------------------------------------
(* The gate of mp4_onread.                                                  *)

\* Time since the key frame before; 0 as long as no nonzero one was seen.
difftimestamp(pts) == IF i_timestamp # 0 THEN pts - i_timestamp ELSE 0

\* Faulty variant: the gate looks at the last distance only.
LetThrough_NoSum(pts) == difftimestamp(pts) >= GATE

\* The key frame at pts keeps its flag, and so starts a segment.
LetThrough(pts) == \/ difftimestamp(pts) >= GATE
                   \/ var_timestamp >= GATE

\* Faulty variant: var_timestamp is not reset when it lets a key frame through.
Gate_NoReset(pts, sps) ==
  IF sps
  THEN /\ i_timestamp' = pts
       /\ var_timestamp' = IF difftimestamp(pts) < GATE /\ var_timestamp < GATE
                           THEN var_timestamp + difftimestamp(pts)
                           ELSE var_timestamp
  ELSE UNCHANGED gate

Gate(pts, sps) ==
  IF sps
  THEN /\ i_timestamp' = pts
       /\ var_timestamp' =
            IF difftimestamp(pts) >= GATE THEN var_timestamp
            ELSE IF var_timestamp < GATE THEN var_timestamp + difftimestamp(pts)
            ELSE difftimestamp(pts)
  ELSE UNCHANGED gate
------------------------------------------------------------------------------
(* Closing a segment.                                                       *)

\* What dash_mpd_playlist writes: the segments that are listed, and the longest
\* duration so far in whole seconds, cut off, but at least one.  minBufferTime is
\* the same number, timeShiftBufferDepth N_COUNT times as much plus one.
NewMpd == [segs |-> root,
           minimumUpdatePeriod |-> MAX(max_segment_duration \div SECOND, 1)]

\* dash_mpd_playlist: the first N_COUNT calls only count; later ones write the
\* next MPD file from the lists as they are.  A failure leaves all as it was.
Playlist(written) ==
  \/ /\ count < N_COUNT
     /\ count' = count + 1
     /\ UNCHANGED <<fname, mpd>>
  \/ /\ count >= N_COUNT
     /\ written
     /\ mpd' = NewMpd
     /\ fname' = fname + 1
     /\ count' = count + 1
  \/ /\ count >= N_COUNT
     /\ ~written
     /\ UNCHANGED shown

\* dash_mpd_onsegment: no segment file, no playlist; the return value is 0 in
\* either case.
OnSegment(opened, written) ==
  IF opened THEN Playlist(written) ELSE UNCHANGED shown

\* Faulty variant: the list never loses its head.
Slide_Grows(w, seg) == Append(w, seg)

\* Faulty variant: the segment is linked at the head, the tail is dropped.
Slide_AtHead(w, seg) ==
  <<seg>> \o (IF Len(w) >= N_COUNT THEN SubSeq(w, 1, Len(w) - 1) ELSE w)

\* Link at the tail; a dynamic list over N_COUNT loses its head.
Slide(w, seg) ==
  IF Len(w) >= N_COUNT THEN Append(Tail(w), seg) ELSE Append(w, seg)

\* dash_adaptation_set_segment.  The error of the writer's buffer is never
\* cleared: once a save failed all later ones do.  The handler runs before the
\* segment is linked, so the playlist it writes does not list it.
CloseSegment(last, saved, opened, written) ==
  /\ error' = (error \/ ~saved)
  /\ IF error'
     THEN UNCHANGED <<root, shown>>
     ELSE /\ root' = Slide(root, [timestamp |-> dts, duration |-> last - dts,
                                  rap |-> rap, file |-> opened])
          /\ OnSegment(opened, written)

\* Faulty variant: the maximum is the duration of the newest segment.
Flush_LastDuration(last, saved, opened, written) ==
  IF raw
  THEN /\ CloseSegment(last, saved, opened, written)
       /\ max_segment_duration' = last - dts
  ELSE UNCHANGED <<error, root, shown, max_segment_duration>>

\* dash_mpd_flush, up to the reset of the open segment, which its callers
\* complete.  last is track->dts_last at that time.
Flush(last, saved, opened, written) ==
  IF raw
  THEN /\ CloseSegment(last, saved, opened, written)
       /\ max_segment_duration' = MAX(last - dts, max_segment_duration)
  ELSE UNCHANGED <<error, root, shown, max_segment_duration>>
------------------------------------------------------------------------------
(* dash_mpd_input                                                           *)

\* A frame that opens a segment.
OpenWith(pts, sps) == dts' = pts /\ dts_last' = pts /\ raw' = TRUE /\ rap' = sps

\* A frame that joins the open segment, or opens one if there is none.
Extend(pts, sps) ==
  /\ IF raw THEN dts_last' = pts /\ UNCHANGED <<dts, raw, rap>>
            ELSE OpenWith(pts, sps)
  /\ UNCHANGED <<error, root, shown, max_segment_duration>>

\* Faulty variant: the segment is closed at the dts of its last frame.
Cut_AtLastFrame(pts, sps, saved, opened, written) ==
  /\ Flush(dts_last, saved, opened, written)
  /\ OpenWith(pts, sps)

\* A key frame closes the open segment at its own dts and opens the next.
Cut(pts, sps, saved, opened, written) ==
  /\ Flush(pts, saved, opened, written)
  /\ OpenWith(pts, sps)

\* Faulty variant: the open segment is not reset after the flush.
FlushOnly_NoReset(pts, saved, opened, written) ==
  /\ Flush(pts, saved, opened, written)
  /\ dts_last' = pts /\ UNCHANGED <<dts, raw, rap>>

\* An empty buffer flushes too, and opens nothing.
FlushOnly(pts, saved, opened, written) ==
  /\ Flush(pts, saved, opened, written)
  /\ dts' = NoTime /\ dts_last' = pts /\ raw' = FALSE /\ rap' = FALSE

\* Faulty variant: every video frame cuts, whatever its flags.
Input_AnyFrame(pts, sps, empty, key, saved, opened, written) ==
  IF empty THEN FlushOnly(pts, saved, opened, written)
           ELSE Cut(pts, sps, saved, opened, written)

Input(pts, sps, empty, key, saved, opened, written) ==
  \/ /\ adapation = Failed     \* adapation >= mpd->count || adapation < 0
     /\ UNCHANGED <<open, error, root, shown, max_segment_duration>>
  \/ /\ adapation = 0 /\ empty
     /\ FlushOnly(pts, saved, opened, written)
  \/ /\ adapation = 0 /\ ~empty /\ key
     /\ Cut(pts, sps, saved, opened, written)
  \/ /\ adapation = 0 /\ ~empty /\ ~key
     /\ Extend(pts, sps)
------------------------------------------------------------------------------
(* The calls of the worker thread.                                          *)

Init ==
  /\ phase = "new" /\ adapation = 0 /\ clock = NoTime
  /\ i_timestamp = 0 /\ var_timestamp = 0
  /\ dts = 0 /\ dts_last = 0 /\ raw = FALSE /\ rap = FALSE
  /\ error = FALSE /\ root = <<>> /\ max_segment_duration = 0
  /\ count = 0 /\ fname = 1 /\ mpd = NoMpd

\* init_dash and mp4_onvideo on the first frame: create the object, add the
\* video adaptation set, hand out its init segment (which counts a playlist).
Start ==
  /\ phase = "new"
  /\ phase' = "live"
  /\ \E saved \in SaveResults, opened \in OpenResults :
       /\ adapation' = IF saved THEN 0 ELSE Failed
       /\ error' = ~saved
       /\ IF saved THEN OnSegment(opened, TRUE) ELSE UNCHANGED shown
  /\ UNCHANGED <<clock, gate, open, root, max_segment_duration>>

\* What the encoder may deliver next: strictly later frames, the first one a key
\* frame (sps: its first NAL unit is the one mp4_onread takes for a key frame),
\* then key frames at the distances Gops.
Encoder(pts, sps) ==
  \/ clock = NoTime /\ pts \in FirstPts /\ sps
  \/ /\ clock # NoTime /\ pts > clock /\ pts <= i_timestamp + MaxGop
     /\ sps => pts - i_timestamp \in Gops
     /\ ~sps => \E g \in Gops : pts < i_timestamp + g

\* mp4_onread with the stream's own track id.
OnRead ==
  /\ phase = "live"
  /\ \E pts \in 0..MaxTime, sps \in BOOLEAN, empty \in EmptyFrames,
        saved \in SaveResults, opened \in OpenResults, written \in OpenResults :
       /\ Encoder(pts, sps)
       /\ clock' = pts
       /\ Gate(pts, sps)
       /\ Input(pts, sps, empty, sps /\ LetThrough(pts), saved, opened, written)
  /\ UNCHANGED <<phase, adapation>>

\* dash_mpd_destroy when the worker leaves its loop.  The lists are freed with
\* the object; the model keeps their last value to speak of the final window.
Destroy ==
  /\ phase = "live"
  /\ phase' = "destroyed"
  /\ \E saved \in SaveResults, opened \in OpenResults, written \in OpenResults :
       Flush(dts_last, saved, opened, written)
  /\ dts' = NoTime /\ raw' = FALSE /\ rap' = FALSE
  /\ UNCHANGED <<adapation, clock, gate, dts_last>>

Finished == phase = "destroyed" /\ UNCHANGED vars

Next == Start \/ OnRead \/ Destroy \/ Finished

Spec == Init /\ [][Next]_vars
------------------------------------------------------------------------------
(* Properties.                                                              *)

\* Types of the stream's state.
TypeOK ==
  /\ phase \in {"new", "live", "destroyed"}
  /\ adapation \in {0, Failed}
  /\ clock \in 0..MaxTime \cup {NoTime}
  /\ i_timestamp \in Nat /\ var_timestamp \in Nat
  /\ dts \in Nat \cup {NoTime} /\ dts_last \in Nat
  /\ raw \in BOOLEAN /\ rap \in BOOLEAN /\ error \in BOOLEAN
  /\ root \in Seq(Segment) /\ Len(root) <= N_COUNT
  /\ max_segment_duration \in Nat
  /\ count \in Nat /\ fname \in Nat \ {0}
  /\ mpd \in [segs : Seq(Segment), minimumUpdatePeriod : Nat]

\* A list of segments is a timeline without a hole.
Contiguous(w) ==
  \A i \in 1..Len(w) - 1 : EndOf(w[i]) = w[i + 1].timestamp

\* A list of segments never goes back in time; their names are distinct, since
\* a file is named after its timestamp.
Ordered(w) ==
  \A i \in 1..Len(w) - 1 : /\ EndOf(w[i]) <= w[i + 1].timestamp
                           /\ w[i].timestamp < w[i + 1].timestamp

\* What a client finds in the newest MPD, and in the list behind it, is a
\* timeline without a hole or an overlap up to the first byte of the segment
\* that is still being filled (as long as no frame came out empty and the
\* buffer has no error): dash_mpd_input sets dts_last to the dts of the cutting
\* frame before it flushes.
TimelineContiguous ==
  /\ Contiguous(root) /\ Contiguous(mpd.segs)
  /\ raw /\ ~error /\ root # <<>> => EndOf(Last(root)) = dts

\* Whatever fails or comes out empty, segments never overlap and two listed ones
\* never share the file name made from their timestamp.
TimelineOrdered ==
  /\ Ordered(root) /\ Ordered(mpd.segs)
  /\ raw /\ root # <<>> => /\ EndOf(Last(root)) <= dts
                           /\ Last(root).timestamp < dts

\* The longest segment: the gate lets at most two thresholds go by, and then the
\* next key frame cuts.  A stream that starts at timestamp 0 loses one distance,
\* because i_timestamp = 0 is also the gate's "no key frame yet".
Slack == IF 0 \in FirstPts THEN MaxGop ELSE 0
MaxSegment == 2 * (GATE - 1) + MaxGop + Slack

\* No segment of the live window outgrows MaxSegment, however irregular the
\* encoder's key frames are: the accumulated distance always catches up.
SegmentBounded ==
  \A i \in 1..Len(root) : root[i].duration <= MaxSegment

\* While the encoder's key frames are closer than the gate, a segment that a key
\* frame closed is shorter than GATE by no more than the distances vary, and never
\* if they do not: what var_timestamp keeps over a cut is one distance, already
\* spent on the segment before.
Jitter == MaxGop - CHOOSE g \in Gops : \A h \in Gops : g <= h
SegmentNotTooShort ==
  MaxGop < GATE /\ phase = "live" =>
    \A i \in 1..Len(root) : root[i].duration >= GATE - Jitter

\* Every listed segment begins with a key frame, so that a client can join at any
\* of them (as long as no frame came out empty).
SegmentsStartWithKey == \A i \in 1..Len(root) : root[i].rap

\* What an MPD announces in whole seconds (its update period; the depth of its
\* window is computed from it) falls short of no segment this MPD lists by a second
\* or more, though the MPD is written before the segment being closed is counted,
\* and the longest duration is cut off.
AnnouncedCoversListed ==
  \A i \in 1..Len(mpd.segs) :
    mpd.segs[i].duration < (mpd.minimumUpdatePeriod + 1) * SECOND

\* An MPD never takes a segment back: each new one ends later than the one before
\* and begins no earlier.
PlaylistsAdvance ==
  [][mpd' # mpd /\ mpd.segs # <<>> =>
       /\ mpd'.segs # <<>>
       /\ mpd'.segs[1].timestamp >= mpd.segs[1].timestamp
       /\ Last(mpd'.segs).timestamp > Last(mpd.segs).timestamp]_mpd

\* Two segments in a row are never both as long as a segment can be: the distance
\* of the key frame that cut the first counts for the second, too.
MaxLag == 2 * (GATE - 1) + MaxGop + MAX(2 * (GATE - 1), MaxGop)

\* How far its viewers are behind the camera: once the window has filled up there is
\* an MPD, and it ends no more than MaxLag before the newest frame, though it lists
\* neither the segment whose closing it was written for nor the one that is being
\* filled (as long as nothing fails or comes out empty).
PlaylistFresh ==
  Len(root) = N_COUNT =>
    mpd.segs # <<>> /\ clock - EndOf(Last(mpd.segs)) <= MaxLag
==============================================================================
