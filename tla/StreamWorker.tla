----------------------------- MODULE StreamWorker -----------------------------
(***************************************************************************)
(* One stream from its parameters to the frame reader: get_param looks     *)
(* for the frame to begin with in what the encoder still holds, and the    *)
(* loop of dash_server_worker asks for one frame number after the other    *)
(* while the encoder overwrites its oldest frames.  Whatever get_param     *)
(* reports, main goes on with the parameter block (its status is unsigned, *)
(* so no error is less than 0).                                            *)
(*                                                                         *)
(* The encoder with its ring and the configuration are outside; frames are *)
(* numbered from 0, every gop-th is a random access point.                 *)
(***************************************************************************)
EXTENDS FrameReader

CONSTANTS
  Capacity,         \* frames the encoder holds
  Gops,             \* distances of random access points
  lDurationBefore,  \* 0 in the code: how far before the newest frame to begin
  MaxWait,          \* polls without data in a row that a worker puts up with (250)
  MaxMade           \* bound: number of the last frame the encoder makes

ASSUME RingAssumption == /\ {Capacity, MaxWait} \cup Gops \subseteq Nat \ {0}
                         /\ {lDurationBefore, MaxMade} \subseteq Nat

VARIABLES
  gop,          \* the encoder's distance of random access points
  newest,       \* number of the newest frame, -1 if there is none yet
  param,        \* the parameter block, what get_param reported, and for the
                \* properties: had it a random access point to choose from, how
                \* many frames were there
  FrameNumber,  \* the frame the worker asks for next
  waited,       \* wait_for_frame
  done,         \* as this worker sees it
  late,         \* the most frames that were made from get_param on beyond those read
  misread       \* is the stream read with the other codec's reader?

ring == <<gop, newest>>
loop == <<FrameNumber, waited, done, misread>>
workerVars == <<vars, ring, param, loop, late>>

Key(n) == n % gop = 0

Held(n) == n > newest - Capacity /\ n <= newest

\* What avi_dir_stream lists, the newest first.
Listed == {n \in 0..newest : Held(n)}

None == -1    \* a pointer that was never set
------------------------------------------------------------------------------
(* Parameters.                                                              *)

\* Faulty variant: the scan does not stop at the first frame that will do.
Scan_NoBreak(list, search_time) ==
  LET keys == {n \in list : Key(n)} IN IF keys = {} THEN None ELSE Min(keys)

\* Faulty variant: the newest frame will do.
Scan_AnyFrame(list, search_time) == IF list = {} THEN None ELSE Max(list)

\* The loop of get_frame_num_video (a frame's pts is its number), which goes from the
\* newest frame to the oldest and stops at the first I frame that is not newer than
\* search_time; else it ends with the last I frame it saw, the oldest one.  None if
\* prev_last_I was never set.
Scan(list, search_time) ==
  LET keys == {n \in list : Key(n)}
      early == {n \in keys : n <= search_time}
  IN IF early # {} THEN Max(early)
     ELSE IF keys # {} THEN Min(keys)
     ELSE None

\* The block after memset, as it is left by an early return.
Report(active, result) ==
  [active |-> active, result |-> result, encoder |-> "h265", vfNumber |-> 0,
   found |-> FALSE, at |-> newest]

\* The frame to begin with, if there is a list.
First == Scan(Listed, newest - lDurationBefore)

\* The block with the number n, an error or none and the configured encoder: a failed
\* read of the configuration leaves 0 in place, for H.265.
Block(end, n) ==
  [Report(TRUE, end[1]) EXCEPT !.encoder = end[2], !.vfNumber = n, !.found = First # None]

\* Without an I frame in the list the number is read through a pointer that was never
\* set: any number comes out, or the process dies.
Blocks ==
  {Block(end, n) :
     end \in {<<"FW_OK", codec>>, <<"FW_FAIL", codec>>, <<"FW_FAIL", "h265">>},
     n \in IF First = None THEN 0..newest + 1 ELSE {First}}

\* What get_param may make of the block.
Outcomes ==
  {Report(FALSE, "FW_FAIL"), Report(FALSE, "FW_DISABLED_STREAM"),
   Report(TRUE, "FW_UNSUPPORTED_FILE_FORMAT"), Report(TRUE, "FW_FAIL")}
  \cup (IF Listed = {} THEN {} ELSE Blocks)
  \cup (IF Listed # {} /\ First = None THEN {Report(FALSE, "killed")} ELSE {})

\* main, up to the creation of the worker.
GetParam ==
  /\ param.result = "unset"
  /\ param' \in Outcomes
  /\ FrameNumber' = param'.vfNumber
  /\ UNCHANGED <<vars, ring, waited, done, misread, late>>
------------------------------------------------------------------------------
(* The worker.  A frame that is no longer held is asked for again and again *)
(* (any error but -ENODATA): nothing changes, so that is no action here.    *)

Running == param.active /\ done /\ ~aborted /\ ~misread

\* The frame goes to the reader of param's codec.  What that makes of a stream of the
\* other codec is not followed up.
Read ==
  /\ Running /\ Held(FrameNumber)
  /\ FrameNumber' = FrameNumber + 1 /\ waited' = 0
  /\ IF param.encoder = codec
     THEN /\ \E nals \in Frames : (Irap(Last(nals)) <=> Key(FrameNumber)) /\ OnFrame(nals)
          /\ UNCHANGED misread
     ELSE misread' = TRUE /\ UNCHANGED vars
  /\ UNCHANGED <<ring, param, done, late>>

\* Faulty variant: polls are not counted.
NoData_Uncounted ==
  /\ Running /\ FrameNumber > newest
  /\ waited' = 0
  /\ UNCHANGED <<vars, ring, param, FrameNumber, done, misread, late>>

\* -ENODATA: the frame is not there yet.
NoData ==
  /\ Running /\ FrameNumber > newest
  /\ waited' = waited + 1
  /\ done' = (waited' <= MaxWait)
  /\ UNCHANGED <<vars, ring, param, FrameNumber, misread, late>>
------------------------------------------------------------------------------
(* The encoder.                                                             *)

Encode ==
  /\ newest < MaxMade
  /\ newest' = newest + 1
  /\ late' = IF ~param.active THEN late
             ELSE Max({late, (newest' - param.at) - (FrameNumber - param.vfNumber)})
  /\ UNCHANGED <<vars, gop, param, loop>>

\* The encoder has been running for a while, or not at all.
WorkerInit ==
  /\ Init
  /\ gop \in Gops /\ newest \in -1..Capacity
  /\ param = Report(FALSE, "unset")
  /\ FrameNumber = 0 /\ waited = 0 /\ done = TRUE /\ misread = FALSE /\ late = 0

WorkerNext == GetParam \/ Read \/ NoData \/ Encode

\* A worker that runs keeps polling, and not every read of a frame that is held
\* fails; the encoder may stop at any time.
WorkerSpec == WorkerInit /\ [][WorkerNext]_workerVars /\ WF_workerVars(Read \/ NoData)
------------------------------------------------------------------------------
(* Properties.                                                              *)

\* The frame that is asked for has been overwritten.
Lost == FrameNumber <= newest - Capacity

\* If get_param had a random access point to choose, the worker finds its frames as
\* long as it does not come late by more than the ring holds beyond one distance of
\* random access points: the choice is the newest one there is.
InTime ==
  param.active /\ param.found /\ late + gop + lDurationBefore <= Capacity => ~Lost

\* If get_param reports success and had a random access point to choose, the stream
\* begins with it: the first sample is a key frame and the decoder configuration has
\* every kind of parameter set.  (After an error, which nobody looks at, or from a
\* list without an I frame, it may begin anywhere and without a configuration.)
StartsDecodable ==
  param.found /\ param.result = "FW_OK" /\ start_init =>
    /\ extra = ParameterSets
    /\ track_id = 2 => \A k \in DOMAIN samples : samples[k].key

\* A worker does not wait forever for an encoder that has stopped: its polls run out
\* and it clears done.  The one exception is a frame that is gone: it is asked for
\* without end, since only polls without data are counted.
EndsOrLost == param.active ~> (~done \/ Lost \/ misread \/ aborted)
==============================================================================
