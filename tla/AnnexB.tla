-------------------------------- MODULE AnnexB --------------------------------
(***************************************************************************)
(* The bytes under FrameReader: a frame comes from the encoder as NAL      *)
(* units behind their lengths, the worker overwrites the lengths with      *)
(* start codes, init_h264_read_frame / init_h265_read_frame make the       *)
(* decoder configuration record of it, and h264_read_frame /               *)
(* h265_read_frame find the start codes again and put lengths back.        *)
(* FrameReader has only the types of the NAL units; that it may is shown   *)
(* here, and where the fixed tables for parameter sets end.                *)
(*                                                                         *)
(* A byte is a number, positions count from 1.  Frames are so short that   *)
(* the upper three bytes of every length are 0.                            *)
(***************************************************************************)
EXTENDS Integers, SequencesExt, Bitwise

CONSTANTS
  Frames264, Frames265,  \* frames of H.264 and H.265: sequences of NAL units
  SpsTable,    \* entries for SPS (32), as many as the record's field can count
  PpsTable,    \* entries for PPS (256), as many as nb_pps, a byte, can count
  SetBytes,    \* room for the bytes of one set (64)
  ArrayTable,  \* entries for the parameter sets of H.265 (64)
  DataBytes,   \* room for the bytes of all of them (4 * 1024)
  BufferBytes  \* sizeof(dash->s_buffer)

VARIABLES
  codec,     \* "h264" or "h265"
  units,     \* the frame, as the encoder meant it
  phase,     \* "packed", "marked", "reading"
  ptr,       \* the bytes of the frame
  record,    \* the decoder configuration record, <<>> for none
  nalu,      \* the position the loop of h264_read_frame is at
  samples,   \* what mp4_onread has got
  aborted    \* has an assert failed?

vars == <<codec, units, phase, ptr, record, nalu, samples, aborted>>

Reader == INSTANCE FrameReader WITH
  Codecs <- {"h264", "h265"}, Types264 <- {}, Types265 <- {}, MaxNals <- 0,
  MaxSlices <- 0, MaxFrames <- 0, track_id <- 0, start_init <- FALSE,
  track_video <- 0, extra <- {}, frame <- <<>>

\* H264_NAL, H265_NAL
TypeOf(byte) == IF codec = "h264" THEN byte % 32 ELSE (byte \div 2) % 64
------------------------------------------------------------------------------
(* Start codes.                                                             *)

start_code == <<0, 0, 0, 1>>

\* The loop of dash_server_worker: data goes from length to length (in the byte
\* order of the host).
Marked(bytes) ==
  LET mark[data \in 1..Len(bytes) + 1] ==
        IF data > Len(bytes) THEN <<>>
        ELSE start_code \o SubSeq(bytes, data + 4, data + 3 + bytes[data])
             \o mark[data + 4 + bytes[data]]
  IN mark[1]

\* h264_start_code, h265_start_code: where the next start code begins; behind the
\* last byte if there is none.
h26x_start_code(b, from) ==
  Min({p \in from..Len(b) - 3 : /\ b[p] = 0 /\ b[p + 1] = 0
                                /\ b[p + 2] = 1 \/ (b[p + 2] = 0 /\ b[p + 3] = 1)}
      \cup {Len(b) + 1})

\* h264_startcode, hevc_startcode: the position behind the next 0 0 1, Len(b) + 1 if
\* there is none that is followed by something.
h26x_startcode(b, from) ==
  Min({i \in from + 2..Len(b) - 1 : b[i] = 1 /\ b[i - 1] = 0 /\ b[i - 2] = 0}
      \cup {Len(b)}) + 1

\* Faulty variant: zeros in front of the next start code stay.
Filtered_Not(b, from, to) == SubSeq(b, from, to)

\* Without the zeros at the end.
Filtered(b, from, to) ==
  SubSeq(b, from, Max({j \in from..to : b[j] # 0} \cup {from - 1}))

\* h264_stream, hevc_stream: the NAL units of b.
Stream(b) ==
  LET from[p \in 1..Len(b) + 1] ==
        LET next == h26x_startcode(b, p)
            to == IF next > Len(b) THEN Len(b) ELSE next - 4
        IN IF p > Len(b) THEN <<>> ELSE <<Filtered(b, p, to)>> \o from[next]
  IN from[h26x_startcode(b, 1)]
------------------------------------------------------------------------------
(* The conversion.  h is the handler's state: the bytes put out, the sets   *)
(* of parameters, the error and a failed assert.                            *)

Bytes(n) == <<0, 0, 0, n>>

SizeOf(us) == FoldLeft(LAMBDA n, u : n + Len(u), 0, us)

\* Every NAL unit behind its length, as far as there is room.
PutOut(h, u) ==
  IF Len(h.out) + Len(u) + 4 > BufferBytes THEN [h EXCEPT !.errcode = TRUE]
  ELSE [h EXCEPT !.out = @ \o Bytes(Len(u)) \o u]

\* Faulty variant: a set that fills its entry to the last byte is refused.
KeepSps_OneLess(h, u) ==
  IF Len(u) >= SetBytes THEN [h EXCEPT !.abort = TRUE] ELSE [h EXCEPT !.sps = Append(@, u)]

KeepSps(h, u) ==
  IF Len(u) > SetBytes THEN [h EXCEPT !.abort = TRUE]
  ELSE IF Len(h.sps) >= SpsTable THEN [h EXCEPT !.errcode = TRUE]
  ELSE [h EXCEPT !.sps = Append(@, u)]

\* nb_pps is a byte, so it is always less than the table is long: with the last
\* entry it goes back to 0.
KeepPps(h, u) ==
  IF Len(u) > SetBytes THEN [h EXCEPT !.abort = TRUE]
  ELSE [h EXCEPT !.pps = IF Len(@) + 1 = PpsTable THEN <<>> ELSE Append(@, u)]

h264_handler(h, u) ==
  LET kept == CASE TypeOf(u[1]) = 7 -> KeepSps(h, u)
                [] TypeOf(u[1]) = 8 -> KeepPps(h, u)
                [] TypeOf(u[1]) = 5 -> [h EXCEPT !.chroma = 1]
                [] OTHER            -> h
  IN IF kept.abort THEN kept ELSE PutOut(kept, u)

\* hevc_rbsp_decode: the 3 of each 0 0 3 is left out.
hevc_rbsp_decode(u) ==
  LET from[i \in 1..Len(u) + 3] ==
        IF i > Len(u) THEN <<>>
        ELSE IF i + 2 <= Len(u) /\ u[i] = 0 /\ u[i + 1] = 0 /\ u[i + 2] = 3
        THEN <<0, 0>> \o from[i + 3]
        ELSE <<u[i]>> \o from[i + 1]
  IN from[1]

\* Faulty variant: the profile is read where it stands in the NAL unit.
hevc_profile_tier_level_Raw(u, before) ==
  IF Len(u) < 18 THEN before ELSE SubSeq(u, 7, 18)

\* hevc_profile_tier_level, from a VPS: a byte for space, tier and profile, four of
\* compatibility, six of constraint flags, one of the level.  Of the constraint flags
\* the fourth byte goes where the fifth goes, and the sign of the third spreads over the
\* two in front of it.  Nothing is set by a VPS that is too short.  (One of less than six
\* bytes, whose length minus six is no longer small, does not exist.)
hevc_profile_tier_level(u, before) ==
  LET decoded == hevc_rbsp_decode(u)
      v == SubSeq(decoded, 7, 18)
      sign(b) == IF v[8] >= 128 THEN 255 ELSE b
  IN IF Len(decoded) < 18 THEN before
     ELSE SubSeq(v, 1, 5)
          \o <<sign(v[6]), sign(v[7]), v[8], 0, v[9] | v[10], v[11], v[12]>>

\* hevc_handler: a parameter set goes into the table and not into the sample.
hevc_handler(h, u) ==
  LET kept == [h EXCEPT !.sets = Append(@, u)]
  IN IF TypeOf(u[1]) \notin {32, 33, 34} THEN PutOut(h, u)
     ELSE IF Len(h.sets) >= ArrayTable \/ SizeOf(h.sets) + Len(u) >= DataBytes
     THEN [h EXCEPT !.errcode = TRUE]
     ELSE IF TypeOf(u[1]) # 32 THEN kept
     ELSE [kept EXCEPT !.profile = hevc_profile_tier_level(u, @),
                       !.layers = Max({@, ((u[4] \div 2) % 8) + 1}),
                       !.nested = Max({@, u[4] % 2})]

\* mpeg4_annexbtomp4, hevc_annexbtomp4, with the asserts of the stream's loop and of
\* their caller.
annexbtomp4(b) ==
  LET start == [out |-> <<>>, sps |-> <<>>, pps |-> <<>>, chroma |-> 0, sets |-> <<>>,
                layers |-> 0, nested |-> 0,
                profile |-> [i \in 1..12 |-> IF i \in {1, 6, 12} THEN 0 ELSE 255],
                errcode |-> FALSE, abort |-> FALSE]
      step(h, u) == IF h.abort \/ u = <<>> THEN [h EXCEPT !.abort = TRUE]
                    ELSE IF codec = "h264" THEN h264_handler(h, u) ELSE hevc_handler(h, u)
  IN IF Len(b) >= BufferBytes THEN [start EXCEPT !.abort = TRUE]
     ELSE FoldLeft(step, start, Stream(b))
------------------------------------------------------------------------------
(* Decoder configuration records.                                           *)

\* The assert of mpeg4_hevc_decoder_configuration_record_save on the sets of one type
\* looks at the entry of the type's number: an entry nobody has set is NULL and passes.
Recordable(c) ==
  codec = "h265" =>
    \A i \in {1, 2, 3} \cap DOMAIN c.sets, j \in DOMAIN c.sets :
      TypeOf(c.sets[j][1]) = 31 + i =>
        SizeOf(SubSeq(c.sets, 1, i - 1)) + Len(c.sets[j]) <= DataBytes

\* The sets, each behind its length of two bytes.
Sized(sets) == FlattenSeq([i \in 1..Len(sets) |-> <<0, Len(sets[i])>> \o sets[i]])

HighProfiles == {100, 110, 122, 244, 44, 83, 86, 118, 128, 138, 139, 134}

\* mpeg4_avc_decoder_configuration_record_save.  The count of SPS has as many values
\* as there are entries (the three bits above it are left out).  g is what was in memory:
\* it is the profile if there is no SPS, and the bit depths, which nobody sets, in any
\* case.
AvcRecord(c, g) ==
  LET profile == IF c.sps = <<>> THEN <<g, g, g>> ELSE SubSeq(c.sps[1], 2, 4)
  IN <<1>> \o profile \o <<255, Len(c.sps) % SpsTable>> \o Sized(c.sps)
     \o <<Len(c.pps)>> \o Sized(c.pps)
     \o (IF profile[1] \in HighProfiles
         THEN <<252 + c.chroma, 248 + (g % 8), 248 + (g % 8), 0>> ELSE <<>>)

\* mpeg4_hevc_decoder_configuration_record_save: the sets grouped by type.
HevcRecord(c) ==
  LET of(type) == SelectSeq(c.sets, LAMBDA u : TypeOf(u[1]) = type)
      types == SelectSeq(<<32, 33, 34, 39, 40>>, LAMBDA type : of(type) # <<>>)
  IN <<1>> \o c.profile
     \o <<240, 0, 252, 253, 248, 248, 0, 0,
          (c.layers % 8) * 8 + c.nested * 4 + 3, Len(types)>>
     \o FlattenSeq([i \in 1..Len(types) |->
           <<128 + types[i], 0, Len(of(types[i]))>> \o Sized(of(types[i]))])
------------------------------------------------------------------------------
(* The worker's turn, step by step.                                         *)

Init ==
  /\ codec \in {"h264", "h265"}
  /\ units \in (IF codec = "h264" THEN Frames264 ELSE Frames265)
  /\ ptr = FlattenSeq([i \in 1..Len(units) |-> Reverse(Bytes(Len(units[i]))) \o units[i]])
  /\ phase = "packed" /\ record = <<>> /\ nalu = 1 /\ samples = <<>> /\ aborted = FALSE

\* dash_server_worker puts start codes in place of the lengths.
Mark ==
  /\ phase = "packed" /\ phase' = "setup"
  /\ ptr' = Marked(ptr)
  /\ nalu' = h26x_start_code(ptr', 1)
  /\ UNCHANGED <<codec, units, record, samples, aborted>>

frame == h26x_start_code(ptr, 1)

nalu2 == h26x_start_code(ptr, nalu + 4)

\* h264_nal_type, h265_nal_type
nal_unit_type == TypeOf(ptr[nalu + (IF ptr[nalu + 2] = 0 THEN 4 ELSE 3)])

Abort == aborted' = TRUE /\ UNCHANGED <<codec, units, phase, ptr, record, nalu, samples>>

\* What the loops do with a slice: all since the start of the frame is converted.
Converted == annexbtomp4(SubSeq(ptr, frame, nalu2 - 1))

\* One turn of the loop of init_h264_read_frame, init_h265_read_frame (which does not
\* test for type 0): the first slice ends it.
SetUp ==
  /\ phase = "setup" /\ ~aborted
  /\ IF nalu > Len(ptr) \/ (Reader!VCL(nal_unit_type) /\ ~Converted.abort
                            /\ Recordable(Converted)
                            /\ ~(codec = "h264" /\ nal_unit_type = 0))
     THEN /\ phase' = "reading" /\ nalu' = frame
          /\ \E g \in {0, 255} :
               record' = IF nalu > Len(ptr) THEN <<>>
                         ELSE IF codec = "h264" THEN AvcRecord(Converted, g)
                         ELSE HevcRecord(Converted)
          /\ UNCHANGED <<codec, units, ptr, samples, aborted>>
     ELSE IF Reader!VCL(nal_unit_type) THEN Abort
     ELSE nalu' = nalu2 /\ UNCHANGED <<codec, units, phase, ptr, record, samples, aborted>>

\* One turn of the loop of h264_read_frame, h265_read_frame.
ReadUnit ==
  /\ phase = "reading" /\ ~aborted /\ nalu <= Len(ptr)
  /\ IF ~Reader!VCL(nal_unit_type)
     THEN nalu' = nalu2 /\ UNCHANGED <<codec, units, phase, ptr, record, samples, aborted>>
     ELSE IF nal_unit_type = 0 \/ Converted.abort THEN Abort
     ELSE /\ samples' = Append(samples, IF Converted.errcode THEN <<>> ELSE Converted.out)
          /\ nalu' = nalu2
          /\ UNCHANGED <<codec, units, phase, ptr, record, aborted>>

Finished == aborted \/ (phase = "reading" /\ nalu > Len(ptr))

Next == Mark \/ SetUp \/ ReadUnit \/ (Finished /\ UNCHANGED vars)

Spec == Init /\ [][Next]_vars
------------------------------------------------------------------------------
(* Properties.                                                              *)

Types == [i \in 1..Len(units) |-> TypeOf(units[i][1])]

Ends == SetToSortSeq(Reader!Slices(Types), <)

Of(us, types) == SelectSeq(us, LAMBDA u : TypeOf(u[1]) \in types)

\* More parameter sets than there is room for, unnoticed only in the table of PPS.
Overflow(us) ==
  IF codec = "h264" THEN Len(Of(us, {7})) > SpsTable
  ELSE LET sets == Of(us, {32, 33, 34})
       IN Len(sets) > ArrayTable \/ SizeOf(sets) >= DataBytes

\* The bytes do what FrameReader says of types: each slice makes one sample, which holds
\* the NAL units up to it that FrameReader keeps, each whole and behind its length,
\* whatever their bytes are.  Only if there are more parameter sets than fit the sample
\* is empty.
BytesComeThrough ==
  /\ \A k \in 1..Len(samples) :
       LET upto == SubSeq(units, 1, Ends[k])
           kept == SelectSeq(upto, LAMBDA u : Reader!Kept(TypeOf(u[1])))
       IN samples[k] = IF Overflow(upto) THEN <<>>
                       ELSE FlattenSeq([i \in 1..Len(kept) |-> Bytes(Len(kept[i])) \o kept[i]])
  /\ Finished /\ ~aborted => Len(samples) = Len(Ends)

\* n sets of parameters in a record, as a player reads them from position p on.
ReadSets(n, p) ==
  LET at[i \in 1..n + 1] == IF i = 1 THEN p ELSE at[i - 1] + 2 + record[at[i - 1] + 1]
  IN [sets |-> [i \in 1..n |-> SubSeq(record, at[i] + 2, at[i] + 1 + record[at[i] + 1])],
      next |-> at[n + 1]]

\* All sets a player finds in the record.
RecordedSets ==
  IF codec = "h264"
  THEN LET sps == ReadSets(record[6], 7)
       IN sps.sets \o ReadSets(record[sps.next], sps.next + 1).sets
  ELSE FoldLeft(LAMBDA r, k : LET a == ReadSets(record[r.next + 2], r.next + 3)
                              IN [sets |-> r.sets \o a.sets, next |-> a.next],
                [sets |-> <<>>, next |-> 24], [k \in 1..record[23] |-> k]).sets

\* A player finds in the record all parameter sets up to the first slice, byte by byte
\* and by type, as long as there are fewer than the tables hold (a full table of SPS or
\* PPS is announced as empty), with the profile and level the stream has.
RecordHoldsSets ==
  record # <<>> =>
    LET upto == SubSeq(units, 1, Ends[1])
        sets(type) == Of(upto, {type})
        vps == SelectSeq(sets(32), LAMBDA u : Len(hevc_rbsp_decode(u)) >= 18)
    IN IF codec = "h264"
       THEN /\ Len(sets(7)) < SpsTable /\ Len(sets(8)) < PpsTable =>
                 RecordedSets = sets(7) \o sets(8)
            /\ sets(7) # <<>> => SubSeq(record, 2, 4) = SubSeq(sets(7)[1], 2, 4)
       ELSE ~Overflow(upto) =>
            /\ RecordedSets = sets(32) \o sets(33) \o sets(34)
            /\ vps # <<>> =>
                 LET v == hevc_rbsp_decode(Last(vps))
                 IN record[2] = v[7] /\ record[13] = v[18]

\* The asserts on the way fail for four reasons only: a picture of type 0, a parameter
\* set of H.264 longer than its entry, parameter sets of H.265 that are more than half of
\* what there is room for, a frame as large as the buffer.  In particular no NAL unit
\* comes out empty, wherever zeros are.
OnlyKnownAborts ==
  aborted => \/ 0 \in Range(Types)
             \/ codec = "h264" /\ \E u \in Range(Of(units, {7, 8})) : Len(u) > SetBytes
             \/ codec = "h265" /\ 2 * SizeOf(Of(units, {32, 33, 34})) > DataBytes
             \/ SizeOf(units) + 4 * Len(units) >= BufferBytes
==============================================================================
