------------------------------ MODULE Fmp4Writer ------------------------------
(***************************************************************************)
(* The fragmented MP4 writer (fmp4-writer.c): samples are collected per    *)
(* track and grouped into clusters; a fragment writes them out as          *)
(*                                                                         *)
(*   [sidx per track] moof (traf (trun per cluster) per track) mdat        *)
(*                                                                         *)
(* with the clusters of the tracks interleaved in the mdat.  Sizes and     *)
(* data offsets are not known when their boxes are written: they are       *)
(* patched in later, by position.  The reader's side of a fragment         *)
(* (mov-reader.c, mov-tfhd.c, mov-trun.c) says what a file means.          *)
(*                                                                         *)
(* The unit of a file is the cell: the fixed part of a box is one cell, a  *)
(* byte of media data is one cell.  Timestamps are in the track's own      *)
(* scale, and pts = dts, as the server calls it.                           *)
(***************************************************************************)
EXTENDS Integers, SequencesExt

CONSTANTS
  Callers,          \* who uses a writer, and how far that is followed: see Caller
  frag_interleave,  \* 5 in the code
  GROW,             \* capacity step of the sample table (1024 in the code)
  FRAGS_GROW,       \* capacity step of the fragment table (64 in the code)
  WORD              \* the numbers of one word of a file are below it (2^32 in the code)

\* A caller: the handler types of the tracks it adds; whether it sets MOV_FLAG_SEGMENT,
\* then it is the server, else any caller that keeps to the header; the size of its
\* buffer and how far realloc may let that grow; whether an allocation of the writer
\* may fail, succeed; the sizes of samples (dash_mpd_input refuses empty ones); and
\* bounds on the calls of fmp4_writer_write and fmp4_writer_save_segment.
Caller == [tracks : Seq({"video", "audio"}), segment : BOOLEAN, maxsize : Nat,
           limits : SUBSET Nat, alloc : SUBSET BOOLEAN, sizes : SUBSET (Nat \ {0}),
           samples : Nat, saves : Nat]

ASSUME CallerAssumption == \A c \in Callers :
                             /\ c.tracks \in Seq({"video", "audio"})
                             /\ c.limits \subseteq 0..c.maxsize /\ c.alloc \subseteq BOOLEAN
                             /\ c.sizes \subseteq Nat \ {0}
\* dash_mpd_add_video_adapation_set: a writer of the server has one track, of video.  Its
\* counterpart for audio is called by mp4_onaudio only, which nothing calls.
ASSUME ServerAssumption == \A c \in Callers : c.segment => c.tracks = <<"video">>
ASSUME TableAssumption  == /\ {GROW, FRAGS_GROW, frag_interleave, WORD} \subseteq Nat \ {0}
                           /\ GROW > 1

VARIABLES
  caller,    \* the caller, for the life of the writer
  phase,     \* "new", "open", "refused" (no init segment), "destroyed"
  writer,    \* struct fmp4_writer_t with its tracks
  io,        \* its buffer: the cells, the sticky error, how far it may grow
  clock,     \* dts of the newest sample
  raw,       \* the caller's raw_bytes > 0
  calls,     \* samples offered and segments saved, for the bounds
  accepted,  \* what fmp4_writer_write took since the last save, per track
  saved      \* the outcome of the save just made

vars == <<caller, phase, writer, io, clock, raw, calls, accepted, saved>>

Tracks  == caller.tracks
SEGMENT == caller.segment
maxsize == caller.maxsize
AllocResults == caller.alloc

NewTrack(type) == [handler_type |-> type, samples |-> <<>>, sample_offset |-> 0,
                   offset |-> 0, end_dts |-> 0, frags |-> <<>>, frag_capacity |-> 0]
Nothing == [i \in 1..Len(Tracks) |-> <<>>]
NotSaved == [ok |-> TRUE, cells |-> <<>>, input |-> Nothing]
------------------------------------------------------------------------------
(* The buffer, as mov-ioutil.h and the callbacks of dash-mpd.cpp give it.   *)

\* Faulty variant: a failed write is forgotten.
Put_NotSticky(b, cells) ==
  IF Len(b.cells) + Len(cells) > b.limit THEN b
  ELSE [b EXCEPT !.cells = @ \o cells]

\* A write at the end of the buffer; nothing once the error is set.
Put(b, cells) ==
  IF b.error THEN b
  ELSE IF Len(b.cells) + Len(cells) > b.limit THEN [b EXCEPT !.error = TRUE]
  ELSE [b EXCEPT !.cells = @ \o cells]

\* mov_write_size: seek, write, seek back; a seek to maxsize is refused, so in a
\* buffer that is full to the brim the patch is done and the error is set.
Patch(b, at, field, value) ==
  IF b.error THEN b
  ELSE [b EXCEPT !.cells[at][field] = value, !.error = Len(b.cells) >= maxsize]

Tell(b) == Len(b.cells) + 1
------------------------------------------------------------------------------
(* Clusters.                                                                *)

\* The heads of a track's clusters, as fmp4_write_traf and the interleaving loop
\* walk them: from head to head by its samples_per_chunk.
Clusters(s) ==
  LET from[i \in 1..Len(s)] ==
        LET next == i + s[i].samples_per_chunk
        IN IF next = i THEN <<>>
           ELSE <<i>> \o (IF next <= Len(s) THEN from[next] ELSE <<>>)
  IN IF s = <<>> THEN <<>> ELSE from[1]

\* The asserts of that walk: no cluster is empty, none goes past the table.
WellClustered(s) ==
  s # <<>> => LET c == Clusters(s)
              IN c # <<>> /\ Last(c) + s[Last(c)].samples_per_chunk = Len(s) + 1

\* Faulty variant: a full cluster is closed whatever was written in between.
Full_Always(tracks, t, sn) ==
  tracks[t].samples[tracks[t].offset + 1].samples_per_chunk >= frag_interleave

\* The cluster a sample of track t would join is full, and samples of other
\* tracks were written since it began.
Full(tracks, t, sn) ==
  LET head == tracks[t].samples[tracks[t].offset + 1]
  IN /\ head.samples_per_chunk >= frag_interleave
     /\ head.first_chunk + head.samples_per_chunk + 1 # sn

\* All tracks begin a new cluster, ahead of the sample just stored for track t.
Switched(tracks, t, key, sn) ==
  IF Full(tracks, t, sn) \/ (tracks[t].handler_type = "video" /\ key)
  THEN [u \in DOMAIN tracks |->
          [tracks[u] EXCEPT !.offset =
             Len(tracks[u].samples) - (IF u = t THEN 1 ELSE 0)]]
  ELSE tracks

\* Faulty variant: the sample is counted in the cluster before the switch.
Cluster_OldHead(tracks, t, key, sn) ==
  [Switched(tracks, t, key, sn) EXCEPT
     ![t].samples[tracks[t].offset + 1].samples_per_chunk = @ + 1]

\* fmp4_writer_cluster: the sample just stored, the last of track t, joins the
\* cluster of its track, a new one if need be.
Cluster(tracks, t, key, sn) ==
  LET switched == Switched(tracks, t, key, sn)
  IN [switched EXCEPT ![t].samples[switched[t].offset + 1].samples_per_chunk = @ + 1]
------------------------------------------------------------------------------
(* The boxes of a fragment.  m holds the buffer b and the tracks.           *)

\* One entry per sample of the cluster at head.  The duration of a sample is the
\* distance to the next one of the track, 0 for the last.
Run(s, head) ==
  [k \in 1..s[head].samples_per_chunk |->
     LET i == head + k - 1
     IN [duration |-> IF i < Len(s) THEN s[i + 1].dts - s[i].dts ELSE 0,
         bytes    |-> s[i].bytes]]

\* mov_write_trun; where it stands is kept in the head, for the data offset.
WriteTrun(m, t, head) ==
  [b |-> Put(m.b, <<[box |-> "trun", data_offset |-> 0,
                     run |-> Run(m.tracks[t].samples, head)]>>),
   tracks |-> [m.tracks EXCEPT ![t].samples[head].offset = Tell(m.b)]]

\* The box that begins at at is complete.
Sized(m, at) == [m EXCEPT !.b = Patch(@, at, "size", Tell(@) - at)]

\* fmp4_write_traf with mov_write_tfhd and fmp4_write_tfdt; a track without
\* samples has none.
WriteTraf(m, t) ==
  LET s == m.tracks[t].samples
      at == Tell(m.b)
      heads == Clusters(s)
      opened == [m EXCEPT !.b = Put(@, <<[box |-> "traf", track |-> t, size |-> 0,
                                          tfdt |-> s[1].dts]>>)]
      filled[k \in 0..Len(heads)] ==
        IF k = 0 THEN opened ELSE WriteTrun(filled[k - 1], t, heads[k])
  IN IF s = <<>> THEN m ELSE Sized(filled[Len(heads)], at)

WriteMoof(m, sequence_number) ==
  LET at == Tell(m.b)
      opened == [m EXCEPT !.b = Put(@, <<[box |-> "moof", size |-> 0,
                                          mfhd |-> sequence_number]>>)]
      filled[t \in 0..Len(m.tracks)] ==
        IF t = 0 THEN opened ELSE WriteTraf(filled[t - 1], t)
  IN Sized(filled[Len(m.tracks)], at)

\* Faulty variant: the boxes that follow are counted with the box itself.
WriteSidx_CountsItself(b, tracks) ==
  Put(b, [t \in 1..Len(tracks) |->
            [box |-> "sidx", track |-> t, referenced_size |-> 0,
             first_offset |-> Len(tracks) - t + 1]])

\* One per track, ahead of the moof.  referenced_size is patched in later.
WriteSidx(b, tracks) ==
  Put(b, [t \in 1..Len(tracks) |->
            LET s == tracks[t].samples
            IN [box |-> "sidx", track |-> t, referenced_size |-> 0,
                first_offset |-> Len(tracks) - t,
                earliest |-> IF s = <<>> THEN 0 ELSE s[1].dts,
                duration |-> IF s = <<>> THEN 0 ELSE Last(s).dts - s[1].dts]])

\* The bytes of one sample.
Data(sample) == [k \in 1..sample.bytes |->
                   [box |-> "data", sample |-> sample.first_chunk, byte |-> k]]

\* The samples of the cluster at head, one write each.
PutData(b, s, head) ==
  LET filled[k \in 0..s[head].samples_per_chunk] ==
        IF k = 0 THEN b ELSE Put(filled[k - 1], Data(s[head + k - 1]))
  IN filled[s[head].samples_per_chunk]

\* Faulty variant: the data offset is patched after the cluster is written.
WriteCluster_Late(m, t, head, moof) ==
  LET s == m.tracks[t].samples
      b == PutData(m.b, s, head)
  IN [m EXCEPT !.b = Patch(b, s[head].offset, "data_offset", Tell(b) - moof)]

\* A cluster goes into the mdat, its place into the trun.
WriteCluster(m, t, head, moof) ==
  LET s == m.tracks[t].samples
      b == Patch(m.b, s[head].offset, "data_offset", Tell(m.b) - moof)
  IN [m EXCEPT !.b = PutData(b, s, head)]

\* One turn of the interleaving loop: the next cluster of each track that has one.
WriteRound(m, heads, r, moof) ==
  LET filled[t \in 0..Len(heads)] ==
        IF t = 0 THEN m
        ELSE IF r <= Len(heads[t]) THEN WriteCluster(filled[t - 1], t, heads[t][r], moof)
        ELSE filled[t - 1]
  IN filled[Len(heads)]

WriteMdat(m, moof) ==
  LET at == Tell(m.b)
      opened == [m EXCEPT !.b = Put(@, <<[box |-> "mdat", size |-> 0]>>)]
      heads == [t \in 1..Len(m.tracks) |-> Clusters(m.tracks[t].samples)]
      rounds == Max({Len(heads[t]) : t \in 1..Len(heads)})
      filled[r \in 0..rounds] ==
        IF r = 0 THEN opened ELSE WriteRound(filled[r - 1], heads, r, moof)
  IN Sized(filled[rounds], at)
------------------------------------------------------------------------------
(* Fragments.                                                               *)

\* fmp4_add_fragment_entry; without memory the entry is lost, unnoticed.
AddFragmentEntry(track, moof, grown) ==
  LET full == Len(track.frags) >= track.frag_capacity
  IN IF track.samples = <<>> \/ (full /\ ~grown) THEN track
     ELSE [track EXCEPT
             !.frags = Append(@, [time |-> track.samples[1].dts, offset |-> moof]),
             !.frag_capacity = IF full THEN @ + FRAGS_GROW ELSE @]

\* The samples of a table that are in one of its clusters.
Clustered(s) ==
  {i \in 1..Len(s) : \E head \in Range(Clusters(s)) :
                       i \in head..head + s[head].samples_per_chunk - 1}

\* The samples whose memory the interleaving loop frees: it goes on until no track has
\* a cluster left.
Freed(tracks) ==
  UNION {{tracks[t].samples[i].first_chunk : i \in Clustered(tracks[t].samples)} :
           t \in DOMAIN tracks}

Cleared(track) == [track EXCEPT !.samples = <<>>, !.end_dts = 0, !.offset = 0]

\* The sidx boxes ahead of the moof learn how much follows them.
SizeIndex(b, n, moof, size) ==
  LET sized[t \in 0..n] ==
        IF t = 0 THEN b ELSE Patch(sized[t - 1], moof - (n - t + 1), "referenced_size", size)
  IN sized[n]

\* fmp4_write_fragment.  grown says whether the tables of entries may grow.
Fragment(w, b, grown) ==
  LET started == IF w.has_moov THEN b
                 ELSE Put(b, IF SEGMENT THEN <<[box |-> "styp"]>>
                             ELSE <<[box |-> "ftyp"], [box |-> "moov"]>>)
      indexed == IF SEGMENT THEN WriteSidx(started, w.tracks) ELSE started
      moof == Tell(indexed)
      n == Len(w.tracks)
      m == WriteMoof([b |-> indexed, tracks |-> w.tracks], w.fragment_id + 1)
      refsize == Tell(m.b) - moof + w.mdat_size + 1
      done == WriteMdat(IF SEGMENT THEN [m EXCEPT !.b = SizeIndex(m.b, n, moof, refsize)]
                        ELSE m, moof)
  IN IF w.mdat_size < 1 THEN [w |-> w, b |-> b]
     ELSE IF \E t \in 1..n : ~WellClustered(w.tracks[t].samples)
     THEN [w |-> [w EXCEPT !.aborted = TRUE], b |-> b]
     ELSE [b |-> done.b,
           w |-> [w EXCEPT
                    !.has_moov = TRUE, !.fragment_id = @ + 1, !.mdat_size = 0,
                    !.heap = @ \ Freed(w.tracks),
                    !.tracks = [t \in 1..n |->
                      Cleared(AddFragmentEntry(w.tracks[t], moof, grown[t]))]]]

WriteMfra(b, tracks) ==
  LET at == Tell(b)
      filled == Put(b, <<[box |-> "mfra", size |-> 0]>>
                       \o [t \in 1..Len(tracks) |->
                             [box |-> "tfra", track |-> t, entries |-> tracks[t].frags]]
                       \o <<[box |-> "mfro", size |-> Len(tracks) + 2]>>)
  IN Patch(filled, at, "size", Len(tracks) + 2)

\* Faulty variant: the entries of the file before stay in the index.
SaveSegment_KeepsEntries(w, b, grown) ==
  LET f == Fragment(w, b, grown)
      closed == [f.w EXCEPT !.has_moov = FALSE]
  IN IF SEGMENT \/ f.w.aborted THEN [f EXCEPT !.w = closed]
     ELSE [b |-> WriteMfra(f.b, f.w.tracks), w |-> closed]

\* fmp4_writer_save_segment.
SaveSegment(w, b, grown) ==
  LET f == Fragment(w, b, grown)
      closed == [f.w EXCEPT !.has_moov = FALSE]
      emptied == [t \in DOMAIN f.w.tracks |-> [f.w.tracks[t] EXCEPT !.frags = <<>>]]
  IN IF SEGMENT \/ f.w.aborted THEN [f EXCEPT !.w = closed]
     ELSE [b |-> WriteMfra(f.b, f.w.tracks), w |-> [closed EXCEPT !.tracks = emptied]]
------------------------------------------------------------------------------
(* The calls.                                                               *)

Init ==
  /\ caller \in Callers
  /\ phase = "new" /\ clock = 0 /\ raw = FALSE
  /\ writer = [mdat_size |-> 0, has_moov |-> FALSE, fragment_id |-> 0, sn |-> 0,
               tracks |-> <<>>, heap |-> {}, aborted |-> FALSE]
  /\ \E limit \in caller.limits : io = [cells |-> <<>>, error |-> FALSE, limit |-> limit]
  /\ calls = [samples |-> 0, saves |-> 0]
  /\ accepted = Nothing
  /\ saved = NotSaved

\* Adding the tracks and fmp4_writer_init_segment, whose boxes the caller takes
\* out of the buffer.  The server does not look at the result of the former.
Setup ==
  /\ phase = "new"
  /\ \E added \in AllocResults :
       LET b == Put(io, <<[box |-> "ftyp"], [box |-> "moov"]>>)
       IN /\ phase' = IF b.error \/ (~added /\ ~SEGMENT) THEN "refused" ELSE "open"
          /\ writer' = [writer EXCEPT !.tracks =
                          IF added THEN [i \in 1..Len(Tracks) |-> NewTrack(Tracks[i])]
                          ELSE <<>>]
          /\ io' = [b EXCEPT !.cells = <<>>]
  /\ UNCHANGED <<caller, clock, raw, calls, accepted, saved>>

\* The sample as fmp4_writer_write stores it, then the cluster.
Store(w, t, bytes, dts, key) ==
  LET sample == [bytes |-> bytes, dts |-> dts, key |-> key, offset |-> 0,
                 samples_per_chunk |-> 0, first_chunk |-> w.sn]
      tracks == [w.tracks EXCEPT ![t].samples = Append(@, sample)]
  IN [w EXCEPT !.sn = @ + 1, !.heap = @ \cup {w.sn}, !.mdat_size = @ + bytes,
               !.tracks = Cluster(tracks, t, key, w.sn + 1)]

TableFull(track) == Len(track.samples) + 1 >= track.sample_offset

\* Faulty variant: the sample is counted though there is no memory for its data.
Take_CountsFirst(w, t, bytes, dts, key, grown, copied) ==
  LET stored == Store([w EXCEPT !.tracks[t].sample_offset = @ + GROW],
                      t, bytes, dts, key)
  IN IF copied THEN stored ELSE [stored EXCEPT !.heap = w.heap]

\* fmp4_writer_write of an existing track, after the fragment a key frame ends.
\* grown: there is memory for a larger table; copied: for the data.
Take(w, t, bytes, dts, key, grown, copied) ==
  LET full == TableFull(w.tracks[t])
      track == [w.tracks[t] EXCEPT !.sample_offset = IF full THEN @ + GROW ELSE @,
                                   !.end_dts = dts]
      ready == [w EXCEPT !.tracks[t] = track,
                         !.aborted = @ \/ w.tracks[t].end_dts > dts]
  IN IF full /\ ~grown THEN w
     ELSE IF ready.aborted \/ ~copied THEN ready
     ELSE Store(ready, t, bytes, dts, key)

\* Fragment per video key frame.
BeforeKey(w, b, t, key, grown) ==
  IF w.tracks[t].handler_type = "video" /\ key THEN Fragment(w, b, grown)
  ELSE [w |-> w, b |-> b]

\* dash_mpd_input behind its flush, or any caller of fmp4_writer_write.  The
\* server flushes ahead of a key frame and begins segments with one (a frame that
\* came out empty would flush too: see DashMpd).  It ignores what the call returns.
\* No two distances of timestamps are alike.
Write ==
  /\ phase = "open" /\ ~writer.aborted /\ calls.samples < caller.samples
  /\ \E t \in 1..Len(Tracks), bytes \in caller.sizes, key \in BOOLEAN,
        grown, copied \in AllocResults, entries \in [1..Len(Tracks) -> AllocResults] :
       /\ key => Tracks[t] = "video"
       /\ SEGMENT => (key <=> ~raw)
       /\ clock' = clock + calls.samples + 1
       /\ IF writer.tracks = <<>> THEN UNCHANGED <<writer, io, accepted>>   \* -ENOENT
          ELSE LET f == BeforeKey(writer, io, t, key, entries)
                   w == IF f.w.aborted THEN f.w
                        ELSE Take(f.w, t, bytes, clock', key, grown, copied)
               IN /\ writer' = w /\ io' = f.b
                  /\ accepted' = IF w.sn = f.w.sn THEN accepted
                                 ELSE [accepted EXCEPT ![t] = Append(@,
                                        [sample |-> f.w.sn, bytes |-> bytes,
                                         dts |-> clock', key |-> key])]
  /\ raw' = TRUE
  /\ calls' = [calls EXCEPT !.samples = @ + 1]
  /\ saved' = NotSaved
  /\ UNCHANGED <<caller, phase>>

\* What a save leaves behind; the caller takes the file out of the buffer.
Saved(s) ==
  /\ writer' = s.w
  /\ io' = [s.b EXCEPT !.cells = <<>>]
  /\ saved' = [ok |-> ~s.b.error, cells |-> s.b.cells, input |-> accepted]
  /\ accepted' = Nothing
  /\ raw' = FALSE

\* fmp4_writer_save_segment, from dash_adaptation_set_segment or another caller.
Save ==
  /\ phase = "open" /\ ~writer.aborted /\ calls.saves < caller.saves
  /\ SEGMENT => raw
  /\ \E entries \in [1..Len(Tracks) -> AllocResults] :
       Saved(SaveSegment(writer, io, entries))
  /\ calls' = [calls EXCEPT !.saves = @ + 1]
  /\ UNCHANGED <<caller, phase, clock>>

\* fmp4_writer_destroy saves a last time and frees what is left.  The server never
\* calls it.
Destroy ==
  /\ phase = "open" /\ ~writer.aborted /\ ~SEGMENT
  /\ \E entries \in [1..Len(Tracks) -> AllocResults] :
     \E s \in {SaveSegment(writer, io, entries)} :
       LET left == UNION {{x.first_chunk : x \in Range(s.w.tracks[t].samples)} :
                            t \in DOMAIN s.w.tracks}
       IN Saved([s EXCEPT !.w.heap = @ \ left])
  /\ phase' = "destroyed"
  /\ UNCHANGED <<caller, clock, calls>>

Finished ==
  /\ \/ phase \in {"refused", "destroyed"} \/ writer.aborted
     \/ calls.samples = caller.samples \/ calls.saves = caller.saves
  /\ UNCHANGED vars

Next == Setup \/ Write \/ Save \/ Destroy \/ Finished

Spec == Init /\ [][Next]_vars
------------------------------------------------------------------------------
(* What a file says: the reader of fragments.                               *)

\* The places of the boxes of one type, in order.
Boxes(cells, box, from, to) ==
  LET found[p \in from - 1..to] ==
        IF p < from THEN <<>>
        ELSE IF cells[p].box = box THEN Append(found[p - 1], p) ELSE found[p - 1]
  IN found[to]

\* The bytes of a sample; a read past the end gives none (E2BIG).
Content(cells, from, n) ==
  IF from + n - 1 > Len(cells) THEN <<>> ELSE SubSeq(cells, from, from + n - 1)

\* One entry of a trun in mov_read_trun.  Audio samples are all sync samples, of
\* video samples the first of each trun (tfhd's default flags, first_sample_flags).
ReadEntry(r, entry, cells, sync) ==
  [at |-> r.at + entry.bytes, end_dts |-> r.end_dts + entry.duration, n |-> r.n + 1,
   out |-> Append(r.out, [dts |-> r.end_dts, sync |-> sync \/ r.n = 1,
                          data |-> Content(cells, r.at, entry.bytes)])]

\* mov_read_trun; the place of the moof is the base of the data offset (mov_read_tfhd).
ReadTrun(r, cells, moof, trun, sync) ==
  LET run == cells[trun].run
      read[k \in 0..Len(run)] ==
        IF k = 0 THEN [r EXCEPT !.at = moof + cells[trun].data_offset, !.n = 1]
        ELSE ReadEntry(read[k - 1], run[k], cells, sync)
  IN read[Len(run)]

\* A time that no sample has.
Mangled == -1

\* mov_buffer_r64 puts the upper word in the wrong place: of a number of two words it
\* makes another one.
r64(v) == IF v < WORD THEN v ELSE Mangled

\* mov_read_tfdt.  A time that is written in version 0, in one word, comes out of r64 as
\* it is, and so does one of version 1 that would fit in one.
ReadTfdt(traf) == r64(traf.tfdt)

\* The tfdt and the truns of a traf.
ReadTraf(out, cells, moof, traf, sync) ==
  LET truns == Boxes(cells, "trun", traf + 1, traf + cells[traf].size - 1)
      read[i \in 0..Len(truns)] ==
        IF i = 0 THEN [at |-> 0, n |-> 1, end_dts |-> ReadTfdt(cells[traf]), out |-> out]
        ELSE ReadTrun(read[i - 1], cells, moof, truns[i], sync)
  IN read[Len(truns)].out

\* mov_read_moof, as far as it is about track t.
ReadMoof(out, cells, moof, t) ==
  LET trafs == Boxes(cells, "traf", moof + 1, moof + cells[moof].size - 1)
      read[i \in 0..Len(trafs)] ==
        IF i = 0 THEN out
        ELSE IF cells[trafs[i]].track # t THEN read[i - 1]
        ELSE ReadTraf(read[i - 1], cells, moof, trafs[i], Tracks[t] = "audio")
  IN read[Len(trafs)]

\* The samples a reader finds for track t: those of each fragment.
Samples(cells, t) ==
  LET moofs == Boxes(cells, "moof", 1, Len(cells))
      read[i \in 0..Len(moofs)] ==
        IF i = 0 THEN <<>> ELSE ReadMoof(read[i - 1], cells, moofs[i], t)
  IN read[Len(moofs)]
------------------------------------------------------------------------------
(* Properties.                                                              *)

\* No assert of the writer fails, whatever is written to whichever track: the
\* clusters always partition the samples of their track (fmp4_write_traf and the
\* loop of fmp4_write_fragment walk them), and dts does not go back.
NoAbort == ~writer.aborted

\* A save that reports success has put every sample the writer took since the
\* save before into the file, once, in order, with its timestamp and its bytes,
\* as a reader finds them by the boxes alone: sizes, offsets, base and durations.
\* The timestamps come out only as long as those of the track fit in one word, the
\* bytes always: the library's own reader cannot read a base of two words (a reader
\* that can would find the one WriteTraf wrote).
SavedIsWhole ==
  saved.ok =>
    \A t \in 1..Len(Tracks) :
      LET out == Samples(saved.cells, t)
          input == saved.input[t]
      IN /\ Len(out) = Len(input)
         /\ \A k \in 1..Len(input) :
              /\ (\A i \in 1..k : input[i].dts < WORD) => out[k].dts = input[k].dts
              /\ out[k].data = Data([bytes |-> input[k].bytes,
                                     first_chunk |-> input[k].sample])

\* In the segments of the server (one video track, written by a caller that
\* flushes ahead of key frames) exactly the key frames are sync samples, though
\* the writer marks the first sample of every trun as one without looking.  Only
\* if the writer had no memory for the key frame does the sample behind it pass
\* for one.
SyncSamplesAreKeys ==
  saved.ok /\ SEGMENT =>
    LET out == Samples(saved.cells, 1)
        key(k) == saved.input[1][k].key
        refused == \A k \in 1..Len(out) : ~key(k)
    IN \A k \in 1..Len(out) : out[k].sync <=> key(k) \/ (refused /\ k = 1)

\* The index ahead of a segment describes all of it: from where it says to the
\* end of the file (the comment in fmp4_write_fragment: the first sidx box shall
\* document the entire segment).
IndexSpansSegment ==
  saved.ok =>
    \A p \in 1..Len(saved.cells) :
      saved.cells[p].box = "sidx" =>
        LET start == p + 1 + saved.cells[p].first_offset
        IN /\ saved.cells[start].box = "moof"
           /\ start + saved.cells[p].referenced_size - 1 = Len(saved.cells)

\* Every entry of the index behind a file leads to a fragment with samples of that
\* track that begin at that time, and unless memory was short no fragment is
\* missing.
EntriesLeadToFragments ==
  saved.ok =>
    \A p \in 1..Len(saved.cells) :
      saved.cells[p].box = "tfra" =>
        LET cells == saved.cells
            has(moof, time) ==
              \E q \in moof + 1..moof + cells[moof].size - 1 :
                 /\ cells[q].box = "traf" /\ cells[q].track = cells[p].track
                 /\ cells[q].tfdt = time
        IN /\ \A i \in DOMAIN cells[p].entries :
                LET e == cells[p].entries[i]
                IN cells[e.offset].box = "moof" /\ has(e.offset, e.time)
           /\ FALSE \in AllocResults \/
                \A m \in 1..Len(cells) :
                  cells[m].box = "moof" =>
                    \A q \in m + 1..m + cells[m].size - 1 :
                      cells[q].box = "traf" /\ cells[q].track = cells[p].track =>
                        \E i \in DOMAIN cells[p].entries :
                          cells[p].entries[i].offset = m

\* The memory of a sample lives as long as the sample is in a table, and no longer:
\* nothing is freed twice, nothing is left when the writer is destroyed.  No table is
\* longer than what was allocated for it, whichever allocation failed.
MemoryOwned ==
  /\ writer.heap = UNION {{s.first_chunk : s \in Range(writer.tracks[t].samples)} :
                            t \in DOMAIN writer.tracks}
  /\ \A t \in DOMAIN writer.tracks :
       /\ Len(writer.tracks[t].samples) <= writer.tracks[t].sample_offset
       /\ Len(writer.tracks[t].frags) <= writer.tracks[t].frag_capacity

==============================================================================
