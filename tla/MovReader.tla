------------------------------ MODULE MovReader ------------------------------
(***************************************************************************)
(* The reader of plain MP4 files (mov-reader.c): the run-length tables of  *)
(* each track become one table of samples, with offsets, decoding and      *)
(* composition times, and mov_reader_seek finds a position in it.  What    *)
(* the files hold, box by box, is in MovFile.                              *)
(*                                                                         *)
(* Samples are numbered from 1 in sequences; sample_offset and the         *)
(* variables of the searches count from 0 as in the code.                  *)
(***************************************************************************)
EXTENDS MovFile

CONSTANTS
  sample_count, \* samples per track
  Movies,       \* [layout, tracks]: how a file is laid out and what its tracks hold
  Base,         \* where the media data begins in a file
  Gap,          \* bytes between chunks of a track (other tracks' chunks)
  Clocks,       \* timestamps sought
  MaxSeeks      \* bound: calls of mov_reader_seek

\* A track of a file: per sample its bytes, the distance to the next, pts - dts;
\* the samples in each chunk; the empty edit ahead of it, 0 for none; the key frames
\* of a video, and whether they are in an stss; its codec and what that needs to know.
Track(t) ==
  /\ t.handler_type \in {"video", "audio"}
  /\ t.bytes \in [1..sample_count -> Nat \ {0}]
  /\ t.delta \in [1..sample_count -> Nat] /\ t.shift \in [1..sample_count -> Int]
  /\ t.chunks \in Seq(1..sample_count) /\ Total(t.chunks) = sample_count
  /\ t.delay \in Nat /\ t.stss \in BOOLEAN /\ t.keys \subseteq 1..sample_count
  /\ t.handler_type = "video" => t.keys # {}
  /\ t.stss => t.handler_type = "video"
  /\ t.object \in 1..255 /\ t.extra \in Seq(0..255)

\* The boxes another program may add, see Odd; "nowhere" if there is none.
OddBox(odd) ==
  /\ odd.at \in {"nowhere", "root"} \cup Range(Names) /\ odd.type \in Range(Names)
  /\ {odd.first, odd.large} \subseteq BOOLEAN /\ odd.len \in Nat

Layout(layout) ==
  /\ OddBox(layout.odd) /\ {layout.init, layout.co64} \subseteq BOOLEAN
  /\ layout.brands \in Nat /\ layout.version \in {0, 1}
  /\ layout.mvex \in {"none", "first", "last"} /\ layout.init => layout.mvex # "none"
  /\ layout.order \in {"mdat_last", "mdat_to_end", "moov_last", "moov_to_end"}

ASSUME SampleAssumption == sample_count \in Nat \ {0} /\ {Base, Gap} \subseteq Nat
ASSUME MoviesAssumption ==
  \A m \in Movies : Layout(m.layout) /\ \A i \in 1..Len(m.tracks) : Track(m.tracks[i])
ASSUME ScaleAssumption  == {timescale, MS} \subseteq Nat \ {0} /\ Clocks \subseteq Nat

VARIABLES
  file,     \* one of Movies
  tracks,   \* mov_track_t: headers, samples, stss, sample_offset; <<>> before the file is read
  duration, \* mvhd.duration
  aborted,  \* an assert has failed
  landed,   \* what the last seek gave back in *timestamp, -1 before
  seeks     \* calls of mov_reader_seek, for the bound

vars == <<file, tracks, duration, aborted, landed, seeks>>
------------------------------------------------------------------------------
(* A track in a file.                                                       *)

\* The chunk a sample is in, the samples before it.
ChunkOf(c, n) == CHOOSE i \in 1..Len(c) : /\ Total(SubSeq(c, 1, i - 1)) < n
                                          /\ n <= Total(SubSeq(c, 1, i))
PlaceOf(t, n) == Base + Total(SubSeq(t.bytes, 1, n - 1)) + Gap * (ChunkOf(t.chunks, n) - 1)

\* Where its chunks begin.
Places(t) ==
  [i \in 1..Len(t.chunks) |-> PlaceOf(t, Total(SubSeq(t.chunks, 1, i - 1)) + 1)]

Bytes(movie) ==
  WriteFile(movie.layout, movie.tracks, [i \in DOMAIN movie.tracks |-> Places(movie.tracks[i])])
------------------------------------------------------------------------------
(* mov_track_build, of a track as ReadFile returns it.                      *)

Unrolled(runs) == FlattenSeq([i \in 1..Len(runs) |-> Repeat(runs[i].count, runs[i].value)])

\* Samples per chunk, chunk by chunk; behind the last entry stands the count of chunks.
PerChunk(stsc, stco) ==
  LET next(i) == IF i < Len(stsc) THEN stsc[i + 1].first_chunk ELSE Len(stco) + 1
  IN FlattenSeq([i \in 1..Len(stsc) |->
       Repeat(next(i) - stsc[i].first_chunk, stsc[i].samples_per_chunk)])

\* The offsets: at the beginning of a chunk its own, else behind the sample before.
Offsets(stco, counts, bytes) ==
  FoldLeft(LAMBDA out, i :
             FoldLeft(LAMBDA o, k :
                        Append(o, IF k = 1 THEN stco[i] ELSE Last(o) + bytes[Len(o)]),
                      out, [k \in 1..counts[i] |-> k]),
           <<>>, [i \in 1..Len(counts) |-> i])

\* The asserts on the tables, and on the samples once they have offsets.
WellFormed(t) ==
  LET tb == t.stbl
      n == Len(tb.stsz)
      counts == PerChunk(tb.stsc, tb.stco)
      at == Offsets(tb.stco, counts, tb.stsz)
  IN n > 0 =>
       /\ tb.stsc # <<>> /\ tb.stco # <<>>
       /\ \A e \in Range(tb.stsc) : e.first_chunk <= Len(tb.stco)
       /\ Total(counts) = n
       /\ \A k \in 1..n : tb.stsz[k] > 0
       /\ \A k \in 2..n : at[k - 1] + tb.stsz[k - 1] <= at[k]
       /\ Len(Unrolled(tb.stts)) = n
       /\ tb.ctts = <<>> \/ Len(Unrolled(tb.ctts)) = n

\* Faulty variant: composition times are taken as they are.
DtsShift_None(ctts) == 0

\* The most negative composition offset, -1 aside.
DtsShift(ctts) ==
  FoldLeft(LAMBDA s, e : IF e.value < 0 /\ s > e.value /\ e.value # -1
                         THEN e.value ELSE s, 0, ctts)

\* The durations of the empty edits; with a version of 1 they are not recognised.
EmptyEdits(t) ==
  LET empty == SelectSeq(t.elst, LAMBDA e : e.media_time = -1)
  IN [i \in 1..Len(empty) |-> empty[i].segment_duration]

Header == {"track_ID", "tkhd_duration", "handler_type", "timescale", "mdhd_duration",
           "stsd", "extra", "trex"}

\* One entry more than there are samples: the end of the last one, never a sample.
TrackBuild(t) ==
  LET tb == t.stbl
      n == Len(tb.stsz)
      at == Offsets(tb.stco, PerChunk(tb.stsc, tb.stco), tb.stsz)
      delays == EmptyEdits(t)
      start == IF delays = <<>> THEN 0 ELSE Last(delays)
      dts == FoldLeft(LAMBDA out, d : Append(out, Last(out) + d), <<start>>,
                      Unrolled(tb.stts))
      shift == IF tb.ctts = <<>> THEN Repeat(n, 0)
               ELSE [k \in 1..n |-> Unrolled(tb.ctts)[k] - DtsShift(tb.ctts)]
      sample(k) == IF k > n THEN [dts |-> dts[k], pts |-> dts[k], bytes |-> 0, offset |-> 0]
                   ELSE [dts |-> dts[k], pts |-> dts[k] + shift[k],
                         bytes |-> tb.stsz[k], offset |-> at[k]]
  IN Restrict(t, Header)
     @@ [samples |-> IF n = 0 THEN <<>> ELSE [k \in 1..n + 1 |-> sample(k)],
         stss |-> tb.stss, sample_offset |-> 0]

Count(track) == IF track.samples = <<>> THEN 0 ELSE Len(track.samples) - 1

\* mov_index_build: a video without stss gets one from the flags of its samples,
\* which mov_read_stsz has allocated and nobody has set.
IndexBuild(track, flagged) ==
  [track EXCEPT !.stss = SetToSortSeq(flagged, LAMBDA a, b : a < b)]
Unindexed(t) == t.handler_type = "vide" /\ t.stbl.stss = <<>>

\* mov_fragment_build: the empty edits again, for all samples.
FragmentBuild(track, delays) ==
  LET n == Count(track)
      delay == Total(delays)
  IN [track EXCEPT !.samples = [k \in DOMAIN @ |->
       IF k > n THEN @[k] ELSE [@[k] EXCEPT !.dts = @ + delay, !.pts = @ + delay]]]

\* mov_reader_init: durations the headers do not tell.
Lasting(track, mvhd_timescale) ==
  LET s == track.samples
      mdhd == IF track.mdhd_duration = 0 /\ s # <<>> THEN s[Count(track)].dts - s[1].dts
              ELSE track.mdhd_duration
      tkhd == IF track.tkhd_duration = 0 THEN (mdhd * mvhd_timescale) \div track.timescale
              ELSE track.tkhd_duration
  IN [track EXCEPT !.mdhd_duration = mdhd, !.tkhd_duration = tkhd]
------------------------------------------------------------------------------
(* Searches.                                                                *)

Diff(a, b) == IF a > b THEN a - b ELSE b - a

\* Where the halving stops: the place probed last.  key[m] is what place m of n holds.
Probe(key, n, clock) ==
  LET from[p \in (0..n) \X (0..n)] ==
        LET mid == (p[1] + p[2]) \div 2
        IN IF key[mid] > clock /\ p[1] < mid THEN from[<<p[1], mid>>]
           ELSE IF key[mid] < clock /\ mid + 1 < p[2] THEN from[<<mid + 1, p[2]>>]
           ELSE mid
  IN from[<<0, n>>]

\* The one of two samples that is nearer to clock, the first if they are even.
Nearer(track, a, b, clock) ==
  IF Diff(track.samples[b + 1].dts, clock) < Diff(track.samples[a + 1].dts, clock)
  THEN b ELSE a

ToClock(track, timestamp) == (timestamp * track.timescale) \div MS
ToTimestamp(track, dts) == (dts * MS) \div track.timescale

\* mov_stss_seek.  idx, if it is the one probed last, is a number from 1 that is
\* used as a place from 0.
StssSeek(track, timestamp) ==
  LET n == Len(track.stss)
      clock == ToClock(track, timestamp)
      mid == Probe([m \in 0..n - 1 |-> track.samples[track.stss[m + 1]].dts], n, clock)
      idx == track.stss[mid + 1]
      prev == track.stss[IF mid > 0 THEN mid ELSE 1] - 1
      next == track.stss[IF mid + 1 < n THEN mid + 2 ELSE mid + 1] - 1
  IN Nearer(track, Nearer(track, idx, prev, clock), next, clock)

\* mov_sample_seek; a track without samples stays where it is.
SampleSeek(track, timestamp) ==
  LET clock == ToClock(track, timestamp)
      n == Count(track)
      mid == Probe([m \in 0..n - 1 |-> track.samples[m + 1].dts], n, clock)
      best == Nearer(track, mid, IF mid > 0 THEN mid - 1 ELSE mid, clock)
  IN IF n < 1 THEN track.sample_offset
     ELSE Nearer(track, best, IF mid + 1 < n THEN mid + 1 ELSE mid, clock)

ByKeys(track) == track.handler_type = "vide" /\ track.stss # <<>>
------------------------------------------------------------------------------
\* One of the files.
Init ==
  /\ file \in Movies
  /\ tracks = <<>> /\ duration = 0 /\ aborted = FALSE /\ landed = -1 /\ seeks = 0

\* What is made of one track; flagged counts for a video without stss.
Built(t, flagged, mvhd_timescale) ==
  LET track == TrackBuild(t)
      indexed == IF Unindexed(t) THEN IndexBuild(track, flagged) ELSE track
  IN Lasting(FragmentBuild(indexed, EmptyEdits(t)), mvhd_timescale)

Flags(t) == IF Unindexed(t) THEN SUBSET DOMAIN t.stbl.stsz ELSE {{}}

\* mov_reader_create: mov_reader_box, within it mov_track_build for every track, then
\* the rest of mov_reader_init.
Create ==
  /\ tracks = <<>> /\ ~aborted
  /\ \E read \in {ReadFile(Bytes(file))} :
       LET n == Len(read.tracks)
       IN IF ~read.abort /\ \A i \in 1..n : WellFormed(read.tracks[i])
          THEN \E flagged \in {f \in [1..n -> SUBSET (1..sample_count)] :
                              \A i \in 1..n : f[i] \in Flags(read.tracks[i])} :
                 /\ tracks' = [i \in 1..n |-> Built(read.tracks[i], flagged[i], read.timescale)]
                 /\ duration' = Max({read.duration} \cup {tracks'[i].tkhd_duration : i \in 1..n})
                 /\ UNCHANGED aborted
          ELSE aborted' = TRUE /\ UNCHANGED <<tracks, duration>>
  /\ UNCHANGED <<file, landed, seeks>>

\* Faulty variant: one loop over the tracks in their order.
Sought_InOrder(ts) ==
  FoldLeft(LAMBDA s, i :
             IF ByKeys(s.tracks[i])
             THEN LET at == StssSeek(s.tracks[i], s.timestamp)
                  IN [tracks |-> [s.tracks EXCEPT ![i].sample_offset = at],
                      timestamp |-> ToTimestamp(s.tracks[i], s.tracks[i].samples[at + 1].dts)]
             ELSE [s EXCEPT !.tracks[i].sample_offset = SampleSeek(s.tracks[i], s.timestamp)],
           [tracks |-> tracks, timestamp |-> ts], [i \in 1..Len(tracks) |-> i])

\* The video tracks one after the other, each from where the one before landed,
\* then the others.
Sought(ts) ==
  LET videos == FoldLeft(LAMBDA s, i :
        IF ~ByKeys(s.tracks[i]) THEN s
        ELSE LET at == StssSeek(s.tracks[i], s.timestamp)
             IN [tracks |-> [s.tracks EXCEPT ![i].sample_offset = at],
                 timestamp |-> ToTimestamp(s.tracks[i], s.tracks[i].samples[at + 1].dts)],
        [tracks |-> tracks, timestamp |-> ts], [i \in 1..Len(tracks) |-> i])
  IN [videos EXCEPT !.tracks = [i \in DOMAIN @ |->
        IF ByKeys(@[i]) THEN @[i]
        ELSE [@[i] EXCEPT !.sample_offset = SampleSeek(tracks[i], videos.timestamp)]]]

\* mov_reader_seek.
Seek ==
  /\ tracks # <<>> /\ ~aborted /\ seeks < MaxSeeks
  /\ \E ts \in Clocks : tracks' = Sought(ts).tracks /\ landed' = Sought(ts).timestamp
  /\ seeks' = seeks + 1
  /\ UNCHANGED <<file, duration, aborted>>

Finished == (aborted \/ seeks = MaxSeeks) /\ UNCHANGED vars

Next == Create \/ Seek \/ Finished

Spec == Init /\ [][Next]_vars
------------------------------------------------------------------------------
(* Properties.                                                              *)

\* Which boxes of other programs the walk does not survive, or the library itself would
\* not read back: one without content at the end of a container that has to be read to
\* its end, a uuid with no more than its 16 bytes of name, more brands than there is
\* room for, a moov that lasts to the end of the file, a trex ahead of its track.
Unreadable(layout, ts) ==
  LET odd == layout.odd
      there == CASE odd.at = "nowhere" -> FALSE
                 [] odd.at = "mvex"    -> layout.mvex # "none"
                 [] odd.at = "edts"    -> ~layout.init /\ \E t \in Range(ts) : t.delay > 0
                 [] odd.at \in {e[2] : e \in Range(Tags)} ->
                      \E t \in Range(ts) : TagOf(t.object) = odd.at
                 [] OTHER -> TRUE
      entry == odd.at \in {e[2] : e \in Range(Tags)}
      empty == ~odd.large /\ odd.len = 0 /\ ~odd.first
  IN \/ there /\ empty /\ ~entry /\ odd.at # "root"
     \/ there /\ odd.type = "uuid" /\ odd.len \in 1..16
     \/ layout.brands > 8
     \/ ~layout.init /\ layout.order = "moov_to_end"
     \/ layout.mvex = "first"

\* The boxes the library writes, and those of another program among them as long as
\* they are none of the above, come out of the walk as they went in: every sum of
\* sizes is right, no assert fails, the tracks have their order, numbers, codecs and
\* decoder configurations, and the movie is as long as each of them.
HeaderReadsBack ==
  /\ aborted => Unreadable(file.layout, file.tracks)
  /\ tracks # <<>> =>
       /\ ~Unreadable(file.layout, file.tracks)
       /\ Len(tracks) = Len(file.tracks)
       /\ \A i \in DOMAIN tracks :
            LET t == file.tracks[i]
                r == tracks[i]
                known == TagOf(t.object) # "none"
            IN /\ r.track_ID = i /\ r.timescale = timescale
               /\ r.handler_type = IF t.handler_type = "video" THEN "vide" ELSE "soun"
               /\ Len(r.stsd) = 1 /\ r.stsd[1].object = IF known THEN t.object ELSE 0
               /\ r.stsd[1].stream_type = IF t.handler_type = "video" THEN 4 ELSE 5
               /\ r.extra = IF t.object \in {32, 33, 35, 64} THEN t.extra ELSE <<>>
               /\ r.trex = IF file.layout.mvex = "none" THEN 0 ELSE 1
               /\ r.samples # <<>> =>
                    duration >= ToTimestamp(r, r.samples[Count(r)].dts - r.samples[1].dts)

\* Whatever is merged in the tables, each sample is found where it lies, with its size
\* and its distance to the one before, and the key frames are those of the file.
SamplesReadBack ==
  \A i \in DOMAIN tracks :
    LET t == file.tracks[i]
    IN /\ Count(tracks[i]) = IF file.layout.init THEN 0 ELSE sample_count
       /\ \A n \in 1..Count(tracks[i]) :
            LET s == tracks[i].samples[n]
            IN /\ s.offset = PlaceOf(t, n) /\ s.bytes = t.bytes[n]
               /\ n > 1 => s.dts - tracks[i].samples[n - 1].dts = t.delta[n - 1]
       /\ t.stss /\ ~file.layout.init => Range(tracks[i].stss) = t.keys

\* "make sure pts >= dts" (mov_track_build), for offsets other than -1, which the
\* code lets pass, and without changing the order in which samples are shown.
CompositionKept ==
  \A i \in DOMAIN tracks :
    \A m, n \in 1..Count(tracks[i]) :
      LET a == tracks[i].samples[m]
          b == tracks[i].samples[n]
          shift == file.tracks[i].shift
      IN /\ (a.pts - a.dts) - (b.pts - b.dts) = shift[m] - shift[n]
         /\ a.pts < a.dts => shift[m] = -1

\* After a seek every track without an index of key frames stands at one of its
\* samples, never behind the last, that is as near as any to the place where the
\* video has landed.
TracksInStep ==
  seeks > 0 =>
    \A i \in DOMAIN tracks :
      LET clock == ToClock(tracks[i], landed)
          s == tracks[i].samples
          at == tracks[i].sample_offset + 1
      IN ~ByKeys(tracks[i]) /\ (\E j \in DOMAIN tracks : ByKeys(tracks[j])) =>
           /\ at \in 1..Count(tracks[i])
           /\ \A n \in 1..Count(tracks[i]) :
                Diff(s[at].dts, clock) <= Diff(s[n].dts, clock)

\* A seek by stss ends at one of the samples stss names (their numbers "start from
\* 1", mov_index_build and mov_stss_seek).
SeekLandsOnSync ==
  seeks > 0 =>
    \A i \in DOMAIN tracks :
      ByKeys(tracks[i]) => tracks[i].sample_offset + 1 \in Range(tracks[i].stss)
==============================================================================
