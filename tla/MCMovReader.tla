----------------------------- MODULE MCMovReader -----------------------------
(***************************************************************************)
(* Instances of MovReader: families of files, each of which varies what    *)
(* its property is about and keeps the rest plain.                         *)
(***************************************************************************)
EXTENDS MovReader

\* How the samples are split into chunks of up to three.
Chunkings ==
  UNION {{c \in [1..m -> 1..3] : Total(c) = sample_count} : m \in 1..sample_count}

Same(x) == [n \in 1..sample_count |-> x]
Each(S) == [1..sample_count -> S]

Plain == [handler_type |-> "video", bytes |-> Same(1), delta |-> Same(1),
          shift |-> Same(0), chunks |-> Same(1), delay |-> 0, keys |-> {1, 3},
          stss |-> TRUE, object |-> 33, extra |-> <<1, 100>>]
Sound == [Plain EXCEPT !.handler_type = "audio", !.keys = {}, !.stss = FALSE, !.object = 64]

PlainLayout == [init |-> FALSE, brands |-> 3, version |-> 0, mvex |-> "none",
                order |-> "mdat_last", co64 |-> FALSE,
                odd |-> [at |-> "nowhere", first |-> TRUE, type |-> "free",
                         large |-> FALSE, len |-> 0]]

\* Every way to lay out the samples.
Layouts ==
  {<<[Plain EXCEPT !.bytes = b, !.chunks = c]>> : b \in Each({1, 2}), c \in Chunkings}
  \cup {<<[Plain EXCEPT !.delta = d]>> : d \in Each({1, 3})}

\* Every run of composition offsets; -1 is let pass by mov_track_build.
Compositions ==
  {<<[Plain EXCEPT !.delta = d, !.shift = s]>> :
     d \in {Same(1), <<1, 3, 3, 1>>}, s \in Each({-2, -1, 1})}
  \cup {<<[Plain EXCEPT !.delta = d, !.shift = s, !.delay = 2]>> :
     d \in {<<1, 3, 1, 1>>}, s \in Each({-2, 1})}

\* Every set of key frames, the first sample among them, with and without stss.  The
\* distance of the last sample to the end is never looked at.
AnyKeys == {k \in SUBSET (1..sample_count) : 1 \in k}
Deltas == {d \in Each({1, 4}) : d[sample_count] = 1}
Videos == {[Plain EXCEPT !.delta = d, !.keys = k, !.stss = i] :
             d \in Deltas, k \in AnyKeys, i \in BOOLEAN}
Audios == {[Sound EXCEPT !.delta = d] : d \in Deltas}

\* Films whose audio track, which has to wait for the video, comes first.
Films == {<<a, v>> : a \in Audios, v \in Videos}

\* A box of another program at either end of every container.
OddBoxes ==
  [at : {"root", "moov", "trak", "edts", "mdia", "minf", "dinf", "stbl", "mvex", "avc1", "mp4a"},
   first : BOOLEAN, type : {"free", "udta", "uuid"}, large : BOOLEAN, len : {0, 1, 16, 17}]
Delayed == <<Sound, [Plain EXCEPT !.delay = 2]>>

\* Every choice of what else a program may do differently.
OtherLayouts ==
  {[PlainLayout EXCEPT !.init = i, !.brands = b, !.version = v, !.mvex = m, !.order = o,
                       !.co64 = c] :
     i \in BOOLEAN, b \in {0, 8, 9}, v \in {0, 1}, m \in {"none", "first", "last"},
     o \in {"mdat_last", "mdat_to_end", "moov_last", "moov_to_end"}, c \in BOOLEAN}
Sensible == {l \in OtherLayouts : l.init => l.mvex # "none" /\ l.order = "mdat_last"}

\* Every codec, with configurations whose length takes none, one and two parts.
Codecs == {<<33, "video">>, <<35, "video">>, <<32, "video">>, <<64, "audio">>,
           <<253, "audio">>, <<254, "audio">>, <<105, "audio">>}
Extras == {<<>>, <<3>>, Repeat(127, 5), Repeat(130, 6)}
Coded == {[(IF c[2] = "video" THEN Plain ELSE Sound) EXCEPT !.object = c[1], !.extra = e] :
            c \in Codecs, e \in Extras}

MovieSet(layouts, films) == {[layout |-> l, tracks |-> f] : l \in layouts, f \in films}

ReaderMovies ==
  MovieSet({PlainLayout}, Layouts \cup Compositions \cup Films)
  \cup MovieSet({[PlainLayout EXCEPT !.mvex = "last", !.odd = o] : o \in OddBoxes}, {Delayed})
  \cup MovieSet(Sensible, {Delayed})
  \cup MovieSet({[PlainLayout EXCEPT !.init = i, !.mvex = "last"] : i \in BOOLEAN},
                {<<Plain, t>> : t \in Coded})

\* One video with an index of key frames.
IndexedVideos == MovieSet({PlainLayout}, {<<v>> : v \in {w \in Videos : w.stss}})
==============================================================================
