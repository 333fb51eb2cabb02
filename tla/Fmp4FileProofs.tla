---------------------------- MODULE Fmp4FileProofs ----------------------------
(***************************************************************************)
(* Proofs about the files of Fmp4Writer, for every caller, every number of *)
(* tracks and fragments, and whichever write or allocation fails.          *)
(*                                                                         *)
(* Every file: the index behind it leads to its fragments, and to all of   *)
(* them.  A moof stays what it is when more is written behind it (Further, *)
(* from what Fmp4WriterProofs says of a fragment), so that the tables of   *)
(* entries and the cells keep agreeing (Indexed) until the index is        *)
(* written from the tables (GoodIndex).                                    *)
(*                                                                         *)
(* The segments of the server, each one fragment of one video track in one *)
(* cluster however long: what is in each cell of such a segment is said    *)
(* (Laid); the reader finds every sample in it that the writer took, with  *)
(* the key frames as the sync samples, and the index ahead of it spans it. *)
(* What there is ahead of each save (Served) is a queue that is one        *)
(* cluster of what was accepted (Kept), with no key frame but the first.   *)
(***************************************************************************)
EXTENDS Fmp4WriterProofs
------------------------------------------------------------------------------
(* The index behind a file.                                                 *)

\* Entry e leads to a fragment with samples of track t that begin at its time.
Leads(cells, t, e) ==
  /\ e.offset \in 1..Len(cells)
  /\ {"box", "size"} \subseteq DOMAIN cells[e.offset] /\ cells[e.offset].box = "moof"
  /\ \E q \in e.offset + 1..e.offset + cells[e.offset].size - 1 :
       /\ {"box", "track", "tfdt"} \subseteq DOMAIN cells[q]
       /\ cells[q].box = "traf" /\ cells[q].track = t /\ cells[q].tfdt = e.time

\* Each traf within the moof at p has an entry in the table of its track.
Listed(cells, p, tracks) ==
  \A q \in p + 1..p + cells[p].size - 1 :
    cells[q].box = "traf" =>
      \E t \in 1..Len(tracks) :
        /\ cells[q].track = t
        /\ \E i \in 1..Len(tracks[t].frags) : tracks[t].frags[i].offset = p

\* The moof at p ends within the cells, and all of its parts have a type.
Ends(cells, p) ==
  /\ "size" \in DOMAIN cells[p] /\ p + cells[p].size - 1 \in p..Len(cells)
  /\ \A q \in p + 1..p + cells[p].size - 1 : cells[q].box = "traf" => "track" \in DOMAIN cells[q]

\* No index yet; the tables of entries say what it will, if there is to be one.
Indexed(cells, tracks) ==
  /\ \A p \in 1..Len(cells) : "box" \in DOMAIN cells[p] /\ cells[p].box # "tfra"
  /\ SEGMENT \/
       /\ \A p \in 1..Len(cells) : cells[p].box # "sidx"
       /\ \A p \in 1..Len(cells) : cells[p].box = "moof" => Ends(cells, p)
       /\ \A t \in 1..Len(tracks) :
            \A i \in 1..Len(tracks[t].frags) : Leads(cells, t, tracks[t].frags[i])
       /\ FALSE \notin AllocResults =>
            \A p \in 1..Len(cells) : cells[p].box = "moof" => Listed(cells, p, tracks)

\* The same tables, the same index.
LEMMA IndexedSame ==
  ASSUME NEW cells, NEW p, NEW q, Indexed(cells, p), Len(q) = Len(p),
         \A t \in 1..Len(p) : q[t].frags = p[t].frags
  PROVE  Indexed(cells, q)
<1>1. CASE SEGMENT
  BY <1>1 DEF Indexed
<1>2. CASE ~SEGMENT
  <2>1. ASSUME NEW i, Listed(cells, i, p)
        PROVE  Listed(cells, i, q)
    <3>1. \A x : (\E t \in 1..Len(p) : /\ x = t
                                        /\ \E k \in 1..Len(p[t].frags) : p[t].frags[k].offset = i)
                => \E t \in 1..Len(q) : /\ x = t
                                        /\ \E k \in 1..Len(q[t].frags) : q[t].frags[k].offset = i
      OBVIOUS
    <3>. QED  BY <2>1, <3>1 DEF Listed
  <2>. QED  BY <1>2, <2>1 DEF Indexed
<1>. QED  BY <1>1, <1>2

\* More cells do not take away what there is.
LEMMA LeadsFurther ==
  ASSUME NEW p, NEW q, Further(p, q), NEW t, NEW e, Leads(p, t, e), Ends(p, e.offset)
  PROVE  Leads(q, t, e)
<1>. DEFINE at == e.offset
            last == at + p[at].size - 1
<1>1. /\ Len(p) \in Nat /\ Len(q) \in Nat /\ Len(p) <= Len(q)
      /\ \A i \in 1..Len(p) : Alike(p[i], q[i])
  BY SequenceIs DEF Further
<1>2. at \in 1..Len(p) /\ last \in at..Len(p)
  BY DEF Leads, Ends
<1>3. {"box", "size"} \subseteq DOMAIN q[at] /\ q[at].box = "moof" /\ q[at].size = p[at].size
  <2>1. {"box", "size"} \subseteq DOMAIN p[at] /\ p[at].box = "moof" /\ Alike(p[at], q[at])
    BY <1>1, <1>2 DEF Leads
  <2>. QED  BY <2>1 DEF Alike
<1>4. PICK i \in at + 1..last :
        /\ {"box", "track", "tfdt"} \subseteq DOMAIN p[i]
        /\ p[i].box = "traf" /\ p[i].track = t /\ p[i].tfdt = e.time
  BY DEF Leads
<1>5. Alike(p[i], q[i])
  <2>. HIDE DEF at, last
  <2>1. i \in 1..Len(p)
    BY <1>1, <1>2, <1>4
  <2>. QED  BY <1>1, <2>1
<1>6. /\ {"box", "track", "tfdt"} \subseteq DOMAIN q[i]
      /\ q[i].box = "traf" /\ q[i].track = t /\ q[i].tfdt = e.time
  BY <1>4, <1>5 DEF Alike
<1>7. at \in 1..Len(q)
  BY <1>1, <1>2
<1>. QED  BY <1>3, <1>4, <1>6, <1>7 DEF Leads

LEMMA MoofFurther ==
  ASSUME NEW p, NEW q, Further(p, q), NEW at \in 1..Len(p), Ends(p, at), "box" \in DOMAIN p[at],
         \A i \in 1..Len(p) : "box" \in DOMAIN p[i]
  PROVE  /\ Ends(q, at) /\ q[at].box = p[at].box
         /\ \A tracks : Listed(p, at, tracks) => Listed(q, at, tracks)
<1>. DEFINE last == at + p[at].size - 1
<1>1. /\ Len(p) \in Nat /\ Len(q) \in Nat /\ Len(p) <= Len(q)
      /\ \A i \in 1..Len(p) : Alike(p[i], q[i])
  BY SequenceIs DEF Further
<1>2. last \in at..Len(p) /\ "size" \in DOMAIN p[at]
  BY DEF Ends
<1>3. "size" \in DOMAIN q[at] /\ q[at].size = p[at].size /\ q[at].box = p[at].box
  BY <1>1, <1>2 DEF Alike
<1>4. ASSUME NEW i \in at + 1..last
      PROVE  /\ q[i].box = p[i].box
             /\ p[i].box = "traf" => /\ "track" \in DOMAIN p[i] /\ "track" \in DOMAIN q[i]
                                     /\ q[i].track = p[i].track
  <2>1. i \in 1..Len(p)
    <3>. HIDE DEF last
    <3>. QED  BY <1>1, <1>2
  <2>2. Alike(p[i], q[i]) /\ "box" \in DOMAIN p[i]
    BY <1>1, <2>1
  <2>3. p[i].box = "traf" => "track" \in DOMAIN p[i]
    BY DEF Ends
  <2>. QED  BY <2>2, <2>3 DEF Alike
<1>5. last \in at..Len(q)
  BY <1>1, <1>2
<1>6. Ends(q, at)
  BY <1>3, <1>4, <1>5 DEF Ends
<1>7. ASSUME NEW tracks, Listed(p, at, tracks)
      PROVE  Listed(q, at, tracks)
  <2>1. ASSUME NEW i \in at + 1..last, q[i].box = "traf"
        PROVE  \E t \in 1..Len(tracks) :
                 /\ q[i].track = t
                 /\ \E k \in 1..Len(tracks[t].frags) : tracks[t].frags[k].offset = at
    <3>1. p[i].box = "traf" /\ q[i].track = p[i].track
      BY <1>4, <2>1
    <3>2. \E t \in 1..Len(tracks) :
            /\ p[i].track = t
            /\ \E k \in 1..Len(tracks[t].frags) : tracks[t].frags[k].offset = at
      BY <1>7, <3>1 DEF Listed
    <3>. QED  BY <3>1, <3>2
  <2>2. at + q[at].size - 1 = last
    BY <1>3
  <2>. HIDE DEF last
  <2>. QED  BY <2>1, <2>2 DEF Listed
<1>. QED  BY <1>3, <1>6, <1>7

\* A fragment's entry goes behind the entries of its track, if it has samples and the
\* table may grow.
LEMMA EntryIs ==
  ASSUME NEW now, NEW x, GoodTrack(x, now), NEW moof, NEW grown
  PROVE  LET y == Cleared(AddFragmentEntry(x, moof, grown))
             e == [time |-> x.samples[1].dts, offset |-> moof]
         IN /\ y.frags = x.frags \/ (x.samples # <<>> /\ y.frags = Append(x.frags, e))
            /\ x.samples # <<>> /\ grown = TRUE => y.frags = Append(x.frags, e)
<1>. DEFINE a == AddFragmentEntry(x, moof, grown)
            y == Cleared(a)
            full == Len(x.frags) >= x.frag_capacity
            e == [time |-> x.samples[1].dts, offset |-> moof]
            more == Append(x.frags, e)
            room == IF full THEN x.frag_capacity + FRAGS_GROW ELSE x.frag_capacity
<1>1. DOMAIN x = TrackFields
  BY DEF GoodTrack
<1>2. /\ a = IF x.samples = <<>> \/ (full /\ ~grown) THEN x
            ELSE [x EXCEPT !.frags = more, !.frag_capacity = room]
  BY DEF AddFragmentEntry
<1>. HIDE DEF a, e, more, room, full
<1>3. DOMAIN a = TrackFields
      /\ a.frags = IF x.samples = <<>> \/ (full /\ ~grown) THEN x.frags ELSE more
  BY <1>1, <1>2 DEF TrackFields
<1>4. y.frags = a.frags
  BY <1>3 DEF Cleared, TrackFields
<1>. QED  BY <1>3, <1>4 DEF more, a, e

\* A fragment leaves the tables of entries in step with the cells.
LEMMA FragmentIndexed ==
  ASSUME NEW now, NEW w, Whole(w, now), w.tracks = <<>> => w.mdat_size = 0,
         NEW b, IsBuffer(b), ~b.error => Indexed(b.cells, w.tracks), NEW grown,
         FALSE \notin AllocResults => \A t \in 1..Len(w.tracks) : grown[t] = TRUE
  PROVE  LET f == Fragment(w, b, grown)
         IN /\ IsBuffer(f.b) /\ (~f.b.error => Indexed(f.b.cells, f.w.tracks))
            /\ Len(f.w.tracks) = Len(w.tracks) /\ f.w.mdat_size = 0
<1>. DEFINE f == Fragment(w, b, grown)
            n == Len(w.tracks)
            p == b.cells
            q == f.b.cells
<1>1. /\ n \in Nat /\ IsSequence(w.tracks) /\ w.mdat_size \in Nat
      /\ \A t \in 1..n : GoodTrack(w.tracks[t], now)
  BY SequenceIs DEF Whole
<1>2. CASE w.mdat_size = 0
  <2>1. f = [w |-> w, b |-> b]
    BY <1>2 DEF Fragment
  <2>. QED  BY <1>2, <2>1
<1>3. CASE w.mdat_size # 0
  <2>1. n # 0
    BY <1>1, <1>3, SequenceIs
  <2>9. PICK moof : Fragmented(w, b, f, grown, moof)
    BY <1>3, <2>1, FragmentDoes
  <2>. HIDE DEF f
  <2>2.       /\ f.w.tracks = [t \in 1..n |->
                                 Cleared(AddFragmentEntry(w.tracks[t], moof, grown[t]))]
              /\ f.w.mdat_size = 0
              /\ Onto(b, f.b, FragmentBoxes)
              /\ ~f.b.error =>
                   /\ moof \in Nat /\ Len(p) < moof
                   /\ \E last : IsMoof(q, moof, last, w.tracks)
                   /\ \A i \in Len(p) + 1..Len(q) : q[i].box = "moof" => i = moof
    BY <2>9 DEF Fragmented
  <2>. DEFINE new == f.w.tracks
              e(t) == [time |-> w.tracks[t].samples[1].dts, offset |-> moof]
  <2>3. /\ new = [t \in 1..n |-> new[t]]
        /\ \A t \in 1..n : new[t] = Cleared(AddFragmentEntry(w.tracks[t], moof, grown[t]))
    BY <2>2
  <2>4. ASSUME NEW t \in 1..n
        PROVE  /\ \/ new[t].frags = w.tracks[t].frags
                  \/ w.tracks[t].samples # <<>> /\ new[t].frags = Append(w.tracks[t].frags, e(t))
               /\ w.tracks[t].samples # <<>> /\ grown[t] = TRUE =>
                    new[t].frags = Append(w.tracks[t].frags, e(t))
    <3>. DEFINE x == w.tracks[t]
                g == grown[t]
    <3>1. GoodTrack(x, now) /\ new[t] = Cleared(AddFragmentEntry(x, moof, g))
      BY <1>1, <2>3
    <3>. HIDE DEF x, g, new
    <3>2. LET y == Cleared(AddFragmentEntry(x, moof, g))
              z == [time |-> x.samples[1].dts, offset |-> moof]
          IN /\ y.frags = x.frags \/ (x.samples # <<>> /\ y.frags = Append(x.frags, z))
             /\ x.samples # <<>> /\ g = TRUE => y.frags = Append(x.frags, z)
      BY <3>1, EntryIs
    <3>. QED  BY <3>1, <3>2 DEF x, g
  <2>5. IsSequence(new) /\ Len(new) = n
    <3>. HIDE DEF new, n
    <3>. QED  BY <1>1, <2>3, OnIndices
  <2>. HIDE DEF f, new
  <2>6. ASSUME NEW t \in 1..n
        PROVE  /\ Len(w.tracks[t].frags) \in Nat /\ Len(new[t].frags) \in Nat
               /\ Len(w.tracks[t].frags) <= Len(new[t].frags)
               /\ \A i \in 1..Len(w.tracks[t].frags) : new[t].frags[i] = w.tracks[t].frags[i]
               /\ \A i \in 1..Len(new[t].frags) :
                    i \in 1..Len(w.tracks[t].frags) \/ (w.tracks[t].samples # <<>> /\ new[t].frags[i] = e(t))
               /\ w.tracks[t].samples # <<>> /\ grown[t] = TRUE =>
                    \E i \in 1..Len(new[t].frags) : new[t].frags[i] = e(t)
    <3>. DEFINE a == w.tracks[t].frags
                c == new[t].frags
                y == e(t)
    <3>1. IsSequence(a) /\ Len(a) \in Nat
      BY <1>1, SequenceIs DEF GoodTrack
    <3>2. /\ c = a \/ (w.tracks[t].samples # <<>> /\ c = Append(a, y))
          /\ w.tracks[t].samples # <<>> /\ grown[t] = TRUE => c = Append(a, y)
      BY <2>4
    <3>. HIDE DEF a, c, e
    <3>3. c = Append(a, y) => /\ Len(c) = Len(a) + 1 /\ c[Len(a) + 1] = y
                              /\ \A i \in 1..Len(a) : c[i] = a[i]
      <4>1. PICK S : a \in Seq(S)
        BY <3>1 DEF IsSequence
      <4>. DEFINE T == S \cup {y}
      <4>2. a \in Seq(T) /\ y \in T
        BY <4>1
      <4>. HIDE DEF T
      <4>. QED  BY <4>2, AppendProperties
    <3>. HIDE DEF y
    <3>4. CASE c = a
      <4>1. c # Append(a, y)
        BY <3>1, <3>3, <3>4
      <4>2. ~(w.tracks[t].samples # <<>> /\ grown[t] = TRUE)
        BY <3>2, <4>1
      <4>3. /\ Len(a) \in Nat /\ Len(c) \in Nat /\ Len(a) <= Len(c)
            /\ \A i \in 1..Len(a) : c[i] = a[i]
            /\ \A i \in 1..Len(c) : i \in 1..Len(a)
        BY <3>1, <3>4
      <4>. QED  BY <4>2, <4>3 DEF a, c
    <3>5. CASE w.tracks[t].samples # <<>> /\ c = Append(a, y)
      <4>1. \A i \in 1..Len(c) : i \in 1..Len(a) \/ i = Len(a) + 1
        BY <3>1, <3>3, <3>5
      <4>2. Len(a) + 1 \in 1..Len(c) /\ Len(c) \in Nat /\ Len(a) <= Len(c)
        BY <3>1, <3>3, <3>5
      <4>3. \A i \in 1..Len(c) :
              i \in 1..Len(a) \/ (w.tracks[t].samples # <<>> /\ c[i] = y)
        BY <3>3, <3>5, <4>1
      <4>4. \E i \in 1..Len(c) : c[i] = y
        BY <3>3, <3>5, <4>2
      <4>. QED  BY <3>1, <3>3, <3>5, <4>2, <4>3, <4>4 DEF a, c, y
    <3>. QED  BY <3>2, <3>4, <3>5
  <2>7. ASSUME ~f.b.error
        PROVE  Indexed(q, new)
    <3>1. /\ ~b.error /\ Further(p, q) /\ Len(p) \in Nat /\ Len(q) \in Nat /\ Len(p) <= Len(q)
          /\ \A i \in 1..Len(p) : Alike(p[i], q[i])
          /\ \A i \in Len(p) + 1..Len(q) : "box" \in DOMAIN q[i] /\ q[i].box \in FragmentBoxes
      BY <2>2, <2>7, SequenceIs DEF Onto, Further, IsBuffer
    <3>2. Indexed(p, w.tracks)
      BY <3>1
    <3>3. PICK last : IsMoof(q, moof, last, w.tracks)
      BY <2>2, <2>7
    <3>4. /\ moof \in Nat /\ Len(p) < moof
          /\ \A i \in Len(p) + 1..Len(q) : q[i].box = "moof" => i = moof
      BY <2>2, <2>7
    <3>. HIDE DEF p, q, n
    <3>5. \A i \in 1..Len(p) : "box" \in DOMAIN p[i] /\ p[i].box # "tfra"
      BY <3>2 DEF Indexed
    <3>6. \A i \in 1..Len(q) : i \in 1..Len(p) \/ i \in Len(p) + 1..Len(q)
      BY <3>1
    <3>7. ASSUME NEW i \in 1..Len(q)
          PROVE  "box" \in DOMAIN q[i] /\ q[i].box # "tfra"
      <4>1. CASE i \in 1..Len(p)
        <5>1. Alike(p[i], q[i]) /\ "box" \in DOMAIN p[i] /\ p[i].box # "tfra"
          BY <3>1, <3>5, <4>1
        <5>. QED  BY <5>1 DEF Alike
      <4>2. CASE i \in Len(p) + 1..Len(q)
        BY <3>1, <4>2 DEF FragmentBoxes, FrontBoxes
      <4>. QED  BY <3>6, <4>1, <4>2
    <3>8. ASSUME ~SEGMENT
          PROVE  /\ \A i \in 1..Len(q) : q[i].box # "sidx"
                 /\ \A i \in 1..Len(q) : q[i].box = "moof" => Ends(q, i)
                 /\ \A t \in 1..n : \A i \in 1..Len(new[t].frags) : Leads(q, t, new[t].frags[i])
                 /\ FALSE \notin AllocResults =>
                      \A i \in 1..Len(q) : q[i].box = "moof" => Listed(q, i, new)
      <4>1. /\ \A i \in 1..Len(p) : p[i].box # "sidx"
            /\ \A i \in 1..Len(p) : p[i].box = "moof" => Ends(p, i)
            /\ \A t \in 1..n : \A i \in 1..Len(w.tracks[t].frags) : Leads(p, t, w.tracks[t].frags[i])
            /\ FALSE \notin AllocResults =>
                 \A i \in 1..Len(p) : p[i].box = "moof" => Listed(p, i, w.tracks)
        BY <3>2, <3>8 DEF Indexed, n
      <4>2. /\ {"box", "size"} \subseteq DOMAIN q[moof] /\ q[moof].box = "moof"
            /\ moof + q[moof].size - 1 = last /\ moof \in 1..last /\ last \in 1..Len(q)
            /\ \A i \in moof + 1..last :
                 q[i].box = "traf" =>
                   \E u \in 1..n :
                     w.tracks[u].samples # <<>> /\ IsTraf(q[i], u, w.tracks[u].samples)
            /\ \A u \in 1..n :
                 w.tracks[u].samples # <<>> =>
                   \E i \in moof + 1..last : IsTraf(q[i], u, w.tracks[u].samples)
        BY <3>3 DEF IsMoof, n
      <4>3. Ends(q, moof)
        <5>1. last \in moof..Len(q)
          BY <3>1, <4>2
        <5>2. \A i \in moof + 1..last : q[i].box = "traf" => "track" \in DOMAIN q[i]
          BY <4>2 DEF IsTraf
        <5>. QED  BY <4>2, <5>1, <5>2 DEF Ends
      <4>4. \A i \in 1..Len(p) :
              p[i].box = "moof" => Ends(q, i) /\ \A x : Listed(p, i, x) => Listed(q, i, x)
        BY <3>1, <3>5, <4>1, MoofFurther
      <4>5. \A i \in 1..Len(p) : q[i].box = p[i].box
        BY <3>1, <3>5 DEF Alike
      <4>9. ASSUME NEW i \in 1..Len(q)
            PROVE  q[i].box # "sidx"
        <5>1. i \in Len(p) + 1..Len(q) => q[i].box \in FragmentBoxes
          BY <3>1
        <5>2. "sidx" \notin FragmentBoxes
          BY <3>8 DEF FragmentBoxes, FrontBoxes
        <5>. QED  BY <3>6, <4>1, <4>5, <5>1, <5>2
      <4>6. ASSUME NEW i \in 1..Len(q), q[i].box = "moof"
            PROVE  Ends(q, i)
        BY <3>4, <3>6, <4>3, <4>4, <4>5, <4>6
      <4>7. ASSUME NEW t \in 1..n, NEW i \in 1..Len(new[t].frags)
            PROVE  Leads(q, t, new[t].frags[i])
        <5>1. CASE i \in 1..Len(w.tracks[t].frags)
          <6>. DEFINE x == w.tracks[t].frags[i]
          <6>1. Leads(p, t, x) /\ new[t].frags[i] = x
            BY <2>6, <4>1, <5>1
          <6>. HIDE DEF x
          <6>2. Ends(p, x.offset)
            BY <4>1, <6>1 DEF Leads
          <6>3. Leads(q, t, x)
            BY <3>1, <6>1, <6>2, LeadsFurther
          <6>. QED  BY <6>1, <6>3
        <5>2. CASE w.tracks[t].samples # <<>> /\ new[t].frags[i] = e(t)
          <6>. DEFINE x == new[t].frags[i]
          <6>1. x.time = w.tracks[t].samples[1].dts /\ x.offset = moof
            BY <5>2
          <6>. HIDE DEF x
          <6>2. PICK k \in moof + 1..last : IsTraf(q[k], t, w.tracks[t].samples)
            BY <4>2, <5>2
          <6>3. /\ {"box", "track", "tfdt"} \subseteq DOMAIN q[k]
                /\ q[k].box = "traf" /\ q[k].track = t /\ q[k].tfdt = x.time
            BY <6>1, <6>2 DEF IsTraf
          <6>4. moof \in 1..Len(q)
            BY <3>1, <4>2
          <6>5. Leads(q, t, x)
            BY <4>2, <6>1, <6>3, <6>4 DEF Leads
          <6>. QED  BY <6>5 DEF x
        <5>. QED  BY <2>6, <5>1, <5>2
      <4>8. ASSUME FALSE \notin AllocResults, NEW i \in 1..Len(q), q[i].box = "moof"
            PROVE  Listed(q, i, new)
        <5>1. CASE i \in 1..Len(p)
          <6>1. Listed(q, i, w.tracks)
            BY <4>1, <4>4, <4>5, <4>8, <5>1
          <6>2. ASSUME NEW u \in 1..n, NEW k \in 1..Len(w.tracks[u].frags),
                       w.tracks[u].frags[k].offset = i
                PROVE  \E j \in 1..Len(new[u].frags) : new[u].frags[j].offset = i
            <7>1. k \in 1..Len(new[u].frags) /\ new[u].frags[k] = w.tracks[u].frags[k]
              <8>1. /\ Len(w.tracks[u].frags) \in Nat /\ Len(new[u].frags) \in Nat
                    /\ Len(w.tracks[u].frags) <= Len(new[u].frags)
                    /\ new[u].frags[k] = w.tracks[u].frags[k]
                BY <2>6
              <8>. QED  BY <8>1
            <7>. QED  BY <6>2, <7>1
          <6>3. ASSUME NEW k \in i + 1..i + q[i].size - 1, q[k].box = "traf"
                PROVE  \E u \in 1..Len(new) :
                         /\ q[k].track = u
                         /\ \E j \in 1..Len(new[u].frags) : new[u].frags[j].offset = i
            <7>1. PICK u \in 1..n : /\ q[k].track = u
                                    /\ \E j \in 1..Len(w.tracks[u].frags) :
                                         w.tracks[u].frags[j].offset = i
              BY <6>1, <6>3 DEF Listed, n
            <7>. QED  BY <2>5, <6>2, <7>1
          <6>. QED  BY <6>3 DEF Listed
        <5>2. CASE i = moof
          <6>1. ASSUME NEW k \in moof + 1..last, q[k].box = "traf"
                PROVE  \E u \in 1..Len(new) :
                         /\ q[k].track = u
                         /\ \E j \in 1..Len(new[u].frags) : new[u].frags[j].offset = i
            <7>1. PICK u \in 1..n :
                     w.tracks[u].samples # <<>> /\ IsTraf(q[k], u, w.tracks[u].samples)
              BY <4>2, <6>1
            <7>2. grown[u] = TRUE
              BY <4>8 DEF n
            <7>3. PICK j \in 1..Len(new[u].frags) : new[u].frags[j] = e(u)
              BY <2>6, <7>1, <7>2
            <7>4. new[u].frags[j].offset = moof
              BY <7>3
            <7>. QED  BY <2>5, <5>2, <7>1, <7>4 DEF IsTraf
          <6>. QED  BY <4>2, <5>2, <6>1 DEF Listed
        <5>. QED  BY <3>4, <3>6, <4>8, <5>1, <5>2
      <4>. QED  BY <4>6, <4>7, <4>8, <4>9
    <3>. QED  BY <2>5, <3>7, <3>8 DEF Indexed
  <2>. QED  BY <2>2, <2>5, <2>7 DEF Onto, new, f, n, q
<1>. QED  BY <1>1, <1>2, <1>3


------------------------------------------------------------------------------
(* The index is written.                                                    *)

\* What a file must say: its index leads to its fragments, and to all of them, and
\* no other index is ahead of them unless it is a segment.
LeadsToAll(cells) ==
  \A p \in 1..Len(cells) :
    cells[p].box = "tfra" =>
      LET has(moof, time) ==
            \E q \in moof + 1..moof + cells[moof].size - 1 :
               /\ cells[q].box = "traf" /\ cells[q].track = cells[p].track
               /\ cells[q].tfdt = time
      IN /\ \A i \in DOMAIN cells[p].entries :
              LET e == cells[p].entries[i]
              IN cells[e.offset].box = "moof" /\ has(e.offset, e.time)
         /\ FALSE \in AllocResults \/
              \A m \in 1..Len(cells) :
                cells[m].box = "moof" =>
                  \A q \in m + 1..m + cells[m].size - 1 :
                    cells[q].box = "traf" /\ cells[q].track = cells[p].track =>
                      \E i \in DOMAIN cells[p].entries :
                        cells[p].entries[i].offset = m

GoodIndex(cells) == /\ LeadsToAll(cells)
                    /\ SEGMENT \/ \A p \in 1..Len(cells) : cells[p].box # "sidx"

Tfra(t, track) == [box |-> "tfra", track |-> t, entries |-> track.frags]

\* The index goes behind the file: a tfra per track, between mfra and mfro.
LEMMA WriteMfraDoes ==
  ASSUME NEW b, IsBuffer(b), NEW tracks, IsSequence(tracks)
  PROVE  LET c == WriteMfra(b, tracks)
             m == Len(b.cells)
             n == Len(tracks)
         IN /\ IsBuffer(c)
            /\ ~c.error =>
                 /\ ~b.error /\ Len(c.cells) = m + n + 2
                 /\ \A i \in 1..m : c.cells[i] = b.cells[i]
                 /\ \A t \in 1..n : c.cells[m + 1 + t] = Tfra(t, tracks[t])
                 /\ "box" \in DOMAIN c.cells[m + 1] /\ c.cells[m + 1].box = "mfra"
                 /\ "box" \in DOMAIN c.cells[m + n + 2] /\ c.cells[m + n + 2].box = "mfro"
<1>. DEFINE c == WriteMfra(b, tracks)
            m == Len(b.cells)
            n == Len(tracks)
            mfra == [box |-> "mfra", size |-> 0]
            mfro == [box |-> "mfro", size |-> n + 2]
            mid == [t \in 1..n |-> Tfra(t, tracks[t])]
            new == <<mfra>> \o mid \o <<mfro>>
            filled == Put(b, new)
<1>1. m \in Nat /\ n \in Nat /\ IsSequence(b.cells)
  BY SequenceIs DEF IsBuffer
<1>2. c = Patch(filled, m + 1, "size", n + 2)
  BY DEF WriteMfra, Tfra, Tell
<1>3. IsSequence(mid) /\ Len(mid) = n /\ \A t \in 1..n : mid[t] = Tfra(t, tracks[t])
  <2>1. mid = [t \in 1..n |-> mid[t]] /\ \A t \in 1..n : mid[t] = Tfra(t, tracks[t])
    OBVIOUS
  <2>. HIDE DEF mid, n
  <2>. QED  BY <1>1, <2>1, OnIndices
<1>4. /\ IsSequence(<<mfra>>) /\ Len(<<mfra>>) = 1 /\ <<mfra>>[1] = mfra
      /\ IsSequence(<<mfro>>) /\ Len(<<mfro>>) = 1 /\ <<mfro>>[1] = mfro
  <2>1. \A x : <<x>> \in Seq({x}) /\ Len(<<x>>) = 1 /\ <<x>>[1] = x
    OBVIOUS
  <2>. QED  BY <2>1 DEF IsSequence
<1>. HIDE DEF mid, c, m, n
<1>5. /\ IsSequence(new) /\ Len(new) = n + 2 /\ new[1] = mfra /\ new[n + 2] = mfro
      /\ \A t \in 1..n : new[1 + t] = Tfra(t, tracks[t])
  <2>. DEFINE head == <<mfra>>
              tail == <<mfro>>
              two == head \o mid
  <2>1. IsSequence(head) /\ Len(head) = 1 /\ head[1] = mfra
        /\ IsSequence(tail) /\ Len(tail) = 1 /\ tail[1] = mfro
    BY <1>4
  <2>. HIDE DEF head, tail, mfra, mfro
  <2>2. /\ IsSequence(two) /\ Len(two) = Len(head) + Len(mid)
        /\ \A i \in 1..Len(head) : two[i] = head[i]
        /\ \A i \in 1..Len(mid) : two[Len(head) + i] = mid[i]
    <3>1. IsSequence(head) /\ IsSequence(mid)
      BY <1>3, <2>1
    <3>. QED  BY ONLY <3>1, Joint DEF two
  <2>3. /\ IsSequence(two) /\ Len(two) = n + 1 /\ two[1] = mfra
        /\ \A t \in 1..n : two[1 + t] = Tfra(t, tracks[t])
    <3>1. 1 \in 1..Len(head)
      BY <2>1
    <3>. QED  BY <1>1, <1>3, <2>1, <2>2, <3>1
  <2>. HIDE DEF two
  <2>4. /\ IsSequence(two \o tail) /\ Len(two \o tail) = Len(two) + Len(tail)
        /\ \A i \in 1..Len(two) : (two \o tail)[i] = two[i]
        /\ \A i \in 1..Len(tail) : (two \o tail)[Len(two) + i] = tail[i]
    <3>1. IsSequence(two) /\ IsSequence(tail)
      BY <2>1, <2>3
    <3>. QED  BY ONLY <3>1, Joint
  <2>5. new = two \o tail
    BY DEF two, tail, head
  <2>. HIDE DEF new
  <2>6. /\ IsSequence(new) /\ Len(new) = n + 2
        /\ \A i \in 1..n + 1 : new[i] = two[i]
    BY <1>1, <2>1, <2>3, <2>4, <2>5
  <2>7. new[n + 2] = mfro
    <3>1. 1 \in 1..Len(tail) /\ Len(two) + 1 = n + 2
      BY <1>1, <2>1, <2>3
    <3>. QED  BY <2>1, <2>4, <2>5, <3>1
  <2>8. 1 \in 1..n + 1 /\ \A t \in 1..n : 1 + t \in 1..n + 1
    BY <1>1
  <2>. QED  BY <2>3, <2>6, <2>7, <2>8
<1>. HIDE DEF new
<1>6. IsBuffer(filled) /\ (~filled.error => ~b.error /\ filled.cells = b.cells \o new)
  BY <1>5, PutDoes
<1>. HIDE DEF filled
<1>7. /\ IsBuffer(c)
      /\ ~c.error =>
           /\ ~filled.error /\ Len(c.cells) = Len(filled.cells)
           /\ \A i \in 1..Len(filled.cells) \ {m + 1} : c.cells[i] = filled.cells[i]
           /\ m + 1 \in 1..Len(filled.cells) =>
                /\ DOMAIN c.cells[m + 1] = DOMAIN filled.cells[m + 1]
                /\ \A f \in DOMAIN filled.cells[m + 1] \ {"size"} :
                     c.cells[m + 1][f] = filled.cells[m + 1][f]
  <2>. DEFINE at == m + 1
              v == n + 2
  <2>1. c = Patch(filled, at, "size", v)
    BY <1>2
  <2>. HIDE DEF at, v
  <2>2. /\ IsBuffer(c)
        /\ ~c.error =>
             /\ ~filled.error /\ Len(c.cells) = Len(filled.cells)
             /\ \A i \in 1..Len(filled.cells) \ {at} : c.cells[i] = filled.cells[i]
             /\ at \in 1..Len(filled.cells) =>
                  /\ DOMAIN c.cells[at] = DOMAIN filled.cells[at]
                  /\ \A f \in DOMAIN filled.cells[at] \ {"size"} :
                       c.cells[at][f] = filled.cells[at][f]
    BY <1>6, <2>1, PatchDoes
  <2>. QED  BY <2>2 DEF at
<1>8. ASSUME ~c.error
      PROVE  /\ ~b.error /\ Len(c.cells) = m + n + 2
             /\ \A i \in 1..m : c.cells[i] = b.cells[i]
             /\ \A t \in 1..n : c.cells[m + 1 + t] = Tfra(t, tracks[t])
             /\ "box" \in DOMAIN c.cells[m + 1] /\ c.cells[m + 1].box = "mfra"
             /\ "box" \in DOMAIN c.cells[m + n + 2] /\ c.cells[m + n + 2].box = "mfro"
  <2>. DEFINE all == b.cells \o new
  <2>1. filled.cells = all /\ ~b.error
    BY <1>6, <1>7, <1>8
  <2>2. /\ Len(all) = m + Len(new) /\ \A i \in 1..m : all[i] = b.cells[i]
        /\ \A i \in 1..Len(new) : all[m + i] = new[i]
    <3>. DEFINE cells == b.cells
    <3>1. IsSequence(cells) /\ IsSequence(new)
      BY <1>1, <1>5
    <3>. HIDE DEF cells
    <3>2. /\ Len(cells \o new) = Len(cells) + Len(new)
          /\ \A i \in 1..Len(cells) : (cells \o new)[i] = cells[i]
          /\ \A i \in 1..Len(new) : (cells \o new)[Len(cells) + i] = new[i]
      BY ONLY <3>1, Joint
    <3>. QED  BY <3>2 DEF cells, m
  <2>. HIDE DEF all
  <2>3. /\ Len(all) = m + n + 2 /\ all[m + 1] = mfra /\ all[m + n + 2] = mfro
        /\ \A t \in 1..n : all[m + 1 + t] = Tfra(t, tracks[t])
    <3>1. /\ 1 \in 1..n + 2 /\ n + 2 \in 1..n + 2 /\ m + (n + 2) = m + n + 2
          /\ \A t \in 1..n : 1 + t \in 1..n + 2 /\ m + (1 + t) = m + 1 + t
          /\ m + Len(new) = m + n + 2
      <4>1. n + 2 \in 1..n + 2 /\ 1 \in 1..n + 2 /\ m + (n + 2) = m + n + 2
        BY <1>1
      <4>2. \A t \in 1..n : 1 + t \in 1..n + 2 /\ m + (1 + t) = m + 1 + t
        BY <1>1
      <4>. QED  BY <1>5, <4>1, <4>2
    <3>2. \A t \in 1..n : all[m + 1 + t] = Tfra(t, tracks[t])
      <4>. TAKE t \in 1..n
      <4>1. all[m + (1 + t)] = new[1 + t]
        BY <1>5, <2>2, <3>1
      <4>. QED  BY <1>5, <3>1, <4>1
    <3>3. all[m + 1] = new[1] /\ all[m + (n + 2)] = new[n + 2]
      BY <1>5, <2>2, <3>1
    <3>. QED  BY <1>5, <2>2, <3>1, <3>2, <3>3
  <2>4. /\ Len(c.cells) = m + n + 2
        /\ \A i \in 1..m + n + 2 : i # m + 1 => c.cells[i] = all[i]
    BY <1>7, <1>8, <2>1, <2>3
  <2>5. \A i \in 1..m : c.cells[i] = b.cells[i]
    BY <1>1, <2>2, <2>4
  <2>6. \A t \in 1..n : c.cells[m + 1 + t] = Tfra(t, tracks[t])
    <3>. TAKE t \in 1..n
    <3>1. m + 1 + t \in 1..m + n + 2 /\ m + 1 + t # m + 1
      BY <1>1
    <3>. QED  BY <2>3, <2>4, <3>1
  <2>7. "box" \in DOMAIN c.cells[m + 1] /\ c.cells[m + 1].box = "mfra"
    <3>1. m + 1 \in 1..Len(filled.cells) /\ filled.cells[m + 1] = mfra
      BY <1>1, <2>1, <2>3
    <3>2. DOMAIN mfra = {"box", "size"} /\ mfra.box = "mfra"
      OBVIOUS
    <3>. HIDE DEF mfra
    <3>3. /\ DOMAIN c.cells[m + 1] = {"box", "size"}
          /\ \A f \in {"box", "size"} \ {"size"} : c.cells[m + 1][f] = mfra[f]
      BY <1>7, <1>8, <3>1, <3>2
    <3>. QED  BY <3>2, <3>3
  <2>8. "box" \in DOMAIN c.cells[m + n + 2] /\ c.cells[m + n + 2].box = "mfro"
    <3>1. m + n + 2 \in 1..m + n + 2 /\ m + n + 2 # m + 1
      BY <1>1
    <3>2. c.cells[m + n + 2] = mfro
      BY <2>3, <2>4, <3>1
    <3>. QED  BY <3>2
  <2>. QED  BY <2>1, <2>4, <2>5, <2>6, <2>7, <2>8
<1>. QED  BY <1>7, <1>8 DEF c, m, n

\* A file is closed: its index is the tables of entries.
LEMMA ClosedIsRight ==
  ASSUME NEW b, IsBuffer(b), NEW tracks, IsSequence(tracks),
         \A t \in 1..Len(tracks) : IsSequence(tracks[t].frags),
         ~b.error => Indexed(b.cells, tracks), ~SEGMENT
  PROVE  LET c == WriteMfra(b, tracks)
         IN IsBuffer(c) /\ (~c.error => GoodIndex(c.cells))
<1>. DEFINE c == WriteMfra(b, tracks)
            p == b.cells
            q == c.cells
            m == Len(p)
            n == Len(tracks)
<1>1. /\ IsBuffer(c)
      /\ ~c.error =>
           /\ ~b.error /\ Len(q) = m + n + 2
           /\ \A i \in 1..m : q[i] = p[i]
           /\ \A t \in 1..n : q[m + 1 + t] = Tfra(t, tracks[t])
           /\ "box" \in DOMAIN q[m + 1] /\ q[m + 1].box = "mfra"
           /\ "box" \in DOMAIN q[m + n + 2] /\ q[m + n + 2].box = "mfro"
  BY WriteMfraDoes
<1>2. m \in Nat /\ n \in Nat
  BY SequenceIs DEF IsBuffer
<1>. HIDE DEF c
<1>3. ASSUME ~c.error
      PROVE  GoodIndex(q)
  <2>1. /\ \A i \in 1..m : "box" \in DOMAIN p[i] /\ p[i].box # "tfra"
        /\ \A i \in 1..m : p[i].box # "sidx"
        /\ \A i \in 1..m : p[i].box = "moof" => Ends(p, i)
        /\ \A t \in 1..n : \A i \in 1..Len(tracks[t].frags) : Leads(p, t, tracks[t].frags[i])
        /\ FALSE \notin AllocResults =>
             \A i \in 1..m : p[i].box = "moof" => Listed(p, i, tracks)
    BY <1>1, <1>3 DEF Indexed
  <2>2. Further(p, q)
    <3>1. \A i \in 1..m : Alike(p[i], q[i])
      BY <1>1, <1>3 DEF Alike
    <3>2. IsSequence(p) /\ IsSequence(q)
      BY <1>1 DEF IsBuffer
    <3>. QED  BY <1>1, <1>2, <1>3, <3>1, <3>2 DEF Further
  <2>. HIDE DEF p, q, m, n
  <2>3. \A i \in 1..Len(q) : \/ i \in 1..m /\ q[i] = p[i]
                             \/ i = m + 1 \/ i = m + n + 2
                             \/ i - (m + 1) \in 1..n /\ m + 1 + (i - (m + 1)) = i
    BY <1>1, <1>2, <1>3
  <2>4. ASSUME NEW i \in 1..Len(q), q[i].box = "tfra"
        PROVE  \E t \in 1..n : q[i] = Tfra(t, tracks[t])
    <3>1. ~(i \in 1..m /\ q[i] = p[i]) /\ i # m + 1 /\ i # m + n + 2
      BY <1>1, <1>3, <2>1, <2>4
    <3>. DEFINE t == i - (m + 1)
    <3>2. t \in 1..n /\ m + 1 + t = i
      BY <2>3, <3>1
    <3>. HIDE DEF t
    <3>3. q[m + 1 + t] = Tfra(t, tracks[t])
      BY <1>1, <1>3, <3>2
    <3>. QED  BY <3>2, <3>3
  <2>5. ASSUME NEW i \in 1..Len(q), q[i].box = "moof"
        PROVE  i \in 1..m /\ p[i].box = "moof"
    <3>1. ASSUME NEW t \in 1..n, q[i] = Tfra(t, tracks[t]) PROVE FALSE
      BY <2>5, <3>1 DEF Tfra
    <3>2. i # m + 1 /\ i # m + n + 2
      BY <1>1, <1>3, <2>5
    <3>. DEFINE t == i - (m + 1)
    <3>3. ~(t \in 1..n /\ m + 1 + t = i)
      <4>. HIDE DEF t
      <4>. QED  BY <1>1, <1>3, <3>1
    <3>. QED  BY <2>3, <2>5, <3>2, <3>3
  <2>6. \A i \in 1..m : p[i].box = "moof" => \A x : Listed(p, i, x) => Listed(q, i, x)
    <3>. TAKE i \in 1..m
    <3>. HAVE p[i].box = "moof"
    <3>1. i \in 1..Len(p) /\ Ends(p, i) /\ "box" \in DOMAIN p[i]
          /\ \A k \in 1..Len(p) : "box" \in DOMAIN p[k]
      BY <2>1 DEF m
    <3>. QED  BY <2>2, <3>1, MoofFurther
  <2>7. ASSUME NEW i \in 1..Len(q), q[i].box = "tfra"
        PROVE  LET has(moof, time) ==
                     \E k \in moof + 1..moof + q[moof].size - 1 :
                        /\ q[k].box = "traf" /\ q[k].track = q[i].track /\ q[k].tfdt = time
               IN /\ \A j \in DOMAIN q[i].entries :
                       LET e == q[i].entries[j]
                       IN q[e.offset].box = "moof" /\ has(e.offset, e.time)
                  /\ FALSE \in AllocResults \/
                       \A u \in 1..Len(q) :
                         q[u].box = "moof" =>
                           \A k \in u + 1..u + q[u].size - 1 :
                             q[k].box = "traf" /\ q[k].track = q[i].track =>
                               \E j \in DOMAIN q[i].entries : q[i].entries[j].offset = u
    <3>1. PICK t \in 1..n : q[i] = Tfra(t, tracks[t])
      BY <2>4, <2>7
    <3>. DEFINE list == tracks[t].frags
    <3>2. q[i].track = t /\ q[i].entries = list
      BY <3>1 DEF Tfra
    <3>3. DOMAIN list = 1..Len(list)
      BY SequenceIs DEF n
    <3>4. \A j \in 1..Len(list) : Leads(p, t, list[j])
      BY <2>1
    <3>. HIDE DEF list
    <3>5. ASSUME NEW j \in 1..Len(list)
          PROVE  Leads(q, t, list[j])
      <4>. DEFINE e == list[j]
      <4>1. Leads(p, t, e)
        BY <3>4
      <4>. HIDE DEF e
      <4>2. Ends(p, e.offset)
        BY <2>1, <4>1 DEF Leads, m
      <4>3. Leads(q, t, e)
        BY <2>2, <4>1, <4>2, LeadsFurther
      <4>. QED  BY <4>3 DEF e
    <3>6. ASSUME NEW j \in DOMAIN q[i].entries
          PROVE  LET e == q[i].entries[j]
                 IN /\ q[e.offset].box = "moof"
                    /\ \E k \in e.offset + 1..e.offset + q[e.offset].size - 1 :
                         /\ q[k].box = "traf" /\ q[k].track = q[i].track
                         /\ q[k].tfdt = e.time
      <4>. DEFINE e == list[j]
      <4>1. Leads(q, t, e) /\ q[i].entries[j] = e
        BY <3>2, <3>3, <3>5, <3>6
      <4>. HIDE DEF e
      <4>. QED  BY <3>2, <4>1 DEF Leads
    <3>7. ASSUME FALSE \notin AllocResults, NEW u \in 1..Len(q), q[u].box = "moof",
                 NEW k \in u + 1..u + q[u].size - 1, q[k].box = "traf", q[k].track = q[i].track
          PROVE  \E j \in DOMAIN q[i].entries : q[i].entries[j].offset = u
      <4>1. u \in 1..m /\ p[u].box = "moof"
        BY <2>5, <3>7
      <4>2. Listed(q, u, tracks)
        BY <2>1, <2>6, <3>7, <4>1
      <4>3. PICK v \in 1..n : /\ q[k].track = v
                              /\ \E j \in 1..Len(tracks[v].frags) : tracks[v].frags[j].offset = u
        BY <3>7, <4>2 DEF Listed, n
      <4>4. v = t
        BY <3>2, <3>7, <4>3
      <4>5. \E j \in 1..Len(list) : list[j].offset = u
        BY <4>3, <4>4 DEF list
      <4>. QED  BY <3>2, <3>3, <4>5
    <3>. QED  BY <3>6, <3>7
  <2>8. ASSUME NEW i \in 1..Len(q)
        PROVE  q[i].box # "sidx"
    <3>1. \A t \in 1..n : q[m + 1 + t].box # "sidx"
      <4>1. \A t \in 1..n : q[m + 1 + t] = Tfra(t, tracks[t])
        BY <1>1, <1>3
      <4>2. \A t \in 1..n : Tfra(t, tracks[t]).box # "sidx"
        BY DEF Tfra
      <4>. QED  BY <4>1, <4>2
    <3>2. q[m + 1].box # "sidx" /\ q[m + n + 2].box # "sidx"
      BY <1>1, <1>3
    <3>. DEFINE t == i - (m + 1)
    <3>3. t \in 1..n /\ m + 1 + t = i => q[i].box # "sidx"
      <4>. HIDE DEF t
      <4>. QED  BY <3>1
    <3>. QED  BY <2>1, <2>3, <3>2, <3>3
  <2>. QED  BY <2>7, <2>8 DEF GoodIndex, LeadsToAll
<1>. QED  BY <1>1, <1>3 DEF c

\* A save leaves the index right in the file, and nothing to index in the writer.
LEMMA SaveIndexed ==
  ASSUME NEW now \in Nat, NEW w, Whole(w, now), w.tracks = <<>> => w.mdat_size = 0,
         NEW b, IsBuffer(b), ~b.error => Indexed(b.cells, w.tracks), NEW grown,
         FALSE \notin AllocResults => \A t \in 1..Len(w.tracks) : grown[t] = TRUE
  PROVE  LET s == SaveSegment(w, b, grown)
         IN /\ DOMAIN s = {"w", "b"} /\ IsBuffer(s.b)
            /\ ~s.b.error => GoodIndex(s.b.cells)
            /\ Indexed(<<>>, s.w.tracks) /\ s.w.mdat_size = 0
<1>. DEFINE s == SaveSegment(w, b, grown)
            f == Fragment(w, b, grown)
            c == [f.w EXCEPT !.has_moov = FALSE]
            q == [t \in DOMAIN f.w.tracks |-> [f.w.tracks[t] EXCEPT !.frags = <<>>]]
            n == Len(w.tracks)
<1>1. /\ IsBuffer(f.b) /\ (~f.b.error => Indexed(f.b.cells, f.w.tracks))
      /\ Len(f.w.tracks) = n /\ f.w.mdat_size = 0
  <2>1. LET g == Fragment(w, b, grown)
        IN /\ IsBuffer(g.b) /\ (~g.b.error => Indexed(g.b.cells, g.w.tracks))
           /\ Len(g.w.tracks) = Len(w.tracks) /\ g.w.mdat_size = 0
    BY FragmentIndexed
  <2>. HIDE DEF f
  <2>. QED  BY <2>1 DEF f
<1>2. Whole(f.w, now) /\ DOMAIN f = {"w", "b"}
  <2>1. DOMAIN f = {"w", "b"}
    BY DEF Fragment
  <2>. QED  BY <2>1, FragmentWhole
<1>3. /\ s = IF SEGMENT \/ f.w.aborted THEN [f EXCEPT !.w = c]
             ELSE [b |-> WriteMfra(f.b, f.w.tracks), w |-> [c EXCEPT !.tracks = q]]
  BY DEF SaveSegment
<1>. HIDE DEF f, s, n
<1>4. /\ DOMAIN f.w = WriterFields /\ f.w.aborted = FALSE /\ IsSequence(f.w.tracks)
      /\ DOMAIN f.w.tracks = 1..Len(f.w.tracks)
      /\ \A t \in 1..Len(f.w.tracks) : /\ DOMAIN f.w.tracks[t] = TrackFields
                                       /\ IsSequence(f.w.tracks[t].frags)
  BY <1>2, SequenceIs DEF Whole, GoodTrack
<1>5. Len(<<>>) = 0 /\ 1..0 = {}
  OBVIOUS
<1>6. CASE SEGMENT
  <2>1. DOMAIN s = {"w", "b"} /\ s.b = f.b /\ s.w = c
    <3>. HIDE DEF c
    <3>. QED  BY <1>2, <1>3, <1>6
  <2>2. c.mdat_size = 0
    BY <1>1, <1>4 DEF WriterFields
  <2>3. Indexed(<<>>, s.w.tracks)
    BY <1>5, <1>6 DEF Indexed
  <2>4. ~s.b.error => GoodIndex(s.b.cells)
    <3>. SUFFICES ASSUME ~f.b.error PROVE GoodIndex(f.b.cells)
      BY <2>1
    <3>1. \A p \in 1..Len(f.b.cells) : f.b.cells[p].box # "tfra"
      BY <1>1 DEF Indexed
    <3>. QED  BY <1>6, <3>1 DEF GoodIndex, LeadsToAll
  <2>. QED  BY <1>1, <2>1, <2>2, <2>3, <2>4 DEF s
<1>7. CASE ~SEGMENT
  <2>. DEFINE d == WriteMfra(f.b, f.w.tracks)
              v == [c EXCEPT !.tracks = q]
  <2>1. DOMAIN s = {"w", "b"} /\ s.b = d /\ s.w = v
    <3>1. s = [b |-> d, w |-> v]
      BY <1>3, <1>4, <1>7
    <3>. HIDE DEF d, v
    <3>. QED  BY <3>1
  <2>2. DOMAIN c = WriterFields /\ c.mdat_size = 0
    BY <1>1, <1>4 DEF WriterFields
  <2>3. v.mdat_size = 0 /\ v.tracks = q
    <3>. HIDE DEF c, q
    <3>. QED  BY <2>2 DEF WriterFields
  <2>4. IsBuffer(d) /\ (~d.error => GoodIndex(d.cells))
    <3>. DEFINE x == f.b
                tracks == f.w.tracks
    <3>1. /\ IsBuffer(x) /\ IsSequence(tracks) /\ (~x.error => Indexed(x.cells, tracks))
          /\ \A t \in 1..Len(tracks) : IsSequence(tracks[t].frags)
      BY <1>1, <1>4
    <3>. HIDE DEF x, tracks
    <3>2. IsBuffer(WriteMfra(x, tracks))
          /\ (~WriteMfra(x, tracks).error => GoodIndex(WriteMfra(x, tracks).cells))
      BY <1>7, <3>1, ClosedIsRight
    <3>. QED  BY <3>2 DEF x, tracks
  <2>5. \A t \in DOMAIN f.w.tracks : q[t].frags = <<>>
    <3>. TAKE t \in DOMAIN f.w.tracks
    <3>. DEFINE x == f.w.tracks[t]
    <3>1. "frags" \in DOMAIN x /\ q[t] = [x EXCEPT !.frags = <<>>]
      BY <1>4 DEF TrackFields
    <3>. HIDE DEF x, q
    <3>. QED  BY <3>1
  <2>6. Len(q) = Len(f.w.tracks)
    <3>. DEFINE k == Len(f.w.tracks)
    <3>1. k \in Nat /\ q = [t \in 1..k |-> q[t]]
      BY <1>4, SequenceIs
    <3>. HIDE DEF k, q
    <3>2. Len(q) = k
      BY <3>1, OnIndices
    <3>. QED  BY <3>2 DEF k
  <2>. HIDE DEF q
  <2>7. Indexed(<<>>, q)
    BY <1>4, <1>5, <2>5, <2>6 DEF Indexed
  <2>. HIDE DEF d, v
  <2>. QED  BY <2>1, <2>3, <2>4, <2>7 DEF s
<1>. QED  BY <1>6, <1>7
------------------------------------------------------------------------------
(* A sample comes in.                                                       *)

\* No table of entries changes when a sample joins a cluster.
LEMMA ClusterKeepsEntries ==
  ASSUME NEW n \in Nat, NEW tracks, DOMAIN tracks = 1..n,
         \A u \in 1..n : "frags" \in DOMAIN tracks[u],
         NEW t \in 1..n, NEW key, NEW sn
  PROVE  \A u \in 1..n : Cluster(tracks, t, key, sn)[u].frags = tracks[u].frags
<1>. DEFINE sw == Switched(tracks, t, key, sn)
            begun == [u \in DOMAIN tracks |->
                        [tracks[u] EXCEPT !.offset =
                           Len(tracks[u].samples) - (IF u = t THEN 1 ELSE 0)]]
            x == [sw[t].samples EXCEPT ![sw[t].offset + 1].samples_per_chunk = @ + 1]
            z == [sw[t] EXCEPT !.samples = x]
            r == Cluster(tracks, t, key, sn)
<1>1. sw = tracks \/ sw = begun
  BY DEF Switched
<1>2. r = [sw EXCEPT ![t] = z]
  BY DEF Cluster
<1>. HIDE DEF sw, x
<1>3. DOMAIN sw = 1..n /\ \A u \in 1..n : sw[u].frags = tracks[u].frags /\ "frags" \in DOMAIN sw[u]
  <2>1. ASSUME NEW u \in 1..n
        PROVE  begun[u].frags = tracks[u].frags /\ "frags" \in DOMAIN begun[u]
    <3>. DEFINE y == tracks[u]
                o == Len(tracks[u].samples) - (IF u = t THEN 1 ELSE 0)
    <3>1. begun[u] = [y EXCEPT !.offset = o] /\ "frags" \in DOMAIN y
      OBVIOUS
    <3>. HIDE DEF y, o, begun
    <3>2. begun[u].frags = y.frags /\ "frags" \in DOMAIN begun[u]
      BY <3>1
    <3>. QED  BY <3>2 DEF y
  <2>2. DOMAIN begun = 1..n
    OBVIOUS
  <2>. HIDE DEF begun
  <2>. QED  BY <1>1, <2>1, <2>2
<1>4. z.frags = sw[t].frags
  BY <1>3
<1>. HIDE DEF z, r
<1>. QED  BY <1>2, <1>3, <1>4 DEF r

\* Nor when a sample is taken or refused.
LEMMA TakeKeepsEntries ==
  ASSUME NEW now \in Nat, NEW w, Whole(w, now), NEW t \in 1..Len(w.tracks),
         NEW bytes, NEW dts, NEW key, NEW grown, NEW copied,
         NEW v, v = Take(w, t, bytes, dts, key, grown, copied)
  PROVE  \A u \in 1..Len(w.tracks) : v.tracks[u].frags = w.tracks[u].frags
<1>. DEFINE n == Len(w.tracks)
            x == w.tracks[t]
            full == TableFull(x)
            room == IF full THEN x.sample_offset + GROW ELSE x.sample_offset
            y == [x EXCEPT !.sample_offset = room, !.end_dts = dts]
            tracks == [w.tracks EXCEPT ![t] = y]
            ready == [w EXCEPT !.tracks[t] = y, !.aborted = @ \/ x.end_dts > dts]
            sample == [bytes |-> bytes, dts |-> dts, key |-> key, offset |-> 0,
                       samples_per_chunk |-> 0, first_chunk |-> ready.sn]
            more == [ready.tracks[t] EXCEPT !.samples = Append(@, sample)]
            added == [ready.tracks EXCEPT ![t] = more]
            new == Cluster(added, t, key, ready.sn + 1)
<1>1. /\ DOMAIN w = WriterFields /\ IsSequence(w.tracks) /\ n \in Nat
      /\ DOMAIN w.tracks = 1..n /\ \A u \in 1..n : DOMAIN w.tracks[u] = TrackFields
  BY SequenceIs DEF Whole, GoodTrack
<1>2. v = w \/ v = ready \/ v = Store(ready, t, bytes, dts, key)
  BY DEF Take
<1>3. /\ DOMAIN ready = WriterFields /\ ready.tracks = tracks
  <2>1. ready = [w EXCEPT !.tracks = tracks, !.aborted = w.aborted \/ x.end_dts > dts]
    <3>. HIDE DEF x, y
    <3>. QED  BY <1>1 DEF WriterFields
  <2>. HIDE DEF tracks, ready, x
  <2>. QED  BY <1>1, <2>1 DEF WriterFields
<1>4. y.frags = x.frags /\ DOMAIN y = TrackFields
  <2>1. DOMAIN x = TrackFields
    BY <1>1
  <2>. HIDE DEF x, room
  <2>. QED  BY <2>1 DEF TrackFields
<1>. HIDE DEF y, ready
<1>5. /\ DOMAIN tracks = 1..n
      /\ \A u \in 1..n : tracks[u].frags = w.tracks[u].frags /\ DOMAIN tracks[u] = TrackFields
  BY <1>1, <1>4
<1>. HIDE DEF tracks, n
<1>6. /\ DOMAIN added = 1..n
      /\ \A u \in 1..n : added[u].frags = tracks[u].frags /\ "frags" \in DOMAIN added[u]
  <2>1. more.frags = tracks[t].frags /\ "frags" \in DOMAIN more
    BY <1>3, <1>5 DEF TrackFields, n
  <2>. HIDE DEF more
  <2>. QED  BY <1>3, <1>5, <2>1 DEF TrackFields
<1>7. Store(ready, t, bytes, dts, key).tracks = new
  <2>. DEFINE h == ready.heap \cup {ready.sn}
              size == ready.mdat_size + bytes
  <2>1. Store(ready, t, bytes, dts, key) =
          [ready EXCEPT !.sn = ready.sn + 1, !.heap = h, !.mdat_size = size, !.tracks = new]
    BY DEF Store
  <2>. HIDE DEF h, size, new
  <2>. QED  BY <1>3, <2>1 DEF WriterFields
<1>. HIDE DEF added
<1>8. \A u \in 1..n : new[u].frags = added[u].frags
  <2>. DEFINE sn == ready.sn + 1
  <2>. HIDE DEF sn
  <2>1. \A u \in 1..n : Cluster(added, t, key, sn)[u].frags = added[u].frags
    <3>1. n \in Nat /\ t \in 1..n
      BY <1>1 DEF n
    <3>. QED  BY ONLY <1>6, <3>1, ClusterKeepsEntries
  <2>. QED  BY <2>1 DEF sn
<1>. HIDE DEF new
<1>9. \A u \in 1..n : v.tracks[u].frags = w.tracks[u].frags
  BY <1>2, <1>3, <1>5, <1>6, <1>7, <1>8
<1>. QED  BY <1>9 DEF n
------------------------------------------------------------------------------
(* The calls.                                                               *)

\* What makes the index right when it is written: until then the tables of entries
\* and the cells in the buffer agree.
FileInv ==
  /\ IInv
  /\ IsBuffer(io) /\ (~io.error => Indexed(io.cells, writer.tracks))
  /\ writer.tracks = <<>> => writer.mdat_size = 0
  /\ saved.ok => GoodIndex(saved.cells)

\* An allocation that cannot fail does not.
LEMMA MemorySuffices ==
  ASSUME IInv, NEW entries \in [1..Len(Tracks) -> AllocResults], FALSE \notin AllocResults
  PROVE  \A t \in 1..Len(writer.tracks) : entries[t] = TRUE
<1>1. AllocResults \subseteq {TRUE}
  BY CallerAssumption DEF IInv, AllocResults
<1>2. CASE writer.tracks = <<>>
  <2>1. Len(writer.tracks) = 0
    BY <1>2
  <2>. QED  BY <2>1
<1>3. CASE Len(writer.tracks) = Len(Tracks)
  BY <1>1, <1>3
<1>. QED  BY <1>2, <1>3 DEF IInv

\* Empty buffers.
LEMMA Emptied ==
  ASSUME NEW b, IsBuffer(b)
  PROVE  IsBuffer([b EXCEPT !.cells = <<>>]) /\ [b EXCEPT !.cells = <<>>].cells = <<>>
<1>. DEFINE c == [b EXCEPT !.cells = <<>>]
<1>1. DOMAIN c = {"cells", "error", "limit"} /\ c.error = b.error /\ c.cells = <<>>
  BY DEF IsBuffer
<1>2. IsSequence(<<>>)
  <2>1. <<>> \in Seq(Nat)
    OBVIOUS
  <2>. QED  BY <2>1 DEF IsSequence
<1>. HIDE DEF c
<1>3. IsBuffer(c) /\ c.cells = <<>>
  BY <1>1, <1>2 DEF IsBuffer
<1>. QED  BY <1>3 DEF c

\* What a file must say does not change with time.
LEMMA SameIndex ==
  ASSUME caller' = caller, saved'.ok => GoodIndex(saved'.cells)
  PROVE  (saved.ok => GoodIndex(saved.cells))'
<1>1. AllocResults' = AllocResults /\ SEGMENT' = SEGMENT
  BY DEF AllocResults, SEGMENT
<1>. QED  BY <1>1 DEF GoodIndex, LeadsToAll

LEMMA FileInit == Init => FileInv
<1>. SUFFICES ASSUME Init PROVE FileInv
  OBVIOUS
<1>1. IInv
  BY InitInv
<1>2. /\ DOMAIN io = {"cells", "error", "limit"} /\ io.error = FALSE /\ io.cells = <<>>
      /\ writer.tracks = <<>> /\ writer.mdat_size = 0 /\ saved.cells = <<>>
  BY DEF Init, NotSaved
<1>3. IsSequence(<<>>) /\ Len(<<>>) = 0
  <2>1. <<>> \in Seq(Nat) /\ Len(<<>>) = 0
    OBVIOUS
  <2>. QED  BY <2>1 DEF IsSequence
<1>4. IsBuffer(io) /\ Indexed(io.cells, writer.tracks)
  <2>1. IsBuffer(io)
    BY <1>2, <1>3 DEF IsBuffer
  <2>2. 1..0 = {}
    OBVIOUS
  <2>3. Indexed(<<>>, <<>>)
    BY <1>3, <2>2 DEF Indexed
  <2>. QED  BY <1>2, <2>1, <2>3
<1>5. GoodIndex(saved.cells)
  BY <1>2, <1>3 DEF GoodIndex, LeadsToAll
<1>. QED  BY <1>1, <1>2, <1>4, <1>5 DEF FileInv

\* The tables of the tracks begin empty, and the caller has taken the boxes.
LEMMA FileSetup == FileInv /\ Setup => FileInv'
<1>. SUFFICES ASSUME FileInv, Setup PROVE FileInv'
  OBVIOUS
<1>1. IInv'
  BY SetupInv DEF FileInv
<1>. DEFINE b == Put(io, <<[box |-> "ftyp"], [box |-> "moov"]>>)
<1>2. /\ io' = [b EXCEPT !.cells = <<>>] /\ UNCHANGED <<caller, saved>> /\ phase = "new"
      /\ \E added \in AllocResults :
           writer' = [writer EXCEPT !.tracks =
                        IF added THEN [i \in 1..Len(Tracks) |-> NewTrack(Tracks[i])]
                        ELSE <<>>]
  BY DEF Setup
<1>3. IsBuffer(b)
  <2>. DEFINE new == <<[box |-> "ftyp"], [box |-> "moov"]>>
  <2>1. new \in Seq([box : {"ftyp", "moov"}])
    OBVIOUS
  <2>2. IsSequence(new)
    BY <2>1 DEF IsSequence
  <2>3. IsBuffer(io)
    BY DEF FileInv
  <2>. HIDE DEF new
  <2>4. IsBuffer(Put(io, new))
    BY <2>2, <2>3, PutDoes
  <2>. QED  BY <2>4 DEF new
<1>. HIDE DEF b
<1>4. IsBuffer(io') /\ io'.cells = <<>>
  BY <1>2, <1>3, Emptied
<1>5. /\ DOMAIN writer = WriterFields /\ writer.mdat_size = 0
  BY <1>2 DEF FileInv, IInv, Whole
<1>6. writer'.mdat_size = 0
  BY <1>2, <1>5 DEF WriterFields
<1>7. \A t \in 1..Len(writer'.tracks) : writer'.tracks[t].frags = <<>>
  <2>1. \/ writer'.tracks = <<>>
        \/ writer'.tracks = [i \in 1..Len(Tracks) |-> NewTrack(Tracks[i])]
    BY <1>2, <1>5 DEF WriterFields
  <2>2. CASE writer'.tracks = <<>>
    BY <2>2
  <2>3. CASE writer'.tracks = [i \in 1..Len(Tracks) |-> NewTrack(Tracks[i])]
    <3>. DEFINE n == Len(Tracks)
                q == [i \in 1..n |-> NewTrack(Tracks[i])]
    <3>1. n \in Nat
      BY CallerAssumption DEF FileInv, IInv, Tracks
    <3>2. q = [i \in 1..n |-> q[i]] /\ \A i \in 1..n : q[i].frags = <<>>
      BY DEF NewTrack
    <3>. HIDE DEF q, n
    <3>3. Len(q) = n
      BY <3>1, <3>2, OnIndices
    <3>4. writer'.tracks = q
      BY <2>3 DEF q, n
    <3>. QED  BY <3>2, <3>3, <3>4
  <2>. QED  BY <2>1, <2>2, <2>3
<1>8. Indexed(io.cells, writer.tracks)'
  <2>1. Len(<<>>) = 0 /\ 1..0 = {}
    OBVIOUS
  <2>. QED  BY <1>4, <1>7, <2>1 DEF Indexed
<1>9. (saved.ok => GoodIndex(saved.cells))'
  <2>1. saved'.ok => GoodIndex(saved'.cells)
    BY <1>2 DEF FileInv
  <2>. QED  BY <1>2, <2>1, SameIndex
<1>10. IsBuffer(io)'
  BY <1>4 DEF IsBuffer
<1>. QED  BY <1>1, <1>6, <1>8, <1>9, <1>10 DEF FileInv

\* A key frame may end a fragment; the sample itself has no place in the buffer yet.
LEMMA FileWrite == FileInv /\ Write => FileInv'
<1>. SUFFICES ASSUME FileInv, Write PROVE FileInv'
  OBVIOUS
<1>0. /\ IInv /\ Whole(writer, clock) /\ clock \in Nat /\ caller \in Callers
      /\ IsBuffer(io) /\ (~io.error => Indexed(io.cells, writer.tracks))
      /\ (writer.tracks = <<>> => writer.mdat_size = 0)
      /\ (writer.tracks = <<>> \/ Len(writer.tracks) = Len(Tracks))
  BY DEF FileInv, IInv
<1>1. IInv'
  BY WriteInv DEF FileInv
<1>2. PICK t \in 1..Len(Tracks), bytes \in caller.sizes, key \in BOOLEAN,
           grown \in AllocResults, copied \in AllocResults,
           entries \in [1..Len(Tracks) -> AllocResults] :
        IF writer.tracks = <<>> THEN UNCHANGED <<writer, io, accepted>>
        ELSE LET f == BeforeKey(writer, io, t, key, entries)
                 w == IF f.w.aborted THEN f.w
                      ELSE Take(f.w, t, bytes, clock', key, grown, copied)
             IN writer' = w /\ io' = f.b
  BY SMTT(30) DEF Write
<1>3. saved' = NotSaved /\ caller' = caller
  BY DEF Write
<1>4. (saved.ok => GoodIndex(saved.cells))'
  <2>1. saved'.cells = <<>> /\ Len(<<>>) = 0
    BY <1>3 DEF NotSaved
  <2>. QED  BY <2>1 DEF GoodIndex, LeadsToAll
<1>5. CASE writer.tracks = <<>>
  <2>1. UNCHANGED <<writer, io>>
    BY <1>2, <1>5
  <2>2. (~io.error => Indexed(io.cells, writer.tracks))'
    <3>1. ~io'.error => Indexed(io'.cells, writer'.tracks)
      BY <1>0, <2>1
    <3>. QED  BY <1>3, <3>1 DEF Indexed, Listed, Leads, Ends, SEGMENT, AllocResults
  <2>. QED  BY <1>0, <1>1, <1>4, <2>1, <2>2 DEF FileInv, IsBuffer
<1>6. CASE writer.tracks # <<>>
  <2>. DEFINE g == BeforeKey(writer, io, t, key, entries)
              n == Len(writer.tracks)
              v == Take(g.w, t, bytes, clock', key, grown, copied)
  <2>1. Whole(g.w, clock) /\ Len(g.w.tracks) = n
    <3>. DEFINE h == Fragment(writer, io, entries)
    <3>1. Whole(h.w, clock) /\ Len(h.w.tracks) = n
      BY <1>0, FragmentWhole
    <3>2. g = h \/ g = [w |-> writer, b |-> io]
      BY DEF BeforeKey
    <3>. HIDE DEF g, h
    <3>. QED  BY <1>0, <3>1, <3>2
  <2>2. IsBuffer(g.b) /\ (~g.b.error => Indexed(g.b.cells, g.w.tracks))
    <3>1. CASE g = Fragment(writer, io, entries)
      <4>1. FALSE \notin AllocResults => \A u \in 1..Len(writer.tracks) : entries[u] = TRUE
        BY <1>0, MemorySuffices
      <4>. DEFINE h == Fragment(writer, io, entries)
      <4>2. IsBuffer(h.b) /\ (~h.b.error => Indexed(h.b.cells, h.w.tracks))
        BY <1>0, <4>1, FragmentIndexed
      <4>. HIDE DEF g
      <4>. QED  BY <3>1, <4>2
    <3>2. CASE g = [w |-> writer, b |-> io]
      BY <1>0, <3>2
    <3>. QED  BY <3>1, <3>2 DEF BeforeKey
  <2>3. writer' = (IF g.w.aborted THEN g.w ELSE v) /\ io' = g.b
    BY <1>2, <1>6
  <2>. HIDE DEF g
  <2>4. t \in 1..Len(g.w.tracks) /\ g.w.aborted = FALSE
    BY <1>0, <1>6, <2>1 DEF Whole
  <2>5. Whole(v, clock') /\ Len(v.tracks) = n
    <3>1. clock' \in Nat /\ clock <= clock'
      BY <1>0 DEF Write, IInv
    <3>2. bytes \in Nat \ {0}
      BY <1>0, CallerAssumption
    <3>. QED  BY <1>0, <2>1, <2>4, <3>1, <3>2, TakeWhole
  <2>6. \A u \in 1..n : v.tracks[u].frags = g.w.tracks[u].frags
    <3>. DEFINE w == g.w
                then == clock'
    <3>1. Whole(w, clock) /\ clock \in Nat /\ t \in 1..Len(w.tracks)
          /\ v = Take(w, t, bytes, then, key, grown, copied)
      BY <1>0, <2>1, <2>4
    <3>. HIDE DEF w, then, v
    <3>2. \A u \in 1..Len(w.tracks) : v.tracks[u].frags = w.tracks[u].frags
      BY ONLY <3>1, TakeKeepsEntries
    <3>. QED  BY <2>1, <3>2 DEF w
  <2>7. writer' = v
    BY <2>3, <2>4
  <2>. HIDE DEF v
  <2>8. ~g.b.error => Indexed(g.b.cells, v.tracks)
    BY <2>1, <2>2, <2>5, <2>6, IndexedSame
  <2>9. (~io.error => Indexed(io.cells, writer.tracks))'
    <3>1. ~io'.error => Indexed(io'.cells, writer'.tracks)
      BY <2>3, <2>7, <2>8
    <3>. QED  BY <1>3, <3>1 DEF Indexed, Listed, Leads, Ends, SEGMENT, AllocResults
  <2>10. writer'.tracks # <<>>
    <3>1. n # 0 /\ Len(<<>>) = 0
      BY <1>0, <1>6, SequenceIs DEF Whole
    <3>. QED  BY <2>5, <2>7, <3>1
  <2>11. IsBuffer(io)'
    BY <2>2, <2>3 DEF IsBuffer
  <2>. QED  BY <1>1, <1>4, <2>9, <2>10, <2>11 DEF FileInv
<1>. QED  BY <1>5, <1>6

\* The file a save hands over.
LEMMA FileSaved ==
  ASSUME FileInv, NEW entries \in [1..Len(Tracks) -> AllocResults],
         NEW s, s = SaveSegment(writer, io, entries),
         io' = [s.b EXCEPT !.cells = <<>>], writer'.tracks = s.w.tracks,
         writer'.mdat_size = s.w.mdat_size,
         saved' = [ok |-> ~s.b.error, cells |-> s.b.cells, input |-> accepted],
         caller' = caller, IInv'
  PROVE  FileInv'
<1>0. /\ IInv /\ Whole(writer, clock) /\ clock \in Nat
      /\ IsBuffer(io) /\ (~io.error => Indexed(io.cells, writer.tracks))
      /\ (writer.tracks = <<>> => writer.mdat_size = 0)
  BY DEF FileInv, IInv
<1>1. FALSE \notin AllocResults => \A u \in 1..Len(writer.tracks) : entries[u] = TRUE
  BY <1>0, MemorySuffices
<1>2. /\ IsBuffer(s.b) /\ (~s.b.error => GoodIndex(s.b.cells))
      /\ Indexed(<<>>, s.w.tracks) /\ s.w.mdat_size = 0
  BY <1>0, <1>1, SaveIndexed
<1>3. IsBuffer(io') /\ io'.cells = <<>>
  BY <1>2, Emptied
<1>4. Indexed(io'.cells, writer'.tracks)
  BY <1>2, <1>3
<1>5. Indexed(io.cells, writer.tracks)'
  BY <1>4 DEF Indexed, Listed, Leads, Ends, SEGMENT, AllocResults
<1>6. saved'.ok => GoodIndex(saved'.cells)
  BY <1>2
<1>7. (saved.ok => GoodIndex(saved.cells))'
  BY <1>6, SameIndex
<1>8. IsBuffer(io)'
  BY <1>3 DEF IsBuffer
<1>. QED  BY <1>2, <1>5, <1>7, <1>8 DEF FileInv

LEMMA FileSave == FileInv /\ Save => FileInv'
<1>. SUFFICES ASSUME FileInv, Save PROVE FileInv'
  OBVIOUS
<1>1. IInv'
  BY SaveInv DEF FileInv
<1>2. PICK entries \in [1..Len(Tracks) -> AllocResults] :
        Saved(SaveSegment(writer, io, entries))
  BY DEF Save
<1>. DEFINE s == SaveSegment(writer, io, entries)
<1>3. /\ writer' = s.w /\ io' = [s.b EXCEPT !.cells = <<>>] /\ caller' = caller
      /\ saved' = [ok |-> ~s.b.error, cells |-> s.b.cells, input |-> accepted]
  BY <1>2 DEF Saved, Save
<1>4. s = SaveSegment(writer, io, entries)
  OBVIOUS
<1>. HIDE DEF s
<1>. QED  BY <1>1, <1>3, <1>4, FileSaved

LEMMA FileDestroy == FileInv /\ Destroy => FileInv'
<1>. SUFFICES ASSUME FileInv, Destroy PROVE FileInv'
  OBVIOUS
<1>1. IInv'
  BY DestroyInv DEF FileInv
<1>2. PICK entries \in [1..Len(Tracks) -> AllocResults] :
        LET s == SaveSegment(writer, io, entries)
            left == UNION {{x.first_chunk : x \in Range(s.w.tracks[t].samples)} :
                             t \in DOMAIN s.w.tracks}
        IN Saved([s EXCEPT !.w.heap = @ \ left])
  BY DEF Destroy
<1>. DEFINE s == SaveSegment(writer, io, entries)
            h == s.w.heap \ Owned(s.w.tracks)
            v == [s.w EXCEPT !.heap = h]
            r == [s EXCEPT !.w.heap = h]
<1>3. Saved(r) /\ caller' = caller
  BY <1>2 DEF Destroy, Owned
<1>4. s = SaveSegment(writer, io, entries)
  OBVIOUS
<1>5. DOMAIN s = {"w", "b"} /\ DOMAIN s.w = WriterFields
  <2>1. DOMAIN Fragment(writer, io, entries) = {"w", "b"}
    BY DEF Fragment
  <2>2. DOMAIN s = {"w", "b"}
    BY <2>1 DEF SaveSegment
  <2>3. Whole(writer, clock) /\ clock \in Nat
    BY DEF FileInv, IInv
  <2>. QED  BY <2>2, <2>3, SaveWhole DEF Whole
<1>. HIDE DEF s, h
<1>6. r.b = s.b /\ r.w = v
  BY <1>5
<1>7. v.tracks = s.w.tracks /\ v.mdat_size = s.w.mdat_size
  BY <1>5 DEF WriterFields
<1>. HIDE DEF r, v
<1>8. /\ writer' = v /\ io' = [s.b EXCEPT !.cells = <<>>]
      /\ saved' = [ok |-> ~s.b.error, cells |-> s.b.cells, input |-> accepted]
  BY <1>3, <1>6 DEF Saved
<1>. QED  BY <1>1, <1>3, <1>4, <1>7, <1>8, FileSaved

LEMMA FileInvariance == Spec => []FileInv
<1>1. FileInv /\ [Next]_vars => FileInv'
  <2>. SUFFICES ASSUME FileInv, [Next]_vars PROVE FileInv'
    OBVIOUS
  <2>1. CASE UNCHANGED vars
    <3>1. IInv'
      BY <2>1 DEF FileInv, IInv, vars, Tracks
    <3>2. UNCHANGED <<caller, io, writer, saved>>
      BY <2>1 DEF vars
    <3>3. ~io'.error => Indexed(io'.cells, writer'.tracks)
      BY <3>2 DEF FileInv
    <3>4. (~io.error => Indexed(io.cells, writer.tracks))'
      <4>1. caller' = caller
        BY <3>2
      <4>. QED  BY ONLY <3>3, <4>1 DEF Indexed, Listed, Leads, Ends, SEGMENT, AllocResults
    <3>5. saved'.ok => GoodIndex(saved'.cells)
      BY <3>2 DEF FileInv
    <3>6. (saved.ok => GoodIndex(saved.cells))'
      BY <3>2, <3>5, SameIndex
    <3>. QED  BY <3>1, <3>2, <3>4, <3>6 DEF FileInv, IsBuffer
  <2>2. CASE Finished
    BY <2>1, <2>2 DEF Finished
  <2>. QED  BY <2>1, <2>2, FileSetup, FileWrite, FileSave, FileDestroy DEF Next
<1>. QED  BY <1>1, FileInit, PTL DEF Spec
------------------------------------------------------------------------------
(* The theorem.                                                             *)

\* Whatever was written before, into however many fragments, and whichever write or
\* allocation failed: in a file that was saved, each entry of the index leads to a
\* fragment with samples of its track that begin at its time, and unless memory was
\* short no fragment is missing from it.
THEOREM EntriesAreRight == Spec => []EntriesLeadToFragments
<1>1. FileInv => EntriesLeadToFragments
  BY DEF FileInv, GoodIndex, LeadsToAll, EntriesLeadToFragments
<1>. QED  BY <1>1, FileInvariance, PTL
------------------------------------------------------------------------------
(* What a segment is.                                                       *)

\* What the writer took: samples with a size and a time.
Input(s) == IsSequence(s) /\ \A k \in 1..Len(s) : s[k].bytes \in Nat /\ s[k].dts \in Nat

\* g[k] is the size of the first k samples of s together.
Sums(s, g) == /\ g[0] = 0
              /\ \A k \in 1..Len(s) : g[k] = g[k - 1] + s[k].bytes

\* The trun of all the samples.
Durations(s) == [k \in 1..Len(s) |->
                   [duration |-> IF k < Len(s) THEN s[k + 1].dts - s[k].dts ELSE 0,
                    bytes    |-> s[k].bytes]]

\* The boxes ahead of the media data of a segment with the samples s, of that size.
Headed(cells, s, size) ==
  /\ cells[1].box = "styp"
  /\ cells[2].box = "sidx" /\ cells[2].first_offset = 0 /\ cells[2].referenced_size = size + 4
  /\ cells[3].box = "moof" /\ cells[3].size = 3
  /\ cells[4].box = "traf" /\ cells[4].track = 1 /\ cells[4].size = 2 /\ cells[4].tfdt = s[1].dts
  /\ cells[5].box = "trun" /\ cells[5].data_offset = 4 /\ cells[5].run = Durations(s)
  /\ cells[6].box = "mdat"

\* The first n samples of s are in the cells from at on, and nothing else.
Media(cells, at, s, g, n) ==
  /\ Len(cells) = at + g[n] - 1
  /\ \A p \in at..Len(cells) : cells[p].box = "data"
  /\ \A k \in 1..n : \A j \in 1..s[k].bytes :
       cells[at + g[k - 1] + j - 1] = [box |-> "data", sample |-> s[k].sample, byte |-> j]

\* A segment with the samples s.
Laid(cells, s, g) == /\ IsSequence(cells)
                     /\ Headed(cells, s, g[Len(s)]) /\ Media(cells, 7, s, g, Len(s))

\* The file of the samples s: nothing, or a segment.
Segment(cells, s) == \/ cells = <<>> /\ s = <<>>
                     \/ s # <<>> /\ \E g : Sums(s, g) /\ Laid(cells, s, g)

\* Sizes add up to larger sizes.
LEMMA SumsGrow ==
  ASSUME NEW s, Input(s), NEW g, Sums(s, g)
  PROVE  /\ \A k \in 0..Len(s) : g[k] \in Nat
         /\ \A k \in 0..Len(s) : \A i \in 0..k : g[i] <= g[k]
         /\ \A k \in 0..Len(s) : g[k] <= g[Len(s)]
<1>. DEFINE n == Len(s)
<1>1. n \in Nat /\ \A k \in 1..n : s[k].bytes \in Nat /\ g[k] = g[k - 1] + s[k].bytes
  BY SequenceIs DEF Input, Sums
<1>. HIDE DEF n
<1>2. \A k \in 0..n : g[k] \in Nat
  <2>. DEFINE P == {k \in 0..n : g[k] \in Nat}
  <2>1. 0 \in P
    BY <1>1 DEF Sums
  <2>2. ASSUME NEW k \in 0..n - 1, k \in P
        PROVE  k + 1 \in P
    <3>. DEFINE i == k + 1
    <3>1. i \in 1..n /\ i \in 0..n /\ i - 1 = k
      BY <1>1
    <3>. HIDE DEF i
    <3>2. g[i] \in Nat
      BY <1>1, <2>2, <3>1
    <3>3. i \in P
      BY <3>1, <3>2
    <3>. QED  BY <3>3 DEF i
  <2>. HIDE DEF P
  <2>3. \A k \in 0..n : k \in P
    BY <1>1, <2>1, <2>2, UpTo
  <2>. QED  BY <2>3 DEF P
<1>3. \A k \in 0..n : \A i \in 0..k : g[i] <= g[k]
  <2>. DEFINE P == {k \in 0..n : \A i \in 0..k : g[i] <= g[k]}
  <2>1. 0 \in P
    BY <1>1, <1>2
  <2>2. ASSUME NEW k \in 0..n - 1, k \in P
        PROVE  k + 1 \in P
    <3>. DEFINE m == k + 1
    <3>1. m \in 1..n /\ m \in 0..n /\ m - 1 = k /\ k \in 0..n
      BY <1>1
    <3>2. ASSUME NEW i \in 0..m
          PROVE  g[i] <= g[m]
      <4>1. i = m \/ i \in 0..k
        BY <3>1
      <4>2. g[k] <= g[m]
        <5>. HIDE DEF m
        <5>. QED  BY <1>1, <1>2, <3>1
      <4>3. CASE i \in 0..k
        <5>1. g[i] <= g[k]
          BY <2>2, <4>3
        <5>0. i \in 0..n
          BY <1>1, <3>1, <4>3
        <5>. HIDE DEF m
        <5>. QED  BY <1>2, <3>1, <4>2, <5>0, <5>1
      <4>. HIDE DEF m
      <4>. QED  BY <1>2, <3>1, <4>1, <4>3
    <3>. HIDE DEF m
    <3>3. m \in P
      BY <3>1, <3>2
    <3>. QED  BY <3>3 DEF m
  <2>. HIDE DEF P
  <2>3. \A k \in 0..n : k \in P
    BY <1>1, <2>1, <2>2, UpTo
  <2>. QED  BY <2>3 DEF P
<1>4. \A k \in 0..n : g[k] <= g[n]
  BY <1>1, <1>3
<1>. QED  BY <1>2, <1>3, <1>4 DEF n

------------------------------------------------------------------------------
(* Reading a segment.                                                       *)

\* Where one box is of a type, that one is found.
LEMMA OneBox ==
  ASSUME NEW cells, NEW box, NEW from \in Nat \ {0}, NEW to \in Nat, NEW p \in from..to,
         \A q \in from..to : cells[q].box = box <=> q = p
  PROVE  Boxes(cells, box, from, to) = <<p>>
<1>. DEFINE D == from - 1..to
            Value(g, q) == IF q < from THEN <<>>
                           ELSE IF cells[q].box = box THEN Append(g[q - 1], q) ELSE g[q - 1]
            found == CHOOSE g : g = [q \in D |-> Value(g, q)]
            h == [q \in D |-> IF q < p THEN <<>> ELSE <<p>>]
<1>1. Boxes(cells, box, from, to) = found[to]
  BY DEF Boxes
<1>2. \A q \in D : h[q] = Value(h, q)
  <2>. SUFFICES ASSUME NEW q \in D PROVE h[q] = Value(h, q)
    OBVIOUS
  <2>1. CASE q < from
    BY <2>1
  <2>2. CASE ~(q < from)
    <3>1. q \in from..to /\ q - 1 \in D
      BY <2>2
    <3>2. CASE q = p
      <4>1. h[q] = <<p>> /\ h[q - 1] = <<>> /\ cells[q].box = box
        BY <3>1, <3>2
      <4>2. Append(<<>>, p) = <<p>>
        OBVIOUS
      <4>. HIDE DEF h
      <4>. QED  BY <2>2, <3>2, <4>1, <4>2
    <3>3. CASE q # p
      <4>1. h[q - 1] = h[q] /\ cells[q].box # box
        BY <3>1, <3>3
      <4>. HIDE DEF h
      <4>. QED  BY <2>2, <4>1
    <3>. QED  BY <3>2, <3>3
  <2>. QED  BY <2>1, <2>2
<1>3. h = [q \in D |-> Value(h, q)]
  <2>1. h = [q \in D |-> h[q]]
    OBVIOUS
  <2>. HIDE DEF h, Value, D
  <2>. QED  BY <1>2, <2>1
<1>4. found = [q \in D |-> Value(found, q)]
  <2>. HIDE DEF h, Value, D
  <2>. QED  BY <1>3
<1>5. h[to] = <<p>>
  OBVIOUS
<1>. HIDE DEF found, h
<1>. DEFINE m == to - from + 1
            P == {k \in 0..m : found[from - 1 + k] = h[from - 1 + k]}
<1>6. m \in Nat /\ \A k \in 0..m : from - 1 + k \in D
  OBVIOUS
<1>7. 0 \in P
  <2>1. from - 1 \in D /\ from - 1 < from /\ from - 1 + 0 = from - 1 /\ 0 \in 0..m
    OBVIOUS
  <2>2. Value(found, from - 1) = Value(h, from - 1)
    BY <2>1
  <2>. HIDE DEF Value, D, m
  <2>. QED  BY <1>2, <1>4, <2>1, <2>2
<1>8. ASSUME NEW k \in 0..m - 1, k \in P
      PROVE  k + 1 \in P
  <2>. DEFINE q == from + k
  <2>1. q - 1 = from - 1 + k /\ q = from - 1 + (k + 1) /\ q \in D /\ k + 1 \in 0..m
    OBVIOUS
  <2>2. found[q - 1] = h[q - 1]
    BY <1>8, <2>1
  <2>. HIDE DEF q
  <2>3. Value(found, q) = Value(h, q)
    BY <2>2
  <2>4. found[q] = h[q]
    <3>. HIDE DEF Value, D
    <3>. QED  BY <1>2, <1>4, <2>1, <2>3
  <2>. HIDE DEF m
  <2>. QED  BY <2>1, <2>4
<1>9. m \in P
  <2>1. \A k \in 0..m : k \in P
    <3>. HIDE DEF P, m
    <3>. QED  BY <1>6, <1>7, <1>8, UpTo
  <2>. HIDE DEF P
  <2>. QED  BY <1>6, <2>1
<1>10. from - 1 + m = to
  OBVIOUS
<1>. QED  BY <1>1, <1>5, <1>9, <1>10

\* In an empty file nothing is found.
LEMMA NoBox ==
  ASSUME NEW cells, NEW box
  PROVE  Boxes(cells, box, 1, 0) = <<>>
<1>. DEFINE Value(g, q) == IF q < 1 THEN <<>>
                           ELSE IF cells[q].box = box THEN Append(g[q - 1], q) ELSE g[q - 1]
            found == CHOOSE g : g = [q \in 0..0 |-> Value(g, q)]
            h == [q \in 0..0 |-> <<>>]
<1>1. Boxes(cells, box, 1, 0) = found[0]
  BY DEF Boxes
<1>2. \A q \in 0..0 : q < 1
  OBVIOUS
<1>3. h = [q \in 0..0 |-> Value(h, q)]
  BY <1>2
<1>4. found = [q \in 0..0 |-> Value(found, q)]
  <2>. HIDE DEF h, Value
  <2>. QED  BY <1>3
<1>. HIDE DEF found
<1>. QED  BY <1>1, <1>2, <1>4

\* Before the first entry of a trun.
ReadFrom(r, at) == [r EXCEPT !.at = at, !.n = 1]

\* The entries of a trun, one after the other.
LEMMA ReadTrunIs ==
  ASSUME NEW r, NEW cells, NEW moof, NEW trun, NEW sync, NEW run, run = cells[trun].run, Len(run) \in Nat
  PROVE  \E g : /\ g[0] = ReadFrom(r, moof + cells[trun].data_offset)
                /\ \A k \in 1..Len(run) : g[k] = ReadEntry(g[k - 1], run[k], cells, sync)
                /\ ReadTrun(r, cells, moof, trun, sync) = g[Len(run)]
<1>. DEFINE n == Len(run)
            base == ReadFrom(r, moof + cells[trun].data_offset)
            Turn(x, k) == ReadEntry(x, run[k], cells, sync)
            Value(g, k) == IF k = 0 THEN base ELSE Turn(g[k - 1], k)
            P == {j \in 0..n : \E g : g = [k \in 0..j |-> Value(g, k)]}
            filled == CHOOSE g : g = [k \in 0..n |-> Value(g, k)]
<1>1. n \in Nat /\ ReadTrun(r, cells, moof, trun, sync) = filled[n]
  BY DEF ReadTrun, ReadFrom
<1>. HIDE DEF n, base, Turn
<1>2. 0 \in P
  <2>. DEFINE g == [k \in 0..0 |-> base]
  <2>1. \A k \in 0..0 : k = 0
    OBVIOUS
  <2>2. g = [k \in 0..0 |-> Value(g, k)]
    BY <2>1
  <2>. HIDE DEF g, Value
  <2>. QED  BY <1>1, <2>2
<1>3. \A j \in 0..n - 1 : j \in P => j + 1 \in P
  <2>. SUFFICES ASSUME NEW j \in 0..n - 1, j \in P PROVE j + 1 \in P
    OBVIOUS
  <2>1. j \in Nat /\ j + 1 \in 0..n
    BY <1>1
  <2>2. PICK g : g = [k \in 0..j |-> Value(g, k)]
    OBVIOUS
  <2>. DEFINE h == Longer(g, j, Turn(g[j], j + 1))
  <2>3. /\ IsOn(h, j + 1) /\ h[j + 1] = Turn(g[j], j + 1)
        /\ \A k \in 0..j : h[k] = g[k]
    <3>. HIDE DEF P, Value
    <3>. QED  BY <2>1, OneValueMore
  <2>. HIDE DEF h
  <2>4. \A k \in 0..j + 1 : h[k] = Value(h, k)
    <3>. SUFFICES ASSUME NEW k \in 0..j + 1 PROVE h[k] = Value(h, k)
      OBVIOUS
    <3>1. CASE k = j + 1
      <4>1. k # 0 /\ k - 1 = j /\ j \in 0..j
        BY <2>1, <3>1
      <4>. HIDE DEF P
      <4>. QED  BY <2>3, <3>1, <4>1
    <3>2. CASE k # j + 1
      <4>1. k \in 0..j /\ (k # 0 => k - 1 \in 0..j)
        BY <2>1, <3>2
      <4>2. g[k] = Value(g, k)
        BY <2>2, <4>1
      <4>. HIDE DEF P
      <4>. QED  BY <2>3, <4>1, <4>2
    <3>. QED  BY <3>1, <3>2
  <2>. HIDE DEF Value
  <2>5. h = [k \in 0..j + 1 |-> Value(h, k)]
    BY <2>3, <2>4 DEF IsOn
  <2>. QED  BY <2>1, <2>5
<1>4. n \in P
  <2>1. \A k \in 0..n : k \in P
    <3>. HIDE DEF P
    <3>. QED  BY <1>1, <1>2, <1>3, UpTo
  <2>. HIDE DEF P
  <2>. QED  BY <1>1, <2>1
<1>5. filled = [k \in 0..n |-> Value(filled, k)]
  <2>1. \E g : g = [k \in 0..n |-> Value(g, k)]
    BY <1>4
  <2>. HIDE DEF Value
  <2>. QED  BY <2>1
<1>. HIDE DEF filled
<1>6. filled[0] = base /\ \A k \in 1..n : filled[k] = Turn(filled[k - 1], k)
  BY <1>1, <1>5
<1>. QED  BY <1>1, <1>6 DEF n, base, Turn

\* A traf with one trun is what that trun says.
LEMMA OneTrun ==
  ASSUME NEW out, NEW cells, NEW moof, NEW traf, NEW p, NEW sync,
         Boxes(cells, "trun", traf + 1, traf + cells[traf].size - 1) = <<p>>
  PROVE  ReadTraf(out, cells, moof, traf, sync)
           = ReadTrun([at |-> 0, n |-> 1, end_dts |-> ReadTfdt(cells[traf]), out |-> out],
                      cells, moof, p, sync).out
<1>. DEFINE base == [at |-> 0, n |-> 1, end_dts |-> ReadTfdt(cells[traf]), out |-> out]
            Turn(x, q) == ReadTrun(x, cells, moof, q, sync)
            Value(g, i) == IF i = 0 THEN base ELSE Turn(g[i - 1], <<p>>[i])
            read == CHOOSE g : g = [i \in 0..1 |-> Value(g, i)]
            h == [i \in 0..1 |-> IF i = 0 THEN base ELSE Turn(base, p)]
<1>1. ReadTraf(out, cells, moof, traf, sync) = read[1].out
  <2>1. Len(<<p>>) = 1
    OBVIOUS
  <2>. QED  BY <2>1 DEF ReadTraf
<1>. HIDE DEF base, Turn
<1>2. \A i \in 0..1 : i = 0 \/ (i = 1 /\ i - 1 = 0)
  OBVIOUS
<1>3. h[0] = base /\ h[1] = Turn(base, p) /\ <<p>>[1] = p
  OBVIOUS
<1>4. h = [i \in 0..1 |-> Value(h, i)]
  BY <1>2, <1>3
<1>5. read = [i \in 0..1 |-> Value(read, i)]
  <2>. HIDE DEF h, Value
  <2>. QED  BY <1>4
<1>. HIDE DEF read
<1>6. read[0] = base /\ read[1] = Turn(read[0], p)
  BY <1>3, <1>5
<1>. QED  BY <1>1, <1>6 DEF base, Turn

\* A moof with one traf, of track t.
LEMMA OneTraf ==
  ASSUME NEW out, NEW cells, NEW moof, NEW t, NEW p,
         Boxes(cells, "traf", moof + 1, moof + cells[moof].size - 1) = <<p>>,
         cells[p].track = t, Tracks[t] # "audio"
  PROVE  ReadMoof(out, cells, moof, t) = ReadTraf(out, cells, moof, p, FALSE)
<1>. DEFINE Turn(x, q) == ReadTraf(x, cells, moof, q, Tracks[t] = "audio")
            Value(g, i) == IF i = 0 THEN out
                           ELSE IF cells[<<p>>[i]].track # t THEN g[i - 1]
                           ELSE Turn(g[i - 1], <<p>>[i])
            read == CHOOSE g : g = [i \in 0..1 |-> Value(g, i)]
            h == [i \in 0..1 |-> IF i = 0 THEN out ELSE Turn(out, p)]
<1>1. ReadMoof(out, cells, moof, t) = read[1]
  <2>. DEFINE trafs == Boxes(cells, "traf", moof + 1, moof + cells[moof].size - 1)
              Reads(q) == CHOOSE g : g = [i \in 0..Len(q) |->
                            IF i = 0 THEN out
                            ELSE IF cells[q[i]].track # t THEN g[i - 1]
                            ELSE ReadTraf(g[i - 1], cells, moof, q[i], Tracks[t] = "audio")]
  <2>1. Len(<<p>>) = 1 /\ trafs = <<p>>
    OBVIOUS
  <2>2. ReadMoof(out, cells, moof, t) = Reads(trafs)[Len(trafs)]
    BY Zenon DEF ReadMoof
  <2>3. Reads(<<p>>) = read
    BY ONLY <2>1, Zenon
  <2>. HIDE DEF trafs, Reads, read
  <2>. QED  BY <2>1, <2>2, <2>3
<1>. HIDE DEF Turn
<1>2. \A i \in 0..1 : i = 0 \/ (i = 1 /\ i - 1 = 0)
  OBVIOUS
<1>3. h[0] = out /\ h[1] = Turn(out, p) /\ <<p>>[1] = p
  OBVIOUS
<1>4. h = [i \in 0..1 |-> Value(h, i)]
  BY <1>2, <1>3
<1>5. read = [i \in 0..1 |-> Value(read, i)]
  <2>. HIDE DEF h, Value
  <2>. QED  BY <1>4
<1>. HIDE DEF read
<1>6. read[0] = out /\ read[1] = Turn(read[0], p)
  BY <1>3, <1>5
<1>7. Turn(out, p) = ReadTraf(out, cells, moof, p, FALSE)
  <2>1. (Tracks[t] = "audio") = FALSE
    OBVIOUS
  <2>. QED  BY <2>1 DEF Turn
<1>. QED  BY <1>1, <1>6, <1>7

\* A file with one moof, and one with none.
LEMMA OneMoof ==
  ASSUME NEW cells, NEW t, NEW p, Boxes(cells, "moof", 1, Len(cells)) = <<p>>
  PROVE  Samples(cells, t) = ReadMoof(<<>>, cells, p, t)
<1>. DEFINE Turn(x, q) == ReadMoof(x, cells, q, t)
            Value(g, i) == IF i = 0 THEN <<>> ELSE Turn(g[i - 1], <<p>>[i])
            read == CHOOSE g : g = [i \in 0..1 |-> Value(g, i)]
            h == [i \in 0..1 |-> IF i = 0 THEN <<>> ELSE Turn(<<>>, p)]
<1>1. Samples(cells, t) = read[1]
  <2>1. Len(<<p>>) = 1
    OBVIOUS
  <2>. QED  BY <2>1 DEF Samples
<1>. HIDE DEF Turn
<1>2. \A i \in 0..1 : i = 0 \/ (i = 1 /\ i - 1 = 0)
  OBVIOUS
<1>3. h[0] = <<>> /\ h[1] = Turn(<<>>, p) /\ <<p>>[1] = p
  OBVIOUS
<1>4. h = [i \in 0..1 |-> Value(h, i)]
  BY <1>2, <1>3
<1>5. read = [i \in 0..1 |-> Value(read, i)]
  <2>. HIDE DEF h, Value
  <2>. QED  BY <1>4
<1>. HIDE DEF read
<1>6. read[0] = <<>> /\ read[1] = Turn(read[0], p)
  BY <1>3, <1>5
<1>. QED  BY <1>1, <1>6 DEF Turn

LEMMA NoMoof ==
  ASSUME NEW t
  PROVE  Samples(<<>>, t) = <<>>
<1>. DEFINE Value(g, moofs, i) == IF i = 0 THEN <<>> ELSE ReadMoof(g[i - 1], <<>>, moofs[i], t)
            read == CHOOSE g : g = [i \in 0..0 |-> Value(g, <<>>, i)]
            h == [i \in 0..0 |-> <<>>]
<1>1. Samples(<<>>, t) = read[0]
  <2>. DEFINE moofs == Boxes(<<>>, "moof", 1, Len(<<>>))
              Reads(q) == CHOOSE g : g = [i \in 0..Len(q) |-> Value(g, q, i)]
  <2>1. Len(<<>>) = 0 /\ moofs = <<>>
    BY NoBox
  <2>2. Samples(<<>>, t) = Reads(moofs)[Len(moofs)]
    BY Zenon DEF Samples
  <2>3. Reads(<<>>) = read
    BY ONLY <2>1, Zenon
  <2>. HIDE DEF moofs, Reads, read
  <2>. QED  BY <2>1, <2>2, <2>3
<1>2. \A i \in 0..0 : i = 0
  OBVIOUS
<1>3. h = [i \in 0..0 |-> Value(h, <<>>, i)]
  BY <1>2
<1>4. read = [i \in 0..0 |-> Value(read, <<>>, i)]
  <2>. HIDE DEF h, Value
  <2>. QED  BY <1>3
<1>. HIDE DEF read
<1>. QED  BY <1>1, <1>2, <1>4

\* The bytes of sample k are where the ones before it end.
LEMMA BytesRead ==
  ASSUME NEW cells, IsSequence(cells), NEW s, Input(s), NEW g, Sums(s, g),
         Media(cells, 7, s, g, Len(s)), NEW k \in 1..Len(s)
  PROVE  Content(cells, 7 + g[k - 1], s[k].bytes)
           = Data([bytes |-> s[k].bytes, first_chunk |-> s[k].sample])
<1>. DEFINE n == Len(s)
            from == 7 + g[k - 1]
            m == s[k].bytes
            x == [bytes |-> m, first_chunk |-> s[k].sample]
            c == SubSeq(cells, from, from + m - 1)
<1>1. n \in Nat /\ m \in Nat /\ g[k] = g[k - 1] + m /\ k - 1 \in 0..n /\ k \in 0..n
  BY SequenceIs DEF Input, Sums
<1>2. g[k - 1] \in Nat /\ g[k] \in Nat /\ g[n] \in Nat /\ g[k] <= g[n]
  BY <1>1, SumsGrow
<1>3. /\ Len(cells) = 6 + g[n] /\ Len(cells) \in Nat
      /\ \A j \in 1..m : cells[from + j - 1] = [box |-> "data", sample |-> s[k].sample, byte |-> j]
  <2>1. \A j \in 1..m :
          cells[7 + g[k - 1] + j - 1] = [box |-> "data", sample |-> s[k].sample, byte |-> j]
    BY DEF Media
  <2>2. Len(cells) = 7 + g[n] - 1
    BY DEF Media
  <2>. QED  BY <1>1, <1>2, <2>1, <2>2
<1>4. from \in Nat \ {0} /\ from + m - 1 \in Nat /\ from + m - 1 <= Len(cells)
      /\ from + m - 1 - from + 1 = m
  <2>. DEFINE a == g[k - 1]
              z == g[Len(s)]
  <2>1. m \in Nat /\ a \in Nat /\ z \in Nat /\ a + m <= z /\ Len(cells) = 6 + z /\ from = 7 + a
    BY <1>1, <1>2, <1>3
  <2>. HIDE DEF a, z, m, from
  <2>. QED  BY ONLY <2>1
<1>5. Content(cells, from, m) = c
  <2>. HIDE DEF from, m
  <2>. QED  BY <1>3, <1>4 DEF Content
<1>6. c = [j \in 1..m |-> cells[from + j - 1]]
  <2>. DEFINE S == {cells[i] : i \in from..from + m - 1}
              to == from + m - 1
  <2>1. from \in Int /\ to \in Int /\ (from <= to => to - from + 1 = m) /\ to - from + 1 = m
        /\ (~(from <= to) => m = 0) /\ \A i \in from..to : cells[i] \in S
    <3>. HIDE DEF m, from
    <3>. QED  BY <1>1, <1>4
  <2>2. /\ c \in Seq(S) /\ Len(c) = (IF from <= to THEN to - from + 1 ELSE 0)
        /\ \A i \in 1..to - from + 1 : c[i] = cells[from + i - 1]
    <3>. HIDE DEF m, from, S
    <3>. QED  BY <2>1, SubSeqProperties
  <2>. HIDE DEF S, from, m, to, c
  <2>3. Len(c) = m /\ \A i \in 1..m : c[i] = cells[from + i - 1]
    BY <2>1, <2>2
  <2>. QED  BY <2>2, <2>3
<1>7. Data(x) = [j \in 1..m |-> [box |-> "data", sample |-> s[k].sample, byte |-> j]]
  BY DEF Data
<1>. HIDE DEF from, m, c, x
<1>8. c = Data(x)
  BY <1>3, <1>6, <1>7
<1>. QED  BY <1>5, <1>8 DEF from, m, x

\* What has been read after the first k entries of the trun of s; the times, if the base
\* is one that can be read.
ReadSoFar(x, cells, s, g, k) ==
  /\ x.at = 7 + g[k] /\ x.n = k + 1
  /\ s[1].dts < WORD => x.end_dts = IF k < Len(s) THEN s[k + 1].dts ELSE s[Len(s)].dts
  /\ IsSequence(x.out) /\ Len(x.out) = k
  /\ \A i \in 1..k : /\ s[1].dts < WORD => x.out[i].dts = s[i].dts
                     /\ x.out[i].sync <=> i = 1
                     /\ x.out[i].data = Content(cells, 7 + g[i - 1], s[i].bytes)

\* One more.
LEMMA EntryRead ==
  ASSUME NEW cells, NEW s, Input(s), NEW g, Sums(s, g), NEW k \in 1..Len(s), NEW x,
         ReadSoFar(x, cells, s, g, k - 1),
         NEW y, y = ReadEntry(x, Durations(s)[k], cells, FALSE)
  PROVE  ReadSoFar(y, cells, s, g, k)
<1>. DEFINE n == Len(s)
            entry == Durations(s)[k]
            e == [dts |-> x.end_dts, sync |-> FALSE \/ x.n = 1,
                  data |-> Content(cells, x.at, entry.bytes)]
<1>1. /\ n \in Nat /\ k \in Nat /\ k - 1 < n /\ k - 1 + 1 = k /\ s[k].bytes \in Nat
      /\ g[k] = g[k - 1] + s[k].bytes /\ g[k - 1] \in Nat
      /\ \A i \in 1..n : s[i].dts \in Nat
  <2>1. n \in Nat
    BY SequenceIs DEF Input
  <2>2. k \in Nat /\ k - 1 < n /\ k - 1 + 1 = k /\ k - 1 \in 0..n
    BY <2>1
  <2>3. g[k - 1] \in Nat
    BY <2>2, SumsGrow
  <2>4. g[k] = g[k - 1] + s[k].bytes
    BY DEF Sums
  <2>5. s[k].bytes \in Nat /\ \A i \in 1..n : s[i].dts \in Nat
    BY DEF Input
  <2>. QED  BY <2>1, <2>2, <2>3, <2>4, <2>5
<1>2. entry.bytes = s[k].bytes
      /\ entry.duration = IF k < n THEN s[k + 1].dts - s[k].dts ELSE 0
  BY DEF Durations
<1>. HIDE DEF entry
<1>3. /\ y.at = x.at + entry.bytes /\ y.end_dts = x.end_dts + entry.duration
      /\ y.n = x.n + 1 /\ y.out = Append(x.out, e)
  BY DEF ReadEntry, entry
<1>4. /\ x.at = 7 + g[k - 1] /\ x.n = k /\ (s[1].dts < WORD => x.end_dts = s[k].dts)
      /\ IsSequence(x.out) /\ Len(x.out) = k - 1
      /\ \A i \in 1..k - 1 : /\ s[1].dts < WORD => x.out[i].dts = s[i].dts
                             /\ x.out[i].sync <=> i = 1
                             /\ x.out[i].data = Content(cells, 7 + g[i - 1], s[i].bytes)
  <2>1. /\ x.n = k - 1 + 1
        /\ s[1].dts < WORD => x.end_dts = IF k - 1 < n THEN s[k - 1 + 1].dts ELSE s[n].dts
    BY DEF ReadSoFar
  <2>2. x.n = k /\ (s[1].dts < WORD => x.end_dts = s[k].dts)
    BY <1>1, <2>1
  <2>. QED  BY <2>2 DEF ReadSoFar
<1>5. /\ s[1].dts < WORD => e.dts = s[k].dts
      /\ e.sync <=> k = 1
      /\ e.data = Content(cells, 7 + g[k - 1], s[k].bytes)
  BY <1>1, <1>2, <1>4
<1>. HIDE DEF e
<1>6. /\ IsSequence(y.out) /\ Len(y.out) = k /\ y.out[k] = e
      /\ \A i \in 1..k - 1 : y.out[i] = x.out[i]
  <2>1. PICK S : x.out \in Seq(S)
    BY <1>4 DEF IsSequence
  <2>. DEFINE T == S \cup {e}
              o == Append(x.out, e)
  <2>2. x.out \in Seq(T) /\ e \in T
    BY <2>1
  <2>. HIDE DEF T
  <2>3. /\ o \in Seq(T) /\ Len(o) = Len(x.out) + 1 /\ o[Len(x.out) + 1] = e
        /\ \A i \in 1..Len(x.out) : o[i] = x.out[i]
    BY <2>2, AppendProperties
  <2>. HIDE DEF o
  <2>4. Len(o) = k /\ o[k] = e /\ \A i \in 1..k - 1 : o[i] = x.out[i]
    BY <1>1, <1>4, <2>3
  <2>. QED  BY <1>3, <2>3, <2>4 DEF o, IsSequence
<1>7. y.at = 7 + g[k] /\ y.n = k + 1
  <2>. DEFINE a == g[k - 1]
              b == s[k].bytes
  <2>1. /\ a \in Nat /\ b \in Nat /\ k \in Nat /\ g[k] = a + b
        /\ y.at = 7 + a + b /\ y.n = k + 1
    <3>1. y.at = x.at + entry.bytes /\ y.n = x.n + 1
      BY <1>3
    <3>. QED  BY <1>1, <1>2, <1>4, <3>1
  <2>. HIDE DEF a, b
  <2>2. 7 + a + b = 7 + (a + b)
    BY <2>1
  <2>. QED  BY <2>1, <2>2
<1>8. ASSUME s[1].dts < WORD
      PROVE  y.end_dts = IF k < n THEN s[k + 1].dts ELSE s[n].dts
  <2>1. CASE k < n
    <3>1. k + 1 \in 1..n
      BY <1>1, <2>1
    <3>2. s[k + 1].dts \in Nat /\ s[k].dts \in Nat
      BY <1>1, <3>1
    <3>3. y.end_dts = s[k].dts + (s[k + 1].dts - s[k].dts)
      BY <1>2, <1>3, <1>4, <1>8, <2>1
    <3>4. s[k].dts + (s[k + 1].dts - s[k].dts) = s[k + 1].dts
      BY ONLY <3>2
    <3>. QED  BY <2>1, <3>3, <3>4
  <2>2. CASE ~(k < n)
    <3>1. k = n /\ s[k].dts \in Nat
      BY <1>1, <2>2
    <3>2. y.end_dts = s[k].dts + 0
      BY <1>2, <1>3, <1>4, <1>8, <2>2
    <3>3. s[k].dts + 0 = s[k].dts
      BY ONLY <3>1
    <3>. QED  BY <2>2, <3>1, <3>2, <3>3
  <2>. QED  BY <2>1, <2>2
<1>9. ASSUME NEW i \in 1..k
      PROVE  /\ s[1].dts < WORD => y.out[i].dts = s[i].dts
             /\ y.out[i].sync <=> i = 1
             /\ y.out[i].data = Content(cells, 7 + g[i - 1], s[i].bytes)
  <2>1. CASE i = k
    BY <1>5, <1>6, <2>1
  <2>2. CASE i # k
    <3>1. i \in 1..k - 1
      BY <1>1, <2>2
    <3>. QED  BY <1>4, <1>6, <3>1
  <2>. QED  BY <2>1, <2>2
<1>. QED  BY <1>6, <1>7, <1>8, <1>9 DEF ReadSoFar

\* A reader finds the samples of a segment.
LEMMA SegmentRead ==
  ASSUME NEW cells, NEW s, Input(s), s # <<>>, NEW g, Sums(s, g), Laid(cells, s, g),
         Tracks[1] = "video"
  PROVE  LET out == Samples(cells, 1)
         IN /\ Len(out) = Len(s)
            /\ \A k \in 1..Len(s) :
                 /\ s[1].dts < WORD => out[k].dts = s[k].dts
                 /\ out[k].sync <=> k = 1
                 /\ out[k].data = Data([bytes |-> s[k].bytes, first_chunk |-> s[k].sample])
<1>. DEFINE n == Len(s)
            out == Samples(cells, 1)
            m == Len(cells)
            base == [at |-> 0, n |-> 1, end_dts |-> ReadTfdt(cells[4]), out |-> <<>>]
            start == ReadFrom(base, 3 + cells[5].data_offset)
            last == ReadTrun(base, cells, 3, 5, FALSE)
<1>1. n \in Nat \ {0} /\ \A k \in 0..n : g[k] \in Nat
  BY SequenceIs, SumsGrow DEF Input
<1>2. /\ IsSequence(cells) /\ Headed(cells, s, g[n]) /\ Media(cells, 7, s, g, n)
  BY DEF Laid
<1>3. m = 6 + g[n] /\ g[n] \in Nat /\ m \in Nat
  <2>1. n \in 0..n
    BY <1>1
  <2>2. m = 7 + g[n] - 1
    BY <1>2 DEF Media
  <2>. QED  BY <1>1, <2>1, <2>2
<1>4. \A q \in 1..m : cells[q].box = "moof" <=> q = 3
  <2>. SUFFICES ASSUME NEW q \in 1..m PROVE cells[q].box = "moof" <=> q = 3
    OBVIOUS
  <2>1. CASE q \in 7..m
    <3>1. cells[q].box = "data"
      BY <1>2, <2>1 DEF Media
    <3>. QED  BY <2>1, <3>1
  <2>2. CASE q \notin 7..m
    <3>1. q \in {1, 2, 3, 4, 5, 6}
      BY <1>3, <2>2
    <3>. QED  BY <1>2, <3>1 DEF Headed
  <2>. QED  BY <2>1, <2>2
<1>5. Boxes(cells, "moof", 1, m) = <<3>>
  <2>1. 3 \in 1..m /\ 1 \in Nat \ {0}
    BY <1>3
  <2>. HIDE DEF m
  <2>. QED  BY <1>3, <1>4, <2>1, OneBox
<1>6. Boxes(cells, "traf", 3 + 1, 3 + cells[3].size - 1) = <<4>>
  <2>1. 3 + 1 = 4 /\ 3 + cells[3].size - 1 = 5
    BY <1>2 DEF Headed
  <2>2. ASSUME NEW q \in 4..5
        PROVE  cells[q].box = "traf" <=> q = 4
    <3>1. q \in {4, 5}
      OBVIOUS
    <3>. QED  BY <1>2, <3>1 DEF Headed
  <2>3. Boxes(cells, "traf", 4, 5) = <<4>>
    <3>. DEFINE box == "traf"
                from == 4
                to == 5
    <3>1. /\ from \in Nat \ {0} /\ to \in Nat /\ from \in from..to
          /\ \A q \in from..to : cells[q].box = box <=> q = from
      BY <2>2
    <3>. HIDE DEF box, from, to
    <3>2. Boxes(cells, box, from, to) = <<from>>
      BY ONLY <3>1, OneBox
    <3>. QED  BY <3>2 DEF box, from, to
  <2>. QED  BY <2>1, <2>3
<1>7. Boxes(cells, "trun", 4 + 1, 4 + cells[4].size - 1) = <<5>>
  <2>1. 4 + 1 = 5 /\ 4 + cells[4].size - 1 = 5
    BY <1>2 DEF Headed
  <2>2. ASSUME NEW q \in 5..5
        PROVE  cells[q].box = "trun" <=> q = 5
    <3>1. q = 5
      OBVIOUS
    <3>. QED  BY <1>2, <3>1 DEF Headed
  <2>3. Boxes(cells, "trun", 5, 5) = <<5>>
    <3>. DEFINE box == "trun"
                from == 5
                to == 5
    <3>1. /\ from \in Nat \ {0} /\ to \in Nat /\ from \in from..to
          /\ \A q \in from..to : cells[q].box = box <=> q = from
      BY <2>2
    <3>. HIDE DEF box, from, to
    <3>2. Boxes(cells, box, from, to) = <<from>>
      BY ONLY <3>1, OneBox
    <3>. QED  BY <3>2 DEF box, from, to
  <2>. QED  BY <2>1, <2>3
<1>8. out = last.out
  <2>1. out = ReadMoof(<<>>, cells, 3, 1)
    BY <1>5, OneMoof
  <2>2. cells[4].track = 1
    BY <1>2 DEF Headed
  <2>3. ReadMoof(<<>>, cells, 3, 1) = ReadTraf(<<>>, cells, 3, 4, FALSE)
    <3>. DEFINE out0 == <<>>
                moof == 3
                traf == 4
                t == 1
    <3>1. /\ Tracks[t] # "audio"
          /\ Boxes(cells, "traf", moof + 1, moof + cells[moof].size - 1) = <<traf>>
          /\ cells[traf].track = t
      BY <1>6, <2>2
    <3>. HIDE DEF out0, moof, traf, t
    <3>2. ReadMoof(out0, cells, moof, t) = ReadTraf(out0, cells, moof, traf, FALSE)
      BY ONLY <3>1, OneTraf
    <3>. QED  BY <3>2 DEF out0, moof, traf, t
  <2>5. ReadTraf(<<>>, cells, 3, 4, FALSE) = last.out
    <3>. DEFINE out0 == <<>>
                moof == 3
                traf == 4
                trun == 5
                sync == FALSE
                from == [at |-> 0, n |-> 1, end_dts |-> ReadTfdt(cells[traf]),
                         out |-> out0]
    <3>1. Boxes(cells, "trun", traf + 1, traf + cells[traf].size - 1) = <<trun>>
      BY <1>7
    <3>. HIDE DEF out0, moof, traf, trun, sync
    <3>2. ReadTraf(out0, cells, moof, traf, sync) = ReadTrun(from, cells, moof, trun, sync).out
      BY ONLY <3>1, OneTrun
    <3>. QED  BY <3>2 DEF out0, moof, traf, trun, sync
  <2>. HIDE DEF last, out
  <2>. QED  BY <2>1, <2>3, <2>5
<1>. DEFINE run == cells[5].run
<1>9. run = Durations(s) /\ Len(run) = n /\ cells[5].data_offset = 4 /\ cells[4].tfdt = s[1].dts
  <2>1. run = Durations(s) /\ cells[5].data_offset = 4 /\ cells[4].tfdt = s[1].dts
    BY <1>2 DEF Headed
  <2>2. Len(Durations(s)) = n
    BY <1>1 DEF Durations
  <2>. QED  BY <2>1, <2>2
<1>10. PICK h : /\ h[0] = start
                /\ \A k \in 1..Len(run) : h[k] = ReadEntry(h[k - 1], run[k], cells, FALSE)
                /\ last = h[Len(run)]
  <2>. DEFINE r == run
              moof == 3
              trun == 5
              sync == FALSE
  <2>1. r = cells[trun].run /\ Len(r) \in Nat
    BY <1>1, <1>9
  <2>. HIDE DEF base, r, moof, trun, sync
  <2>2. \E h : /\ h[0] = ReadFrom(base, moof + cells[trun].data_offset)
               /\ \A k \in 1..Len(r) : h[k] = ReadEntry(h[k - 1], r[k], cells, sync)
               /\ ReadTrun(base, cells, moof, trun, sync) = h[Len(r)]
    BY ONLY <2>1, ReadTrunIs
  <2>. QED  BY <2>2 DEF r, moof, trun, sync
<1>. HIDE DEF last, out, run
<1>11. ReadSoFar(h[0], cells, s, g, 0)
  <2>1. /\ h[0].at = 7 /\ h[0].n = 1 /\ h[0].end_dts = ReadTfdt(cells[4]) /\ h[0].out = <<>>
    BY <1>9, <1>10 DEF ReadFrom
  <2>4. s[1].dts < WORD => h[0].end_dts = s[1].dts
    BY <1>9, <2>1 DEF ReadTfdt, r64
  <2>2. IsSequence(<<>>) /\ Len(<<>>) = 0
    BY DEF IsSequence
  <2>3. g[0] = 0 /\ 0 < n
    BY <1>1 DEF Sums
  <2>. QED  BY <2>1, <2>2, <2>3, <2>4 DEF ReadSoFar
<1>12. ReadSoFar(h[n], cells, s, g, n)
  <2>. DEFINE P == {k \in 0..n : ReadSoFar(h[k], cells, s, g, k)}
  <2>1. 0 \in P
    BY <1>1, <1>11
  <2>2. ASSUME NEW k \in 0..n - 1, k \in P
        PROVE  k + 1 \in P
    <3>. DEFINE i == k + 1
    <3>1. i \in 1..n /\ i - 1 = k /\ i \in 0..n
      BY <1>1
    <3>2. ReadSoFar(h[i - 1], cells, s, g, i - 1)
      BY <2>2, <3>1
    <3>3. h[i] = ReadEntry(h[i - 1], Durations(s)[i], cells, FALSE)
      BY <1>9, <1>10, <3>1
    <3>. HIDE DEF i
    <3>4. ReadSoFar(h[i], cells, s, g, i)
      BY <3>1, <3>2, <3>3, EntryRead
    <3>5. i \in P
      BY <3>1, <3>4
    <3>. QED  BY <3>5 DEF i
  <2>. HIDE DEF P, n
  <2>3. \A k \in 0..n : k \in P
    BY <1>1, <2>1, <2>2, UpTo
  <2>. QED  BY <1>1, <2>3 DEF P
<1>13. out = h[n].out
  BY <1>8, <1>9, <1>10
<1>14. ASSUME NEW k \in 1..n
       PROVE  /\ s[1].dts < WORD => out[k].dts = s[k].dts
              /\ out[k].sync <=> k = 1
              /\ out[k].data = Data([bytes |-> s[k].bytes, first_chunk |-> s[k].sample])
  <2>1. /\ s[1].dts < WORD => out[k].dts = s[k].dts
        /\ out[k].sync <=> k = 1
        /\ out[k].data = Content(cells, 7 + g[k - 1], s[k].bytes)
    BY <1>12, <1>13 DEF ReadSoFar
  <2>2. Content(cells, 7 + g[k - 1], s[k].bytes)
          = Data([bytes |-> s[k].bytes, first_chunk |-> s[k].sample])
    BY <1>2, BytesRead
  <2>. QED  BY <2>1, <2>2
<1>. QED  BY <1>12, <1>13, <1>14 DEF ReadSoFar, out, n

------------------------------------------------------------------------------
(* Writing a segment.                                                       *)

\* A write of one cell.
LEMMA PutOne ==
  ASSUME NEW b, IsBuffer(b), NEW cell
  PROVE  LET c == Put(b, <<cell>>)
         IN /\ IsBuffer(c)
            /\ ~c.error =>
                 /\ ~b.error /\ Len(b.cells) \in Nat /\ Len(c.cells) = Len(b.cells) + 1
                 /\ \A i \in 1..Len(b.cells) : c.cells[i] = b.cells[i]
                 /\ c.cells[Len(b.cells) + 1] = cell
<1>. DEFINE new == <<cell>>
            c == Put(b, new)
            d == b.cells \o new
<1>1. IsSequence(new) /\ Len(new) = 1 /\ new[1] = cell
  <2>1. new \in Seq({cell}) /\ Len(new) = 1 /\ new[1] = cell
    OBVIOUS
  <2>. HIDE DEF new
  <2>. QED  BY <2>1 DEF IsSequence
<1>. HIDE DEF new
<1>2. IsBuffer(c) /\ (~c.error => ~b.error /\ c.cells = d)
  BY <1>1, PutDoes
<1>3. Len(b.cells) \in Nat
  BY SequenceIs DEF IsBuffer
<1>4. /\ Len(d) = Len(b.cells) + Len(new)
      /\ \A i \in 1..Len(b.cells) : d[i] = b.cells[i]
      /\ \A i \in 1..Len(new) : d[Len(b.cells) + i] = new[i]
  <2>. DEFINE p == b.cells
  <2>1. IsSequence(p) /\ d = p \o new
    BY DEF IsBuffer
  <2>. HIDE DEF p, d
  <2>2. /\ Len(d) = Len(p) + Len(new)
        /\ \A i \in 1..Len(p) : d[i] = p[i]
        /\ \A i \in 1..Len(new) : d[Len(p) + i] = new[i]
    <3>1. IsSequence(new)
      BY <1>1
    <3>. QED  BY ONLY <2>1, <3>1, Joint
  <2>. QED  BY <2>1, <2>2 DEF p
<1>5. d[Len(b.cells) + 1] = cell /\ Len(d) = Len(b.cells) + 1
  BY <1>1, <1>4
<1>. HIDE DEF c, d
<1>. QED  BY <1>2, <1>3, <1>4, <1>5 DEF c, new

\* A table whose samples are all in the first cluster.
OneCluster(s) == s \in Seq(Sample) /\ s # <<>> /\ s[1].samples_per_chunk = Len(s)

LEMMA ClustersOfOne ==
  ASSUME NEW s, OneCluster(s)
  PROVE  /\ Clusters(s) = <<1>> /\ Len(Clusters(s)) = 1 /\ Clusters(s)[1] = 1
         /\ Len(s) \in Nat \ {0}
<1>1. s \in Seq(Sample) /\ s # <<>> /\ s[1].samples_per_chunk = Len(s) /\ Len(s) \in Nat \ {0}
  BY DEF OneCluster
<1>2. PICK q : Walks(s, 1, q) /\ Clusters(s) = q[1]
  BY <1>1, ClustersAre
<1>3. q[1] = After(s, 1, q)
  BY <1>1, <1>2 DEF Walks
<1>4. After(s, 1, q) = <<1>> \o <<>>
  <2>. DEFINE next == 1 + s[1].samples_per_chunk
  <2>1. next # 1 /\ ~(next <= Len(s))
    BY <1>1
  <2>2. After(s, 1, q) = IF next = 1 THEN <<>>
                         ELSE <<1>> \o (IF next <= Len(s) THEN q[next] ELSE <<>>)
    BY DEF After
  <2>. HIDE DEF next
  <2>. QED  BY <2>1, <2>2
<1>5. <<1>> \o <<>> = <<1>> /\ Len(<<1>>) = 1 /\ <<1>>[1] = 1
  OBVIOUS
<1>. QED  BY <1>1, <1>2, <1>3, <1>4, <1>5

\* Buffer c is b with n more cells, unless a write has failed.
Behind(b, c, n) == /\ IsBuffer(c)
                   /\ ~c.error => /\ ~b.error /\ Len(c.cells) = Len(b.cells) + n
                                  /\ \A i \in 1..Len(b.cells) : c.cells[i] = b.cells[i]

\* The traf of that track at a, and its trun.
TrafOfOne(cells, a, s) ==
  /\ cells[a].box = "traf" /\ cells[a].track = 1 /\ cells[a].size = 2 /\ cells[a].tfdt = s[1].dts
  /\ cells[a + 1].box = "trun" /\ cells[a + 1].run = Run(s, 1)
  /\ {"box", "run", "data_offset"} \subseteq DOMAIN cells[a + 1]

LEMMA WriteTrafOfOne ==
  ASSUME NEW m, NEW tracks, Work(m, tracks), Len(tracks) = 1,
         NEW s, s = m.tracks[1].samples, OneCluster(s), NEW r, r = WriteTraf(m, 1)
  PROVE  /\ Work(r, tracks) /\ Behind(m.b, r.b, 2)
         /\ ~r.b.error => /\ TrafOfOne(r.b.cells, Len(m.b.cells) + 1, s)
                          /\ r.tracks[1].samples[1].offset = Len(m.b.cells) + 2
<1>. DEFINE a == Len(m.b.cells)
            traf == Traf(1, s)
            trun == [box |-> "trun", data_offset |-> 0, run |-> Run(s, 1)]
            at == Tell(m.b)
<1>0. Work(r, tracks)
  <2>. DEFINE t == 1
  <2>1. t \in 1..Len(tracks) /\ r = WriteTraf(m, t)
    OBVIOUS
  <2>. HIDE DEF t
  <2>2. Wrote(m, WriteTraf(m, t), tracks, {"traf", "trun"})
    BY ONLY <2>1, Work(m, tracks), WriteTrafDoes
  <2>. QED  BY <2>1, <2>2 DEF Wrote
<1>1. /\ DOMAIN m = {"b", "tracks"} /\ IsBuffer(m.b) /\ IsSequence(m.tracks) /\ Len(m.tracks) = 1
      /\ DOMAIN m.tracks = {1} /\ "samples" \in DOMAIN m.tracks[1] /\ a \in Nat
  <2>1. 1 \in 1..Len(tracks)
    OBVIOUS
  <2>2. /\ DOMAIN m = {"b", "tracks"} /\ IsBuffer(m.b) /\ IsSequence(m.tracks)
        /\ Len(m.tracks) = 1 /\ "samples" \in DOMAIN m.tracks[1]
    BY <2>1 DEF Work
  <2>3. DOMAIN m.tracks = 1..1 /\ a \in Nat
    BY <2>2, SequenceIs DEF IsBuffer
  <2>4. 1..1 = {1}
    OBVIOUS
  <2>. QED  BY <2>2, <2>3, <2>4
<1>2. Clusters(s) = <<1>> /\ Len(Clusters(s)) = 1 /\ Clusters(s)[1] = 1 /\ Len(s) \in Nat \ {0}
      /\ s \in Seq(Sample)
  BY ClustersOfOne DEF OneCluster
<1>3. PICK g : /\ g[0] = Begun(m, traf) /\ g[1] = WriteTrun(g[0], 1, 1) /\ r = Sized(g[1], at)
  <2>. DEFINE t == 1
              heads == Clusters(s)
  <2>1. /\ s = m.tracks[t].samples /\ s # <<>> /\ heads = Clusters(s) /\ Len(heads) \in Nat
    BY <1>2 DEF OneCluster
  <2>. HIDE DEF t
  <2>2. \E g : /\ g[0] = Begun(m, Traf(t, s))
               /\ \A k \in 1..Len(heads) : g[k] = WriteTrun(g[k - 1], t, heads[k])
               /\ WriteTraf(m, t) = Sized(g[Len(heads)], Tell(m.b))
    BY ONLY <2>1, WriteTrafIs
  <2>3. PICK g : /\ g[0] = Begun(m, Traf(t, s))
                 /\ \A k \in 1..Len(heads) : g[k] = WriteTrun(g[k - 1], t, heads[k])
                 /\ WriteTraf(m, t) = Sized(g[Len(heads)], Tell(m.b))
    BY <2>2
  <2>4. 1 \in 1..Len(heads) /\ 1 - 1 = 0 /\ heads[1] = 1 /\ Len(heads) = 1
    BY <1>2
  <2>. HIDE DEF heads
  <2>5. g[1] = WriteTrun(g[1 - 1], t, heads[1])
    BY <2>3, <2>4
  <2>. QED  BY <2>3, <2>4, <2>5 DEF t
<1>. DEFINE b0 == Put(m.b, <<traf>>)
            b1 == Put(b0, <<trun>>)
            b2 == Patch(b1, at, "size", Tell(b1) - at)
            q == [m.tracks EXCEPT ![1].samples[1].offset = Tell(b0)]
<1>4. DOMAIN g[0] = {"b", "tracks"} /\ g[0].b = b0 /\ g[0].tracks = m.tracks
  BY <1>1, <1>3 DEF Begun
<1>5. g[1] = [b |-> b1, tracks |-> q]
  BY <1>3, <1>4 DEF WriteTrun
<1>6. r.b = b2 /\ r.tracks = q
  BY <1>3, <1>5 DEF Sized
<1>7. /\ IsBuffer(b0)
      /\ ~b0.error => /\ ~m.b.error /\ Len(b0.cells) = a + 1
                      /\ \A i \in 1..a : b0.cells[i] = m.b.cells[i]
                      /\ b0.cells[a + 1] = traf
  <2>. HIDE DEF traf
  <2>. QED  BY <1>1, PutOne
<1>8. /\ IsBuffer(b1)
      /\ ~b1.error => /\ ~b0.error /\ Len(b1.cells) = Len(b0.cells) + 1
                      /\ \A i \in 1..Len(b0.cells) : b1.cells[i] = b0.cells[i]
                      /\ b1.cells[Len(b0.cells) + 1] = trun
  <2>. HIDE DEF trun, b0
  <2>. QED  BY <1>7, PutOne
<1>9. /\ IsBuffer(b2)
      /\ ~b2.error =>
           /\ ~b1.error /\ Len(b2.cells) = Len(b1.cells)
           /\ \A i \in 1..Len(b1.cells) \ {at} : b2.cells[i] = b1.cells[i]
           /\ at \in 1..Len(b1.cells) =>
                /\ DOMAIN b2.cells[at] = DOMAIN b1.cells[at]
                /\ \A f \in DOMAIN b1.cells[at] \ {"size"} : b2.cells[at][f] = b1.cells[at][f]
                /\ "size" \in DOMAIN b1.cells[at] => b2.cells[at]["size"] = Tell(b1) - at
  <2>. HIDE DEF b1
  <2>. QED  BY <1>8, PatchDoes
<1>10. at = a + 1
  BY DEF Tell
<1>11. ASSUME ~b2.error
       PROVE  /\ ~m.b.error /\ Len(b2.cells) = a + 2
              /\ \A i \in 1..a : b2.cells[i] = m.b.cells[i]
              /\ TrafOfOne(b2.cells, a + 1, s)
              /\ Tell(b0) = a + 2
  <2>. HIDE DEF b0, b1, b2, traf, trun, at, a
  <2>1. /\ ~m.b.error /\ ~b0.error /\ ~b1.error
        /\ Len(b0.cells) = a + 1 /\ Len(b1.cells) = a + 2 /\ Len(b2.cells) = a + 2
    BY <1>1, <1>7, <1>8, <1>9, <1>11
  <2>2. \A i \in 1..a : b2.cells[i] = m.b.cells[i]
    <3>. SUFFICES ASSUME NEW i \in 1..a PROVE b2.cells[i] = m.b.cells[i]
      OBVIOUS
    <3>1. i \in 1..a + 1 /\ i \in 1..a + 2 /\ i # at
      BY <1>1, <1>10
    <3>. QED  BY <1>7, <1>8, <1>9, <1>11, <2>1, <3>1
  <2>3. b2.cells[a + 2] = trun
    <3>1. a + 2 \in 1..a + 2 /\ a + 2 # at /\ a + 1 + 1 = a + 2
      BY <1>1, <1>10
    <3>. QED  BY <1>8, <1>9, <1>11, <2>1, <3>1
  <2>4. Tell(b1) - at = 2 /\ Tell(b0) = a + 2
    <3>1. Tell(b1) = a + 2 + 1 /\ Tell(b0) = a + 1 + 1
      BY <2>1 DEF Tell
    <3>. QED  BY <1>1, <1>10, <3>1
  <2>5. b1.cells[at] = traf /\ at \in 1..Len(b1.cells) /\ at \in 1..Len(b0.cells)
    BY <1>1, <1>7, <1>8, <1>10, <2>1
  <2>. DEFINE x == b2.cells[at]
  <2>6. /\ DOMAIN x = DOMAIN traf /\ \A f \in DOMAIN traf \ {"size"} : x[f] = traf[f]
        /\ "size" \in DOMAIN traf => x["size"] = 2
    BY <1>9, <1>11, <2>4, <2>5
  <2>. HIDE DEF x
  <2>7. x.box = "traf" /\ x.track = 1 /\ x.size = 2 /\ x.tfdt = s[1].dts
    BY <2>6 DEF traf, Traf
  <2>8. a + 1 + 1 = a + 2
    BY <1>1
  <2>. QED  BY <1>10, <2>1, <2>2, <2>3, <2>4, <2>7, <2>8 DEF TrafOfOne, trun, x
<1>12. q[1].samples[1].offset = Tell(b0)
  <2>. DEFINE o == Tell(b0)
              y == [s[1] EXCEPT !.offset = o]
              z == [s EXCEPT ![1] = y]
              v == [m.tracks[1] EXCEPT !.samples = z]
  <2>1. q = [m.tracks EXCEPT ![1] = v]
    <3>. HIDE DEF o
    <3>. QED  BY DEF o
  <2>2. s[1] \in Sample /\ DOMAIN s = 1..Len(s) /\ 1 \in 1..Len(s)
    BY <1>2
  <2>3. y.offset = o
    <3>. HIDE DEF o
    <3>. QED  BY <2>2 DEF Sample
  <2>. HIDE DEF y, o
  <2>4. z[1] = y
    BY <2>2
  <2>. HIDE DEF z
  <2>5. v.samples = z
    BY <1>1
  <2>. HIDE DEF v, q
  <2>6. q[1] = v
    BY <1>1, <2>1
  <2>. QED  BY <2>3, <2>4, <2>5, <2>6 DEF o
<1>. HIDE DEF b2, q, b0, b1
<1>. QED  BY <1>0, <1>6, <1>9, <1>11, <1>12 DEF Behind, a

\* The moof of one track at a.
MoofOfOne(cells, a, s) ==
  /\ cells[a].box = "moof" /\ cells[a].size = 3 /\ TrafOfOne(cells, a + 1, s)

LEMMA WriteMoofOfOne ==
  ASSUME NEW m, NEW tracks, Work(m, tracks), Len(tracks) = 1,
         NEW s, s = m.tracks[1].samples, OneCluster(s), NEW id, NEW r, r = WriteMoof(m, id)
  PROVE  /\ Work(r, tracks) /\ Behind(m.b, r.b, 3)
         /\ ~r.b.error => /\ MoofOfOne(r.b.cells, Len(m.b.cells) + 1, s)
                          /\ r.tracks[1].samples[1].offset = Len(m.b.cells) + 3
<1>. DEFINE a == Len(m.b.cells)
            moof == Moof(id)
            at == Tell(m.b)
<1>0. Work(r, tracks)
  BY WriteMoofDoes DEF Wrote
<1>1. /\ DOMAIN m = {"b", "tracks"} /\ IsBuffer(m.b) /\ Len(m.tracks) = 1 /\ a \in Nat
  BY SequenceIs DEF Work, IsBuffer
<1>2. PICK g : /\ g[0] = Begun(m, moof) /\ g[1] = WriteTraf(g[0], 1) /\ r = Sized(g[1], at)
  <2>1. PICK g : /\ g[0] = Begun(m, Moof(id))
                 /\ \A t \in 1..Len(m.tracks) : g[t] = WriteTraf(g[t - 1], t)
                 /\ WriteMoof(m, id) = Sized(g[Len(m.tracks)], Tell(m.b))
    <3>1. Len(m.tracks) \in Nat
      BY <1>1
    <3>2. \E g : /\ g[0] = Begun(m, Moof(id))
                 /\ \A t \in 1..Len(m.tracks) : g[t] = WriteTraf(g[t - 1], t)
                 /\ WriteMoof(m, id) = Sized(g[Len(m.tracks)], Tell(m.b))
      BY ONLY <3>1, WriteMoofIs
    <3>. QED  BY <3>2
  <2>2. 1 \in 1..Len(m.tracks) /\ 1 - 1 = 0
    BY <1>1
  <2>3. g[1] = WriteTraf(g[1 - 1], 1)
    BY <2>1, <2>2
  <2>. QED  BY <1>1, <2>1, <2>2, <2>3
<1>. DEFINE b0 == Put(m.b, <<moof>>)
            b1 == g[1].b
            b2 == Patch(b1, at, "size", Tell(b1) - at)
<1>3. DOMAIN g[0] = {"b", "tracks"} /\ g[0].b = b0 /\ g[0].tracks = m.tracks
  BY <1>1, <1>2 DEF Begun
<1>4. Work(g[0], tracks)
  <2>1. "box" \in DOMAIN moof
    BY DEF Moof
  <2>. HIDE DEF moof
  <2>2. Wrote(m, Begun(m, moof), tracks, {moof.box})
    BY <2>1, BegunDoes
  <2>. QED  BY <1>2, <2>2 DEF Wrote
<1>5. /\ IsBuffer(b0)
      /\ ~b0.error => /\ ~m.b.error /\ Len(b0.cells) = a + 1
                      /\ \A i \in 1..a : b0.cells[i] = m.b.cells[i]
                      /\ b0.cells[a + 1] = moof
  <2>. HIDE DEF moof
  <2>. QED  BY <1>1, PutOne
<1>. HIDE DEF b0
<1>6. /\ Work(g[1], tracks) /\ Behind(b0, b1, 2)
      /\ ~b1.error => /\ TrafOfOne(b1.cells, Len(b0.cells) + 1, s)
                      /\ g[1].tracks[1].samples[1].offset = Len(b0.cells) + 2
  <2>. DEFINE x == g[0]
              y == g[1]
  <2>1. Work(x, tracks) /\ s = x.tracks[1].samples /\ y = WriteTraf(x, 1) /\ Len(tracks) = 1
        /\ OneCluster(s) /\ x.b = b0
    BY <1>2, <1>3, <1>4
  <2>. HIDE DEF x, y
  <2>2. /\ Work(y, tracks) /\ Behind(x.b, y.b, 2)
        /\ ~y.b.error => /\ TrafOfOne(y.b.cells, Len(x.b.cells) + 1, s)
                         /\ y.tracks[1].samples[1].offset = Len(x.b.cells) + 2
    BY ONLY <2>1, WriteTrafOfOne
  <2>. QED  BY <2>1, <2>2 DEF y
<1>7. r.b = b2 /\ r.tracks = g[1].tracks
  <2>1. DOMAIN g[1] = {"b", "tracks"}
    BY <1>6 DEF Work
  <2>. QED  BY <1>2, <2>1 DEF Sized
<1>8. /\ IsBuffer(b2)
      /\ ~b2.error =>
           /\ ~b1.error /\ Len(b2.cells) = Len(b1.cells)
           /\ \A i \in 1..Len(b1.cells) \ {at} : b2.cells[i] = b1.cells[i]
           /\ at \in 1..Len(b1.cells) =>
                /\ DOMAIN b2.cells[at] = DOMAIN b1.cells[at]
                /\ \A f \in DOMAIN b1.cells[at] \ {"size"} : b2.cells[at][f] = b1.cells[at][f]
                /\ "size" \in DOMAIN b1.cells[at] => b2.cells[at]["size"] = Tell(b1) - at
  <2>1. IsBuffer(b1)
    BY <1>6 DEF Behind
  <2>. HIDE DEF b1
  <2>. QED  BY <2>1, PatchDoes
<1>9. at = a + 1
  BY DEF Tell
<1>10. ASSUME ~b2.error
       PROVE  /\ ~m.b.error /\ Len(b2.cells) = a + 3
              /\ \A i \in 1..a : b2.cells[i] = m.b.cells[i]
              /\ MoofOfOne(b2.cells, a + 1, s)
              /\ r.tracks[1].samples[1].offset = a + 3
  <2>. HIDE DEF b0, b1, b2, moof, at, a
  <2>1. /\ ~m.b.error /\ ~b0.error /\ ~b1.error
        /\ Len(b0.cells) = a + 1 /\ Len(b1.cells) = a + 1 + 2
        /\ \A i \in 1..a + 1 : b1.cells[i] = b0.cells[i]
    BY <1>5, <1>6, <1>8, <1>10 DEF Behind
  <2>2. a + 1 + 2 = a + 3 /\ a + 1 + 1 = a + 2
    BY <1>1
  <2>3. \A i \in 1..a : b2.cells[i] = m.b.cells[i]
    <3>. SUFFICES ASSUME NEW i \in 1..a PROVE b2.cells[i] = m.b.cells[i]
      OBVIOUS
    <3>1. i \in 1..a + 1 /\ i \in 1..a + 3 /\ i # at
      BY <1>1, <1>9
    <3>. QED  BY <1>5, <1>8, <1>10, <2>1, <2>2, <3>1
  <2>4. TrafOfOne(b1.cells, a + 2, s)
    BY <1>6, <2>1, <2>2
  <2>5. b2.cells[a + 2] = b1.cells[a + 2] /\ b2.cells[a + 2 + 1] = b1.cells[a + 2 + 1]
    <3>1. a + 2 \in 1..a + 3 /\ a + 2 + 1 \in 1..a + 3 /\ a + 2 # at /\ a + 2 + 1 # at
      BY <1>1, <1>9
    <3>. QED  BY <1>8, <1>10, <2>1, <2>2, <3>1
  <2>6. TrafOfOne(b2.cells, a + 1 + 1, s)
    BY <2>2, <2>4, <2>5 DEF TrafOfOne
  <2>7. Tell(b1) - at = 3
    <3>1. Tell(b1) = a + 3 + 1
      BY <2>1, <2>2 DEF Tell
    <3>. QED  BY <1>1, <1>9, <3>1
  <2>8. b1.cells[at] = moof /\ at \in 1..Len(b1.cells) /\ at \in 1..Len(b0.cells)
    <3>1. at \in 1..a + 1 /\ at \in 1..a + 3
      BY <1>1, <1>9
    <3>. QED  BY <1>5, <1>9, <2>1, <2>2, <3>1
  <2>. DEFINE x == b2.cells[at]
  <2>9. /\ DOMAIN x = DOMAIN moof /\ \A f \in DOMAIN moof \ {"size"} : x[f] = moof[f]
        /\ "size" \in DOMAIN moof => x["size"] = 3
    BY <1>8, <1>10, <2>7, <2>8
  <2>. HIDE DEF x
  <2>10. x.box = "moof" /\ x.size = 3
    BY <2>9 DEF moof, Moof
  <2>11. r.tracks[1].samples[1].offset = a + 3
    BY <1>1, <1>6, <1>7, <2>1, <2>2
  <2>12. Len(b2.cells) = a + 3
    BY <1>8, <1>10, <2>1, <2>2
  <2>. QED  BY <1>9, <2>1, <2>3, <2>6, <2>10, <2>11, <2>12 DEF MoofOfOne, x
<1>. HIDE DEF b2, b1
<1>. QED  BY <1>0, <1>7, <1>8, <1>10 DEF Behind, a

\* Samples s of a table as the writer was given them.
Takes(s, acc) ==
  /\ Len(s) = Len(acc)
  /\ \A k \in 1..Len(s) : /\ s[k].first_chunk = acc[k].sample /\ s[k].bytes = acc[k].bytes
                          /\ s[k].dts = acc[k].dts

LEMMA TakesInput ==
  ASSUME NEW s \in Seq(Sample), NEW acc, IsSequence(acc), Takes(s, acc)
  PROVE  Input(acc) /\ Durations(acc) = [k \in 1..Len(s) |->
           [duration |-> IF k < Len(s) THEN s[k + 1].dts - s[k].dts ELSE 0, bytes |-> s[k].bytes]]
<1>. DEFINE n == Len(s)
<1>1. n \in Nat /\ Len(acc) = n
      /\ \A k \in 1..n : /\ s[k] \in Sample /\ acc[k].bytes = s[k].bytes /\ acc[k].dts = s[k].dts
  BY DEF Takes
<1>2. \A k \in 1..n : acc[k].bytes \in Nat /\ acc[k].dts \in Nat
  BY <1>1 DEF Sample
<1>3. ASSUME NEW k \in 1..n
      PROVE  (IF k < n THEN acc[k + 1].dts - acc[k].dts ELSE 0)
               = (IF k < n THEN s[k + 1].dts - s[k].dts ELSE 0)
  <2>1. k < n => k + 1 \in 1..n
    BY <1>1
  <2>. HIDE DEF n
  <2>. QED  BY <1>1, <2>1
<1>. HIDE DEF n
<1>4. Durations(acc) = [k \in 1..n |->
           [duration |-> IF k < n THEN s[k + 1].dts - s[k].dts ELSE 0, bytes |-> s[k].bytes]]
  BY <1>1, <1>3 DEF Durations
<1>. QED  BY <1>1, <1>2, <1>4 DEF Input, n

\* The bytes of one more sample go behind those of the ones before.
LEMMA OneSampleMore ==
  ASSUME NEW b, IsBuffer(b), NEW s \in Seq(Sample), NEW acc, IsSequence(acc), Takes(s, acc),
         NEW g, Sums(acc, g), NEW k \in 1..Len(s),
         NEW c, Behind(b, c, g[k - 1]),
         ~c.error => Media(c.cells, Len(b.cells) + 1, acc, g, k - 1),
         NEW d, d = Put(c, Data(s[k]))
  PROVE  /\ Behind(b, d, g[k])
         /\ ~d.error => Media(d.cells, Len(b.cells) + 1, acc, g, k)
<1>. DEFINE a == Len(b.cells)
            new == Data(s[k])
            n == Len(s)
            m == s[k].bytes
            was == g[k - 1]
            q == c.cells
<1>1. /\ a \in Nat /\ n \in Nat /\ Len(acc) = n /\ k - 1 \in 0..n /\ s[k] \in Sample
      /\ acc[k].bytes = m /\ acc[k].sample = s[k].first_chunk
      /\ \A i \in 1..n : acc[i].bytes = s[i].bytes
  <2>1. a \in Nat
    BY SequenceIs DEF IsBuffer
  <2>2. n \in Nat /\ k - 1 \in 0..n /\ s[k] \in Sample
    OBVIOUS
  <2>. QED  BY <2>1, <2>2 DEF Takes
<1>2. m \in Nat /\ g[k] = was + m /\ was \in Nat
      /\ \A i \in 0..k - 1 : g[i] \in Nat /\ g[i] <= was
  <2>1. Input(acc)
    BY TakesInput
  <2>2. \A i \in 0..n : g[i] \in Nat /\ \A j \in 0..i : g[j] <= g[i]
    BY <1>1, <2>1, SumsGrow
  <2>3. \A i \in 0..k - 1 : i \in 0..n
    BY <1>1
  <2>4. g[k] = was + acc[k].bytes
    BY <1>1 DEF Sums
  <2>5. m \in Nat
    BY <1>1 DEF Sample
  <2>. HIDE DEF m
  <2>. QED  BY <1>1, <2>2, <2>3, <2>4, <2>5
<1>3. /\ IsSequence(new) /\ Len(new) = m
      /\ \A j \in 1..m : new[j] = [box |-> "data", sample |-> s[k].first_chunk, byte |-> j]
  BY <1>1, DataIs
<1>. HIDE DEF new, m
<1>4. IsBuffer(c) /\ IsBuffer(d) /\ (~d.error => ~c.error /\ d.cells = q \o new)
  <2>. DEFINE e == q \o new
  <2>1. IsBuffer(c) /\ IsSequence(new)
    BY <1>3 DEF Behind
  <2>2. IsBuffer(d) /\ (~d.error => ~c.error /\ d.cells = c.cells \o new)
    <3>1. d = Put(c, new)
      BY DEF new
    <3>. QED  BY ONLY <2>1, <3>1, PutDoes
  <2>. QED  BY <2>1, <2>2
<1>5. SUFFICES ASSUME ~d.error
               PROVE  /\ ~b.error /\ Len(d.cells) = a + g[k]
                      /\ \A i \in 1..a : d.cells[i] = b.cells[i]
                      /\ Media(d.cells, a + 1, acc, g, k)
  BY <1>4 DEF Behind
<1>6. /\ ~b.error /\ Len(q) = a + was /\ IsSequence(q) /\ d.cells = q \o new
      /\ \A i \in 1..a : q[i] = b.cells[i]
      /\ \A p \in a + 1..a + was : q[p].box = "data"
      /\ \A i \in 1..k - 1 : \A j \in 1..acc[i].bytes :
           q[a + 1 + g[i - 1] + j - 1] = [box |-> "data", sample |-> acc[i].sample, byte |-> j]
  <2>1. ~c.error /\ ~b.error /\ Len(q) = a + was /\ \A i \in 1..a : q[i] = b.cells[i]
    BY <1>4, <1>5 DEF Behind
  <2>2. Media(q, a + 1, acc, g, k - 1)
    BY <2>1
  <2>3. IsSequence(q) /\ d.cells = q \o new
    BY <1>4, <1>5 DEF IsBuffer
  <2>. QED  BY <2>1, <2>2, <2>3 DEF Media
<1>. HIDE DEF q
<1>7. /\ Len(d.cells) = a + was + m
      /\ \A i \in 1..a + was : d.cells[i] = q[i]
      /\ \A j \in 1..m : d.cells[a + was + j] = new[j]
  <2>1. /\ Len(d.cells) = Len(q) + Len(new)
        /\ \A i \in 1..Len(q) : d.cells[i] = q[i]
        /\ \A i \in 1..Len(new) : d.cells[Len(q) + i] = new[i]
    <3>. DEFINE e == d.cells
    <3>1. IsSequence(q) /\ IsSequence(new) /\ e = q \o new
      BY <1>3, <1>6
    <3>. HIDE DEF e
    <3>2. /\ Len(e) = Len(q) + Len(new)
          /\ \A i \in 1..Len(q) : e[i] = q[i]
          /\ \A i \in 1..Len(new) : e[Len(q) + i] = new[i]
      BY ONLY <3>1, Joint
    <3>. QED  BY <3>2 DEF e
  <2>. HIDE DEF a, was
  <2>. QED  BY <1>3, <1>6, <2>1
<1>. HIDE DEF a, was
<1>8. Len(d.cells) = a + g[k] /\ Len(d.cells) = a + 1 + g[k] - 1
  BY <1>1, <1>2, <1>7
<1>9. \A i \in 1..a : d.cells[i] = b.cells[i]
  <2>1. \A i \in 1..a : i \in 1..a + was
    BY <1>1, <1>2
  <2>. QED  BY <1>6, <1>7, <2>1
<1>10. ASSUME NEW p \in a + 1..Len(d.cells)
       PROVE  d.cells[p].box = "data"
  <2>1. CASE p <= a + was
    <3>1. p \in a + 1..a + was /\ p \in 1..a + was
      BY <1>1, <1>2, <2>1
    <3>. QED  BY <1>6, <1>7, <3>1
  <2>2. CASE ~(p <= a + was)
    <3>. DEFINE j == p - (a + was)
    <3>1. j \in 1..m /\ p = a + was + j
      BY <1>1, <1>2, <1>7, <2>2
    <3>. HIDE DEF j
    <3>2. d.cells[p] = new[j]
      BY <1>7, <3>1
    <3>. QED  BY <1>3, <3>1, <3>2
  <2>. QED  BY <2>1, <2>2
<1>11. ASSUME NEW i \in 1..k, NEW j \in 1..acc[i].bytes
       PROVE  d.cells[a + 1 + g[i - 1] + j - 1]
                = [box |-> "data", sample |-> acc[i].sample, byte |-> j]
  <2>1. CASE i = k
    <3>1. j \in 1..m /\ a + 1 + g[i - 1] + j - 1 = a + was + j
      <4>1. j \in 1..m /\ g[i - 1] = was
        BY <1>1, <2>1 DEF was
      <4>2. a + 1 + was + j - 1 = a + was + j
        BY <1>1, <1>2, <4>1
      <4>. QED  BY <4>1, <4>2
    <3>. QED  BY <1>1, <1>3, <1>7, <2>1, <3>1
  <2>2. CASE i # k
    <3>1. i \in 1..k - 1 /\ i \in 1..n /\ i \in 0..k - 1 /\ i - 1 \in 0..k - 1
      BY <1>1, <2>2
    <3>2. acc[i].bytes \in Nat /\ g[i] = g[i - 1] + acc[i].bytes
      <4>1. Input(acc)
        BY TakesInput
      <4>. QED  BY <1>1, <3>1, <4>1 DEF Input, Sums
    <3>. DEFINE p == a + 1 + g[i - 1] + j - 1
    <3>3. p \in 1..a + was
      <4>. DEFINE u == g[i - 1]
                  v == g[i]
                  z == acc[i].bytes
      <4>1. u \in Nat /\ v \in Nat /\ v <= was /\ z \in Nat /\ v = u + z /\ j \in 1..z
            /\ p = a + 1 + u + j - 1
        BY <1>2, <3>1, <3>2
      <4>. HIDE DEF u, v, z, p
      <4>. QED  BY <1>1, <1>2, <4>1
    <3>4. q[p] = [box |-> "data", sample |-> acc[i].sample, byte |-> j]
      BY <1>6, <3>1
    <3>. HIDE DEF p
    <3>5. d.cells[p] = [box |-> "data", sample |-> acc[i].sample, byte |-> j]
      BY <1>7, <3>3, <3>4
    <3>. QED  BY <3>5 DEF p
  <2>. QED  BY <2>1, <2>2
<1>. QED  BY <1>6, <1>8, <1>9, <1>10, <1>11 DEF Media

\* The bytes of all samples of a table.
LEMMA PutDataOfOne ==
  ASSUME NEW b, IsBuffer(b), NEW s, OneCluster(s), NEW acc, IsSequence(acc), Takes(s, acc),
         NEW g, Sums(acc, g), NEW c, c = PutData(b, s, 1)
  PROVE  /\ Behind(b, c, g[Len(s)])
         /\ ~c.error => Media(c.cells, Len(b.cells) + 1, acc, g, Len(s))
<1>. DEFINE n == Len(s)
            a == Len(b.cells)
<1>1. /\ s \in Seq(Sample) /\ n \in Nat \ {0} /\ s[1].samples_per_chunk = n /\ a \in Nat
  <2>1. a \in Nat
    BY SequenceIs DEF IsBuffer
  <2>. QED  BY <2>1, ClustersOfOne DEF OneCluster
<1>2. PICK h : /\ h[0] = b /\ \A k \in 1..n : h[k] = Put(h[k - 1], Data(s[k]))
               /\ c = h[n]
  <2>. DEFINE head == 1
              t == s[head].samples_per_chunk
  <2>1. t = n /\ t \in Nat
    BY <1>1
  <2>2. c = PutData(b, s, head) /\ s[head].samples_per_chunk \in Nat
    BY <2>1
  <2>. HIDE DEF head
  <2>3. PICK h : /\ h[0] = b
                 /\ \A k \in 1..t : h[k] = Put(h[k - 1], Data(s[head + k - 1]))
                 /\ c = h[t]
    BY <2>2, PutDataIs
  <2>4. \A k \in 1..n : 1 + k - 1 = k
    BY <1>1
  <2>. HIDE DEF n, t
  <2>. QED  BY <2>1, <2>3, <2>4 DEF head
<1>. DEFINE Good(k) == /\ Behind(b, h[k], g[k])
                       /\ ~h[k].error => Media(h[k].cells, a + 1, acc, g, k)
<1>3. Good(0)
  <2>1. g[0] = 0
    BY DEF Sums
  <2>2. Behind(b, b, 0)
    BY <1>1 DEF Behind
  <2>3. Media(b.cells, a + 1, acc, g, 0)
    <3>1. a = a + 1 + 0 - 1 /\ a + 1..a = {} /\ 1..0 = {}
      BY <1>1
    <3>. QED  BY <2>1, <3>1 DEF Media
  <2>. QED  BY <1>2, <2>1, <2>2, <2>3
<1>4. ASSUME NEW k \in 1..n, Good(k - 1)
      PROVE  Good(k)
  <2>1. h[k] = Put(h[k - 1], Data(s[k]))
    BY <1>2
  <2>. DEFINE x == h[k - 1]
              y == h[k]
  <2>2. /\ Behind(b, x, g[k - 1]) /\ (~x.error => Media(x.cells, Len(b.cells) + 1, acc, g, k - 1))
        /\ y = Put(x, Data(s[k])) /\ s \in Seq(Sample) /\ k \in 1..Len(s)
    BY <1>1, <1>4, <2>1
  <2>. HIDE DEF x, y
  <2>3. Behind(b, y, g[k]) /\ (~y.error => Media(y.cells, Len(b.cells) + 1, acc, g, k))
    BY <2>2, OneSampleMore
  <2>. QED  BY <2>3 DEF y
<1>5. Good(n)
  <2>. HIDE DEF Good, n
  <2>. DEFINE P == {k \in 0..n : Good(k)}
  <2>1. 0 \in P
    BY <1>1, <1>3
  <2>2. ASSUME NEW k \in 0..n - 1, k \in P
        PROVE  k + 1 \in P
    <3>1. k + 1 \in 1..n /\ k + 1 - 1 = k /\ k + 1 \in 0..n
      BY <1>1
    <3>2. Good(k + 1 - 1)
      BY <2>2, <3>1
    <3>3. Good(k + 1)
      BY <1>4, <3>1, <3>2
    <3>. QED  BY <3>1, <3>3
  <2>. HIDE DEF P
  <2>3. \A k \in 0..n : k \in P
    BY <1>1, <2>1, <2>2, UpTo
  <2>. QED  BY <1>1, <2>3 DEF P
<1>. QED  BY <1>2, <1>5

\* The cells d are the cells c with the media data of the samples s behind, and the trun
\* at o tells where it is from the moof at moof.
WithData(c, d, o, moof, s, g) ==
  /\ \A i \in 1..Len(c) \ {o} : d[i] = c[i]
  /\ DOMAIN d[o] = DOMAIN c[o] /\ \A f \in DOMAIN c[o] \ {"data_offset"} : d[o][f] = c[o][f]
  /\ d[o].data_offset = Len(c) + 2 - moof
  /\ d[Len(c) + 1].box = "mdat" /\ Media(d, Len(c) + 2, s, g, Len(s))

\* The mdat of one track whose trun is at o: the bytes of its samples, and the trun
\* learns where they are.
LEMMA WriteMdatOfOne ==
  ASSUME NEW m, Work(m, m.tracks), Len(m.tracks) = 1,
         NEW s, s = m.tracks[1].samples, OneCluster(s),
         NEW o, o = s[1].offset, o \in 1..Len(m.b.cells), "data_offset" \in DOMAIN m.b.cells[o],
         NEW acc, IsSequence(acc), Takes(s, acc), NEW g, Sums(acc, g),
         NEW moof \in Nat, NEW r, r = WriteMdat(m, moof)
  PROVE  IsBuffer(r.b) /\ (~r.b.error => WithData(m.b.cells, r.b.cells, o, moof, acc, g))
<1>. DEFINE a == Len(m.b.cells)
            n == Len(s)
            at == Tell(m.b)
            heads == Heads(m.tracks)
<1>1. /\ DOMAIN m = {"b", "tracks"} /\ IsBuffer(m.b) /\ a \in Nat
      /\ Clusters(s) = <<1>> /\ Len(<<1>>) = 1 /\ <<1>>[1] = 1 /\ n \in Nat \ {0} /\ s \in Seq(Sample)
  <2>1. DOMAIN m = {"b", "tracks"} /\ IsBuffer(m.b)
    BY DEF Work
  <2>2. a \in Nat
    BY <2>1, SequenceIs DEF IsBuffer
  <2>. QED  BY <2>1, <2>2, ClustersOfOne DEF OneCluster
<1>0. Input(acc) /\ Len(acc) = n /\ n \in Nat \ {0}
  <2>1. Input(acc)
    BY <1>1, TakesInput
  <2>. QED  BY <1>1, <2>1 DEF Takes
<1>2. Len(heads) = 1 /\ heads[1] = <<1>>
  <2>1. heads = [t \in 1..1 |-> Clusters(m.tracks[t].samples)]
    BY DEF Heads
  <2>2. 1 \in 1..1
    OBVIOUS
  <2>. HIDE DEF heads
  <2>3. heads = [t \in 1..1 |-> heads[t]] /\ heads[1] = <<1>>
    BY <1>1, <2>1, <2>2
  <2>. QED  BY <2>3, OnIndices
<1>3. Rounds(heads) = 1
  <2>1. {Len(heads[t]) : t \in 1..Len(heads)} = {1}
    <3>. HIDE DEF heads
    <3>1. \A t \in 1..1 : t = 1
      BY SMTT(30)
    <3>2. Len(heads) = 1 /\ Len(heads[1]) = 1 /\ 1 \in 1..1
      BY <1>1, <1>2
    <3>. QED  BY ONLY <3>1, <3>2
  <2>. HIDE DEF heads
  <2>2. Rounds(heads) = Max({1})
    BY <2>1 DEF Rounds
  <2>3. Max({1}) = 1
    BY DEF Max
  <2>. QED  BY <2>2, <2>3
<1>4. PICK h : h[0] = Begun(m, Mdat) /\ h[1] = WriteRound(h[0], heads, 1, moof) /\ r = Sized(h[1], at)
  <2>1. Rounds(Heads(m.tracks)) \in Nat
    BY <1>3
  <2>2. PICK h : /\ h[0] = Begun(m, Mdat)
                 /\ \A k \in 1..Rounds(Heads(m.tracks)) :
                      h[k] = WriteRound(h[k - 1], Heads(m.tracks), k, moof)
                 /\ r = Sized(h[Rounds(Heads(m.tracks))], Tell(m.b))
    BY <2>1, WriteMdatIs
  <2>3. 1 \in 1..Rounds(heads) /\ 1 - 1 = 0
    BY <1>3
  <2>4. h[1] = WriteRound(h[1 - 1], heads, 1, moof)
    BY <2>2, <2>3
  <2>. QED  BY <1>3, <2>2, <2>3, <2>4
<1>. DEFINE b0 == Put(m.b, <<Mdat>>)
            b1 == Patch(b0, o, "data_offset", Tell(b0) - moof)
            b2 == PutData(b1, s, 1)
            b3 == Patch(b2, at, "size", Tell(b2) - at)
<1>5. DOMAIN h[0] = {"b", "tracks"} /\ h[0].b = b0 /\ h[0].tracks = m.tracks
  BY <1>1, <1>4 DEF Begun
<1>6. h[1] = WriteCluster(h[0], 1, 1, moof)
  <2>. DEFINE x == h[0]
              k == 1
  <2>1. Len(heads) \in Nat
    BY <1>2
  <2>. HIDE DEF x, heads, k
  <2>2. PICK g1 : /\ g1[0] = x
                  /\ \A t \in 1..Len(heads) : g1[t] = InTurn(g1[t - 1], heads, t, k, moof)
                  /\ WriteRound(x, heads, k, moof) = g1[Len(heads)]
    BY <2>1, WriteRoundIs
  <2>3. 1 \in 1..Len(heads) /\ 1 - 1 = 0 /\ 1 <= Len(heads[1]) /\ heads[1][1] = 1
    BY <1>1, <1>2
  <2>4. g1[1] = InTurn(g1[1 - 1], heads, 1, k, moof)
    BY <2>2, <2>3
  <2>5. g1[1] = InTurn(x, heads, 1, 1, moof)
    BY <2>2, <2>3, <2>4 DEF k
  <2>6. InTurn(x, heads, 1, 1, moof) = WriteCluster(x, 1, 1, moof)
    BY <2>3 DEF InTurn
  <2>7. h[1] = g1[1]
    BY <1>2, <1>4, <2>2 DEF x, k
  <2>. QED  BY <2>5, <2>6, <2>7 DEF x
<1>7. DOMAIN h[1] = {"b", "tracks"} /\ h[1].b = b2
  BY <1>5, <1>6 DEF WriteCluster
<1>8. r.b = b3
  BY <1>4, <1>7 DEF Sized
<1>9. /\ IsBuffer(b0)
      /\ ~b0.error => /\ ~m.b.error /\ Len(b0.cells) = a + 1
                      /\ \A i \in 1..a : b0.cells[i] = m.b.cells[i]
                      /\ b0.cells[a + 1] = Mdat
  BY <1>1, PutOne
<1>. HIDE DEF b0
<1>10. /\ IsBuffer(b1)
       /\ ~b1.error =>
            /\ ~b0.error /\ Len(b1.cells) = Len(b0.cells)
            /\ \A i \in 1..Len(b0.cells) \ {o} : b1.cells[i] = b0.cells[i]
            /\ o \in 1..Len(b0.cells) =>
                 /\ DOMAIN b1.cells[o] = DOMAIN b0.cells[o]
                 /\ \A f \in DOMAIN b0.cells[o] \ {"data_offset"} : b1.cells[o][f] = b0.cells[o][f]
                 /\ "data_offset" \in DOMAIN b0.cells[o] =>
                      b1.cells[o]["data_offset"] = Tell(b0) - moof
  <2>. DEFINE field == "data_offset"
              value == Tell(b0) - moof
  <2>1. IsBuffer(b0) /\ b1 = Patch(b0, o, field, value)
    BY <1>9
  <2>. HIDE DEF field, value, b1
  <2>2. /\ IsBuffer(b1)
        /\ ~b1.error =>
             /\ ~b0.error /\ Len(b1.cells) = Len(b0.cells)
             /\ \A i \in 1..Len(b0.cells) \ {o} : b1.cells[i] = b0.cells[i]
             /\ o \in 1..Len(b0.cells) =>
                  /\ DOMAIN b1.cells[o] = DOMAIN b0.cells[o]
                  /\ \A f \in DOMAIN b0.cells[o] \ {field} : b1.cells[o][f] = b0.cells[o][f]
                  /\ field \in DOMAIN b0.cells[o] => b1.cells[o][field] = value
    BY ONLY <2>1, PatchDoes
  <2>. QED  BY <2>2 DEF field, value
<1>. HIDE DEF b1, n
<1>11. /\ Behind(b1, b2, g[n])
       /\ ~b2.error => Media(b2.cells, Len(b1.cells) + 1, acc, g, n)
  BY <1>10, PutDataOfOne DEF n
<1>. HIDE DEF b2
<1>12. /\ IsBuffer(b3)
       /\ ~b3.error =>
            /\ ~b2.error /\ Len(b3.cells) = Len(b2.cells)
            /\ \A i \in 1..Len(b2.cells) \ {at} : b3.cells[i] = b2.cells[i]
            /\ at \in 1..Len(b2.cells) =>
                 /\ DOMAIN b3.cells[at] = DOMAIN b2.cells[at]
                 /\ \A f \in DOMAIN b2.cells[at] \ {"size"} : b3.cells[at][f] = b2.cells[at][f]
  <2>1. IsBuffer(b2)
    BY <1>11 DEF Behind
  <2>. DEFINE field == "size"
              value == Tell(b2) - at
  <2>2. b3 = Patch(b2, at, field, value)
    OBVIOUS
  <2>. HIDE DEF field, value, b3, at
  <2>3. /\ IsBuffer(b3)
        /\ ~b3.error =>
             /\ ~b2.error /\ Len(b3.cells) = Len(b2.cells)
             /\ \A i \in 1..Len(b2.cells) \ {at} : b3.cells[i] = b2.cells[i]
             /\ at \in 1..Len(b2.cells) =>
                  /\ DOMAIN b3.cells[at] = DOMAIN b2.cells[at]
                  /\ \A f \in DOMAIN b2.cells[at] \ {field} : b3.cells[at][f] = b2.cells[at][f]
    BY ONLY <2>1, <2>2, PatchDoes
  <2>. QED  BY <2>3 DEF field
<1>. HIDE DEF b3
<1>13. ASSUME ~b3.error
       PROVE  /\ ~m.b.error
              /\ \A i \in 1..a \ {o} : b3.cells[i] = m.b.cells[i]
              /\ DOMAIN b3.cells[o] = DOMAIN m.b.cells[o]
              /\ \A f \in DOMAIN m.b.cells[o] \ {"data_offset"} : b3.cells[o][f] = m.b.cells[o][f]
              /\ b3.cells[o].data_offset = a + 2 - moof
              /\ b3.cells[a + 1].box = "mdat"
              /\ Media(b3.cells, a + 2, acc, g, n)
  <2>0. at = a + 1 /\ o \in 1..a /\ a \in Nat
    BY <1>1 DEF Tell
  <2>. HIDE DEF a, at
  <2>1. /\ ~m.b.error /\ ~b0.error /\ ~b1.error /\ ~b2.error
        /\ Len(b0.cells) = a + 1 /\ Len(b1.cells) = a + 1 /\ Len(b2.cells) = a + 1 + g[n]
        /\ \A i \in 1..a + 1 : b2.cells[i] = b1.cells[i]
    BY <1>9, <1>10, <1>11, <1>12, <1>13 DEF Behind
  <2>2. g[n] \in Nat
    <3>1. Input(acc) /\ n \in 0..Len(acc)
      BY <1>0
    <3>. QED  BY <3>1, SumsGrow
  <2>3. /\ a + 1 \in 1..a + 1 /\ a + 1 \in 1..a + 1 + g[n] /\ o # a + 1 /\ o \in 1..a + 1
        /\ o \in 1..a + 1 + g[n] /\ a + 1 + 1 = a + 2
    BY ONLY <2>0, <2>2
  <2>4. ASSUME NEW i \in 1..a \ {o}
        PROVE  b3.cells[i] = m.b.cells[i]
    <3>1. /\ i \in 1..a + 1 /\ i \in 1..a + 1 + g[n] /\ i # a + 1 /\ i \in 1..a
          /\ i \in (1..a + 1) \ {o} /\ i \in (1..a + 1 + g[n]) \ {a + 1}
      BY <2>0, <2>2
    <3>2. b0.cells[i] = m.b.cells[i]
      BY <1>9, <2>1, <3>1
    <3>3. b1.cells[i] = b0.cells[i]
      BY <1>10, <2>1, <3>1
    <3>4. b2.cells[i] = b1.cells[i]
      BY <2>1, <3>1
    <3>5. b3.cells[i] = b2.cells[i]
      <4>1. i \in 1..Len(b2.cells) \ {at}
        BY <2>0, <2>1, <3>1
      <4>. QED  BY <1>12, <1>13, <4>1
    <3>. QED  BY <3>2, <3>3, <3>4, <3>5
  <2>5. b3.cells[o] = b1.cells[o] /\ b0.cells[o] = m.b.cells[o]
    BY <1>9, <1>12, <1>13, <2>0, <2>1, <2>3
  <2>6. Tell(b0) = a + 2
    BY <2>1, <2>3 DEF Tell
  <2>7. /\ DOMAIN b3.cells[o] = DOMAIN m.b.cells[o]
        /\ \A f \in DOMAIN m.b.cells[o] \ {"data_offset"} : b3.cells[o][f] = m.b.cells[o][f]
        /\ b3.cells[o].data_offset = a + 2 - moof
    <3>. DEFINE x == b1.cells[o]
                y == m.b.cells[o]
    <3>1. o \in 1..Len(b0.cells)
      BY <2>1, <2>3
    <3>3. b0.cells[o] = y /\ b1.cells[o] = x
      BY <2>5
    <3>4. /\ DOMAIN b1.cells[o] = DOMAIN b0.cells[o]
          /\ \A f \in DOMAIN b0.cells[o] \ {"data_offset"} : b1.cells[o][f] = b0.cells[o][f]
          /\ "data_offset" \in DOMAIN b0.cells[o] =>
               b1.cells[o]["data_offset"] = a + 2 - moof
      <4>. DEFINE v == Tell(b0) - moof
                  z == a + 2 - moof
      <4>1. v = z
        <5>1. moof \in Nat /\ a \in Nat
          BY <2>0
        <5>. QED  BY ONLY <2>6, <5>1
      <4>2. /\ DOMAIN b1.cells[o] = DOMAIN b0.cells[o]
            /\ \A f \in DOMAIN b0.cells[o] \ {"data_offset"} : b1.cells[o][f] = b0.cells[o][f]
            /\ "data_offset" \in DOMAIN b0.cells[o] => b1.cells[o]["data_offset"] = v
        <5>1. ~b1.error
          BY <2>1
        <5>. QED  BY ONLY <1>10, <3>1, <5>1
      <4>. HIDE DEF v, z
      <4>3. "data_offset" \in DOMAIN b0.cells[o] => b1.cells[o]["data_offset"] = z
        BY <4>1, <4>2
      <4>. QED  BY <4>2, <4>3 DEF z
    <3>. HIDE DEF x, y
    <3>2. /\ DOMAIN x = DOMAIN y /\ \A f \in DOMAIN y \ {"data_offset"} : x[f] = y[f]
          /\ "data_offset" \in DOMAIN y => x["data_offset"] = a + 2 - moof
      BY ONLY <3>3, <3>4
    <3>. QED  BY <2>5, <3>2 DEF x, y
  <2>8. b3.cells[a + 1].box = "mdat"
    <3>1. b2.cells[a + 1] = Mdat
      BY <1>9, <1>10, <2>1, <2>3
    <3>2. "box" \in DOMAIN Mdat /\ Mdat.box = "mdat" /\ "box" # "size"
      BY DEF Mdat
    <3>. QED  BY <1>12, <1>13, <2>0, <2>1, <2>3, <3>1, <3>2
  <2>9. Media(b2.cells, a + 2, acc, g, n)
    BY <1>11, <2>1, <2>3
  <2>10. /\ Len(b3.cells) = Len(b2.cells) /\ Len(b2.cells) = a + 2 + g[n] - 1
         /\ \A p \in a + 2..Len(b2.cells) : b3.cells[p] = b2.cells[p]
    <3>1. Len(b2.cells) = a + 2 + g[n] - 1
      BY <2>9 DEF Media
    <3>2. \A p \in a + 2..Len(b2.cells) : p \in 1..Len(b2.cells) /\ p # a + 1
      BY <2>0, <2>1, <2>2
    <3>. QED  BY <1>12, <1>13, <2>0, <3>1, <3>2
  <2>11. ASSUME NEW k \in 1..n, NEW j \in 1..acc[k].bytes
         PROVE  b3.cells[a + 2 + g[k - 1] + j - 1]
                  = [box |-> "data", sample |-> acc[k].sample, byte |-> j]
    <3>. DEFINE p == a + 2 + g[k - 1] + j - 1
    <3>1. Input(acc) /\ Len(acc) = n
      BY <1>0
    <3>2. /\ acc[k].bytes \in Nat /\ g[k] = g[k - 1] + acc[k].bytes /\ k - 1 \in 0..n /\ k \in 0..n
      BY <1>0, <3>1 DEF Input, Sums
    <3>3. g[k - 1] \in Nat /\ g[k] \in Nat /\ g[k] <= g[n]
      BY <3>1, <3>2, SumsGrow
    <3>4. p \in a + 2..Len(b2.cells)
      <4>. DEFINE u == g[k - 1]
                  v == g[k]
                  w == g[n]
                  z == acc[k].bytes
      <4>1. /\ u \in Nat /\ v \in Nat /\ w \in Nat /\ v <= w /\ z \in Nat /\ v = u + z /\ j \in 1..z
            /\ p = a + 2 + u + j - 1 /\ Len(b2.cells) = a + 2 + w - 1
        BY <2>2, <2>10, <3>2, <3>3
      <4>2. a \in Nat /\ j \in 1..z
        BY <2>0
      <4>. HIDE DEF u, v, w, z, p
      <4>. QED  BY ONLY <4>1, <4>2
    <3>5. b2.cells[p] = [box |-> "data", sample |-> acc[k].sample, byte |-> j]
      BY <2>9 DEF Media
    <3>. HIDE DEF p
    <3>6. b3.cells[p] = [box |-> "data", sample |-> acc[k].sample, byte |-> j]
      BY <2>10, <3>4, <3>5
    <3>. QED  BY <3>6 DEF p
  <2>12. \A p \in a + 2..Len(b3.cells) : b3.cells[p].box = "data"
    BY <2>9, <2>10 DEF Media
  <2>13. Media(b3.cells, a + 2, acc, g, n)
    BY <2>10, <2>11, <2>12 DEF Media
  <2>. QED  BY <2>1, <2>4, <2>7, <2>8, <2>13
<1>14. ~b3.error => WithData(m.b.cells, b3.cells, o, moof, acc, g)
  BY <1>0, <1>13 DEF WithData, a
<1>. QED  BY <1>8, <1>12, <1>14

\* What is ahead of the moof of one track.
LEMMA FrontOfOne ==
  ASSUME NEW b, IsBuffer(b), b.cells = <<>>, NEW tracks, Len(tracks) = 1,
         NEW c, c = WriteSidx(Put(b, <<[box |-> "styp"]>>), tracks)
  PROVE  /\ IsBuffer(c)
         /\ ~c.error => /\ Len(c.cells) = 2 /\ c.cells[1] = [box |-> "styp"]
                        /\ {"box", "first_offset", "referenced_size"} \subseteq DOMAIN c.cells[2]
                        /\ c.cells[2].box = "sidx" /\ c.cells[2].first_offset = 0
<1>. DEFINE s == tracks[1].samples
            styp == [box |-> "styp"]
            sidx == [box |-> "sidx", track |-> 1, referenced_size |-> 0, first_offset |-> 1 - 1,
                     earliest |-> IF s = <<>> THEN 0 ELSE s[1].dts,
                     duration |-> IF s = <<>> THEN 0 ELSE Last(s).dts - s[1].dts]
            b0 == Put(b, <<styp>>)
<1>1. c = Put(b0, <<sidx>>)
  <2>. DEFINE n == Len(tracks)
              Index(t) ==
                LET q == tracks[t].samples
                IN [box |-> "sidx", track |-> t, referenced_size |-> 0, first_offset |-> n - t,
                    earliest |-> IF q = <<>> THEN 0 ELSE q[1].dts,
                    duration |-> IF q = <<>> THEN 0 ELSE Last(q).dts - q[1].dts]
              new == [t \in 1..n |-> Index(t)]
  <2>1. c = Put(b0, new)
    BY DEF WriteSidx
  <2>2. n = 1
    OBVIOUS
  <2>3. Index(1) = sidx
    BY <2>2
  <2>. HIDE DEF Index, sidx, n
  <2>4. new = [t \in 1..1 |-> sidx]
    <3>1. \A t \in 1..1 : t = 1
      OBVIOUS
    <3>. QED  BY <2>2, <2>3, <3>1
  <2>. HIDE DEF new
  <2>5. <<sidx>> = [t \in 1..1 |-> sidx]
    OBVIOUS
  <2>. QED  BY <2>1, <2>4, <2>5
<1>2. Len(b.cells) = 0
  OBVIOUS
<1>. HIDE DEF styp, sidx
<1>3. /\ IsBuffer(b0)
      /\ ~b0.error => Len(b0.cells) = 1 /\ b0.cells[1] = styp
  <2>1. /\ IsBuffer(b0)
        /\ ~b0.error => Len(b0.cells) = Len(b.cells) + 1 /\ b0.cells[Len(b.cells) + 1] = styp
    BY PutOne
  <2>. QED  BY <1>2, <2>1
<1>. HIDE DEF b0
<1>4. /\ IsBuffer(c)
      /\ ~c.error => /\ ~b0.error /\ Len(c.cells) = Len(b0.cells) + 1
                     /\ \A i \in 1..Len(b0.cells) : c.cells[i] = b0.cells[i]
                     /\ c.cells[Len(b0.cells) + 1] = sidx
  BY <1>1, <1>3, PutOne
<1>5. ~c.error => Len(c.cells) = 2 /\ c.cells[1] = styp /\ c.cells[2] = sidx
  <2>. DEFINE p == b0.cells
              q == c.cells
  <2>1. ~c.error => /\ Len(p) = 1 /\ p[1] = styp /\ Len(q) = Len(p) + 1
                    /\ \A i \in 1..Len(p) : q[i] = p[i]
                    /\ q[Len(p) + 1] = sidx
    BY <1>3, <1>4
  <2>2. 1 \in 1..1 /\ 1 + 1 = 2
    OBVIOUS
  <2>. HIDE DEF p, q
  <2>3. ~c.error => Len(q) = 2 /\ q[1] = styp /\ q[2] = sidx
    BY <2>1, <2>2
  <2>. QED  BY <2>3 DEF q
<1>6. /\ {"box", "first_offset", "referenced_size"} \subseteq DOMAIN sidx
      /\ sidx.box = "sidx" /\ sidx.first_offset = 0
  BY DEF sidx
<1>. QED  BY <1>4, <1>5, <1>6 DEF styp

\* The index of one track learns how much follows it.
LEMMA SizeIndexOfOne ==
  ASSUME NEW b, IsBuffer(b), 2 \in 1..Len(b.cells), NEW size,
         NEW c, c = SizeIndex(b, 1, 3, size)
  PROVE  /\ IsBuffer(c)
         /\ ~c.error =>
              /\ ~b.error /\ Len(c.cells) = Len(b.cells)
              /\ \A i \in 1..Len(b.cells) \ {2} : c.cells[i] = b.cells[i]
              /\ \A f \in DOMAIN b.cells[2] \ {"referenced_size"} : c.cells[2][f] = b.cells[2][f]
              /\ "referenced_size" \in DOMAIN b.cells[2] => c.cells[2].referenced_size = size
<1>. DEFINE n == 1
            moof == 3
            at == 2
            field == "referenced_size"
<1>1. PICK g : /\ g[0] = b
               /\ \A t \in 1..n : g[t] = WithExtent(g[t - 1], n, t, moof, size)
               /\ c = g[n]
  <2>1. n \in Nat /\ c = SizeIndex(b, n, moof, size)
    OBVIOUS
  <2>. HIDE DEF n, moof
  <2>2. \E g : /\ g[0] = b
               /\ \A t \in 1..n : g[t] = WithExtent(g[t - 1], n, t, moof, size)
               /\ c = g[n]
    BY ONLY <2>1, SizeIndexIs
  <2>. QED  BY <2>2
<1>2. c = WithExtent(b, 1, 1, moof, size)
  <2>1. 1 \in 1..n /\ 1 - 1 = 0
    OBVIOUS
  <2>2. g[1] = WithExtent(g[1 - 1], n, 1, moof, size)
    BY <1>1, <2>1
  <2>. HIDE DEF moof
  <2>3. c = g[1]
    BY <1>1
  <2>. QED  BY <1>1, <2>1, <2>2, <2>3
<1>3. c = Patch(b, at, field, size)
  <2>1. 3 - (1 - 1 + 1) = 2
    OBVIOUS
  <2>. QED  BY <1>2, <2>1 DEF WithExtent
<1>. HIDE DEF at, field
<1>4. /\ IsBuffer(c)
      /\ ~c.error =>
           /\ ~b.error /\ Len(c.cells) = Len(b.cells)
           /\ \A i \in 1..Len(b.cells) \ {at} : c.cells[i] = b.cells[i]
           /\ at \in 1..Len(b.cells) =>
                /\ DOMAIN c.cells[at] = DOMAIN b.cells[at]
                /\ \A f \in DOMAIN b.cells[at] \ {field} : c.cells[at][f] = b.cells[at][f]
                /\ field \in DOMAIN b.cells[at] => c.cells[at][field] = size
  BY <1>3, PatchDoes
<1>. QED  BY <1>4 DEF at, field

\* A fragment of one track in an empty buffer is a segment.
LEMMA FragmentOfOne ==
  ASSUME SEGMENT, NEW now, NEW w, Whole(w, now), Len(w.tracks) = 1, w.has_moov = FALSE,
         NEW b, IsBuffer(b), b.cells = <<>>,
         NEW s, s = w.tracks[1].samples, OneCluster(s),
         NEW acc, IsSequence(acc), Takes(s, acc), NEW g, Sums(acc, g),
         w.mdat_size = g[Len(acc)], w.mdat_size # 0,
         NEW grown, NEW f, f = Fragment(w, b, grown)
  PROVE  IsBuffer(f.b) /\ (~f.b.error => Laid(f.b.cells, acc, g))
<1>. DEFINE n == Len(w.tracks)
            indexed == WriteSidx(Put(b, <<[box |-> "styp"]>>), w.tracks)
            moof == Tell(indexed)
            base == [b |-> indexed, tracks |-> w.tracks]
            id == w.fragment_id + 1
            m == WriteMoof(base, id)
            refsize == Tell(m.b) - moof + w.mdat_size + 1
            y == SizeIndex(m.b, n, moof, refsize)
            x == [m EXCEPT !.b = y]
            done == WriteMdat(x, moof)
<1>1. /\ DOMAIN w = WriterFields /\ w.mdat_size \in Nat /\ IsSequence(w.tracks) /\ n = 1
      /\ \A t \in 1..n : GoodTrack(w.tracks[t], now)
  BY SequenceIs DEF Whole
<1>2. f.b = done.b
  <2>1. ~(w.mdat_size < 1)
    BY <1>1
  <2>2. ~(\E t \in 1..n : ~WellClustered(w.tracks[t].samples))
    BY <1>1, AllWellClustered
  <2>3. ~w.has_moov
    OBVIOUS
  <2>. QED  BY <2>1, <2>2, <2>3 DEF Fragment
<1>3. /\ IsBuffer(indexed)
      /\ ~indexed.error =>
           /\ Len(indexed.cells) = 2 /\ indexed.cells[1] = [box |-> "styp"]
           /\ {"box", "first_offset", "referenced_size"} \subseteq DOMAIN indexed.cells[2]
           /\ indexed.cells[2].box = "sidx" /\ indexed.cells[2].first_offset = 0
  <2>1. indexed = WriteSidx(Put(b, <<[box |-> "styp"]>>), w.tracks)
    OBVIOUS
  <2>. HIDE DEF indexed
  <2>. QED  BY <2>1, FrontOfOne
<1>. HIDE DEF indexed
<1>4. Work(base, w.tracks) /\ base.b = indexed /\ base.tracks = w.tracks
  BY <1>3, TracksAreCut
<1>5. /\ Work(m, w.tracks) /\ Behind(indexed, m.b, 3)
      /\ ~m.b.error => /\ MoofOfOne(m.b.cells, Len(indexed.cells) + 1, s)
                       /\ m.tracks[1].samples[1].offset = Len(indexed.cells) + 3
  <2>1. m = WriteMoof(base, id) /\ s = base.tracks[1].samples
    BY <1>4
  <2>. HIDE DEF base, id, m
  <2>2. /\ Work(m, w.tracks) /\ Behind(base.b, m.b, 3)
        /\ ~m.b.error => /\ MoofOfOne(m.b.cells, Len(base.b.cells) + 1, s)
                         /\ m.tracks[1].samples[1].offset = Len(base.b.cells) + 3
    BY <1>4, <2>1, WriteMoofOfOne
  <2>. QED  BY <1>4, <2>2
<1>. HIDE DEF base, id, m, moof, refsize
<1>6. Onto(m.b, y, {}) /\ IsBuffer(m.b)
  <2>1. IsBuffer(m.b) /\ n \in Nat
    BY <1>1, <1>5 DEF Work
  <2>. HIDE DEF n
  <2>. QED  BY <2>1, SizeIndexDoes
<1>7. DOMAIN x = {"b", "tracks"} /\ x.b = y /\ x.tracks = m.tracks
  <2>. HIDE DEF y
  <2>. QED  BY <1>5 DEF Work
<1>. HIDE DEF x
<1>8. Work(x, x.tracks) /\ Len(x.tracks) = 1 /\ Marked(s, x.tracks[1].samples)
  <2>1. /\ DOMAIN x = {"b", "tracks"} /\ IsBuffer(x.b) /\ IsSequence(x.tracks) /\ Len(x.tracks) = n
        /\ \A t \in 1..n : /\ Cut(w.tracks[t].samples) /\ "samples" \in DOMAIN x.tracks[t]
                           /\ Marked(w.tracks[t].samples, x.tracks[t].samples)
    BY <1>5, <1>6, <1>7 DEF Work, Onto
  <2>2. \A t \in 1..n : Cut(x.tracks[t].samples)
    BY <2>1, MarkedCut
  <2>3. \A t \in 1..n : Marked(x.tracks[t].samples, x.tracks[t].samples)
    BY <2>2, MarkedItself DEF Cut
  <2>4. 1 \in 1..n
    BY <1>1
  <2>. QED  BY <1>1, <2>1, <2>2, <2>3, <2>4 DEF Work
<1>9. Onto(x.b, done.b, {"mdat", "data"})
  <2>1. Len(x.tracks) # 0
    BY <1>8
  <2>. QED  BY <1>8, <2>1, WriteMdatDoes DEF Wrote
<1>. DEFINE r == x.tracks[1].samples
<1>10. OneCluster(r) /\ Takes(r, acc) /\ Len(r) = Len(s) /\ Len(s) = Len(acc)
  <2>1. 1 \in 1..Len(s) /\ Len(s) \in Nat \ {0}
    BY DEF OneCluster
  <2>. HIDE DEF r
  <2>2. Marked(s, r)
    BY <1>8 DEF r
  <2>. QED  BY <2>1, <2>2 DEF Marked, OneCluster, Takes
<1>. HIDE DEF done
<1>11. ASSUME ~done.b.error
       PROVE  Laid(done.b.cells, acc, g)
  <2>. DEFINE p == indexed.cells
              q == m.b.cells
              c == y.cells
              d == done.b.cells
  <2>1. ~y.error /\ ~m.b.error /\ ~indexed.error
    BY <1>5, <1>6, <1>7, <1>9, <1>11 DEF Onto, Behind
  <2>2. /\ Len(p) = 2 /\ p[1] = [box |-> "styp"]
        /\ {"box", "first_offset", "referenced_size"} \subseteq DOMAIN p[2]
        /\ p[2].box = "sidx" /\ p[2].first_offset = 0
    BY <1>3, <2>1
  <2>3. /\ Len(q) = 5 /\ q[1] = p[1] /\ q[2] = p[2] /\ MoofOfOne(q, 3, s)
        /\ r[1].offset = 5
    <3>1. /\ Len(q) = Len(p) + 3 /\ \A i \in 1..Len(p) : q[i] = p[i]
          /\ MoofOfOne(q, Len(p) + 1, s) /\ r[1].offset = Len(p) + 3
      BY <1>5, <1>7, <2>1 DEF Behind
    <3>. HIDE DEF p, q, r
    <3>. QED  BY <2>2, <3>1
  <2>4. moof = 3 /\ refsize = g[Len(acc)] + 4
    <3>1. moof = Len(p) + 1 /\ Tell(m.b) = Len(q) + 1
      BY DEF moof, Tell
    <3>2. moof = 3 /\ Tell(m.b) = 6
      <4>. HIDE DEF p, q
      <4>. QED  BY <2>2, <2>3, <3>1
    <3>. QED  BY <1>1, <3>2 DEF refsize
  <2>5. /\ Len(c) = 5 /\ \A i \in {1, 3, 4, 5} : c[i] = q[i]
        /\ c[2].box = "sidx" /\ c[2].first_offset = 0 /\ c[2].referenced_size = refsize
    <3>1. y = SizeIndex(m.b, 1, 3, refsize) /\ 2 \in 1..Len(m.b.cells)
      BY <1>1, <2>3, <2>4
    <3>. HIDE DEF y
    <3>2. /\ Len(y.cells) = Len(m.b.cells)
          /\ \A i \in 1..Len(m.b.cells) \ {2} : y.cells[i] = m.b.cells[i]
          /\ \A f1 \in DOMAIN m.b.cells[2] \ {"referenced_size"} :
               y.cells[2][f1] = m.b.cells[2][f1]
          /\ "referenced_size" \in DOMAIN m.b.cells[2] => y.cells[2].referenced_size = refsize
      BY <1>6, <2>1, <3>1, SizeIndexOfOne
    <3>3. q[2] = p[2] /\ Len(q) = 5
      BY <2>3
    <3>4. /\ Len(c) = Len(q) /\ \A i \in 1..Len(q) \ {2} : c[i] = q[i]
          /\ \A f1 \in DOMAIN q[2] \ {"referenced_size"} : c[2][f1] = q[2][f1]
          /\ "referenced_size" \in DOMAIN q[2] => c[2].referenced_size = refsize
      BY <3>2
    <3>. HIDE DEF p, q, c
    <3>. QED  BY <2>2, <3>3, <3>4
  <2>6. /\ {"box", "run", "data_offset"} \subseteq DOMAIN c[5] /\ c[5].box = "trun"
        /\ c[5].run = Run(s, 1)
        /\ c[3].box = "moof" /\ c[3].size = 3
        /\ c[4].box = "traf" /\ c[4].track = 1 /\ c[4].size = 2 /\ c[4].tfdt = s[1].dts
    <3>1. 3 + 1 = 4 /\ 4 + 1 = 5
      OBVIOUS
    <3>. HIDE DEF c, q
    <3>. QED  BY <2>3, <2>5, <3>1 DEF MoofOfOne, TrafOfOne
  <2>7. /\ \A i \in 1..5 \ {5} : d[i] = c[i]
        /\ \A f1 \in DOMAIN c[5] \ {"data_offset"} : d[5][f1] = c[5][f1]
        /\ d[5].data_offset = 5 + 2 - 3
        /\ d[5 + 1].box = "mdat" /\ Media(d, 5 + 2, acc, g, Len(r))
    <3>. DEFINE o == 5
                at == 3
                z == x.b.cells
    <3>1. /\ z = c /\ Len(z) = o /\ at \in Nat /\ o \in 1..Len(z) /\ o = r[1].offset
          /\ "data_offset" \in DOMAIN z[o] /\ done = WriteMdat(x, at)
      BY <1>7, <2>3, <2>4, <2>5, <2>6 DEF done
    <3>2. Work(x, x.tracks) /\ Len(x.tracks) = 1 /\ r = x.tracks[1].samples /\ OneCluster(r)
          /\ IsSequence(acc) /\ Takes(r, acc) /\ Sums(acc, g) /\ z = x.b.cells /\ ~done.b.error
      BY <1>8, <1>10, <1>11
    <3>. HIDE DEF o, at, r, z, d
    <3>3. WithData(x.b.cells, done.b.cells, o, at, acc, g)
      <4>1. /\ o \in 1..Len(x.b.cells) /\ "data_offset" \in DOMAIN x.b.cells[o]
            /\ o = r[1].offset /\ at \in Nat /\ done = WriteMdat(x, at)
        BY ONLY <3>1, <3>2
      <4>. QED  BY ONLY <3>2, <4>1, WriteMdatOfOne
    <3>4. x.b.cells = c /\ Len(c) = 5 /\ done.b.cells = d
      BY <3>1, <3>2 DEF o, d
    <3>. HIDE DEF c
    <3>. QED  BY <1>10, <3>3, <3>4 DEF WithData, o, at
  <2>8. /\ 5 + 2 - 3 = 4 /\ 5 + 1 = 6 /\ 5 + 2 = 7
        /\ 1 \in 1..5 \ {5} /\ 2 \in 1..5 \ {5} /\ 3 \in 1..5 \ {5} /\ 4 \in 1..5 \ {5}
    OBVIOUS
  <2>9. s[1].dts = acc[1].dts /\ Run(s, 1) = Durations(acc)
    <3>1. s \in Seq(Sample) /\ 1 \in 1..Len(s) /\ s[1].samples_per_chunk = Len(s)
      BY DEF OneCluster
    <3>2. Durations(acc) = [k \in 1..Len(s) |->
            [duration |-> IF k < Len(s) THEN s[k + 1].dts - s[k].dts ELSE 0, bytes |-> s[k].bytes]]
      BY <3>1, TakesInput
    <3>3. \A k \in 1..Len(s) : 1 + k - 1 = k
      BY <3>1
    <3>4. Run(s, 1) = Durations(acc)
      <4>. DEFINE N == Len(s)
                  Entry(i) == [duration |-> IF i < N THEN s[i + 1].dts - s[i].dts ELSE 0,
                               bytes |-> s[i].bytes]
      <4>1. Run(s, 1) = [k \in 1..N |-> Entry(1 + k - 1)]
        BY <3>1 DEF Run
      <4>2. Durations(acc) = [k \in 1..N |-> Entry(k)]
        BY <3>2
      <4>. HIDE DEF Entry
      <4>. QED  BY <3>3, <4>1, <4>2
    <3>5. s[1].dts = acc[1].dts
      BY <3>1 DEF Takes
    <3>. QED  BY <3>4, <3>5
  <2>10. Headed(d, acc, g[Len(acc)])
    <3>. HIDE DEF d, c, p, q
    <3>1. d[1].box = "styp"
      BY <2>2, <2>3, <2>5, <2>7, <2>8
    <3>2. /\ d[2] = c[2] /\ d[3] = c[3] /\ d[4] = c[4]
          /\ d[5].box = "trun" /\ d[5].run = Run(s, 1) /\ d[5].data_offset = 4 /\ d[6].box = "mdat"
      BY <2>6, <2>7, <2>8
    <3>. QED  BY <2>4, <2>5, <2>6, <2>9, <3>1, <3>2 DEF Headed
  <2>11. Media(d, 7, acc, g, Len(acc))
    BY <1>10, <2>7, <2>8
  <2>12. IsSequence(d)
    BY <1>9 DEF Onto, IsBuffer
  <2>. QED  BY <2>10, <2>11, <2>12 DEF Laid
<1>. QED  BY <1>2, <1>9, <1>11 DEF Onto

------------------------------------------------------------------------------
(* Filling a segment.                                                       *)

\* What the server wrote since the save before: a key frame can only come first.
Held(acc) == Input(acc) /\ \A k \in 1..Len(acc) : acc[k].key => k = 1

\* The samples of the one track are what was taken, all in one cluster.
Filling(w, acc) ==
  /\ Len(w.tracks) = 1 /\ w.tracks[1].offset = 0
  /\ LET s == w.tracks[1].samples
     IN /\ s # <<>> => s[1].samples_per_chunk = Len(s) /\ s[1].first_chunk + Len(s) = w.sn
        /\ Takes(s, acc)
  /\ \E g : Sums(acc, g) /\ w.mdat_size = g[Len(acc)]

\* A track whose samples are s, all in one cluster.
AllJoined(x, s) ==
  /\ x.offset = 0 /\ x.samples \in Seq(Sample) /\ Len(x.samples) = Len(s)
  /\ x.samples[1].samples_per_chunk = Len(s)
  /\ \A k \in 1..Len(s) : /\ x.samples[k].first_chunk = s[k].first_chunk
                          /\ x.samples[k].bytes = s[k].bytes /\ x.samples[k].dts = s[k].dts

\* A cluster of one track is never full: no other track is written in between.
LEMMA ClusterOfOne ==
  ASSUME NEW tracks, 1 \in DOMAIN tracks, {"samples", "offset"} \subseteq DOMAIN tracks[1],
         tracks[1].offset = 0, NEW s, s = tracks[1].samples, s \in Seq(Sample), s # <<>>,
         s[1].samples_per_chunk = Len(s) - 1, NEW sn, s[1].first_chunk + Len(s) = sn,
         NEW key \in BOOLEAN, key => Len(s) = 1, NEW r, r = Cluster(tracks, 1, key, sn)
  PROVE  AllJoined(r[1], s)
<1>. DEFINE n == Len(s)
            sw == Switched(tracks, 1, key, sn)
            y == [s[1] EXCEPT !.samples_per_chunk = n]
            z == [s EXCEPT ![1] = y]
            x == [sw[1] EXCEPT !.samples = z]
<1>1. /\ n \in Nat \ {0} /\ DOMAIN s = 1..n /\ 1 \in 1..n /\ s[1] \in Sample
      /\ s[1].first_chunk \in Nat
  <2>1. n \in Nat \ {0} /\ DOMAIN s = 1..n /\ 1 \in 1..n /\ s[1] \in Sample
    OBVIOUS
  <2>. QED  BY <2>1 DEF Sample
<1>2. /\ y \in Sample /\ y.samples_per_chunk = n /\ y.first_chunk = s[1].first_chunk
      /\ y.bytes = s[1].bytes /\ y.dts = s[1].dts
  <2>. HIDE DEF n
  <2>. QED  BY <1>1 DEF Sample
<1>3. ~Full(tracks, 1, sn)
  <2>1. /\ tracks[1].offset + 1 = 1
        /\ s[1].first_chunk + s[1].samples_per_chunk + 1 = sn
    <3>. HIDE DEF n
    <3>1. s[1].first_chunk + (n - 1) + 1 = sn
      BY <1>1 DEF n
    <3>. QED  BY <3>1 DEF n
  <2>. QED  BY <2>1 DEF Full
<1>4. /\ 1 \in DOMAIN sw /\ {"samples", "offset"} \subseteq DOMAIN sw[1]
      /\ sw[1].samples = s /\ sw[1].offset = 0
  <2>1. CASE sw = tracks
    BY <2>1
  <2>2. CASE sw # tracks
    <3>1. key = TRUE
      BY <1>3, <2>2 DEF Switched
    <3>2. sw = [u \in DOMAIN tracks |->
                  [tracks[u] EXCEPT !.offset = Len(tracks[u].samples) - (IF u = 1 THEN 1 ELSE 0)]]
      BY <2>2 DEF Switched
    <3>. DEFINE o == Len(tracks[1].samples) - 1
                v == tracks[1]
    <3>3. sw[1] = [v EXCEPT !.offset = o] /\ 1 \in DOMAIN sw
      BY <3>2
    <3>4. o = 0
      BY <3>1
    <3>5. {"samples", "offset"} \subseteq DOMAIN v /\ v.samples = s
      OBVIOUS
    <3>. HIDE DEF o, v, sw
    <3>. QED  BY <3>3, <3>4, <3>5
  <2>. QED  BY <2>1, <2>2
<1>5. r = [sw EXCEPT ![1] = x]
  <2>. DEFINE a == sw[1].offset + 1
              p == sw[1].samples
              w == [p[a] EXCEPT !.samples_per_chunk = p[a].samples_per_chunk + 1]
              q == [p EXCEPT ![a] = w]
  <2>1. r = [sw EXCEPT ![1] = [sw[1] EXCEPT !.samples = q]]
    <3>. HIDE DEF sw
    <3>. QED  BY DEF Cluster, sw
  <2>2. a = 1 /\ p = s
    BY <1>4
  <2>3. w = y
    <3>1. p[a] = s[1] /\ s[1].samples_per_chunk + 1 = n
      BY <1>1, <2>2
    <3>. HIDE DEF p, a, n
    <3>. QED  BY <3>1
  <2>. HIDE DEF w, y, a, p, sw
  <2>. QED  BY <2>1, <2>2, <2>3
<1>. HIDE DEF sw, y
<1>6. z[1] = y /\ z \in Seq(Sample) /\ Len(z) = n /\ \A k \in 1..n : k # 1 => z[k] = s[k]
  BY <1>1, <1>2
<1>. HIDE DEF z
<1>7. x.samples = z /\ x.offset = 0
  BY <1>4
<1>. HIDE DEF x
<1>8. r[1] = x
  BY <1>4, <1>5
<1>9. \A k \in 1..n : /\ z[k].first_chunk = s[k].first_chunk
                      /\ z[k].bytes = s[k].bytes /\ z[k].dts = s[k].dts
  BY <1>2, <1>6
<1>. QED  BY <1>2, <1>6, <1>7, <1>8, <1>9 DEF AllJoined, n

\* What was taken, with one sample more.
LEMMA OneMoreTaken ==
  ASSUME NEW acc, Held(acc), NEW in, in.bytes \in Nat, in.dts \in Nat, in.key => acc = <<>>,
         NEW g, Sums(acc, g)
  PROVE  LET r == Append(acc, in)
         IN /\ Held(r) /\ Len(r) = Len(acc) + 1 /\ r[Len(acc) + 1] = in
            /\ \A k \in 1..Len(acc) : r[k] = acc[k]
            /\ \E h : Sums(r, h) /\ h[Len(r)] = g[Len(acc)] + in.bytes
<1>. DEFINE r == Append(acc, in)
            n == Len(acc)
<1>1. PICK S : acc \in Seq(S)
  BY DEF Held, Input, IsSequence
<1>2. /\ n \in Nat /\ r \in Seq(S \cup {in}) /\ Len(r) = n + 1 /\ r[n + 1] = in
      /\ \A k \in 1..n : r[k] = acc[k]
  BY <1>1
<1>3. in.key => n = 0
  BY <1>1
<1>. HIDE DEF r, n
<1>4. \A k \in 1..n + 1 : k \in 1..n \/ k = n + 1
  BY <1>2
<1>5. Held(r)
  <2>1. IsSequence(r)
    BY <1>2 DEF IsSequence
  <2>2. \A k \in 1..n : acc[k].bytes \in Nat /\ acc[k].dts \in Nat /\ (acc[k].key => k = 1)
    BY DEF Held, Input, n
  <2>3. \A k \in 1..n + 1 : r[k].bytes \in Nat /\ r[k].dts \in Nat
    BY <1>2, <1>4, <2>2
  <2>4. \A k \in 1..n + 1 : r[k].key => k = 1
    BY <1>2, <1>3, <1>4, <2>2
  <2>. QED  BY <1>2, <2>1, <2>3, <2>4 DEF Held, Input
<1>6. \E h : Sums(r, h) /\ h[n + 1] = g[n] + in.bytes
  <2>. DEFINE h == [k \in 0..n + 1 |-> IF k = n + 1 THEN g[n] + in.bytes ELSE g[k]]
  <2>1. h[0] = 0
    BY <1>2 DEF Sums
  <2>2. ASSUME NEW k \in 1..n + 1
        PROVE  h[k] = h[k - 1] + r[k].bytes
    <3>1. k - 1 \in 0..n + 1 /\ k - 1 # n + 1 /\ k \in 0..n + 1
      BY <1>2
    <3>2. CASE k \in 1..n
      <4>1. k # n + 1 /\ g[k] = g[k - 1] + acc[k].bytes
        BY <1>2, <3>2 DEF Sums, n
      <4>. QED  BY <1>2, <3>1, <3>2, <4>1
    <3>3. CASE k = n + 1
      <4>1. k - 1 = n
        BY <1>2, <3>3
      <4>. QED  BY <1>2, <3>1, <3>3, <4>1
    <3>. QED  BY <1>4, <3>2, <3>3
  <2>3. h[n + 1] = g[n] + in.bytes
    BY <1>2
  <2>. HIDE DEF h
  <2>. QED  BY <1>2, <2>1, <2>2, <2>3 DEF Sums
<1>. QED  BY <1>2, <1>5, <1>6 DEF r, n

\* A sample more, or not: the writer keeps all it took in one cluster.
LEMMA TakeOfOne ==
  ASSUME NEW now \in Nat, NEW w, Whole(w, now), NEW acc, Held(acc), Filling(w, acc),
         NEW bytes \in Nat \ {0}, NEW dts \in Nat, now <= dts,
         NEW key \in BOOLEAN, key => w.mdat_size = 0, NEW grown, NEW copied,
         NEW v, v = Take(w, 1, bytes, dts, key, grown, copied),
         NEW in, in = [sample |-> w.sn, bytes |-> bytes, dts |-> dts, key |-> key]
  PROVE  /\ v.has_moov = w.has_moov
         /\ \/ v.sn = w.sn /\ Filling(v, acc)
            \/ v.sn # w.sn /\ Held(Append(acc, in)) /\ Filling(v, Append(acc, in))
<1>. DEFINE x == w.tracks[1]
            s == x.samples
            n == Len(s)
            full == TableFull(x)
            room == IF full THEN x.sample_offset + GROW ELSE x.sample_offset
            y == [x EXCEPT !.sample_offset = room, !.end_dts = dts]
            tracks == [w.tracks EXCEPT ![1] = y]
            ready == [w EXCEPT !.tracks[1] = y, !.aborted = @ \/ x.end_dts > dts]
            sample == [bytes |-> bytes, dts |-> dts, key |-> key, offset |-> 0,
                       samples_per_chunk |-> 0, first_chunk |-> ready.sn]
            q == Append(ready.tracks[1].samples, sample)
            more == [ready.tracks[1] EXCEPT !.samples = q]
            added == [ready.tracks EXCEPT ![1] = more]
            new == Cluster(added, 1, key, ready.sn + 1)
<1>1. /\ DOMAIN w = WriterFields /\ w.mdat_size \in Nat /\ w.sn \in Nat
      /\ IsSequence(w.tracks) /\ Len(w.tracks) = 1 /\ DOMAIN w.tracks = {1}
      /\ DOMAIN x = TrackFields /\ s \in Seq(Sample) /\ n \in Nat /\ x.offset = 0
      /\ (w.mdat_size = 0 => s = <<>>)
  <2>1. IsSequence(w.tracks) /\ Len(w.tracks) = 1 /\ 1 \in 1..Len(w.tracks) /\ x.offset = 0
    BY DEF Whole, Filling
  <2>2. DOMAIN w.tracks = 1..1 /\ 1..1 = {1}
    BY <2>1, SequenceIs
  <2>3. GoodTrack(x, now)
    BY <2>1 DEF Whole
  <2>. HIDE DEF x
  <2>4. DOMAIN x = TrackFields /\ s \in Seq(Sample) /\ n \in Nat
    BY <2>3 DEF GoodTrack
  <2>. QED  BY <2>1, <2>2, <2>4 DEF Whole, x
<1>2. /\ (s # <<>> => s[1].samples_per_chunk = n /\ s[1].first_chunk + n = w.sn) /\ Takes(s, acc)
      /\ n = Len(acc)
  BY DEF Filling, Takes
<1>3. PICK g : Sums(acc, g) /\ w.mdat_size = g[n]
  BY <1>2 DEF Filling
<1>4. v = w \/ v = ready \/ v = Store(ready, 1, bytes, dts, key)
  BY DEF Take
<1>5. /\ DOMAIN ready = WriterFields /\ ready.tracks = tracks /\ ready.sn = w.sn
      /\ ready.mdat_size = w.mdat_size /\ ready.has_moov = w.has_moov
  <2>1. ready = [w EXCEPT !.tracks = tracks, !.aborted = w.aborted \/ x.end_dts > dts]
    <3>. HIDE DEF x, y
    <3>. QED  BY <1>1 DEF WriterFields
  <2>. HIDE DEF tracks, ready, x
  <2>. QED  BY <1>1, <2>1 DEF WriterFields
<1>6. /\ DOMAIN y = TrackFields /\ y.samples = s /\ y.offset = 0
  <2>. HIDE DEF x, room
  <2>. QED  BY <1>1 DEF TrackFields
<1>. HIDE DEF y, ready, s, x
<1>7. /\ DOMAIN tracks = {1} /\ Len(tracks) = 1 /\ tracks[1] = y
  <2>1. tracks = [u \in 1..1 |-> tracks[u]] /\ tracks[1] = y /\ DOMAIN tracks = {1}
    BY <1>1
  <2>. HIDE DEF tracks
  <2>. QED  BY <2>1, OnIndices
<1>. HIDE DEF tracks
<1>8. Filling(ready, acc)
  BY <1>2, <1>3, <1>5, <1>6, <1>7 DEF Filling
<1>9. CASE v = w \/ v = ready
  BY <1>5, <1>8, <1>9
<1>10. CASE v = Store(ready, 1, bytes, dts, key)
  <2>1. /\ v.sn = w.sn + 1 /\ v.mdat_size = w.mdat_size + bytes /\ v.tracks = new
        /\ v.has_moov = w.has_moov
    <3>. DEFINE h == ready.heap \cup {ready.sn}
                size == ready.mdat_size + bytes
    <3>1. v = [ready EXCEPT !.sn = ready.sn + 1, !.heap = h, !.mdat_size = size, !.tracks = new]
      BY <1>10 DEF Store
    <3>. HIDE DEF h, new, size
    <3>2. /\ v.sn = ready.sn + 1 /\ v.mdat_size = size /\ v.tracks = new
          /\ v.has_moov = ready.has_moov
      BY <1>5, <3>1 DEF WriterFields
    <3>. QED  BY <1>5, <3>2 DEF size
  <2>2. /\ q = Append(s, sample) /\ sample.first_chunk = w.sn /\ sample.bytes = bytes
        /\ sample.dts = dts /\ sample.samples_per_chunk = 0 /\ sample \in Sample
    BY <1>1, <1>5, <1>6, <1>7 DEF Sample
  <2>. HIDE DEF sample, q
  <2>3. /\ q \in Seq(Sample) /\ Len(q) = n + 1 /\ q # <<>> /\ q[n + 1] = sample
        /\ \A k \in 1..n : q[k] = s[k]
    <3>. HIDE DEF n
    <3>1. s \in Seq(Sample) /\ sample \in Sample /\ n = Len(s) /\ n \in Nat
      BY <1>1, <2>2 DEF n
    <3>2. q \in Seq(Sample) /\ Len(q) = n + 1 /\ q[n + 1] = sample
      BY <2>2, <3>1
    <3>3. \A k \in 1..n : q[k] = s[k]
      BY <2>2, <3>1
    <3>. QED  BY <3>1, <3>2, <3>3
  <2>4. /\ q[1].samples_per_chunk = n /\ q[1].first_chunk + (n + 1) = w.sn + 1
    <3>1. CASE n = 0
      <4>1. q[1] = sample
        <5>1. n + 1 = 1
          BY <3>1
        <5>. QED  BY <2>3, <5>1
      <4>2. w.sn \in Nat /\ sample.samples_per_chunk = 0 /\ sample.first_chunk = w.sn
        BY <1>1, <2>2
      <4>. HIDE DEF n
      <4>. QED  BY ONLY <3>1, <4>1, <4>2
    <3>2. CASE n # 0
      <4>1. s # <<>> /\ 1 \in 1..n
        BY <1>1, <3>2
      <4>2. q[1] = s[1] /\ s[1].first_chunk + n = w.sn /\ s[1].samples_per_chunk = n
        BY <1>2, <2>3, <4>1
      <4>3. s[1].first_chunk \in Nat
        <5>1. s[1] \in Sample
          BY <1>1, <4>1
        <5>. QED  BY <5>1 DEF Sample
      <4>4. n \in Nat /\ w.sn \in Nat
        BY <1>1
      <4>. HIDE DEF n
      <4>. QED  BY ONLY <4>2, <4>3, <4>4
    <3>. QED  BY <3>1, <3>2
  <2>5. /\ DOMAIN added = {1} /\ added[1] = more /\ DOMAIN more = TrackFields
        /\ more.samples = q /\ more.offset = 0
    <3>1. ready.tracks[1] = y /\ DOMAIN ready.tracks = {1}
      BY <1>5, <1>7
    <3>2. DOMAIN more = TrackFields /\ more.samples = q /\ more.offset = 0
      BY <1>6, <3>1 DEF TrackFields
    <3>. HIDE DEF more
    <3>. QED  BY <3>1, <3>2
  <2>. HIDE DEF added, more
  <2>. DEFINE z == new[1].samples
  <2>6. /\ new[1].offset = 0 /\ z \in Seq(Sample) /\ Len(z) = n + 1
        /\ z[1].samples_per_chunk = n + 1
        /\ \A k \in 1..n + 1 : /\ z[k].first_chunk = q[k].first_chunk
                               /\ z[k].bytes = q[k].bytes /\ z[k].dts = q[k].dts
    <3>. DEFINE sn == ready.sn + 1
                c == Cluster(added, 1, key, sn)
    <3>1. /\ 1 \in DOMAIN added /\ {"samples", "offset"} \subseteq DOMAIN added[1]
          /\ added[1].offset = 0 /\ q = added[1].samples /\ q \in Seq(Sample) /\ q # <<>>
      BY <2>3, <2>5 DEF TrackFields
    <3>2. /\ Len(q) = n + 1 /\ q[1].samples_per_chunk = Len(q) - 1
          /\ q[1].first_chunk + Len(q) = sn
      BY <1>1, <1>5, <2>3, <2>4
    <3>3. key => Len(q) = 1
      <4>1. key => n = 0
        BY <1>1
      <4>. QED  BY <3>2, <4>1
    <3>4. c = Cluster(added, 1, key, sn)
      OBVIOUS
    <3>. HIDE DEF sn, c, n
    <3>5. AllJoined(c[1], q)
      <4>1. key \in BOOLEAN
        OBVIOUS
      <4>. QED  BY ONLY <3>1, <3>2, <3>3, <3>4, <4>1, ClusterOfOne
    <3>. QED  BY <3>2, <3>5 DEF AllJoined, c, sn
  <2>7. Len(new) = 1
    <3>1. bytes \in Nat \ {0} /\ now <= dts /\ v.tracks = new
      BY <2>1
    <3>. HIDE DEF new
    <3>. DEFINE u == 1
    <3>2. u \in 1..Len(w.tracks) /\ v = Take(w, u, bytes, dts, key, grown, copied)
      BY <1>1
    <3>. HIDE DEF u
    <3>3. Len(v.tracks) = Len(w.tracks)
      BY <3>1, <3>2, TakeWhole
    <3>. QED  BY <1>1, <3>1, <3>3
  <2>. HIDE DEF new
  <2>8. /\ in.bytes = bytes /\ in.dts = dts /\ in.key = key /\ in.sample = w.sn
        /\ (in.key => acc = <<>>)
    <3>1. key => n = 0
      BY <1>1
    <3>2. n = 0 => acc = <<>>
      BY <1>2, SequenceIs DEF Held, Input
    <3>. QED  BY <3>1, <3>2
  <2>. DEFINE all == Append(acc, in)
  <2>9. /\ Held(all) /\ Len(all) = n + 1 /\ all[n + 1] = in
        /\ \A k \in 1..n : all[k] = acc[k]
        /\ \E h : Sums(all, h) /\ h[Len(all)] = g[n] + bytes
    <3>1. in.bytes \in Nat /\ in.dts \in Nat /\ (in.key => acc = <<>>) /\ bytes = in.bytes
      BY <2>8
    <3>2. LET r == Append(acc, in)
          IN /\ Held(r) /\ Len(r) = Len(acc) + 1 /\ r[Len(acc) + 1] = in
             /\ \A k \in 1..Len(acc) : r[k] = acc[k]
             /\ \E h : Sums(r, h) /\ h[Len(r)] = g[Len(acc)] + in.bytes
      BY ONLY Held(acc), <1>3, <3>1, OneMoreTaken
    <3>. QED  BY <1>2, <3>1, <3>2
  <2>. HIDE DEF all, z, n
  <2>10. Takes(z, all)
    <3>1. ASSUME NEW k \in 1..n + 1
          PROVE  /\ z[k].first_chunk = all[k].sample /\ z[k].bytes = all[k].bytes
                 /\ z[k].dts = all[k].dts
      <4>1. CASE k \in 1..n
        <5>1. /\ s[k].first_chunk = acc[k].sample /\ s[k].bytes = acc[k].bytes
              /\ s[k].dts = acc[k].dts
          BY <1>2, <4>1 DEF Takes, n
        <5>. QED  BY <2>3, <2>6, <2>9, <4>1, <5>1
      <4>2. CASE k = n + 1
        BY <2>2, <2>3, <2>6, <2>8, <2>9, <4>2
      <4>3. k \in 1..n \/ k = n + 1
        BY <1>1
      <4>. QED  BY <4>1, <4>2, <4>3
    <3>. QED  BY <2>6, <2>9, <3>1 DEF Takes
  <2>11. Filling(v, all)
    <3>1. z # <<>> => z[1].samples_per_chunk = Len(z) /\ z[1].first_chunk + Len(z) = v.sn
      <4>1. 1 \in 1..n + 1
        BY <1>1
      <4>. QED  BY <2>1, <2>4, <2>6, <4>1
    <3>2. \E h : Sums(all, h) /\ v.mdat_size = h[Len(all)]
      BY <1>3, <2>1, <2>9
    <3>. QED  BY <2>1, <2>6, <2>7, <2>10, <3>1, <3>2 DEF Filling, z
  <2>12. v.sn # w.sn
    BY <1>1, <2>1
  <2>. QED  BY <2>1, <2>9, <2>11, <2>12 DEF all
<1>. QED  BY <1>4, <1>9, <1>10

\* What the writer of the server has taken since the save before.
Kept(w, acc) ==
  /\ w.has_moov = FALSE /\ Held(acc)
  /\ IF w.tracks = <<>> THEN acc = <<>> /\ w.mdat_size = 0 ELSE Filling(w, acc)

\* Nothing was taken yet.
LEMMA NothingKept ==
  ASSUME NEW w, w.has_moov = FALSE, w.mdat_size = 0,
         w.tracks # <<>> => /\ Len(w.tracks) = 1
                            /\ w.tracks[1].samples = <<>> /\ w.tracks[1].offset = 0
  PROVE  Kept(w, <<>>)
<1>1. <<>> \in Seq(Nat) /\ Len(<<>>) = 0 /\ 1..0 = {}
  OBVIOUS
<1>2. Held(<<>>) /\ Takes(<<>>, <<>>)
  BY <1>1 DEF Held, Input, IsSequence, Takes
<1>3. \E g : Sums(<<>>, g) /\ g[0] = 0
  <2>. DEFINE g == [k \in {0} |-> 0]
  <2>1. Sums(<<>>, g) /\ g[0] = 0
    BY <1>1 DEF Sums
  <2>. QED  BY <2>1
<1>4. w.tracks # <<>> => Filling(w, <<>>)
  BY <1>1, <1>2, <1>3 DEF Filling
<1>. QED  BY <1>2, <1>4 DEF Kept

\* A save of the server: a segment of what was taken, or nothing of nothing.
LEMMA SaveOfOne ==
  ASSUME SEGMENT, NEW now \in Nat, NEW w, Whole(w, now), NEW acc, Kept(w, acc),
         NEW b, IsBuffer(b), b.cells = <<>>, NEW grown, NEW f, f = SaveSegment(w, b, grown)
  PROVE  /\ IsBuffer(f.b) /\ (~f.b.error => Segment(f.b.cells, acc))
         /\ Kept(f.w, <<>>) /\ f.w.mdat_size = 0
<1>. DEFINE h == Fragment(w, b, grown)
            n == Len(w.tracks)
<1>1. /\ w.mdat_size \in Nat /\ w.has_moov = FALSE /\ IsSequence(acc) /\ IsSequence(w.tracks)
      /\ n \in Nat /\ (n = 0 <=> w.tracks = <<>>)
  BY SequenceIs DEF Whole, Kept, Held, Input
<1>2. DOMAIN h = {"w", "b"} /\ DOMAIN h.w = WriterFields
  <2>1. DOMAIN h = {"w", "b"}
    BY DEF Fragment
  <2>2. Whole(h.w, now)
    BY FragmentWhole
  <2>. QED  BY <2>1, <2>2 DEF Whole
<1>3. /\ f.b = h.b /\ f.w.has_moov = FALSE /\ f.w.mdat_size = h.w.mdat_size
  <2>. DEFINE closed == [h.w EXCEPT !.has_moov = FALSE]
  <2>1. f = [h EXCEPT !.w = closed]
    BY DEF SaveSegment
  <2>2. closed.has_moov = FALSE /\ closed.mdat_size = h.w.mdat_size
    <3>. HIDE DEF h
    <3>. QED  BY <1>2 DEF WriterFields
  <2>. HIDE DEF h, closed
  <2>. QED  BY <1>2, <2>1, <2>2
<1>4. /\ Whole(f.w, now) /\ Len(f.w.tracks) = n
      /\ \A t \in 1..n : f.w.tracks[t].samples = <<>> /\ f.w.tracks[t].offset = 0
  <2>1. /\ Whole(f.w, now) /\ Len(f.w.tracks) = n
        /\ \A t \in 1..n : f.w.tracks[t].samples = <<>>
    <3>. HIDE DEF h
    <3>. QED  BY SaveWhole
  <2>2. ASSUME NEW t \in 1..n
        PROVE  f.w.tracks[t].offset = 0
    <3>1. GoodTrack(f.w.tracks[t], now) /\ f.w.tracks[t].samples = <<>> /\ Len(<<>>) = 0
      BY <2>1 DEF Whole
    <3>. QED  BY <3>1 DEF GoodTrack, Parted
  <2>. QED  BY <2>1, <2>2
<1>5. /\ IsBuffer(h.b) /\ (~h.b.error => Segment(h.b.cells, acc)) /\ h.w.mdat_size = 0
  <2>1. CASE w.mdat_size = 0
    <3>1. h.b = b /\ h.w = w
      BY <2>1 DEF Fragment
    <3>2. acc = <<>>
      <4>1. CASE w.tracks = <<>>
        BY <4>1 DEF Kept
      <4>2. CASE w.tracks # <<>>
        <5>1. /\ Len(w.tracks) = 1 /\ Takes(w.tracks[1].samples, acc) /\ 1 \in 1..Len(w.tracks)
          BY <4>2 DEF Kept, Filling
        <5>2. w.tracks[1].samples = <<>> /\ Len(<<>>) = 0
          BY <2>1, <5>1 DEF Whole
        <5>3. Len(acc) = 0
          BY <5>1, <5>2 DEF Takes
        <5>. QED  BY <1>1, <5>3, SequenceIs
      <4>. QED  BY <4>1, <4>2
    <3>. QED  BY <2>1, <3>1, <3>2 DEF Segment
  <2>2. CASE w.mdat_size # 0
    <3>. DEFINE s == w.tracks[1].samples
    <3>1. /\ w.tracks # <<>> /\ n = 1 /\ Takes(s, acc)
          /\ (s # <<>> => s[1].samples_per_chunk = Len(s))
          /\ \E g : Sums(acc, g) /\ w.mdat_size = g[Len(acc)]
      BY <2>2 DEF Kept, Filling
    <3>2. PICK g : Sums(acc, g) /\ w.mdat_size = g[Len(acc)]
      BY <3>1
    <3>3. acc # <<>>
      <4>1. Len(<<>>) = 0
        OBVIOUS
      <4>. QED  BY <2>2, <3>2, <4>1 DEF Sums
    <3>4. s \in Seq(Sample) /\ s # <<>>
      <4>1. 1 \in 1..n
        BY <3>1
      <4>2. s \in Seq(Sample)
        BY <4>1 DEF Whole, GoodTrack
      <4>3. Len(s) # 0
        BY <1>1, <3>1, <3>3, SequenceIs DEF Takes
      <4>. QED  BY <4>2, <4>3
    <3>5. OneCluster(s)
      BY <3>1, <3>4 DEF OneCluster
    <3>6. IsBuffer(h.b) /\ (~h.b.error => Laid(h.b.cells, acc, g))
      <4>1. h = Fragment(w, b, grown) /\ s = w.tracks[1].samples
        OBVIOUS
      <4>. HIDE DEF h, s
      <4>. QED  BY <1>1, <2>2, <3>1, <3>2, <3>5, <4>1, FragmentOfOne
    <3>7. h.w.mdat_size = 0
      <4>1. PICK moof : Fragmented(w, b, h, grown, moof)
        <5>1. n # 0
          BY <3>1
        <5>. QED  BY <2>2, <5>1, FragmentDoes
      <4>. QED  BY <4>1 DEF Fragmented
    <3>. QED  BY <3>2, <3>3, <3>6, <3>7 DEF Segment
  <2>. QED  BY <2>1, <2>2
<1>6. Kept(f.w, <<>>)
  <2>. DEFINE v == f.w
  <2>1. v.has_moov = FALSE /\ v.mdat_size = 0
    BY <1>3, <1>5
  <2>2. v.tracks # <<>> => Len(v.tracks) = 1 /\ v.tracks[1].samples = <<>> /\ v.tracks[1].offset = 0
    <3>1. CASE w.tracks = <<>>
      <4>1. Len(v.tracks) = 0 /\ IsSequence(v.tracks)
        BY <1>1, <1>4, <3>1 DEF Whole
      <4>. QED  BY <4>1, SequenceIs
    <3>2. CASE w.tracks # <<>>
      <4>1. n = 1 /\ 1 \in 1..n
        BY <3>2 DEF Kept, Filling
      <4>. QED  BY <1>4, <4>1
    <3>. QED  BY <3>1, <3>2
  <2>. HIDE DEF v
  <2>3. Kept(v, <<>>)
    BY <2>1, <2>2, NothingKept
  <2>. QED  BY <2>3 DEF v
<1>. QED  BY <1>3, <1>5, <1>6

------------------------------------------------------------------------------
(* The calls of the server.                                                 *)

\* What the server finds when it fills a segment and when it has saved one.  Behind a
\* save there is nothing to write yet (raw): only then a key frame comes.
Served ==
  /\ IsBuffer(io) /\ io.cells = <<>>
  /\ DOMAIN accepted = {1} /\ Kept(writer, accepted[1])
  /\ ~raw => writer.mdat_size = 0
  /\ saved.ok => Held(saved.input[1]) /\ Segment(saved.cells, saved.input[1])

ServerInv == IInv /\ (SEGMENT => Served)

LEMMA OneTrack ==
  ASSUME IInv, SEGMENT
  PROVE  /\ Tracks = <<"video">> /\ Len(Tracks) = 1 /\ Tracks[1] = "video"
         /\ Nothing = [i \in {1} |-> <<>>]
<1>1. Tracks = <<"video">>
  BY ServerAssumption DEF IInv, Tracks, SEGMENT
<1>2. Len(<<"video">>) = 1 /\ <<"video">>[1] = "video" /\ 1..1 = {1}
  OBVIOUS
<1>. QED  BY <1>1, <1>2 DEF Nothing

\* What is said of the state behind a step is said of its values.
LEMMA ServedThen ==
  ASSUME IsBuffer(io'), io'.cells = <<>>, DOMAIN accepted' = {1}, Kept(writer', accepted'[1]),
         ~raw' => writer'.mdat_size = 0,
         saved'.ok => Held(saved'.input[1]) /\ Segment(saved'.cells, saved'.input[1])
  PROVE  Served'
BY DEF Served, IsBuffer, Kept, Held, Input, Filling, Takes, Sums, Segment, Laid, Headed, Media,
       Durations, IsSequence

LEMMA NothingSaved ==
  ASSUME NEW sv, sv.cells = <<>>, sv.input[1] = <<>>
  PROVE  Held(sv.input[1]) /\ Segment(sv.cells, sv.input[1])
<1>1. <<>> \in Seq(Nat) /\ Len(<<>>) = 0 /\ 1..0 = {}
  OBVIOUS
<1>2. Held(<<>>)
  BY <1>1 DEF Held, Input, IsSequence
<1>. QED  BY <1>2 DEF Segment

LEMMA ServerInit == Init => ServerInv
<1>. SUFFICES ASSUME Init PROVE ServerInv
  OBVIOUS
<1>1. IInv
  BY InitInv
<1>2. ASSUME SEGMENT
      PROVE  Served
  <2>1. Nothing = [i \in {1} |-> <<>>]
    BY <1>1, <1>2, OneTrack
  <2>2. /\ DOMAIN io = {"cells", "error", "limit"} /\ io.error = FALSE /\ io.cells = <<>>
        /\ writer.tracks = <<>> /\ writer.mdat_size = 0 /\ writer.has_moov = FALSE
        /\ accepted = Nothing /\ saved.cells = <<>> /\ saved.input = Nothing
    BY DEF Init, NotSaved
  <2>3. IsBuffer(io)
    <3>1. <<>> \in Seq(Nat)
      OBVIOUS
    <3>. QED  BY <2>2, <3>1 DEF IsBuffer, IsSequence
  <2>4. Kept(writer, accepted[1])
    BY <2>1, <2>2, NothingKept
  <2>5. Held(saved.input[1]) /\ Segment(saved.cells, saved.input[1])
    BY <2>1, <2>2, NothingSaved
  <2>. QED  BY <2>1, <2>2, <2>3, <2>4, <2>5 DEF Served
<1>. QED  BY <1>1, <1>2 DEF ServerInv

\* The track is there, or it could not be added, which the server does not notice.
LEMMA ServerSetup == ServerInv /\ Setup => ServerInv'
<1>. SUFFICES ASSUME ServerInv, Setup PROVE ServerInv'
  OBVIOUS
<1>0. IInv
  BY DEF ServerInv
<1>1. IInv'
  BY <1>0, SetupInv
<1>. DEFINE b == Put(io, <<[box |-> "ftyp"], [box |-> "moov"]>>)
<1>2. /\ io' = [b EXCEPT !.cells = <<>>] /\ UNCHANGED <<caller, raw, accepted, saved>>
      /\ phase = "new"
      /\ \E added \in AllocResults :
           writer' = [writer EXCEPT !.tracks =
                        IF added THEN [i \in 1..Len(Tracks) |-> NewTrack(Tracks[i])]
                        ELSE <<>>]
  BY DEF Setup
<1>3. ASSUME SEGMENT
      PROVE  Served'
  <2>1. Served /\ Len(Tracks) = 1 /\ writer.tracks = <<>> /\ DOMAIN writer = WriterFields
    BY <1>0, <1>2, <1>3, OneTrack DEF ServerInv, IInv, Whole
  <2>2. IsBuffer(io') /\ io'.cells = <<>>
    <3>. DEFINE new == <<[box |-> "ftyp"], [box |-> "moov"]>>
    <3>1. new \in Seq([box : {"ftyp", "moov"}])
      OBVIOUS
    <3>2. IsSequence(new)
      BY <3>1 DEF IsSequence
    <3>. HIDE DEF new
    <3>3. IsBuffer(Put(io, new))
      BY <2>1, <3>2, PutDoes DEF Served
    <3>4. IsBuffer(b)
      BY <3>3 DEF new
    <3>. HIDE DEF b
    <3>. QED  BY <1>2, <3>4, Emptied
  <2>3. accepted[1] = <<>> /\ writer.mdat_size = 0 /\ writer.has_moov = FALSE
    BY <2>1 DEF Served, Kept
  <2>. DEFINE v == writer'
              q == [i \in 1..1 |-> NewTrack(Tracks[i])]
  <2>4. /\ v.mdat_size = 0 /\ v.has_moov = FALSE
        /\ v.tracks = <<>> \/ v.tracks = q
    BY <1>2, <2>1, <2>3 DEF WriterFields
  <2>5. Len(q) = 1 /\ q[1].samples = <<>> /\ q[1].offset = 0
    <3>1. q = [i \in 1..1 |-> q[i]] /\ 1 \in 1..1
      OBVIOUS
    <3>2. q[1].samples = <<>> /\ q[1].offset = 0
      BY <3>1 DEF NewTrack
    <3>. HIDE DEF q
    <3>. QED  BY <3>1, <3>2, OnIndices
  <2>. HIDE DEF v, q
  <2>6. Kept(v, <<>>)
    BY <2>4, <2>5, NothingKept
  <2>7. /\ DOMAIN accepted' = {1} /\ Kept(writer', accepted'[1]) /\ writer'.mdat_size = 0
        /\ (saved'.ok => Held(saved'.input[1]) /\ Segment(saved'.cells, saved'.input[1]))
    BY <1>2, <2>1, <2>3, <2>4, <2>6 DEF Served, v
  <2>. QED  BY <2>2, <2>7, ServedThen
<1>4. SEGMENT' = SEGMENT
  BY <1>2 DEF SEGMENT
<1>. QED  BY <1>1, <1>3, <1>4 DEF ServerInv

\* A key frame comes behind a save only, so it ends no fragment.
LEMMA ServerWrite == ServerInv /\ Write => ServerInv'
<1>. SUFFICES ASSUME ServerInv, Write PROVE ServerInv'
  OBVIOUS
<1>0. /\ IInv /\ Whole(writer, clock) /\ clock \in Nat /\ caller \in Callers
      /\ calls.samples \in Nat
  BY DEF ServerInv, IInv
<1>1. IInv'
  BY <1>0, WriteInv
<1>2. PICK t \in 1..Len(Tracks), bytes \in caller.sizes, key \in BOOLEAN,
           grown \in AllocResults, copied \in AllocResults,
           entries \in [1..Len(Tracks) -> AllocResults] :
        /\ key => Tracks[t] = "video"
        /\ SEGMENT => (key <=> ~raw)
        /\ clock' = clock + calls.samples + 1
        /\ IF writer.tracks = <<>> THEN UNCHANGED <<writer, io, accepted>>
           ELSE LET f == BeforeKey(writer, io, t, key, entries)
                    w == IF f.w.aborted THEN f.w
                         ELSE Take(f.w, t, bytes, clock', key, grown, copied)
                IN /\ writer' = w /\ io' = f.b
                   /\ accepted' = IF w.sn = f.w.sn THEN accepted
                                  ELSE [accepted EXCEPT ![t] = Append(@,
                                         [sample |-> f.w.sn, bytes |-> bytes,
                                          dts |-> clock', key |-> key])]
  BY DEF Write
<1>3. saved' = NotSaved /\ caller' = caller /\ raw' = TRUE
  BY DEF Write
<1>4. ASSUME SEGMENT
      PROVE  Served'
  <2>1. /\ Served /\ Len(Tracks) = 1 /\ Nothing = [i \in {1} |-> <<>>] /\ t = 1
    <3>1. Served /\ Len(Tracks) = 1 /\ Nothing = [i \in {1} |-> <<>>]
      BY <1>0, <1>4, OneTrack DEF ServerInv
    <3>2. \A i \in 1..1 : i = 1
      OBVIOUS
    <3>. QED  BY <3>1, <3>2
  <2>2. Held(saved'.input[1]) /\ Segment(saved'.cells, saved'.input[1])
    <3>1. saved'.cells = <<>> /\ saved'.input = Nothing
      BY <1>3 DEF NotSaved
    <3>2. saved'.input[1] = <<>>
      BY <2>1, <3>1
    <3>. QED  BY <3>1, <3>2, NothingSaved
  <2>3. CASE writer.tracks = <<>>
    <3>1. UNCHANGED <<writer, io, accepted>>
      BY <1>2, <2>3
    <3>. QED  BY <1>3, <2>1, <2>2, <3>1, ServedThen DEF Served
  <2>4. CASE writer.tracks # <<>>
    <3>. DEFINE f == BeforeKey(writer, io, t, key, entries)
                v == Take(writer, t, bytes, clock', key, grown, copied)
                in == [sample |-> writer.sn, bytes |-> bytes, dts |-> clock', key |-> key]
                acc == accepted[1]
    <3>1. key => writer.mdat_size = 0
      BY <1>2, <1>4, <2>1 DEF Served
    <3>2. f.w = writer /\ f.b = io
      <4>1. CASE key
        <5>1. writer.mdat_size < 1
          BY <3>1, <4>1
        <5>2. Fragment(writer, io, entries) = [w |-> writer, b |-> io]
          BY <5>1 DEF Fragment
        <5>. QED  BY <5>2 DEF BeforeKey
      <4>2. CASE ~key
        BY <4>2 DEF BeforeKey
      <4>. QED  BY <4>1, <4>2
    <3>. HIDE DEF f
    <3>3. /\ writer' = v /\ io' = io
          /\ accepted' = IF v.sn = writer.sn THEN accepted
                         ELSE [accepted EXCEPT ![t] = Append(accepted[t], in)]
      <4>1. writer.aborted = FALSE
        BY <1>0 DEF Whole
      <4>. HIDE DEF v, in
      <4>. QED  BY <1>2, <2>4, <3>2, <4>1 DEF f, v, in
    <3>4. /\ Kept(writer, acc) /\ DOMAIN accepted = {1}
          /\ Held(acc) /\ Filling(writer, acc) /\ writer.has_moov = FALSE
      BY <2>1, <2>4 DEF Served, Kept
    <3>5. /\ v.has_moov = writer.has_moov
          /\ \/ v.sn = writer.sn /\ Filling(v, acc)
             \/ v.sn # writer.sn /\ Held(Append(acc, in)) /\ Filling(v, Append(acc, in))
      <4>. DEFINE then == clock'
                  w == writer
      <4>1. then \in Nat /\ clock <= then
        BY <1>0, <1>2
      <4>2. bytes \in Nat \ {0}
        BY <1>0, CallerAssumption
      <4>3. /\ v = Take(w, 1, bytes, then, key, grown, copied)
            /\ in = [sample |-> w.sn, bytes |-> bytes, dts |-> then, key |-> key]
        BY <2>1
      <4>4. Whole(w, clock) /\ clock \in Nat /\ Held(acc) /\ Filling(w, acc)
            /\ (key => w.mdat_size = 0) /\ key \in BOOLEAN
        BY <1>0, <3>1, <3>4
      <4>. HIDE DEF then, v, in, acc, w
      <4>5. /\ v.has_moov = w.has_moov
            /\ \/ v.sn = w.sn /\ Filling(v, acc)
               \/ v.sn # w.sn /\ Held(Append(acc, in)) /\ Filling(v, Append(acc, in))
        BY ONLY <4>1, <4>2, <4>3, <4>4, TakeOfOne
      <4>. QED  BY <4>5 DEF w
    <3>. HIDE DEF v, in, acc
    <3>6. v.tracks # <<>>
      <4>. DEFINE none == <<>>
      <4>1. Len(v.tracks) = 1 /\ Len(none) = 0
        BY <3>5 DEF Filling
      <4>. HIDE DEF none
      <4>2. v.tracks # none
        <5>1. Len(v.tracks) # Len(none)
          BY ONLY <4>1
        <5>. QED  BY ONLY <5>1
      <4>. QED  BY <4>2 DEF none
    <3>7. /\ DOMAIN accepted' = {1}
          /\ accepted'[1] = IF v.sn = writer.sn THEN acc ELSE Append(acc, in)
      BY <2>1, <3>3, <3>4 DEF acc
    <3>8. Kept(v, accepted'[1])
      BY <3>4, <3>5, <3>6, <3>7 DEF Kept
    <3>9. IsBuffer(io') /\ io'.cells = <<>> /\ Kept(writer', accepted'[1])
      BY <2>1, <3>3, <3>8 DEF Served
    <3>. QED  BY <1>3, <2>2, <3>7, <3>9, ServedThen
  <2>. QED  BY <2>3, <2>4
<1>5. SEGMENT' = SEGMENT
  BY <1>3 DEF SEGMENT
<1>. QED  BY <1>1, <1>4, <1>5 DEF ServerInv

LEMMA ServerSave == ServerInv /\ Save => ServerInv'
<1>. SUFFICES ASSUME ServerInv, Save PROVE ServerInv'
  OBVIOUS
<1>0. IInv /\ Whole(writer, clock) /\ clock \in Nat
  BY DEF ServerInv, IInv
<1>1. IInv'
  BY <1>0, SaveInv
<1>2. PICK entries \in [1..Len(Tracks) -> AllocResults] :
        Saved(SaveSegment(writer, io, entries))
  BY DEF Save
<1>. DEFINE s == SaveSegment(writer, io, entries)
<1>3. /\ writer' = s.w /\ io' = [s.b EXCEPT !.cells = <<>>] /\ caller' = caller
      /\ saved' = [ok |-> ~s.b.error, cells |-> s.b.cells, input |-> accepted]
      /\ accepted' = Nothing
  BY <1>2 DEF Saved, Save
<1>4. s = SaveSegment(writer, io, entries)
  OBVIOUS
<1>. HIDE DEF s
<1>5. ASSUME SEGMENT
      PROVE  Served'
  <2>1. Served /\ Nothing = [i \in {1} |-> <<>>]
    BY <1>0, <1>5, OneTrack DEF ServerInv
  <2>2. /\ IsBuffer(s.b) /\ (~s.b.error => Segment(s.b.cells, accepted[1]))
        /\ Kept(s.w, <<>>) /\ s.w.mdat_size = 0
    BY <1>0, <1>4, <1>5, <2>1, SaveOfOne DEF Served
  <2>3. Held(accepted[1])
    BY <2>1 DEF Served, Kept
  <2>4. IsBuffer(io') /\ io'.cells = <<>>
    BY <1>3, <2>2, Emptied
  <2>5. DOMAIN accepted' = {1} /\ accepted'[1] = <<>>
    BY <1>3, <2>1
  <2>6. saved'.ok => Held(saved'.input[1]) /\ Segment(saved'.cells, saved'.input[1])
    BY <1>3, <2>2, <2>3
  <2>. QED  BY <1>3, <2>2, <2>4, <2>5, <2>6, ServedThen
<1>6. SEGMENT' = SEGMENT
  BY <1>3 DEF SEGMENT
<1>. QED  BY <1>1, <1>5, <1>6 DEF ServerInv

LEMMA ServerInvariance == Spec => []ServerInv
<1>1. ServerInv /\ [Next]_vars => ServerInv'
  <2>. SUFFICES ASSUME ServerInv, [Next]_vars PROVE ServerInv'
    OBVIOUS
  <2>1. CASE UNCHANGED vars
    <3>1. IInv'
      BY <2>1 DEF ServerInv, IInv, vars, Tracks
    <3>2. UNCHANGED <<caller, io, writer, raw, accepted, saved>>
      BY <2>1 DEF vars
    <3>3. SEGMENT' = SEGMENT
      BY <3>2 DEF SEGMENT
    <3>4. Served => Served'
      BY <3>2, ServedThen DEF Served
    <3>. QED  BY <3>1, <3>3, <3>4 DEF ServerInv
  <2>2. CASE Finished
    BY <2>1, <2>2 DEF Finished
  <2>3. CASE Destroy
    <3>1. ~SEGMENT /\ SEGMENT' = SEGMENT
      BY <2>3 DEF Destroy, SEGMENT
    <3>2. IInv'
      BY <2>3, DestroyInv DEF ServerInv
    <3>. QED  BY <3>1, <3>2 DEF ServerInv
  <2>. QED  BY <2>1, <2>2, <2>3, ServerSetup, ServerWrite, ServerSave DEF Next
<1>. QED  BY <1>1, ServerInit, PTL DEF Spec

------------------------------------------------------------------------------
(* What the server finds in a segment.                                      *)

\* The samples that can be read in a segment are those that were written, and the
\* first of them is the only sync sample.
LEMMA SegmentHolds ==
  ASSUME NEW cells, NEW s, Input(s), Segment(cells, s), Tracks[1] = "video"
  PROVE  LET out == Samples(cells, 1)
         IN /\ Len(out) = Len(s)
            /\ \A k \in 1..Len(s) :
                 /\ s[1].dts < WORD => out[k].dts = s[k].dts
                 /\ out[k].sync <=> k = 1
                 /\ out[k].data = Data([bytes |-> s[k].bytes, first_chunk |-> s[k].sample])
<1>1. CASE cells = <<>> /\ s = <<>>
  <2>. DEFINE out == Samples(cells, 1)
  <2>1. out = <<>>
    BY <1>1, NoMoof
  <2>2. Len(out) = 0 /\ Len(s) = 0 /\ 1..0 = {}
    BY <1>1, <2>1
  <2>. QED  BY <2>2
<1>2. CASE s # <<>> /\ \E g : Sums(s, g) /\ Laid(cells, s, g)
  <2>1. PICK g : Sums(s, g) /\ Laid(cells, s, g)
    BY <1>2
  <2>. QED  BY <1>2, <2>1, SegmentRead
<1>. QED  BY <1>1, <1>2 DEF Segment

\* A segment that was saved, by what its one track says.
LEMMA ServerSaved ==
  ASSUME ServerInv, SEGMENT, saved.ok
  PROVE  LET s == saved.input[1]
             out == Samples(saved.cells, 1)
         IN /\ Held(s) /\ Segment(saved.cells, s) /\ Len(s) \in Nat
            /\ Len(out) = Len(s)
            /\ \A k \in 1..Len(s) :
                 /\ s[1].dts < WORD => out[k].dts = s[k].dts
                 /\ out[k].sync <=> k = 1
                 /\ out[k].data = Data([bytes |-> s[k].bytes, first_chunk |-> s[k].sample])
<1>. DEFINE s == saved.input[1]
            cells == saved.cells
<1>1. Held(s) /\ Segment(cells, s)
  BY DEF ServerInv, Served
<1>2. Tracks[1] = "video"
  BY OneTrack DEF ServerInv
<1>. HIDE DEF s, cells
<1>3. Input(s) /\ Len(s) \in Nat
  BY <1>1, SequenceIs DEF Held, Input
<1>4. LET out == Samples(cells, 1)
      IN /\ Len(out) = Len(s)
         /\ \A k \in 1..Len(s) :
              /\ s[1].dts < WORD => out[k].dts = s[k].dts
              /\ out[k].sync <=> k = 1
              /\ out[k].data = Data([bytes |-> s[k].bytes, first_chunk |-> s[k].sample])
  BY <1>1, <1>2, <1>3, SegmentHolds
<1>. QED  BY <1>1, <1>3, <1>4 DEF s, cells

\* A segment that the server saved and published holds, for a reader who has only the
\* boxes, every sample the writer took since the segment before, once, in order, with
\* its bytes and, for the library's own reader, with its time while times fit in one
\* word (mov_buffer_r64): whatever samples in whatever number come at whatever times,
\* and whichever allocations fail, in dash_mpd_input, fmp4_writer_write and
\* fmp4_writer_save_segment.
THEOREM SegmentsAreWhole == Spec => [](SEGMENT => SavedIsWhole)
<1>1. ServerInv => (SEGMENT => SavedIsWhole)
  <2>. SUFFICES ASSUME ServerInv, SEGMENT, saved.ok
                PROVE  LET out == Samples(saved.cells, 1)
                           input == saved.input[1]
                       IN /\ Len(out) = Len(input)
                          /\ \A k \in 1..Len(input) :
                               /\ (\A i \in 1..k : input[i].dts < WORD)
                                    => out[k].dts = input[k].dts
                               /\ out[k].data = Data([bytes |-> input[k].bytes,
                                                      first_chunk |-> input[k].sample])
    <3>1. SEGMENT /\ ServerInv => 1..Len(Tracks) = {1}
      <4>1. 1..1 = {1}
        OBVIOUS
      <4>. QED  BY <4>1, OneTrack DEF ServerInv
    <3>. QED  BY <3>1 DEF SavedIsWhole
  <2>1. \A k \in 1..Len(saved.input[1]) : 1 \in 1..k
    BY ServerSaved
  <2>. QED  BY <2>1, ServerSaved
<1>. QED  BY <1>1, ServerInvariance, PTL

\* In every segment of the server exactly the key frames are marked as sync samples,
\* though fmp4_write_trun marks the first sample of a trun without looking: a segment is
\* one trun, and dash_mpd_input has saved the one before ahead of each key frame.
THEOREM SyncSamplesAre == Spec => []SyncSamplesAreKeys
<1>1. ServerInv => SyncSamplesAreKeys
  <2>. SUFFICES ASSUME ServerInv, saved.ok, SEGMENT
                PROVE  LET out == Samples(saved.cells, 1)
                           key(k) == saved.input[1][k].key
                           refused == \A k \in 1..Len(out) : ~key(k)
                       IN \A k \in 1..Len(out) : out[k].sync <=> key(k) \/ (refused /\ k = 1)
    BY DEF SyncSamplesAreKeys
  <2>. DEFINE s == saved.input[1]
              out == Samples(saved.cells, 1)
  <2>1. /\ \A k \in 1..Len(s) : s[k].key => k = 1
        /\ Len(s) \in Nat /\ Len(out) = Len(s)
        /\ \A k \in 1..Len(s) : out[k].sync <=> k = 1
    BY ServerSaved DEF Held
  <2>. HIDE DEF s, out
  <2>2. ASSUME NEW k \in 1..Len(out)
        PROVE  out[k].sync <=> s[k].key \/ ((\A i \in 1..Len(out) : ~s[i].key) /\ k = 1)
    <3>1. 1 \in 1..Len(s) /\ k \in 1..Len(s)
      BY <2>1
    <3>. QED  BY <2>1, <3>1
  <2>. QED  BY <2>2 DEF s, out
<1>. QED  BY <1>1, ServerInvariance, PTL

\* The index ahead of a segment leads to its fragment and ends where it ends.
LEMMA SegmentSpanned ==
  ASSUME NEW cells, NEW s, Input(s), Segment(cells, s), NEW p \in 1..Len(cells),
         cells[p].box = "sidx"
  PROVE  LET start == p + 1 + cells[p].first_offset
         IN /\ cells[start].box = "moof"
            /\ start + cells[p].referenced_size - 1 = Len(cells)
<1>1. s # <<>>
  <2>1. cells # <<>>
    <3>1. Len(<<>>) = 0 /\ 1..0 = {}
      OBVIOUS
    <3>. QED  BY <3>1
  <2>. QED  BY <2>1 DEF Segment
<1>2. PICK g : Sums(s, g) /\ Laid(cells, s, g)
  BY <1>1 DEF Segment
<1>3. Len(s) \in Nat /\ Len(s) \in 0..Len(s)
  BY SequenceIs DEF Input
<1>. DEFINE n == Len(s)
            size == g[n]
<1>4. size \in Nat
  BY <1>2, <1>3, SumsGrow
<1>5. /\ cells[1].box = "styp" /\ cells[2].first_offset = 0
      /\ cells[2].referenced_size = size + 4 /\ cells[3].box = "moof"
      /\ cells[4].box = "traf" /\ cells[5].box = "trun" /\ cells[6].box = "mdat"
      /\ Len(cells) = 7 + size - 1 /\ \A q \in 7..Len(cells) : cells[q].box = "data"
  BY <1>2 DEF Laid, Headed, Media
<1>. HIDE DEF size
<1>6. Len(cells) = 6 + size
  BY <1>4, <1>5
<1>7. p \in 7..Len(cells) \/ p = 1 \/ p = 2 \/ p = 3 \/ p = 4 \/ p = 5 \/ p = 6
  BY <1>4, <1>6
<1>8. p = 2
  BY <1>5, <1>7
<1>9. 2 + 1 + 0 = 3 /\ 3 + (size + 4) - 1 = 6 + size
  BY <1>4
<1>. QED  BY <1>5, <1>6, <1>8, <1>9

\* The first sidx documents the entire segment, as the comment in fmp4_write_fragment
\* asks of it: it leads to the moof of the fragment, and the size it refers to, patched
\* in when the media data has been measured, ends where the file ends.  A file has none,
\* so that this holds for the recorder as well.
THEOREM IndexIsWhole == Spec => []IndexSpansSegment
<1>1. FileInv /\ ServerInv => IndexSpansSegment
  <2>. SUFFICES ASSUME FileInv, ServerInv, saved.ok, NEW p \in 1..Len(saved.cells),
                       saved.cells[p].box = "sidx"
                PROVE  LET start == p + 1 + saved.cells[p].first_offset
                       IN /\ saved.cells[start].box = "moof"
                          /\ start + saved.cells[p].referenced_size - 1 = Len(saved.cells)
    BY DEF IndexSpansSegment
  <2>1. SEGMENT
    BY DEF FileInv, GoodIndex
  <2>2. Held(saved.input[1]) /\ Segment(saved.cells, saved.input[1])
    BY <2>1, ServerSaved
  <2>. QED  BY <2>2, SegmentSpanned DEF Held
<1>. QED  BY <1>1, FileInvariance, ServerInvariance, PTL
==============================================================================
