---------------------------- MODULE DashMpdProofs ----------------------------
(***************************************************************************)
(* Proofs about DashMpd, for every window, gate, encoder and kind of       *)
(* failure.  The inductive invariant IInv has two parts: what is true of   *)
(* the lists (ListInv), which only a flush changes, and what ties the gate *)
(* and the open segment to the clock (StreamInv).                          *)
(***************************************************************************)
EXTENDS DashMpd, TLAPS, WellFoundedInduction

\* Every segment of w lasts at most d.
Covered(w, d) == \A i \in 1..Len(w) : w[i].duration <= d

\* The longest duration of which what m announces falls short by less than a second.
Reach(m) == (m.minimumUpdatePeriod + 1) * SECOND - 1

\* The list w is over before a segment that begins at t.
Before(w, t) ==
  w # <<>> => EndOf(w[Len(w)]) <= t /\ w[Len(w)].timestamp < t

ListType ==
  /\ root \in Seq(Segment) /\ Len(root) <= N_COUNT
  /\ max_segment_duration \in Nat
  /\ error \in BOOLEAN
  /\ count \in Nat /\ fname \in Nat \ {0}
  /\ mpd \in [segs : Seq(Segment), minimumUpdatePeriod : Nat]

ListInv ==
  /\ ListType
  /\ Covered(root, MaxSegment) /\ Covered(root, max_segment_duration)
  /\ Covered(mpd.segs, Reach(mpd))
  /\ Ordered(root) /\ Ordered(mpd.segs)

\* The open segment covers dts .. clock, lies behind the list, and is behind the
\* newest key frame by no more than the gate has accumulated.
OpenInv ==
  raw => /\ phase = "live" /\ adapation = 0
         /\ dts \in Nat /\ dts <= clock /\ dts_last = clock
         /\ Before(root, dts)
         /\ i_timestamp - dts <= var_timestamp + Slack

StreamInv ==
  /\ phase \in {"new", "live", "destroyed"} /\ adapation \in {0, Failed}
  /\ clock \in 0..MaxTime \cup {NoTime}
  /\ i_timestamp \in Nat /\ var_timestamp \in 0..(2 * (GATE - 1))
  /\ dts \in Nat \cup {NoTime} /\ dts_last \in Nat
  /\ raw \in BOOLEAN /\ rap \in BOOLEAN
  /\ clock = NoTime => ~raw /\ root = <<>> /\ i_timestamp = 0
  /\ clock # NoTime => /\ i_timestamp <= clock /\ clock <= i_timestamp + MaxGop
                       /\ i_timestamp = 0 => 0 \in FirstPts
                       /\ root # <<>> => EndOf(root[Len(root)]) <= clock
  /\ OpenInv

IInv == ListInv /\ StreamInv
------------------------------------------------------------------------------
(* Lists.                                                                   *)

\* What the list of dash_adaptation_set_segment is after a segment was linked:
\* the new one last, before it the old ones in place, or one place up.
LEMMA SlideShape ==
  ASSUME NEW w \in Seq(Segment), Len(w) <= N_COUNT, NEW seg \in Segment
  PROVE  LET s == Slide(w, seg)
             d == Len(w) + 1 - Len(s)
         IN  /\ s \in Seq(Segment) /\ Len(s) <= N_COUNT /\ Len(s) >= 1
             /\ d \in {0, 1}
             /\ s[Len(s)] = seg
             /\ \A i \in 1..Len(s) - 1 : i + d \in 1..Len(w) /\ s[i] = w[i + d]
<1>1. CASE Len(w) >= N_COUNT
  <2>1. Tail(w) \in Seq(Segment) /\ Len(Tail(w)) = Len(w) - 1
    BY <1>1, WindowAssumption
  <2>2. \A i \in 1..Len(w) - 1 : Tail(w)[i] = w[i + 1]
    BY <1>1, <2>1, WindowAssumption
  <2>. QED  BY <1>1, <2>1, <2>2, WindowAssumption DEF Slide
<1>2. CASE ~(Len(w) >= N_COUNT)
  BY <1>2, WindowAssumption DEF Slide
<1>. QED  BY <1>1, <1>2

\* A bound on durations that covers the old list and the new segment covers the
\* list after the segment was linked.
LEMMA SlideCovered ==
  ASSUME NEW w \in Seq(Segment), Len(w) <= N_COUNT, NEW seg \in Segment,
         NEW d \in Int, Covered(w, d), seg.duration <= d
  PROVE  Covered(Slide(w, seg), d)
<1>. DEFINE s == Slide(w, seg)
<1>. HIDE DEF s
<1>1. /\ s \in Seq(Segment)
      /\ s[Len(s)] = seg
      /\ \A i \in 1..Len(s) - 1 : \E j \in 1..Len(w) : s[i] = w[j]
  BY SlideShape DEF s
<1>2. \A i \in 1..Len(s) : i = Len(s) \/ i \in 1..Len(s) - 1
  BY <1>1
<1>3. Covered(s, d)  BY <1>1, <1>2 DEF Covered
<1>. QED  BY <1>3 DEF s

\* The fields of a listed segment are naturals.
LEMMA SegmentFields ==
  ASSUME NEW w \in Seq(Segment), NEW i \in 1..Len(w)
  PROVE  /\ w[i].timestamp \in Nat /\ w[i].duration \in Nat
         /\ EndOf(w[i]) \in Nat /\ w[i].timestamp <= EndOf(w[i])
<1>1. w[i] \in Segment  OBVIOUS
<1>. QED  BY <1>1 DEF Segment, EndOf

\* A larger bound covers, too.
LEMMA CoveredUp ==
  ASSUME NEW w \in Seq(Segment), NEW a \in Int, NEW b \in Int, a <= b, Covered(w, a)
  PROVE  Covered(w, b)
<1>1. \A i \in 1..Len(w) : w[i].duration \in Int /\ w[i].duration <= a
  BY SegmentFields DEF Covered
<1>. QED  BY <1>1 DEF Covered

\* A segment that begins behind an ordered list keeps it ordered.
LEMMA SlideOrdered ==
  ASSUME NEW w \in Seq(Segment), Len(w) <= N_COUNT, NEW seg \in Segment,
         Ordered(w), Before(w, seg.timestamp)
  PROVE  Ordered(Slide(w, seg))
<1>. DEFINE s == Slide(w, seg)
            d == Len(w) + 1 - Len(s)
<1>. HIDE DEF s
<1>1. /\ s \in Seq(Segment)
      /\ d \in {0, 1}
      /\ s[Len(s)] = seg
      /\ \A i \in 1..Len(s) - 1 : i + d \in 1..Len(w) /\ s[i] = w[i + d]
  BY SlideShape DEF s
<1>2. ASSUME NEW i \in 1..Len(s) - 1
      PROVE  EndOf(s[i]) <= s[i + 1].timestamp /\ s[i].timestamp < s[i + 1].timestamp
  <2>1. CASE i = Len(s) - 1
    <3>1. s[i + 1] = seg /\ s[i] = w[Len(w)] /\ w # <<>>
      BY <1>1, <2>1
    <3>. QED  BY <3>1 DEF Before
  <2>2. CASE i < Len(s) - 1
    <3>1. s[i] = w[i + d] /\ s[i + 1] = w[(i + d) + 1] /\ i + d \in 1..Len(w) - 1
      BY <1>1, <2>2
    <3>. QED  BY <3>1 DEF Ordered
  <2>. QED  BY <2>1, <2>2, <1>1
<1>3. Ordered(s)  BY <1>2 DEF Ordered
<1>. QED  BY <1>3 DEF s
\* MaxSegment is a length.
LEMMA MaxSegmentType == MaxSegment \in Nat /\ Slack \in Nat
BY GateAssumption, GopAssumption DEF MaxSegment, Slack

\* A duration exceeds the whole seconds that are announced for it by less than one.
LEMMA PeriodReaches ==
  ASSUME NEW d \in Nat
  PROVE  /\ MAX(d \div SECOND, 1) \in Nat
         /\ d <= (MAX(d \div SECOND, 1) + 1) * SECOND - 1
<1>. DEFINE q == d \div SECOND
<1>1. SECOND \in Nat /\ SECOND > 0
  BY GateAssumption
<1>2. q \in Nat /\ d < (q + 1) * SECOND
  <2>1. q \in Int /\ SECOND * q <= d /\ d < SECOND * q + SECOND
    BY <1>1
  <2>. HIDE DEF q
  <2>2. q >= 0
    BY <1>1, <2>1
  <2>. QED  BY <1>1, <2>1, <2>2
<1>. HIDE DEF q
<1>3. CASE q >= 1
  <2>1. MAX(q, 1) = q
    BY <1>2, <1>3 DEF MAX
  <2>2. (q + 1) * SECOND \in Int
    BY <1>1, <1>2
  <2>. QED  BY <1>2, <2>1, <2>2 DEF q
<1>4. CASE q = 0
  <2>1. MAX(q, 1) = 1
    BY <1>4 DEF MAX
  <2>2. d < SECOND /\ (1 + 1) * SECOND = SECOND + SECOND
    BY <1>1, <1>2, <1>4
  <2>3. d <= (1 + 1) * SECOND - 1
    BY <1>1, <2>2
  <2>. QED  BY <2>1, <2>3 DEF q
<1>. QED  BY <1>2, <1>3, <1>4

\* A playlist lists what is in the list, and its period reaches what the maximum
\* covers.
LEMMA NewMpdIs ==
  ASSUME root \in Seq(Segment), max_segment_duration \in Nat,
         Covered(root, max_segment_duration)
  PROVE  /\ NewMpd \in [segs : Seq(Segment), minimumUpdatePeriod : Nat]
         /\ NewMpd.segs = root
         /\ Covered(root, Reach(NewMpd))
<1>. DEFINE p == MAX(max_segment_duration \div SECOND, 1)
<1>1. p \in Nat /\ max_segment_duration <= (p + 1) * SECOND - 1
  BY PeriodReaches
<1>2. NewMpd = [segs |-> root, minimumUpdatePeriod |-> p]
  BY DEF NewMpd
<1>. HIDE DEF p
<1>3. Reach(NewMpd) = (p + 1) * SECOND - 1
  BY <1>2 DEF Reach
<1>4. (p + 1) * SECOND - 1 \in Int
  BY <1>1, GateAssumption
<1>5. Covered(root, (p + 1) * SECOND - 1)
  BY <1>1, <1>4, CoveredUp
<1>. QED  BY <1>1, <1>2, <1>3, <1>5
------------------------------------------------------------------------------
(* Closing a segment.                                                       *)

\* Building a playlist keeps the types of what it touches, and what it lists is
\* the list and the maximum of that moment.
LEMMA OnSegmentShown ==
  ASSUME count \in Nat, fname \in Nat \ {0}, NEW opened, NEW written,
         OnSegment(opened, written)
  PROVE  /\ count' \in Nat /\ fname' \in Nat \ {0}
         /\ mpd' = mpd \/ mpd' = NewMpd
BY DEF OnSegment, Playlist, shown

\* A flush keeps ListInv, and links either nothing or the open segment.
LEMMA FlushLists ==
  ASSUME ListInv, rap \in BOOLEAN,
         NEW last \in Nat, NEW saved \in BOOLEAN, NEW opened \in BOOLEAN,
         NEW written \in BOOLEAN,
         raw => /\ dts \in Nat /\ dts <= last /\ last - dts <= MaxSegment
                /\ Before(root, dts),
         Flush(last, saved, opened, written)
  PROVE  /\ ListInv'
         /\ \/ root' = root
            \/ /\ raw /\ root' # <<>>
               /\ root'[Len(root')].timestamp = dts
               /\ EndOf(root'[Len(root')]) = last
<1>. DEFINE seg == [timestamp |-> dts, duration |-> last - dts,
                    rap |-> rap, file |-> opened]
<1>. USE DEF ListInv, ListType
<1>1. CASE ~raw
  <2>1. UNCHANGED <<error, root, count, fname, mpd, max_segment_duration>>
    BY <1>1 DEF Flush, shown
  <2>. QED  BY <2>1 DEF Covered, Ordered
<1>2. CASE raw /\ error'
  <2>1. /\ error' \in BOOLEAN /\ UNCHANGED <<root, count, fname, mpd>>
        /\ max_segment_duration' = MAX(last - dts, max_segment_duration)
    BY <1>2 DEF Flush, CloseSegment, shown
  <2>2. max_segment_duration' \in Nat /\ max_segment_duration <= max_segment_duration'
    BY <1>2, <2>1 DEF MAX
  <2>3. Covered(root, max_segment_duration')
    BY <2>2, CoveredUp
  <2>. QED  BY <2>1, <2>2, <2>3 DEF Covered, Ordered
<1>3. CASE raw /\ ~error'
  <2>1. /\ error' \in BOOLEAN /\ root' = Slide(root, seg)
        /\ OnSegment(opened, written)
        /\ max_segment_duration' = MAX(last - dts, max_segment_duration)
    BY <1>3 DEF Flush, CloseSegment
  <2>2. seg \in Segment  BY <1>3 DEF Segment
  <2>3. /\ max_segment_duration' \in Nat /\ last - dts <= max_segment_duration'
        /\ max_segment_duration <= max_segment_duration'
    BY <1>3, <2>1 DEF MAX
  <2>4. /\ root' \in Seq(Segment) /\ Len(root') <= N_COUNT /\ Len(root') >= 1
        /\ root'[Len(root')] = seg
    BY <2>1, <2>2, SlideShape
  <2>5. Covered(root', MaxSegment)
    BY <1>3, <2>1, <2>2, SlideCovered, MaxSegmentType
  <2>6. Covered(root', max_segment_duration')
    <3>1. Covered(root, max_segment_duration')
      BY <2>3, CoveredUp
    <3>. QED  BY <2>1, <2>2, <2>3, <3>1, SlideCovered
  <2>7. Ordered(root')
    BY <1>3, <2>1, <2>2, SlideOrdered
  <2>8. /\ count' \in Nat /\ fname' \in Nat \ {0}
        /\ mpd' = mpd \/ mpd' = NewMpd
    BY <2>1, OnSegmentShown
  <2>9. /\ mpd' \in [segs : Seq(Segment), minimumUpdatePeriod : Nat]
        /\ Covered(mpd'.segs, Reach(mpd')) /\ Ordered(mpd'.segs)
    BY <2>8, NewMpdIs
  <2>10. root' # <<>> /\ root'[Len(root')].timestamp = dts
         /\ EndOf(root'[Len(root')]) = last
    BY <1>3, <2>4 DEF EndOf
  <2>. QED  BY <1>3, <2>1, <2>3, <2>4, <2>5, <2>6, <2>7, <2>8, <2>9, <2>10 DEF Covered, Ordered
<1>4. error' \in BOOLEAN \/ ~raw
  BY DEF Flush, CloseSegment
<1>. QED  BY <1>1, <1>2, <1>3, <1>4
------------------------------------------------------------------------------
(* The clock, the gate and the open segment.                                *)

\* An earlier time is not behind a later one by anything.
LEMMA NotBehind ==
  ASSUME NEW a \in Nat, NEW b \in Nat, a <= b, NEW c \in Nat, NEW d \in Nat
  PROVE  a - b <= c + d
OBVIOUS

\* What the gate does to its two variables at a frame, and when it cuts.
LEMMA GateStep ==
  ASSUME StreamInv, NEW pts \in 0..MaxTime, NEW sps \in BOOLEAN,
         Encoder(pts, sps), Gate(pts, sps)
  PROVE  /\ i_timestamp' \in Nat /\ var_timestamp' \in 0..(2 * (GATE - 1))
         /\ clock < pts
         /\ i_timestamp' <= pts /\ pts <= i_timestamp' + MaxGop
         /\ i_timestamp' = 0 => 0 \in FirstPts
         /\ raw => pts - dts <= MaxSegment
         /\ raw /\ ~(sps /\ LetThrough(pts)) =>
               i_timestamp' - dts <= var_timestamp' + Slack
<1>1. i_timestamp \in Nat /\ var_timestamp \in Nat /\ var_timestamp <= 2 * (GATE - 1)
      /\ clock \in Int /\ Slack \in Nat /\ GATE \in Nat /\ GATE >= 1 /\ MaxGop \in Nat
  BY GateAssumption, GopAssumption DEF StreamInv, Slack, NoTime
<1>2. /\ clock < pts /\ pts >= i_timestamp
      /\ clock = NoTime => sps /\ pts \in FirstPts /\ ~raw /\ i_timestamp = 0
      /\ clock # NoTime => pts <= i_timestamp + MaxGop /\ (i_timestamp = 0 => 0 \in FirstPts)
  BY <1>1 DEF StreamInv, Encoder, NoTime
<1>3. raw => /\ clock # NoTime /\ dts \in Nat /\ dts <= clock
             /\ i_timestamp - dts <= var_timestamp + Slack
  BY DEF StreamInv, OpenInv
<1>4. raw => pts - dts <= MaxSegment
  BY <1>1, <1>2, <1>3 DEF MaxSegment
<1>5. CASE ~sps
  <2>1. i_timestamp' = i_timestamp /\ var_timestamp' = var_timestamp
    BY <1>5 DEF Gate, gate
  <2>. QED  BY <1>1, <1>2, <1>3, <1>4, <1>5, <2>1
<1>6. CASE sps
  <2>1. i_timestamp' = pts
    BY <1>6 DEF Gate
  <2>2. difftimestamp(pts) \in Nat
    BY <1>1, <1>2 DEF difftimestamp
  <2>3. var_timestamp' \in 0..(2 * (GATE - 1))
    BY <1>1, <1>6, <2>2 DEF Gate
  <2>4. pts = 0 => 0 \in FirstPts
    BY <1>1, <1>2 DEF StreamInv, NoTime
  <2>5. ASSUME raw, ~LetThrough(pts)
        PROVE  pts - dts <= var_timestamp' + Slack
    <3>1. var_timestamp' = var_timestamp + difftimestamp(pts)
      BY <1>1, <1>6, <2>2, <2>5 DEF Gate, LetThrough
    <3>2. CASE i_timestamp # 0
      BY <1>1, <1>2, <1>3, <2>5, <3>1, <3>2 DEF difftimestamp
    <3>3. CASE i_timestamp = 0
      <4>1. Slack = MaxGop /\ pts <= MaxGop
        BY <1>1, <1>2, <1>3, <2>5, <3>3 DEF Slack
      <4>. QED  BY <1>1, <1>3, <2>2, <2>5, <3>1, <4>1
    <3>. QED  BY <3>2, <3>3
  <2>. QED  BY <1>1, <1>2, <1>4, <1>6, <2>1, <2>3, <2>4, <2>5
<1>. QED  BY <1>5, <1>6
------------------------------------------------------------------------------
(* The actions.                                                             *)

\* One frame.
LEMMA OnReadInv ==
  ASSUME IInv, OnRead
  PROVE  IInv'
<1>1. PICK pts \in 0..MaxTime, sps \in BOOLEAN, empty \in EmptyFrames,
           saved \in SaveResults, opened \in OpenResults, written \in OpenResults :
        /\ Encoder(pts, sps) /\ clock' = pts
        /\ Gate(pts, sps)
        /\ Input(pts, sps, empty, sps /\ LetThrough(pts), saved, opened, written)
  BY DEF OnRead
<1>. DEFINE cut == sps /\ LetThrough(pts)
<1>2. /\ phase = "live" /\ phase' = "live" /\ adapation' = adapation
      /\ saved \in BOOLEAN /\ opened \in BOOLEAN /\ written \in BOOLEAN
      /\ pts \in Nat
  BY <1>1, InputAssumption DEF OnRead
<1>3. /\ i_timestamp' \in Nat /\ var_timestamp' \in 0..(2 * (GATE - 1))
      /\ clock < pts
      /\ i_timestamp' <= pts /\ pts <= i_timestamp' + MaxGop
      /\ i_timestamp' = 0 => 0 \in FirstPts
      /\ raw => pts - dts <= MaxSegment
      /\ raw /\ ~cut => i_timestamp' - dts <= var_timestamp' + Slack
  BY <1>1, GateStep DEF IInv
<1>4. clock \in Int /\ rap \in BOOLEAN /\ raw \in BOOLEAN /\ root \in Seq(Segment)
  BY DEF IInv, StreamInv, ListInv, ListType, NoTime
<1>5. raw => /\ adapation = 0 /\ dts \in Nat /\ dts <= clock /\ dts_last = clock
             /\ Before(root, dts)
  BY DEF IInv, StreamInv, OpenInv
<1>6. Before(root, pts)
  <2>1. SUFFICES ASSUME root # <<>>
                 PROVE  /\ EndOf(root[Len(root)]) <= pts
                        /\ root[Len(root)].timestamp < pts
    BY DEF Before
  <2>2. /\ root[Len(root)].timestamp \in Nat /\ EndOf(root[Len(root)]) \in Nat
        /\ root[Len(root)].timestamp <= EndOf(root[Len(root)])
    BY <1>4, <2>1, SegmentFields
  <2>3. EndOf(root[Len(root)]) <= clock
    BY <2>1 DEF IInv, StreamInv
  <2>. QED  BY <1>2, <1>3, <1>4, <2>2, <2>3
<1>7. Slack \in Nat /\ MaxSegment \in Nat
  BY MaxSegmentType
<1>8. ASSUME Flush(pts, saved, opened, written)
      PROVE  ListInv' /\ Before(root', pts)
  <2>1. /\ ListInv'
        /\ \/ root' = root
           \/ /\ raw /\ root' # <<>>
              /\ root'[Len(root')].timestamp = dts
              /\ EndOf(root'[Len(root')]) = pts
    BY <1>2, <1>3, <1>4, <1>5, <1>8, FlushLists DEF IInv
  <2>. QED  BY <1>2, <1>3, <1>4, <1>5, <1>6, <2>1 DEF Before
<1>9. ASSUME ListInv', Before(root', pts), dts_last' \in Nat, rap' \in BOOLEAN,
             raw' \in BOOLEAN, dts' \in Nat \cup {NoTime}, OpenInv'
      PROVE  IInv'
  <2>1. clock' # NoTime  BY <1>1, <1>2 DEF NoTime
  <2>2. clock' \in 0..MaxTime /\ adapation' \in {0, Failed}
    BY <1>1, <1>2 DEF IInv, StreamInv
  <2>3. root' # <<>> => EndOf(root'[Len(root')]) <= clock'
    BY <1>1, <1>9 DEF Before
  <2>. QED  BY <1>1, <1>2, <1>3, <1>9, <2>1, <2>2, <2>3 DEF IInv, StreamInv
<1>14. ASSUME adapation = 0, OpenWith(pts, sps), Before(root', pts)
       PROVE  OpenInv'
  <2>1. dts' = pts /\ dts_last' = pts /\ clock' = pts
    BY <1>1, <1>14 DEF OpenWith
  <2>2. phase' = "live" /\ adapation' = 0 /\ dts' \in Nat
    BY <1>2, <1>14, <2>1
  <2>3. i_timestamp' - dts' <= var_timestamp' + Slack
    <3>1. i_timestamp' \in Nat /\ i_timestamp' <= pts
      BY <1>3
    <3>2. var_timestamp' \in Nat
      BY <1>3, GateAssumption
    <3>3. Slack \in Nat /\ pts \in Nat  BY <1>2, <1>7
    <3>4. i_timestamp' - pts <= var_timestamp' + Slack
      BY <3>1, <3>2, <3>3, NotBehind
    <3>. QED  BY <2>1, <3>4
  <2>4. Before(root', dts')  BY <1>14, <2>1
  <2>. QED  BY <1>2, <2>1, <2>2, <2>3, <2>4 DEF OpenInv
<1>10. CASE adapation = Failed /\ UNCHANGED <<open, error, root, shown, max_segment_duration>>
  <2>1. ~raw'  BY <1>5, <1>10 DEF open, Failed
  <2>2. ListInv' /\ Before(root', pts)
    BY <1>6, <1>10 DEF IInv, ListInv, ListType, Before, Covered, Ordered, shown
  <2>. QED  BY <1>9, <1>10, <2>1, <2>2 DEF IInv, StreamInv, OpenInv, open
<1>11. CASE FlushOnly(pts, saved, opened, written)
  BY <1>2, <1>8, <1>9, <1>11 DEF FlushOnly, OpenInv
<1>12. CASE adapation = 0 /\ cut /\ Cut(pts, sps, saved, opened, written)
  <2>1. OpenWith(pts, sps)  BY <1>12 DEF Cut
  <2>2. Before(root', pts)  BY <1>8, <1>12 DEF Cut
  <2>3. OpenInv'
    BY <1>12, <2>1, <2>2, <1>14
  <2>. QED  BY <1>2, <1>8, <1>9, <1>12, <2>3 DEF Cut, OpenWith
<1>13. CASE adapation = 0 /\ ~cut /\ Extend(pts, sps)
  <2>1. ListInv' /\ Before(root', pts)
    BY <1>6, <1>13 DEF Extend, IInv, ListInv, ListType, Before, Covered, Ordered, shown
  <2>2. CASE raw
    <3>1. dts_last' = pts /\ UNCHANGED <<dts, raw, rap, root>>
      BY <1>13, <2>2 DEF Extend
    <3>2. OpenInv'
      BY <1>1, <1>2, <1>3, <1>4, <1>5, <1>13, <2>2, <3>1 DEF OpenInv, Before
    <3>. QED  BY <1>2, <1>4, <1>5, <1>9, <2>1, <2>2, <3>1, <3>2
  <2>3. CASE ~raw
    <3>1. OpenWith(pts, sps)  BY <1>13, <2>3 DEF Extend
    <3>2. OpenInv'  BY <1>13, <2>1, <3>1, <1>14
    <3>. QED  BY <1>2, <1>9, <2>1, <3>1, <3>2 DEF OpenWith
  <2>. QED  BY <2>2, <2>3
<1>. QED  BY <1>1, <1>10, <1>11, <1>12, <1>13 DEF Input

\* The first frame's set-up.
LEMMA StartInv ==
  ASSUME IInv, Start
  PROVE  IInv'
<1>1. PICK saved \in SaveResults, opened \in OpenResults :
        /\ adapation' = IF saved THEN 0 ELSE Failed
        /\ error' = ~saved
        /\ IF saved THEN OnSegment(opened, TRUE) ELSE UNCHANGED shown
  BY DEF Start
<1>2. /\ phase = "new" /\ phase' = "live"
      /\ UNCHANGED <<clock, i_timestamp, var_timestamp, dts, dts_last, raw, rap,
                     root, max_segment_duration>>
  BY DEF Start, gate, open
<1>3. ~raw /\ raw' = FALSE
  BY <1>2 DEF IInv, StreamInv, OpenInv
<1>4. /\ count' \in Nat /\ fname' \in Nat \ {0}
      /\ mpd' = mpd \/ mpd' = NewMpd
  BY <1>1, OnSegmentShown DEF IInv, ListInv, ListType, shown
<1>5. error' \in BOOLEAN /\ adapation' \in {0, Failed}
  BY <1>1, InputAssumption
<1>6. ListInv'
  <2>1. /\ ListType
        /\ Covered(root, MaxSegment) /\ Covered(root, max_segment_duration)
        /\ Covered(mpd.segs, Reach(mpd)) /\ Ordered(root) /\ Ordered(mpd.segs)
    BY DEF IInv, ListInv
  <2>2. /\ mpd' \in [segs : Seq(Segment), minimumUpdatePeriod : Nat]
        /\ Covered(mpd'.segs, Reach(mpd')) /\ Ordered(mpd'.segs)
    BY <1>4, <2>1, NewMpdIs DEF ListType
  <2>. QED  BY <1>2, <1>4, <1>5, <2>1, <2>2 DEF ListInv, ListType, Covered, Ordered
<1>7. StreamInv'
  BY <1>2, <1>3, <1>5 DEF IInv, StreamInv, OpenInv
<1>. QED  BY <1>6, <1>7 DEF IInv

\* The end of the stream.
LEMMA DestroyInv ==
  ASSUME IInv, Destroy
  PROVE  IInv'
<1>1. PICK saved \in SaveResults, opened \in OpenResults, written \in OpenResults :
        Flush(dts_last, saved, opened, written)
  BY DEF Destroy
<1>2. /\ phase' = "destroyed" /\ dts' = NoTime /\ raw' = FALSE /\ rap' = FALSE
      /\ UNCHANGED <<adapation, clock, i_timestamp, var_timestamp, dts_last>>
  BY DEF Destroy, gate
<1>3. saved \in BOOLEAN /\ opened \in BOOLEAN /\ written \in BOOLEAN
  BY InputAssumption
<1>4. /\ clock \in Int /\ rap \in BOOLEAN /\ raw \in BOOLEAN /\ dts_last \in Nat
      /\ i_timestamp \in Nat /\ var_timestamp \in Nat
      /\ var_timestamp <= 2 * (GATE - 1) /\ Slack \in Nat /\ MaxGop \in Nat /\ GATE \in Nat
  BY MaxSegmentType, GateAssumption, GopAssumption DEF IInv, StreamInv, NoTime
<1>5. raw => /\ dts \in Nat /\ dts <= clock /\ dts_last = clock /\ Before(root, dts)
             /\ i_timestamp - dts <= var_timestamp + Slack
             /\ clock # NoTime /\ clock <= i_timestamp + MaxGop
  BY DEF IInv, StreamInv, OpenInv
<1>6. raw => dts <= dts_last /\ dts_last - dts <= MaxSegment
  BY <1>4, <1>5 DEF MaxSegment
<1>7. /\ ListInv'
      /\ \/ root' = root
         \/ /\ raw /\ root' # <<>>
            /\ root'[Len(root')].timestamp = dts
            /\ EndOf(root'[Len(root')]) = dts_last
  BY <1>1, <1>3, <1>4, <1>5, <1>6, FlushLists DEF IInv
<1>8. StreamInv'
  <2>1. clock = NoTime => root' = <<>>
    BY <1>5, <1>7 DEF IInv, StreamInv
  <2>2. clock # NoTime /\ root' # <<>> => EndOf(root'[Len(root')]) <= clock
    BY <1>4, <1>5, <1>7 DEF IInv, StreamInv
  <2>. QED  BY <1>2, <2>1, <2>2 DEF IInv, StreamInv, OpenInv
<1>. QED  BY <1>7, <1>8 DEF IInv

\* Nothing else happens to a stream.
LEMMA Stutter ==
  ASSUME IInv, UNCHANGED vars
  PROVE  IInv'
BY DEF vars, gate, open, shown, IInv, ListInv, ListType, StreamInv, OpenInv,
       Covered, Ordered, Before

\* IInv holds at the start.
LEMMA InitInv == Init => IInv
<1>1. SUFFICES ASSUME Init PROVE IInv  OBVIOUS
<1>2. ListInv
  <2>1. mpd = NoMpd /\ root = <<>> /\ max_segment_duration = 0 /\ error = FALSE
        /\ count = 0 /\ fname = 1
    BY <1>1 DEF Init
  <2>2. ListType
    <3>1. root \in Seq(Segment) /\ Len(root) <= N_COUNT
      BY <2>1, WindowAssumption
    <3>2. mpd \in [segs : Seq(Segment), minimumUpdatePeriod : Nat]
      BY <2>1 DEF NoMpd
    <3>3. max_segment_duration \in Nat /\ count \in Nat /\ fname \in Nat \ {0}
      BY <2>1
    <3>4. error \in BOOLEAN
      BY <2>1
    <3>. QED  BY <3>1, <3>2, <3>3, <3>4 DEF ListType
  <2>3. Len(root) = 0 /\ Len(mpd.segs) = 0
    BY <2>1 DEF NoMpd
  <2>. QED  BY <2>2, <2>3 DEF ListInv, Covered, Ordered
<1>3. StreamInv
  <2>1. 0 \in 0..(2 * (GATE - 1))
    BY GateAssumption
  <2>. QED  BY <1>1, <2>1 DEF Init, StreamInv, OpenInv, NoTime
<1>. QED  BY <1>2, <1>3 DEF IInv

\* IInv is an invariant of the segmenter.
THEOREM Invariance == Spec => []IInv
<1>1. IInv /\ [Next]_vars => IInv'
  BY OnReadInv, StartInv, DestroyInv, Stutter DEF Next, Finished
<1>. QED  BY <1>1, InitInv, PTL DEF Spec
------------------------------------------------------------------------------
(* The theorems.                                                            *)

\* Every variable keeps its type, the list its length of N_COUNT segments.
THEOREM TypeCorrect == Spec => []TypeOK
<1>1. IInv => TypeOK
  <2>1. SUFFICES ASSUME IInv PROVE TypeOK  OBVIOUS
  <2>2. var_timestamp \in Nat
    BY <2>1, GateAssumption DEF IInv, StreamInv
  <2>. QED  BY <2>1, <2>2 DEF IInv, ListInv, ListType, StreamInv, TypeOK
<1>. QED  BY <1>1, Invariance, PTL

\* No segment outgrows MaxSegment, whatever fails: the accumulated distance of
\* the gate of mp4_onread catches up with any encoder whose key frames are at
\* most MaxGop apart.
THEOREM SegmentsBounded == Spec => []SegmentBounded
<1>1. IInv => SegmentBounded
  BY DEF IInv, ListInv, Covered, SegmentBounded
<1>. QED  BY <1>1, Invariance, PTL

\* Whatever fails, listed segments never overlap or share a file name, in the
\* list, in the newest MPD and against the open segment.
THEOREM TimelineIsOrdered == Spec => []TimelineOrdered
<1>1. IInv => TimelineOrdered
  BY DEF IInv, ListInv, StreamInv, OpenInv, Before, TimelineOrdered, Last
<1>. QED  BY <1>1, Invariance, PTL

\* Whatever fails, the whole seconds that an MPD announces fall short of no segment
\* it lists by a second or more, for any length of the second.
THEOREM AnnouncedIsEnough == Spec => []AnnouncedCoversListed
<1>1. IInv => AnnouncedCoversListed
  <2>. SUFFICES ASSUME IInv, NEW i \in 1..Len(mpd.segs)
                PROVE  mpd.segs[i].duration < (mpd.minimumUpdatePeriod + 1) * SECOND
    BY DEF AnnouncedCoversListed
  <2>1. mpd.segs \in Seq(Segment) /\ mpd.minimumUpdatePeriod \in Nat
    BY DEF IInv, ListInv, ListType
  <2>2. mpd.segs[i].duration \in Nat
    BY <2>1, SegmentFields
  <2>3. (mpd.minimumUpdatePeriod + 1) * SECOND \in Int
    BY <2>1, GateAssumption
  <2>4. mpd.segs[i].duration <= (mpd.minimumUpdatePeriod + 1) * SECOND - 1
    BY DEF IInv, ListInv, Covered, Reach
  <2>. QED  BY <2>2, <2>3, <2>4
<1>. QED  BY <1>1, Invariance, PTL

------------------------------------------------------------------------------
(* The time line.  CleanInv is what holds as long as no frame comes out     *)
(* empty, whatever else fails: a stream always has a segment open, segments *)
(* join, begin with a key frame and are not cut too early.  AdvanceInv ties *)
(* the newest playlist to the list it was made from, whatever fails.        *)

\* The list w ends where a segment that begins at t goes on.
Joins(w, t) == w # <<>> => EndOf(w[Len(w)]) = t

\* Every segment of w begins with a key frame.
Keyed(w) == \A i \in 1..Len(w) : w[i].rap

\* Every segment of w lasts at least d.
Filled(w, d) == \A i \in 1..Len(w) : w[i].duration >= d

\* A stream without empty frames has a segment open from its first frame on.  It
\* joins the list and begins with a key frame, and what the gate has accumulated
\* on top of it is at most the distance spent on the segment before.
CleanInv ==
  /\ phase = "new" => clock = NoTime
  /\ phase = "live" /\ adapation = 0 /\ clock # NoTime => raw
  /\ raw => rap
  /\ raw /\ ~error => Joins(root, dts)
  /\ raw => dts <= i_timestamp
  /\ raw /\ MaxGop < GATE => var_timestamp - MaxGop <= i_timestamp - dts
  /\ i_timestamp = 0 => var_timestamp = 0
  /\ Contiguous(root) /\ Contiguous(mpd.segs)
  /\ Keyed(root)
  /\ MaxGop < GATE /\ phase = "live" => Filled(root, GATE - Jitter)

\* The list has moved on since the newest playlist was made.
Advanced ==
  mpd.segs # <<>> =>
    /\ root # <<>>
    /\ mpd.segs[1].timestamp <= root[1].timestamp
    /\ mpd.segs[Len(mpd.segs)].timestamp < root[Len(root)].timestamp

AdvanceInv ==
  /\ phase = "new" => root = <<>>
  /\ Advanced
------------------------------------------------------------------------------
(* The list after a segment was linked.                                     *)

\* A segment that goes on where the list ends keeps it without a hole.
LEMMA SlideContiguous ==
  ASSUME NEW w \in Seq(Segment), Len(w) <= N_COUNT, NEW seg \in Segment,
         Contiguous(w), Joins(w, seg.timestamp)
  PROVE  Contiguous(Slide(w, seg))
<1>. DEFINE s == Slide(w, seg)
            d == Len(w) + 1 - Len(s)
<1>. HIDE DEF s
<1>1. /\ s \in Seq(Segment)
      /\ d \in {0, 1}
      /\ s[Len(s)] = seg
      /\ \A i \in 1..Len(s) - 1 : i + d \in 1..Len(w) /\ s[i] = w[i + d]
  BY SlideShape DEF s
<1>2. ASSUME NEW i \in 1..Len(s) - 1
      PROVE  EndOf(s[i]) = s[i + 1].timestamp
  <2>1. CASE i = Len(s) - 1
    <3>1. s[i + 1] = seg /\ s[i] = w[Len(w)] /\ w # <<>>
      BY <1>1, <2>1
    <3>. QED  BY <3>1 DEF Joins
  <2>2. CASE i < Len(s) - 1
    <3>1. i + 1 \in 1..Len(s) - 1 /\ i \in 1..Len(s) - 1
      BY <1>1, <2>2
    <3>2. /\ s[i] = w[i + d] /\ i + d \in 1..Len(w)
          /\ s[i + 1] = w[(i + 1) + d] /\ (i + 1) + d \in 1..Len(w)
      BY <1>1, <3>1
    <3>3. i + d \in 1..Len(w) - 1 /\ (i + 1) + d = (i + d) + 1
      BY <1>1, <3>2
    <3>. QED  BY <3>2, <3>3 DEF Contiguous
  <2>. QED  BY <2>1, <2>2, <1>1
<1>3. Contiguous(s)  BY <1>2 DEF Contiguous
<1>. QED  BY <1>3 DEF s

\* What holds of every segment of the list and of the new one holds of every
\* segment of the list after it was linked.
LEMMA SlideMembers ==
  ASSUME NEW w \in Seq(Segment), Len(w) <= N_COUNT, NEW seg \in Segment,
         NEW i \in 1..Len(Slide(w, seg))
  PROVE  Slide(w, seg)[i] = seg \/ \E j \in 1..Len(w) : Slide(w, seg)[i] = w[j]
<1>. DEFINE s == Slide(w, seg)
            d == Len(w) + 1 - Len(s)
<1>. HIDE DEF s
<1>1. /\ s \in Seq(Segment) /\ Len(s) >= 1 /\ s[Len(s)] = seg
      /\ \A k \in 1..Len(s) - 1 : k + d \in 1..Len(w) /\ s[k] = w[k + d]
  BY SlideShape DEF s
<1>2. i \in 1..Len(s)  BY DEF s
<1>3. i = Len(s) \/ i \in 1..Len(s) - 1
  BY <1>1, <1>2
<1>4. s[i] = seg \/ \E j \in 1..Len(w) : s[i] = w[j]
  BY <1>1, <1>3
<1>. QED  BY <1>4 DEF s

\* The list begins no earlier than before, and ends with the new segment.
LEMMA SlideEnds ==
  ASSUME NEW w \in Seq(Segment), Len(w) <= N_COUNT, NEW seg \in Segment,
         Ordered(w), Before(w, seg.timestamp), w # <<>>
  PROVE  /\ Slide(w, seg) \in Seq(Segment) /\ Slide(w, seg) # <<>>
         /\ w[1].timestamp <= Slide(w, seg)[1].timestamp
         /\ w[Len(w)].timestamp < Slide(w, seg)[Len(Slide(w, seg))].timestamp
<1>. DEFINE s == Slide(w, seg)
            d == Len(w) + 1 - Len(s)
<1>1. /\ s \in Seq(Segment) /\ Len(s) >= 1 /\ d \in {0, 1}
      /\ s[Len(s)] = seg
      /\ \A i \in 1..Len(s) - 1 : i + d \in 1..Len(w) /\ s[i] = w[i + d]
  BY SlideShape
<1>. HIDE DEF s
<1>2. w[Len(w)].timestamp < seg.timestamp
  BY DEF Before
<1>3. Len(w) >= 1 /\ Len(w) \in Nat
  OBVIOUS
<1>4. \A i \in 1..Len(w) : w[i].timestamp \in Nat
  BY SegmentFields
<1>5. Len(s) >= 2
  <2>1. CASE Len(w) >= N_COUNT
    <3>1. s = Append(Tail(w), seg)
      BY <2>1 DEF s, Slide
    <3>. QED  BY <2>1, <3>1, <1>3, WindowAssumption
  <2>2. CASE ~(Len(w) >= N_COUNT)
    <3>1. s = Append(w, seg)
      BY <2>2 DEF s, Slide
    <3>. QED  BY <3>1, <1>3
  <2>. QED  BY <2>1, <2>2
<1>6. s[1] = w[1 + d] /\ 1 + d \in 1..Len(w)
  BY <1>1, <1>5
<1>7. w[1].timestamp <= s[1].timestamp
  <2>1. CASE d = 0
    BY <1>3, <1>4, <1>6, <2>1
  <2>2. CASE d = 1
    <3>1. 2 \in 1..Len(w) /\ 1 \in 1..Len(w) - 1 /\ s[1] = w[2]
      BY <1>3, <1>6, <2>2
    <3>2. w[1].timestamp < w[1 + 1].timestamp
      BY <3>1 DEF Ordered
    <3>. QED  BY <1>3, <1>4, <3>1, <3>2
  <2>. QED  BY <1>1, <2>1, <2>2
<1>8. s # <<>>
  BY <1>5
<1>. QED  BY <1>1, <1>2, <1>7, <1>8 DEF s
------------------------------------------------------------------------------
(* Flushes and the gate.                                                    *)

\* The shortest distance between key frames is one, and Jitter is measured from it.
LEMMA LeastGop ==
  ASSUME NEW h \in Gops
  PROVE  Jitter \in Int /\ MaxGop - h <= Jitter
<1>. DEFINE R == OpToRel(<, Nat)
<1>1. IsWellFoundedOn(R, Nat)
  BY NatLessThanWellFounded
<1>2. Gops \subseteq Nat /\ Gops # {}
  BY GopAssumption
<1>3. PICK m \in Gops : \A k \in Gops : <<k, m>> \notin R
  <2>. HIDE DEF R
  <2>. QED  BY <1>1, <1>2, WFMin
<1>4. ASSUME NEW k \in Gops
      PROVE  m <= k
  <2>1. R = {ss \in Nat \X Nat : ss[1] < ss[2]}
    BY DEF OpToRel
  <2>. HIDE DEF R
  <2>2. <<k, m>> \in Nat \X Nat /\ <<k, m>> \notin R
    BY <1>2, <1>3
  <2>3. ~(<<k, m>>[1] < <<k, m>>[2])
    BY <2>1, <2>2
  <2>. QED  BY <1>2, <2>3
<1>5. \E g \in Gops : \A k \in Gops : g <= k
  BY <1>4
<1>. DEFINE g == CHOOSE g \in Gops : \A k \in Gops : g <= k
<1>6. g \in Gops /\ \A k \in Gops : g <= k
  BY <1>5
<1>. HIDE DEF g
<1>7. g \in Int /\ g <= h /\ h \in Int /\ MaxGop \in Int
  BY <1>2, <1>6, GopAssumption
<1>8. MaxGop - g \in Int /\ MaxGop - h <= MaxGop - g
  BY <1>7
<1>. QED  BY <1>8 DEF Jitter, g

\* A flush links nothing, because there is nothing or the buffer has an error, or
\* it links the open segment; a playlist it writes lists what was linked before.
LEMMA FlushEffect ==
  ASSUME raw \in BOOLEAN, NEW last, NEW saved, NEW opened, NEW written,
         Flush(last, saved, opened, written)
  PROVE  \/ root' = root /\ mpd' = mpd /\ (error' \/ ~raw)
         \/ /\ raw /\ ~error /\ ~error'
            /\ root' = Slide(root, [timestamp |-> dts, duration |-> last - dts,
                                    rap |-> rap, file |-> opened])
            /\ mpd' = mpd \/ mpd' = NewMpd
<1>1. CASE ~raw
  BY <1>1 DEF Flush, shown
<1>2. CASE raw /\ error'
  BY <1>2 DEF Flush, CloseSegment, shown
<1>3. CASE raw /\ ~error'
  <2>1. CloseSegment(last, saved, opened, written)
    BY <1>3 DEF Flush
  <2>2. ~error /\ root' = Slide(root, [timestamp |-> dts, duration |-> last - dts,
                                       rap |-> rap, file |-> opened])
    BY <1>3, <2>1 DEF CloseSegment
  <2>3. OnSegment(opened, written)
    BY <1>3, <2>1 DEF CloseSegment
  <2>4. mpd' = mpd \/ mpd' = NewMpd
    BY <2>3 DEF OnSegment, Playlist, shown
  <2>. QED  BY <1>3, <2>2, <2>4
<1>. QED  BY <1>1, <1>2, <1>3

\* What is spent on the open segment when the gate cuts, and what the gate keeps
\* over the cut.
LEMMA GateClean ==
  ASSUME StreamInv, CleanInv, NEW pts \in 0..MaxTime, NEW sps \in BOOLEAN,
         Encoder(pts, sps), Gate(pts, sps)
  PROVE  LET cut == sps /\ LetThrough(pts)
         IN  /\ i_timestamp' = 0 => var_timestamp' = 0
             /\ clock = NoTime => sps /\ ~cut
             /\ cut \/ clock = NoTime =>
                  i_timestamp' = pts /\ (MaxGop < GATE => var_timestamp' <= MaxGop)
             /\ raw /\ cut /\ MaxGop < GATE => pts - dts >= GATE - Jitter
             /\ raw /\ ~cut =>
                  /\ dts <= i_timestamp'
                  /\ MaxGop < GATE => var_timestamp' - MaxGop <= i_timestamp' - dts
<1>1. /\ i_timestamp \in Nat /\ var_timestamp \in Nat
      /\ clock \in Int /\ GATE \in Nat /\ GATE >= 1 /\ MaxGop \in Nat
      /\ pts \in Nat
  BY GateAssumption, GopAssumption DEF StreamInv, NoTime
<1>2. /\ clock < pts /\ pts >= i_timestamp
      /\ clock = NoTime => sps /\ ~raw /\ i_timestamp = 0
      /\ clock # NoTime => /\ pts <= i_timestamp + MaxGop /\ pts # 0
                           /\ sps => pts - i_timestamp \in Gops
  BY <1>1 DEF StreamInv, Encoder, NoTime
<1>3. /\ i_timestamp = 0 => var_timestamp = 0
      /\ raw => /\ dts \in Nat /\ dts <= i_timestamp /\ clock # NoTime
                /\ MaxGop < GATE => var_timestamp - MaxGop <= i_timestamp - dts
  BY DEF StreamInv, OpenInv, CleanInv
<1>4. CASE ~sps
  <2>1. i_timestamp' = i_timestamp /\ var_timestamp' = var_timestamp
    BY <1>4 DEF Gate, gate
  <2>. QED  BY <1>2, <1>3, <1>4, <2>1
<1>5. CASE sps /\ clock = NoTime
  <2>1. difftimestamp(pts) = 0 /\ var_timestamp = 0
    BY <1>2, <1>3, <1>5 DEF difftimestamp
  <2>2. i_timestamp' = pts /\ var_timestamp' = 0 /\ ~LetThrough(pts)
    BY <1>1, <1>5, <2>1 DEF Gate, LetThrough
  <2>. QED  BY <1>1, <1>2, <1>5, <2>2
<1>6. CASE sps /\ clock # NoTime
  <2>. DEFINE dist == pts - i_timestamp
              diff == difftimestamp(pts)
  <2>1. dist \in Gops /\ dist \in Nat /\ dist <= MaxGop
    <3>1. dist \in Gops
      BY <1>2, <1>6
    <3>. HIDE DEF dist
    <3>. QED  BY <3>1, GopAssumption
  <2>2. /\ diff \in Nat /\ diff <= dist
        /\ i_timestamp # 0 => diff = dist
        /\ i_timestamp = 0 => diff = 0
    BY <1>1, <2>1 DEF difftimestamp
  <2>3. i_timestamp' = pts /\ pts # 0
    BY <1>2, <1>6 DEF Gate
  <2>4. Jitter \in Int /\ MaxGop - dist <= Jitter
    BY <2>1, LeastGop
  <2>5. LetThrough(pts) <=> diff >= GATE \/ var_timestamp >= GATE
    BY DEF LetThrough
  <2>6. ASSUME ~LetThrough(pts)
        PROVE  var_timestamp' = var_timestamp + diff
    BY <1>1, <1>6, <2>2, <2>6 DEF Gate, LetThrough
  <2>7. ASSUME LetThrough(pts), MaxGop < GATE
        PROVE  var_timestamp' = diff /\ var_timestamp >= GATE
    BY <1>1, <1>6, <2>1, <2>2, <2>7 DEF Gate, LetThrough
  <2>8. pts = i_timestamp + dist
    BY <1>1
  <2>. HIDE DEF dist, diff
  <2>9. ASSUME raw, LetThrough(pts), MaxGop < GATE
        PROVE  pts - dts >= GATE - Jitter
    <3>1. var_timestamp >= GATE /\ var_timestamp - MaxGop <= i_timestamp - dts
      BY <2>7, <2>9, <1>3
    <3>2. i_timestamp + dist - dts >= GATE - MaxGop + dist
      BY <1>1, <1>3, <2>1, <2>9, <3>1
    <3>. QED  BY <1>1, <1>3, <2>1, <2>4, <2>8, <2>9, <3>2
  <2>10. ASSUME raw, ~LetThrough(pts), MaxGop < GATE
         PROVE  var_timestamp' - MaxGop <= pts - dts
    BY <1>1, <1>3, <2>1, <2>2, <2>6, <2>8, <2>10
  <2>11. raw => dts <= pts
    BY <1>1, <1>2, <1>3
  <2>. QED  BY <1>6, <2>1, <2>2, <2>3, <2>7, <2>9, <2>10, <2>11, <1>1
<1>. QED  BY <1>4, <1>5, <1>6
------------------------------------------------------------------------------
(* CleanInv is inductive.                                                   *)

\* A flush of an open segment that joins the list.
LEMMA FlushClean ==
  ASSUME IInv, CleanInv, NEW last \in Nat, NEW saved \in BOOLEAN,
         NEW opened \in BOOLEAN, NEW written \in BOOLEAN,
         raw => dts <= last, Flush(last, saved, opened, written)
  PROVE  /\ Contiguous(root') /\ Contiguous(mpd'.segs) /\ Keyed(root')
         /\ raw /\ ~error' => Joins(root', last)
         /\ /\ MaxGop < GATE /\ phase = "live"
            /\ raw => last - dts >= GATE - Jitter
            => Filled(root', GATE - Jitter)
<1>1. /\ raw \in BOOLEAN /\ rap \in BOOLEAN
      /\ root \in Seq(Segment) /\ Len(root) <= N_COUNT
      /\ raw => dts \in Nat
  BY DEF IInv, StreamInv, OpenInv, ListInv, ListType
<1>2. /\ raw => rap
      /\ raw /\ ~error => Joins(root, dts)
      /\ Contiguous(root) /\ Contiguous(mpd.segs) /\ Keyed(root)
      /\ MaxGop < GATE /\ phase = "live" => Filled(root, GATE - Jitter)
  BY DEF CleanInv
<1>3. CASE root' = root /\ mpd' = mpd /\ (error' \/ ~raw)
  <2>1. Contiguous(root') /\ Contiguous(mpd'.segs) /\ Keyed(root')
    BY <1>2, <1>3 DEF Contiguous, Keyed
  <2>2. MaxGop < GATE /\ phase = "live" => Filled(root', GATE - Jitter)
    BY <1>2, <1>3 DEF Filled
  <2>. QED  BY <1>3, <2>1, <2>2
<1>. DEFINE seg == [timestamp |-> dts, duration |-> last - dts,
                    rap |-> rap, file |-> opened]
<1>4. CASE /\ raw /\ ~error /\ ~error'
           /\ root' = Slide(root, seg)
           /\ mpd' = mpd \/ mpd' = NewMpd
  <2>1. last - dts \in Nat
    BY <1>1, <1>4
  <2>2. seg \in Segment
    BY <1>1, <1>4, <2>1 DEF Segment
  <2>3. seg.timestamp = dts /\ EndOf(seg) = last /\ seg.rap = rap
        /\ seg.duration = last - dts
    BY <1>1, <1>4 DEF EndOf
  <2>. HIDE DEF seg
  <2>4. Contiguous(root')
    BY <1>1, <1>2, <1>4, <2>2, <2>3, SlideContiguous
  <2>5. Contiguous(mpd'.segs)
    BY <1>2, <1>4 DEF Contiguous, NewMpd
  <2>6. root'[Len(root')] = seg
    BY <1>1, <1>4, <2>2, SlideShape
  <2>7. \A i \in 1..Len(root') : root'[i] = seg \/ \E j \in 1..Len(root) : root'[i] = root[j]
    BY <1>1, <1>4, <2>2, SlideMembers
  <2>8. Keyed(root')
    BY <1>2, <1>4, <2>3, <2>7 DEF Keyed
  <2>9. Joins(root', last)
    BY <2>3, <2>6 DEF Joins
  <2>10. ASSUME MaxGop < GATE, phase = "live", raw => last - dts >= GATE - Jitter
         PROVE  Filled(root', GATE - Jitter)
    BY <1>2, <1>4, <2>3, <2>7, <2>10 DEF Filled
  <2>. QED  BY <1>4, <2>4, <2>5, <2>8, <2>9, <2>10
<1>. QED  BY <1>1, <1>3, <1>4, FlushEffect

\* What the gate kept is at most one distance, at the start of a segment.
LEMMA WithinGop ==
  ASSUME NEW a \in Nat, NEW b \in Nat, a = b, NEW v \in Int, NEW m \in Nat
  PROVE  a <= b /\ (v <= m => v - m <= b - a)
OBVIOUS

\* A frame that is not empty.
LEMMA OnReadClean ==
  ASSUME EmptyFrames \subseteq {FALSE}, IInv, CleanInv, OnRead
  PROVE  CleanInv'
<1>1. PICK pts \in 0..MaxTime, sps \in BOOLEAN, empty \in EmptyFrames,
           saved \in SaveResults, opened \in OpenResults, written \in OpenResults :
        /\ Encoder(pts, sps) /\ clock' = pts
        /\ Gate(pts, sps)
        /\ Input(pts, sps, empty, sps /\ LetThrough(pts), saved, opened, written)
  BY DEF OnRead
<1>. DEFINE cut == sps /\ LetThrough(pts)
<1>2. /\ phase = "live" /\ phase' = "live" /\ adapation' = adapation
      /\ saved \in BOOLEAN /\ opened \in BOOLEAN /\ written \in BOOLEAN
      /\ pts \in Nat /\ pts # NoTime
  BY <1>1, InputAssumption DEF OnRead, NoTime
<1>nonempty. ~empty
  OBVIOUS
<1>3. /\ i_timestamp' = 0 => var_timestamp' = 0
      /\ clock = NoTime => sps /\ ~cut
      /\ cut \/ clock = NoTime =>
           i_timestamp' = pts /\ (MaxGop < GATE => var_timestamp' <= MaxGop)
      /\ raw /\ cut /\ MaxGop < GATE => pts - dts >= GATE - Jitter
      /\ raw /\ ~cut =>
           /\ dts <= i_timestamp'
           /\ MaxGop < GATE => var_timestamp' - MaxGop <= i_timestamp' - dts
  BY <1>1, GateClean DEF IInv
<1>4. /\ raw \in BOOLEAN /\ rap \in BOOLEAN
      /\ adapation \in {0, Failed}
      /\ clock \in 0..MaxTime \cup {NoTime} /\ i_timestamp \in Nat
      /\ raw => dts \in Nat /\ dts <= clock /\ adapation = 0
      /\ clock = NoTime => ~raw /\ root = <<>>
  BY DEF IInv, StreamInv, OpenInv
<1>5. clock < pts
  BY <1>1, <1>4, GopAssumption DEF Encoder, NoTime, IInv, StreamInv
<1>6. i_timestamp' \in Nat /\ var_timestamp' \in Int /\ MaxGop \in Nat
  <2>1. i_timestamp' \in Nat /\ var_timestamp' \in 0..(2 * (GATE - 1))
    BY <1>1, GateStep DEF IInv
  <2>. QED  BY <2>1, GateAssumption, GopAssumption
<1>7. /\ adapation = 0 /\ clock # NoTime => raw
      /\ raw => rap
      /\ raw /\ ~error => Joins(root, dts)
      /\ Contiguous(root) /\ Contiguous(mpd.segs) /\ Keyed(root)
      /\ MaxGop < GATE => Filled(root, GATE - Jitter)
  BY <1>2 DEF CleanInv
<1>. HIDE DEF cut
<1>8. CASE adapation = Failed /\ UNCHANGED <<open, error, root, shown, max_segment_duration>>
  <2>1. ~raw /\ raw' = raw /\ root' = root /\ mpd' = mpd /\ adapation' # 0
    BY <1>2, <1>4, <1>8 DEF open, shown, Failed
  <2>2. Contiguous(root') /\ Contiguous(mpd'.segs) /\ Keyed(root')
    BY <1>7, <2>1 DEF Contiguous, Keyed
  <2>3. MaxGop < GATE => Filled(root', GATE - Jitter)
    BY <1>7, <2>1 DEF Filled
  <2>. QED  BY <1>2, <1>3, <2>1, <2>2, <2>3 DEF CleanInv
<1>9. CASE adapation = 0 /\ cut /\ Cut(pts, sps, saved, opened, written)
  <2>1. /\ Flush(pts, saved, opened, written)
        /\ dts' = pts /\ raw' = TRUE /\ rap' = sps
    BY <1>9 DEF Cut, OpenWith
  <2>2. raw /\ sps
    BY <1>3, <1>7, <1>9 DEF cut
  <2>3. dts <= pts
    BY <1>2, <1>4, <1>5, <2>2 DEF NoTime
  <2>4. /\ Contiguous(root') /\ Contiguous(mpd'.segs) /\ Keyed(root')
        /\ raw /\ ~error' => Joins(root', pts)
    BY <1>2, <2>1, <2>3, FlushClean
  <2>5. MaxGop < GATE => Filled(root', GATE - Jitter)
    BY <1>2, <1>3, <1>9, <2>1, <2>2, <2>3, FlushClean
  <2>6. i_timestamp' = pts /\ (MaxGop < GATE => var_timestamp' <= MaxGop)
    BY <1>3, <1>9
  <2>7. /\ dts' <= i_timestamp'
        /\ MaxGop < GATE => var_timestamp' - MaxGop <= i_timestamp' - dts'
    <3>1. dts' = i_timestamp' /\ i_timestamp' \in Nat /\ var_timestamp' \in Int
          /\ MaxGop \in Nat
      BY <1>6, <2>1, <2>6
    <3>. QED  BY <2>6, <3>1, WithinGop
  <2>. QED  BY <1>1, <1>2, <1>3, <2>1, <2>2, <2>4, <2>5, <2>7 DEF CleanInv
<1>10. CASE adapation = 0 /\ ~cut /\ Extend(pts, sps)
  <2>1. root' = root /\ mpd' = mpd /\ error' = error
    BY <1>10 DEF Extend, shown
  <2>2. Contiguous(root') /\ Contiguous(mpd'.segs) /\ Keyed(root')
    BY <1>7, <2>1 DEF Contiguous, Keyed
  <2>3. MaxGop < GATE => Filled(root', GATE - Jitter)
    BY <1>7, <2>1 DEF Filled
  <2>4. CASE raw
    <3>1. dts' = dts /\ raw' = raw /\ rap' = rap
      BY <1>10, <2>4 DEF Extend
    <3>2. ~error' => Joins(root', dts')
      BY <1>7, <2>1, <2>4, <3>1 DEF Joins
    <3>. QED  BY <1>2, <1>3, <1>7, <1>10, <2>2, <2>3, <2>4, <3>1, <3>2 DEF CleanInv
  <2>5. CASE ~raw
    <3>1. dts' = pts /\ raw' = TRUE /\ rap' = sps
      BY <1>10, <2>5 DEF Extend, OpenWith
    <3>2. clock = NoTime
      BY <1>7, <1>10, <2>5
    <3>3. Joins(root', dts')
      BY <1>4, <2>1, <3>2 DEF Joins
    <3>4. i_timestamp' = pts /\ (MaxGop < GATE => var_timestamp' <= MaxGop) /\ sps
      BY <1>3, <3>2
    <3>5. /\ dts' <= i_timestamp'
          /\ MaxGop < GATE => var_timestamp' - MaxGop <= i_timestamp' - dts'
      <4>1. dts' = i_timestamp' /\ i_timestamp' \in Nat /\ var_timestamp' \in Int
            /\ MaxGop \in Nat
        BY <1>6, <3>1, <3>4
      <4>. QED  BY <3>4, <4>1, WithinGop
    <3>. QED  BY <1>2, <1>3, <2>2, <2>3, <3>1, <3>3, <3>4, <3>5 DEF CleanInv
  <2>. QED  BY <1>4, <2>4, <2>5
<1>. QED  BY <1>1, <1>nonempty, <1>8, <1>9, <1>10 DEF Input, cut

\* The first frame's set-up: nothing is listed or open yet.
LEMMA StartClean ==
  ASSUME IInv, CleanInv, Start
  PROVE  CleanInv'
<1>1. PICK saved \in SaveResults, opened \in OpenResults :
        IF saved THEN OnSegment(opened, TRUE) ELSE UNCHANGED shown
  BY DEF Start
<1>2. /\ phase = "new" /\ phase' = "live"
      /\ UNCHANGED <<clock, i_timestamp, var_timestamp, dts, raw, rap, root>>
  BY DEF Start, gate, open
<1>3. mpd' = mpd \/ mpd' = NewMpd
  BY <1>1 DEF OnSegment, Playlist, shown
<1>4. clock = NoTime /\ ~raw /\ root = <<>> /\ root' = <<>>
  BY <1>2 DEF CleanInv, IInv, StreamInv
<1>5. Contiguous(mpd'.segs)
  BY <1>3 DEF CleanInv, Contiguous, NewMpd
<1>6. Filled(root', GATE - Jitter)
  BY <1>4 DEF Filled
<1>. QED  BY <1>2, <1>4, <1>5, <1>6 DEF CleanInv, Contiguous, Keyed

\* The last segment ends with the stream; it may be as short as it likes.
LEMMA DestroyClean ==
  ASSUME IInv, CleanInv, Destroy
  PROVE  CleanInv'
<1>1. PICK saved \in SaveResults, opened \in OpenResults, written \in OpenResults :
        Flush(dts_last, saved, opened, written)
  BY DEF Destroy
<1>2. /\ phase' = "destroyed" /\ raw' = FALSE
      /\ UNCHANGED <<i_timestamp, var_timestamp>>
  BY DEF Destroy, gate
<1>3. saved \in BOOLEAN /\ opened \in BOOLEAN /\ written \in BOOLEAN
  BY InputAssumption
<1>4. dts_last \in Nat /\ (raw => dts <= dts_last)
  BY DEF IInv, StreamInv, OpenInv
<1>5. Contiguous(root') /\ Contiguous(mpd'.segs) /\ Keyed(root')
  BY <1>1, <1>3, <1>4, FlushClean
<1>. QED  BY <1>2, <1>5 DEF CleanInv

\* IInv and CleanInv are invariants of a stream without empty frames.
THEOREM CleanInvariance ==
  ASSUME EmptyFrames \subseteq {FALSE}
  PROVE  Spec => [](IInv /\ CleanInv)
<1>1. Init => CleanInv
  <2>1. SUFFICES ASSUME Init PROVE CleanInv  OBVIOUS
  <2>2. Len(root) = 0 /\ Len(mpd.segs) = 0
    BY <2>1 DEF Init, NoMpd
  <2>. QED  BY <2>1, <2>2 DEF Init, CleanInv, Contiguous, Keyed
<1>2. IInv /\ CleanInv /\ [Next]_vars => IInv' /\ CleanInv'
  <2>. SUFFICES ASSUME IInv, CleanInv, [Next]_vars PROVE IInv' /\ CleanInv'  OBVIOUS
  <2>1. IInv'
    BY OnReadInv, StartInv, DestroyInv, Stutter DEF Next, Finished
  <2>2. CASE UNCHANGED vars
    BY <2>1, <2>2 DEF vars, gate, open, shown, CleanInv, Joins, Contiguous, Keyed, Filled
  <2>. QED  BY <2>1, <2>2, OnReadClean, StartClean, DestroyClean DEF Next, Finished
<1>. QED  BY <1>1, <1>2, InitInv, PTL DEF Spec
------------------------------------------------------------------------------
(* AdvanceInv is inductive.                                                 *)

\* List w begins no earlier than v and ends later.
Follows(v, w) ==
  /\ w # <<>> /\ v[1].timestamp <= w[1].timestamp
  /\ v[Len(v)].timestamp < w[Len(w)].timestamp

\* The times at both ends of a list are numbers.
LEMMA EndTimes ==
  ASSUME NEW w \in Seq(Segment), w # <<>>
  PROVE  w[1].timestamp \in Nat /\ w[Len(w)].timestamp \in Nat
<1>1. 1 \in 1..Len(w) /\ Len(w) \in 1..Len(w)
  OBVIOUS
<1>. QED  BY <1>1, SegmentFields

\* A list that follows one that follows a third follows the third.
LEMMA FollowsOn ==
  ASSUME NEW u \in Seq(Segment), NEW v \in Seq(Segment), NEW w \in Seq(Segment),
         u # <<>>, v # <<>>, w # <<>>, Follows(u, v), Follows(v, w)
  PROVE  Follows(u, w)
<1>1. /\ u[1].timestamp \in Nat /\ u[Len(u)].timestamp \in Nat
      /\ v[1].timestamp \in Nat /\ v[Len(v)].timestamp \in Nat
      /\ w[1].timestamp \in Nat /\ w[Len(w)].timestamp \in Nat
  BY EndTimes
<1>2. /\ u[1].timestamp <= v[1].timestamp /\ u[Len(u)].timestamp < v[Len(v)].timestamp
      /\ v[1].timestamp <= w[1].timestamp /\ v[Len(v)].timestamp < w[Len(w)].timestamp
  BY DEF Follows
<1>. DEFINE a == u[1].timestamp
            b == v[1].timestamp
            c == w[1].timestamp
            d == u[Len(u)].timestamp
            e == v[Len(v)].timestamp
            f == w[Len(w)].timestamp
<1>3. a <= c /\ d < f
  <2>1. /\ a \in Nat /\ b \in Nat /\ c \in Nat /\ a <= b /\ b <= c
        /\ d \in Nat /\ e \in Nat /\ f \in Nat /\ d < e /\ e < f
    BY <1>1, <1>2
  <2>. HIDE DEF a, b, c, d, e, f
  <2>. QED  BY <2>1
<1>. QED  BY <1>3 DEF Follows

\* What moves on is what the next state's playlist follows.
LEMMA AdvancedIs == Follows(mpd'.segs, root') => Advanced'
BY DEF Follows, Advanced

\* A flush that links a segment behind the list moves the list on, and a playlist
\* it writes is the list of before.
LEMMA FlushAdvance ==
  ASSUME IInv, Advanced, NEW last \in Nat, NEW saved \in BOOLEAN,
         NEW opened \in BOOLEAN, NEW written \in BOOLEAN,
         raw => dts <= last, Flush(last, saved, opened, written)
  PROVE  Advanced' /\ (mpd' = mpd \/ mpd'.segs = root)
<1>1. /\ raw \in BOOLEAN /\ rap \in BOOLEAN
      /\ root \in Seq(Segment) /\ Len(root) <= N_COUNT /\ mpd.segs \in Seq(Segment)
      /\ Ordered(root) /\ Ordered(mpd.segs)
      /\ raw => dts \in Nat /\ Before(root, dts)
  BY DEF IInv, StreamInv, OpenInv, ListInv, ListType
<1>2. CASE root' = root /\ mpd' = mpd
  BY <1>2 DEF Advanced
<1>. DEFINE seg == [timestamp |-> dts, duration |-> last - dts,
                    rap |-> rap, file |-> opened]
<1>3. CASE /\ raw
           /\ root' = Slide(root, seg)
           /\ mpd' = mpd \/ mpd' = NewMpd
  <2>1. last - dts \in Nat
    BY <1>1, <1>3
  <2>2. seg \in Segment /\ seg.timestamp = dts
    BY <1>1, <1>3, <2>1 DEF Segment
  <2>. HIDE DEF seg
  <2>3. mpd' = mpd \/ mpd'.segs = root
    BY <1>3 DEF NewMpd
  <2>4. CASE root = <<>>
    BY <2>3, <2>4 DEF Advanced
  <2>5. CASE root # <<>>
    <3>1. /\ root' \in Seq(Segment) /\ root' # <<>>
          /\ root[1].timestamp <= root'[1].timestamp
          /\ root[Len(root)].timestamp < root'[Len(root')].timestamp
      BY <1>1, <1>3, <2>2, <2>5, SlideEnds
    <3>2. CASE mpd'.segs = root
      <4>1. Follows(mpd'.segs, root')
        BY <3>1, <3>2 DEF Follows
      <4>. QED  BY <2>3, <3>2, <4>1, AdvancedIs
    <3>3. CASE mpd' = mpd /\ mpd.segs # <<>>
      <4>1. Follows(mpd.segs, root)
        BY <3>3 DEF Advanced, Follows
      <4>2. Follows(root, root')
        BY <3>1 DEF Follows
      <4>3. Follows(mpd.segs, root')
        BY <1>1, <2>5, <3>1, <3>3, <4>1, <4>2, FollowsOn
      <4>. QED  BY <3>3, <4>3, AdvancedIs
    <3>. QED  BY <2>3, <3>2, <3>3 DEF Advanced
  <2>. QED  BY <2>4, <2>5
<1>. QED  BY <1>1, <1>2, <1>3, FlushEffect

\* A step of the segmenter moves the list on, and a new playlist is the list that
\* was there before the step.
LEMMA StepAdvances ==
  ASSUME IInv, AdvanceInv, [Next]_vars
  PROVE  AdvanceInv' /\ (mpd' = mpd \/ mpd'.segs = root)
<1>. USE DEF AdvanceInv
<1>1. CASE root' = root /\ mpd' = mpd /\ phase' = phase
  BY <1>1 DEF Advanced
<1>2. CASE Start
  <2>1. PICK saved \in SaveResults, opened \in OpenResults :
          IF saved THEN OnSegment(opened, TRUE) ELSE UNCHANGED shown
    BY <1>2 DEF Start
  <2>2. mpd' = mpd \/ mpd' = NewMpd
    BY <2>1 DEF OnSegment, Playlist, shown
  <2>3. root = <<>> /\ root' = <<>> /\ phase' = "live"
    BY <1>2 DEF Start
  <2>. QED  BY <2>2, <2>3 DEF Advanced, NewMpd
<1>3. CASE OnRead
  <2>1. PICK pts \in 0..MaxTime, sps \in BOOLEAN, empty \in EmptyFrames,
             saved \in SaveResults, opened \in OpenResults, written \in OpenResults :
          /\ Encoder(pts, sps)
          /\ Input(pts, sps, empty, sps /\ LetThrough(pts), saved, opened, written)
    BY <1>3 DEF OnRead
  <2>2. /\ saved \in BOOLEAN /\ opened \in BOOLEAN /\ written \in BOOLEAN
        /\ pts \in Nat
    BY <2>1, InputAssumption
  <2>3. raw => dts <= pts
    <3>1. raw => /\ dts \in Nat /\ clock \in Nat /\ dts <= clock /\ clock < pts
      BY <2>1 DEF IInv, StreamInv, OpenInv, Encoder, NoTime
    <3>. QED  BY <2>2, <3>1
  <2>4. \/ root' = root /\ mpd' = mpd
        \/ Flush(pts, saved, opened, written)
    BY <2>1 DEF Input, FlushOnly, Cut, Extend, shown
  <2>5. phase = "live" /\ phase' = "live"
    BY <1>3 DEF OnRead
  <2>. QED  BY <1>1, <2>2, <2>3, <2>4, <2>5, FlushAdvance
<1>4. CASE Destroy
  <2>1. PICK saved \in SaveResults, opened \in OpenResults, written \in OpenResults :
          Flush(dts_last, saved, opened, written)
    BY <1>4 DEF Destroy
  <2>2. saved \in BOOLEAN /\ opened \in BOOLEAN /\ written \in BOOLEAN
    BY InputAssumption
  <2>3. dts_last \in Nat /\ (raw => dts <= dts_last)
    BY DEF IInv, StreamInv, OpenInv
  <2>4. phase' = "destroyed"
    BY <1>4 DEF Destroy
  <2>. QED  BY <2>1, <2>2, <2>3, <2>4, FlushAdvance
<1>5. CASE UNCHANGED vars
  BY <1>1, <1>5 DEF vars, shown
<1>. QED  BY <1>2, <1>3, <1>4, <1>5 DEF Next, Finished

\* IInv and AdvanceInv are invariants, whatever fails.
THEOREM AdvanceInvariance == Spec => [](IInv /\ AdvanceInv)
<1>1. Init => AdvanceInv
  BY DEF Init, NoMpd, AdvanceInv, Advanced
<1>2. IInv /\ AdvanceInv /\ [Next]_vars => IInv' /\ AdvanceInv'
  BY StepAdvances, OnReadInv, StartInv, DestroyInv, Stutter DEF Next, Finished
<1>. QED  BY <1>1, <1>2, InitInv, PTL DEF Spec
------------------------------------------------------------------------------
(* How far the newest playlist is behind.  FreshInv is what holds on top of *)
(* CleanInv where nothing fails: every closing segment counts a playlist or *)
(* writes one, and what a segment takes longer than the gate's two          *)
(* thresholds is in var_timestamp when the next one begins.                 *)

\* The longest distance or the most the gate accumulates, whichever is more.
Longest == MAX(2 * (GATE - 1), MaxGop)

FreshInv ==
  /\ ~error /\ adapation = 0
  /\ phase = "new" => count = 0 /\ root = <<>>
  /\ phase # "new" /\ Len(root) < N_COUNT => count = Len(root) + 1
  /\ Len(root) = N_COUNT => /\ count > N_COUNT /\ mpd.segs # <<>>
                            /\ EndOf(mpd.segs[Len(mpd.segs)]) = root[Len(root)].timestamp
  /\ raw /\ root # <<>> => i_timestamp - dts <= var_timestamp
  /\ raw /\ Len(root) >= 2 =>
       i_timestamp - root[Len(root)].timestamp <= var_timestamp + Longest
  /\ ~raw /\ Len(root) >= 2 => clock - root[Len(root)].timestamp <= MaxLag

\* Longest is at least as long as either, and part of MaxLag.
LEMMA LongestIs ==
  /\ Longest \in Nat /\ MaxGop \in Nat /\ GATE \in Nat /\ MaxLag \in Nat
  /\ 2 * (GATE - 1) <= Longest /\ MaxGop <= Longest
  /\ MaxLag = 2 * (GATE - 1) + MaxGop + Longest
BY GateAssumption, GopAssumption DEF Longest, MaxLag, MAX

\* A flush that nothing hinders links the open segment; from the N_COUNT-th on it
\* writes a playlist, which ends where that segment begins.
LEMMA FlushFresh ==
  ASSUME IInv, CleanInv, FreshInv, phase # "new", raw,
         NEW last \in Nat, dts <= last, Flush(last, TRUE, TRUE, TRUE)
  PROVE  /\ ~error' /\ root'[Len(root')].timestamp = dts
         /\ Len(root') \in Nat /\ Len(root') >= 1
         /\ Len(root') < N_COUNT => count' = Len(root') + 1
         /\ Len(root') = N_COUNT =>
              /\ count' > N_COUNT /\ mpd'.segs # <<>>
              /\ EndOf(mpd'.segs[Len(mpd'.segs)]) = dts
         /\ Len(root') >= 2 => root # <<>>
<1>. DEFINE seg == [timestamp |-> dts, duration |-> last - dts,
                    rap |-> rap, file |-> TRUE]
<1>1. /\ rap \in BOOLEAN /\ root \in Seq(Segment) /\ Len(root) <= N_COUNT
      /\ dts \in Nat /\ count \in Nat /\ N_COUNT \in Nat /\ N_COUNT >= 2
  BY WindowAssumption DEF IInv, StreamInv, OpenInv, ListInv, ListType
<1>2. ~error' /\ root' = Slide(root, seg) /\ Playlist(TRUE)
  BY DEF Flush, CloseSegment, OnSegment, FreshInv
<1>3. seg \in Segment /\ seg.timestamp = dts
  BY <1>1 DEF Segment
<1>. HIDE DEF seg
<1>4. root'[Len(root')] = seg /\ Len(root') \in Nat /\ Len(root') >= 1
  <2>1. /\ Slide(root, seg) \in Seq(Segment) /\ Len(Slide(root, seg)) >= 1
        /\ Slide(root, seg)[Len(Slide(root, seg))] = seg
    BY <1>1, <1>3, SlideShape
  <2>2. Len(Slide(root, seg)) \in Nat
    BY <2>1
  <2>. QED  BY <1>2, <2>1, <2>2
<1>5. Len(root') = IF Len(root) < N_COUNT THEN Len(root) + 1 ELSE N_COUNT
  BY <1>1, <1>2, <1>3 DEF Slide
<1>6. CASE count < N_COUNT
  <2>1. count' = count + 1 /\ Len(root) < N_COUNT /\ count = Len(root) + 1
    BY <1>1, <1>2, <1>6 DEF Playlist, FreshInv
  <2>2. Len(root') = count /\ count' = Len(root') + 1
    BY <1>1, <1>5, <2>1
  <2>3. Len(root') >= 2 => root # <<>>
    BY <1>1, <1>5, <2>1
  <2>. QED  BY <1>1, <1>2, <1>3, <1>4, <1>6, <2>2, <2>3
<1>7. CASE count >= N_COUNT
  <2>1. mpd'.segs = root /\ count' = count + 1
    BY <1>1, <1>2, <1>7 DEF Playlist, NewMpd
  <2>2. Len(root) >= 1 /\ Len(root') = N_COUNT
    BY <1>1, <1>5, <1>7 DEF FreshInv
  <2>3. root # <<>> /\ count' > N_COUNT
    BY <1>1, <1>7, <2>1, <2>2
  <2>4. EndOf(root[Len(root)]) = dts
    BY <2>3 DEF CleanInv, FreshInv, Joins
  <2>. QED  BY <1>1, <1>2, <1>3, <1>4, <2>1, <2>2, <2>3, <2>4
<1>. QED  BY <1>1, <1>6, <1>7

\* What the gate holds at a key frame, beyond what has passed since the one before.
LEMMA GateFresh ==
  ASSUME IInv, CleanInv, FreshInv, NEW pts \in 0..MaxTime, NEW sps \in BOOLEAN,
         Encoder(pts, sps), Gate(pts, sps), raw, root # <<>>
  PROVE  LET cut == sps /\ LetThrough(pts)
         IN  /\ i_timestamp' \in Nat /\ var_timestamp' \in Nat
             /\ cut => i_timestamp' = pts /\ pts - dts <= var_timestamp' + Longest
             /\ ~cut => i_timestamp' - i_timestamp <= var_timestamp' - var_timestamp
<1>1. /\ i_timestamp \in Nat /\ var_timestamp \in Nat /\ var_timestamp <= 2 * (GATE - 1)
      /\ pts \in Nat /\ dts \in Nat /\ dts <= i_timestamp
      /\ i_timestamp - dts <= var_timestamp
      /\ GATE \in Nat /\ GATE >= 1
  BY GateAssumption DEF IInv, StreamInv, OpenInv, CleanInv, FreshInv
<1>2. i_timestamp > 0
  <2>1. root \in Seq(Segment) /\ root[Len(root)].timestamp < dts
    BY DEF IInv, ListInv, ListType, StreamInv, OpenInv, Before
  <2>2. root[Len(root)].timestamp \in Nat
    BY <2>1, EndTimes
  <2>. QED  BY <1>1, <2>1, <2>2
<1>3. pts - i_timestamp \in Nat /\ pts - i_timestamp <= MaxGop
  <2>1. clock # NoTime /\ i_timestamp <= clock /\ clock \in Nat
    BY <1>1, <1>2 DEF IInv, StreamInv, NoTime
  <2>2. pts > clock /\ pts <= i_timestamp + MaxGop
    BY <2>1 DEF Encoder
  <2>. QED  BY <1>1, <2>1, <2>2, GopAssumption
<1>4. difftimestamp(pts) = pts - i_timestamp
  BY <1>1, <1>2 DEF difftimestamp
<1>5. /\ Longest \in Nat /\ MaxGop \in Nat
      /\ 2 * (GATE - 1) <= Longest /\ MaxGop <= Longest
  BY LongestIs
<1>6. CASE ~sps
  <2>1. i_timestamp' = i_timestamp /\ var_timestamp' = var_timestamp
    BY <1>6 DEF Gate, gate
  <2>. QED  BY <1>1, <1>6, <2>1
<1>7. CASE sps /\ ~LetThrough(pts)
  <2>1. i_timestamp' = pts /\ var_timestamp' = var_timestamp + (pts - i_timestamp)
    BY <1>1, <1>3, <1>4, <1>7 DEF Gate, LetThrough
  <2>. QED  BY <1>1, <1>3, <1>7, <2>1
<1>8. CASE sps /\ LetThrough(pts) /\ difftimestamp(pts) >= GATE
  <2>1. i_timestamp' = pts /\ var_timestamp' = var_timestamp
    BY <1>8 DEF Gate
  <2>. QED  BY <1>1, <1>3, <1>5, <1>8, <2>1
<1>9. CASE sps /\ LetThrough(pts) /\ ~(difftimestamp(pts) >= GATE)
  <2>1. var_timestamp >= GATE
    BY <1>9 DEF LetThrough
  <2>2. i_timestamp' = pts /\ var_timestamp' = pts - i_timestamp
    BY <1>1, <1>3, <1>4, <1>9, <2>1 DEF Gate
  <2>. QED  BY <1>1, <1>3, <1>5, <1>9, <2>2
<1>. QED  BY <1>6, <1>7, <1>8, <1>9

\* What holds between two times and two sums holds over both distances.
LEMMA Telescope ==
  ASSUME NEW i \in Nat, NEW j \in Nat, NEW v \in Nat, NEW u \in Nat,
         NEW d \in Nat, NEW slack \in Nat,
         i - d <= v + slack, j - i <= u - v
  PROVE  j - d <= u + slack
OBVIOUS

\* A frame, where nothing fails.
LEMMA OnReadFresh ==
  ASSUME EmptyFrames \subseteq {FALSE}, SaveResults \subseteq {TRUE},
         OpenResults \subseteq {TRUE}, IInv, CleanInv, FreshInv, OnRead
  PROVE  FreshInv'
<1>1. PICK pts \in 0..MaxTime, sps \in BOOLEAN :
        /\ Encoder(pts, sps) /\ clock' = pts
        /\ Gate(pts, sps)
        /\ Input(pts, sps, FALSE, sps /\ LetThrough(pts), TRUE, TRUE, TRUE)
  <2>1. PICK pts \in 0..MaxTime, sps \in BOOLEAN, empty \in EmptyFrames,
             saved \in SaveResults, opened \in OpenResults, written \in OpenResults :
          /\ Encoder(pts, sps) /\ clock' = pts
          /\ Gate(pts, sps)
          /\ Input(pts, sps, empty, sps /\ LetThrough(pts), saved, opened, written)
    BY DEF OnRead
  <2>2. empty = FALSE /\ saved = TRUE /\ opened = TRUE /\ written = TRUE
    OBVIOUS
  <2>. QED  BY <2>1, <2>2
<1>0. \/ sps /\ LetThrough(pts) /\ Cut(pts, sps, TRUE, TRUE, TRUE)
      \/ ~(sps /\ LetThrough(pts)) /\ Extend(pts, sps)
  <2>. DEFINE key == sps /\ LetThrough(pts)
  <2>. HIDE DEF key
  <2>1. adapation = 0 /\ adapation # Failed
    BY DEF FreshInv, Failed
  <2>2. \/ key /\ Cut(pts, sps, TRUE, TRUE, TRUE)
        \/ ~key /\ Extend(pts, sps)
    BY <1>1, <2>1 DEF Input, key
  <2>. QED  BY <2>2 DEF key
<1>2. /\ phase = "live" /\ phase' = "live" /\ adapation' = adapation /\ adapation = 0
      /\ pts \in Nat
  BY <1>1 DEF OnRead, FreshInv
<1>3. /\ raw \in BOOLEAN /\ root \in Seq(Segment) /\ Len(root) \in Nat
      /\ clock \in 0..MaxTime \cup {NoTime}
      /\ i_timestamp \in Nat /\ var_timestamp \in Nat
      /\ raw => dts \in Nat /\ dts <= clock
      /\ clock = NoTime => ~raw /\ root = <<>>
      /\ clock # NoTime => raw
  BY <1>2, GateAssumption DEF IInv, StreamInv, OpenInv, ListInv, ListType, CleanInv
<1>4. clock < pts
  BY <1>1, <1>2, <1>3 DEF Encoder, NoTime
<1>5. Longest \in Nat
  BY LongestIs
<1>6. i_timestamp' \in Nat /\ var_timestamp' \in Nat /\ (clock = NoTime => ~LetThrough(pts))
  <2>1. i_timestamp' \in Nat /\ var_timestamp' \in 0..(2 * (GATE - 1))
    BY <1>1, GateStep DEF IInv
  <2>2. clock = NoTime => ~(sps /\ LetThrough(pts)) /\ sps
    BY <1>1, GateClean DEF IInv
  <2>. QED  BY <2>1, <2>2, GateAssumption
<1>7. ASSUME sps, LetThrough(pts), Cut(pts, sps, TRUE, TRUE, TRUE)
      PROVE  FreshInv'
  <2>1. raw /\ dts \in Nat /\ dts <= pts
    BY <1>2, <1>3, <1>4, <1>6, <1>7 DEF NoTime
  <2>2. /\ Flush(pts, TRUE, TRUE, TRUE)
        /\ dts' = pts /\ raw' = TRUE
    BY <1>7 DEF Cut, OpenWith
  <2>3. /\ ~error' /\ root'[Len(root')].timestamp = dts
        /\ Len(root') \in Nat /\ Len(root') >= 1
        /\ Len(root') < N_COUNT => count' = Len(root') + 1
        /\ Len(root') = N_COUNT =>
             /\ count' > N_COUNT /\ mpd'.segs # <<>>
             /\ EndOf(mpd'.segs[Len(mpd'.segs)]) = dts
        /\ Len(root') >= 2 => root # <<>>
    BY <1>2, <2>1, <2>2, FlushFresh
  <2>4. i_timestamp' = pts
    BY <1>1, <1>7 DEF Gate
  <2>5. i_timestamp' - dts' <= var_timestamp'
    BY <1>2, <1>6, <2>2, <2>4
  <2>6. root # <<>> => pts - dts <= var_timestamp' + Longest
    BY <1>1, <1>7, <2>1, GateFresh
  <2>7. Len(root') >= 2 => i_timestamp' - root'[Len(root')].timestamp <= var_timestamp' + Longest
    BY <2>3, <2>4, <2>6
  <2>. QED  BY <1>2, <2>2, <2>3, <2>5, <2>7 DEF FreshInv
<1>8. ASSUME ~(sps /\ LetThrough(pts)), Extend(pts, sps)
      PROVE  FreshInv'
  <2>1. UNCHANGED <<error, root, count, mpd>>
    BY <1>8 DEF Extend, shown
  <2>2. raw' = TRUE
    BY <1>3, <1>8 DEF Extend, OpenWith
  <2>3. CASE raw
    <3>1. dts' = dts
      BY <1>8, <2>3 DEF Extend
    <3>2. ASSUME root # <<>>
          PROVE  i_timestamp' - i_timestamp <= var_timestamp' - var_timestamp
      BY <1>1, <1>8, <2>3, <3>2, GateFresh
    <3>. DEFINE i == i_timestamp  v == var_timestamp
                j == i_timestamp'  u == var_timestamp'
    <3>a. i \in Nat /\ v \in Nat /\ j \in Nat /\ u \in Nat /\ dts \in Nat
      BY <1>3, <1>6, <2>3
    <3>b. root # <<>> => j - i <= u - v
      BY <3>2
    <3>. HIDE DEF i, v, j, u
    <3>3. ASSUME root # <<>>
          PROVE  j - dts <= u
      <4>1. i - dts <= v
        BY <2>3, <3>3 DEF FreshInv, i, v
      <4>2. i - dts <= v + 0
        BY <3>a, <4>1
      <4>3. j - dts <= u + 0
        BY <3>a, <3>b, <3>3, <4>2, Telescope
      <4>. QED  BY <3>a, <4>3
    <3>4. ASSUME Len(root) >= 2
          PROVE  j - root[Len(root)].timestamp <= u + Longest
      <4>1. root # <<>>
        BY <1>3, <3>4
      <4>2. root[Len(root)].timestamp \in Nat
        BY <1>3, <4>1, EndTimes
      <4>3. i - root[Len(root)].timestamp <= v + Longest
        BY <2>3, <3>4 DEF FreshInv, i, v
      <4>. QED  BY <1>5, <3>a, <3>b, <4>1, <4>2, <4>3, Telescope
    <3>. QED  BY <1>2, <2>1, <2>2, <3>1, <3>3, <3>4 DEF FreshInv, j, u
  <2>4. CASE ~raw
    <3>1. root = <<>> /\ Len(root) = 0
      BY <1>3, <2>4
    <3>. QED  BY <1>2, <2>1, <2>2, <3>1 DEF FreshInv
  <2>. QED  BY <1>3, <2>3, <2>4
<1>. QED  BY <1>0, <1>7, <1>8

\* The set-up counts the first playlist.
LEMMA StartFresh ==
  ASSUME SaveResults \subseteq {TRUE}, OpenResults \subseteq {TRUE},
         IInv, CleanInv, FreshInv, Start
  PROVE  FreshInv'
<1>1. /\ phase = "new" /\ phase' = "live" /\ adapation' = 0 /\ ~error'
      /\ OnSegment(TRUE, TRUE)
      /\ UNCHANGED <<clock, i_timestamp, var_timestamp, dts, raw, root>>
  BY DEF Start, gate, open
<1>2. count = 0 /\ root = <<>> /\ N_COUNT \in Nat /\ N_COUNT >= 2
  BY <1>1, WindowAssumption DEF FreshInv
<1>3. count' = 1 /\ Len(root') = 0
  BY <1>1, <1>2 DEF OnSegment, Playlist
<1>. QED  BY <1>1, <1>2, <1>3 DEF FreshInv

\* The last segment ends with the last frame.
LEMMA DestroyFresh ==
  ASSUME SaveResults \subseteq {TRUE}, OpenResults \subseteq {TRUE},
         IInv, CleanInv, FreshInv, Destroy
  PROVE  FreshInv'
<1>1. /\ Flush(dts_last, TRUE, TRUE, TRUE)
      /\ phase = "live" /\ phase' = "destroyed" /\ raw' = FALSE
      /\ UNCHANGED <<adapation, clock>>
  BY DEF Destroy
<1>2. raw \in BOOLEAN
  BY DEF IInv, StreamInv
<1>3. CASE ~raw
  <2>1. UNCHANGED <<error, root, count, mpd>>
    BY <1>1, <1>3 DEF Flush, shown
  <2>. QED  BY <1>1, <1>3, <2>1 DEF FreshInv
<1>4. CASE raw
  <2>1. /\ dts \in Nat /\ dts <= clock /\ dts_last = clock /\ dts_last \in Nat
        /\ i_timestamp \in Nat /\ var_timestamp \in Nat
        /\ var_timestamp <= 2 * (GATE - 1)
        /\ clock <= i_timestamp + MaxGop
    BY <1>4, GateAssumption DEF IInv, StreamInv, OpenInv, NoTime
  <2>2. /\ ~error' /\ root'[Len(root')].timestamp = dts
        /\ Len(root') \in Nat /\ Len(root') >= 1
        /\ Len(root') < N_COUNT => count' = Len(root') + 1
        /\ Len(root') = N_COUNT =>
             /\ count' > N_COUNT /\ mpd'.segs # <<>>
             /\ EndOf(mpd'.segs[Len(mpd'.segs)]) = dts
        /\ Len(root') >= 2 => root # <<>>
    BY <1>1, <1>4, <2>1, FlushFresh
  <2>3. root # <<>> => clock - dts <= MaxLag
    BY <1>4, <2>1, LongestIs DEF FreshInv
  <2>. QED  BY <1>1, <2>2, <2>3 DEF FreshInv
<1>. QED  BY <1>2, <1>3, <1>4

\* IInv, CleanInv and FreshInv are invariants where nothing fails.
THEOREM FreshInvariance ==
  ASSUME EmptyFrames \subseteq {FALSE}, SaveResults \subseteq {TRUE},
         OpenResults \subseteq {TRUE}
  PROVE  Spec => [](IInv /\ CleanInv /\ FreshInv)
<1>1. Init => FreshInv
  <2>1. SUFFICES ASSUME Init PROVE FreshInv  OBVIOUS
  <2>2. Len(root) = 0 /\ N_COUNT >= 2 /\ N_COUNT \in Nat
    BY <2>1, WindowAssumption DEF Init
  <2>. QED  BY <2>1, <2>2 DEF Init, FreshInv
<1>2. IInv /\ CleanInv /\ FreshInv /\ [Next]_vars => FreshInv'
  <2>. SUFFICES ASSUME IInv, CleanInv, FreshInv, [Next]_vars PROVE FreshInv'  OBVIOUS
  <2>1. CASE UNCHANGED vars
    BY <2>1 DEF vars, gate, open, shown, FreshInv
  <2>. QED  BY <2>1, OnReadFresh, StartFresh, DestroyFresh DEF Next, Finished
<1>. QED  BY <1>1, <1>2, CleanInvariance, PTL DEF Spec
------------------------------------------------------------------------------
(* The theorems.                                                            *)

\* As long as no frame comes out empty the published timeline has no hole: the
\* flush of dash_mpd_input closes the segment at the dts of the frame that opens
\* the next, and a refused one stops the list for good.
THEOREM TimelineIsContiguous ==
  ASSUME EmptyFrames \subseteq {FALSE}
  PROVE  Spec => []TimelineContiguous
<1>1. IInv /\ CleanInv => TimelineContiguous
  BY DEF CleanInv, Joins, TimelineContiguous, Last
<1>. QED  BY <1>1, CleanInvariance, PTL

\* As long as no frame comes out empty every listed segment begins with a key
\* frame: only the first frame and a key frame that cuts open one.
THEOREM SegmentsBeginWithKey ==
  ASSUME EmptyFrames \subseteq {FALSE}
  PROVE  Spec => []SegmentsStartWithKey
<1>1. IInv /\ CleanInv => SegmentsStartWithKey
  BY DEF CleanInv, Keyed, SegmentsStartWithKey
<1>. QED  BY <1>1, CleanInvariance, PTL

\* As long as no frame comes out empty and key frames are closer than the gate, no
\* segment of a live stream falls short of the gate by more than the distances
\* vary.
THEOREM SegmentsNotTooShort ==
  ASSUME EmptyFrames \subseteq {FALSE}
  PROVE  Spec => []SegmentNotTooShort
<1>1. IInv /\ CleanInv => SegmentNotTooShort
  BY DEF CleanInv, Filled, SegmentNotTooShort
<1>. QED  BY <1>1, CleanInvariance, PTL

\* Where nothing fails, viewers of a full window are behind the camera by no more
\* than MaxLag: every segment that is closed puts the one before it into an MPD.
THEOREM PlaylistsAreFresh ==
  ASSUME EmptyFrames \subseteq {FALSE}, SaveResults \subseteq {TRUE},
         OpenResults \subseteq {TRUE}
  PROVE  Spec => []PlaylistFresh
<1>1. IInv /\ CleanInv /\ FreshInv => PlaylistFresh
  <2>. SUFFICES ASSUME IInv, CleanInv, FreshInv, Len(root) = N_COUNT
                PROVE  mpd.segs # <<>> /\ clock - EndOf(Last(mpd.segs)) <= MaxLag
    BY DEF PlaylistFresh
  <2>1. /\ mpd.segs # <<>> /\ EndOf(Last(mpd.segs)) = root[Len(root)].timestamp
        /\ Len(root) >= 2 /\ root # <<>> /\ root \in Seq(Segment) /\ raw \in BOOLEAN
    BY WindowAssumption DEF FreshInv, IInv, ListInv, ListType, StreamInv, Last
  <2>2. CASE ~raw
    BY <2>1, <2>2 DEF FreshInv
  <2>3. CASE raw
    <3>1. /\ clock \in Nat /\ i_timestamp \in Nat /\ clock <= i_timestamp + MaxGop
          /\ var_timestamp \in Nat /\ var_timestamp <= 2 * (GATE - 1)
      BY <2>3, GateAssumption DEF IInv, StreamInv, OpenInv, NoTime
    <3>2. root[Len(root)].timestamp \in Nat
      BY <2>1, EndTimes
    <3>3. i_timestamp - root[Len(root)].timestamp <= var_timestamp + Longest
      BY <2>1, <2>3 DEF FreshInv
    <3>. QED  BY <2>1, <3>1, <3>2, <3>3, LongestIs
  <2>. QED  BY <2>1, <2>2, <2>3
<1>. QED  BY <1>1, FreshInvariance, PTL

\* Whatever fails, a new MPD ends later than the one before and begins no earlier.
THEOREM PlaylistsOnlyAdvance == Spec => PlaylistsAdvance
<1>1. IInv /\ AdvanceInv /\ [Next]_vars =>
        [mpd' # mpd /\ mpd.segs # <<>> =>
           /\ mpd'.segs # <<>>
           /\ mpd'.segs[1].timestamp >= mpd.segs[1].timestamp
           /\ Last(mpd'.segs).timestamp > Last(mpd.segs).timestamp]_mpd
  <2>. SUFFICES ASSUME IInv, AdvanceInv, [Next]_vars, mpd' # mpd, mpd.segs # <<>>
                PROVE  /\ mpd'.segs # <<>>
                       /\ mpd'.segs[1].timestamp >= mpd.segs[1].timestamp
                       /\ Last(mpd'.segs).timestamp > Last(mpd.segs).timestamp
    OBVIOUS
  <2>1. mpd'.segs = root
    BY StepAdvances
  <2>2. /\ root # <<>>
        /\ mpd.segs[1].timestamp <= root[1].timestamp
        /\ mpd.segs[Len(mpd.segs)].timestamp < root[Len(root)].timestamp
    BY DEF AdvanceInv, Advanced
  <2>3. root \in Seq(Segment) /\ mpd.segs \in Seq(Segment)
    BY DEF IInv, ListInv, ListType
  <2>4. /\ mpd.segs[1].timestamp \in Nat /\ mpd.segs[Len(mpd.segs)].timestamp \in Nat
        /\ root[1].timestamp \in Nat /\ root[Len(root)].timestamp \in Nat
    BY <2>2, <2>3, SegmentFields
  <2>. QED  BY <2>1, <2>2, <2>4 DEF Last
<1>. QED  BY <1>1, AdvanceInvariance, PTL DEF Spec, PlaylistsAdvance
==============================================================================
