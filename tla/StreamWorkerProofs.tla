-------------------------- MODULE StreamWorkerProofs --------------------------
(***************************************************************************)
(* Proofs about StreamWorker and the FrameReader it extends, for every     *)
(* ring of the encoder and every frame it may make.  ReaderInv is the      *)
(* lockstep of the two counters for track numbers, RingInv follows how far *)
(* the encoder may have got ahead of the worker.                           *)
(***************************************************************************)
EXTENDS StreamWorker, FiniteSetTheorems, WellFoundedInduction, TLAPS

\* An encoder that makes one slice per frame, and no TRAIL_N (type 0) either.
OneSlice == MaxSlices = 1 /\ 0 \notin Types264 \cup Types265

\* Types whose low bits are those of a prefix SEI: RADL_R, and one that is unspecified.
NoLookalike == {7, 55} \cap Types265 = {}

\* The parameter block: the frame to begin with is a random access point that is
\* less than one distance older than the one that was looked for.
ParamInv ==
  /\ param.result = "unset" => /\ ~param.active /\ ~param.found
                               /\ FrameNumber = 0 /\ late = 0
  /\ param.active \in BOOLEAN /\ param.found \in BOOLEAN
  /\ param.active => param.vfNumber \in Nat /\ param.at \in Int
  /\ param.active /\ param.found =>
       /\ Key(param.vfNumber)
       /\ gop + lDurationBefore <= Capacity =>
            param.at - param.vfNumber < gop + lDurationBefore
  /\ param.found /\ param.result = "FW_OK" => param.encoder = codec

\* The worker is behind the encoder by no more than late and the distance it began
\* with.
RingInv ==
  /\ gop \in Nat \ {0} /\ newest \in Int /\ newest >= -1
  /\ FrameNumber \in Nat /\ late \in Nat
  /\ param.active =>
       late >= (newest - param.at) - (FrameNumber - param.vfNumber)

\* The counters for track numbers go in step.
ReaderInv ==
  /\ codec \in Codecs /\ track_id \in Nat \ {0} /\ start_init \in BOOLEAN
  /\ ~aborted
  /\ IF start_init THEN track_video = track_id /\ track_id >= 2 ELSE track_id = 1

\* The first frame is the one get_param chose; it sets up the stream.
FirstInv ==
  /\ start_init => param.result # "unset"
  /\ param.found /\ param.result = "FW_OK" =>
       IF start_init
       THEN /\ extra = ParameterSets
            /\ track_id = 2 => \A k \in DOMAIN samples : samples[k].key
       ELSE FrameNumber = param.vfNumber
------------------------------------------------------------------------------
(* Sets of numbers.                                                         *)

\* Min of a set of naturals is its least element.
LEMMA LeastIs ==
  ASSUME NEW S \in SUBSET Nat, S # {}
  PROVE  Min(S) \in S /\ \A y \in S : Min(S) <= y
<1>. DEFINE R == OpToRel(<, Nat)
<1>1. R = {ss \in Nat \X Nat : ss[1] < ss[2]}
  BY DEF OpToRel
<1>2. IsWellFoundedOn(R, Nat)
  BY NatLessThanWellFounded
<1>. HIDE DEF R
<1>3. PICK x \in S : \A y \in S : <<y, x>> \notin R
  BY <1>2, WFMin
<1>4. ASSUME NEW y \in S
      PROVE  x <= y
  <2>1. x \in Nat /\ y \in Nat /\ <<y, x>> \notin R
    BY <1>3
  <2>2. ~(<<y, x>>[1] < <<y, x>>[2])
    BY <1>1, <2>1
  <2>. QED  BY <2>1, <2>2
<1>5. \E z \in S : \A y \in S : z <= y
  BY <1>4
<1>. QED  BY <1>5 DEF Min

\* Max of a bounded set of naturals is its greatest element.
LEMMA GreatestIs ==
  ASSUME NEW n \in Nat, NEW S \in SUBSET (0..n), S # {}
  PROVE  Max(S) \in S /\ \A y \in S : y <= Max(S)
<1>. DEFINE D == {n - x : x \in S}
<1>1. D \subseteq Nat /\ D # {}
  <2>1. \A x \in S : x \in 0..n
    OBVIOUS
  <2>2. \A x \in S : n - x \in Nat
    BY <2>1
  <2>. QED  BY <2>2
<1>. HIDE DEF D
<1>2. Min(D) \in D /\ \A d \in D : Min(D) <= d
  BY <1>1, LeastIs
<1>3. PICK x \in S : Min(D) = n - x
  BY <1>2 DEF D
<1>4. ASSUME NEW y \in S
      PROVE  y <= x
  <2>1. n - y \in D
    BY DEF D
  <2>2. n - x <= n - y
    BY <1>2, <1>3, <2>1
  <2>. QED  BY <2>2
<1>5. \E z \in S : \A y \in S : z >= y
  BY <1>4
<1>6. Max(S) \in S /\ \A y \in S : Max(S) >= y
  BY <1>5 DEF Max
<1>. QED  BY <1>6

\* Max of two numbers.
LEMMA MaxOfTwo ==
  ASSUME NEW a \in Int, NEW b \in Int
  PROVE  Max({a, b}) \in Int /\ Max({a, b}) >= a /\ Max({a, b}) >= b
<1>1. \E x \in {a, b} : \A y \in {a, b} : x >= y
  OBVIOUS
<1>2. Max({a, b}) \in {a, b} /\ \A y \in {a, b} : Max({a, b}) >= y
  BY <1>1 DEF Max
<1>. QED  BY <1>2

\* A number less its remainder.
LEMMA LessRemainder ==
  ASSUME NEW x \in Nat, NEW g \in Nat \ {0}
  PROVE  x % g \in 0..g - 1 /\ x % g <= x /\ (x - (x % g)) % g = 0
<1>1. x % g \in 0..g - 1 /\ x % g <= x
  OBVIOUS
<1>2. x \div g \in Nat /\ x = (g * (x \div g)) + (x % g)
  OBVIOUS
<1>3. x - (x % g) = g * (x \div g)
  BY <1>1, <1>2
<1>4. (g * (x \div g)) % g = 0
  BY <1>2
<1>. QED  BY <1>1, <1>3, <1>4

\* Less than one distance below a number there is a random access point.
LEMMA KeyBelow ==
  ASSUME gop \in Nat \ {0}, NEW x \in Nat
  PROVE  \E k \in 0..x : Key(k) /\ x - k < gop
<1>. DEFINE r == x % gop
<1>1. r \in 0..gop - 1 /\ r <= x
  BY LessRemainder
<1>2. (x - r) % gop = 0
  BY LessRemainder
<1>. HIDE DEF r
<1>3. x - r \in 0..x /\ x - (x - r) < gop
  BY <1>1
<1>. QED  BY <1>2, <1>3 DEF Key
------------------------------------------------------------------------------
(* Where a stream begins.                                                   *)

\* What the loop of get_frame_num_video finds: a random access point of the list,
\* and if the ring holds a whole distance, one less than a distance too old.
LEMMA ScanFinds ==
  ASSUME gop \in Nat \ {0}, newest \in Int, newest >= -1,
         NEW first, first = Scan(Listed, newest - lDurationBefore), first # None
  PROVE  /\ first \in Nat /\ Key(first)
         /\ gop + lDurationBefore <= Capacity => newest - first < gop + lDurationBefore
<1>. DEFINE keys == {n \in Listed : Key(n)}
            time == newest - lDurationBefore
            early == {n \in keys : n <= time}
<1>1. Capacity \in Nat /\ lDurationBefore \in Nat /\ time \in Int
  BY RingAssumption
<1>2. keys \subseteq 0..newest /\ early \subseteq 0..newest
  BY DEF Listed
<1>3. CASE early # {}
  <2>1. first = Max(early)
    BY <1>3 DEF Scan
  <2>2. newest \in Nat
    BY <1>2, <1>3
  <2>3. first \in early /\ \A y \in early : y <= first
    BY <1>2, <1>3, <2>1, <2>2, GreatestIs
  <2>4. first \in Nat /\ Key(first) /\ first <= time /\ time \in Nat
    BY <1>1, <1>2, <2>3
  <2>5. PICK k \in 0..time : Key(k) /\ time - k < gop
    BY <2>4, KeyBelow
  <2>6. ASSUME gop + lDurationBefore <= Capacity
        PROVE  newest - first < gop + lDurationBefore
    <3>1. k > newest - Capacity /\ k <= newest /\ k \in 0..newest
      BY <1>1, <2>2, <2>5, <2>6
    <3>2. k \in early
      BY <2>5, <3>1 DEF Listed, Held
    <3>3. k <= first
      BY <2>3, <3>2
    <3>. QED  BY <1>1, <2>4, <2>5, <3>3
  <2>. QED  BY <2>4, <2>6
<1>4. CASE early = {} /\ keys # {}
  <2>1. first = Min(keys)
    BY <1>4 DEF Scan
  <2>2. first \in keys
    BY <1>2, <1>4, <2>1, LeastIs
  <2>3. first \in Nat /\ Key(first) /\ newest \in Nat /\ first > time
    BY <1>1, <1>2, <1>4, <2>2
  <2>4. newest - first < gop + lDurationBefore
    BY <1>1, <2>3
  <2>. QED  BY <2>3, <2>4
<1>5. early # {} \/ keys # {}
  <2>1. ASSUME early = {}, keys = {} PROVE FALSE
    BY <2>1 DEF Scan
  <2>. QED  BY <2>1
<1>. QED  BY <1>3, <1>4, <1>5
------------------------------------------------------------------------------
(* Frames.                                                                  *)

\* NAL unit types of the stream's codec.
Types == IF codec = "h264" THEN Types264 ELSE Types265

\* nals are the units of head, none of them a slice, and then slices: of a random
\* access point that head announces, or of another frame.
Made(nals, head, slices) ==
  /\ head \in Seq(Types) /\ slices \in Seq(Types) /\ nals = head \o slices
  /\ Len(slices) \in 1..MaxSlices
  /\ \A i \in 1..Len(head) : ~VCL(head[i])
  /\ \A i \in 1..Len(slices) : VCL(slices[i])
  /\ \/ Announced(codec, head) /\ \A i \in 1..Len(slices) : Irap(slices[i])
     \/ Plain(codec, head) /\ \A i \in 1..Len(slices) : ~Irap(slices[i])

\* A sequence of bounded length is a sequence.
LEMMA Bounded ==
  ASSUME NEW S, NEW n \in Nat, NEW w \in BoundedSeq(S, n)
  PROVE  w \in Seq(S) /\ Len(w) \in 0..n
<1>1. PICK m \in 0..n : w \in [1..m -> S]
  BY DEF BoundedSeq, SeqOf
<1>. QED  BY <1>1

\* What is in a set of concatenations is one.
LEMMA Joined ==
  ASSUME NEW H, NEW S, NEW x, x \in {h \o s : h \in H, s \in S}
  PROVE  \E h \in H, s \in S : x = h \o s
BY SMT

\* Every frame the encoder may deliver is made like that.
LEMMA FrameIsMade ==
  ASSUME codec \in Codecs, NEW nals \in Frames
  PROVE  \E head, slices : Made(nals, head, slices)
<1>. DEFINE heads == BoundedSeq({t \in Types : ~VclOf(codec, t)}, MaxNals)
            some(S) == BoundedSeq(S, MaxSlices) \ {<<>>}
            irap == {t \in Types : IrapOf(codec, t)}
            other == {t \in Types : VclOf(codec, t) /\ ~IrapOf(codec, t)}
            points == {g \in heads : Announced(codec, g)}
            others == {g \in heads : Plain(codec, g)}
            irapSlices == some(irap)
            otherSlices == some(other)
            P == {h \o s : h \in points, s \in irapSlices}
            Q == {h \o s : h \in others, s \in otherSlices}
<1>0. nals \in FramesOf(codec)
  BY DEF Frames, AllFrames
<1>9. FramesOf(codec) = P \cup Q
  BY DEF FramesOf, Types
<1>1. \/ \E h \in heads, s \in some(irap) : Announced(codec, h) /\ nals = h \o s
      \/ \E h \in heads, s \in some(other) : Plain(codec, h) /\ nals = h \o s
  <2>. HIDE DEF P, Q, points, others, irapSlices, otherSlices
  <2>0. nals \in P \/ nals \in Q
    BY <1>0, <1>9
  <2>1. ASSUME nals \in P
        PROVE  \E h \in points, s \in irapSlices : nals = h \o s
    <3>1. nals \in {h \o s : h \in points, s \in irapSlices}
      BY <2>1 DEF P
    <3>. QED  BY <3>1, Joined
  <2>2. ASSUME nals \in Q
        PROVE  \E h \in others, s \in otherSlices : nals = h \o s
    <3>1. nals \in {h \o s : h \in others, s \in otherSlices}
      BY <2>2 DEF Q
    <3>. QED  BY <3>1, Joined
  <2>3. \A h \in points : h \in heads /\ Announced(codec, h)
    BY DEF points
  <2>4. \A h \in others : h \in heads /\ Plain(codec, h)
    BY DEF others
  <2>5. irapSlices = some(irap) /\ otherSlices = some(other)
    BY DEF irapSlices, otherSlices
  <2>. HIDE DEF heads, irap, other
  <2>. QED  BY <2>0, <2>1, <2>2, <2>3, <2>4, <2>5, Zenon
<1>2. codec \in {"h264", "h265"} /\ MaxNals \in Nat /\ MaxSlices \in Nat
  BY CodecAssumption, BoundAssumption
<1>3. \A t \in Types : t \in Int /\ (IrapOf(codec, t) => VclOf(codec, t))
  BY <1>2, TypeAssumption DEF Types, IrapOf, VclOf
<1>4. ASSUME NEW h \in heads
      PROVE  h \in Seq(Types) /\ \A i \in 1..Len(h) : ~VCL(h[i])
  <2>. DEFINE T == {t \in Types : ~VclOf(codec, t)}
  <2>1. h \in Seq(T) /\ T \subseteq Types
    BY <1>2, <1>4, Bounded
  <2>2. \A i \in 1..Len(h) : h[i] \in T
    BY <2>1
  <2>. QED  BY <2>1, <2>2 DEF VCL
<1>5. ASSUME NEW S \in SUBSET Types, NEW s \in some(S)
      PROVE  /\ s \in Seq(Types) /\ Len(s) \in 1..MaxSlices
             /\ \A i \in 1..Len(s) : s[i] \in S
  <2>1. s \in Seq(S) /\ Len(s) \in 0..MaxSlices /\ s # <<>>
    BY <1>2, <1>5, Bounded
  <2>. QED  BY <1>2, <2>1
<1>6. CASE \E h \in heads, s \in some(irap) : Announced(codec, h) /\ nals = h \o s
  <2>1. PICK h \in heads, s \in some(irap) : nals = h \o s /\ Announced(codec, h)
    BY <1>6
  <2>2. irap \subseteq Types
    OBVIOUS
  <2>3. \A i \in 1..Len(s) : s[i] \in irap
    BY <1>5, <2>1, <2>2
  <2>4. \A i \in 1..Len(s) : VCL(s[i]) /\ Irap(s[i])
    BY <1>3, <2>3 DEF VCL, Irap
  <2>5. h \in Seq(Types) /\ \A i \in 1..Len(h) : ~VCL(h[i])
    BY <1>4, <2>1
  <2>6. s \in Seq(Types) /\ Len(s) \in 1..MaxSlices
    BY <1>5, <2>1, <2>2
  <2>7. Made(nals, h, s)
    BY <2>1, <2>4, <2>5, <2>6 DEF Made
  <2>. QED  BY <2>7
<1>7. CASE \E h \in heads, s \in some(other) : Plain(codec, h) /\ nals = h \o s
  <2>1. PICK h \in heads, s \in some(other) : nals = h \o s /\ Plain(codec, h)
    BY <1>7
  <2>2. other \subseteq Types
    OBVIOUS
  <2>3. \A i \in 1..Len(s) : s[i] \in other
    BY <1>5, <2>1, <2>2
  <2>4. \A i \in 1..Len(s) : VCL(s[i]) /\ ~Irap(s[i])
    BY <2>3 DEF VCL, Irap
  <2>5. h \in Seq(Types) /\ \A i \in 1..Len(h) : ~VCL(h[i])
    BY <1>4, <2>1
  <2>6. s \in Seq(Types) /\ Len(s) \in 1..MaxSlices
    BY <1>5, <2>1, <2>2
  <2>7. Made(nals, h, s)
    BY <2>1, <2>4, <2>5, <2>6 DEF Made
  <2>. QED  BY <2>7
<1>. QED  BY <1>1, <1>6, <1>7

\* One slice per frame: it is the last NAL unit, and every frame ends in one.
LEMMA FrameOfOneSlice ==
  ASSUME OneSlice, codec \in Codecs,
         NEW nals, NEW head, NEW slices, Made(nals, head, slices)
  PROVE  /\ nals \in Seq(Types) /\ Len(nals) = Len(head) + 1 /\ Len(head) \in Nat
         /\ \A i \in 1..Len(head) : nals[i] = head[i] /\ ~VCL(nals[i])
         /\ nals[Len(nals)] = slices[1] /\ VCL(nals[Len(nals)])
         /\ Last(nals) = nals[Len(nals)]
         /\ Slices(nals) = {Len(nals)} /\ Cardinality(Slices(nals)) = 1
         /\ 0 \notin Range(nals)
<1>1. head \in Seq(Types) /\ slices \in Seq(Types) /\ nals = head \o slices
  BY DEF Made
<1>2. Len(slices) = 1 /\ VCL(slices[1]) /\ \A i \in 1..Len(head) : ~VCL(head[i])
  BY DEF Made, OneSlice
<1>3. nals \in Seq(Types) /\ Len(nals) = Len(head) + 1 /\ Len(head) \in Nat
  <2>1. nals \in Seq(Types)
    BY <1>1
  <2>2. Len(nals) = Len(head) + Len(slices) /\ Len(head) \in Nat
    BY <1>1
  <2>. QED  BY <1>2, <2>1, <2>2
<1>4. \A i \in 1..Len(head) : nals[i] = head[i]
  BY <1>1, <1>2
<1>5. nals[Len(nals)] = slices[1]
  BY <1>1, <1>2, <1>3
<1>6. \A i \in 1..Len(nals) : VCL(nals[i]) <=> i = Len(nals)
  BY <1>2, <1>3, <1>4, <1>5
<1>7. Slices(nals) = {Len(nals)}
  BY <1>3, <1>6 DEF Slices
<1>8. Cardinality(Slices(nals)) = 1
  BY <1>7, FS_Singleton
<1>9. 0 \notin Types
  BY DEF OneSlice, Types
<1>10. 0 \notin Range(nals)
  BY <1>3, <1>9 DEF Range
<1>. QED  BY <1>2, <1>3, <1>4, <1>5, <1>6, <1>7, <1>8, <1>10 DEF Last

\* The place a sample begins at: the first NAL unit of the frame that is kept.
LEMMA BeginsAt ==
  ASSUME NEW nals, NEW n \in Nat, NEW i \in 1..n, Kept(nals[i])
  PROVE  /\ Min(SampleAt(nals, n)) \in 1..i /\ Kept(nals[Min(SampleAt(nals, n))])
         /\ (\A j \in 1..i - 1 : ~Kept(nals[j])) => Min(SampleAt(nals, n)) = i
<1>. DEFINE S == SampleAt(nals, n)
<1>1. S \subseteq 1..n /\ i \in S /\ \A j \in S : Kept(nals[j])
  BY DEF SampleAt
<1>. HIDE DEF S
<1>2. S \in SUBSET Nat /\ S # {}
  BY <1>1
<1>3. Min(S) \in S /\ \A y \in S : Min(S) <= y
  BY <1>2, LeastIs
<1>4. Min(S) \in 1..i /\ Kept(nals[Min(S)])
  <2>1. Min(S) \in 1..n /\ Min(S) <= i
    BY <1>1, <1>3
  <2>2. Kept(nals[Min(S)])
    BY <1>1, <1>3, Zenon
  <2>. QED  BY <2>1, <2>2
<1>. QED  BY <1>4 DEF S

\* Exactly the frames with a random access point are taken for key frames.
LEMMA KeyOfFrame ==
  ASSUME OneSlice, codec \in Codecs, {7, 55} \cap Types265 = {},
         NEW nals, NEW head, NEW slices, Made(nals, head, slices)
  PROVE  keyframe(nals, SampleAt(nals, Len(nals))) <=>
           \E i \in 1..Len(nals) : Irap(nals[i])
<1>. DEFINE n == Len(nals)
            first == Min(SampleAt(nals, n))
<1>1. codec \in {"h264", "h265"} /\ \A t \in Types : t \in 0..63
  BY CodecAssumption, TypeAssumption DEF Types
<1>2. /\ nals \in Seq(Types) /\ n = Len(head) + 1 /\ Len(head) \in Nat
      /\ \A i \in 1..Len(head) : nals[i] = head[i] /\ ~VCL(nals[i])
      /\ nals[n] = slices[1] /\ VCL(nals[n])
  BY FrameOfOneSlice
<1>3. n \in Nat /\ n \in 1..n /\ nals[n] \in Types
  BY <1>2
<1>4. Kept(nals[n])
  BY <1>1, <1>2, <1>3 DEF Kept, ParameterSets, SetsOf, VCL, VclOf
<1>5. first \in 1..n /\ Kept(nals[first]) /\ nals[first] \in Types
  BY <1>2, <1>3, <1>4, BeginsAt
<1>6. head \in Seq(Types) /\ Len(slices) = 1
  BY DEF Made, OneSlice
<1>7. CASE Announced(codec, head) /\ \A i \in 1..Len(slices) : Irap(slices[i])
  <2>1. Irap(nals[n])
    BY <1>2, <1>6, <1>7
  <2>2. PICK i \in 1..Len(head) : /\ head[i] = (IF codec = "h264" THEN 7 ELSE 39)
                                  /\ \A j \in 1..i - 1 : ~Kept(head[j])
    <3>1. CASE codec = "h264"
      <4>1. 7 \in Range(head) /\ head[1] = 7
        BY <1>7, <3>1 DEF Announced, SetsOf
      <4>2. 1 \in 1..Len(head)
        BY <1>6, <4>1 DEF Range
      <4>. QED  BY <3>1, <4>1, <4>2
    <3>2. CASE codec # "h264"
      <4>1. PICK i \in 1..Len(head) : /\ head[i] = 39
                                      /\ \A j \in 1..i - 1 : head[j] \in SetsOf(codec)
        BY <1>7, <3>2 DEF Announced
      <4>. QED  BY <3>2, <4>1 DEF Kept, ParameterSets
    <3>. QED  BY <3>1, <3>2
  <2>3. i \in 1..n /\ nals[i] = head[i] /\ \A j \in 1..i - 1 : nals[j] = head[j]
    BY <1>2
  <2>4. Kept(nals[i])
    BY <1>1, <2>2, <2>3 DEF Kept, ParameterSets, SetsOf
  <2>5. \A j \in 1..i - 1 : ~Kept(nals[j])
    BY <2>2, <2>3
  <2>6. first = i
    BY <1>3, <2>3, <2>4, <2>5, BeginsAt
  <2>. HIDE DEF first
  <2>7. tmp(nals[first]) \in {7, 14}
    BY <2>2, <2>3, <2>6 DEF tmp
  <2>. QED  BY <1>3, <2>1, <2>7 DEF keyframe, first
<1>8. CASE Plain(codec, head) /\ \A i \in 1..Len(slices) : ~Irap(slices[i])
  <2>1. \A i \in 1..n : ~Irap(nals[i])
    <3>1. ~Irap(nals[n])
      BY <1>2, <1>6, <1>8
    <3>2. \A i \in 1..Len(head) : ~Irap(nals[i])
      <4>1. \A i \in 1..Len(head) : nals[i] \in Types /\ ~VCL(nals[i])
        BY <1>2
      <4>2. \A t \in Types : ~VCL(t) => ~Irap(t)
        BY <1>1 DEF VCL, VclOf, Irap, IrapOf
      <4>. QED  BY <4>1, <4>2
    <3>. QED  BY <1>2, <3>1, <3>2
  <2>2. first = n \/ first \in 1..Len(head)
    BY <1>2, <1>5
  <2>3. VCL(nals[first]) \/ nals[first] \notin SetsOf(codec) \cup {14, 39}
    <3>1. CASE first = n
      BY <1>2, <3>1
    <3>2. CASE first \in 1..Len(head)
      <4>1. nals[first] = head[first] /\ first \in DOMAIN head
        BY <1>2, <1>6, <3>2
      <4>2. nals[first] \in Range(head)
        BY <4>1 DEF Range
      <4>. QED  BY <1>8, <4>2 DEF Plain
    <3>. QED  BY <2>2, <3>1, <3>2
  <2>. DEFINE t == nals[first]
  <2>4. t \in Types /\ t \in 0..63 /\ ~Irap(t) /\ (VCL(t) \/ t \notin SetsOf(codec) \cup {14, 39})
    BY <1>1, <1>5, <2>1, <2>3
  <2>. HIDE DEF t
  <2>5. tmp(t) \notin {7, 14}
    <3>1. CASE codec = "h264"
      <4>1. t \in 0..31 /\ t # 7 /\ t # 14
        BY <2>4, <3>1, TypeAssumption DEF Types, VCL, VclOf, SetsOf
      <4>. QED  BY <3>1, <4>1 DEF tmp
    <3>2. CASE codec = "h265"
      <4>1. t # 7 /\ t # 55 /\ t # 39 /\ t # 23
        BY <2>4, <3>2 DEF Types, VCL, VclOf, SetsOf, Irap, IrapOf
      <4>2. (2 * t) % 32 # 14 /\ (2 * t) % 32 # 7
        BY <2>4, <4>1
      <4>. QED  BY <3>2, <4>2 DEF tmp
    <3>. QED  BY <1>1, <3>1, <3>2
  <2>6. ~keyframe(nals, SampleAt(nals, n))
    BY <2>5 DEF t, keyframe
  <2>. QED  BY <2>1, <2>6
<1>. QED  BY <1>7, <1>8 DEF Made

\* A frame with a random access point brings the whole decoder configuration.
LEMMA Configuration ==
  ASSUME OneSlice, codec \in Codecs,
         NEW nals, NEW head, NEW slices, Made(nals, head, slices), Irap(Last(nals))
  PROVE  {type \in ParameterSets :
            \E i \in Slices(nals) : type \in Range(SubSeq(nals, 1, i))} = ParameterSets
<1>1. /\ nals \in Seq(Types) /\ Len(nals) = Len(head) + 1 /\ Len(head) \in Nat
      /\ \A i \in 1..Len(head) : nals[i] = head[i]
      /\ Last(nals) = slices[1] /\ Slices(nals) = {Len(nals)}
  BY FrameOfOneSlice
<1>2. SetsOf(codec) \subseteq Range(head) /\ head \in Seq(Types)
  BY <1>1 DEF Made, OneSlice, Announced
<1>3. ASSUME NEW type \in ParameterSets
      PROVE  type \in Range(SubSeq(nals, 1, Len(nals)))
  <2>1. PICK j \in 1..Len(head) : head[j] = type
    BY <1>2 DEF ParameterSets, Range
  <2>2. j \in 1..Len(nals) /\ nals[j] = type
    BY <1>1, <2>1
  <2>3. j \in DOMAIN SubSeq(nals, 1, Len(nals)) /\ SubSeq(nals, 1, Len(nals))[j] = type
    BY <1>1, <2>2
  <2>. QED  BY <2>3 DEF Range
<1>. QED  BY <1>1, <1>3
------------------------------------------------------------------------------
(* The ring.                                                                *)

\* What get_param leaves behind, whatever it reports.
LEMMA ParamMade ==
  ASSUME gop \in Nat \ {0}, newest \in Int, newest >= -1, NEW p \in Outcomes
  PROVE  /\ p.result # "unset" /\ p.active \in BOOLEAN /\ p.found \in BOOLEAN
         /\ p.vfNumber \in Nat /\ p.at = newest
         /\ p.active /\ p.found =>
              /\ Key(p.vfNumber)
              /\ gop + lDurationBefore <= Capacity =>
                   newest - p.vfNumber < gop + lDurationBefore
         /\ p.found /\ p.result = "FW_OK" => p.encoder = codec
<1>. DEFINE errors == {"FW_FAIL", "FW_DISABLED_STREAM",
                       "FW_UNSUPPORTED_FILE_FORMAT", "killed"}
<1>1. p \in Blocks \/ \E active \in BOOLEAN, result \in errors : p = Report(active, result)
  BY DEF Outcomes
<1>2. First # None =>
        /\ First \in Nat /\ Key(First)
        /\ gop + lDurationBefore <= Capacity => newest - First < gop + lDurationBefore
  BY ScanFinds DEF First
<1>3. CASE \E active \in BOOLEAN, result \in errors : p = Report(active, result)
  <2>1. PICK active \in BOOLEAN, result \in errors : p = Report(active, result)
    BY <1>3
  <2>2. /\ p.active = active /\ p.result = result /\ p.vfNumber = 0
        /\ p.found = FALSE /\ p.at = newest
    BY <2>1 DEF Report
  <2>3. p.active \in BOOLEAN
    BY <2>2
  <2>4. p.result # "unset" /\ p.found = FALSE /\ p.vfNumber \in Nat /\ p.at = newest
    BY <2>2
  <2>5. ~p.found
    BY <2>4
  <2>6. p.found \in BOOLEAN
    BY <2>4
  <2>. QED  BY <2>3, <2>4, <2>5, <2>6
<1>4. CASE p \in Blocks
  <2>. DEFINE ends == {<<"FW_OK", codec>>, <<"FW_FAIL", codec>>, <<"FW_FAIL", "h265">>}
              numbers == IF First = None THEN 0..newest + 1 ELSE {First}
  <2>1. PICK e \in ends, n \in numbers : p = Block(e, n)
    BY <1>4 DEF Blocks
  <2>2. /\ p.active = TRUE /\ p.found = (First # None) /\ p.vfNumber = n
        /\ p.at = newest /\ p.result = e[1] /\ p.encoder = e[2]
    BY <2>1 DEF Block, Report
  <2>3. e[1] # "unset" /\ (e[1] = "FW_OK" => e[2] = codec)
    OBVIOUS
  <2>4. n \in Nat /\ (First # None => n = First)
    BY <1>2
  <2>. HIDE DEF ends, numbers
  <2>. QED  BY <1>2, <2>2, <2>3, <2>4
<1>. QED  BY <1>1, <1>3, <1>4

\* A frame is read: what the ring and the parameters see of it.
LEMMA ReadMoves ==
  ASSUME Read
  PROVE  /\ param.active /\ Held(FrameNumber) /\ FrameNumber' = FrameNumber + 1
         /\ UNCHANGED <<codec, gop, newest, param, late>>
BY DEF Read, Running, OnFrame, ring, vars

\* Before get_param there is nothing to keep up with.
LEMMA RingInit ==
  WorkerInit => ParamInv /\ RingInv
<1>. SUFFICES ASSUME WorkerInit PROVE ParamInv /\ RingInv
  OBVIOUS
<1>1. gop \in Nat \ {0} /\ newest \in Int /\ newest >= -1
  BY RingAssumption DEF WorkerInit
<1>2. /\ param.result = "unset" /\ param.active = FALSE /\ param.found = FALSE
      /\ FrameNumber = 0 /\ late = 0
  BY DEF WorkerInit, Report
<1>. QED  BY <1>1, <1>2 DEF ParamInv, RingInv

\* No step lets the worker fall behind by more than late says.
LEMMA RingStep ==
  ParamInv /\ RingInv /\ [WorkerNext]_workerVars => ParamInv' /\ RingInv'
<1>. SUFFICES ASSUME ParamInv, RingInv, [WorkerNext]_workerVars
              PROVE  ParamInv' /\ RingInv'
  OBVIOUS
<1>1. CASE GetParam
  <2>1. /\ param.result = "unset" /\ param' \in Outcomes /\ FrameNumber' = param'.vfNumber
        /\ UNCHANGED <<codec, gop, newest, late>>
    BY <1>1 DEF GetParam, vars, ring
  <2>2. gop \in Nat \ {0} /\ newest \in Int /\ newest >= -1 /\ late = 0
    BY <2>1 DEF RingInv, ParamInv
  <2>. DEFINE p == param'
  <2>3. /\ p.result # "unset" /\ p.active \in BOOLEAN /\ p.found \in BOOLEAN
        /\ p.vfNumber \in Nat /\ p.at = newest
        /\ p.active /\ p.found =>
             /\ Key(p.vfNumber)
             /\ gop + lDurationBefore <= Capacity =>
                  newest - p.vfNumber < gop + lDurationBefore
        /\ p.found /\ p.result = "FW_OK" => p.encoder = codec
    BY <2>1, <2>2, ParamMade
  <2>4. ParamInv'
    BY <2>1, <2>2, <2>3 DEF ParamInv, Key
  <2>5. RingInv'
    BY <2>1, <2>2, <2>3 DEF RingInv
  <2>. QED  BY <2>4, <2>5
<1>2. CASE Read
  <2>1. /\ param.active /\ FrameNumber' = FrameNumber + 1
        /\ codec' = codec /\ gop' = gop /\ newest' = newest /\ param' = param /\ late' = late
    BY <1>2, ReadMoves
  <2>2. ParamInv'
    BY <2>1 DEF ParamInv, Key
  <2>3. RingInv'
    BY <2>1 DEF RingInv, ParamInv
  <2>. QED  BY <2>2, <2>3
<1>3. CASE Encode
  <2>1. /\ newest' = newest + 1
        /\ gop' = gop /\ codec' = codec /\ param' = param /\ FrameNumber' = FrameNumber
        /\ late' = IF ~param.active THEN late
                   ELSE Max({late, (newest' - param.at) - (FrameNumber - param.vfNumber)})
    BY <1>3 DEF Encode, vars, loop
  <2>2. CASE ~param.active
    <3>1. ParamInv'
      BY <2>1, <2>2 DEF ParamInv, Key
    <3>2. RingInv'
      BY <2>1, <2>2 DEF RingInv
    <3>. QED  BY <3>1, <3>2
  <2>3. CASE param.active
    <3>. DEFINE behind == (newest' - param.at) - (FrameNumber - param.vfNumber)
    <3>1. behind \in Int /\ late \in Int
      BY <2>1, <2>3 DEF ParamInv, RingInv
    <3>2. late' = Max({late, behind})
      BY <2>1, <2>3
    <3>3. late' \in Int /\ late' >= late /\ late' >= behind
      BY <3>1, <3>2, MaxOfTwo
    <3>4. ParamInv'
      BY <2>1, <2>3 DEF ParamInv, Key
    <3>5. RingInv'
      BY <2>1, <3>3 DEF RingInv
    <3>. QED  BY <3>4, <3>5
  <2>. QED  BY <2>2, <2>3
<1>4. CASE NoData \/ UNCHANGED workerVars
  <2>1. /\ codec' = codec /\ gop' = gop /\ newest' = newest /\ param' = param
        /\ late' = late /\ FrameNumber' = FrameNumber
    BY <1>4 DEF NoData, workerVars, vars, ring, loop
  <2>2. ParamInv'
    BY <2>1 DEF ParamInv, Key
  <2>3. RingInv'
    BY <2>1 DEF RingInv
  <2>. QED  BY <2>2, <2>3
<1>. QED  BY <1>1, <1>2, <1>3, <1>4 DEF WorkerNext

\* The parameters and the distance between encoder and worker, for every ring.
THEOREM RingInvariance == WorkerSpec => [](ParamInv /\ RingInv)
<1>. QED  BY RingInit, RingStep, PTL DEF WorkerSpec

\* A worker that began at a random access point and does not come later than the
\* ring allows never asks for a frame that has been overwritten.
THEOREM FramesAreStillThere == WorkerSpec => []InTime
<1>1. ParamInv /\ RingInv => InTime
  <2>. SUFFICES ASSUME ParamInv, RingInv, param.active, param.found,
                       late + gop + lDurationBefore <= Capacity
                PROVE  FrameNumber > newest - Capacity
    BY RingAssumption DEF InTime, Lost, RingInv
  <2>. DEFINE v == param.vfNumber
              a == param.at
  <2>1. /\ v \in Nat /\ a \in Int /\ gop \in Nat /\ newest \in Int /\ late \in Nat
        /\ FrameNumber \in Nat /\ lDurationBefore \in Nat /\ Capacity \in Nat
    BY RingAssumption DEF ParamInv, RingInv
  <2>2. late >= (newest - a) - (FrameNumber - v)
    BY DEF RingInv
  <2>3. /\ param.active /\ param.found
        /\ gop + lDurationBefore <= Capacity => a - v < gop + lDurationBefore
    BY DEF ParamInv
  <2>. HIDE DEF v, a
  <2>. QED  BY <2>1, <2>2, <2>3
<1>. QED  BY <1>1, RingInvariance, PTL
------------------------------------------------------------------------------
(* The reader.                                                              *)

\* What a frame does, while the counters are in step.
LEMMA FrameIsRead ==
  ASSUME OneSlice, ReaderInv, NEW nals \in Frames, OnFrame(nals)
  PROVE  /\ frame' = nals /\ start_init' = TRUE /\ track_id' = track_id + 1
         /\ UNCHANGED <<codec, aborted>> /\ track_video' = track_id + 1
         /\ samples' = [i \in Slices(nals) |-> [units |-> SampleAt(nals, i),
                                                key   |-> keyframe(nals, SampleAt(nals, i))]]
         /\ start_init => extra' = extra
         /\ ~start_init => extra' = {type \in ParameterSets :
              \E i \in Slices(nals) : type \in Range(SubSeq(nals, 1, i))}
<1>1. PICK head, slices : Made(nals, head, slices)
  BY FrameIsMade DEF ReaderInv
<1>2. 0 \notin Range(nals) /\ Cardinality(Slices(nals)) = 1
  BY <1>1, FrameOfOneSlice DEF ReaderInv
<1>3. TrackVideo = track_id /\ track_id \in Nat
  BY DEF ReaderInv, TrackVideo
<1>4. \A k \in 1..1 : TrackVideo + k - 1 = track_id
  BY <1>3
<1>5. ReadFrame(nals)
  BY DEF OnFrame
<1>6. /\ samples' = [i \in Slices(nals) |-> [units |-> SampleAt(nals, i),
                                             key   |-> keyframe(nals, SampleAt(nals, i))]]
      /\ track_video' = TrackVideo + Counted(nals) /\ UNCHANGED aborted
  BY <1>2, <1>4, <1>5, Zenon DEF ReadFrame
<1>7. track_video' = track_id + 1
  BY <1>2, <1>3, <1>6 DEF Counted
<1>8. /\ frame' = nals /\ start_init' = TRUE /\ track_id' = track_id + 1 /\ codec' = codec
      /\ InitReadFrame(nals)
  BY DEF OnFrame
<1>9. Slices(nals) = {Len(nals)} /\ Len(nals) <= Len(nals)
  BY <1>1, FrameOfOneSlice DEF ReaderInv
<1>10. /\ start_init => extra' = extra
       /\ ~start_init => extra' = {type \in ParameterSets :
            \E i \in Slices(nals) : type \in Range(SubSeq(nals, 1, i))}
  <2>1. CASE start_init
    BY <1>8, <2>1, Zenon DEF InitReadFrame
  <2>2. CASE ~start_init
    <3>. DEFINE upTo(type, i) == type \in Range(SubSeq(nals, 1, i))
                first(type) == \E i \in Slices(nals) :
                                 /\ \A j \in Slices(nals) : i <= j
                                 /\ upTo(type, i)
                any(type) == \E i \in Slices(nals) : upTo(type, i)
    <3>1. \A i \in Slices(nals) : \A j \in Slices(nals) : i <= j
      BY <1>9
    <3>2. extra' = {type \in ParameterSets : first(type)}
      BY <1>8, <2>2, Zenon DEF InitReadFrame
    <3>3. ASSUME NEW type \in ParameterSets PROVE first(type) <=> any(type)
      BY <3>1, Zenon
    <3>. HIDE DEF first, any
    <3>4. {type \in ParameterSets : first(type)} = {type \in ParameterSets : any(type)}
      BY <3>3
    <3>5. extra' = {type \in ParameterSets : any(type)}
      BY <3>2, <3>4
    <3>. QED  BY <2>2, <3>5 DEF any
  <2>. QED  BY <2>1, <2>2
<1>. QED  BY <1>6, <1>7, <1>8, <1>10

\* A step of the worker either reads a frame or leaves the reader alone.
LEMMA ReaderMoves ==
  ASSUME [WorkerNext]_workerVars
  PROVE  \/ /\ Read /\ param.encoder = codec
            /\ \E nals \in Frames : (Irap(Last(nals)) <=> Key(FrameNumber)) /\ OnFrame(nals)
         \/ UNCHANGED vars
<1>1. CASE Read
  BY <1>1, Zenon DEF Read
<1>2. CASE GetParam \/ NoData \/ Encode \/ UNCHANGED workerVars
  BY <1>2 DEF GetParam, NoData, Encode, workerVars
<1>. QED  BY <1>1, <1>2 DEF WorkerNext

\* The counters before the first frame.
LEMMA ReaderInit == WorkerInit => ReaderInv
<1>. SUFFICES ASSUME WorkerInit PROVE ReaderInv
  OBVIOUS
<1>1. codec \in Codecs /\ track_id = 1 /\ start_init = FALSE /\ ~aborted
  BY DEF WorkerInit, Init
<1>2. track_id \in Nat \ {0} /\ ~start_init
  BY <1>1
<1>3. start_init \in BOOLEAN
  BY <1>1
<1>. QED  BY <1>1, <1>2, <1>3, Zenon DEF ReaderInv

\* No step takes the counters out of step.
LEMMA ReaderStep ==
  OneSlice /\ ReaderInv /\ [WorkerNext]_workerVars => ReaderInv'
<1>. SUFFICES ASSUME OneSlice, ReaderInv, [WorkerNext]_workerVars PROVE ReaderInv'
  OBVIOUS
<1>1. CASE UNCHANGED vars
  BY <1>1 DEF vars, ReaderInv
<1>2. ASSUME NEW nals \in Frames, OnFrame(nals)
      PROVE  ReaderInv'
  <2>1. /\ start_init' = TRUE /\ track_id' = track_id + 1 /\ track_video' = track_id + 1
        /\ codec' = codec /\ aborted' = aborted
    BY <1>2, FrameIsRead
  <2>. QED  BY <2>1 DEF ReaderInv
<1>. QED  BY <1>1, <1>2, ReaderMoves

\* With one slice per frame the asserts on track numbers and NAL units hold.
THEOREM AssertsHold ==
  ASSUME OneSlice
  PROVE  WorkerSpec => []NoAbort
<1>1. ReaderInv /\ [WorkerNext]_workerVars => ReaderInv'
  BY ReaderStep
<1>2. ReaderInv => NoAbort
  BY DEF ReaderInv, NoAbort
<1>. QED  BY <1>1, <1>2, ReaderInit, PTL DEF WorkerSpec

\* The key frames of a frame that has just been read.
LEMMA KeysOfFrame ==
  ASSUME OneSlice, NoLookalike, ReaderInv, NEW nals \in Frames, OnFrame(nals)
  PROVE  KeyIffIrap'
<1>1. PICK head, slices : Made(nals, head, slices)
  BY FrameIsMade DEF ReaderInv
<1>2. codec \in Codecs /\ codec' = codec /\ frame' = nals
  BY FrameIsRead DEF ReaderInv
<1>3. Slices(nals) = {Len(nals)}
  BY <1>1, <1>2, FrameOfOneSlice
<1>4. keyframe(nals, SampleAt(nals, Len(nals))) <=> \E i \in 1..Len(nals) : Irap(nals[i])
  BY <1>1, <1>2, KeyOfFrame DEF NoLookalike
<1>5. samples' = [i \in Slices(nals) |-> [units |-> SampleAt(nals, i),
                                          key   |-> keyframe(nals, SampleAt(nals, i))]]
  BY FrameIsRead
<1>6. ASSUME NEW k \in DOMAIN samples'
      PROVE  samples'[k].key <=> \E i \in 1..Len(nals) : Irap(nals[i])
  <2>1. k = Len(nals) /\ samples'[k] = [units |-> SampleAt(nals, k),
                                        key   |-> keyframe(nals, SampleAt(nals, k))]
    BY <1>3, <1>5
  <2>2. samples'[k].key = keyframe(nals, SampleAt(nals, k))
    BY <2>1
  <2>. QED  BY <1>4, <2>1, <2>2
<1>7. \A t : Irap(t)' <=> Irap(t)
  BY <1>2 DEF Irap
<1>. QED  BY <1>2, <1>6, <1>7 DEF KeyIffIrap

\* Exactly the random access points come to the gate as key frames.
THEOREM KeysAreIraps ==
  ASSUME OneSlice, NoLookalike
  PROVE  WorkerSpec => []KeyIffIrap
<1>1. WorkerInit => ReaderInv /\ KeyIffIrap
  <2>1. WorkerInit => samples = <<>>
    BY DEF WorkerInit, Init
  <2>2. WorkerInit => KeyIffIrap
    BY <2>1 DEF KeyIffIrap
  <2>. QED  BY <2>2, ReaderInit
<1>2. ReaderInv /\ KeyIffIrap /\ [WorkerNext]_workerVars => (ReaderInv /\ KeyIffIrap)'
  <2>. SUFFICES ASSUME ReaderInv, KeyIffIrap, [WorkerNext]_workerVars
                PROVE  KeyIffIrap'
    BY ReaderStep
  <2>1. CASE UNCHANGED vars
    <3>1. samples' = samples /\ frame' = frame /\ \A t : Irap(t)' <=> Irap(t)
      BY <2>1 DEF vars, Irap
    <3>. QED  BY <3>1 DEF KeyIffIrap
  <2>2. ASSUME NEW nals \in Frames, OnFrame(nals)
        PROVE  KeyIffIrap'
    BY <2>2, KeysOfFrame
  <2>. QED  BY <2>1, <2>2, ReaderMoves
<1>. QED  BY <1>1, <1>2, PTL DEF WorkerSpec
------------------------------------------------------------------------------
(* Where the stream begins.                                                 *)

\* The first frame that is read is the one get_param has chosen.
LEMMA FirstStep ==
  OneSlice /\ NoLookalike /\ ParamInv /\ RingInv /\ ReaderInv /\ FirstInv
    /\ [WorkerNext]_workerVars => FirstInv'
<1>. SUFFICES ASSUME OneSlice, NoLookalike, ParamInv, RingInv, ReaderInv, FirstInv,
                     [WorkerNext]_workerVars
              PROVE  FirstInv'
  OBVIOUS
<1>1. CASE GetParam
  <2>1. /\ param.result = "unset" /\ param' \in Outcomes /\ FrameNumber' = param'.vfNumber
        /\ start_init' = start_init
    BY <1>1 DEF GetParam, vars
  <2>2. ~start_init
    BY <2>1 DEF FirstInv
  <2>. QED  BY <2>1, <2>2 DEF FirstInv
<1>2. CASE Read
  <2>1. /\ param.active /\ Held(FrameNumber) /\ FrameNumber' = FrameNumber + 1
        /\ codec' = codec /\ param' = param
    BY <1>2, ReadMoves
  <2>2. param.result # "unset"
    BY <2>1 DEF ParamInv
  <2>3. CASE UNCHANGED vars
    <3>1. param.encoder # codec
      <4>1. ~(\E nals \in Frames : OnFrame(nals))
        <5>1. ASSUME NEW nals \in Frames, OnFrame(nals) PROVE FALSE
          <6>1. track_id' = track_id + 1 /\ track_id' = track_id /\ track_id \in Nat
            BY <2>3, <5>1 DEF OnFrame, vars, ReaderInv
          <6>. QED  BY <6>1
        <5>. QED  BY <5>1
      <4>. QED  BY <1>2, <4>1, Zenon DEF Read
    <3>2. ~(param'.found /\ param'.result = "FW_OK")
      BY <2>1, <3>1 DEF ParamInv
    <3>3. start_init' = start_init
      BY <2>3 DEF vars
    <3>. QED  BY <2>1, <2>2, <3>2, <3>3 DEF FirstInv
  <2>4. CASE \E nals \in Frames : (Irap(Last(nals)) <=> Key(FrameNumber)) /\ OnFrame(nals)
    <3>1. PICK nals \in Frames : (Irap(Last(nals)) <=> Key(FrameNumber)) /\ OnFrame(nals)
      BY <2>4
    <3>2. /\ frame' = nals /\ start_init' = TRUE /\ track_id' = track_id + 1
          /\ start_init => extra' = extra
          /\ ~start_init => extra' = {type \in ParameterSets :
               \E i \in Slices(nals) : type \in Range(SubSeq(nals, 1, i))}
      BY <3>1, FrameIsRead
    <3>3. ParameterSets' = ParameterSets
      BY <2>1 DEF ParameterSets
    <3>. SUFFICES ASSUME param.found, param.result = "FW_OK"
                  PROVE  /\ extra' = ParameterSets
                         /\ track_id' = 2 => \A k \in DOMAIN samples' : samples'[k].key
      BY <2>1, <2>2, <3>2, <3>3 DEF FirstInv
    <3>4. CASE start_init
      <4>1. extra = ParameterSets /\ track_id >= 2 /\ track_id \in Nat
        BY <3>4 DEF FirstInv, ReaderInv
      <4>. QED  BY <3>2, <3>4, <4>1
    <3>5. CASE ~start_init
      <4>1. Key(FrameNumber)
        BY <2>1, <3>5 DEF FirstInv, ParamInv
      <4>2. PICK head, slices : Made(nals, head, slices)
        BY FrameIsMade DEF ReaderInv
      <4>3. extra' = ParameterSets
        BY <3>1, <3>2, <3>5, <4>1, <4>2, Configuration DEF ReaderInv
      <4>4. Irap(nals[Len(nals)]) /\ Len(nals) \in 1..Len(nals)
        BY <3>1, <4>1, <4>2, FrameOfOneSlice DEF ReaderInv
      <4>5. KeyIffIrap'
        BY <3>1, KeysOfFrame
      <4>6. \A t : Irap(t)' <=> Irap(t)
        BY <2>1 DEF Irap
      <4>7. \A k \in DOMAIN samples' : samples'[k].key
        BY <3>2, <4>4, <4>5, <4>6 DEF KeyIffIrap
      <4>. QED  BY <4>3, <4>7
    <3>. QED  BY <3>4, <3>5
  <2>. QED  BY <2>3, <2>4, ReaderMoves
<1>3. CASE NoData \/ Encode \/ UNCHANGED workerVars
  <2>1. /\ param' = param /\ FrameNumber' = FrameNumber /\ UNCHANGED vars
    BY <1>3 DEF NoData, Encode, workerVars, loop
  <2>2. /\ start_init' = start_init /\ extra' = extra /\ track_id' = track_id
        /\ samples' = samples /\ ParameterSets' = ParameterSets
    BY <2>1 DEF vars, ParameterSets
  <2>. QED  BY <2>1, <2>2 DEF FirstInv
<1>. QED  BY <1>1, <1>2, <1>3 DEF WorkerNext

\* A stream whose parameters were found begins with a key frame and with its whole
\* decoder configuration.
THEOREM StreamsStartDecodable ==
  ASSUME OneSlice, NoLookalike
  PROVE  WorkerSpec => []StartsDecodable
<1>1. WorkerInit => FirstInv
  <2>1. WorkerInit => start_init = FALSE /\ param.found = FALSE
    BY DEF WorkerInit, Init, Report
  <2>. QED  BY <2>1 DEF FirstInv
<1>2. ReaderInv /\ [WorkerNext]_workerVars => ReaderInv'
  BY ReaderStep
<1>3. ParamInv /\ RingInv /\ ReaderInv /\ FirstInv /\ [WorkerNext]_workerVars => FirstInv'
  BY FirstStep
<1>4. FirstInv => StartsDecodable
  BY DEF FirstInv, StartsDecodable
<1>. QED  BY <1>1, <1>2, <1>3, <1>4, RingInit, RingStep, ReaderInit, PTL DEF WorkerSpec
==============================================================================
