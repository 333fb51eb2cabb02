--------------------------- MODULE Fmp4WriterProofs ---------------------------
(***************************************************************************)
(* Proofs about Fmp4Writer, for every caller, every way memory runs short  *)
(* and clusters of any length: the clusters of a track always partition    *)
(* its samples, so that no assert of the writer fails, and the memory of a *)
(* sample is freed exactly when it leaves its table.                       *)
(*                                                                         *)
(* Then what a fragment does, box by box: what a buffer holds stays as it  *)
(* is but for data offsets and the extents of an index (Onto), and behind  *)
(* it there is one moof, with a traf for each track that has samples       *)
(* (IsMoof, FragmentDoes).  Fmp4FileProofs goes on from there to what is   *)
(* in a whole file.                                                        *)
(***************************************************************************)
EXTENDS Fmp4Writer, SequenceTheorems, WellFoundedInduction, TLAPS

Sample == [bytes : Nat, dts : Nat, key : BOOLEAN, offset : Nat,
           samples_per_chunk : Nat, first_chunk : Nat]

\* The clusters with the heads H are the first n samples of s, one after the other.
Closed(s, n, H) ==
  /\ H \subseteq 1..n
  /\ n # 0 => 1 \in H
  /\ \A h \in H : /\ s[h].samples_per_chunk >= 1
                  /\ h + s[h].samples_per_chunk \in H \cup {n + 1}
------------------------------------------------------------------------------
(* Walking the clusters.                                                    *)

\* A set of numbers has a least element.
LEMMA LeastElement ==
  ASSUME NEW S \in SUBSET Nat, S # {}
  PROVE  \E x \in S : \A y \in S : x <= y
<1>. DEFINE R == OpToRel(<, Nat)
<1>1. R = {ss \in Nat \X Nat : ss[1] < ss[2]}
  BY DEF OpToRel
<1>2. IsWellFoundedOn(R, Nat)
  BY NatLessThanWellFounded
<1>. HIDE DEF R
<1>3. PICK x \in S : \A y \in S : <<y, x>> \notin R
  BY <1>2, WFMin
<1>4. ASSUME NEW y \in S
      PROVE  x <= y
  <2>1. x \in Nat /\ y \in Nat /\ <<y, x>> \notin R
    BY <1>3
  <2>2. ~(<<y, x>>[1] < <<y, x>>[2])
    BY <1>1, <2>1
  <2>. QED  BY <2>1, <2>2
<1>. QED  BY <1>4

\* What the walk makes of cluster i, if q is what it makes of the later ones.
After(s, i, q) ==
  LET next == i + s[i].samples_per_chunk
  IN IF next = i THEN <<>> ELSE <<i>> \o (IF next <= Len(s) THEN q[next] ELSE <<>>)

\* The walk from i on to the end of the table.
Walks(s, m, q) == /\ q = [i \in m..Len(s) |-> q[i]]
                  /\ \A i \in m..Len(s) : q[i] = After(s, i, q)

\* There is such a walk.
LEMMA WalkExists ==
  ASSUME NEW s \in Seq(Sample)
  PROVE  \E q : q = [i \in 1..Len(s) |-> After(s, i, q)]
<1>. DEFINE n == Len(s)
            D == {m \in 1..n + 1 : \E q : Walks(s, m, q)}
<1>1. n \in Nat /\ \A i \in 1..n : s[i].samples_per_chunk \in Nat
  <2>1. n \in Nat /\ \A i \in 1..n : s[i] \in Sample
    OBVIOUS
  <2>. HIDE DEF n
  <2>. QED  BY <2>1 DEF Sample
<1>2. n + 1 \in D
  <2>. DEFINE q == [i \in {} |-> <<>>]
  <2>1. n + 1 \in 1..n + 1 /\ n + 1..n = {}
    BY <1>1
  <2>2. Walks(s, n + 1, q)
    BY <2>1 DEF Walks
  <2>. QED  BY <2>1, <2>2
<1>3. PICK m \in D : \A y \in D : m <= y
  <2>1. D \subseteq Nat /\ D # {}
    BY <1>1, <1>2
  <2>. HIDE DEF D
  <2>. QED  BY <2>1, LeastElement
<1>4. PICK q : Walks(s, m, q)
  BY <1>3
<1>5. m = 1
  <2>. SUFFICES ASSUME m # 1 PROVE FALSE
    OBVIOUS
  <2>. DEFINE k == m - 1
              p == [i \in k..n |-> IF i = k THEN After(s, k, q) ELSE q[i]]
  <2>1. k \in 1..n /\ m = k + 1 /\ m \in 1..n + 1
    BY <1>1, <1>3
  <2>2. ASSUME NEW i \in k..n
        PROVE  p[i] = After(s, i, p)
    <3>1. After(s, i, p) = After(s, i, q)
      <4>1. i \in 1..n /\ s[i].samples_per_chunk \in Nat
        BY <1>1, <2>1
      <4>. DEFINE next == i + s[i].samples_per_chunk
      <4>2. next # i /\ next <= n => next \in k..n /\ next # k
        BY <2>1, <4>1
      <4>3. next # i /\ next <= n => p[next] = q[next]
        BY <4>2
      <4>. HIDE DEF p
      <4>. QED  BY <4>3 DEF After
    <3>2. CASE i = k
      BY <3>1, <3>2
    <3>3. CASE i # k
      <4>1. i \in m..n
        BY <2>1, <3>3
      <4>. QED  BY <1>4, <3>1, <3>3, <4>1 DEF Walks
    <3>. QED  BY <3>2, <3>3
  <2>3. Walks(s, k, p)
    <3>. DEFINE r == p
    <3>1. r = [i \in k..n |-> r[i]]
      OBVIOUS
    <3>. HIDE DEF p
    <3>. QED  BY <2>2, <3>1 DEF Walks
  <2>. HIDE DEF p
  <2>4. k \in D
    BY <1>1, <2>1, <2>3
  <2>. QED  BY <1>3, <2>1, <2>4
<1>6. q = [i \in 1..n |-> q[i]] /\ \A i \in 1..n : q[i] = After(s, i, q)
  BY <1>4, <1>5 DEF Walks
<1>7. q = [i \in 1..n |-> After(s, i, q)]
  BY <1>6
<1>. QED  BY <1>7

\* Clusters is that walk from the first sample.
LEMMA ClustersAre ==
  ASSUME NEW s \in Seq(Sample), s # <<>>
  PROVE  \E q : Walks(s, 1, q) /\ Clusters(s) = q[1]
<1>. DEFINE from[i \in 1..Len(s)] ==
              LET next == i + s[i].samples_per_chunk
              IN IF next = i THEN <<>>
                 ELSE <<i>> \o (IF next <= Len(s) THEN from[next] ELSE <<>>)
<1>1. Clusters(s) = from[1]
  BY DEF Clusters
<1>2. from = CHOOSE q : q = [i \in 1..Len(s) |-> After(s, i, q)]
  BY DEF from, After
<1>. HIDE DEF from
<1>3. from = [i \in 1..Len(s) |-> After(s, i, from)]
  BY <1>2, WalkExists
<1>4. Walks(s, 1, from)
  BY <1>3 DEF Walks
<1>. QED  BY <1>1, <1>4

\* A sequence with one more element in front.
LEMMA InFront ==
  ASSUME NEW S, NEW c \in Seq(S), NEW i \in S
  PROVE  /\ <<i>> \o c \in Seq(S) /\ <<i>> \o c # <<>> /\ Len(<<i>> \o c) = Len(c) + 1
         /\ (<<i>> \o c)[1] = i /\ \A k \in 1..Len(c) : (<<i>> \o c)[k + 1] = c[k]
         /\ Last(<<i>> \o c) = IF c = <<>> THEN i ELSE Last(c)
<1>. DEFINE a == <<i>>
            d == a \o c
<1>1. a \in Seq(S) /\ Len(a) = 1 /\ a[1] = i
  OBVIOUS
<1>. HIDE DEF a
<1>2. /\ d \in Seq(S) /\ Len(d) = Len(a) + Len(c)
      /\ \A k \in 1..Len(a) + Len(c) : d[k] = IF k <= Len(a) THEN a[k] ELSE c[k - Len(a)]
  BY <1>1, ConcatProperties
<1>. HIDE DEF d
<1>3. Len(c) \in Nat /\ (c = <<>> <=> Len(c) = 0)
  OBVIOUS
<1>4. Len(d) = Len(c) + 1 /\ d[1] = i /\ \A k \in 1..Len(c) : d[k + 1] = c[k]
  BY <1>1, <1>2, <1>3
<1>5. d # <<>>
  BY <1>3, <1>4
<1>6. Last(d) = IF c = <<>> THEN i ELSE Last(c)
  <2>1. CASE c = <<>>
    BY <1>3, <1>4, <2>1 DEF Last
  <2>2. CASE c # <<>>
    <3>1. Len(c) \in 1..Len(c)
      BY <1>3, <2>2
    <3>. QED  BY <1>4, <2>2, <3>1 DEF Last
  <2>. QED  BY <2>1, <2>2
<1>. QED  BY <1>2, <1>4, <1>5, <1>6 DEF a, d

\* The clusters c go from sample h to the end of the table without leaving one out, and
\* none goes past it.
Reaches(s, h, c) ==
  /\ c \in Seq(1..Len(s)) /\ c # <<>>
  /\ Last(c) + s[Last(c)].samples_per_chunk = Len(s) + 1
  /\ \A j \in h..Len(s) : \E k \in 1..Len(c) :
       j \in c[k]..c[k] + s[c[k]].samples_per_chunk - 1
  /\ \A k \in 1..Len(c) : c[k] + s[c[k]].samples_per_chunk <= Len(s) + 1

\* One step of the walk: to the end of the table, or to a cluster from which it is
\* reached.
LEMMA WalkGoesOn ==
  ASSUME NEW s \in Seq(Sample), NEW q, Walks(s, 1, q),
         NEW h \in 1..Len(s), s[h].samples_per_chunk >= 1,
         \/ h + s[h].samples_per_chunk = Len(s) + 1
         \/ /\ h + s[h].samples_per_chunk \in 1..Len(s)
            /\ Reaches(s, h + s[h].samples_per_chunk, q[h + s[h].samples_per_chunk])
  PROVE  Reaches(s, h, q[h])
<1>. DEFINE n == Len(s)
            m == s[h].samples_per_chunk
            next == h + m
            c == IF next <= n THEN q[next] ELSE <<>>
            d == <<h>> \o c
<1>1. n \in Nat /\ h \in 1..n /\ m \in Nat \ {0}
  <2>1. s[h] \in Sample
    OBVIOUS
  <2>2. m \in Nat
    BY <2>1 DEF Sample
  <2>3. m >= 1
    OBVIOUS
  <2>. HIDE DEF m
  <2>. QED  BY <2>2, <2>3
<1>2. q[h] = d
  <2>1. q[h] = After(s, h, q)
    BY DEF Walks
  <2>2. next # h
    BY <1>1
  <2>. QED  BY <2>1, <2>2 DEF After
<1>3. CASE next = n + 1
  <2>0. ~(next <= n)
    <3>. HIDE DEF n, m, next
    <3>. QED  BY <1>1, <1>3
  <2>1. c = <<>> /\ c \in Seq(1..n)
    <3>. HIDE DEF n, next
    <3>. QED  BY <2>0
  <2>. HIDE DEF c, n, m
  <2>2. d \in Seq(1..n) /\ d # <<>> /\ Len(d) = Len(c) + 1 /\ d[1] = h /\ Last(d) = h
    <3>. DEFINE S == 1..n
    <3>1. h \in S /\ c \in Seq(S) /\ c = <<>> /\ Len(c) \in Nat
      BY <1>1, <2>1
    <3>. HIDE DEF S
    <3>2. /\ d \in Seq(S) /\ d # <<>> /\ Len(d) = Len(c) + 1 /\ d[1] = h
          /\ Last(d) = IF c = <<>> THEN h ELSE Last(c)
      BY <3>1, InFront
    <3>. HIDE DEF d
    <3>. QED  BY <3>1, <3>2 DEF S
  <2>3. Len(d) = 1
    BY <2>1, <2>2
  <2>. HIDE DEF d
  <2>4. \A j \in h..n : \E k \in 1..Len(d) : j \in d[k]..d[k] + s[d[k]].samples_per_chunk - 1
    <3>1. \A j \in h..n : j \in h..h + m - 1
      BY <1>1, <1>3
    <3>. QED  BY <2>2, <2>3, <3>1 DEF m
  <2>5. \A k \in 1..Len(d) : d[k] + s[d[k]].samples_per_chunk <= n + 1
    <3>1. h + m <= n + 1
      BY <1>1, <1>3
    <3>2. ASSUME NEW k \in 1..Len(d)
          PROVE  k = 1 /\ d[k] = h
      <4>1. k = 1
        BY <2>3
      <4>. QED  BY <2>2, <4>1
    <3>. QED  BY <3>1, <3>2 DEF m
  <2>. QED  BY <1>2, <1>3, <2>2, <2>4, <2>5 DEF Reaches, n, m
<1>4. CASE next \in 1..n /\ Reaches(s, next, q[next])
  <2>0. next <= n
    <3>. HIDE DEF n, next
    <3>. QED  BY <1>1, <1>4
  <2>1. c = q[next] /\ c \in Seq(1..n) /\ c # <<>>
    <3>1. q[next] \in Seq(1..n) /\ q[next] # <<>>
      BY <1>4 DEF Reaches
    <3>. HIDE DEF n, next
    <3>. QED  BY <2>0, <3>1
  <2>. HIDE DEF c
  <2>2. /\ Last(c) + s[Last(c)].samples_per_chunk = n + 1
        /\ \A j \in next..n : \E k \in 1..Len(c) :
             j \in c[k]..c[k] + s[c[k]].samples_per_chunk - 1
        /\ \A k \in 1..Len(c) : c[k] + s[c[k]].samples_per_chunk <= n + 1
    BY <1>4, <2>1 DEF Reaches
  <2>. HIDE DEF n
  <2>3. /\ d \in Seq(1..n) /\ d # <<>> /\ Len(d) = Len(c) + 1 /\ d[1] = h
        /\ Last(d) = Last(c) /\ \A k \in 1..Len(c) : d[k + 1] = c[k]
    <3>. DEFINE S == 1..n
    <3>1. h \in S /\ c \in Seq(S) /\ c # <<>>
      BY <1>1, <2>1
    <3>. HIDE DEF S
    <3>2. /\ d \in Seq(S) /\ d # <<>> /\ Len(d) = Len(c) + 1 /\ d[1] = h
          /\ Last(d) = IF c = <<>> THEN h ELSE Last(c)
          /\ \A k \in 1..Len(c) : d[k + 1] = c[k]
      BY <3>1, InFront
    <3>. HIDE DEF d
    <3>. QED  BY <3>1, <3>2 DEF S
  <2>. HIDE DEF d
  <2>4. ASSUME NEW j \in h..n
        PROVE  \E k \in 1..Len(d) : j \in d[k]..d[k] + s[d[k]].samples_per_chunk - 1
    <3>0. Len(c) \in Nat
      BY <2>1
    <3>1. CASE j < next
      <4>. HIDE DEF m
      <4>1. j \in h..h + m - 1
        BY <1>1, <3>1
      <4>2. 1 \in 1..Len(d)
        BY <2>3, <3>0
      <4>. QED  BY <2>3, <4>1, <4>2 DEF m
    <3>2. CASE ~(j < next)
      <4>1. j \in next..n
        BY <1>1, <3>2
      <4>. HIDE DEF next, m
      <4>2. PICK k \in 1..Len(c) : j \in c[k]..c[k] + s[c[k]].samples_per_chunk - 1
        BY <2>2, <4>1
      <4>3. k + 1 \in 1..Len(d) /\ d[k + 1] = c[k]
        BY <2>3, <3>0
      <4>. QED  BY <4>2, <4>3
    <3>. QED  BY <3>1, <3>2
  <2>5. ASSUME NEW k \in 1..Len(d)
        PROVE  d[k] + s[d[k]].samples_per_chunk <= n + 1
    <3>0. Len(c) \in Nat
      BY <2>1
    <3>1. CASE k = 1
      <4>. HIDE DEF m
      <4>1. h + m <= n + 1
        BY <1>1, <2>0
      <4>. QED  BY <2>3, <3>1, <4>1 DEF m
    <3>2. CASE k # 1
      <4>. DEFINE i == k - 1
      <4>1. i \in 1..Len(c) /\ k = i + 1
        BY <2>3, <3>0, <3>2
      <4>. HIDE DEF i, next, m
      <4>. QED  BY <2>2, <2>3, <4>1
    <3>. QED  BY <3>1, <3>2
  <2>. QED  BY <1>2, <2>2, <2>3, <2>4, <2>5 DEF Reaches, n
<1>. QED  BY <1>3, <1>4

\* From each head the walk reaches the end of a table that its clusters partition.
LEMMA WalkReaches ==
  ASSUME NEW s \in Seq(Sample), NEW H, Closed(s, Len(s), H), NEW q, Walks(s, 1, q)
  PROVE  \A h \in H : Reaches(s, h, q[h])
<1>. DEFINE n == Len(s)
            bad == {h \in H : ~Reaches(s, h, q[h])}
            D == {n - h : h \in bad}
<1>1. n \in Nat /\ H \subseteq 1..n
  BY DEF Closed
<1>2. SUFFICES ASSUME bad # {} PROVE FALSE
  OBVIOUS
<1>3. D \subseteq Nat /\ D # {}
  <2>1. \A h \in bad : n - h \in Nat
    BY <1>1
  <2>. HIDE DEF bad
  <2>. QED  BY <1>2, <2>1
<1>4. PICK x \in D : \A y \in D : x <= y
  <2>. HIDE DEF D
  <2>. QED  BY <1>3, LeastElement
<1>5. PICK h \in bad : x = n - h
  BY <1>4
<1>6. h \in 1..n /\ h \in H /\ s[h].samples_per_chunk \in Nat
  <2>1. h \in 1..n /\ h \in H
    BY <1>1, <1>5
  <2>2. s[h] \in Sample
    BY <2>1
  <2>. QED  BY <2>1, <2>2 DEF Sample
<1>. DEFINE m == s[h].samples_per_chunk
            next == h + m
<1>7. m >= 1 /\ next \in H \cup {n + 1}
  BY <1>6 DEF Closed
<1>8. next \in H => next \in 1..n /\ Reaches(s, next, q[next])
  <2>. SUFFICES ASSUME next \in H, ~Reaches(s, next, q[next]) PROVE FALSE
    BY <1>1
  <2>1. next \in bad /\ next \in 1..n
    BY <1>1
  <2>2. n - next \in D
    BY <2>1
  <2>3. n - h <= n - next
    BY <1>4, <1>5, <2>2
  <2>. QED  BY <1>1, <1>6, <1>7, <2>1, <2>3
<1>9. Reaches(s, h, q[h])
  BY <1>6, <1>7, <1>8, WalkGoesOn
<1>. QED  BY <1>5, <1>9

\* Clusters that partition a table pass the asserts of the walk, and the walk frees
\* every sample.
LEMMA AllClustered ==
  ASSUME NEW s \in Seq(Sample), NEW H, Closed(s, Len(s), H)
  PROVE  WellClustered(s) /\ Clustered(s) = 1..Len(s)
<1>1. CASE s = <<>>
  BY <1>1 DEF WellClustered, Clustered
<1>2. CASE s # <<>>
  <2>1. PICK q : Walks(s, 1, q) /\ Clusters(s) = q[1]
    BY <1>2, ClustersAre
  <2>2. 1 \in H
    BY <1>2 DEF Closed
  <2>3. Reaches(s, 1, Clusters(s))
    BY <2>1, <2>2, WalkReaches
  <2>. DEFINE c == Clusters(s)
  <2>. HIDE DEF c
  <2>4. Reaches(s, 1, c)
    BY <2>3 DEF c
  <2>5. WellClustered(s)
    BY <2>4 DEF WellClustered, Reaches, c
  <2>6. ASSUME NEW i \in 1..Len(s)
        PROVE  \E head \in Range(c) : i \in head..head + s[head].samples_per_chunk - 1
    <3>1. PICK k \in 1..Len(c) : i \in c[k]..c[k] + s[c[k]].samples_per_chunk - 1
      BY <2>4 DEF Reaches
    <3>2. c[k] \in Range(c)
      BY <2>4 DEF Range, Reaches
    <3>. QED  BY <3>1, <3>2
  <2>7. Clustered(s) = 1..Len(s)
    BY <2>6 DEF Clustered, c
  <2>. QED  BY <2>5, <2>7
<1>. QED  BY <1>1, <1>2
------------------------------------------------------------------------------
(* The table of a track.                                                    *)

\* The first n samples of s are in clusters that are complete, the others in the one
\* that is being filled.
Parted(s, n) ==
  /\ n \in 0..Len(s)
  /\ \E H : Closed(s, n, H)
  /\ n # Len(s) => s[n + 1].samples_per_chunk = Len(s) - n

\* The cluster that is being filled may be closed at any time.
LEMMA AllClosed ==
  ASSUME NEW s \in Seq(Sample), NEW n, Parted(s, n)
  PROVE  Parted(s, Len(s))
<1>1. Len(s) \in Nat /\ n \in 0..Len(s)
  BY DEF Parted
<1>2. PICK H : Closed(s, n, H)
  BY DEF Parted
<1>3. CASE n = Len(s)
  BY <1>3
<1>4. CASE n # Len(s)
  <2>. DEFINE G == H \cup {n + 1}
  <2>1. s[n + 1].samples_per_chunk = Len(s) - n
    BY <1>4 DEF Parted
  <2>2. Closed(s, Len(s), G)
    <3>1. n + 1 \in 1..Len(s) /\ H \subseteq 1..n
      BY <1>1, <1>2, <1>4 DEF Closed
    <3>2. G \subseteq 1..Len(s) /\ 1 \in G
      <4>1. G \subseteq 1..Len(s)
        BY <1>1, <3>1
      <4>2. n = 0 \/ 1 \in H
        BY <1>2 DEF Closed
      <4>. QED  BY <4>1, <4>2
    <3>3. ASSUME NEW h \in G
          PROVE  /\ s[h].samples_per_chunk >= 1
                 /\ h + s[h].samples_per_chunk \in G \cup {Len(s) + 1}
      <4>1. CASE h \in H
        BY <1>2, <4>1 DEF Closed
      <4>2. CASE h = n + 1
        BY <1>1, <1>4, <2>1, <4>2
      <4>. QED  BY <4>1, <4>2
    <3>. QED  BY <3>2, <3>3 DEF Closed
  <2>3. Len(s) \in 0..Len(s)
    BY <1>1
  <2>. HIDE DEF G
  <2>. QED  BY <2>2, <2>3 DEF Parted
<1>. QED  BY <1>3, <1>4

\* Table a with one sample more counted in the cluster at head.
Counted(a, head) == [a EXCEPT ![head].samples_per_chunk = @ + 1]

\* A sample is added to the table and counted in the cluster that is being filled, or
\* in a new one.
LEMMA OneMore ==
  ASSUME NEW s \in Seq(Sample), NEW n, Parted(s, n),
         NEW x \in Sample, x.samples_per_chunk = 0,
         NEW r, r = Counted(Append(s, x), n + 1)
  PROVE  /\ r \in Seq(Sample) /\ Len(r) = Len(s) + 1 /\ Parted(r, n)
         /\ \A i \in 1..Len(s) : r[i].first_chunk = s[i].first_chunk
         /\ r[Len(s) + 1].first_chunk = x.first_chunk
<1>. DEFINE a == Append(s, x)
            k == Len(s)
<1>1. k \in Nat /\ n \in 0..k /\ n + 1 \in 1..k + 1
  <2>1. k \in Nat /\ n \in 0..k
    BY DEF Parted
  <2>. HIDE DEF k
  <2>. QED  BY <2>1
<1>2. /\ a \in Seq(Sample) /\ Len(a) = k + 1 /\ a[k + 1] = x
      /\ \A i \in 1..k : a[i] = s[i]
  BY AppendProperties
<1>. HIDE DEF a
<1>3. DOMAIN a = 1..k + 1 /\ \A i \in 1..k + 1 : a[i] \in Sample
  BY <1>2
<1>. HIDE DEF k
<1>. DEFINE old == a[n + 1]
            new == [old EXCEPT !.samples_per_chunk = old.samples_per_chunk + 1]
<1>4. r = [a EXCEPT ![n + 1] = new]
  BY DEF a, Counted
<1>5. old.samples_per_chunk + 1 = (k + 1) - n
  <2>1. CASE n = k
    BY <1>1, <1>2, <2>1
  <2>2. CASE n # k
    <3>1. s[n + 1].samples_per_chunk = k - n /\ n + 1 \in 1..k
      BY <1>1, <2>2 DEF Parted, k
    <3>. QED  BY <1>1, <1>2, <3>1
  <2>. QED  BY <2>1, <2>2
<1>7. /\ new \in Sample /\ new.samples_per_chunk = (k + 1) - n
      /\ new.first_chunk = a[n + 1].first_chunk
  <2>1. old \in Sample
    BY <1>1, <1>3
  <2>2. (k + 1) - n \in Nat
    BY <1>1
  <2>. DEFINE m == old.samples_per_chunk + 1
  <2>3. m \in Nat /\ m = (k + 1) - n
    BY <1>5, <2>2
  <2>. HIDE DEF old, m
  <2>4. /\ [old EXCEPT !.samples_per_chunk = m] \in Sample
        /\ [old EXCEPT !.samples_per_chunk = m].samples_per_chunk = m
        /\ [old EXCEPT !.samples_per_chunk = m].first_chunk = old.first_chunk
    BY <2>1, <2>3 DEF Sample
  <2>. QED  BY <2>3, <2>4 DEF old, m
<1>. HIDE DEF new
<1>8. /\ r = [i \in 1..k + 1 |-> IF i = n + 1 THEN new ELSE a[i]]
      /\ \A i \in 1..k + 1 : r[i] = IF i = n + 1 THEN new ELSE a[i]
  BY <1>1, <1>3, <1>4
<1>9. r \in Seq(Sample) /\ Len(r) = k + 1
  <2>1. k + 1 \in Nat
    BY <1>1
  <2>2. \A i \in 1..k + 1 : (IF i = n + 1 THEN new ELSE a[i]) \in Sample
    BY <1>3, <1>7
  <2>. DEFINE e(i) == IF i = n + 1 THEN new ELSE a[i]
  <2>3. [i \in 1..k + 1 |-> e(i)] \in [1..k + 1 -> Sample]
    BY <2>2
  <2>4. r \in [1..k + 1 -> Sample]
    BY <1>8, <2>3
  <2>. QED  BY <2>1, <2>4
<1>10. \A i \in 1..k + 1 : r[i].first_chunk = a[i].first_chunk
  BY <1>7, <1>8
<1>11. Parted(r, n)
  <2>1. PICK H : Closed(s, n, H)
    BY DEF Parted
  <2>2. \A h \in H : h \in 1..k /\ h # n + 1 /\ h \in 1..n
    BY <1>1, <2>1 DEF Closed
  <2>3. \A h \in H : r[h] = s[h]
    BY <1>1, <1>2, <1>8, <2>2
  <2>4. Closed(r, n, H)
    BY <2>1, <2>3 DEF Closed
  <2>5. r[n + 1].samples_per_chunk = Len(r) - n /\ n \in 0..Len(r)
    BY <1>1, <1>7, <1>8, <1>9
  <2>. QED  BY <2>4, <2>5 DEF Parted
<1>12. \A i \in 1..k : i \in 1..k + 1
  BY <1>1
<1>13. k + 1 \in 1..k + 1
  BY <1>1
<1>. QED  BY <1>2, <1>9, <1>10, <1>11, <1>12, <1>13 DEF k

\* A table without samples.
LEMMA EmptyTable == Parted(<<>>, 0)
<1>1. Closed(<<>>, 0, {})
  BY DEF Closed
<1>2. Len(<<>>) = 0 /\ 0 \in 0..0
  OBVIOUS
<1>. QED  BY <1>1, <1>2 DEF Parted
------------------------------------------------------------------------------
(* The invariant.                                                           *)

IsSequence(q) == \E S : q \in Seq(S)

TrackFields == {"handler_type", "samples", "sample_offset", "offset", "end_dts", "frags",
                "frag_capacity"}

\* A track whose clusters partition its samples, within its tables; now is the dts of
\* the newest sample of all tracks.
GoodTrack(x, now) ==
  /\ DOMAIN x = TrackFields
  /\ x.samples \in Seq(Sample) /\ Parted(x.samples, x.offset)
  /\ x.sample_offset \in Nat /\ Len(x.samples) <= x.sample_offset
  /\ x.end_dts \in 0..now
  /\ IsSequence(x.frags) /\ x.frag_capacity \in Nat /\ Len(x.frags) <= x.frag_capacity

WriterFields == {"mdat_size", "has_moov", "fragment_id", "sn", "tracks", "heap", "aborted"}

\* The memory of the samples that are in a table.
Owned(tracks) == UNION {{s.first_chunk : s \in Range(tracks[t].samples)} :
                          t \in DOMAIN tracks}

\* A writer none of whose asserts has failed, and whose memory is that of its samples.
\* Without media data there are no samples: they are not empty.
Whole(w, now) ==
  /\ DOMAIN w = WriterFields
  /\ w.aborted = FALSE /\ w.mdat_size \in Nat /\ w.sn \in Nat
  /\ IsSequence(w.tracks)
  /\ \A t \in 1..Len(w.tracks) : GoodTrack(w.tracks[t], now)
  /\ w.heap = Owned(w.tracks)
  /\ w.mdat_size = 0 => \A t \in 1..Len(w.tracks) : w.tracks[t].samples = <<>>

IInv ==
  /\ caller \in Callers /\ clock \in Nat
  /\ DOMAIN calls = {"samples", "saves"} /\ calls.samples \in Nat
  /\ Whole(writer, clock)
  /\ writer.tracks = <<>> \/ Len(writer.tracks) = Len(Tracks)
  /\ phase = "new" => writer.tracks = <<>>
------------------------------------------------------------------------------
(* Sequences and the memory of samples.                                     *)

\* The length and the domain of a sequence.
LEMMA SequenceIs ==
  ASSUME NEW q, IsSequence(q)
  PROVE  /\ Len(q) \in Nat /\ DOMAIN q = 1..Len(q) /\ q = [i \in 1..Len(q) |-> q[i]]
         /\ q = <<>> <=> Len(q) = 0
<1>1. PICK S : q \in Seq(S)
  BY DEF IsSequence
<1>. QED  BY <1>1

\* A sequence with one more element is one.
LEMMA OneEntryMore ==
  ASSUME NEW q, IsSequence(q), NEW e
  PROVE  IsSequence(Append(q, e)) /\ Len(Append(q, e)) = Len(q) + 1
<1>1. PICK S : q \in Seq(S)
  BY DEF IsSequence
<1>. DEFINE T == S \cup {e}
<1>2. q \in Seq(T) /\ e \in T
  BY <1>1
<1>. HIDE DEF T
<1>3. Append(q, e) \in Seq(T) /\ Len(Append(q, e)) = Len(q) + 1
  BY <1>2, AppendProperties
<1>. QED  BY <1>3 DEF IsSequence

\* A function on the first numbers is a sequence.
LEMMA OnIndices ==
  ASSUME NEW n \in Nat, NEW q, q = [i \in 1..n |-> q[i]]
  PROVE  IsSequence(q) /\ Len(q) = n
<1>. DEFINE S == {q[i] : i \in 1..n}
<1>1. q \in [1..n -> S]
  <2>1. \A i \in 1..n : q[i] \in S
    OBVIOUS
  <2>. HIDE DEF S
  <2>. QED  BY <2>1
<1>. HIDE DEF S
<1>2. q \in Seq(S) /\ Len(q) = n
  BY <1>1
<1>. QED  BY <1>2 DEF IsSequence

\* The memory of the samples, one by one.
LEMMA OwnedIs ==
  ASSUME NEW tracks, IsSequence(tracks),
         \A t \in 1..Len(tracks) : tracks[t].samples \in Seq(Sample), NEW x
  PROVE  x \in Owned(tracks) <=>
           \E t \in 1..Len(tracks) : \E i \in 1..Len(tracks[t].samples) :
             x = tracks[t].samples[i].first_chunk
<1>1. DOMAIN tracks = 1..Len(tracks)
  BY SequenceIs
<1>2. \A t \in 1..Len(tracks) : DOMAIN tracks[t].samples = 1..Len(tracks[t].samples)
  OBVIOUS
<1>3. x \in Owned(tracks) <=>
        \E t \in 1..Len(tracks) : x \in {s.first_chunk : s \in Range(tracks[t].samples)}
  BY <1>1 DEF Owned
<1>4. ASSUME NEW t \in 1..Len(tracks)
      PROVE  x \in {s.first_chunk : s \in Range(tracks[t].samples)} <=>
               \E i \in 1..Len(tracks[t].samples) : x = tracks[t].samples[i].first_chunk
  BY <1>2 DEF Range
<1>. QED  BY <1>3, <1>4

\* No samples, no memory.
LEMMA NothingOwned ==
  ASSUME NEW tracks, IsSequence(tracks), \A t \in 1..Len(tracks) : tracks[t].samples = <<>>
  PROVE  Owned(tracks) = {}
<1>1. DOMAIN tracks = 1..Len(tracks)
  BY SequenceIs
<1>2. \A t \in 1..Len(tracks) : Range(tracks[t].samples) = {}
  BY DEF Range
<1>. QED  BY <1>1, <1>2 DEF Owned

------------------------------------------------------------------------------
(* Fragments.                                                               *)

\* The entry of a fragment fits into its table, and the samples leave theirs.
LEMMA TrackCleared ==
  ASSUME NEW now \in Nat, NEW x, GoodTrack(x, now), NEW moof, NEW grown
  PROVE  LET y == Cleared(AddFragmentEntry(x, moof, grown))
         IN GoodTrack(y, now) /\ y.samples = <<>>
<1>. DEFINE a == AddFragmentEntry(x, moof, grown)
            y == Cleared(a)
<1>1. /\ DOMAIN x = TrackFields /\ x.sample_offset \in Nat
      /\ IsSequence(x.frags) /\ x.frag_capacity \in Nat /\ Len(x.frags) <= x.frag_capacity
      /\ Len(x.frags) \in Nat /\ FRAGS_GROW \in Nat \ {0}
  BY SequenceIs, TableAssumption DEF GoodTrack
<1>2. /\ DOMAIN a = TrackFields /\ a.sample_offset = x.sample_offset
      /\ IsSequence(a.frags) /\ a.frag_capacity \in Nat /\ Len(a.frags) <= a.frag_capacity
  <2>. DEFINE full == Len(x.frags) >= x.frag_capacity
              e == [time |-> x.samples[1].dts, offset |-> moof]
              more == Append(x.frags, e)
              room == IF full THEN x.frag_capacity + FRAGS_GROW ELSE x.frag_capacity
  <2>1. IsSequence(more) /\ Len(more) = Len(x.frags) + 1
    BY <1>1, OneEntryMore
  <2>2. room \in Nat /\ Len(more) <= room
    BY <1>1, <2>1
  <2>3. CASE a = x
    BY <1>1, <2>3
  <2>4. CASE a = [x EXCEPT !.frags = more, !.frag_capacity = room]
    <3>. HIDE DEF a, more, room
    <3>1. /\ DOMAIN a = TrackFields /\ a.sample_offset = x.sample_offset
          /\ a.frags = more /\ a.frag_capacity = room
      BY <1>1, <2>4 DEF TrackFields
    <3>. QED  BY <2>1, <2>2, <3>1
  <2>5. a = x \/ a = [x EXCEPT !.frags = more, !.frag_capacity = room]
    BY DEF AddFragmentEntry
  <2>. QED  BY <2>3, <2>4, <2>5
<1>. HIDE DEF a
<1>3. /\ DOMAIN y = TrackFields /\ y.samples = <<>> /\ y.end_dts = 0 /\ y.offset = 0
      /\ y.sample_offset = a.sample_offset /\ y.frags = a.frags
      /\ y.frag_capacity = a.frag_capacity
  BY <1>2 DEF Cleared, TrackFields
<1>. HIDE DEF y
<1>4. <<>> \in Seq(Sample) /\ Len(<<>>) = 0 /\ 0 \in 0..now
  OBVIOUS
<1>5. GoodTrack(y, now)
  BY <1>1, <1>2, <1>3, <1>4, EmptyTable DEF GoodTrack
<1>. QED  BY <1>3, <1>5 DEF y, a

\* What a fragment frees is all there is.
LEMMA AllFreed ==
  ASSUME NEW now, NEW tracks, IsSequence(tracks),
         \A t \in 1..Len(tracks) : GoodTrack(tracks[t], now)
  PROVE  Owned(tracks) \ Freed(tracks) = {}
<1>1. DOMAIN tracks = 1..Len(tracks)
  BY SequenceIs
<1>2. ASSUME NEW t \in 1..Len(tracks)
      PROVE  Clustered(tracks[t].samples) = 1..Len(tracks[t].samples)
  <2>. DEFINE s == tracks[t].samples
  <2>1. s \in Seq(Sample) /\ Parted(s, tracks[t].offset)
    BY DEF GoodTrack
  <2>. HIDE DEF s
  <2>2. Parted(s, Len(s))
    BY <2>1, AllClosed
  <2>3. PICK H : Closed(s, Len(s), H)
    BY <2>2 DEF Parted
  <2>4. Clustered(s) = 1..Len(s)
    BY <2>1, <2>3, AllClustered
  <2>. QED  BY <2>4 DEF s
<1>3. \A t \in 1..Len(tracks) : tracks[t].samples \in Seq(Sample)
  BY DEF GoodTrack
<1>4. ASSUME NEW x \in Owned(tracks)
      PROVE  x \in Freed(tracks)
  <2>1. PICK t \in 1..Len(tracks) : \E i \in 1..Len(tracks[t].samples) :
               x = tracks[t].samples[i].first_chunk
    BY <1>3, OwnedIs
  <2>2. x \in {tracks[t].samples[i].first_chunk : i \in Clustered(tracks[t].samples)}
    BY <1>2, <2>1
  <2>. QED  BY <1>1, <2>2 DEF Freed
<1>. QED  BY <1>4

\* The asserts of the walk hold whenever a fragment is written.
LEMMA AllWellClustered ==
  ASSUME NEW now, NEW x, GoodTrack(x, now)
  PROVE  WellClustered(x.samples)
<1>. DEFINE s == x.samples
<1>1. s \in Seq(Sample) /\ Parted(s, x.offset)
  BY DEF GoodTrack
<1>. HIDE DEF s
<1>2. Parted(s, Len(s))
  BY <1>1, AllClosed
<1>3. PICK H : Closed(s, Len(s), H)
  BY <1>2 DEF Parted
<1>4. WellClustered(s)
  BY <1>1, <1>3, AllClustered
<1>. QED  BY <1>4 DEF s

\* After a fragment no track has samples, and the writer is as good as it was.
LEMMA FragmentWhole ==
  ASSUME NEW now \in Nat, NEW w, Whole(w, now), NEW b, NEW grown
  PROVE  LET v == Fragment(w, b, grown).w
         IN /\ Whole(v, now) /\ Len(v.tracks) = Len(w.tracks) /\ v.sn = w.sn
            /\ \A t \in 1..Len(v.tracks) : v.tracks[t].samples = <<>>
<1>. DEFINE v == Fragment(w, b, grown).w
            n == Len(w.tracks)
<1>0. /\ DOMAIN w = WriterFields /\ w.aborted = FALSE /\ w.mdat_size \in Nat /\ w.sn \in Nat
      /\ IsSequence(w.tracks) /\ n \in Nat /\ w.heap = Owned(w.tracks)
      /\ \A t \in 1..n : GoodTrack(w.tracks[t], now)
  BY SequenceIs DEF Whole
<1>1. CASE w.mdat_size < 1
  <2>1. v = w
    BY <1>1 DEF Fragment
  <2>2. w.mdat_size = 0
    BY <1>0, <1>1
  <2>. HIDE DEF v
  <2>3. \A t \in 1..Len(v.tracks) : v.tracks[t].samples = <<>>
    BY <2>1, <2>2 DEF Whole
  <2>. QED  BY <2>1, <2>3 DEF v
<1>2. CASE ~(w.mdat_size < 1)
  <2>1. ~(\E t \in 1..n : ~WellClustered(w.tracks[t].samples))
    BY <1>0, AllWellClustered
  <2>2. PICK moof, id :
          v = [w EXCEPT !.has_moov = TRUE, !.fragment_id = id, !.mdat_size = 0,
                        !.heap = w.heap \ Freed(w.tracks),
                        !.tracks = [t \in 1..n |->
                          Cleared(AddFragmentEntry(w.tracks[t], moof, grown[t]))]]
    BY <1>2, <2>1 DEF Fragment
  <2>. DEFINE q == [t \in 1..n |->
                      Cleared(AddFragmentEntry(w.tracks[t], moof, grown[t]))]
              h == w.heap \ Freed(w.tracks)
  <2>3. IsSequence(q) /\ Len(q) = n
    <3>1. q = [t \in 1..n |-> q[t]]
      OBVIOUS
    <3>. HIDE DEF q
    <3>. QED  BY <1>0, <3>1, OnIndices
  <2>4. \A t \in 1..n : GoodTrack(q[t], now) /\ q[t].samples = <<>>
    BY <1>0, TrackCleared
  <2>5. h = {}
    BY <1>0, AllFreed
  <2>6. v = [w EXCEPT !.has_moov = TRUE, !.fragment_id = id, !.mdat_size = 0, !.heap = h,
                      !.tracks = q]
    BY <2>2
  <2>. HIDE DEF q, h, v
  <2>7. /\ DOMAIN v = WriterFields /\ v.aborted = FALSE /\ v.mdat_size = 0 /\ v.sn = w.sn
        /\ v.tracks = q /\ v.heap = h
    BY <1>0, <2>6 DEF WriterFields
  <2>8. Owned(q) = {}
    BY <2>3, <2>4, NothingOwned
  <2>9. Whole(v, now)
    BY <1>0, <2>3, <2>4, <2>5, <2>7, <2>8 DEF Whole
  <2>. HIDE DEF n
  <2>. QED  BY <2>3, <2>4, <2>7, <2>9 DEF v, n
<1>. QED  BY <1>0, <1>1, <1>2

\* So is what a saved segment leaves.
LEMMA SaveWhole ==
  ASSUME NEW now \in Nat, NEW w, Whole(w, now), NEW b, NEW grown
  PROVE  LET v == SaveSegment(w, b, grown).w
         IN /\ Whole(v, now) /\ Len(v.tracks) = Len(w.tracks)
            /\ \A t \in 1..Len(v.tracks) : v.tracks[t].samples = <<>>
<1>. DEFINE f == Fragment(w, b, grown)
            c == [f.w EXCEPT !.has_moov = FALSE]
            v == SaveSegment(w, b, grown).w
            n == Len(w.tracks)
            q == [t \in DOMAIN f.w.tracks |-> [f.w.tracks[t] EXCEPT !.frags = <<>>]]
<1>1. /\ DOMAIN f.w = WriterFields /\ f.w.aborted = FALSE /\ f.w.mdat_size \in Nat
      /\ f.w.sn \in Nat /\ IsSequence(f.w.tracks) /\ Len(f.w.tracks) = n /\ n \in Nat
      /\ f.w.heap = Owned(f.w.tracks) /\ DOMAIN f.w.tracks = 1..n
      /\ \A t \in 1..n : GoodTrack(f.w.tracks[t], now) /\ f.w.tracks[t].samples = <<>>
  <2>1. Whole(f.w, now) /\ Len(f.w.tracks) = n
        /\ \A t \in 1..Len(f.w.tracks) : f.w.tracks[t].samples = <<>>
    BY FragmentWhole
  <2>. HIDE DEF f, n
  <2>2. IsSequence(f.w.tracks)
    BY <2>1 DEF Whole
  <2>. QED  BY <2>1, <2>2, SequenceIs DEF Whole
<1>2. v = c \/ v = [c EXCEPT !.tracks = q]
  <2>1. DOMAIN f = {"w", "b"}
    BY DEF Fragment
  <2>2. CASE SEGMENT
    <3>1. v = [f EXCEPT !.w = c].w
      BY <2>2 DEF SaveSegment
    <3>. HIDE DEF f, c
    <3>. QED  BY <2>1, <3>1
  <2>3. CASE ~SEGMENT
    BY <1>1, <2>3 DEF SaveSegment
  <2>. QED  BY <2>2, <2>3
<1>. HIDE DEF f, v, n
<1>3. /\ IsSequence(q) /\ Len(q) = n
      /\ \A t \in 1..n : GoodTrack(q[t], now) /\ q[t].samples = <<>>
  <2>1. q = [t \in 1..n |-> q[t]]
    BY <1>1
  <2>2. IsSequence(q) /\ Len(q) = n
    <3>. HIDE DEF q
    <3>. QED  BY <1>1, <2>1, OnIndices
  <2>3. ASSUME NEW t \in 1..n
        PROVE  GoodTrack(q[t], now) /\ q[t].samples = <<>>
    <3>. DEFINE x == f.w.tracks[t]
                y == q[t]
    <3>1. y = [x EXCEPT !.frags = <<>>]
      BY <1>1
    <3>2. GoodTrack(x, now) /\ x.samples = <<>> /\ DOMAIN x = TrackFields
      BY <1>1 DEF GoodTrack
    <3>. HIDE DEF x, y, q
    <3>3. /\ DOMAIN y = TrackFields /\ y.samples = x.samples /\ y.offset = x.offset
          /\ y.sample_offset = x.sample_offset /\ y.end_dts = x.end_dts
          /\ y.frags = <<>> /\ y.frag_capacity = x.frag_capacity
      BY <3>1, <3>2 DEF TrackFields
    <3>4. IsSequence(<<>>) /\ Len(<<>>) = 0
      <4>1. <<>> \in Seq(Nat)
        OBVIOUS
      <4>. QED  BY <4>1 DEF IsSequence
    <3>5. Len(y.frags) <= y.frag_capacity
      BY <3>2, <3>3, <3>4 DEF GoodTrack
    <3>6. GoodTrack(y, now)
      BY <3>2, <3>3, <3>4, <3>5 DEF GoodTrack
    <3>. QED  BY <3>2, <3>3, <3>6 DEF y
  <2>. QED  BY <2>2, <2>3
<1>. DEFINE r == v.tracks
<1>. HIDE DEF q
<1>4. /\ DOMAIN v = WriterFields /\ v.aborted = FALSE /\ v.mdat_size \in Nat /\ v.sn \in Nat
      /\ v.heap = f.w.heap /\ (r = f.w.tracks \/ r = q)
  BY <1>1, <1>2 DEF WriterFields
<1>. HIDE DEF r
<1>5. /\ IsSequence(r) /\ Len(r) = n
      /\ \A t \in 1..n : GoodTrack(r[t], now) /\ r[t].samples = <<>>
  BY <1>1, <1>3, <1>4
<1>6. Owned(r) = {} /\ f.w.heap = {}
  BY <1>1, <1>5, NothingOwned
<1>7. Whole(v, now)
  BY <1>4, <1>5, <1>6 DEF Whole, r
<1>. QED  BY <1>5, <1>7 DEF v, n, r
------------------------------------------------------------------------------
(* Samples.                                                                 *)

\* The track of a sample, before and after it joins a cluster: one sample more, which
\* is the last, and the clusters still partition the table.
Joined(x, y, sample, now) ==
  /\ GoodTrack(y, now) /\ Len(y.samples) = Len(x.samples) + 1
  /\ \A i \in 1..Len(x.samples) : y.samples[i].first_chunk = x.samples[i].first_chunk
  /\ y.samples[Len(x.samples) + 1].first_chunk = sample.first_chunk

\* A sample joins a cluster of track t, and new clusters begin or not.
LEMMA ClusterTracks ==
  ASSUME NEW now \in Nat, NEW tracks, IsSequence(tracks),
         \A u \in 1..Len(tracks) : GoodTrack(tracks[u], now),
         NEW t \in 1..Len(tracks), Len(tracks[t].samples) + 1 <= tracks[t].sample_offset,
         NEW x \in Sample, x.samples_per_chunk = 0, NEW key, NEW sn
  PROVE  LET a == Append(tracks[t].samples, x)
             r == Cluster([tracks EXCEPT ![t] = [tracks[t] EXCEPT !.samples = a]], t, key, sn)
         IN /\ IsSequence(r) /\ Len(r) = Len(tracks)
            /\ \A u \in 1..Len(tracks) \ {t} : GoodTrack(r[u], now)
                                               /\ r[u].samples = tracks[u].samples
            /\ Joined(tracks[t], r[t], x, now)
<1>. DEFINE n == Len(tracks)
            s == tracks[t].samples
            a == Append(s, x)
            y == [tracks[t] EXCEPT !.samples = a]
            added == [tracks EXCEPT ![t] = y]
            begun == [u \in DOMAIN added |->
                        [added[u] EXCEPT !.offset =
                           Len(added[u].samples) - (IF u = t THEN 1 ELSE 0)]]
            sw == Switched(added, t, key, sn)
            r == Cluster(added, t, key, sn)
<1>1. /\ n \in Nat /\ DOMAIN tracks = 1..n /\ t \in 1..n
      /\ s \in Seq(Sample) /\ Len(s) \in Nat
      /\ \A u \in 1..n : /\ DOMAIN tracks[u] = TrackFields /\ tracks[u].samples \in Seq(Sample)
                         /\ Parted(tracks[u].samples, tracks[u].offset)
  BY SequenceIs DEF GoodTrack
<1>2. a \in Seq(Sample) /\ Len(a) = Len(s) + 1
  BY <1>1, AppendProperties
<1>. HIDE DEF a
<1>3. /\ DOMAIN y = TrackFields /\ y.samples = a
      /\ \A f \in TrackFields \ {"samples"} : y[f] = tracks[t][f]
  BY <1>1 DEF TrackFields
<1>. HIDE DEF y
<1>4. /\ DOMAIN added = 1..n /\ added[t] = y
      /\ \A u \in 1..n \ {t} : added[u] = tracks[u]
  BY <1>1
<1>. HIDE DEF added
<1>5. sw = added \/ sw = begun
  BY DEF Switched
<1>. HIDE DEF sw
<1>6. ASSUME NEW u \in 1..n
      PROVE  /\ DOMAIN sw[u] = TrackFields
             /\ \A f \in TrackFields \ {"offset"} : sw[u][f] = added[u][f]
             /\ Parted(tracks[u].samples, sw[u].offset)
  <2>1. DOMAIN added[u] = TrackFields /\ added[u].offset = tracks[u].offset
    <3>1. CASE u = t
      BY <1>3, <1>4, <3>1 DEF TrackFields
    <3>2. CASE u # t
      BY <1>1, <1>4, <3>2
    <3>. QED  BY <3>1, <3>2
  <2>2. Len(added[u].samples) - (IF u = t THEN 1 ELSE 0) = Len(tracks[u].samples)
    <3>1. CASE u = t
      BY <1>1, <1>2, <1>3, <1>4, <3>1
    <3>2. CASE u # t
      <4>1. added[u] = tracks[u] /\ Len(tracks[u].samples) \in Nat
        BY <1>1, <1>4, <3>2
      <4>. QED  BY <3>2, <4>1
    <3>. QED  BY <3>1, <3>2
  <2>3. CASE sw = added
    BY <1>1, <2>1, <2>3
  <2>4. CASE sw = begun
    <3>. DEFINE m == Len(tracks[u].samples)
                z == added[u]
    <3>1. sw[u] = [z EXCEPT !.offset = m]
      BY <1>4, <2>2, <2>4
    <3>2. Parted(tracks[u].samples, m)
      BY <1>1, AllClosed
    <3>. HIDE DEF m, z
    <3>3. DOMAIN z = TrackFields
      BY <2>1 DEF z
    <3>4. /\ DOMAIN sw[u] = TrackFields /\ sw[u].offset = m
          /\ \A f \in TrackFields \ {"offset"} : sw[u][f] = z[f]
      BY <3>1, <3>3 DEF TrackFields
    <3>. QED  BY <3>2, <3>4 DEF z
  <2>. QED  BY <1>5, <2>3, <2>4
<1>7. DOMAIN sw = 1..n
  BY <1>4, <1>5
<1>. DEFINE o == sw[t].offset
            b == [a EXCEPT ![o + 1].samples_per_chunk = @ + 1]
            z == [sw[t] EXCEPT !.samples = b]
<1>8. r = [sw EXCEPT ![t] = z]
  <2>1. sw[t].samples = a
    BY <1>1, <1>3, <1>4, <1>6 DEF TrackFields
  <2>. QED  BY <2>1 DEF Cluster, sw
<1>9. /\ b \in Seq(Sample) /\ Len(b) = Len(s) + 1 /\ Parted(b, o)
      /\ \A i \in 1..Len(s) : b[i].first_chunk = s[i].first_chunk
      /\ b[Len(s) + 1].first_chunk = x.first_chunk
  <2>1. Parted(s, o)
    BY <1>6
  <2>2. b = Counted(Append(s, x), o + 1)
    BY DEF a, Counted
  <2>3. s \in Seq(Sample)
    BY <1>1
  <2>. HIDE DEF b, o, s
  <2>. QED  BY <2>1, <2>2, <2>3, OneMore
<1>. HIDE DEF b
<1>10. /\ DOMAIN z = TrackFields /\ z.samples = b
       /\ \A f \in TrackFields \ {"samples"} : z[f] = sw[t][f]
  BY <1>6 DEF TrackFields
<1>. HIDE DEF z, r
<1>11. IsSequence(r) /\ Len(r) = n /\ r[t] = z /\ \A u \in 1..n \ {t} : r[u] = sw[u]
  <2>1. r = [u \in 1..n |-> r[u]] /\ r[t] = z /\ \A u \in 1..n \ {t} : r[u] = sw[u]
    BY <1>1, <1>7, <1>8
  <2>. QED  BY <1>1, <2>1, OnIndices
<1>12. ASSUME NEW u \in 1..n \ {t}
       PROVE  GoodTrack(r[u], now) /\ r[u].samples = tracks[u].samples
  <2>. DEFINE v == r[u]
              w == tracks[u]
  <2>1. /\ DOMAIN v = TrackFields /\ Parted(w.samples, v.offset)
        /\ \A f \in TrackFields \ {"offset"} : v[f] = w[f]
    BY <1>4, <1>6, <1>11
  <2>2. GoodTrack(w, now)
    OBVIOUS
  <2>. HIDE DEF v, w
  <2>3. /\ v.samples = w.samples /\ v.sample_offset = w.sample_offset
        /\ v.end_dts = w.end_dts /\ v.frags = w.frags /\ v.frag_capacity = w.frag_capacity
    BY <2>1 DEF TrackFields
  <2>. QED  BY <2>1, <2>2, <2>3 DEF GoodTrack, v, w
<1>13. Joined(tracks[t], r[t], x, now)
  <2>. DEFINE w == tracks[t]
  <2>1. \A f \in TrackFields \ {"offset", "samples"} : z[f] = w[f]
    BY <1>3, <1>4, <1>6, <1>10
  <2>2. z.offset = o
    BY <1>10 DEF TrackFields
  <2>3. GoodTrack(w, now) /\ Len(s) + 1 <= w.sample_offset
    OBVIOUS
  <2>. HIDE DEF w, o
  <2>4. /\ z.sample_offset = w.sample_offset
        /\ z.end_dts = w.end_dts /\ z.frags = w.frags /\ z.frag_capacity = w.frag_capacity
    BY <2>1 DEF TrackFields
  <2>5. GoodTrack(z, now)
    BY <1>9, <1>10, <2>2, <2>3, <2>4 DEF GoodTrack
  <2>. QED  BY <1>9, <1>10, <1>11, <2>5 DEF Joined
<1>. QED  BY <1>11, <1>12, <1>13 DEF r, added, y, a

\* Tracks p before and q after sample x joins track t.
JoinedTo(p, q, t, x, now) ==
  /\ IsSequence(p) /\ IsSequence(q) /\ Len(q) = Len(p) /\ t \in 1..Len(p)
  /\ \A u \in 1..Len(p) : GoodTrack(p[u], now)
  /\ \A u \in 1..Len(p) \ {t} : q[u].samples = p[u].samples
  /\ Joined(p[t], q[t], x, now)

\* The memory of a sample that joins a track is owned, and nothing else is new.
LEMMA OneOwnedMore ==
  ASSUME NEW now, NEW p, NEW q, NEW t, NEW x, JoinedTo(p, q, t, x, now)
  PROVE  Owned(q) = Owned(p) \cup {x.first_chunk}
<1>. USE DEF JoinedTo
<1>. DEFINE n == Len(p)
            P(u) == p[u].samples
            Q(u) == q[u].samples
            k == Len(P(t))
<1>1. /\ \A u \in 1..n : P(u) \in Seq(Sample) /\ Q(u) \in Seq(Sample)
      /\ Len(Q(t)) = k + 1 /\ k \in Nat /\ Q(t)[k + 1].first_chunk = x.first_chunk
      /\ \A i \in 1..k : Q(t)[i].first_chunk = P(t)[i].first_chunk
      /\ \A u \in 1..n \ {t} : Q(u) = P(u)
  <2>1. \A u \in 1..n : P(u) \in Seq(Sample)
    BY DEF GoodTrack
  <2>2. k \in Nat
    BY <2>1
  <2>3. \A u \in 1..n \ {t} : Q(u) = P(u)
    OBVIOUS
  <2>4. /\ GoodTrack(q[t], now)
        /\ Len(Q(t)) = k + 1 /\ Q(t)[k + 1].first_chunk = x.first_chunk
        /\ \A i \in 1..k : Q(t)[i].first_chunk = P(t)[i].first_chunk
    BY DEF Joined
  <2>5. Q(t) \in Seq(Sample)
    BY <2>4 DEF GoodTrack
  <2>. HIDE DEF P, Q, n, k
  <2>6. \A u \in 1..n : Q(u) \in Seq(Sample)
    BY <2>1, <2>3, <2>5
  <2>. QED  BY <2>1, <2>2, <2>3, <2>4, <2>6
<1>2. ASSUME NEW e
      PROVE  /\ e \in Owned(p) <=> \E u \in 1..n : \E i \in 1..Len(P(u)) : e = P(u)[i].first_chunk
             /\ e \in Owned(q) <=> \E u \in 1..n : \E i \in 1..Len(Q(u)) : e = Q(u)[i].first_chunk
  <2>1. /\ IsSequence(p) /\ \A u \in 1..Len(p) : p[u].samples \in Seq(Sample)
        /\ IsSequence(q) /\ \A u \in 1..Len(q) : q[u].samples \in Seq(Sample)
    BY <1>1
  <2>. HIDE DEF JoinedTo
  <2>2. e \in Owned(p) <=> \E u \in 1..Len(p) : \E i \in 1..Len(p[u].samples) :
                              e = p[u].samples[i].first_chunk
    BY <2>1, OwnedIs
  <2>3. e \in Owned(q) <=> \E u \in 1..Len(q) : \E i \in 1..Len(q[u].samples) :
                              e = q[u].samples[i].first_chunk
    BY <2>1, OwnedIs
  <2>4. e \in Owned(p) <=> \E u \in 1..n : \E i \in 1..Len(P(u)) : e = P(u)[i].first_chunk
    BY <2>2
  <2>5. e \in Owned(q) <=> \E u \in 1..n : \E i \in 1..Len(Q(u)) : e = Q(u)[i].first_chunk
    <3>1. Len(q) = n
      BY DEF JoinedTo
    <3>. HIDE DEF n
    <3>. QED  BY <2>3, <3>1
  <2>. QED  BY <2>4, <2>5
<1>. HIDE DEF P, Q, n, k
<1>3. t \in 1..n
  BY DEF n
<1>4. ASSUME NEW e \in Owned(p)
      PROVE  e \in Owned(q)
  <2>1. PICK u \in 1..n : \E i \in 1..Len(P(u)) : e = P(u)[i].first_chunk
    BY <1>2
  <2>2. PICK i \in 1..Len(P(u)) : e = P(u)[i].first_chunk
    BY <2>1
  <2>3. i \in 1..Len(Q(u)) /\ e = Q(u)[i].first_chunk
    <3>1. CASE u = t
      BY <1>1, <2>2, <3>1 DEF k
    <3>2. CASE u # t
      BY <1>1, <2>2, <3>2
    <3>. QED  BY <3>1, <3>2
  <2>. QED  BY <1>2, <2>3
<1>5. x.first_chunk \in Owned(q)
  <2>1. k + 1 \in 1..Len(Q(t))
    BY <1>1
  <2>. QED  BY <1>1, <1>2, <1>3, <2>1
<1>6. ASSUME NEW e \in Owned(q)
      PROVE  e \in Owned(p) \cup {x.first_chunk}
  <2>1. PICK u \in 1..n : \E i \in 1..Len(Q(u)) : e = Q(u)[i].first_chunk
    BY <1>2
  <2>2. PICK i \in 1..Len(Q(u)) : e = Q(u)[i].first_chunk
    BY <2>1
  <2>3. CASE u = t /\ i = k + 1
    BY <1>1, <2>2, <2>3
  <2>4. CASE ~(u = t /\ i = k + 1)
    <3>1. i \in 1..Len(P(u)) /\ e = P(u)[i].first_chunk
      <4>1. CASE u = t
        BY <1>1, <2>2, <2>4, <4>1 DEF k
      <4>2. CASE u # t
        BY <1>1, <2>2, <4>2
      <4>. QED  BY <4>1, <4>2
    <3>. QED  BY <1>2, <3>1
  <2>. QED  BY <2>3, <2>4
<1>. QED  BY <1>4, <1>5, <1>6

\* A sample is stored in a table that has room for it.
LEMMA StoreWhole ==
  ASSUME NEW now \in Nat, NEW w, Whole(w, now), NEW t \in 1..Len(w.tracks),
         Len(w.tracks[t].samples) + 1 <= w.tracks[t].sample_offset,
         NEW bytes \in Nat \ {0}, NEW dts \in Nat, NEW key \in BOOLEAN
  PROVE  LET v == Store(w, t, bytes, dts, key)
         IN Whole(v, now) /\ Len(v.tracks) = Len(w.tracks)
<1>. DEFINE v == Store(w, t, bytes, dts, key)
            n == Len(w.tracks)
            x == [bytes |-> bytes, dts |-> dts, key |-> key, offset |-> 0,
                  samples_per_chunk |-> 0, first_chunk |-> w.sn]
            s == w.tracks[t].samples
            a == Append(s, x)
            added == [w.tracks EXCEPT ![t] = [w.tracks[t] EXCEPT !.samples = a]]
            r == Cluster(added, t, key, w.sn + 1)
            h == w.heap \cup {w.sn}
            size == w.mdat_size + bytes
<1>1. /\ DOMAIN w = WriterFields /\ w.aborted = FALSE /\ w.mdat_size \in Nat /\ w.sn \in Nat
      /\ IsSequence(w.tracks) /\ n \in Nat /\ w.heap = Owned(w.tracks)
      /\ \A u \in 1..n : GoodTrack(w.tracks[u], now)
  BY SequenceIs DEF Whole
<1>2. x \in Sample /\ x.samples_per_chunk = 0 /\ x.first_chunk = w.sn
  BY <1>1 DEF Sample
<1>3. v = [w EXCEPT !.sn = w.sn + 1, !.heap = h, !.mdat_size = size, !.tracks = r]
  BY DEF Store
<1>. HIDE DEF x
<1>4. /\ IsSequence(r) /\ Len(r) = n
      /\ \A u \in 1..n \ {t} : GoodTrack(r[u], now) /\ r[u].samples = w.tracks[u].samples
      /\ Joined(w.tracks[t], r[t], x, now)
  BY <1>1, <1>2, ClusterTracks
<1>. HIDE DEF v, r, size, n
<1>5. /\ DOMAIN v = WriterFields /\ v.aborted = FALSE /\ v.mdat_size = size
      /\ v.sn = w.sn + 1 /\ v.tracks = r /\ v.heap = h
  BY <1>1, <1>3 DEF WriterFields
<1>6. size \in Nat /\ size # 0 /\ w.sn + 1 \in Nat
  BY <1>1 DEF size
<1>7. \A u \in 1..n : GoodTrack(r[u], now)
  BY <1>4 DEF Joined
<1>8. Owned(r) = h
  <2>1. Owned(r) = Owned(w.tracks) \cup {x.first_chunk}
    <3>. DEFINE p == w.tracks
    <3>1. JoinedTo(p, r, t, x, now)
      BY <1>1, <1>4 DEF n, JoinedTo
    <3>. HIDE DEF p
    <3>2. Owned(r) = Owned(p) \cup {x.first_chunk}
      BY <3>1, OneOwnedMore
    <3>. QED  BY <3>2 DEF p
  <2>. QED  BY <1>1, <1>2, <2>1
<1>9. Whole(v, now)
  BY <1>4, <1>5, <1>6, <1>7, <1>8 DEF Whole
<1>. QED  BY <1>4, <1>5, <1>9 DEF v, n

\* What was good stays good when time goes on.
LEMMA Later ==
  ASSUME NEW now \in Nat, NEW then \in Nat, now <= then, NEW x, GoodTrack(x, now)
  PROVE  GoodTrack(x, then)
<1>1. x.end_dts \in 0..now
  BY DEF GoodTrack
<1>2. x.end_dts \in 0..then
  BY <1>1
<1>. QED  BY <1>2 DEF GoodTrack

LEMMA WholeLater ==
  ASSUME NEW now \in Nat, NEW then \in Nat, now <= then, NEW w, Whole(w, now)
  PROVE  Whole(w, then)
<1>1. \A t \in 1..Len(w.tracks) : GoodTrack(w.tracks[t], now)
  BY DEF Whole
<1>2. \A t \in 1..Len(w.tracks) : GoodTrack(w.tracks[t], then)
  BY <1>1, Later
<1>. QED  BY <1>2 DEF Whole

\* A call with a sample that is not older than the ones before: no assert fails, and
\* without memory for the table or for the data the writer stays as it was.
LEMMA TakeWhole ==
  ASSUME NEW now \in Nat, NEW w, Whole(w, now), NEW t \in 1..Len(w.tracks),
         NEW bytes \in Nat \ {0}, NEW dts \in Nat, now <= dts, NEW key \in BOOLEAN,
         NEW grown, NEW copied
  PROVE  LET v == Take(w, t, bytes, dts, key, grown, copied)
         IN Whole(v, dts) /\ Len(v.tracks) = Len(w.tracks)
<1>. DEFINE v == Take(w, t, bytes, dts, key, grown, copied)
            n == Len(w.tracks)
            x == w.tracks[t]
            full == TableFull(x)
            room == IF full THEN x.sample_offset + GROW ELSE x.sample_offset
            y == [x EXCEPT !.sample_offset = room, !.end_dts = dts]
            tracks == [w.tracks EXCEPT ![t] = y]
            ready == [w EXCEPT !.tracks[t] = y, !.aborted = @ \/ x.end_dts > dts]
<1>1. /\ DOMAIN w = WriterFields /\ w.aborted = FALSE /\ w.mdat_size \in Nat /\ w.sn \in Nat
      /\ IsSequence(w.tracks) /\ n \in Nat /\ w.heap = Owned(w.tracks)
      /\ DOMAIN w.tracks = 1..n /\ \A u \in 1..n : GoodTrack(w.tracks[u], now)
  BY SequenceIs DEF Whole
<1>2. /\ DOMAIN x = TrackFields /\ x.samples \in Seq(Sample) /\ Len(x.samples) \in Nat
      /\ x.sample_offset \in Nat /\ x.end_dts \in 0..now /\ GROW \in Nat \ {0}
      /\ Len(x.samples) <= x.sample_offset
  <2>1. GoodTrack(x, now)
    BY <1>1
  <2>. HIDE DEF x
  <2>2. x.samples \in Seq(Sample)
    BY <2>1 DEF GoodTrack
  <2>. QED  BY <2>1, <2>2, TableAssumption DEF GoodTrack
<1>3. CASE full /\ ~grown
  <2>1. v = w
    BY <1>3 DEF Take
  <2>. QED  BY <2>1, WholeLater
<1>4. CASE ~(full /\ ~grown)
  <2>1. ready = [w EXCEPT !.tracks = tracks, !.aborted = w.aborted \/ x.end_dts > dts]
    <3>. HIDE DEF x, y
    <3>. QED  BY <1>1 DEF WriterFields
  <2>2. ~(x.end_dts > dts)
    <3>. HIDE DEF x
    <3>. QED  BY <1>2
  <2>3. /\ DOMAIN ready = WriterFields /\ ready.aborted = FALSE /\ ready.mdat_size = w.mdat_size
        /\ ready.sn = w.sn /\ ready.heap = w.heap /\ ready.tracks = tracks
    <3>. HIDE DEF tracks, ready, x
    <3>. QED  BY <1>1, <2>1, <2>2 DEF WriterFields
  <2>4. v = ready \/ v = Store(ready, t, bytes, dts, key)
    BY <1>4 DEF Take
  <2>. HIDE DEF ready, v
  <2>5. /\ y.sample_offset = room /\ y.end_dts = dts /\ y.samples = x.samples
        /\ y.offset = x.offset /\ y.frags = x.frags /\ y.frag_capacity = x.frag_capacity
        /\ DOMAIN y = TrackFields
    <3>. HIDE DEF x, room
    <3>. QED  BY <1>2 DEF TrackFields
  <2>6. room \in Nat /\ Len(x.samples) + 1 <= room
    <3>1. full <=> Len(x.samples) + 1 >= x.sample_offset
      BY DEF TableFull
    <3>. HIDE DEF x, full
    <3>. QED  BY <1>2, <3>1
  <2>7. dts \in 0..dts /\ Len(x.samples) <= room
    BY <1>2, <2>6
  <2>. HIDE DEF y, room, full
  <2>8. GoodTrack(y, dts)
    BY <1>1, <2>5, <2>6, <2>7 DEF GoodTrack
  <2>. HIDE DEF x
  <2>9. /\ tracks = [u \in 1..n |-> tracks[u]] /\ tracks[t] = y
        /\ \A u \in 1..n \ {t} : tracks[u] = w.tracks[u]
    BY <1>1
  <2>. HIDE DEF tracks, n
  <2>10. IsSequence(tracks) /\ Len(tracks) = n
    BY <1>1, <2>9, OnIndices
  <2>11. \A u \in 1..n : GoodTrack(tracks[u], dts) /\ tracks[u].samples = w.tracks[u].samples
    BY <1>1, <2>5, <2>8, <2>9, Later DEF x
  <2>12. Owned(tracks) = Owned(w.tracks)
    <3>1. DOMAIN tracks = 1..n /\ DOMAIN w.tracks = 1..n
      BY <1>1, <2>9
    <3>. QED  BY <2>11, <3>1 DEF Owned
  <2>13. Whole(ready, dts)
    <3>1. ready.mdat_size = 0 => \A u \in 1..n : tracks[u].samples = <<>>
      BY <2>3, <2>11 DEF Whole, n
    <3>. QED  BY <1>1, <2>3, <2>10, <2>11, <2>12, <3>1 DEF Whole
  <2>14. t \in 1..Len(ready.tracks) /\ Len(ready.tracks) = n
         /\ Len(ready.tracks[t].samples) + 1 <= ready.tracks[t].sample_offset
    BY <2>3, <2>5, <2>6, <2>9, <2>10 DEF n
  <2>15. LET z == Store(ready, t, bytes, dts, key)
         IN Whole(z, dts) /\ Len(z.tracks) = Len(ready.tracks)
    BY <2>13, <2>14, StoreWhole
  <2>. QED  BY <2>4, <2>13, <2>14, <2>15 DEF v, n
<1>. QED  BY <1>3, <1>4
------------------------------------------------------------------------------
(* The calls.                                                               *)

\* A track just added.
LEMMA NewTrackIsGood ==
  ASSUME NEW now \in Nat, NEW type
  PROVE  GoodTrack(NewTrack(type), now) /\ NewTrack(type).samples = <<>>
<1>1. <<>> \in Seq(Sample) /\ Len(<<>>) = 0 /\ 0 \in 0..now
  OBVIOUS
<1>2. IsSequence(<<>>)
  BY <1>1 DEF IsSequence
<1>. DEFINE x == NewTrack(type)
<1>3. /\ DOMAIN x = TrackFields /\ x.samples = <<>> /\ x.sample_offset = 0 /\ x.offset = 0
      /\ x.end_dts = 0 /\ x.frags = <<>> /\ x.frag_capacity = 0
  BY DEF NewTrack, TrackFields
<1>. HIDE DEF x
<1>4. GoodTrack(x, now)
  BY <1>1, <1>2, <1>3, EmptyTable DEF GoodTrack
<1>. QED  BY <1>3, <1>4 DEF x

\* The writer begins without tracks.
LEMMA InitInv == Init => IInv
<1>. SUFFICES ASSUME Init PROVE IInv
  OBVIOUS
<1>1. /\ caller \in Callers /\ clock = 0 /\ calls = [samples |-> 0, saves |-> 0]
      /\ writer = [mdat_size |-> 0, has_moov |-> FALSE, fragment_id |-> 0, sn |-> 0,
                   tracks |-> <<>>, heap |-> {}, aborted |-> FALSE]
  BY DEF Init
<1>2. /\ DOMAIN writer = WriterFields /\ writer.aborted = FALSE /\ writer.mdat_size = 0
      /\ writer.sn = 0 /\ writer.tracks = <<>> /\ writer.heap = {}
  BY <1>1 DEF WriterFields
<1>3. IsSequence(<<>>) /\ Len(<<>>) = 0
  <2>1. <<>> \in Seq(Nat)
    OBVIOUS
  <2>. QED  BY <2>1 DEF IsSequence
<1>4. Owned(<<>>) = {}
  BY <1>3, NothingOwned
<1>5. Whole(writer, clock)
  BY <1>2, <1>3, <1>4 DEF Whole
<1>. QED  BY <1>1, <1>2, <1>5 DEF IInv

LEMMA SetupInv == IInv /\ Setup => IInv'
<1>. SUFFICES ASSUME IInv, Setup PROVE IInv'
  OBVIOUS
<1>1. /\ phase = "new" /\ phase' \in {"refused", "open"}
      /\ UNCHANGED <<caller, clock, calls>>
      /\ \E tracks : /\ writer' = [writer EXCEPT !.tracks = tracks]
                     /\ \/ tracks = [i \in 1..Len(Tracks) |-> NewTrack(Tracks[i])]
                        \/ tracks = <<>>
  BY DEF Setup
<1>2. PICK tracks : /\ writer' = [writer EXCEPT !.tracks = tracks]
                    /\ \/ tracks = [i \in 1..Len(Tracks) |-> NewTrack(Tracks[i])]
                       \/ tracks = <<>>
  BY <1>1
<1>. DEFINE n == Len(Tracks)
<1>3. n \in Nat /\ Tracks' = Tracks /\ clock \in Nat
  BY <1>1, CallerAssumption DEF IInv, Tracks
<1>4. /\ DOMAIN writer = WriterFields /\ writer.aborted = FALSE /\ writer.mdat_size \in Nat
      /\ writer.sn \in Nat /\ writer.heap = {}
  <2>1. writer.tracks = <<>> /\ IsSequence(writer.tracks) /\ Len(writer.tracks) = 0
    BY <1>1, SequenceIs DEF IInv, Whole
  <2>2. Owned(writer.tracks) = {}
    BY <2>1, NothingOwned
  <2>. QED  BY <2>2 DEF IInv, Whole
<1>5. /\ IsSequence(tracks) /\ (tracks = <<>> \/ Len(tracks) = n)
      /\ \A t \in 1..Len(tracks) : GoodTrack(tracks[t], clock) /\ tracks[t].samples = <<>>
  <2>1. CASE tracks = <<>>
    <3>1. <<>> \in Seq(Nat) /\ Len(<<>>) = 0
      OBVIOUS
    <3>. QED  BY <2>1, <3>1 DEF IsSequence
  <2>2. CASE tracks = [i \in 1..n |-> NewTrack(Tracks[i])]
    <3>1. tracks = [i \in 1..n |-> tracks[i]] /\ \A i \in 1..n : tracks[i] = NewTrack(Tracks[i])
      BY <2>2
    <3>2. IsSequence(tracks) /\ Len(tracks) = n
      BY <1>3, <3>1, OnIndices
    <3>. QED  BY <1>3, <3>1, <3>2, NewTrackIsGood
  <2>. QED  BY <1>2, <2>1, <2>2
<1>6. /\ DOMAIN writer' = WriterFields /\ writer'.aborted = FALSE
      /\ writer'.mdat_size = writer.mdat_size
      /\ writer'.sn = writer.sn /\ writer'.heap = {} /\ writer'.tracks = tracks
  BY <1>2, <1>4 DEF WriterFields
<1>7. Owned(tracks) = {}
  BY <1>5, NothingOwned
<1>8. Whole(writer', clock)
  BY <1>4, <1>5, <1>6, <1>7 DEF Whole
<1>9. Whole(writer, clock)'
  BY <1>1, <1>8
<1>. QED  BY <1>1, <1>3, <1>5, <1>6, <1>9 DEF IInv

LEMMA WriteInv == IInv /\ Write => IInv'
<1>. SUFFICES ASSUME IInv, Write PROVE IInv'
  OBVIOUS
<1>0. /\ clock \in Nat /\ DOMAIN calls = {"samples", "saves"} /\ calls.samples \in Nat
      /\ Whole(writer, clock) /\ (writer.tracks = <<>> \/ Len(writer.tracks) = Len(Tracks))
      /\ caller \in Callers
  BY DEF IInv
<1>1. PICK t \in 1..Len(Tracks), bytes \in caller.sizes, key \in BOOLEAN,
           grown \in AllocResults, copied \in AllocResults,
           entries \in [1..Len(Tracks) -> AllocResults] :
        /\ clock' = clock + calls.samples + 1
        /\ IF writer.tracks = <<>> THEN UNCHANGED <<writer, io, accepted>>
           ELSE LET f == BeforeKey(writer, io, t, key, entries)
                    w == IF f.w.aborted THEN f.w
                         ELSE Take(f.w, t, bytes, clock', key, grown, copied)
                IN writer' = w
  BY SMTT(30) DEF Write
<1>2. /\ UNCHANGED <<caller, phase>> /\ phase = "open" /\ Tracks' = Tracks
      /\ calls' = [calls EXCEPT !.samples = calls.samples + 1]
  BY DEF Write, Tracks
<1>3. clock' \in Nat /\ clock <= clock'
  BY <1>0, <1>1
<1>4. DOMAIN calls' = {"samples", "saves"} /\ calls'.samples \in Nat
  BY <1>0, <1>2
<1>5. CASE writer.tracks = <<>>
  <2>1. writer' = writer
    BY <1>1, <1>5
  <2>2. Whole(writer', clock')
    BY <1>0, <1>3, <2>1, WholeLater
  <2>. QED  BY <1>0, <1>2, <1>3, <1>4, <1>5, <2>1, <2>2 DEF IInv
<1>6. CASE writer.tracks # <<>>
  <2>. DEFINE g == BeforeKey(writer, io, t, key, entries).w
              v == Take(g, t, bytes, clock', key, grown, copied)
  <2>1. writer' = IF g.aborted THEN g ELSE v
    BY <1>1, <1>6
  <2>2. Whole(g, clock) /\ Len(g.tracks) = Len(writer.tracks)
    BY <1>0, FragmentWhole DEF BeforeKey
  <2>3. Len(g.tracks) = Len(Tracks) /\ g.aborted = FALSE
    BY <1>0, <1>6, <2>2 DEF Whole
  <2>4. bytes \in Nat \ {0}
    BY <1>0, CallerAssumption
  <2>. HIDE DEF g
  <2>5. Whole(v, clock') /\ Len(v.tracks) = Len(Tracks)
    BY <1>0, <1>3, <2>2, <2>3, <2>4, TakeWhole
  <2>6. writer' = v
    BY <2>1, <2>3
  <2>. HIDE DEF v
  <2>. QED  BY <1>0, <1>2, <1>3, <1>4, <2>5, <2>6 DEF IInv
<1>. QED  BY <1>5, <1>6

LEMMA SaveInv == IInv /\ Save => IInv'
<1>. SUFFICES ASSUME IInv, Save PROVE IInv'
  OBVIOUS
<1>0. /\ clock \in Nat /\ DOMAIN calls = {"samples", "saves"} /\ calls.samples \in Nat
      /\ Whole(writer, clock) /\ (writer.tracks = <<>> \/ Len(writer.tracks) = Len(Tracks))
      /\ caller \in Callers
  BY DEF IInv
<1>1. PICK entries \in [1..Len(Tracks) -> AllocResults] :
        writer' = SaveSegment(writer, io, entries).w
  BY DEF Save, Saved
<1>2. /\ UNCHANGED <<caller, phase, clock>> /\ phase = "open" /\ Tracks' = Tracks
      /\ calls' = [calls EXCEPT !.saves = calls.saves + 1]
  BY DEF Save, Tracks
<1>3. DOMAIN calls' = {"samples", "saves"} /\ calls'.samples \in Nat
  BY <1>0, <1>2
<1>4. Whole(writer', clock) /\ Len(writer'.tracks) = Len(writer.tracks)
  BY <1>0, <1>1, SaveWhole
<1>5. writer'.tracks = <<>> \/ Len(writer'.tracks) = Len(Tracks)
  <2>1. CASE writer.tracks = <<>>
    <3>1. IsSequence(writer'.tracks) /\ Len(writer'.tracks) = 0
      BY <1>4, <2>1 DEF Whole
    <3>. QED  BY <3>1, SequenceIs
  <2>2. CASE Len(writer.tracks) = Len(Tracks)
    BY <1>4, <2>2
  <2>. QED  BY <1>0, <2>1, <2>2
<1>6. Whole(writer, clock)'
  BY <1>2, <1>4
<1>. QED  BY <1>0, <1>2, <1>3, <1>5, <1>6 DEF IInv

\* What is left is freed, and no track has samples then.
LEMMA DestroyInv == IInv /\ Destroy => IInv'
<1>. SUFFICES ASSUME IInv, Destroy PROVE IInv'
  OBVIOUS
<1>0. /\ clock \in Nat /\ DOMAIN calls = {"samples", "saves"} /\ calls.samples \in Nat
      /\ Whole(writer, clock) /\ (writer.tracks = <<>> \/ Len(writer.tracks) = Len(Tracks))
      /\ caller \in Callers
  BY DEF IInv
<1>1. PICK entries \in [1..Len(Tracks) -> AllocResults] :
        LET s == SaveSegment(writer, io, entries)
            left == UNION {{x.first_chunk : x \in Range(s.w.tracks[t].samples)} :
                             t \in DOMAIN s.w.tracks}
        IN Saved([s EXCEPT !.w.heap = @ \ left])
  BY DEF Destroy
<1>. DEFINE s == SaveSegment(writer, io, entries)
            v == s.w
            h == v.heap \ Owned(v.tracks)
<1>2. /\ UNCHANGED <<caller, clock, calls>> /\ phase' = "destroyed" /\ Tracks' = Tracks
  BY DEF Destroy, Tracks
<1>3. /\ Whole(v, clock) /\ Len(v.tracks) = Len(writer.tracks)
      /\ \A t \in 1..Len(v.tracks) : v.tracks[t].samples = <<>>
  BY <1>0, SaveWhole
<1>4. DOMAIN s = {"w", "b"}
  <2>1. DOMAIN Fragment(writer, io, entries) = {"w", "b"}
    BY DEF Fragment
  <2>. QED  BY <2>1 DEF SaveSegment
<1>5. writer' = [v EXCEPT !.heap = h]
  <2>1. writer' = [s EXCEPT !.w.heap = h].w
    BY <1>1 DEF Saved, Owned
  <2>. HIDE DEF s, h
  <2>. QED  BY <1>4, <2>1
<1>. HIDE DEF v, h
<1>6. /\ DOMAIN v = WriterFields /\ v.aborted = FALSE /\ v.mdat_size \in Nat /\ v.sn \in Nat
      /\ IsSequence(v.tracks) /\ v.heap = Owned(v.tracks)
      /\ \A t \in 1..Len(v.tracks) : GoodTrack(v.tracks[t], clock)
  BY <1>3 DEF Whole
<1>7. Owned(v.tracks) = {} /\ h = {}
  BY <1>3, <1>6, NothingOwned DEF h
<1>8. /\ DOMAIN writer' = WriterFields /\ writer'.aborted = FALSE
      /\ writer'.mdat_size = v.mdat_size /\ writer'.sn = v.sn
      /\ writer'.tracks = v.tracks /\ writer'.heap = h
  BY <1>5, <1>6 DEF WriterFields
<1>9. Whole(writer', clock)
  BY <1>3, <1>6, <1>7, <1>8 DEF Whole
<1>10. writer'.tracks = <<>> \/ Len(writer'.tracks) = Len(Tracks)
  <2>1. CASE writer.tracks = <<>>
    <3>1. IsSequence(writer'.tracks) /\ Len(writer'.tracks) = 0
      BY <1>3, <1>6, <1>8, <2>1
    <3>. QED  BY <3>1, SequenceIs
  <2>2. CASE Len(writer.tracks) = Len(Tracks)
    BY <1>3, <1>8, <2>2
  <2>. QED  BY <1>0, <2>1, <2>2
<1>11. Whole(writer, clock)'
  BY <1>2, <1>9
<1>. QED  BY <1>0, <1>2, <1>10, <1>11 DEF IInv

LEMMA Invariance == Spec => []IInv
<1>1. IInv /\ [Next]_vars => IInv'
  <2>. SUFFICES ASSUME IInv, [Next]_vars PROVE IInv'
    OBVIOUS
  <2>1. CASE UNCHANGED vars
    BY <2>1 DEF vars, IInv, Tracks
  <2>2. CASE Finished
    BY <2>1, <2>2 DEF Finished
  <2>. QED  BY <2>1, <2>2, SetupInv, WriteInv, SaveInv, DestroyInv DEF Next
<1>. QED  BY <1>1, InitInv, PTL DEF Spec
------------------------------------------------------------------------------
(* The theorems.                                                            *)

\* No assert of the writer fails: however samples of the tracks are mixed, whatever
\* memory is short and wherever key frames fall, the clusters partition the table of
\* their track when fmp4_write_traf and the loop of fmp4_write_fragment walk them, and
\* dts does not go back.
THEOREM AssertsHold == Spec => []NoAbort
<1>1. IInv => NoAbort
  BY DEF IInv, Whole, NoAbort
<1>. QED  BY <1>1, Invariance, PTL

\* The memory of a sample is freed when it leaves its table and not before, and no
\* table outgrows what was allocated for it.
THEOREM MemoryIsOwned == Spec => []MemoryOwned
<1>1. ASSUME IInv
      PROVE  MemoryOwned
  <2>1. /\ IsSequence(writer.tracks) /\ writer.heap = Owned(writer.tracks)
        /\ \A t \in 1..Len(writer.tracks) : GoodTrack(writer.tracks[t], clock)
    BY <1>1 DEF IInv, Whole
  <2>2. DOMAIN writer.tracks = 1..Len(writer.tracks)
    BY <2>1, SequenceIs
  <2>3. \A t \in DOMAIN writer.tracks :
          /\ Len(writer.tracks[t].samples) <= writer.tracks[t].sample_offset
          /\ Len(writer.tracks[t].frags) <= writer.tracks[t].frag_capacity
    BY <2>1, <2>2 DEF GoodTrack
  <2>. QED  BY <2>1, <2>3 DEF MemoryOwned, Owned
<1>. QED  BY <1>1, Invariance, PTL
------------------------------------------------------------------------------
(* Recursive functions.                                                     *)

\* What begins at 0 and goes on goes on to the end.
LEMMA UpTo ==
  ASSUME NEW n \in Nat, NEW P, 0 \in P, \A k \in 0..n - 1 : k \in P => k + 1 \in P
  PROVE  \A k \in 0..n : k \in P
<1>. DEFINE bad == {k \in 0..n : k \notin P}
<1>. SUFFICES ASSUME bad # {} PROVE FALSE
  OBVIOUS
<1>1. bad \in SUBSET Nat
  OBVIOUS
<1>2. PICK x \in bad : \A y \in bad : x <= y
  <2>. HIDE DEF bad
  <2>. QED  BY <1>1, LeastElement
<1>3. x \in 0..n /\ x \notin P /\ x # 0
  BY <1>2
<1>4. x - 1 \in 0..n - 1 /\ (x - 1) + 1 = x /\ x - 1 \in 0..n
  BY <1>3
<1>5. x - 1 \notin P
  BY <1>3, <1>4
<1>6. x - 1 \in bad
  BY <1>4, <1>5
<1>7. ~(x <= x - 1)
  BY <1>3
<1>. QED  BY <1>2, <1>6, <1>7

\* A function on the numbers from 0 to n.
IsOn(h, n) == h = [k \in 0..n |-> h[k]]

\* A function on the numbers up to m, with one more value.
Longer(g, m, v) == [k \in 0..m + 1 |-> IF k = m + 1 THEN v ELSE g[k]]

LEMMA OneValueMore ==
  ASSUME NEW m \in Nat, NEW g, NEW v
  PROVE  /\ IsOn(Longer(g, m, v), m + 1) /\ Longer(g, m, v)[m + 1] = v
         /\ \A k \in 0..m : Longer(g, m, v)[k] = g[k]
<1>1. Longer(g, m, v)[m + 1] = v /\ \A k \in 0..m : Longer(g, m, v)[k] = g[k]
  BY DEF Longer
<1>2. IsOn(Longer(g, m, v), m + 1)
  BY DEF IsOn, Longer
<1>. QED  BY <1>1, <1>2

\* What the writer appends when a box begins.
Begun(m, cell) == [m EXCEPT !.b = Put(m.b, <<cell>>)]
Moof(id)   == [box |-> "moof", size |-> 0, mfhd |-> id]
Traf(t, s) == [box |-> "traf", track |-> t, size |-> 0, tfdt |-> s[1].dts]
Mdat       == [box |-> "mdat", size |-> 0]

\* The clusters of all tracks, and how often the interleaving loop turns.
Heads(tracks) == [t \in 1..Len(tracks) |-> Clusters(tracks[t].samples)]
Rounds(heads) == Max({Len(heads[t]) : t \in 1..Len(heads)})

\* The index with the extent of the box of track t.
WithExtent(b, n, t, moof, size) == Patch(b, moof - (n - t + 1), "referenced_size", size)

\* Track t's turn.
InTurn(m, heads, t, r, moof) ==
  IF r <= Len(heads[t]) THEN WriteCluster(m, t, heads[t][r], moof) ELSE m

\* The samples of a cluster are written one after the other.
LEMMA PutDataIs ==
  ASSUME NEW b, NEW s, NEW head, s[head].samples_per_chunk \in Nat
  PROVE  \E g : /\ g[0] = b
                /\ \A k \in 1..s[head].samples_per_chunk : g[k] = Put(g[k - 1], Data(s[head + k - 1]))
                /\ PutData(b, s, head) = g[s[head].samples_per_chunk]
<1>. DEFINE n == s[head].samples_per_chunk
            base == b
            Turn(x, k) == Put(x, Data(s[head + k - 1]))
            Value(g, k) == IF k = 0 THEN base ELSE Turn(g[k - 1], k)
            P == {j \in 0..n : \E g : g = [k \in 0..j |-> Value(g, k)]}
            filled == CHOOSE g : g = [k \in 0..n |-> Value(g, k)]
<1>1. n \in Nat /\ PutData(b, s, head) = filled[n]
  BY DEF PutData
<1>. HIDE DEF n, base, Turn
<1>2. 0 \in P
  <2>. DEFINE g == [k \in 0..0 |-> base]
  <2>1. \A k \in 0..0 : k = 0
    OBVIOUS
  <2>2. g = [k \in 0..0 |-> Value(g, k)]
    BY <2>1
  <2>. HIDE DEF g, Value
  <2>. QED  BY <1>1, <2>2
<1>3. \A j \in 0..n - 1 : j \in P => j + 1 \in P
  <2>. SUFFICES ASSUME NEW j \in 0..n - 1, j \in P PROVE j + 1 \in P
    OBVIOUS
  <2>1. j \in Nat /\ j + 1 \in 0..n
    BY <1>1
  <2>2. PICK g : g = [k \in 0..j |-> Value(g, k)]
    OBVIOUS
  <2>. DEFINE h == Longer(g, j, Turn(g[j], j + 1))
  <2>3. /\ IsOn(h, j + 1) /\ h[j + 1] = Turn(g[j], j + 1)
        /\ \A k \in 0..j : h[k] = g[k]
    <3>. HIDE DEF P, Value
    <3>. QED  BY <2>1, OneValueMore
  <2>. HIDE DEF h
  <2>4. \A k \in 0..j + 1 : h[k] = Value(h, k)
    <3>. SUFFICES ASSUME NEW k \in 0..j + 1 PROVE h[k] = Value(h, k)
      OBVIOUS
    <3>1. CASE k = j + 1
      <4>1. k # 0 /\ k - 1 = j /\ j \in 0..j
        BY <2>1, <3>1
      <4>. HIDE DEF P
      <4>. QED  BY <2>3, <3>1, <4>1
    <3>2. CASE k # j + 1
      <4>1. k \in 0..j /\ (k # 0 => k - 1 \in 0..j)
        BY <2>1, <3>2
      <4>2. g[k] = Value(g, k)
        BY <2>2, <4>1
      <4>. HIDE DEF P
      <4>. QED  BY <2>3, <4>1, <4>2
    <3>. QED  BY <3>1, <3>2
  <2>. HIDE DEF Value
  <2>5. h = [k \in 0..j + 1 |-> Value(h, k)]
    BY <2>3, <2>4 DEF IsOn
  <2>. QED  BY <2>1, <2>5
<1>4. n \in P
  <2>1. \A k \in 0..n : k \in P
    <3>. HIDE DEF P
    <3>. QED  BY <1>1, <1>2, <1>3, UpTo
  <2>. HIDE DEF P
  <2>. QED  BY <1>1, <2>1
<1>5. filled = [k \in 0..n |-> Value(filled, k)]
  <2>1. \E g : g = [k \in 0..n |-> Value(g, k)]
    BY <1>4
  <2>. HIDE DEF Value
  <2>. QED  BY <2>1
<1>. HIDE DEF filled
<1>6. filled[0] = base /\ \A k \in 1..n : filled[k] = Turn(filled[k - 1], k)
  BY <1>1, <1>5
<1>. QED  BY <1>1, <1>6 DEF n, base, Turn

\* A traf, its truns one after the other.
LEMMA WriteTrafIs ==
  ASSUME NEW m, NEW t, NEW s, s = m.tracks[t].samples, s # <<>>, NEW heads, heads = Clusters(s),
         Len(heads) \in Nat
  PROVE  \E g : /\ g[0] = Begun(m, Traf(t, s))
                /\ \A k \in 1..Len(heads) : g[k] = WriteTrun(g[k - 1], t, heads[k])
                /\ WriteTraf(m, t) = Sized(g[Len(heads)], Tell(m.b))
<1>. DEFINE n == Len(heads)
            base == Begun(m, Traf(t, s))
            Turn(x, k) == WriteTrun(x, t, heads[k])
            Value(g, k) == IF k = 0 THEN base ELSE Turn(g[k - 1], k)
            P == {j \in 0..n : \E g : g = [k \in 0..j |-> Value(g, k)]}
            filled == CHOOSE g : g = [k \in 0..n |-> Value(g, k)]
<1>1. n \in Nat /\ WriteTraf(m, t) = Sized(filled[n], Tell(m.b))
  BY DEF WriteTraf, Begun, Traf
<1>. HIDE DEF n, base, Turn
<1>2. 0 \in P
  <2>. DEFINE g == [k \in 0..0 |-> base]
  <2>1. \A k \in 0..0 : k = 0
    OBVIOUS
  <2>2. g = [k \in 0..0 |-> Value(g, k)]
    BY <2>1
  <2>. HIDE DEF g, Value
  <2>. QED  BY <1>1, <2>2
<1>3. \A j \in 0..n - 1 : j \in P => j + 1 \in P
  <2>. SUFFICES ASSUME NEW j \in 0..n - 1, j \in P PROVE j + 1 \in P
    OBVIOUS
  <2>1. j \in Nat /\ j + 1 \in 0..n
    BY <1>1
  <2>2. PICK g : g = [k \in 0..j |-> Value(g, k)]
    OBVIOUS
  <2>. DEFINE h == Longer(g, j, Turn(g[j], j + 1))
  <2>3. /\ IsOn(h, j + 1) /\ h[j + 1] = Turn(g[j], j + 1)
        /\ \A k \in 0..j : h[k] = g[k]
    <3>. HIDE DEF P, Value
    <3>. QED  BY <2>1, OneValueMore
  <2>. HIDE DEF h
  <2>4. \A k \in 0..j + 1 : h[k] = Value(h, k)
    <3>. SUFFICES ASSUME NEW k \in 0..j + 1 PROVE h[k] = Value(h, k)
      OBVIOUS
    <3>1. CASE k = j + 1
      <4>1. k # 0 /\ k - 1 = j /\ j \in 0..j
        BY <2>1, <3>1
      <4>. HIDE DEF P
      <4>. QED  BY <2>3, <3>1, <4>1
    <3>2. CASE k # j + 1
      <4>1. k \in 0..j /\ (k # 0 => k - 1 \in 0..j)
        BY <2>1, <3>2
      <4>2. g[k] = Value(g, k)
        BY <2>2, <4>1
      <4>. HIDE DEF P
      <4>. QED  BY <2>3, <4>1, <4>2
    <3>. QED  BY <3>1, <3>2
  <2>. HIDE DEF Value
  <2>5. h = [k \in 0..j + 1 |-> Value(h, k)]
    BY <2>3, <2>4 DEF IsOn
  <2>. QED  BY <2>1, <2>5
<1>4. n \in P
  <2>1. \A k \in 0..n : k \in P
    <3>. HIDE DEF P
    <3>. QED  BY <1>1, <1>2, <1>3, UpTo
  <2>. HIDE DEF P
  <2>. QED  BY <1>1, <2>1
<1>5. filled = [k \in 0..n |-> Value(filled, k)]
  <2>1. \E g : g = [k \in 0..n |-> Value(g, k)]
    BY <1>4
  <2>. HIDE DEF Value
  <2>. QED  BY <2>1
<1>. HIDE DEF filled
<1>6. filled[0] = base /\ \A k \in 1..n : filled[k] = Turn(filled[k - 1], k)
  BY <1>1, <1>5
<1>. QED  BY <1>1, <1>6 DEF n, base, Turn

\* A moof, a traf for each track.
LEMMA WriteMoofIs ==
  ASSUME NEW m, NEW id, Len(m.tracks) \in Nat
  PROVE  \E g : /\ g[0] = Begun(m, Moof(id))
                /\ \A t \in 1..Len(m.tracks) : g[t] = WriteTraf(g[t - 1], t)
                /\ WriteMoof(m, id) = Sized(g[Len(m.tracks)], Tell(m.b))
<1>. DEFINE n == Len(m.tracks)
            base == Begun(m, Moof(id))
            Turn(x, t) == WriteTraf(x, t)
            Value(g, t) == IF t = 0 THEN base ELSE Turn(g[t - 1], t)
            P == {j \in 0..n : \E g : g = [t \in 0..j |-> Value(g, t)]}
            filled == CHOOSE g : g = [t \in 0..n |-> Value(g, t)]
<1>1. n \in Nat /\ WriteMoof(m, id) = Sized(filled[n], Tell(m.b))
  BY DEF WriteMoof, Begun, Moof
<1>. HIDE DEF n, base, Turn
<1>2. 0 \in P
  <2>. DEFINE g == [t \in 0..0 |-> base]
  <2>1. \A t \in 0..0 : t = 0
    OBVIOUS
  <2>2. g = [t \in 0..0 |-> Value(g, t)]
    BY <2>1
  <2>. HIDE DEF g, Value
  <2>. QED  BY <1>1, <2>2
<1>3. \A j \in 0..n - 1 : j \in P => j + 1 \in P
  <2>. SUFFICES ASSUME NEW j \in 0..n - 1, j \in P PROVE j + 1 \in P
    OBVIOUS
  <2>1. j \in Nat /\ j + 1 \in 0..n
    BY <1>1
  <2>2. PICK g : g = [t \in 0..j |-> Value(g, t)]
    OBVIOUS
  <2>. DEFINE h == Longer(g, j, Turn(g[j], j + 1))
  <2>3. /\ IsOn(h, j + 1) /\ h[j + 1] = Turn(g[j], j + 1)
        /\ \A t \in 0..j : h[t] = g[t]
    <3>. HIDE DEF P, Value
    <3>. QED  BY <2>1, OneValueMore
  <2>. HIDE DEF h
  <2>4. \A t \in 0..j + 1 : h[t] = Value(h, t)
    <3>. SUFFICES ASSUME NEW t \in 0..j + 1 PROVE h[t] = Value(h, t)
      OBVIOUS
    <3>1. CASE t = j + 1
      <4>1. t # 0 /\ t - 1 = j /\ j \in 0..j
        BY <2>1, <3>1
      <4>. HIDE DEF P
      <4>. QED  BY <2>3, <3>1, <4>1
    <3>2. CASE t # j + 1
      <4>1. t \in 0..j /\ (t # 0 => t - 1 \in 0..j)
        BY <2>1, <3>2
      <4>2. g[t] = Value(g, t)
        BY <2>2, <4>1
      <4>. HIDE DEF P
      <4>. QED  BY <2>3, <4>1, <4>2
    <3>. QED  BY <3>1, <3>2
  <2>. HIDE DEF Value
  <2>5. h = [t \in 0..j + 1 |-> Value(h, t)]
    BY <2>3, <2>4 DEF IsOn
  <2>. QED  BY <2>1, <2>5
<1>4. n \in P
  <2>1. \A t \in 0..n : t \in P
    <3>. HIDE DEF P
    <3>. QED  BY <1>1, <1>2, <1>3, UpTo
  <2>. HIDE DEF P
  <2>. QED  BY <1>1, <2>1
<1>5. filled = [t \in 0..n |-> Value(filled, t)]
  <2>1. \E g : g = [t \in 0..n |-> Value(g, t)]
    BY <1>4
  <2>. HIDE DEF Value
  <2>. QED  BY <2>1
<1>. HIDE DEF filled
<1>6. filled[0] = base /\ \A t \in 1..n : filled[t] = Turn(filled[t - 1], t)
  BY <1>1, <1>5
<1>. QED  BY <1>1, <1>6 DEF n, base, Turn

\* A turn of the loop, cluster by cluster.
LEMMA WriteRoundIs ==
  ASSUME NEW m, NEW heads, Len(heads) \in Nat, NEW r, NEW moof
  PROVE  \E g : /\ g[0] = m
                /\ \A t \in 1..Len(heads) : g[t] = InTurn(g[t - 1], heads, t, r, moof)
                /\ WriteRound(m, heads, r, moof) = g[Len(heads)]
<1>. DEFINE n == Len(heads)
            base == m
            Turn(x, t) == InTurn(x, heads, t, r, moof)
            Value(g, t) == IF t = 0 THEN base ELSE Turn(g[t - 1], t)
            P == {j \in 0..n : \E g : g = [t \in 0..j |-> Value(g, t)]}
            filled == CHOOSE g : g = [t \in 0..n |-> Value(g, t)]
<1>1. n \in Nat /\ WriteRound(m, heads, r, moof) = filled[n]
  BY DEF WriteRound, InTurn
<1>. HIDE DEF n, base, Turn
<1>2. 0 \in P
  <2>. DEFINE g == [t \in 0..0 |-> base]
  <2>1. \A t \in 0..0 : t = 0
    OBVIOUS
  <2>2. g = [t \in 0..0 |-> Value(g, t)]
    BY <2>1
  <2>. HIDE DEF g, Value
  <2>. QED  BY <1>1, <2>2
<1>3. \A j \in 0..n - 1 : j \in P => j + 1 \in P
  <2>. SUFFICES ASSUME NEW j \in 0..n - 1, j \in P PROVE j + 1 \in P
    OBVIOUS
  <2>1. j \in Nat /\ j + 1 \in 0..n
    BY <1>1
  <2>2. PICK g : g = [t \in 0..j |-> Value(g, t)]
    OBVIOUS
  <2>. DEFINE h == Longer(g, j, Turn(g[j], j + 1))
  <2>3. /\ IsOn(h, j + 1) /\ h[j + 1] = Turn(g[j], j + 1)
        /\ \A t \in 0..j : h[t] = g[t]
    <3>. HIDE DEF P, Value
    <3>. QED  BY <2>1, OneValueMore
  <2>. HIDE DEF h
  <2>4. \A t \in 0..j + 1 : h[t] = Value(h, t)
    <3>. SUFFICES ASSUME NEW t \in 0..j + 1 PROVE h[t] = Value(h, t)
      OBVIOUS
    <3>1. CASE t = j + 1
      <4>1. t # 0 /\ t - 1 = j /\ j \in 0..j
        BY <2>1, <3>1
      <4>. HIDE DEF P
      <4>. QED  BY <2>3, <3>1, <4>1
    <3>2. CASE t # j + 1
      <4>1. t \in 0..j /\ (t # 0 => t - 1 \in 0..j)
        BY <2>1, <3>2
      <4>2. g[t] = Value(g, t)
        BY <2>2, <4>1
      <4>. HIDE DEF P
      <4>. QED  BY <2>3, <4>1, <4>2
    <3>. QED  BY <3>1, <3>2
  <2>. HIDE DEF Value
  <2>5. h = [t \in 0..j + 1 |-> Value(h, t)]
    BY <2>3, <2>4 DEF IsOn
  <2>. QED  BY <2>1, <2>5
<1>4. n \in P
  <2>1. \A t \in 0..n : t \in P
    <3>. HIDE DEF P
    <3>. QED  BY <1>1, <1>2, <1>3, UpTo
  <2>. HIDE DEF P
  <2>. QED  BY <1>1, <2>1
<1>5. filled = [t \in 0..n |-> Value(filled, t)]
  <2>1. \E g : g = [t \in 0..n |-> Value(g, t)]
    BY <1>4
  <2>. HIDE DEF Value
  <2>. QED  BY <2>1
<1>. HIDE DEF filled
<1>6. filled[0] = base /\ \A t \in 1..n : filled[t] = Turn(filled[t - 1], t)
  BY <1>1, <1>5
<1>. QED  BY <1>1, <1>6 DEF n, base, Turn

\* The mdat, turn by turn.
LEMMA WriteMdatIs ==
  ASSUME NEW m, NEW moof, Rounds(Heads(m.tracks)) \in Nat
  PROVE  \E g : /\ g[0] = Begun(m, Mdat)
                /\ \A r \in 1..Rounds(Heads(m.tracks)) : g[r] = WriteRound(g[r - 1], Heads(m.tracks), r, moof)
                /\ WriteMdat(m, moof) = Sized(g[Rounds(Heads(m.tracks))], Tell(m.b))
<1>. DEFINE n == Rounds(Heads(m.tracks))
            base == Begun(m, Mdat)
            Turn(x, r) == WriteRound(x, Heads(m.tracks), r, moof)
            Value(g, r) == IF r = 0 THEN base ELSE Turn(g[r - 1], r)
            P == {j \in 0..n : \E g : g = [r \in 0..j |-> Value(g, r)]}
            filled == CHOOSE g : g = [r \in 0..n |-> Value(g, r)]
<1>1. n \in Nat /\ WriteMdat(m, moof) = Sized(filled[n], Tell(m.b))
  BY DEF WriteMdat, Begun, Mdat, Heads, Rounds
<1>. HIDE DEF n, base, Turn
<1>2. 0 \in P
  <2>. DEFINE g == [r \in 0..0 |-> base]
  <2>1. \A r \in 0..0 : r = 0
    OBVIOUS
  <2>2. g = [r \in 0..0 |-> Value(g, r)]
    BY <2>1
  <2>. HIDE DEF g, Value
  <2>. QED  BY <1>1, <2>2
<1>3. \A j \in 0..n - 1 : j \in P => j + 1 \in P
  <2>. SUFFICES ASSUME NEW j \in 0..n - 1, j \in P PROVE j + 1 \in P
    OBVIOUS
  <2>1. j \in Nat /\ j + 1 \in 0..n
    BY <1>1
  <2>2. PICK g : g = [r \in 0..j |-> Value(g, r)]
    OBVIOUS
  <2>. DEFINE h == Longer(g, j, Turn(g[j], j + 1))
  <2>3. /\ IsOn(h, j + 1) /\ h[j + 1] = Turn(g[j], j + 1)
        /\ \A r \in 0..j : h[r] = g[r]
    <3>. HIDE DEF P, Value
    <3>. QED  BY <2>1, OneValueMore
  <2>. HIDE DEF h
  <2>4. \A r \in 0..j + 1 : h[r] = Value(h, r)
    <3>. SUFFICES ASSUME NEW r \in 0..j + 1 PROVE h[r] = Value(h, r)
      OBVIOUS
    <3>1. CASE r = j + 1
      <4>1. r # 0 /\ r - 1 = j /\ j \in 0..j
        BY <2>1, <3>1
      <4>. HIDE DEF P
      <4>. QED  BY <2>3, <3>1, <4>1
    <3>2. CASE r # j + 1
      <4>1. r \in 0..j /\ (r # 0 => r - 1 \in 0..j)
        BY <2>1, <3>2
      <4>2. g[r] = Value(g, r)
        BY <2>2, <4>1
      <4>. HIDE DEF P
      <4>. QED  BY <2>3, <4>1, <4>2
    <3>. QED  BY <3>1, <3>2
  <2>. HIDE DEF Value
  <2>5. h = [r \in 0..j + 1 |-> Value(h, r)]
    BY <2>3, <2>4 DEF IsOn
  <2>. QED  BY <2>1, <2>5
<1>4. n \in P
  <2>1. \A r \in 0..n : r \in P
    <3>. HIDE DEF P
    <3>. QED  BY <1>1, <1>2, <1>3, UpTo
  <2>. HIDE DEF P
  <2>. QED  BY <1>1, <2>1
<1>5. filled = [r \in 0..n |-> Value(filled, r)]
  <2>1. \E g : g = [r \in 0..n |-> Value(g, r)]
    BY <1>4
  <2>. HIDE DEF Value
  <2>. QED  BY <2>1
<1>. HIDE DEF filled
<1>6. filled[0] = base /\ \A r \in 1..n : filled[r] = Turn(filled[r - 1], r)
  BY <1>1, <1>5
<1>. QED  BY <1>1, <1>6 DEF n, base, Turn

\* The index, box by box.
LEMMA SizeIndexIs ==
  ASSUME NEW b, NEW n \in Nat, NEW moof, NEW size
  PROVE  \E g : /\ g[0] = b
                /\ \A t \in 1..n : g[t] = WithExtent(g[t - 1], n, t, moof, size)
                /\ SizeIndex(b, n, moof, size) = g[n]
<1>. DEFINE base == b
            Turn(x, t) == WithExtent(x, n, t, moof, size)
            Value(g, t) == IF t = 0 THEN base ELSE Turn(g[t - 1], t)
            P == {j \in 0..n : \E g : g = [t \in 0..j |-> Value(g, t)]}
            filled == CHOOSE g : g = [t \in 0..n |-> Value(g, t)]
<1>1. n \in Nat /\ SizeIndex(b, n, moof, size) = filled[n]
  BY DEF SizeIndex, WithExtent
<1>. HIDE DEF base, Turn
<1>2. 0 \in P
  <2>. DEFINE g == [t \in 0..0 |-> base]
  <2>1. \A t \in 0..0 : t = 0
    OBVIOUS
  <2>2. g = [t \in 0..0 |-> Value(g, t)]
    BY <2>1
  <2>. HIDE DEF g, Value
  <2>. QED  BY <1>1, <2>2
<1>3. \A j \in 0..n - 1 : j \in P => j + 1 \in P
  <2>. SUFFICES ASSUME NEW j \in 0..n - 1, j \in P PROVE j + 1 \in P
    OBVIOUS
  <2>1. j \in Nat /\ j + 1 \in 0..n
    BY <1>1
  <2>2. PICK g : g = [t \in 0..j |-> Value(g, t)]
    OBVIOUS
  <2>. DEFINE h == Longer(g, j, Turn(g[j], j + 1))
  <2>3. /\ IsOn(h, j + 1) /\ h[j + 1] = Turn(g[j], j + 1)
        /\ \A t \in 0..j : h[t] = g[t]
    <3>. HIDE DEF P, Value
    <3>. QED  BY <2>1, OneValueMore
  <2>. HIDE DEF h
  <2>4. \A t \in 0..j + 1 : h[t] = Value(h, t)
    <3>. SUFFICES ASSUME NEW t \in 0..j + 1 PROVE h[t] = Value(h, t)
      OBVIOUS
    <3>1. CASE t = j + 1
      <4>1. t # 0 /\ t - 1 = j /\ j \in 0..j
        BY <2>1, <3>1
      <4>. HIDE DEF P
      <4>. QED  BY <2>3, <3>1, <4>1
    <3>2. CASE t # j + 1
      <4>1. t \in 0..j /\ (t # 0 => t - 1 \in 0..j)
        BY <2>1, <3>2
      <4>2. g[t] = Value(g, t)
        BY <2>2, <4>1
      <4>. HIDE DEF P
      <4>. QED  BY <2>3, <4>1, <4>2
    <3>. QED  BY <3>1, <3>2
  <2>. HIDE DEF Value
  <2>5. h = [t \in 0..j + 1 |-> Value(h, t)]
    BY <2>3, <2>4 DEF IsOn
  <2>. QED  BY <2>1, <2>5
<1>4. n \in P
  <2>1. \A t \in 0..n : t \in P
    <3>. HIDE DEF P
    <3>. QED  BY <1>1, <1>2, <1>3, UpTo
  <2>. HIDE DEF P
  <2>. QED  BY <1>1, <2>1
<1>5. filled = [t \in 0..n |-> Value(filled, t)]
  <2>1. \E g : g = [t \in 0..n |-> Value(g, t)]
    BY <1>4
  <2>. HIDE DEF Value
  <2>. QED  BY <2>1
<1>. HIDE DEF filled
<1>6. filled[0] = base /\ \A t \in 1..n : filled[t] = Turn(filled[t - 1], t)
  BY <1>1, <1>5
<1>. QED  BY <1>1, <1>6 DEF base, Turn

------------------------------------------------------------------------------
(* What a buffer holds already stays as it is, but for what is patched in.  *)

IsBuffer(b) == /\ DOMAIN b = {"cells", "error", "limit"}
               /\ b.error \in BOOLEAN /\ IsSequence(b.cells)

\* The same cell, but for an offset into the data or the extent of an index.
Alike(x, y) == /\ DOMAIN x = DOMAIN y
               /\ \A f \in DOMAIN x \ {"data_offset", "referenced_size"} : y[f] = x[f]

\* Buffer c is b with more boxes of these kinds, unless a write has failed.
Onto(b, c, kinds) ==
  /\ IsBuffer(b) /\ IsBuffer(c)
  /\ ~c.error =>
       /\ ~b.error /\ Len(b.cells) <= Len(c.cells)
       /\ \A i \in 1..Len(b.cells) : Alike(b.cells[i], c.cells[i])
       /\ \A i \in Len(b.cells) + 1..Len(c.cells) :
            "box" \in DOMAIN c.cells[i] /\ c.cells[i].box \in kinds

LEMMA OntoItself ==
  ASSUME NEW b, IsBuffer(b), NEW kinds
  PROVE  Onto(b, b, kinds)
<1>1. Len(b.cells) \in Nat
  BY SequenceIs DEF IsBuffer
<1>2. \A i \in 1..Len(b.cells) : Alike(b.cells[i], b.cells[i])
  BY DEF Alike
<1>3. Len(b.cells) + 1..Len(b.cells) = {}
  BY <1>1
<1>. QED  BY <1>1, <1>2, <1>3 DEF Onto

\* Two sequences, one behind the other.
LEMMA Joint ==
  ASSUME NEW p, IsSequence(p), NEW q, IsSequence(q)
  PROVE  /\ IsSequence(p \o q) /\ Len(p \o q) = Len(p) + Len(q)
         /\ \A i \in 1..Len(p) : (p \o q)[i] = p[i]
         /\ \A i \in 1..Len(q) : (p \o q)[Len(p) + i] = q[i]
<1>1. PICK S, T : p \in Seq(S) /\ q \in Seq(T)
  BY DEF IsSequence
<1>. DEFINE U == S \cup T
            d == p \o q
<1>2. p \in Seq(U) /\ q \in Seq(U) /\ Len(p) \in Nat /\ Len(q) \in Nat
  BY <1>1
<1>. HIDE DEF U
<1>3. /\ d \in Seq(U) /\ Len(d) = Len(p) + Len(q)
      /\ \A i \in 1..Len(p) + Len(q) : d[i] = IF i <= Len(p) THEN p[i] ELSE q[i - Len(p)]
  BY <1>2, ConcatProperties
<1>. HIDE DEF d
<1>4. \A i \in 1..Len(p) : d[i] = p[i]
  BY <1>2, <1>3
<1>5. ASSUME NEW i \in 1..Len(q)
      PROVE  d[Len(p) + i] = q[i]
  <2>. DEFINE k == Len(p) + i
  <2>1. k \in 1..Len(p) + Len(q) /\ ~(k <= Len(p)) /\ k - Len(p) = i
    BY <1>2
  <2>. HIDE DEF k
  <2>2. d[k] = q[k - Len(p)]
    BY <1>3, <2>1
  <2>. QED  BY <2>1, <2>2 DEF k
<1>. QED  BY <1>3, <1>4, <1>5 DEF d, IsSequence

\* A write that succeeds puts the cells behind the ones there are.
LEMMA PutDoes ==
  ASSUME NEW b, IsBuffer(b), NEW new, IsSequence(new)
  PROVE  LET c == Put(b, new)
         IN /\ IsBuffer(c)
            /\ ~c.error => ~b.error /\ c.cells = b.cells \o new
<1>. DEFINE c == Put(b, new)
<1>1. \/ b.error /\ c = b
      \/ ~b.error /\ c = [b EXCEPT !.error = TRUE]
      \/ ~b.error /\ c = [b EXCEPT !.cells = b.cells \o new]
  BY DEF Put
<1>. HIDE DEF c
<1>2. IsSequence(b.cells \o new)
  BY Joint DEF IsBuffer
<1>3. CASE b.error /\ c = b
  BY <1>3 DEF c
<1>4. CASE ~b.error /\ c = [b EXCEPT !.error = TRUE]
  <2>1. DOMAIN c = {"cells", "error", "limit"} /\ c.error = TRUE /\ c.cells = b.cells
    BY <1>4 DEF IsBuffer
  <2>. QED  BY <2>1 DEF IsBuffer, c
<1>5. CASE ~b.error /\ c = [b EXCEPT !.cells = b.cells \o new]
  <2>1. /\ DOMAIN c = {"cells", "error", "limit"} /\ c.error = b.error
        /\ c.cells = b.cells \o new
    BY <1>5 DEF IsBuffer
  <2>. QED  BY <1>2, <1>5, <2>1 DEF IsBuffer, c
<1>. QED  BY <1>1, <1>3, <1>4, <1>5

\* A patch changes one field of one cell.
LEMMA PatchDoes ==
  ASSUME NEW b, IsBuffer(b), NEW at, NEW field, NEW value
  PROVE  LET c == Patch(b, at, field, value)
         IN /\ IsBuffer(c)
            /\ ~c.error =>
                 /\ ~b.error /\ Len(c.cells) = Len(b.cells)
                 /\ \A i \in 1..Len(b.cells) \ {at} : c.cells[i] = b.cells[i]
                 /\ at \in 1..Len(b.cells) =>
                      /\ DOMAIN c.cells[at] = DOMAIN b.cells[at]
                      /\ \A f \in DOMAIN b.cells[at] \ {field} : c.cells[at][f] = b.cells[at][f]
                      /\ field \in DOMAIN b.cells[at] => c.cells[at][field] = value
<1>. DEFINE c == Patch(b, at, field, value)
            n == Len(b.cells)
            x == [b.cells[at] EXCEPT ![field] = value]
            q == [b.cells EXCEPT ![at] = x]
            full == n >= maxsize
<1>1. /\ DOMAIN b = {"cells", "error", "limit"} /\ b.error \in BOOLEAN
      /\ IsSequence(b.cells) /\ n \in Nat /\ b.cells = [i \in 1..n |-> b.cells[i]]
  BY SequenceIs DEF IsBuffer
<1>2. CASE b.error
  <2>1. c = b
    BY <1>2 DEF Patch
  <2>. QED  BY <1>2, <2>1
<1>3. CASE ~b.error
  <2>1. c = [b EXCEPT !.cells = q, !.error = full]
    BY <1>3 DEF Patch
  <2>2. full \in BOOLEAN
    OBVIOUS
  <2>3. /\ DOMAIN x = DOMAIN b.cells[at]
        /\ \A f \in DOMAIN b.cells[at] \ {field} : x[f] = b.cells[at][f]
        /\ field \in DOMAIN b.cells[at] => x[field] = value
    OBVIOUS
  <2>. HIDE DEF x, c, full
  <2>4. /\ q = [i \in 1..n |-> q[i]] /\ \A i \in 1..n \ {at} : q[i] = b.cells[i]
        /\ at \in 1..n => q[at] = x
    BY <1>1
  <2>. HIDE DEF q
  <2>5. IsSequence(q) /\ Len(q) = n
    <3>. HIDE DEF n
    <3>. QED  BY <1>1, <2>4, OnIndices
  <2>6. DOMAIN c = {"cells", "error", "limit"} /\ c.error = full /\ c.cells = q
    BY <1>1, <2>1
  <2>7. IsBuffer(c)
    BY <2>2, <2>5, <2>6 DEF IsBuffer
  <2>. QED  BY <1>3, <2>3, <2>4, <2>5, <2>6, <2>7 DEF c, n
<1>. QED  BY <1>1, <1>2, <1>3

LEMMA OntoPut ==
  ASSUME NEW b, NEW c, NEW kinds, Onto(b, c, kinds), NEW new, IsSequence(new),
         \A i \in 1..Len(new) : "box" \in DOMAIN new[i] /\ new[i].box \in kinds
  PROVE  Onto(b, Put(c, new), kinds)
<1>. DEFINE d == Put(c, new)
            n == Len(b.cells)
            m == Len(c.cells)
            k == Len(new)
<1>1. IsBuffer(d) /\ (~d.error => ~c.error /\ d.cells = c.cells \o new)
  BY PutDoes DEF Onto
<1>. HIDE DEF d
<1>2. SUFFICES ASSUME ~d.error PROVE Onto(b, d, kinds)
  BY <1>1 DEF d, Onto
<1>3. /\ n \in Nat /\ m \in Nat /\ k \in Nat /\ IsSequence(c.cells)
      /\ n <= m /\ ~b.error /\ d.cells = c.cells \o new
      /\ \A i \in 1..n : Alike(b.cells[i], c.cells[i])
      /\ \A i \in n + 1..m : "box" \in DOMAIN c.cells[i] /\ c.cells[i].box \in kinds
  BY <1>1, <1>2, SequenceIs DEF Onto, IsBuffer
<1>4. /\ Len(d.cells) = m + k
      /\ \A i \in 1..m : d.cells[i] = c.cells[i]
      /\ \A i \in 1..k : d.cells[m + i] = new[i]
  BY <1>3, Joint
<1>. HIDE DEF n, m, k
<1>5. \A i \in 1..n : Alike(b.cells[i], d.cells[i])
  BY <1>3, <1>4
<1>6. ASSUME NEW i \in n + 1..m + k
      PROVE  "box" \in DOMAIN d.cells[i] /\ d.cells[i].box \in kinds
  <2>1. CASE i <= m
    <3>1. i \in n + 1..m /\ i \in 1..m
      BY <1>3, <2>1
    <3>. QED  BY <1>3, <1>4, <3>1
  <2>2. CASE ~(i <= m)
    <3>. DEFINE j == i - m
    <3>1. j \in 1..k /\ i = m + j
      BY <1>3, <2>2
    <3>. HIDE DEF j
    <3>. QED  BY <1>4, <3>1 DEF k
  <2>. QED  BY <2>1, <2>2
<1>. QED  BY <1>1, <1>3, <1>4, <1>5, <1>6 DEF Onto, n, m

\* A patch of an offset or an extent, or of something that is new.
LEMMA OntoPatch ==
  ASSUME NEW b, NEW c, NEW kinds, Onto(b, c, kinds), NEW at, NEW field, field # "box",
         field \in {"data_offset", "referenced_size"} \/ at \notin 1..Len(b.cells), NEW value
  PROVE  Onto(b, Patch(c, at, field, value), kinds)
<1>. DEFINE d == Patch(c, at, field, value)
            n == Len(b.cells)
            m == Len(c.cells)
<1>1. /\ IsBuffer(d)
      /\ ~d.error =>
           /\ ~c.error /\ Len(d.cells) = m
           /\ \A i \in 1..m \ {at} : d.cells[i] = c.cells[i]
           /\ at \in 1..m =>
                /\ DOMAIN d.cells[at] = DOMAIN c.cells[at]
                /\ \A f \in DOMAIN c.cells[at] \ {field} : d.cells[at][f] = c.cells[at][f]
  BY PatchDoes DEF Onto
<1>. HIDE DEF d
<1>2. SUFFICES ASSUME ~d.error PROVE Onto(b, d, kinds)
  BY <1>1 DEF d, Onto
<1>3. /\ n \in Nat /\ m \in Nat /\ n <= m /\ ~b.error
      /\ \A i \in 1..n : Alike(b.cells[i], c.cells[i])
      /\ \A i \in n + 1..m : "box" \in DOMAIN c.cells[i] /\ c.cells[i].box \in kinds
  BY <1>1, <1>2, SequenceIs DEF Onto, IsBuffer
<1>4. field \in {"data_offset", "referenced_size"} \/ at \notin 1..n
  OBVIOUS
<1>. HIDE DEF n, m
<1>5. ASSUME NEW i \in 1..n
      PROVE  Alike(b.cells[i], d.cells[i])
  <2>1. i \in 1..m
    BY <1>3
  <2>2. CASE i # at
    BY <1>1, <1>2, <1>3, <2>1, <2>2
  <2>3. CASE i = at
    BY <1>1, <1>2, <1>3, <1>4, <2>1, <2>3 DEF Alike
  <2>. QED  BY <2>2, <2>3
<1>6. ASSUME NEW i \in n + 1..m
      PROVE  "box" \in DOMAIN d.cells[i] /\ d.cells[i].box \in kinds
  <2>1. i \in 1..m
    BY <1>3
  <2>. QED  BY <1>1, <1>2, <1>3, <2>1
<1>. QED  BY <1>1, <1>2, <1>3, <1>5, <1>6 DEF Onto, n, m

LEMMA OntoTrans ==
  ASSUME NEW b, NEW c, NEW d, NEW kinds, Onto(b, c, kinds), Onto(c, d, kinds)
  PROVE  Onto(b, d, kinds)
<1>1. SUFFICES ASSUME ~d.error PROVE Onto(b, d, kinds)
  BY DEF Onto
<1>. DEFINE n == Len(b.cells)
            m == Len(c.cells)
            k == Len(d.cells)
<1>2. /\ n \in Nat /\ m \in Nat /\ k \in Nat /\ n <= m /\ m <= k /\ ~b.error
      /\ \A i \in 1..n : Alike(b.cells[i], c.cells[i])
      /\ \A i \in 1..m : Alike(c.cells[i], d.cells[i])
      /\ \A i \in n + 1..m : "box" \in DOMAIN c.cells[i] /\ c.cells[i].box \in kinds
      /\ \A i \in m + 1..k : "box" \in DOMAIN d.cells[i] /\ d.cells[i].box \in kinds
  BY <1>1, SequenceIs DEF Onto, IsBuffer
<1>. HIDE DEF n, m, k
<1>3. \A i \in 1..n : Alike(b.cells[i], d.cells[i])
  <2>. SUFFICES ASSUME NEW i \in 1..n PROVE Alike(b.cells[i], d.cells[i])
    OBVIOUS
  <2>1. i \in 1..m
    BY <1>2
  <2>2. Alike(b.cells[i], c.cells[i]) /\ Alike(c.cells[i], d.cells[i])
    BY <1>2, <2>1
  <2>. QED  BY <2>2 DEF Alike
<1>4. ASSUME NEW i \in n + 1..k
      PROVE  "box" \in DOMAIN d.cells[i] /\ d.cells[i].box \in kinds
  <2>1. CASE i <= m
    <3>1. i \in n + 1..m /\ i \in 1..m
      BY <1>2, <2>1
    <3>2. Alike(c.cells[i], d.cells[i]) /\ "box" \in DOMAIN c.cells[i]
          /\ c.cells[i].box \in kinds
      BY <1>2, <3>1
    <3>. QED  BY <3>2 DEF Alike
  <2>2. CASE ~(i <= m)
    <3>1. i \in m + 1..k
      BY <1>2, <2>2
    <3>. QED  BY <1>2, <3>1
  <2>. QED  BY <2>1, <2>2
<1>. QED  BY <1>1, <1>2, <1>3, <1>4 DEF Onto, n, m, k

\* Boxes of fewer kinds.
LEMMA OntoMore ==
  ASSUME NEW b, NEW c, NEW some, NEW kinds, Onto(b, c, some), some \subseteq kinds
  PROVE  Onto(b, c, kinds)
BY DEF Onto

\* Step by step.
LEMMA OntoAll ==
  ASSUME NEW kinds, NEW n \in Nat, NEW g, IsBuffer(g[0]),
         \A k \in 1..n : IsBuffer(g[k - 1]) => Onto(g[k - 1], g[k], kinds)
  PROVE  \A k \in 0..n : Onto(g[0], g[k], kinds)
<1>. DEFINE P == {k \in 0..n : Onto(g[0], g[k], kinds)}
<1>1. 0 \in P
  BY OntoItself
<1>2. \A k \in 0..n - 1 : k \in P => k + 1 \in P
  <2>. SUFFICES ASSUME NEW k \in 0..n - 1, k \in P PROVE k + 1 \in P
    OBVIOUS
  <2>1. k + 1 \in 1..n /\ (k + 1) - 1 = k /\ k + 1 \in 0..n
    OBVIOUS
  <2>2. Onto(g[0], g[k], kinds) /\ IsBuffer(g[k])
    BY DEF Onto
  <2>3. Onto(g[k], g[k + 1], kinds)
    BY <2>1, <2>2
  <2>. HIDE DEF P
  <2>4. Onto(g[0], g[k + 1], kinds)
    BY <2>2, <2>3, OntoTrans
  <2>. QED  BY <2>1, <2>4 DEF P
<1>3. \A k \in 0..n : k \in P
  <2>. HIDE DEF P
  <2>. QED  BY <1>1, <1>2, UpTo
<1>. QED  BY <1>3

------------------------------------------------------------------------------
(* The tracks while a fragment is written.                                  *)

\* Samples whose clusters partition them.
Cut(s) == s \in Seq(Sample) /\ \E H : Closed(s, Len(s), H)

\* Samples s; where the truns of their clusters stand may be noted in r.
Marked(s, r) ==
  /\ r \in Seq(Sample) /\ Len(r) = Len(s)
  /\ \A i \in 1..Len(s) : /\ r[i].samples_per_chunk = s[i].samples_per_chunk
                          /\ r[i].bytes = s[i].bytes /\ r[i].dts = s[i].dts
                          /\ r[i].first_chunk = s[i].first_chunk

\* The clusters of partitioned samples are made of samples of the table.
LEMMA HeadsOfCut ==
  ASSUME NEW s, Cut(s)
  PROVE  LET c == Clusters(s)
         IN /\ Len(c) \in Nat
            /\ \A k \in 1..Len(c) :
                 /\ c[k] \in 1..Len(s) /\ s[c[k]].samples_per_chunk \in Nat
                 /\ c[k] + s[c[k]].samples_per_chunk <= Len(s) + 1
<1>1. s \in Seq(Sample) /\ Len(s) \in Nat
  BY DEF Cut
<1>2. CASE s = <<>>
  <2>1. Clusters(s) = <<>>
    BY <1>2 DEF Clusters
  <2>2. Len(Clusters(s)) = 0
    BY <2>1
  <2>. QED  BY <2>2
<1>3. CASE s # <<>>
  <2>1. PICK H : Closed(s, Len(s), H)
    BY DEF Cut
  <2>2. PICK q : Walks(s, 1, q) /\ Clusters(s) = q[1]
    BY <1>1, <1>3, ClustersAre
  <2>3. 1 \in H
    BY <1>1, <1>3, <2>1 DEF Closed
  <2>4. Reaches(s, 1, Clusters(s))
    BY <1>1, <2>1, <2>2, <2>3, WalkReaches
  <2>. DEFINE c == Clusters(s)
  <2>. HIDE DEF c
  <2>5. /\ c \in Seq(1..Len(s))
        /\ \A k \in 1..Len(c) : c[k] + s[c[k]].samples_per_chunk <= Len(s) + 1
    BY <2>4 DEF Reaches, c
  <2>6. ASSUME NEW k \in 1..Len(c)
        PROVE  c[k] \in 1..Len(s) /\ s[c[k]].samples_per_chunk \in Nat
    <3>1. c[k] \in 1..Len(s)
      BY <2>5
    <3>2. s[c[k]] \in Sample
      BY <1>1, <3>1
    <3>. QED  BY <3>1, <3>2 DEF Sample
  <2>. QED  BY <2>5, <2>6 DEF c
<1>. QED  BY <1>2, <1>3

\* A table with clusters is marked like itself, and stays partitioned.
LEMMA MarkedItself ==
  ASSUME NEW s \in Seq(Sample)
  PROVE  Marked(s, s)
BY DEF Marked

LEMMA MarkedCut ==
  ASSUME NEW s, Cut(s), NEW r, Marked(s, r)
  PROVE  Cut(r)
<1>1. PICK H : Closed(s, Len(s), H)
  BY DEF Cut
<1>2. H \subseteq 1..Len(s)
  BY <1>1 DEF Closed
<1>3. \A h \in H : r[h].samples_per_chunk = s[h].samples_per_chunk
  BY <1>2 DEF Marked
<1>4. Closed(r, Len(r), H)
  BY <1>1, <1>3 DEF Closed, Marked
<1>. QED  BY <1>4 DEF Cut, Marked

\* A mark more.
LEMMA MarkedMore ==
  ASSUME NEW s, NEW r, Marked(s, r), NEW head \in 1..Len(r), NEW at \in Nat
  PROVE  Marked(s, [r EXCEPT ![head] = [r[head] EXCEPT !.offset = at]])
<1>. DEFINE x == [r[head] EXCEPT !.offset = at]
            q == [r EXCEPT ![head] = x]
<1>1. r \in Seq(Sample) /\ Len(r) \in Nat /\ Len(r) = Len(s) /\ r[head] \in Sample
  BY DEF Marked
<1>2. /\ x \in Sample /\ x.samples_per_chunk = r[head].samples_per_chunk
      /\ x.bytes = r[head].bytes /\ x.dts = r[head].dts
      /\ x.first_chunk = r[head].first_chunk
  BY <1>1 DEF Sample
<1>. HIDE DEF x
<1>3. q \in Seq(Sample) /\ Len(q) = Len(r)
      /\ \A i \in 1..Len(r) : q[i] = IF i = head THEN x ELSE r[i]
  BY <1>1, <1>2
<1>. HIDE DEF q
<1>. QED  BY <1>1, <1>2, <1>3 DEF Marked, q, x

\* The buffer and the tracks while a fragment of the tracks is written.
Work(m, tracks) ==
  /\ DOMAIN m = {"b", "tracks"} /\ IsBuffer(m.b)
  /\ IsSequence(tracks) /\ IsSequence(m.tracks) /\ Len(m.tracks) = Len(tracks)
  /\ \A t \in 1..Len(tracks) : /\ Cut(tracks[t].samples)
                               /\ "samples" \in DOMAIN m.tracks[t]
                               /\ Marked(tracks[t].samples, m.tracks[t].samples)

\* From m to r, boxes of these kinds were written.
Wrote(m, r, tracks, kinds) ==
  Work(m, tracks) /\ Work(r, tracks) /\ Onto(m.b, r.b, kinds)

LEMMA WroteAll ==
  ASSUME NEW tracks, NEW kinds, NEW n \in Nat, NEW g, Work(g[0], tracks),
         \A k \in 1..n : Work(g[k - 1], tracks) => Wrote(g[k - 1], g[k], tracks, kinds)
  PROVE  \A k \in 0..n : Wrote(g[0], g[k], tracks, kinds)
<1>. DEFINE P == {k \in 0..n : Wrote(g[0], g[k], tracks, kinds)}
<1>1. 0 \in P
  BY OntoItself DEF Wrote, Work
<1>2. \A k \in 0..n - 1 : k \in P => k + 1 \in P
  <2>. SUFFICES ASSUME NEW k \in 0..n - 1, k \in P PROVE k + 1 \in P
    OBVIOUS
  <2>1. k + 1 \in 1..n /\ (k + 1) - 1 = k /\ k + 1 \in 0..n
    OBVIOUS
  <2>2. Onto(g[0].b, g[k].b, kinds) /\ Work(g[k], tracks)
    BY DEF Wrote
  <2>3. Wrote(g[k], g[k + 1], tracks, kinds)
    BY <2>1, <2>2
  <2>. HIDE DEF P
  <2>4. Onto(g[0].b, g[k + 1].b, kinds)
    BY <2>2, <2>3, OntoTrans DEF Wrote
  <2>. QED  BY <2>1, <2>3, <2>4 DEF P, Wrote
<1>3. \A k \in 0..n : k \in P
  <2>. HIDE DEF P
  <2>. QED  BY <1>1, <1>2, UpTo
<1>. QED  BY <1>3

\* A box begins.
LEMMA BegunDoes ==
  ASSUME NEW m, NEW tracks, Work(m, tracks), NEW cell, "box" \in DOMAIN cell
  PROVE  LET r == Begun(m, cell)
             at == Tell(m.b)
         IN /\ Wrote(m, r, tracks, {cell.box}) /\ r.tracks = m.tracks
            /\ ~r.b.error => /\ ~m.b.error /\ at \in Nat /\ Len(r.b.cells) = at
                             /\ Len(m.b.cells) = at - 1 /\ r.b.cells[at] = cell
<1>. DEFINE r == Begun(m, cell)
            new == <<cell>>
<1>1. IsSequence(new) /\ Len(new) = 1 /\ new[1] = cell
  <2>1. new \in Seq({cell}) /\ Len(new) = 1 /\ new[1] = cell
    OBVIOUS
  <2>. QED  BY <2>1 DEF IsSequence
<1>2. DOMAIN r = {"b", "tracks"} /\ r.b = Put(m.b, new) /\ r.tracks = m.tracks
  BY DEF Begun, Work
<1>. HIDE DEF new, r
<1>3. Onto(m.b, r.b, {cell.box})
  <2>1. Onto(m.b, m.b, {cell.box})
    BY OntoItself DEF Work
  <2>2. \A i \in 1..Len(new) : "box" \in DOMAIN new[i] /\ new[i].box \in {cell.box}
    BY <1>1
  <2>. QED  BY <1>1, <1>2, <2>1, <2>2, OntoPut
<1>4. Wrote(m, r, tracks, {cell.box})
  BY <1>2, <1>3 DEF Wrote, Work, Onto
<1>5. ASSUME ~r.b.error
      PROVE  /\ ~m.b.error /\ Tell(m.b) \in Nat /\ Len(r.b.cells) = Tell(m.b)
             /\ Len(m.b.cells) = Tell(m.b) - 1 /\ r.b.cells[Tell(m.b)] = cell
  <2>. DEFINE p == m.b
              q == p.cells
              c == r.b
  <2>0. IsBuffer(p) /\ c = Put(p, new) /\ ~c.error
    BY <1>2, <1>5 DEF Work
  <2>. HIDE DEF p, c
  <2>1. ~p.error /\ c.cells = q \o new
    BY <1>1, <2>0, PutDoes
  <2>2. IsSequence(q) /\ Len(q) \in Nat
    BY <2>0, SequenceIs DEF IsBuffer
  <2>. HIDE DEF q
  <2>3. /\ Len(q \o new) = Len(q) + 1 /\ (q \o new)[Len(q) + 1] = cell
    <3>1. 1 \in 1..Len(new)
      BY <1>1
    <3>2. /\ Len(q \o new) = Len(q) + Len(new)
          /\ \A i \in 1..Len(new) : (q \o new)[Len(q) + i] = new[i]
      <4>1. IsSequence(q) /\ IsSequence(new)
        BY <1>1, <2>2
      <4>. QED  BY <4>1, Joint
    <3>. QED  BY <1>1, <3>1, <3>2
  <2>. QED  BY <2>1, <2>2, <2>3 DEF Tell, p, q, c
<1>. QED  BY <1>2, <1>4, <1>5 DEF r

\* A box is complete: its size is patched, and nothing else.
LEMMA SizedDoes ==
  ASSUME NEW m, NEW r, NEW tracks, NEW kinds, Wrote(m, r, tracks, kinds)
  PROVE  LET z == Sized(r, Tell(m.b))
         IN Wrote(m, z, tracks, kinds) /\ z.tracks = r.tracks
<1>. DEFINE at == Tell(m.b)
            z == Sized(r, at)
<1>1. DOMAIN z = {"b", "tracks"} /\ z.tracks = r.tracks
      /\ z.b = Patch(r.b, at, "size", Tell(r.b) - at)
  BY DEF Sized, Wrote, Work
<1>. HIDE DEF z
<1>2. at \notin 1..Len(m.b.cells)
  <2>1. Len(m.b.cells) \in Nat
    BY SequenceIs DEF Wrote, Work, IsBuffer
  <2>. QED  BY <2>1 DEF Tell
<1>. HIDE DEF at
<1>3. Onto(m.b, z.b, kinds)
  BY <1>1, <1>2, OntoPatch DEF Wrote
<1>4. Wrote(m, z, tracks, kinds)
  BY <1>1, <1>3 DEF Wrote, Work, Onto
<1>. QED  BY <1>1, <1>4 DEF z, at

------------------------------------------------------------------------------
(* The boxes of a fragment.                                                 *)

\* A sequence of one box.
LEMMA OneCell ==
  ASSUME NEW cell, NEW kinds, "box" \in DOMAIN cell, cell.box \in kinds
  PROVE  /\ IsSequence(<<cell>>)
         /\ \A i \in 1..Len(<<cell>>) : "box" \in DOMAIN <<cell>>[i] /\ <<cell>>[i].box \in kinds
<1>. DEFINE new == <<cell>>
<1>1. new \in Seq({cell}) /\ Len(new) = 1 /\ new[1] = cell
  OBVIOUS
<1>2. \A i \in 1..Len(new) : new[i] = cell
  <2>. HIDE DEF new
  <2>1. \A i \in 1..Len(new) : i = 1
    BY <1>1
  <2>. QED  BY <1>1, <2>1
<1>. HIDE DEF new
<1>3. IsSequence(new)
  BY <1>1 DEF IsSequence
<1>. QED  BY <1>2, <1>3 DEF new

\* A trun is written and its place noted.
LEMMA WriteTrunDoes ==
  ASSUME NEW m, NEW tracks, Work(m, tracks), NEW t \in 1..Len(tracks),
         NEW head \in 1..Len(tracks[t].samples)
  PROVE  Wrote(m, WriteTrun(m, t, head), tracks, {"trun"})
<1>. DEFINE r == WriteTrun(m, t, head)
            cell == [box |-> "trun", data_offset |-> 0,
                     run |-> Run(m.tracks[t].samples, head)]
            new == <<cell>>
            s == m.tracks[t].samples
            at == Tell(m.b)
            q == [s EXCEPT ![head] = [s[head] EXCEPT !.offset = at]]
            x == [m.tracks[t] EXCEPT !.samples = q]
            n == Len(tracks)
<1>1. r = [b |-> Put(m.b, new), tracks |-> [m.tracks EXCEPT ![t] = x]]
  BY DEF WriteTrun
<1>2. /\ IsBuffer(m.b) /\ IsSequence(m.tracks) /\ Len(m.tracks) = n /\ n \in Nat
      /\ DOMAIN m.tracks = 1..n
      /\ \A u \in 1..n : /\ Cut(tracks[u].samples) /\ "samples" \in DOMAIN m.tracks[u]
                         /\ Marked(tracks[u].samples, m.tracks[u].samples)
  BY SequenceIs DEF Work
<1>3. "box" \in DOMAIN cell /\ cell.box \in {"trun"}
  OBVIOUS
<1>4. IsSequence(new) /\ \A i \in 1..Len(new) : "box" \in DOMAIN new[i] /\ new[i].box \in {"trun"}
  <2>. HIDE DEF cell
  <2>. QED  BY <1>3, OneCell
<1>. HIDE DEF new
<1>5. Onto(m.b, Put(m.b, new), {"trun"})
  <2>1. Onto(m.b, m.b, {"trun"})
    BY <1>2, OntoItself
  <2>. QED  BY <1>4, <2>1, OntoPut
<1>6. at \in Nat
  BY <1>2, SequenceIs DEF Tell, IsBuffer
<1>7. Marked(tracks[t].samples, q)
  <2>1. Marked(tracks[t].samples, s) /\ head \in 1..Len(s)
    BY <1>2 DEF Marked
  <2>. HIDE DEF s, at
  <2>. QED  BY <1>6, <2>1, MarkedMore
<1>8. "samples" \in DOMAIN x /\ x.samples = q
  <2>1. "samples" \in DOMAIN m.tracks[t]
    BY <1>2
  <2>. HIDE DEF q
  <2>. QED  BY <2>1
<1>. HIDE DEF x, q
<1>. DEFINE z == [m.tracks EXCEPT ![t] = x]
<1>9. /\ z = [u \in 1..n |-> z[u]] /\ z[t] = x
      /\ \A u \in 1..n \ {t} : z[u] = m.tracks[u]
  BY <1>2
<1>10. DOMAIN r = {"b", "tracks"} /\ r.b = Put(m.b, new) /\ r.tracks = z
  BY <1>1
<1>. HIDE DEF z, r, n
<1>11. IsSequence(z) /\ Len(z) = n
  BY <1>2, <1>9, OnIndices
<1>12. \A u \in 1..n : /\ "samples" \in DOMAIN z[u]
                       /\ Marked(tracks[u].samples, z[u].samples)
  BY <1>2, <1>7, <1>8, <1>9
<1>13. Work(r, tracks)
  BY <1>2, <1>5, <1>10, <1>11, <1>12 DEF Work, Onto, n
<1>. QED  BY <1>5, <1>10, <1>13 DEF Wrote, r

\* The box of a traf of track t, with these samples.
IsTraf(x, t, s) == /\ {"box", "track", "tfdt"} \subseteq DOMAIN x
                   /\ x.box = "traf" /\ x.track = t /\ x.tfdt = s[1].dts

\* A traf is written for a track that has samples.
LEMMA WriteTrafDoes ==
  ASSUME NEW m, NEW tracks, Work(m, tracks), NEW t \in 1..Len(tracks)
  PROVE  LET r == WriteTraf(m, t)
             s == tracks[t].samples
             at == Tell(m.b)
         IN /\ Wrote(m, r, tracks, {"traf", "trun"})
            /\ s = <<>> => r = m
            /\ s # <<>> /\ ~r.b.error =>
                 /\ at \in 1..Len(r.b.cells) /\ IsTraf(r.b.cells[at], t, s)
                 /\ \A q \in at + 1..Len(r.b.cells) : r.b.cells[q].box = "trun"
<1>. DEFINE r == WriteTraf(m, t)
            s == m.tracks[t].samples
            at == Tell(m.b)
            heads == Clusters(s)
            cell == Traf(t, s)
<1>1. /\ Cut(tracks[t].samples) /\ Marked(tracks[t].samples, s) /\ IsBuffer(m.b)
      /\ Len(m.b.cells) \in Nat
  BY SequenceIs DEF Work, IsBuffer
<1>2. Cut(s) /\ Len(s) = Len(tracks[t].samples) /\ (s = <<>> <=> tracks[t].samples = <<>>)
  <2>1. Len(s) = Len(tracks[t].samples) /\ s \in Seq(Sample) /\ tracks[t].samples \in Seq(Sample)
    BY <1>1 DEF Marked, Cut
  <2>2. Cut(s)
    <3>. HIDE DEF s
    <3>. QED  BY <1>1, MarkedCut
  <2>. QED  BY <2>1, <2>2
<1>3. CASE s = <<>>
  <2>1. r = m
    BY <1>3 DEF WriteTraf
  <2>2. Wrote(m, m, tracks, {"traf", "trun"})
    BY <1>1, OntoItself DEF Wrote
  <2>. QED  BY <1>2, <1>3, <2>1, <2>2
<1>4. CASE s # <<>>
  <2>1. /\ Len(heads) \in Nat
        /\ \A k \in 1..Len(heads) : heads[k] \in 1..Len(tracks[t].samples)
    <3>. HIDE DEF s
    <3>. QED  BY <1>2, HeadsOfCut
  <2>2. PICK g : /\ g[0] = Begun(m, cell)
                 /\ \A k \in 1..Len(heads) : g[k] = WriteTrun(g[k - 1], t, heads[k])
                 /\ r = Sized(g[Len(heads)], at)
    <3>. HIDE DEF s
    <3>1. s # <<>> /\ Len(heads) \in Nat /\ s = m.tracks[t].samples
      BY <1>4, <2>1 DEF s
    <3>. QED  BY <3>1, WriteTrafIs
  <2>3. "box" \in DOMAIN cell /\ cell.box = "traf" /\ IsTraf(cell, t, tracks[t].samples)
    <3>1. cell.tfdt = s[1].dts
      BY DEF Traf
    <3>2. s[1].dts = tracks[t].samples[1].dts
      <4>1. 1 \in 1..Len(tracks[t].samples)
        BY <1>2, <1>4 DEF Cut
      <4>. QED  BY <1>1, <4>1 DEF Marked
    <3>3. /\ {"box", "track", "tfdt"} \subseteq DOMAIN cell /\ cell.box = "traf"
          /\ cell.track = t
      BY DEF Traf
    <3>. QED  BY <3>1, <3>2, <3>3 DEF IsTraf
  <2>. HIDE DEF cell, heads, r
  <2>. DEFINE n == Len(heads)
              p == g[0]
              z == g[n]
  <2>4. /\ Wrote(m, p, tracks, {"traf"})
        /\ ~p.b.error => /\ ~m.b.error /\ at \in Nat /\ Len(p.b.cells) = at
                         /\ Len(m.b.cells) = at - 1 /\ p.b.cells[at] = cell
    <3>1. Wrote(m, p, tracks, {cell.box}) /\ cell.box = "traf" /\ p = Begun(m, cell)
      BY <2>2, <2>3, BegunDoes
    <3>2. Wrote(m, p, tracks, {"traf"})
      BY <3>1
    <3>. HIDE DEF at, p
    <3>3. ~p.b.error => /\ ~m.b.error /\ at \in Nat /\ Len(p.b.cells) = at
                        /\ Len(m.b.cells) = at - 1 /\ p.b.cells[at] = cell
      BY <2>3, <3>1, BegunDoes DEF at
    <3>. QED  BY <3>2, <3>3
  <2>5. Wrote(p, z, tracks, {"trun"})
    <3>1. \A k \in 1..n : Work(g[k - 1], tracks) => Wrote(g[k - 1], g[k], tracks, {"trun"})
      BY <2>1, <2>2, WriteTrunDoes
    <3>2. Work(g[0], tracks) /\ n \in Nat
      BY <2>1, <2>4 DEF Wrote
    <3>3. \A k \in 0..n : Wrote(g[0], g[k], tracks, {"trun"})
      <4>. HIDE DEF n
      <4>. QED  BY <3>1, <3>2, WroteAll
    <3>. QED  BY <3>2, <3>3
  <2>. HIDE DEF n, p, z
  <2>6. Wrote(m, z, tracks, {"traf", "trun"})
    <3>1. Onto(m.b, p.b, {"traf", "trun"}) /\ Onto(p.b, z.b, {"traf", "trun"})
      BY <2>4, <2>5, OntoMore DEF Wrote
    <3>2. Onto(m.b, z.b, {"traf", "trun"})
      BY <3>1, OntoTrans
    <3>. QED  BY <2>5, <3>2 DEF Wrote
  <2>7. Wrote(m, r, tracks, {"traf", "trun"}) /\ r = Sized(z, at)
    BY <2>2, <2>6, SizedDoes DEF n, z
  <2>8. ASSUME ~r.b.error
        PROVE  /\ at \in 1..Len(r.b.cells) /\ IsTraf(r.b.cells[at], t, tracks[t].samples)
               /\ \A q \in at + 1..Len(r.b.cells) : r.b.cells[q].box = "trun"
    <3>. DEFINE c == z.b
                d == r.b
    <3>0. DOMAIN z = {"b", "tracks"} /\ IsBuffer(c)
      BY <2>5 DEF Wrote, Work
    <3>1. d = Patch(c, at, "size", Tell(c) - at)
      BY <2>7, <3>0 DEF Sized
    <3>2. /\ ~c.error /\ Len(d.cells) = Len(c.cells)
          /\ \A i \in 1..Len(c.cells) \ {at} : d.cells[i] = c.cells[i]
          /\ at \in 1..Len(c.cells) =>
               /\ DOMAIN d.cells[at] = DOMAIN c.cells[at]
               /\ \A f \in DOMAIN c.cells[at] \ {"size"} : d.cells[at][f] = c.cells[at][f]
      <4>1. ~d.error
        BY <2>8
      <4>. HIDE DEF c, d, at
      <4>. QED  BY <3>0, <3>1, <4>1, PatchDoes
    <3>3. /\ ~p.b.error /\ Len(p.b.cells) <= Len(c.cells)
          /\ \A i \in 1..Len(p.b.cells) : Alike(p.b.cells[i], c.cells[i])
          /\ \A i \in Len(p.b.cells) + 1..Len(c.cells) : c.cells[i].box = "trun"
      BY <2>5, <3>2 DEF Wrote, Onto
    <3>4. /\ at \in Nat /\ Len(p.b.cells) = at /\ p.b.cells[at] = cell
          /\ Len(m.b.cells) = at - 1
      BY <2>4, <3>3
    <3>5. Len(c.cells) \in Nat
      BY <3>0, SequenceIs DEF IsBuffer
    <3>. HIDE DEF c, d, at
    <3>6. at \in 1..Len(c.cells) /\ at \in 1..Len(p.b.cells)
      BY <1>1, <3>3, <3>4, <3>5
    <3>7. Alike(cell, c.cells[at])
      BY <3>3, <3>4, <3>6
    <3>8. IsTraf(c.cells[at], t, tracks[t].samples)
      BY <2>3, <3>7 DEF Alike, IsTraf
    <3>9. IsTraf(d.cells[at], t, tracks[t].samples)
      BY <3>2, <3>6, <3>8 DEF IsTraf
    <3>10. ASSUME NEW q \in at + 1..Len(d.cells)
           PROVE  d.cells[q].box = "trun"
      <4>1. q \in 1..Len(c.cells) \ {at} /\ q \in Len(p.b.cells) + 1..Len(c.cells)
        BY <3>2, <3>4, <3>5
      <4>. QED  BY <3>2, <3>3, <4>1
    <3>. QED  BY <3>2, <3>6, <3>9, <3>10 DEF d
  <2>. QED  BY <1>2, <1>4, <2>7, <2>8 DEF r
<1>. QED  BY <1>3, <1>4

\* Behind from there are trafs of the first n tracks that have samples, and nothing
\* but trafs and truns.
Trafs(cells, from, tracks, n) ==
  /\ \A q \in from + 1..Len(cells) : "box" \in DOMAIN cells[q] /\ cells[q].box \in {"traf", "trun"}
  /\ \A q \in from + 1..Len(cells) :
       cells[q].box = "traf" =>
         \E u \in 1..n : tracks[u].samples # <<>> /\ IsTraf(cells[q], u, tracks[u].samples)
  /\ \A u \in 1..n :
       tracks[u].samples # <<>> =>
         \E q \in from + 1..Len(cells) : IsTraf(cells[q], u, tracks[u].samples)

\* Cells that are changed only by what is patched in, and more of them.
Further(p, q) == /\ IsSequence(p) /\ IsSequence(q) /\ Len(p) <= Len(q)
                 /\ \A i \in 1..Len(p) : Alike(p[i], q[i])

\* One track more.
LEMMA TrafsMore ==
  ASSUME NEW m, NEW tracks, Work(m, tracks), NEW t \in 1..Len(tracks),
         NEW r, r = WriteTraf(m, t), ~r.b.error, NEW from \in Nat, from <= Len(m.b.cells),
         Trafs(m.b.cells, from, tracks, t - 1)
  PROVE  Trafs(r.b.cells, from, tracks, t) /\ ~m.b.error /\ from <= Len(r.b.cells)
<1>. DEFINE s == tracks[t].samples
            at == Tell(m.b)
            p == m.b.cells
            c == r.b.cells
<1>1. /\ Wrote(m, r, tracks, {"traf", "trun"})
      /\ s = <<>> => r = m
      /\ s # <<>> => /\ at \in 1..Len(c) /\ IsTraf(c[at], t, s)
                     /\ \A q \in at + 1..Len(c) : c[q].box = "trun"
  BY WriteTrafDoes
<1>2. /\ ~m.b.error /\ Len(p) \in Nat /\ Len(c) \in Nat /\ Len(p) <= Len(c)
      /\ \A i \in 1..Len(p) : Alike(p[i], c[i])
      /\ \A i \in Len(p) + 1..Len(c) : "box" \in DOMAIN c[i] /\ c[i].box \in {"traf", "trun"}
  BY <1>1, SequenceIs DEF Wrote, Work, Onto, IsBuffer
<1>3. at = Len(p) + 1
  BY DEF Tell
<1>4. /\ t \in Nat \ {0} /\ \A u \in 1..t - 1 : u \in 1..t
      /\ \A u \in 1..t : u = t \/ u \in 1..t - 1
  OBVIOUS
<1>. HIDE DEF s, at, p, c
<1>5. /\ \A q \in from + 1..Len(p) : "box" \in DOMAIN p[q] /\ p[q].box \in {"traf", "trun"}
      /\ \A q \in from + 1..Len(p) :
           p[q].box = "traf" =>
             \E u \in 1..t - 1 : tracks[u].samples # <<>> /\ IsTraf(p[q], u, tracks[u].samples)
      /\ \A u \in 1..t - 1 :
           tracks[u].samples # <<>> =>
             \E q \in from + 1..Len(p) : IsTraf(p[q], u, tracks[u].samples)
      /\ from <= Len(p)
  BY DEF Trafs, p
<1>6. \A q \in from + 1..Len(p) : /\ q \in 1..Len(p) /\ q \in from + 1..Len(c)
                                  /\ Alike(p[q], c[q])
  BY <1>2, <1>5
<1>7. \A q \in from + 1..Len(c) : q \in from + 1..Len(p) \/ q \in Len(p) + 1..Len(c)
  BY <1>2, <1>5
<1>8. ASSUME NEW q \in from + 1..Len(c)
      PROVE  /\ "box" \in DOMAIN c[q] /\ c[q].box \in {"traf", "trun"}
             /\ c[q].box = "traf" =>
                  \E u \in 1..t : tracks[u].samples # <<>> /\ IsTraf(c[q], u, tracks[u].samples)
  <2>1. CASE q \in from + 1..Len(p)
    <3>1. "box" \in DOMAIN p[q] /\ Alike(p[q], c[q]) /\ p[q].box \in {"traf", "trun"}
      BY <1>5, <1>6, <2>1
    <3>2. "box" \in DOMAIN c[q] /\ c[q].box = p[q].box
      BY <3>1 DEF Alike
    <3>3. ASSUME p[q].box = "traf"
          PROVE  \E u \in 1..t : tracks[u].samples # <<>> /\ IsTraf(c[q], u, tracks[u].samples)
      <4>1. PICK u \in 1..t - 1 : tracks[u].samples # <<>> /\ IsTraf(p[q], u, tracks[u].samples)
        BY <1>5, <2>1, <3>3
      <4>2. IsTraf(c[q], u, tracks[u].samples)
        BY <3>1, <4>1 DEF Alike, IsTraf
      <4>. QED  BY <1>4, <4>1, <4>2
    <3>. QED  BY <3>1, <3>2, <3>3
  <2>2. CASE q \in Len(p) + 1..Len(c)
    <3>1. "box" \in DOMAIN c[q] /\ c[q].box \in {"traf", "trun"}
      BY <1>2, <2>2
    <3>2. ASSUME c[q].box = "traf"
          PROVE  t \in 1..t /\ s # <<>> /\ IsTraf(c[q], t, s)
      <4>1. s # <<>>
        BY <1>1, <1>2, <2>2 DEF p, c
      <4>2. q = at
        BY <1>1, <1>2, <1>3, <2>2, <3>2, <4>1
      <4>. QED  BY <1>1, <1>4, <4>1, <4>2
    <3>. QED  BY <3>1, <3>2 DEF s
  <2>. QED  BY <1>7, <2>1, <2>2
<1>9. ASSUME NEW u \in 1..t, tracks[u].samples # <<>>
      PROVE  \E q \in from + 1..Len(c) : IsTraf(c[q], u, tracks[u].samples)
  <2>1. CASE u = t
    <3>1. at \in from + 1..Len(c)
      BY <1>1, <1>2, <1>3, <1>5, <1>9, <2>1 DEF s
    <3>. QED  BY <1>1, <1>9, <2>1, <3>1 DEF s
  <2>2. CASE u # t
    <3>1. PICK q \in from + 1..Len(p) : IsTraf(p[q], u, tracks[u].samples)
      BY <1>4, <1>5, <1>9, <2>2
    <3>2. IsTraf(c[q], u, tracks[u].samples) /\ q \in from + 1..Len(c)
      BY <1>6, <3>1 DEF Alike, IsTraf
    <3>. QED  BY <3>2
  <2>. QED  BY <2>1, <2>2
<1>10. Trafs(c, from, tracks, t)
  BY <1>8, <1>9 DEF Trafs
<1>11. from <= Len(c)
  BY <1>2, <1>5
<1>. QED  BY <1>2, <1>10, <1>11 DEF c

\* The moof of the tracks at a place, the last of its boxes at another.
IsMoof(cells, at, last, tracks) ==
  /\ last \in 1..Len(cells) /\ at \in 1..last
  /\ {"box", "size"} \subseteq DOMAIN cells[at] /\ cells[at].box = "moof"
  /\ at + cells[at].size - 1 = last
  /\ \A q \in at + 1..last : "box" \in DOMAIN cells[q] /\ cells[q].box \in {"traf", "trun"}
  /\ \A q \in at + 1..last :
       cells[q].box = "traf" =>
         \E u \in 1..Len(tracks) :
           tracks[u].samples # <<>> /\ IsTraf(cells[q], u, tracks[u].samples)
  /\ \A u \in 1..Len(tracks) :
       tracks[u].samples # <<>> =>
         \E q \in at + 1..last : IsTraf(cells[q], u, tracks[u].samples)

\* A moof with the trafs of the tracks that have samples.
LEMMA WriteMoofDoes ==
  ASSUME NEW m, NEW tracks, Work(m, tracks), NEW id
  PROVE  LET r == WriteMoof(m, id)
             at == Tell(m.b)
         IN /\ Wrote(m, r, tracks, {"moof", "traf", "trun"})
            /\ ~r.b.error => IsMoof(r.b.cells, at, Len(r.b.cells), tracks)
                             /\ at = Len(m.b.cells) + 1
<1>. DEFINE r == WriteMoof(m, id)
            at == Tell(m.b)
            n == Len(tracks)
            cell == Moof(id)
            kinds == {"moof", "traf", "trun"}
<1>1. n \in Nat /\ Len(m.tracks) = n /\ Len(m.b.cells) \in Nat /\ at = Len(m.b.cells) + 1
  BY SequenceIs DEF Work, IsBuffer, Tell
<1>2. PICK g : /\ g[0] = Begun(m, cell)
               /\ \A t \in 1..n : g[t] = WriteTraf(g[t - 1], t)
               /\ r = Sized(g[n], at)
  BY <1>1, WriteMoofIs
<1>3. "box" \in DOMAIN cell /\ cell.box = "moof" /\ "size" \in DOMAIN cell
  BY DEF Moof
<1>. HIDE DEF cell, r, n, at
<1>. DEFINE p == g[0]
            z == g[n]
<1>4. Wrote(m, p, tracks, {"moof"})
  <2>1. Wrote(m, p, tracks, {cell.box})
    BY <1>2, <1>3, BegunDoes
  <2>. QED  BY <1>3, <2>1
<1>5. ~p.b.error => /\ ~m.b.error /\ at \in Nat /\ Len(p.b.cells) = at
                    /\ Len(m.b.cells) = at - 1 /\ p.b.cells[at] = cell
  <2>1. p = Begun(m, cell)
    BY <1>2
  <2>. HIDE DEF p
  <2>. QED  BY <1>3, <2>1, BegunDoes DEF at
<1>6. \A t \in 1..n : Work(g[t - 1], tracks) => Wrote(g[t - 1], g[t], tracks, {"traf", "trun"})
  BY <1>2, WriteTrafDoes DEF n
<1>7. \A t \in 0..n : Wrote(g[0], g[t], tracks, {"traf", "trun"})
  BY <1>1, <1>4, <1>6, WroteAll DEF Wrote
<1>8. Wrote(p, z, tracks, {"traf", "trun"})
  BY <1>1, <1>7
<1>9. Wrote(m, z, tracks, kinds)
  <2>. HIDE DEF p, z
  <2>1. Onto(m.b, p.b, kinds) /\ Onto(p.b, z.b, kinds)
    BY <1>4, <1>8, OntoMore DEF Wrote
  <2>2. Onto(m.b, z.b, kinds)
    BY <2>1, OntoTrans
  <2>. QED  BY <1>4, <1>8, <2>2 DEF Wrote
<1>. HIDE DEF kinds
<1>10. Wrote(m, r, tracks, kinds)
  BY <1>2, <1>9, SizedDoes DEF at
<1>11. ASSUME ~r.b.error
       PROVE  IsMoof(r.b.cells, at, Len(r.b.cells), tracks)
  <2>. DEFINE c == z.b
              d == r.b
  <2>0. DOMAIN z = {"b", "tracks"} /\ IsBuffer(c) /\ IsBuffer(d)
    BY <1>8, <1>10 DEF Wrote, Work
  <2>1. d = Patch(c, at, "size", Tell(c) - at)
    BY <1>2, <2>0 DEF Sized
  <2>2. /\ ~c.error /\ Len(d.cells) = Len(c.cells)
        /\ \A i \in 1..Len(c.cells) \ {at} : d.cells[i] = c.cells[i]
        /\ at \in 1..Len(c.cells) =>
             /\ DOMAIN d.cells[at] = DOMAIN c.cells[at]
             /\ \A f \in DOMAIN c.cells[at] \ {"size"} : d.cells[at][f] = c.cells[at][f]
             /\ "size" \in DOMAIN c.cells[at] => d.cells[at].size = Tell(c) - at
    <3>1. ~d.error
      BY <1>11
    <3>. HIDE DEF c, d, at
    <3>. QED  BY <2>0, <2>1, <3>1, PatchDoes
  <2>3. Len(c.cells) \in Nat /\ Len(d.cells) \in Nat
    <3>. HIDE DEF c, d
    <3>. QED  BY <2>0, SequenceIs DEF IsBuffer
  <2>4. ~p.b.error /\ Len(p.b.cells) <= Len(c.cells)
        /\ \A i \in 1..Len(p.b.cells) : Alike(p.b.cells[i], c.cells[i])
    BY <1>8, <2>2 DEF Wrote, Onto
  <2>5. at \in Nat \ {0} /\ Len(p.b.cells) = at /\ p.b.cells[at] = cell
    BY <1>1, <1>5, <2>4
  <2>6. Trafs(c.cells, at, tracks, n)
    <3>. DEFINE P == {t \in 0..n : ~g[t].b.error =>
                        Trafs(g[t].b.cells, at, tracks, t) /\ at <= Len(g[t].b.cells)}
    <3>1. 0 \in P
      <4>1. at + 1..at = {} /\ 1..0 = {} /\ at <= at /\ 0 \in 0..n
        BY <1>1, <2>5
      <4>2. Trafs(p.b.cells, at, tracks, 0)
        BY <2>5, <4>1 DEF Trafs
      <4>. QED  BY <2>5, <4>1, <4>2
    <3>2. \A t \in 0..n - 1 : t \in P => t + 1 \in P
      <4>. SUFFICES ASSUME NEW t \in 0..n - 1, t \in P, ~g[t + 1].b.error
                    PROVE  /\ Trafs(g[t + 1].b.cells, at, tracks, t + 1)
                           /\ at <= Len(g[t + 1].b.cells)
        BY <1>1
      <4>1. t + 1 \in 1..n /\ (t + 1) - 1 = t /\ t \in 0..n
        BY <1>1
      <4>. DEFINE a == g[t]
                  e == g[t + 1]
                  k == t + 1
      <4>2. e = WriteTraf(a, k) /\ Work(a, tracks)
        BY <1>2, <1>7, <4>1 DEF Wrote
      <4>3. Wrote(a, e, tracks, {"traf", "trun"})
        BY <1>6, <4>1, <4>2
      <4>4. ~a.b.error
        BY <4>3 DEF Wrote, Onto
      <4>5. Trafs(a.b.cells, at, tracks, k - 1) /\ at <= Len(a.b.cells) /\ ~e.b.error
        BY <4>1, <4>4
      <4>. HIDE DEF a, e, k, P
      <4>6. k \in 1..Len(tracks)
        BY <4>1 DEF k, n
      <4>7. Trafs(e.b.cells, at, tracks, k) /\ at <= Len(e.b.cells)
        BY <2>5, <4>2, <4>5, <4>6, TrafsMore
      <4>. QED  BY <4>7 DEF e, k
    <3>3. \A t \in 0..n : t \in P
      <4>. HIDE DEF P
      <4>. QED  BY <1>1, <3>1, <3>2, UpTo
    <3>. QED  BY <1>1, <2>2, <3>3
  <2>. HIDE DEF c, d, p, z
  <2>7. Alike(cell, c.cells[at]) /\ at \in 1..Len(c.cells)
    <3>1. at \in 1..Len(p.b.cells) /\ at \in 1..Len(c.cells)
      BY <2>3, <2>4, <2>5
    <3>. QED  BY <2>4, <2>5, <3>1
  <2>8. /\ {"box", "size"} \subseteq DOMAIN d.cells[at] /\ d.cells[at].box = "moof"
        /\ d.cells[at].size = Len(c.cells) + 1 - at
    <3>1. {"box", "size"} \subseteq DOMAIN c.cells[at] /\ c.cells[at].box = "moof"
      BY <1>3, <2>7 DEF Alike
    <3>. QED  BY <2>2, <2>7, <3>1 DEF Tell
  <2>9. /\ at \in 1..Len(d.cells) /\ Len(d.cells) \in 1..Len(d.cells)
        /\ at + d.cells[at].size - 1 = Len(d.cells)
    BY <2>2, <2>3, <2>7, <2>8
  <2>10. \A q \in at + 1..Len(d.cells) : q \in at + 1..Len(c.cells) /\ d.cells[q] = c.cells[q]
    BY <2>2, <2>3, <2>7
  <2>11. Trafs(d.cells, at, tracks, n)
    BY <2>2, <2>6, <2>10 DEF Trafs
  <2>. QED  BY <2>8, <2>9, <2>11 DEF IsMoof, Trafs, n, d
<1>. QED  BY <1>1, <1>10, <1>11 DEF r, at, kinds

------------------------------------------------------------------------------
(* The media data.                                                          *)

\* The bytes of a sample.
LEMMA DataIs ==
  ASSUME NEW x \in Sample
  PROVE  /\ IsSequence(Data(x)) /\ Len(Data(x)) = x.bytes
         /\ \A k \in 1..x.bytes :
              Data(x)[k] = [box |-> "data", sample |-> x.first_chunk, byte |-> k]
<1>. DEFINE q == Data(x)
            n == x.bytes
<1>1. n \in Nat
  BY DEF Sample
<1>2. /\ q = [k \in 1..n |-> q[k]]
      /\ \A k \in 1..n : q[k] = [box |-> "data", sample |-> x.first_chunk, byte |-> k]
  BY DEF Data
<1>. HIDE DEF q, n
<1>3. IsSequence(q) /\ Len(q) = n
  BY <1>1, <1>2, OnIndices
<1>. QED  BY <1>2, <1>3 DEF q, n

\* The samples of a cluster are data.
LEMMA PutDataDoes ==
  ASSUME NEW b, IsBuffer(b), NEW s \in Seq(Sample), NEW head \in 1..Len(s),
         s[head].samples_per_chunk \in Nat, head + s[head].samples_per_chunk <= Len(s) + 1
  PROVE  Onto(b, PutData(b, s, head), {"data"})
<1>. DEFINE n == s[head].samples_per_chunk
            r == PutData(b, s, head)
<1>0. r = PutData(b, s, head) /\ s[head].samples_per_chunk \in Nat
  OBVIOUS
<1>. HIDE DEF r
<1>1. PICK g : /\ g[0] = b
               /\ \A k \in 1..n : g[k] = Put(g[k - 1], Data(s[head + k - 1]))
               /\ r = g[n]
  BY <1>0, PutDataIs
<1>2. n \in Nat /\ head + n <= Len(s) + 1 /\ Len(s) \in Nat
  OBVIOUS
<1>. HIDE DEF n
<1>3. ASSUME NEW k \in 1..n, IsBuffer(g[k - 1])
      PROVE  Onto(g[k - 1], g[k], {"data"})
  <2>. DEFINE x == s[head + k - 1]
              new == Data(x)
              c == g[k - 1]
  <2>1. head + k - 1 \in 1..Len(s)
    BY <1>2
  <2>2. x \in Sample
    BY <2>1
  <2>. HIDE DEF x
  <2>3. IsSequence(new) /\ Len(new) = x.bytes
        /\ \A i \in 1..x.bytes : new[i] = [box |-> "data", sample |-> x.first_chunk, byte |-> i]
    BY <2>2, DataIs
  <2>. HIDE DEF new
  <2>4. ASSUME NEW i \in 1..Len(new)
        PROVE  "box" \in DOMAIN new[i] /\ new[i].box \in {"data"}
    <3>1. new[i] = [box |-> "data", sample |-> x.first_chunk, byte |-> i]
      BY <2>3
    <3>. QED  BY <3>1
  <2>5. g[k] = Put(c, new)
    BY <1>1 DEF new, x
  <2>6. IsBuffer(c)
    BY <1>3
  <2>. HIDE DEF c
  <2>7. Onto(c, c, {"data"})
    BY <2>6, OntoItself
  <2>8. Onto(c, Put(c, new), {"data"})
    BY <2>3, <2>4, <2>7, OntoPut
  <2>. QED  BY <2>5, <2>8 DEF c
<1>4. \A k \in 0..n : Onto(g[0], g[k], {"data"})
  BY <1>1, <1>2, <1>3, OntoAll
<1>. QED  BY <1>1, <1>2, <1>4 DEF r

\* A cluster is data, and an offset that is patched.
LEMMA WriteClusterDoes ==
  ASSUME NEW m, NEW tracks, Work(m, tracks), NEW t \in 1..Len(tracks),
         NEW head \in 1..Len(tracks[t].samples),
         head + tracks[t].samples[head].samples_per_chunk <= Len(tracks[t].samples) + 1,
         NEW moof
  PROVE  Wrote(m, WriteCluster(m, t, head, moof), tracks, {"data"})
<1>. DEFINE s == m.tracks[t].samples
            b == Patch(m.b, s[head].offset, "data_offset", Tell(m.b) - moof)
            r == WriteCluster(m, t, head, moof)
<1>1. /\ IsBuffer(m.b) /\ Marked(tracks[t].samples, s) /\ DOMAIN m = {"b", "tracks"}
  BY DEF Work
<1>2. DOMAIN r = {"b", "tracks"} /\ r.tracks = m.tracks /\ r.b = PutData(b, s, head)
  BY <1>1 DEF WriteCluster
<1>. HIDE DEF r
<1>3. /\ s \in Seq(Sample) /\ head \in 1..Len(s) /\ s[head].samples_per_chunk \in Nat
      /\ head + s[head].samples_per_chunk <= Len(s) + 1
  <2>1. s \in Seq(Sample) /\ head \in 1..Len(s)
        /\ head + s[head].samples_per_chunk <= Len(s) + 1
    BY <1>1 DEF Marked
  <2>2. s[head] \in Sample
    BY <2>1
  <2>. QED  BY <2>1, <2>2 DEF Sample
<1>4. Onto(m.b, b, {"data"})
  <2>. DEFINE at == s[head].offset
              value == Tell(m.b) - moof
              p == m.b
  <2>1. Onto(p, p, {"data"})
    BY <1>1, OntoItself
  <2>. HIDE DEF at, value, p
  <2>2. Onto(p, Patch(p, at, "data_offset", value), {"data"})
    BY <2>1, OntoPatch
  <2>. QED  BY <2>2 DEF p, at, value
<1>. HIDE DEF s, b
<1>5. Onto(b, r.b, {"data"})
  <2>1. IsBuffer(b)
    BY <1>4 DEF Onto
  <2>. QED  BY <1>2, <1>3, <2>1, PutDataDoes
<1>6. Onto(m.b, r.b, {"data"})
  BY <1>4, <1>5, OntoTrans
<1>. QED  BY <1>2, <1>6 DEF Wrote, Work, Onto, r

\* A turn of the loop is data.
LEMMA WriteRoundDoes ==
  ASSUME NEW m, NEW tracks, Work(m, tracks), NEW r \in Nat \ {0}, NEW moof
  PROVE  Wrote(m, WriteRound(m, Heads(tracks), r, moof), tracks, {"data"})
<1>. DEFINE heads == Heads(tracks)
            n == Len(tracks)
            w == WriteRound(m, heads, r, moof)
<1>1. n \in Nat
  BY SequenceIs DEF Work
<1>2. /\ Len(heads) = n /\ \A t \in 1..n : heads[t] = Clusters(tracks[t].samples)
  <2>1. heads = [t \in 1..n |-> heads[t]]
        /\ \A t \in 1..n : heads[t] = Clusters(tracks[t].samples)
    BY DEF Heads
  <2>. HIDE DEF heads, n
  <2>. QED  BY <1>1, <2>1, OnIndices
<1>. HIDE DEF heads, n
<1>3. PICK g : /\ g[0] = m
               /\ \A t \in 1..n : g[t] = InTurn(g[t - 1], heads, t, r, moof)
               /\ w = g[n]
  <2>1. Len(heads) \in Nat /\ w = WriteRound(m, heads, r, moof)
    BY <1>1, <1>2
  <2>. HIDE DEF w
  <2>2. \E g : /\ g[0] = m
               /\ \A t \in 1..Len(heads) : g[t] = InTurn(g[t - 1], heads, t, r, moof)
               /\ w = g[Len(heads)]
    BY <2>1, WriteRoundIs
  <2>. QED  BY <1>2, <2>2
<1>4. ASSUME NEW t \in 1..n, Work(g[t - 1], tracks)
      PROVE  Wrote(g[t - 1], g[t], tracks, {"data"})
  <2>. DEFINE c == g[t - 1]
              d == g[t]
              s == tracks[t].samples
              head == heads[t][r]
  <2>0. Work(c, tracks) /\ Cut(s) /\ heads[t] = Clusters(s) /\ t \in 1..Len(tracks)
    BY <1>2, <1>4 DEF Work, n
  <2>1. d = IF r <= Len(heads[t]) THEN WriteCluster(c, t, head, moof) ELSE c
    BY <1>3 DEF InTurn
  <2>2. CASE r <= Len(heads[t])
    <3>. HIDE DEF s
    <3>1. r \in 1..Len(heads[t])
      BY <2>0, <2>2, HeadsOfCut
    <3>2. head \in 1..Len(s) /\ head + s[head].samples_per_chunk <= Len(s) + 1
      BY <2>0, <3>1, HeadsOfCut
    <3>. HIDE DEF c, head
    <3>3. Wrote(c, WriteCluster(c, t, head, moof), tracks, {"data"})
      BY <2>0, <3>2, WriteClusterDoes DEF s
    <3>. QED  BY <2>1, <2>2, <3>3 DEF c
  <2>3. CASE ~(r <= Len(heads[t]))
    <3>1. Onto(c.b, c.b, {"data"})
      BY <2>0, OntoItself DEF Work
    <3>. QED  BY <2>0, <2>1, <2>3, <3>1 DEF Wrote
  <2>. QED  BY <2>2, <2>3
<1>5. \A t \in 0..n : Wrote(g[0], g[t], tracks, {"data"})
  BY <1>1, <1>3, <1>4, WroteAll
<1>. QED  BY <1>1, <1>3, <1>5 DEF heads

\* The largest of some numbers.
LEMMA MaxIs ==
  ASSUME NEW n \in Nat \ {0}, NEW l, \A t \in 1..n : l[t] \in Nat
  PROVE  /\ Max({l[t] : t \in 1..n}) \in Nat
         /\ \A t \in 1..n : l[t] <= Max({l[u] : u \in 1..n})
<1>. DEFINE Top(k) == \E x \in 1..n : \A t \in 1..k : l[x] >= l[t]
            P == {k \in 0..n : Top(k)}
<1>1. 0 \in P
  <2>1. 1 \in 1..n /\ 1..0 = {} /\ 0 \in 0..n
    OBVIOUS
  <2>. QED  BY <2>1
<1>2. \A k \in 0..n - 1 : k \in P => k + 1 \in P
  <2>. SUFFICES ASSUME NEW k \in 0..n - 1, k \in P PROVE k + 1 \in P
    OBVIOUS
  <2>1. k + 1 \in 1..n /\ k + 1 \in 0..n /\ \A t \in 1..k + 1 : t \in 1..k \/ t = k + 1
    OBVIOUS
  <2>2. PICK x \in 1..n : \A t \in 1..k : l[x] >= l[t]
    OBVIOUS
  <2>3. CASE l[x] >= l[k + 1]
    <3>1. \A t \in 1..k + 1 : l[x] >= l[t]
      BY <2>1, <2>2, <2>3
    <3>. QED  BY <2>1, <3>1
  <2>4. CASE ~(l[x] >= l[k + 1])
    <3>1. \A t \in 1..k : t \in 1..n
      OBVIOUS
    <3>2. \A t \in 1..k + 1 : l[k + 1] >= l[t]
      BY <2>1, <2>2, <2>4, <3>1
    <3>. QED  BY <2>1, <3>2
  <2>. QED  BY <2>3, <2>4
<1>3. n \in P
  <2>1. \A k \in 0..n : k \in P
    <3>. HIDE DEF P
    <3>. QED  BY <1>1, <1>2, UpTo
  <2>2. n \in 0..n
    OBVIOUS
  <2>. HIDE DEF P
  <2>. QED  BY <2>1, <2>2
<1>4. PICK x \in 1..n : \A t \in 1..n : l[x] >= l[t]
  BY <1>3
<1>. DEFINE S == {l[t] : t \in 1..n}
<1>5. l[x] \in S /\ \A y \in S : l[x] >= y
  BY <1>4
<1>6. Max(S) \in S /\ \A y \in S : Max(S) >= y
  <2>. HIDE DEF S
  <2>. QED  BY <1>5 DEF Max
<1>7. Max(S) \in Nat
  BY <1>6
<1>8. \A t \in 1..n : l[t] \in S
  OBVIOUS
<1>9. \A t \in 1..n : l[t] <= Max(S)
  <2>. DEFINE M == Max(S)
  <2>1. M \in Nat /\ \A y \in S : M >= y
    BY <1>6, <1>7
  <2>. HIDE DEF M, S
  <2>2. \A t \in 1..n : l[t] <= M
    BY <1>8, <2>1
  <2>. QED  BY <2>2 DEF M
<1>. QED  BY <1>7, <1>9

\* An mdat with its data, and offsets that are patched.
LEMMA WriteMdatDoes ==
  ASSUME NEW m, Work(m, m.tracks), Len(m.tracks) # 0, NEW moof
  PROVE  Wrote(m, WriteMdat(m, moof), m.tracks, {"mdat", "data"})
<1>. DEFINE tracks == m.tracks
            heads == Heads(tracks)
            n == Len(tracks)
            rounds == Rounds(heads)
            kinds == {"mdat", "data"}
            w == WriteMdat(m, moof)
<1>1. n \in Nat \ {0} /\ \A t \in 1..n : Cut(tracks[t].samples)
  BY SequenceIs DEF Work
<1>2. rounds \in Nat
  <2>. DEFINE l == [t \in 1..n |-> Len(heads[t])]
  <2>1. /\ Len(heads) = n /\ \A t \in 1..n : heads[t] = Clusters(tracks[t].samples)
    <3>1. heads = [t \in 1..n |-> heads[t]]
          /\ \A t \in 1..n : heads[t] = Clusters(tracks[t].samples)
      BY DEF Heads
    <3>. HIDE DEF heads, n
    <3>. QED  BY <1>1, <3>1, OnIndices
  <2>2. \A t \in 1..n : Len(heads[t]) \in Nat
    BY <1>1, <2>1, HeadsOfCut
  <2>. HIDE DEF heads, n
  <2>3. \A t \in 1..n : l[t] = Len(heads[t]) /\ l[t] \in Nat
    BY <2>2
  <2>4. {Len(heads[t]) : t \in 1..Len(heads)} = {l[t] : t \in 1..n}
    BY <2>1, <2>3
  <2>. HIDE DEF l
  <2>5. Max({l[t] : t \in 1..n}) \in Nat
    BY <1>1, <2>3, MaxIs
  <2>. QED  BY <2>4, <2>5 DEF Rounds
<1>3. PICK g : /\ g[0] = Begun(m, Mdat)
               /\ \A r \in 1..rounds : g[r] = WriteRound(g[r - 1], heads, r, moof)
               /\ w = Sized(g[rounds], Tell(m.b))
  BY <1>2, WriteMdatIs
<1>4. Work(m, tracks)
  OBVIOUS
<1>. HIDE DEF rounds, w
<1>5. \A r \in 1..rounds : Work(g[r - 1], tracks) => Wrote(g[r - 1], g[r], tracks, {"data"})
  <2>1. \A r \in 1..rounds : r \in Nat \ {0}
    BY <1>2
  <2>. HIDE DEF tracks
  <2>. QED  BY <1>3, <2>1, WriteRoundDoes
<1>. HIDE DEF heads, n
<1>. DEFINE p == g[0]
            z == g[rounds]
<1>6. Wrote(m, p, tracks, {"mdat"})
  <2>1. "box" \in DOMAIN Mdat /\ Mdat.box = "mdat"
    BY DEF Mdat
  <2>. HIDE DEF tracks
  <2>2. Wrote(m, p, tracks, {Mdat.box})
    BY <1>3, <1>4, <2>1, BegunDoes
  <2>. QED  BY <2>1, <2>2
<1>. HIDE DEF tracks
<1>7. Wrote(p, z, tracks, {"data"})
  <2>1. Work(g[0], tracks)
    BY <1>6 DEF Wrote
  <2>2. \A r \in 0..rounds : Wrote(g[0], g[r], tracks, {"data"})
    BY <1>2, <1>5, <2>1, WroteAll
  <2>. QED  BY <1>2, <2>2
<1>. HIDE DEF p, z
<1>8. Wrote(m, z, tracks, kinds)
  <2>1. Onto(m.b, p.b, kinds) /\ Onto(p.b, z.b, kinds)
    BY <1>6, <1>7, OntoMore DEF Wrote
  <2>. HIDE DEF kinds
  <2>2. Onto(m.b, z.b, kinds)
    BY <2>1, OntoTrans
  <2>. QED  BY <1>6, <1>7, <2>2 DEF Wrote
<1>. HIDE DEF kinds
<1>9. Wrote(m, w, tracks, kinds)
  BY <1>3, <1>8, SizedDoes DEF z
<1>. QED  BY <1>9 DEF w, tracks, kinds

------------------------------------------------------------------------------
(* Fragments.                                                               *)

\* The extents of the index are patched, and nothing else.
LEMMA SizeIndexDoes ==
  ASSUME NEW b, IsBuffer(b), NEW n \in Nat, NEW moof, NEW size
  PROVE  Onto(b, SizeIndex(b, n, moof, size), {})
<1>. DEFINE r == SizeIndex(b, n, moof, size)
<1>0. r = SizeIndex(b, n, moof, size)
  OBVIOUS
<1>. HIDE DEF r
<1>1. PICK g : /\ g[0] = b
               /\ \A t \in 1..n : g[t] = WithExtent(g[t - 1], n, t, moof, size)
               /\ r = g[n]
  BY <1>0, SizeIndexIs
<1>2. ASSUME NEW t \in 1..n, IsBuffer(g[t - 1])
      PROVE  Onto(g[t - 1], g[t], {})
  <2>. DEFINE c == g[t - 1]
              at == moof - (n - t + 1)
  <2>1. g[t] = Patch(c, at, "referenced_size", size) /\ IsBuffer(c)
    BY <1>1, <1>2 DEF WithExtent
  <2>. HIDE DEF c, at
  <2>2. Onto(c, c, {})
    BY <2>1, OntoItself
  <2>3. Onto(c, Patch(c, at, "referenced_size", size), {})
    BY <2>2, OntoPatch
  <2>. QED  BY <2>1, <2>3 DEF c
<1>3. \A t \in 0..n : Onto(g[0], g[t], {})
  BY <1>1, <1>2, OntoAll
<1>. QED  BY <1>1, <1>3 DEF r

\* The index is one box per track.
LEMMA WriteSidxDoes ==
  ASSUME NEW b, IsBuffer(b), NEW tracks, Len(tracks) \in Nat
  PROVE  Onto(b, WriteSidx(b, tracks), {"sidx"})
<1>. DEFINE new == [t \in 1..Len(tracks) |->
                     LET s == tracks[t].samples
                     IN [box |-> "sidx", track |-> t, referenced_size |-> 0,
                         first_offset |-> Len(tracks) - t,
                         earliest |-> IF s = <<>> THEN 0 ELSE s[1].dts,
                         duration |-> IF s = <<>> THEN 0 ELSE Last(s).dts - s[1].dts]]
<1>1. /\ WriteSidx(b, tracks) = Put(b, new)
      /\ new = [t \in 1..Len(tracks) |-> new[t]]
      /\ \A t \in 1..Len(tracks) : "box" \in DOMAIN new[t] /\ new[t].box = "sidx"
  BY DEF WriteSidx
<1>. HIDE DEF new
<1>2. IsSequence(new) /\ Len(new) = Len(tracks)
  BY <1>1, OnIndices
<1>3. Onto(b, b, {"sidx"})
  BY OntoItself
<1>4. \A i \in 1..Len(new) : "box" \in DOMAIN new[i] /\ new[i].box \in {"sidx"}
  BY <1>1, <1>2
<1>5. Onto(b, Put(b, new), {"sidx"})
  BY <1>2, <1>3, <1>4, OntoPut
<1>. QED  BY <1>1, <1>5

\* A moof stays what it is when more is written behind it.
LEMMA MoofStays ==
  ASSUME NEW p, NEW q, Further(p, q), NEW at, NEW last, NEW tracks, IsMoof(p, at, last, tracks)
  PROVE  IsMoof(q, at, last, tracks)
<1>1. /\ Len(p) \in Nat /\ Len(q) \in Nat /\ Len(p) <= Len(q)
      /\ \A i \in 1..Len(p) : Alike(p[i], q[i])
  BY SequenceIs DEF Further
<1>2. at \in 1..last /\ last \in 1..Len(p)
  BY DEF IsMoof
<1>3. last \in Nat /\ last <= Len(p)
  BY <1>1, <1>2
<1>4. at \in 1..Len(p) /\ \A i \in at + 1..last : i \in 1..Len(p)
  BY <1>1, <1>2, <1>3
<1>5. \A i \in at + 1..last : Alike(p[i], q[i])
  BY <1>1, <1>4
<1>6. {"box", "size"} \subseteq DOMAIN q[at] /\ q[at].box = "moof" /\ q[at].size = p[at].size
  BY <1>1, <1>4 DEF Alike, IsMoof
<1>7. \A i \in at + 1..last : "box" \in DOMAIN q[i] /\ q[i].box = p[i].box
  BY <1>5 DEF Alike, IsMoof
<1>8. \A i \in at + 1..last : \A u, s : IsTraf(p[i], u, s) => IsTraf(q[i], u, s)
  BY <1>5 DEF Alike, IsTraf
<1>9. last \in 1..Len(q)
  BY <1>1, <1>2, <1>3
<1>. QED  BY <1>2, <1>6, <1>7, <1>8, <1>9 DEF IsMoof

\* The writer keeps its tracks partitioned.
LEMMA TracksAreCut ==
  ASSUME NEW now, NEW w, Whole(w, now), NEW b, IsBuffer(b)
  PROVE  Work([b |-> b, tracks |-> w.tracks], w.tracks)
<1>. DEFINE tracks == w.tracks
            m == [b |-> b, tracks |-> tracks]
<1>1. IsSequence(tracks) /\ \A t \in 1..Len(tracks) : GoodTrack(tracks[t], now)
  BY DEF Whole
<1>. HIDE DEF tracks
<1>2. ASSUME NEW t \in 1..Len(tracks)
      PROVE  /\ Cut(tracks[t].samples) /\ "samples" \in DOMAIN tracks[t]
             /\ Marked(tracks[t].samples, tracks[t].samples)
  <2>. DEFINE s == tracks[t].samples
  <2>1. s \in Seq(Sample) /\ Parted(s, tracks[t].offset) /\ "samples" \in DOMAIN tracks[t]
    BY <1>1 DEF GoodTrack, TrackFields
  <2>. HIDE DEF s
  <2>2. Parted(s, Len(s))
    BY <2>1, AllClosed
  <2>3. Cut(s)
    BY <2>1, <2>2 DEF Parted, Cut
  <2>. QED  BY <2>1, <2>3, MarkedItself DEF s
<1>3. DOMAIN m = {"b", "tracks"} /\ m.b = b /\ m.tracks = tracks
  OBVIOUS
<1>. HIDE DEF m
<1>4. Work(m, tracks)
  BY <1>1, <1>2, <1>3 DEF Work
<1>. QED  BY <1>4 DEF m, tracks

\* Only in a segment there is a sidx.
FrontBoxes == {"styp", "ftyp", "moov"} \cup (IF SEGMENT THEN {"sidx"} ELSE {})
FragmentBoxes == FrontBoxes \cup {"moof", "traf", "trun", "mdat", "data"}

\* What f, a fragment of writer w with its moof at moof, does behind the cells of b.
Fragmented(w, b, f, grown, moof) ==
  /\ f.w.tracks = [t \in 1..Len(w.tracks) |->
                     Cleared(AddFragmentEntry(w.tracks[t], moof, grown[t]))]
  /\ f.w.mdat_size = 0
  /\ Onto(b, f.b, FragmentBoxes)
  /\ ~f.b.error =>
       /\ moof \in Nat /\ Len(b.cells) < moof
       /\ \E last : IsMoof(f.b.cells, moof, last, w.tracks)
       /\ \A i \in Len(b.cells) + 1..Len(f.b.cells) : f.b.cells[i].box = "moof" => i = moof

\* A fragment adds one moof, with a traf for each track that has samples, and the
\* tables of entries learn where it is.
LEMMA FragmentDoes ==
  ASSUME NEW now, NEW w, Whole(w, now), w.mdat_size # 0, Len(w.tracks) # 0,
         NEW b, IsBuffer(b), NEW grown
  PROVE  \E moof : Fragmented(w, b, Fragment(w, b, grown), grown, moof)
<1>. DEFINE f == Fragment(w, b, grown)
            n == Len(w.tracks)
            head == IF SEGMENT THEN <<[box |-> "styp"]>>
                    ELSE <<[box |-> "ftyp"], [box |-> "moov"]>>
            started == IF w.has_moov THEN b ELSE Put(b, head)
            indexed == IF SEGMENT THEN WriteSidx(started, w.tracks) ELSE started
            moof == Tell(indexed)
            base == [b |-> indexed, tracks |-> w.tracks]
            m == WriteMoof(base, w.fragment_id + 1)
            refsize == Tell(m.b) - moof + w.mdat_size + 1
            x == IF SEGMENT THEN [m EXCEPT !.b = SizeIndex(m.b, n, moof, refsize)] ELSE m
            done == WriteMdat(x, moof)
            front == FrontBoxes
            v == [w EXCEPT !.has_moov = TRUE, !.fragment_id = @ + 1, !.mdat_size = 0,
                           !.heap = @ \ Freed(w.tracks),
                           !.tracks = [t \in 1..n |->
                             Cleared(AddFragmentEntry(w.tracks[t], moof, grown[t]))]]
<1>1. /\ DOMAIN w = WriterFields /\ w.mdat_size \in Nat /\ IsSequence(w.tracks) /\ n \in Nat \ {0}
      /\ \A t \in 1..n : GoodTrack(w.tracks[t], now)
  BY SequenceIs DEF Whole
<1>2. f = [b |-> done.b, w |-> v]
  <2>1. ~(w.mdat_size < 1)
    BY <1>1
  <2>2. ~(\E t \in 1..n : ~WellClustered(w.tracks[t].samples))
    BY <1>1, AllWellClustered
  <2>. QED  BY <2>1, <2>2 DEF Fragment
<1>3. Onto(b, started, front)
  <2>1. IsSequence(head) /\ \A i \in 1..Len(head) : "box" \in DOMAIN head[i] /\ head[i].box \in front
    <3>1. CASE SEGMENT
      <4>. DEFINE cell == [box |-> "styp"]
      <4>1. "box" \in DOMAIN cell /\ cell.box \in front /\ head = <<cell>>
        BY <3>1 DEF FrontBoxes
      <4>. HIDE DEF cell, head, front
      <4>. QED  BY <4>1, OneCell
    <3>2. CASE ~SEGMENT
      <4>. DEFINE S == [box : {"ftyp", "moov"}]
      <4>1. head = <<[box |-> "ftyp"], [box |-> "moov"]>>
        BY <3>2
      <4>2. <<[box |-> "ftyp"], [box |-> "moov"]>> \in Seq(S)
        OBVIOUS
      <4>3. head \in Seq(S)
        BY <4>1, <4>2
      <4>4. \A cell \in S : "box" \in DOMAIN cell /\ cell.box \in front
        BY DEF FrontBoxes
      <4>. HIDE DEF head, front, S
      <4>5. \A i \in 1..Len(head) : head[i] \in S
        BY <4>3
      <4>. QED  BY <4>3, <4>4, <4>5 DEF IsSequence
    <3>. QED  BY <3>1, <3>2
  <2>. HIDE DEF head, front
  <2>2. Onto(b, b, front)
    BY OntoItself
  <2>3. Onto(b, Put(b, head), front)
    BY <2>1, <2>2, OntoPut
  <2>. QED  BY <2>2, <2>3
<1>. HIDE DEF started
<1>4. Onto(b, indexed, front) /\ IsBuffer(indexed)
  <2>1. Onto(started, WriteSidx(started, w.tracks), {"sidx"})
    BY <1>1, <1>3, WriteSidxDoes DEF Onto
  <2>2. SEGMENT => Onto(started, WriteSidx(started, w.tracks), front)
    <3>1. SEGMENT => {"sidx"} \subseteq front
      BY DEF FrontBoxes
    <3>. QED  BY <2>1, <3>1, OntoMore
  <2>. HIDE DEF front
  <2>3. SEGMENT => Onto(b, WriteSidx(started, w.tracks), front)
    BY <1>3, <2>2, OntoTrans
  <2>4. Onto(b, indexed, front)
    BY <1>3, <2>3
  <2>. HIDE DEF indexed
  <2>. QED  BY <2>4 DEF Onto
<1>. HIDE DEF indexed, front
<1>5. Work(base, w.tracks) /\ base.b = indexed
  BY <1>4, TracksAreCut
<1>6. /\ Wrote(base, m, w.tracks, {"moof", "traf", "trun"})
      /\ ~m.b.error => /\ IsMoof(m.b.cells, moof, Len(m.b.cells), w.tracks)
                       /\ moof = Len(indexed.cells) + 1
  <2>. DEFINE id == w.fragment_id + 1
              at == Tell(base.b)
  <2>1. at = moof
    OBVIOUS
  <2>. HIDE DEF base, id
  <2>2. Wrote(base, WriteMoof(base, id), w.tracks, {"moof", "traf", "trun"})
        /\ (~WriteMoof(base, id).b.error =>
              IsMoof(WriteMoof(base, id).b.cells, at, Len(WriteMoof(base, id).b.cells), w.tracks)
              /\ at = Len(base.b.cells) + 1)
    BY <1>5, WriteMoofDoes
  <2>. QED  BY <1>5, <2>1, <2>2 DEF id
<1>. HIDE DEF m, base, moof, refsize
<1>7. Work(x, w.tracks) /\ Onto(m.b, x.b, {})
  <2>1. Onto(m.b, m.b, {}) /\ IsBuffer(m.b) /\ DOMAIN m = {"b", "tracks"}
    BY <1>6, OntoItself DEF Wrote, Work
  <2>2. CASE SEGMENT
    <3>. DEFINE c == SizeIndex(m.b, n, moof, refsize)
    <3>1. Onto(m.b, c, {})
      <4>. HIDE DEF n
      <4>. QED  BY <1>1, <2>1, SizeIndexDoes
    <3>2. x = [m EXCEPT !.b = c]
      BY <2>2
    <3>. HIDE DEF c, x
    <3>3. DOMAIN x = {"b", "tracks"} /\ x.b = c /\ x.tracks = m.tracks
      BY <2>1, <3>2
    <3>. QED  BY <1>6, <3>1, <3>3 DEF Wrote, Work, Onto
  <2>3. CASE ~SEGMENT
    BY <1>6, <2>1, <2>3 DEF Wrote
  <2>. QED  BY <2>2, <2>3
<1>. HIDE DEF x
<1>8. Work(x, x.tracks) /\ Len(x.tracks) # 0
  <2>1. /\ DOMAIN x = {"b", "tracks"} /\ IsBuffer(x.b) /\ IsSequence(x.tracks) /\ Len(x.tracks) = n
        /\ \A t \in 1..n : /\ Cut(w.tracks[t].samples) /\ "samples" \in DOMAIN x.tracks[t]
                           /\ Marked(w.tracks[t].samples, x.tracks[t].samples)
    BY <1>7 DEF Work
  <2>2. \A t \in 1..n : Cut(x.tracks[t].samples)
    BY <2>1, MarkedCut
  <2>3. \A t \in 1..n : Marked(x.tracks[t].samples, x.tracks[t].samples)
    BY <2>2, MarkedItself DEF Cut
  <2>. QED  BY <1>1, <2>1, <2>2, <2>3 DEF Work
<1>9. Onto(x.b, done.b, {"mdat", "data"})
  BY <1>8, WriteMdatDoes DEF Wrote
<1>. HIDE DEF done
<1>10. Onto(m.b, done.b, {"mdat", "data"})
  <2>1. Onto(m.b, x.b, {"mdat", "data"})
    BY <1>7, OntoMore
  <2>. QED  BY <1>9, <2>1, OntoTrans
<1>. DEFINE c == f.b
<1>11. /\ c = done.b /\ f.w = v /\ v.mdat_size = 0
       /\ v.tracks = [t \in 1..n |-> Cleared(AddFragmentEntry(w.tracks[t], moof, grown[t]))]
  BY <1>1, <1>2 DEF WriterFields
<1>. HIDE DEF f, v
<1>12. Onto(b, c, FragmentBoxes)
  <2>1. Onto(b, indexed, FragmentBoxes)
    BY <1>4, OntoMore DEF front, FragmentBoxes
  <2>2. Onto(indexed, m.b, FragmentBoxes)
    BY <1>5, <1>6, OntoMore DEF Wrote, FragmentBoxes
  <2>3. Onto(m.b, c, FragmentBoxes)
    BY <1>10, <1>11, OntoMore DEF FragmentBoxes
  <2>4. Onto(b, m.b, FragmentBoxes)
    BY <2>1, <2>2, OntoTrans
  <2>. QED  BY <2>3, <2>4, OntoTrans
<1>13. ASSUME ~c.error
       PROVE  /\ moof \in Nat /\ Len(b.cells) < moof
              /\ \E last : IsMoof(c.cells, moof, last, w.tracks)
              /\ \A i \in Len(b.cells) + 1..Len(c.cells) : c.cells[i].box = "moof" => i = moof
  <2>. DEFINE last == Len(m.b.cells)
  <2>1. /\ ~m.b.error /\ last <= Len(c.cells) /\ IsBuffer(m.b) /\ IsBuffer(c)
        /\ \A i \in 1..last : Alike(m.b.cells[i], c.cells[i])
        /\ \A i \in last + 1..Len(c.cells) : c.cells[i].box \in {"mdat", "data"}
    BY <1>10, <1>11, <1>13 DEF Onto
  <2>2. /\ ~indexed.error /\ IsBuffer(indexed)
        /\ \A i \in 1..Len(indexed.cells) : Alike(indexed.cells[i], m.b.cells[i])
    BY <1>5, <1>6, <2>1 DEF Wrote, Onto
  <2>3. /\ Len(b.cells) <= Len(indexed.cells)
        /\ \A i \in Len(b.cells) + 1..Len(indexed.cells) :
             "box" \in DOMAIN indexed.cells[i] /\ indexed.cells[i].box \in front
    BY <1>4, <2>2 DEF Onto
  <2>4. /\ Len(b.cells) \in Nat /\ Len(indexed.cells) \in Nat /\ last \in Nat
        /\ Len(c.cells) \in Nat
    BY <2>1, <2>2, SequenceIs DEF IsBuffer
  <2>5. IsMoof(m.b.cells, moof, last, w.tracks) /\ moof = Len(indexed.cells) + 1
    BY <1>6, <2>1
  <2>6. Further(m.b.cells, c.cells)
    BY <2>1 DEF Further, IsBuffer
  <2>7. IsMoof(c.cells, moof, last, w.tracks)
    BY <2>5, <2>6, MoofStays
  <2>. HIDE DEF c, last
  <2>8. ASSUME NEW i \in Len(b.cells) + 1..Len(c.cells), c.cells[i].box = "moof", i # moof
        PROVE  FALSE
    <3>1. CASE i < moof
      <4>1. i \in Len(b.cells) + 1..Len(indexed.cells) /\ i \in 1..Len(indexed.cells)
            /\ i \in 1..last
        BY <2>4, <2>5, <3>1 DEF IsMoof
      <4>2. Alike(indexed.cells[i], m.b.cells[i]) /\ Alike(m.b.cells[i], c.cells[i])
            /\ "box" \in DOMAIN indexed.cells[i] /\ indexed.cells[i].box \in front
        BY <2>1, <2>2, <2>3, <4>1
      <4>3. c.cells[i].box = indexed.cells[i].box
        BY <4>2 DEF Alike
      <4>. QED  BY <2>8, <4>2, <4>3 DEF front, FrontBoxes
    <3>2. CASE i > moof /\ i <= last
      <4>1. i \in moof + 1..last
        BY <2>4, <2>5, <3>2
      <4>2. c.cells[i].box \in {"traf", "trun"}
        BY <2>7, <4>1 DEF IsMoof
      <4>. QED  BY <2>8, <4>2
    <3>3. CASE i > last
      <4>1. i \in last + 1..Len(c.cells)
        BY <2>4, <3>3
      <4>. QED  BY <2>1, <2>8, <4>1
    <3>. QED  BY <2>4, <2>5, <2>8, <3>1, <3>2, <3>3
  <2>9. moof \in Nat /\ Len(b.cells) < moof
    BY <2>3, <2>4, <2>5
  <2>. QED  BY <2>7, <2>8, <2>9
<1>14. Fragmented(w, b, f, grown, moof)
  BY <1>11, <1>12, <1>13 DEF Fragmented, n
<1>. QED  BY <1>14 DEF f

==============================================================================
