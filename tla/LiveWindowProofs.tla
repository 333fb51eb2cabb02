-------------------------- MODULE LiveWindowProofs --------------------------
(***************************************************************************)
(* MpdStore implements LiveWindow: what the worker and the deleter do to   *)
(* files and lists, seen through the mapping Window of MpdStore, is a step *)
(* of the abstract window or no step at all.                               *)
(***************************************************************************)
EXTENDS MpdStoreProofs, FunctionTheorems

\* The mapping of Window, stream by stream.
Latest(s) == fname[s] - (IF pc[s] \in {"lock", "insert", "close"} THEN 2 ELSE 1)
Offered(s) == {[no |-> m.no, seg |-> m.seg] : m \in {f \in mpds[s] : f.whole}}
Withdrawn(s) == (1..linked[s]) \ (segs[s] \cup missing[s])

\* A step that changes nothing a client of stream t sees.
Unseen(t) == /\ linked'[t] = linked[t] /\ Latest(t)' = Latest(t)
             /\ Offered(t)' = Offered(t) /\ Withdrawn(t)' = Withdrawn(t)
------------------------------------------------------------------------------
(* Steps of the abstract window.                                            *)

\* A step that no client of any stream sees is a stutter of the abstract window.
LEMMA AbstractStutter ==
  ASSUME TypeOK, TypeOK', \A t \in Streams : Unseen(t)
  PROVE  UNCHANGED Window!vars
<1>1. linked' = linked
  BY DEF TypeOK, Unseen
<1>2. \A t \in Streams : Latest(t)' = Latest(t) /\ Offered(t)' = Offered(t)
                         /\ Withdrawn(t)' = Withdrawn(t)
  BY DEF Unseen
<1>. QED  BY <1>1, <1>2 DEF Window!vars, Latest, Offered, Withdrawn

\* Linking a segment is a Produce.
LEMMA AbstractProduce ==
  ASSUME TypeOK, TypeOK', NEW s \in Streams, \A t \in Streams \ {s} : Unseen(t),
         linked'[s] = linked[s] + 1, Latest(s)' = Latest(s),
         Offered(s)' = Offered(s), Withdrawn(s)' = Withdrawn(s)
  PROVE  Window!Next
<1>1. linked' = [linked EXCEPT ![s] = @ + 1]
  BY DEF TypeOK, Unseen
<1>2. \A t \in Streams : Latest(t)' = Latest(t) /\ Offered(t)' = Offered(t)
                         /\ Withdrawn(t)' = Withdrawn(t)
  BY DEF Unseen
<1>3. Window!Produce(s)
  BY <1>1, <1>2 DEF Window!Produce, Latest, Offered, Withdrawn
<1>. QED  BY <1>3 DEF Window!Next

\* A playlist that becomes whole, the newest of its stream and naming no
\* withdrawn segment, is a Publish.
LEMMA AbstractPublish ==
  ASSUME TypeOK, TypeOK', NEW s \in Streams, \A t \in Streams \ {s} : Unseen(t),
         linked'[s] = linked[s], Withdrawn(s)' = Withdrawn(s),
         Latest(s)' = Latest(s) + 1,
         Offered(s)' = Offered(s) \cup {[no |-> Latest(s) + 1, seg |-> linked[s]]},
         Listed(linked[s]) \cap Withdrawn(s) = {},
         \A q \in Offered(s) : q.seg < linked[s]
  PROVE  Window!Next
<1>1. linked' = linked
  BY DEF TypeOK, Unseen
<1>2. /\ \A t \in Streams : Withdrawn(t)' = Withdrawn(t)
      /\ \A t \in Streams \ {s} : Latest(t)' = Latest(t) /\ Offered(t)' = Offered(t)
  BY DEF Unseen
<1>. DEFINE L == [t \in Streams |-> Latest(t)]
            O == [t \in Streams |-> Offered(t)]
            W == [t \in Streams |-> Withdrawn(t)]
            p == [no |-> Latest(s) + 1, seg |-> linked[s]]
<1>3. W' = W
  BY <1>2
<1>4. L' = [L EXCEPT ![s] = p.no]
  BY <1>2
<1>5. O' = [O EXCEPT ![s] = @ \cup {p}]
  BY <1>2
<1>6. Window!Names(p) \cap Withdrawn(s) = {}
  BY DEF Window!Names, Listed
<1>7. L[s] = Latest(s) /\ O[s] = Offered(s) /\ W[s] = Withdrawn(s)
  OBVIOUS
<1>8. \A q \in Offered(s) : q.seg < p.seg
  OBVIOUS
<1>9. Window!Publish(s)
  <2>1. /\ p = [no |-> L[s] + 1, seg |-> linked[s]]
        /\ Window!Names(p) \cap W[s] = {}
        /\ \A q \in O[s] : q.seg < p.seg
        /\ O' = [O EXCEPT ![s] = @ \cup {p}]
        /\ L' = [L EXCEPT ![s] = p.no]
        /\ linked' = linked /\ W' = W
    BY <1>1, <1>3, <1>4, <1>5, <1>6, <1>7, <1>8
  <2>. HIDE DEF p
  <2>. QED  BY <2>1 DEF Window!Publish, Latest, Offered, Withdrawn
<1>. QED  BY <1>9 DEF Window!Next

\* The instance counts as FiniteSets does.
LEMMA SameCardinality ==
  ASSUME NEW S
  PROVE  Window!Cardinality(S) = Cardinality(S)
BY DEF Window!Cardinality, Cardinality

\* What Newer counts.
LEMMA NewerOffered ==
  ASSUME NEW s \in Streams, NEW p
  PROVE  Window!Newer(s, p) = Cardinality({q \in Offered(s) : q.no > p.no})
<1>. DEFINE O == [t \in Streams |-> Offered(t)]
<1>1. Window!Newer(s, p) = Window!Cardinality({q \in O[s] : q.no > p.no})
  BY DEF Window!Newer, Offered
<1>2. O[s] = Offered(s)
  OBVIOUS
<1>. HIDE DEF O
<1>3. {q \in O[s] : q.no > p.no} = {q \in Offered(s) : q.no > p.no}
  BY <1>2
<1>. QED  BY <1>1, <1>3, SameCardinality

\* Unlinking a playlist with FILES_MPD_COUNT newer ones is a WithdrawPlaylist.
LEMMA AbstractWithdrawPlaylist ==
  ASSUME TypeOK, TypeOK', NEW s \in Streams, \A t \in Streams \ {s} : Unseen(t),
         linked'[s] = linked[s], Withdrawn(s)' = Withdrawn(s), Latest(s)' = Latest(s),
         NEW p \in Offered(s), Offered(s)' = Offered(s) \ {p},
         Cardinality({q \in Offered(s) : q.no > p.no}) >= FILES_MPD_COUNT
  PROVE  Window!Next
<1>1. linked' = linked
  BY DEF TypeOK, Unseen
<1>2. /\ \A t \in Streams : Withdrawn(t)' = Withdrawn(t) /\ Latest(t)' = Latest(t)
      /\ \A t \in Streams \ {s} : Offered(t)' = Offered(t)
  BY DEF Unseen
<1>. DEFINE O == [t \in Streams |-> Offered(t)]
<1>3. O' = [O EXCEPT ![s] = @ \ {p}]
  BY <1>2
<1>4. Window!Newer(s, p) >= FILES_MPD_COUNT
  BY NewerOffered
<1>5. Window!WithdrawPlaylist(s, p)
  BY <1>1, <1>2, <1>3, <1>4 DEF Window!WithdrawPlaylist, Latest, Offered, Withdrawn
<1>6. p \in O[s]
  OBVIOUS
<1>. QED  BY <1>5, <1>6 DEF Window!Next, Offered

\* Unlinking a segment that only overtaken playlists name is a WithdrawSegment.
LEMMA AbstractWithdrawSegment ==
  ASSUME TypeOK, TypeOK', NEW s \in Streams, \A t \in Streams \ {s} : Unseen(t),
         linked'[s] = linked[s], Offered(s)' = Offered(s), Latest(s)' = Latest(s),
         NEW n \in 1..linked[s], Withdrawn(s)' = Withdrawn(s) \cup {n},
         \A p \in Offered(s) : n \in Listed(p.seg) =>
           Cardinality({q \in Offered(s) : q.no > p.no}) >= FILES_MPD_COUNT + 1 - N_COUNT
  PROVE  Window!Next
<1>1. linked' = linked
  BY DEF TypeOK, Unseen
<1>2. /\ \A t \in Streams : Offered(t)' = Offered(t) /\ Latest(t)' = Latest(t)
      /\ \A t \in Streams \ {s} : Withdrawn(t)' = Withdrawn(t)
  BY DEF Unseen
<1>. DEFINE W == [t \in Streams |-> Withdrawn(t)]
<1>3. W' = [W EXCEPT ![s] = @ \cup {n}]
  BY <1>2
<1>4. \A p \in Offered(s) : n \in Window!Names(p) =>
        Window!Newer(s, p) >= FILES_MPD_COUNT + 1 - N_COUNT
  BY NewerOffered DEF Window!Names, Listed
<1>5. Window!WithdrawSegment(s, n)
  BY <1>1, <1>2, <1>3, <1>4 DEF Window!WithdrawSegment, Latest, Offered, Withdrawn
<1>. QED  BY <1>5 DEF Window!Next
------------------------------------------------------------------------------
(* Counting playlists.                                                      *)

\* A number offered is that of a complete file.
LEMMA OfferedFile ==
  ASSUME IInv, NEW s \in Streams, NEW q \in Offered(s)
  PROVE  /\ q.no \in Nat /\ q.seg \in Nat /\ q.no < fname[s]
         /\ \E m \in mpds[s] : m.whole /\ m.no = q.no /\ m.seg = q.seg
<1>1. PICK m \in mpds[s] : m.whole /\ q = [no |-> m.no, seg |-> m.seg]
  BY DEF Offered
<1>2. m.no \in Nat /\ m.seg \in Nat /\ m.no < fname[s]
  BY <1>1, StreamTypes DEF IInv, StreamInv, FilesInv
<1>. QED  BY <1>1, <1>2

\* The entries that stay, but for the newest, whose file may be open, are offered.
LEMMA KeptOffered ==
  ASSUME IInv, NEW s \in Streams, NEW i \in 1..Len(gl[s]), i <= Kept, i >= 2
  PROVE  gl[s][i] \in Offered(s)
<1>1. gl[s] \in Seq(Entry) /\ fname[s] \in Nat
  BY StreamTypes DEF IInv
<1>2. gl[s][i] \in Entry /\ 1 \in 1..Len(gl[s])
  BY <1>1, EntryFields
<1>3. PICK m \in mpds[s] : m.no = gl[s][i].no /\ m.seg = gl[s][i].seg
  BY DEF IInv, StreamInv, FilesInv
<1>4. gl[s][i].no < gl[s][1].no /\ gl[s][1].no < fname[s]
      /\ gl[s][i].no \in Nat /\ gl[s][1].no \in Nat
  BY <1>1, <1>2, EntriesApart, EntryBelow, EntryFields DEF IInv, StreamInv
<1>5. m.no < fname[s] - 1
  BY <1>1, <1>3, <1>4
<1>6. m.whole
  <2>1. m.no < fname[s] /\ m.no # fname[s] - 1
    BY <1>1, <1>3, <1>4, <1>5
  <2>. QED  BY <2>1 DEF IInv, StreamInv, FilesInv
<1>7. gl[s][i] = [no |-> m.no, seg |-> m.seg]
  BY <1>2, <1>3 DEF Entry
<1>. QED  BY <1>6, <1>7 DEF Offered

\* If the entries 2 .. k stay and are newer than x, at least k - 1 playlists
\* offered are newer than x.
LEMMA Counted ==
  ASSUME IInv, NEW s \in Streams, NEW x \in Nat, NEW k \in Nat,
         k <= Kept, k <= Len(gl[s]), k >= 1,
         \A i \in 2..k : gl[s][i].no > x
  PROVE  Cardinality({q \in Offered(s) : q.no > x}) >= k - 1
<1>. DEFINE T == {q \in Offered(s) : q.no > x}
            f == [i \in 2..k |-> gl[s][i]]
            g == [q \in T |-> q.no]
<1>1. gl[s] \in Seq(Entry) /\ fname[s] \in Nat
  BY StreamTypes DEF IInv
<1>2. \A i \in 2..k : i \in 1..Len(gl[s]) /\ i <= Kept /\ i >= 2
  BY <1>1, KeepAssumption DEF Kept
<1>3. \A i \in 2..k : gl[s][i] \in T
  BY <1>2, KeptOffered
<1>4. ASSUME NEW i \in 2..k, NEW j \in 2..k, gl[s][i] = gl[s][j]
      PROVE  i = j
  <2>1. ASSUME NEW a \in 2..k, NEW b \in 2..k, a < b
        PROVE  gl[s][a].no # gl[s][b].no
    <3>1. gl[s][b].no < gl[s][a].no
      BY <1>2, <2>1, EntriesApart DEF IInv, StreamInv
    <3>2. gl[s][b].no \in Nat /\ gl[s][a].no \in Nat
      BY <1>1, <1>2, EntryFields
    <3>. QED  BY <3>1, <3>2
  <2>2. i < j \/ j < i \/ i = j
    OBVIOUS
  <2>. QED  BY <1>4, <2>1, <2>2
<1>5. f \in Injection(2..k, T)
  BY <1>3, <1>4, Fun_IsInj
<1>6. g \in Injection(T, 0..fname[s])
  <2>1. \A q \in T : q.no \in 0..fname[s]
    BY <1>1, OfferedFile
  <2>2. ASSUME NEW q \in T, NEW r \in T, q.no = r.no
        PROVE  q = r
    <3>1. PICK m \in mpds[s] : m.whole /\ q = [no |-> m.no, seg |-> m.seg]
      BY DEF Offered
    <3>2. PICK n \in mpds[s] : n.whole /\ r = [no |-> n.no, seg |-> n.seg]
      BY DEF Offered
    <3>3. m = n
      BY <2>2, <3>1, <3>2 DEF IInv, StreamInv, FilesInv
    <3>. QED  BY <3>1, <3>2, <3>3
  <2>. QED  BY <2>1, <2>2, Fun_IsInj
<1>. HIDE DEF f, g, T
<1>7. IsFiniteSet(0..fname[s]) /\ IsFiniteSet(2..k)
      /\ Cardinality(2..k) = IF 2 > k THEN 0 ELSE k - 2 + 1
  BY <1>1, FS_Interval
<1>8. IsFiniteSet(T)
  BY <1>6, <1>7, FS_Injection
<1>9. Cardinality(2..k) <= Cardinality(T) /\ Cardinality(T) \in Nat
  BY <1>5, <1>8, FS_Injection, FS_CardinalityType
<1>10. Cardinality(T) >= k - 1
  BY <1>7, <1>9
<1>. QED  BY <1>10 DEF T
------------------------------------------------------------------------------
(* What the steps of the store are to a client.                             *)

\* Nothing is seen of a stream whose files, numbers and place in the handler stay.
LEMMA SameUnseen ==
  ASSUME NEW t \in Streams,
         pc'[t] = pc[t], linked'[t] = linked[t], fname'[t] = fname[t],
         segs'[t] = segs[t], missing'[t] = missing[t], mpds'[t] = mpds[t]
  PROVE  Unseen(t)
BY DEF Unseen, Latest, Offered, Withdrawn

\* The file of a segment that is not linked yet is not seen.
LEMMA WriteSegmentUnseen ==
  ASSUME TypeOK, NEW s \in Streams, WriteSegment(s)
  PROVE  Unseen(s)
<1>1. /\ pc[s] = "idle" /\ pc'[s] \in {"playlist", "link"}
      /\ linked'[s] = linked[s] /\ fname'[s] = fname[s] /\ mpds'[s] = mpds[s]
  BY DEF WriteSegment, Goto, TypeOK, deleterVars
<1>2. segs'[s] \cup missing'[s] = segs[s] \cup missing[s] \cup {linked[s] + 1}
  <2>1. s \in DOMAIN segs /\ s \in DOMAIN missing
    BY DEF TypeOK
  <2>2. \/ segs'[s] = segs[s] \cup {linked[s] + 1} /\ missing'[s] = missing[s]
        \/ missing'[s] = missing[s] \cup {linked[s] + 1} /\ segs'[s] = segs[s]
    BY <2>1 DEF WriteSegment
  <2>. QED  BY <2>2
<1>3. linked[s] \in Nat
  BY StreamTypes
<1>4. Withdrawn(s)' = Withdrawn(s)
  BY <1>1, <1>2, <1>3 DEF Withdrawn
<1>5. Latest(s)' = Latest(s) /\ Offered(s)' = Offered(s)
  BY <1>1 DEF Latest, Offered
<1>. QED  BY <1>1, <1>4, <1>5 DEF Unseen

\* Nor is an MPD file that is not closed.
LEMMA PlaylistUnseen ==
  ASSUME IInv, NEW s \in Streams,
         CountPlaylist(s) \/ WriteMpd(s) \/ FailMpd(s) \/ LockList(s) \/ InsertEntry(s)
  PROVE  Unseen(s)
<1>1. fname[s] \in Nat /\ \A m \in mpds[s] : m.no \in Nat
  BY StreamTypes DEF IInv
<1>2. /\ linked'[s] = linked[s] /\ segs'[s] = segs[s] /\ missing'[s] = missing[s]
      /\ mpds'[s] = mpds[s] \/ mpds'[s] = Written(mpds[s], fname[s], linked[s])
      /\ \/ /\ pc[s] = "playlist" /\ pc'[s] = "link" /\ fname'[s] = fname[s]
         \/ /\ pc[s] = "playlist" /\ pc'[s] = "lock" /\ fname'[s] = fname[s] + 1
         \/ /\ pc[s] \in {"lock", "insert"} /\ pc'[s] \in {"insert", "close"}
            /\ fname'[s] = fname[s]
  BY DEF IInv, TypeOK, CountPlaylist, WriteMpd, FailMpd, LockList, InsertEntry, Goto,
         deleterVars
<1>6. Latest(s)' = Latest(s)
  BY <1>1, <1>2 DEF Latest
<1>3. \A m \in mpds[s] : m.whole => m.no # fname[s]
  BY <1>1 DEF IInv, StreamInv, FilesInv
<1>4. {m \in Written(mpds[s], fname[s], linked[s]) : m.whole} = {m \in mpds[s] : m.whole}
  BY <1>3 DEF Written
<1>5. Offered(s)' = Offered(s)
  BY <1>2, <1>4 DEF Offered
<1>. QED  BY <1>2, <1>5, <1>6 DEF Unseen, Withdrawn

\* Closing the MPD file publishes it: the next number, the newest linked segment,
\* and nothing it names is gone.
LEMMA CloseMpdPublishes ==
  ASSUME FILES_MPD_COUNT >= N_COUNT - 1, IInv, IInv', NEW s \in Streams,
         \A t \in Streams \ {s} : Unseen(t), CloseMpd(s)
  PROVE  Window!Next
<1>1. /\ pc[s] = "close" /\ pc'[s] = "link"
      /\ linked'[s] = linked[s] /\ fname'[s] = fname[s]
      /\ segs'[s] = segs[s] /\ missing'[s] = missing[s]
      /\ mpds'[s] = Closed(mpds[s], fname[s] - 1)
  BY DEF CloseMpd, Goto, IInv, TypeOK, deleterVars
<1>2. /\ linked[s] \in Nat /\ fname[s] \in Nat /\ gl[s] \in Seq(Entry)
      /\ mpds[s] \in SUBSET MpdFile
      /\ \A m \in mpds[s] : m.no \in Nat /\ m.seg \in Nat /\ m.whole \in BOOLEAN
  BY StreamTypes DEF IInv
<1>3. Latest(s)' = Latest(s) + 1 /\ Latest(s) + 1 = fname[s] - 1
  BY <1>1, <1>2 DEF Latest
<1>4. /\ 1 \in 1..Len(gl[s]) /\ Safe(1) /\ 1 <= Kept
      /\ gl[s][1].no = fname[s] - 1 /\ gl[s][1].seg = linked[s]
  BY <1>1, <1>2, KeepAssumption, WindowAssumption
     DEF IInv, StreamInv, ListInv, Safe, Kept
<1>5. Listed(linked[s]) \cap Withdrawn(s) = {}
  BY <1>4, NamedStays DEF Withdrawn
<1>6. \A q \in Offered(s) : q.seg < linked[s]
  BY <1>1, OfferedFile DEF IInv, StreamInv, FilesInv
<1>7. PICK m \in mpds[s] : m.no = fname[s] - 1 /\ m.seg = linked[s]
  BY <1>4 DEF IInv, StreamInv, FilesInv
<1>. DEFINE shut(k) == [k EXCEPT !.whole = k.whole \/ k.no = fname[s] - 1]
            p == [no |-> fname[s] - 1, seg |-> linked[s]]
<1>8. mpds'[s] = {shut(k) : k \in mpds[s]}
  BY <1>1 DEF Closed
<1>9. \A k \in mpds[s] : /\ shut(k).no = k.no /\ shut(k).seg = k.seg
                         /\ shut(k).whole <=> k.whole \/ k.no = fname[s] - 1
  BY <1>2 DEF MpdFile
<1>. HIDE DEF shut
<1>10. \A k \in mpds[s] : k.no = fname[s] - 1 => k = m
  BY <1>7 DEF IInv, StreamInv, FilesInv
<1>11. Offered(s)' = Offered(s) \cup {p}
  <2>1. Offered(s)' = {[no |-> k.no, seg |-> k.seg] : k \in {f \in mpds'[s] : f.whole}}
    BY DEF Offered
  <2>2. ASSUME NEW q \in Offered(s)'
        PROVE  q \in Offered(s) \cup {p}
    <3>1. PICK k \in mpds[s] : q = [no |-> k.no, seg |-> k.seg]
                               /\ (k.whole \/ k.no = fname[s] - 1)
      BY <2>1, <1>8, <1>9
    <3>2. CASE k.whole
      BY <3>1, <3>2 DEF Offered
    <3>3. CASE k.no = fname[s] - 1
      BY <1>7, <1>10, <3>1, <3>3
    <3>. QED  BY <3>1, <3>2, <3>3
  <2>3. ASSUME NEW q \in Offered(s)
        PROVE  q \in Offered(s)'
    <3>1. PICK k \in mpds[s] : q = [no |-> k.no, seg |-> k.seg] /\ k.whole
      BY DEF Offered
    <3>2. shut(k) \in mpds'[s] /\ shut(k).whole /\ q = [no |-> shut(k).no, seg |-> shut(k).seg]
      BY <1>8, <1>9, <3>1
    <3>. QED  BY <2>1, <3>2
  <2>4. p \in Offered(s)'
    <3>1. shut(m) \in mpds'[s] /\ shut(m).whole /\ p = [no |-> shut(m).no, seg |-> shut(m).seg]
      BY <1>7, <1>8, <1>9
    <3>. QED  BY <2>1, <3>1
  <2>. QED  BY <2>2, <2>3, <2>4
<1>12. Withdrawn(s)' = Withdrawn(s)
  BY <1>1 DEF Withdrawn
<1>13. Offered(s)' = Offered(s) \cup {[no |-> Latest(s) + 1, seg |-> linked[s]]}
  BY <1>3, <1>11
<1>14. TypeOK /\ TypeOK'
  BY DEF IInv
<1>. QED  BY <1>1, <1>3, <1>5, <1>6, <1>12, <1>13, <1>14, AbstractPublish

\* Linking a segment produces it; its file was written before, or never will be.
LEMMA LinkSegmentProduces ==
  ASSUME IInv, IInv', NEW s \in Streams,
         \A t \in Streams \ {s} : Unseen(t), LinkSegment(s)
  PROVE  Window!Next
<1>1. /\ pc[s] = "link" /\ pc'[s] = "idle"
      /\ linked'[s] = linked[s] + 1 /\ fname'[s] = fname[s]
      /\ segs'[s] = segs[s] /\ missing'[s] = missing[s] /\ mpds'[s] = mpds[s]
  BY DEF LinkSegment, Goto, IInv, TypeOK, deleterVars
<1>2. linked[s] \in Nat
  BY StreamTypes DEF IInv
<1>3. linked[s] + 1 \in segs[s] \cup missing[s]
  BY <1>1 DEF IInv, StreamInv, SegsInv
<1>4. Withdrawn(s)' = Withdrawn(s)
  BY <1>1, <1>2, <1>3 DEF Withdrawn
<1>5. Latest(s)' = Latest(s) /\ Offered(s)' = Offered(s)
  BY <1>1 DEF Latest, Offered
<1>. QED  BY <1>1, <1>4, <1>5, AbstractProduce DEF IInv

\* Unlinking an MPD file withdraws the playlist: all the entries that stay, but for
\* the newest, are playlists on offer that are newer.
LEMMA UnlinkMpdWithdraws ==
  ASSUME IInv, IInv', NEW s \in Streams, s = turn,
         \A t \in Streams \ {s} : Unseen(t), UnlinkMpd
  PROVE  Window!Next \/ Unseen(s)
<1>1. /\ dpc # "scan" /\ pc'[s] = pc[s] /\ linked'[s] = linked[s]
      /\ fname'[s] = fname[s] /\ segs'[s] = segs[s] /\ missing'[s] = missing[s]
      /\ mpds'[s] = {m \in mpds[s] : m.no # victim.no}
  BY DEF UnlinkMpd, IInv, TypeOK, workerVars
<1>2. /\ fname[s] \in Nat /\ gl[s] \in Seq(Entry)
      /\ \A m \in mpds[s] : m.no \in Nat /\ m.seg \in Nat /\ m.whole \in BOOLEAN
  BY StreamTypes DEF IInv
<1>3. /\ Kept \in 1..Len(gl[s]) /\ victim.no \in Nat /\ victim.no < fname[s] - 1
      /\ \A i \in 1..Kept : victim.no < gl[s][i].no
  BY <1>1, VictimBehind DEF IInv, StreamInv
<1>4. Latest(s)' = Latest(s) /\ Withdrawn(s)' = Withdrawn(s)
  BY <1>1 DEF Latest, Withdrawn
<1>5. CASE \A m \in mpds[s] : m.no # victim.no
  <2>1. mpds'[s] = mpds[s]
    BY <1>1, <1>5
  <2>. QED  BY <1>1, <2>1, SameUnseen
<1>6. ASSUME NEW m \in mpds[s], m.no = victim.no
      PROVE  Window!Next
  <2>. DEFINE p == [no |-> m.no, seg |-> m.seg]
  <2>1. m.whole
    <3>1. m.no < fname[s] /\ m.no # fname[s] - 1
      BY <1>2, <1>3, <1>6
    <3>. QED  BY <3>1 DEF IInv, StreamInv, FilesInv
  <2>2. p \in Offered(s)
    BY <2>1 DEF Offered
  <2>3. \A k \in mpds[s] : k.no = victim.no => k = m
    BY <1>6 DEF IInv, StreamInv, FilesInv
  <2>4. Offered(s)' = Offered(s) \ {p}
    <3>1. Offered(s)' = {[no |-> k.no, seg |-> k.seg] :
                           k \in {f \in mpds[s] : f.whole /\ f.no # victim.no}}
      <4>1. {f \in mpds'[s] : f.whole} = {f \in mpds[s] : f.whole /\ f.no # victim.no}
        BY <1>1
      <4>. QED  BY <4>1 DEF Offered
    <3>. QED  BY <1>6, <2>3, <3>1 DEF Offered
  <2>5. Cardinality({q \in Offered(s) : q.no > p.no}) >= FILES_MPD_COUNT
    <3>1. /\ Kept \in Nat /\ Kept <= Kept /\ Kept <= Len(gl[s]) /\ Kept >= 1
          /\ Kept - 1 = FILES_MPD_COUNT
      BY <1>2, <1>3, KeepAssumption DEF Kept
    <3>2. ASSUME NEW i \in 2..Kept
          PROVE  gl[s][i].no > victim.no
      <4>1. i \in 1..Kept /\ i \in 1..Len(gl[s])
        BY <1>2, <1>3
      <4>2. gl[s][i].no \in Nat
        BY <1>2, <4>1, EntryFields
      <4>. QED  BY <1>3, <4>1, <4>2
    <3>3. Cardinality({q \in Offered(s) : q.no > victim.no}) >= Kept - 1
      BY <1>3, <3>1, <3>2, Counted
    <3>. QED  BY <1>6, <3>1, <3>3
  <2>. QED
    BY <1>1, <1>4, <2>2, <2>4, <2>5, AbstractWithdrawPlaylist DEF IInv
<1>. QED  BY <1>5, <1>6

\* Unlinking a segment file withdraws the segment: a playlist that names it is
\* older than all but N_COUNT - 1 of the entries that stay.
LEMMA UnlinkSegmentWithdraws ==
  ASSUME FILES_MPD_COUNT >= N_COUNT - 1, IInv, IInv', NEW s \in Streams, s = turn,
         \A t \in Streams \ {s} : Unseen(t), UnlinkSegment
  PROVE  Window!Next \/ Unseen(s)
<1>. DEFINE n == victim.seg
<1>1. /\ dpc # "scan" /\ pc'[s] = pc[s] /\ linked'[s] = linked[s]
      /\ fname'[s] = fname[s] /\ mpds'[s] = mpds[s] /\ missing'[s] = missing[s]
      /\ segs'[s] = segs[s] \ {n}
  BY DEF UnlinkSegment, IInv, TypeOK, workerVars
<1>2. /\ fname[s] \in Nat /\ gl[s] \in Seq(Entry) /\ linked[s] \in Nat
      /\ \A m \in mpds[s] : m.no \in Nat /\ m.seg \in Nat
      /\ N_COUNT \in Nat /\ N_COUNT >= 2 /\ FILES_MPD_COUNT \in Nat
  BY StreamTypes, WindowAssumption, KeepAssumption DEF IInv
<1>3. /\ Kept + 1 \in 1..Len(gl[s]) /\ victim = gl[s][Kept + 1]
      /\ n \in Nat /\ n <= linked[s]
  BY <1>1, VictimBehind DEF IInv, StreamInv
<1>4. Latest(s)' = Latest(s) /\ Offered(s)' = Offered(s)
  BY <1>1 DEF Latest, Offered
<1>5. CASE ~(n \in 1..linked[s] /\ n \in segs[s] /\ n \notin missing[s])
  <2>1. Withdrawn(s)' = Withdrawn(s)
    BY <1>1, <1>5 DEF Withdrawn
  <2>. QED  BY <1>1, <1>4, <2>1 DEF Unseen
<1>6. CASE n \in 1..linked[s] /\ n \in segs[s] /\ n \notin missing[s]
  <2>1. Withdrawn(s)' = Withdrawn(s) \cup {n}
    BY <1>1, <1>6 DEF Withdrawn
  <2>2. ASSUME NEW p \in Offered(s), n \in Listed(p.seg)
        PROVE  Cardinality({q \in Offered(s) : q.no > p.no}) >= FILES_MPD_COUNT + 1 - N_COUNT
    <3>. DEFINE k == FILES_MPD_COUNT + 2 - N_COUNT
    <3>1. /\ k \in Nat /\ k >= 1 /\ k <= Kept /\ k <= Len(gl[s])
          /\ k - 1 = FILES_MPD_COUNT + 1 - N_COUNT /\ Kept + 1 - k = N_COUNT
      BY <1>2, <1>3 DEF Kept
    <3>2. PICK m \in mpds[s] : m.whole /\ m.no = p.no /\ m.seg = p.seg
      BY OfferedFile
    <3>3. p.no \in Nat /\ p.seg \in Nat /\ p.no < fname[s] /\ n > p.seg - N_COUNT
      BY <2>2, OfferedFile DEF Listed
    <3>. HIDE DEF k
    <3>4. ASSUME NEW i \in 2..k
          PROVE  gl[s][i].no > p.no
      <4>1. i \in 1..Len(gl[s]) /\ i <= Kept /\ i <= Kept + 1 /\ i \in Nat
        BY <1>2, <3>1 DEF Kept
      <4>2. gl[s][Kept + 1].seg + ((Kept + 1) - i) <= gl[s][i].seg
        BY <1>3, <4>1 DEF IInv, StreamInv, ListInv, Descending
      <4>3. gl[s][i].seg \in Nat /\ gl[s][i].no \in Nat
        BY <1>2, <4>1, EntryFields
      <4>4. n + ((Kept + 1) - i) <= gl[s][i].seg
        BY <1>3, <4>2
      <4>5. (Kept + 1) - i >= N_COUNT /\ (Kept + 1) - i \in Nat
        BY <1>2, <3>1, <4>1 DEF Kept
      <4>7. p.seg < gl[s][i].seg
        <5>. DEFINE a == p.seg
                    b == gl[s][i].seg
                    d == (Kept + 1) - i
        <5>1. a \in Nat /\ b \in Nat /\ d \in Nat
              /\ n + d <= b /\ d >= N_COUNT /\ n > a - N_COUNT
              /\ n \in Nat /\ N_COUNT \in Nat
          BY <1>2, <1>3, <3>3, <4>3, <4>4, <4>5
        <5>. HIDE DEF a, b, d
        <5>2. a < b
          BY <5>1
        <5>. QED  BY <5>2 DEF a, b
      <4>8. PICK f \in mpds[s] : f.no = gl[s][i].no /\ f.seg = gl[s][i].seg
        BY <4>1 DEF IInv, StreamInv, FilesInv
      <4>9. ~(f.no < m.no) /\ f.no # m.no
        <5>1. f.no < m.no => f.seg < m.seg
          BY <3>2, <3>3 DEF IInv, StreamInv, FilesInv
        <5>2. f.no = m.no => f = m
          BY DEF IInv, StreamInv, FilesInv
        <5>. QED  BY <3>2, <3>3, <4>3, <4>7, <4>8, <5>1, <5>2
      <4>. QED  BY <3>2, <3>3, <4>3, <4>8, <4>9
    <3>. QED  BY <3>1, <3>3, <3>4, Counted
  <2>. QED
    BY <1>1, <1>4, <1>6, <2>1, <2>2, AbstractWithdrawSegment DEF IInv
<1>. QED  BY <1>5, <1>6
------------------------------------------------------------------------------
(* The refinement.                                                          *)

\* Every step of the store is a step of the abstract window or none.
LEMMA StepImplements ==
  ASSUME FILES_MPD_COUNT >= N_COUNT - 1, IInv, IInv', [Next]_vars
  PROVE  [Window!Next]_(Window!vars)
<1>1. TypeOK /\ TypeOK' /\ turn \in Streams /\ Active \subseteq Streams
  BY StreamAssumption DEF IInv, TypeOK, Streams
<1>2. (\A t \in Streams : Unseen(t)) => UNCHANGED Window!vars
  BY <1>1, AbstractStutter
<1>3. ASSUME NEW s \in Active, WriteSegment(s) \/ Continue(s)
      PROVE  Window!Next \/ UNCHANGED Window!vars
  <2>1. s \in Streams
    BY <1>1
  <2>2. ASSUME NEW t \in Streams \ {s}
        PROVE  Unseen(t)
    BY <1>1, <1>3, <2>1, OtherStream, SameUnseen
  <2>3. CASE WriteSegment(s) \/ CountPlaylist(s) \/ WriteMpd(s) \/ FailMpd(s)
               \/ LockList(s) \/ InsertEntry(s)
    <3>1. Unseen(s)
      BY <1>1, <2>1, <2>3, WriteSegmentUnseen, PlaylistUnseen
    <3>. QED  BY <1>2, <2>2, <3>1
  <2>4. CASE CloseMpd(s)
    BY <2>1, <2>2, <2>4, CloseMpdPublishes
  <2>5. CASE LinkSegment(s)
    BY <2>1, <2>2, <2>5, LinkSegmentProduces
  <2>. QED  BY <1>3, <2>3, <2>4, <2>5 DEF Continue
<1>4. CASE PassOver \/ PickVictim \/ RemoveEntry
  <2>1. UNCHANGED <<pc, linked, fname, missing, segs, mpds>>
    BY <1>4 DEF PassOver, PickVictim, RemoveEntry, workerVars
  <2>. QED  BY <1>2, <2>1, SameUnseen
<1>5. CASE UnlinkMpd \/ UnlinkSegment
  <2>1. ASSUME NEW t \in Streams \ {turn}
        PROVE  Unseen(t)
    <3>1. /\ pc'[t] = pc[t] /\ linked'[t] = linked[t] /\ fname'[t] = fname[t]
          /\ segs'[t] = segs[t] /\ missing'[t] = missing[t] /\ mpds'[t] = mpds[t]
      BY <1>1, <1>5 DEF UnlinkMpd, UnlinkSegment, TypeOK, workerVars
    <3>. QED  BY <3>1, SameUnseen
  <2>2. PICK s \in Streams : s = turn
    BY <1>1
  <2>3. Window!Next \/ Unseen(s)
    BY <1>5, <2>1, <2>2, UnlinkMpdWithdraws, UnlinkSegmentWithdraws
  <2>4. Unseen(s) => \A t \in Streams : Unseen(t)
    BY <2>1, <2>2
  <2>. QED  BY <1>2, <2>3, <2>4
<1>6. CASE UNCHANGED vars
  <2>1. UNCHANGED <<pc, linked, fname, missing, segs, mpds>>
    BY <1>6 DEF vars, workerVars
  <2>. QED  BY <1>2, <2>1, SameUnseen
<1>. QED  BY <1>3, <1>4, <1>5, <1>6 DEF Next, Delete

\* The worker, the deleter and the file system keep what LiveWindow promises to
\* clients, whatever fails and however they interleave, if an entry stays for every
\* segment an MPD names but its newest (the code keeps five, and names two).
THEOREM PromiseKept ==
  ASSUME FILES_MPD_COUNT >= N_COUNT - 1
  PROVE  Spec => KeepsPromise
<1>1. Init => Window!Init
  <2>. SUFFICES ASSUME Init PROVE Window!Init  OBVIOUS
  <2>1. /\ linked = [s \in Streams |-> 0]
        /\ \A s \in Streams : /\ fname[s] = 1 /\ pc[s] = "idle" /\ linked[s] = 0
                              /\ mpds[s] = {}
    BY DEF Init
  <2>2. \A s \in Streams : Latest(s) = 0 /\ Offered(s) = {} /\ Withdrawn(s) = {}
    BY <2>1 DEF Latest, Offered, Withdrawn
  <2>. QED  BY <2>1, <2>2 DEF Window!Init, Latest, Offered, Withdrawn
<1>2. IInv /\ IInv' /\ [Next]_vars => [Window!Next]_(Window!vars)
  BY StepImplements
<1>. QED  BY <1>1, <1>2, Invariance, PTL DEF Spec, KeepsPromise, Window!Spec
==============================================================================
