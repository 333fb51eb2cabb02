--------------------------- MODULE MpdStoreProofs ---------------------------
(***************************************************************************)
(* Proofs about MpdStore, for every number of streams at work, every       *)
(* window and every run of failing files.  The inductive invariant IInv    *)
(* says who is inside a critical section (LockInv), what a stream's list   *)
(* looks like (ListInv), which MPD files there are and which of them are   *)
(* complete (FilesInv), and what may be gone of the segments (SegsInv).    *)
(***************************************************************************)
EXTENDS MpdStore, FiniteSetTheorems, SequenceTheorems, TLAPS

\* The entries the deleter passes over.
Kept == FILES_MPD_COUNT + 1

\* The MPD file that was written last and is not closed yet.
Writing(s) == pc[s] \in {"lock", "insert", "close"}

\* An inserted entry is newer than those behind it, by one segment each at least.
Descending(w) ==
  \A i, j \in 1..Len(w) : i <= j => /\ w[j].seg + (j - i) <= w[i].seg
                                    /\ w[j].no + (j - i) <= w[i].no

LockInv ==
  /\ \A s \in Streams : owner[s] = Worker <=> pc[s] = "insert"
  /\ \A s \in Streams : owner[s] = Deleter <=> turn = s /\ dpc # "scan"
  /\ dpc # "scan" => Len(gl[turn]) > Kept /\ victim = gl[turn][Kept + 1]

ListInv(s) ==
  /\ Descending(gl[s])
  /\ gl[s] # <<>> =>
       /\ gl[s][1].no = fname[s] - (IF pc[s] \in {"lock", "insert"} THEN 2 ELSE 1)
       /\ gl[s][1].seg <= linked[s]
       /\ pc[s] \notin {"close", "link"} => gl[s][1].seg < linked[s]
  /\ pc[s] = "close" => gl[s] # <<>> /\ gl[s][1].seg = linked[s]

\* A file of number fname[s] is what a failed write left.
FilesInv(s) ==
  /\ \A m, k \in mpds[s] : m.no = k.no => m = k
  /\ \A m, k \in mpds[s] : m.no < k.no /\ k.no < fname[s] => m.seg < k.seg
  /\ \A m \in mpds[s] :
       /\ m.no <= fname[s]
       /\ m.whole <=> m.no < fname[s] /\ ~(Writing(s) /\ m.no = fname[s] - 1)
       /\ m.whole => m.seg <= linked[s] /\ (pc[s] # "link" => m.seg < linked[s])
       /\ Writing(s) /\ m.no = fname[s] - 1 => m.seg = linked[s]
  /\ pc[s] \in {"lock", "insert"} => \E m \in mpds[s] : m.no = fname[s] - 1
  /\ \A i \in 1..Len(gl[s]) : i <= Kept =>
       \E m \in mpds[s] : m.no = gl[s][i].no /\ m.seg = gl[s][i].seg

\* What is gone of the linked segments is older than the oldest entry that stays.
SegsInv(s) ==
  /\ \A n \in 1..linked[s] :
       n \in segs[s] \cup missing[s] \/ (Len(gl[s]) >= Kept /\ n < gl[s][Kept].seg)
  /\ pc[s] # "idle" => linked[s] + 1 \in segs[s] \cup missing[s]

StreamInv(s) == ListInv(s) /\ FilesInv(s) /\ SegsInv(s)

IInv == TypeOK /\ LockInv /\ \A s \in Streams : StreamInv(s)
------------------------------------------------------------------------------
(* Sequences of entries.                                                    *)

\* The fields of a listed entry are naturals.
LEMMA EntryFields ==
  ASSUME NEW w \in Seq(Entry), NEW i \in 1..Len(w)
  PROVE  w[i] \in Entry /\ w[i].no \in Nat /\ w[i].seg \in Nat
<1>1. w[i] \in Entry  OBVIOUS
<1>. QED  BY <1>1 DEF Entry

\* list_insert_after the head: every entry moves up by one place.
LEMMA ConsEntry ==
  ASSUME NEW w \in Seq(Entry), NEW e \in Entry
  PROVE  /\ Cons(e, w) \in Seq(Entry) /\ Len(Cons(e, w)) = Len(w) + 1
         /\ Cons(e, w)[1] = e
         /\ \A i \in 1..Len(w) : Cons(e, w)[i + 1] = w[i]
<1>1. <<e>> \in Seq(Entry) /\ Len(<<e>>) = 1 /\ <<e>>[1] = e
  OBVIOUS
<1>. QED  BY <1>1 DEF Cons

\* list_remove: the entries behind the removed one move down by one place.
LEMMA RemoveAtEntry ==
  ASSUME NEW w \in Seq(Entry), NEW k \in 1..Len(w)
  PROVE  /\ RemoveAt(w, k) \in Seq(Entry) /\ Len(RemoveAt(w, k)) = Len(w) - 1
         /\ \A i \in 1..Len(w) - 1 : RemoveAt(w, k)[i] = IF i < k THEN w[i] ELSE w[i + 1]
<1>. DEFINE a == SubSeq(w, 1, k - 1)
            b == SubSeq(w, k + 1, Len(w))
<1>1. /\ a \in Seq(Entry) /\ Len(a) = k - 1
      /\ \A i \in 1..k - 1 : a[i] = w[i]
  OBVIOUS
<1>2. /\ b \in Seq(Entry) /\ Len(b) = Len(w) - k
      /\ \A i \in 1..Len(w) - k : b[i] = w[i + k]
  OBVIOUS
<1>3. RemoveAt(w, k) = a \o b
  BY DEF RemoveAt
<1>. HIDE DEF a, b
<1>4. /\ a \o b \in Seq(Entry) /\ Len(a \o b) = Len(w) - 1
      /\ \A i \in 1..Len(w) - 1 : (a \o b)[i] = IF i < k THEN a[i] ELSE b[i - (k - 1)]
  <2>1. /\ a \o b \in Seq(Entry) /\ Len(a \o b) = Len(a) + Len(b)
        /\ \A i \in 1..Len(a) + Len(b) :
             (a \o b)[i] = IF i <= Len(a) THEN a[i] ELSE b[i - Len(a)]
    BY <1>1, <1>2, ConcatProperties
  <2>2. Len(a) + Len(b) = Len(w) - 1
    BY <1>1, <1>2
  <2>. QED  BY <1>1, <2>1, <2>2
<1>5. ASSUME NEW i \in 1..Len(w) - 1
      PROVE  (a \o b)[i] = IF i < k THEN w[i] ELSE w[i + 1]
  <2>1. CASE i < k
    BY <1>1, <1>4, <2>1
  <2>2. CASE ~(i < k)
    <3>1. i - (k - 1) \in 1..Len(w) - k /\ (i - (k - 1)) + k = i + 1
      BY <2>2
    <3>. QED  BY <1>2, <1>4, <2>2, <3>1
  <2>. QED  BY <2>1, <2>2
<1>. QED  BY <1>3, <1>4, <1>5

\* Distances along a descending list add up.
LEMMA OneFurther ==
  ASSUME NEW a \in Nat, NEW b \in Nat, NEW c \in Nat, NEW j \in Int,
         a + ((j - 1) - 1) <= b, b < c
  PROVE  a + (j - 1) <= c
OBVIOUS

\* What holds for a longer way holds for a shorter one.
LEMMA NoFurther ==
  ASSUME NEW a \in Nat, NEW b \in Nat, NEW x \in Int, NEW y \in Int,
         a + y <= b, x <= y
  PROVE  a + x <= b
OBVIOUS

\* Numbers that are d apart are in order, and differ unless d is 0.
LEMMA Apart ==
  ASSUME NEW a \in Nat, NEW b \in Nat, NEW d \in Nat, a + d <= b
  PROVE  a <= b /\ (d >= 1 => a < b)
OBVIOUS

\* An entry newer than the newest one keeps the list descending.
LEMMA ConsDescending ==
  ASSUME NEW w \in Seq(Entry), NEW e \in Entry, Descending(w),
         w # <<>> => w[1].seg < e.seg /\ w[1].no < e.no
  PROVE  Descending(Cons(e, w))
<1>. DEFINE v == Cons(e, w)
<1>1. /\ v \in Seq(Entry) /\ Len(v) = Len(w) + 1 /\ v[1] = e
      /\ \A i \in 1..Len(w) : v[i + 1] = w[i]
  BY ConsEntry
<1>. HIDE DEF v
<1>2. ASSUME NEW i \in 1..Len(v), NEW j \in 1..Len(v), i <= j
      PROVE  v[j].seg + (j - i) <= v[i].seg /\ v[j].no + (j - i) <= v[i].no
  <2>1. v[i].seg \in Nat /\ v[i].no \in Nat /\ v[j].seg \in Nat /\ v[j].no \in Nat
    BY <1>1, EntryFields
  <2>2. CASE i > 1
    <3>1. i - 1 \in 1..Len(w) /\ j - 1 \in 1..Len(w) /\ i - 1 <= j - 1
      BY <1>1, <1>2, <2>2
    <3>2. v[i] = w[i - 1] /\ v[j] = w[j - 1]
      BY <1>1, <3>1
    <3>3. w[j - 1].seg + ((j - 1) - (i - 1)) <= w[i - 1].seg
          /\ w[j - 1].no + ((j - 1) - (i - 1)) <= w[i - 1].no
      BY <3>1 DEF Descending
    <3>. QED  BY <3>2, <3>3
  <2>3. CASE i = 1 /\ j > 1
    <3>1. j - 1 \in 1..Len(w) /\ 1 \in 1..Len(w) /\ 1 <= j - 1 /\ w # <<>>
      BY <1>1, <2>3
    <3>2. v[j] = w[j - 1] /\ v[i] = e
      BY <1>1, <2>3, <3>1
    <3>3. w[j - 1].seg + ((j - 1) - 1) <= w[1].seg /\ w[j - 1].no + ((j - 1) - 1) <= w[1].no
      BY <3>1 DEF Descending
    <3>4. w[1].seg \in Nat /\ w[1].no \in Nat /\ w[1].seg < e.seg /\ w[1].no < e.no
      BY <3>1, EntryFields
    <3>5. e.seg \in Nat /\ e.no \in Nat
      BY DEF Entry
    <3>6. w[j - 1].seg \in Nat /\ w[j - 1].no \in Nat /\ j \in Int
      BY <3>1, EntryFields
    <3>7. w[j - 1].seg + (j - 1) <= e.seg /\ w[j - 1].no + (j - 1) <= e.no
      BY <3>3, <3>4, <3>5, <3>6, OneFurther
    <3>. QED  BY <2>3, <3>2, <3>7
  <2>4. CASE i = 1 /\ j = 1
    BY <2>1, <2>4
  <2>5. i > 1 \/ (i = 1 /\ j > 1) \/ (i = 1 /\ j = 1)
    BY <1>1, <1>2
  <2>. QED  BY <2>2, <2>3, <2>4, <2>5
<1>3. Descending(v)  BY <1>2 DEF Descending
<1>. QED  BY <1>3 DEF v

\* A removal keeps it descending.
LEMMA RemoveAtDescending ==
  ASSUME NEW w \in Seq(Entry), NEW k \in 1..Len(w), Descending(w)
  PROVE  Descending(RemoveAt(w, k))
<1>. DEFINE v == RemoveAt(w, k)
            at(i) == IF i < k THEN i ELSE i + 1
<1>1. /\ v \in Seq(Entry) /\ Len(v) = Len(w) - 1
      /\ \A i \in 1..Len(v) : v[i] = w[at(i)] /\ at(i) \in 1..Len(w)
  <2>1. /\ v \in Seq(Entry) /\ Len(v) = Len(w) - 1
        /\ \A i \in 1..Len(w) - 1 : v[i] = IF i < k THEN w[i] ELSE w[i + 1]
    BY RemoveAtEntry
  <2>. HIDE DEF v
  <2>2. ASSUME NEW i \in 1..Len(v)
        PROVE  v[i] = w[at(i)] /\ at(i) \in 1..Len(w)
    BY <2>1
  <2>. QED  BY <2>1, <2>2
<1>. HIDE DEF v
<1>2. ASSUME NEW i \in 1..Len(v), NEW j \in 1..Len(v), i <= j
      PROVE  v[j].seg + (j - i) <= v[i].seg /\ v[j].no + (j - i) <= v[i].no
  <2>1. v[i].seg \in Nat /\ v[i].no \in Nat /\ v[j].seg \in Nat /\ v[j].no \in Nat
    BY <1>1, EntryFields
  <2>2. /\ at(i) <= at(j) /\ j - i <= at(j) - at(i)
        /\ j - i \in Int /\ at(j) - at(i) \in Int
    BY <1>1, <1>2
  <2>3. /\ w[at(j)].seg + (at(j) - at(i)) <= w[at(i)].seg
        /\ w[at(j)].no + (at(j) - at(i)) <= w[at(i)].no
    <3>. HIDE DEF at
    <3>. QED  BY <1>1, <1>2, <2>2 DEF Descending
  <2>4. /\ v[i] = w[at(i)] /\ v[j] = w[at(j)]
        /\ at(i) \in 1..Len(w) /\ at(j) \in 1..Len(w)
    BY <1>1
  <2>. HIDE DEF at
  <2>5. /\ w[at(i)].seg \in Nat /\ w[at(i)].no \in Nat
        /\ w[at(j)].seg \in Nat /\ w[at(j)].no \in Nat
    BY <2>4, EntryFields
  <2>6. /\ w[at(j)].seg + (j - i) <= w[at(i)].seg
        /\ w[at(j)].no + (j - i) <= w[at(i)].no
    BY <2>2, <2>3, <2>5, NoFurther
  <2>. QED  BY <2>4, <2>6
<1>3. Descending(v)  BY <1>2 DEF Descending
<1>. QED  BY <1>3 DEF v
------------------------------------------------------------------------------
(* Types.                                                                   *)

\* Creating or closing an MPD file leaves a set of MPD files.
LEMMA FilesType ==
  ASSUME NEW files \in SUBSET MpdFile, NEW no \in Nat, NEW seg \in Nat
  PROVE  Written(files, no, seg) \in SUBSET MpdFile /\ Closed(files, no) \in SUBSET MpdFile
<1>1. [no |-> no, seg |-> seg, whole |-> FALSE] \in MpdFile
  BY DEF MpdFile
<1>2. ASSUME NEW m \in files
      PROVE  [m EXCEPT !.whole = m.whole \/ m.no = no] \in MpdFile
  BY DEF MpdFile
<1>. QED  BY <1>1, <1>2 DEF Written, Closed

\* Every step keeps the types.
LEMMA TypeStep ==
  ASSUME TypeOK, LockInv, [Next]_vars
  PROVE  TypeOK'
<1>. USE DEF TypeOK, workerVars, deleterVars, Goto, Labels, Free, Worker, Deleter
<1>1. ASSUME NEW s \in Streams, WriteSegment(s)
      PROVE  TypeOK'
  <2>1. /\ segs[s] \cup {linked[s] + 1} \in SUBSET Nat
        /\ missing[s] \cup {linked[s] + 1} \in SUBSET Nat
    OBVIOUS
  <2>2. segs' \in [Streams -> SUBSET Nat]
    BY <1>1, <2>1 DEF WriteSegment
  <2>3. missing' \in [Streams -> SUBSET Nat]
    BY <1>1, <2>1 DEF WriteSegment
  <2>4. pc' \in [Streams -> Labels]
    BY <1>1 DEF WriteSegment
  <2>5. UNCHANGED <<linked, count, fname, mpds, gl, owner, dpc, turn, victim>>
    BY <1>1 DEF WriteSegment
  <2>. QED  BY <2>2, <2>3, <2>4, <2>5
<1>2. ASSUME NEW s \in Streams, CountPlaylist(s)
      PROVE  TypeOK'
  <2>1. count[s] + 1 \in Nat  OBVIOUS
  <2>2. count' \in [Streams -> Nat] /\ pc' \in [Streams -> Labels]
    BY <1>2, <2>1 DEF CountPlaylist
  <2>3. UNCHANGED <<linked, fname, missing, segs, mpds, gl, owner, dpc, turn, victim>>
    BY <1>2 DEF CountPlaylist
  <2>. QED  BY <2>2, <2>3
<1>3. ASSUME NEW s \in Streams, WriteMpd(s) \/ FailMpd(s)
      PROVE  TypeOK'
  <2>1. Written(mpds[s], fname[s], linked[s]) \in SUBSET MpdFile
    BY FilesType
  <2>2. mpds' \in [Streams -> SUBSET MpdFile]
    <3>1. mpds' = mpds \/ mpds' = [mpds EXCEPT ![s] = Written(mpds[s], fname[s], linked[s])]
      BY <1>3 DEF WriteMpd, FailMpd
    <3>. DEFINE w == Written(mpds[s], fname[s], linked[s])
    <3>2. mpds \in [Streams -> SUBSET MpdFile] /\ w \in SUBSET MpdFile
      BY <2>1
    <3>. HIDE DEF w
    <3>. QED  BY <3>1, <3>2 DEF w
  <2>3. fname[s] + 1 \in Nat \ {0}  OBVIOUS
  <2>4. fname' \in [Streams -> Nat \ {0}]
    BY <1>3, <2>3 DEF WriteMpd, FailMpd
  <2>5. pc' \in [Streams -> Labels]
    BY <1>3 DEF WriteMpd, FailMpd
  <2>6. UNCHANGED <<linked, count, missing, segs, gl, owner, dpc, turn, victim>>
    BY <1>3 DEF WriteMpd, FailMpd
  <2>. QED  BY <2>2, <2>4, <2>5, <2>6
<1>4. ASSUME NEW s \in Streams, LockList(s) \/ LinkSegment(s)
      PROVE  TypeOK'
  <2>1. linked[s] + 1 \in Nat  OBVIOUS
  <2>2. pc' \in [Streams -> Labels]
    BY <1>4 DEF LockList, LinkSegment
  <2>3. linked' \in [Streams -> Nat] /\ owner' \in [Streams -> {Free, Worker, Deleter}]
    <3>1. linked \in [Streams -> Nat] /\ owner \in [Streams -> {Free, Worker, Deleter}]
      OBVIOUS
    <3>2. CASE LockList(s)
      BY <3>1, <3>2 DEF LockList
    <3>3. CASE LinkSegment(s)
      BY <2>1, <3>1, <3>3 DEF LinkSegment
    <3>. QED  BY <1>4, <3>2, <3>3
  <2>4. UNCHANGED <<count, fname, missing, segs, mpds, gl, dpc, turn, victim>>
    BY <1>4 DEF LockList, LinkSegment
  <2>. QED  BY <2>2, <2>3, <2>4
<1>5. ASSUME NEW s \in Streams, InsertEntry(s)
      PROVE  TypeOK'
  <2>1. [no |-> fname[s] - 1, seg |-> linked[s]] \in Entry
    BY DEF Entry
  <2>2. Cons([no |-> fname[s] - 1, seg |-> linked[s]], gl[s]) \in Seq(Entry)
    BY <2>1, ConsEntry
  <2>3. gl' \in [Streams -> Seq(Entry)]
    BY <1>5, <2>2 DEF InsertEntry
  <2>. QED  BY <1>5, <2>3 DEF InsertEntry
<1>6. ASSUME NEW s \in Streams, CloseMpd(s)
      PROVE  TypeOK'
  <2>1. fname[s] - 1 \in Nat /\ mpds[s] \in SUBSET MpdFile /\ count[s] + 1 \in Nat
    OBVIOUS
  <2>2. Closed(mpds[s], fname[s] - 1) \in SUBSET MpdFile
    BY <2>1, FilesType
  <2>3. mpds' \in [Streams -> SUBSET MpdFile] /\ count' \in [Streams -> Nat]
        /\ pc' \in [Streams -> Labels]
    BY <1>6, <2>1, <2>2 DEF CloseMpd
  <2>. QED  BY <1>6, <2>3 DEF CloseMpd
<1>7. CASE PassOver
  BY <1>7 DEF PassOver, NextTurn, Streams
<1>8. CASE PickVictim
  <2>1. gl[turn][Doomed(turn)] \in Entry
    BY <1>8, KeepAssumption DEF PickVictim, Doomed
  <2>2. victim' \in Entry /\ dpc' = "unlink_mpd" /\ owner' = [owner EXCEPT ![turn] = Deleter]
    BY <1>8, <2>1 DEF PickVictim
  <2>3. UNCHANGED <<pc, linked, count, fname, missing, segs, mpds, gl, turn>>
    BY <1>8 DEF PickVictim
  <2>. QED  BY <2>2, <2>3
<1>9. CASE UnlinkMpd \/ UnlinkSegment
  <2>1. /\ mpds' \in [Streams -> SUBSET MpdFile]
        /\ UNCHANGED <<pc, linked, count, fname, missing, gl, owner, turn, victim>>
    BY <1>9 DEF UnlinkMpd, UnlinkSegment
  <2>2. segs' \in [Streams -> SUBSET Nat] /\ dpc' \in {"unlink_seg", "remove"}
    BY <1>9 DEF UnlinkMpd, UnlinkSegment
  <2>. QED  BY <2>1, <2>2
<1>10. CASE RemoveEntry
  <2>1. gl[turn] \in Seq(Entry) /\ Doomed(turn) \in 1..Len(gl[turn])
    BY <1>10, KeepAssumption DEF RemoveEntry, LockInv, Kept, Doomed
  <2>2. RemoveAt(gl[turn], Doomed(turn)) \in Seq(Entry)
    BY <2>1, RemoveAtEntry
  <2>3. gl' \in [Streams -> Seq(Entry)]
    BY <1>10, <2>2 DEF RemoveEntry
  <2>4. NoEntry \in Entry /\ NextTurn(turn) \in Streams
    BY DEF NoEntry, Entry, NextTurn, Streams
  <2>. QED  BY <1>10, <2>3, <2>4 DEF RemoveEntry
<1>11. CASE UNCHANGED vars
  BY <1>11 DEF vars
<1>12. Active \subseteq Streams
  BY StreamAssumption DEF Streams
<1>. QED
  BY <1>1, <1>2, <1>3, <1>4, <1>5, <1>6, <1>7, <1>8, <1>9, <1>10, <1>11, <1>12
     DEF Next, Delete, Continue
------------------------------------------------------------------------------
(* Critical sections.                                                       *)

\* Every step keeps LockInv: the list of a stream whose mutex the deleter holds
\* stands still.
LEMMA LockStep ==
  ASSUME TypeOK, LockInv, [Next]_vars
  PROVE  LockInv'
<1>. USE DEF TypeOK, LockInv, workerVars, deleterVars, Goto, Free, Worker, Deleter
<1>1. ASSUME NEW s \in Streams,
             WriteSegment(s) \/ CountPlaylist(s) \/ WriteMpd(s) \/ FailMpd(s)
               \/ CloseMpd(s) \/ LinkSegment(s)
      PROVE  LockInv'
  <2>1. /\ pc[s] # "insert" /\ \A t \in Streams : pc'[t] = "insert" <=> pc[t] = "insert"
        /\ UNCHANGED <<gl, owner, turn, dpc, victim>>
    BY <1>1 DEF WriteSegment, CountPlaylist, WriteMpd, FailMpd, CloseMpd, LinkSegment
  <2>. QED  BY <2>1
<1>2. ASSUME NEW s \in Streams, LockList(s)
      PROVE  LockInv'
  BY <1>2 DEF LockList
<1>3. ASSUME NEW s \in Streams, InsertEntry(s)
      PROVE  LockInv'
  <2>1. owner[s] = Worker /\ UNCHANGED <<turn, dpc, victim>>
    BY <1>3 DEF InsertEntry
  <2>2. dpc # "scan" => turn # s
    BY <2>1
  <2>3. \A t \in Streams : t # s => gl'[t] = gl[t] /\ pc'[t] = pc[t] /\ owner'[t] = owner[t]
    BY <1>3 DEF InsertEntry
  <2>4. owner'[s] = Free /\ pc'[s] = "close"
    BY <1>3 DEF InsertEntry
  <2>. QED  BY <2>1, <2>2, <2>3, <2>4
<1>4. CASE PassOver
  BY <1>4 DEF PassOver, NextTurn, Streams
<1>5. CASE PickVictim
  BY <1>5, KeepAssumption DEF PickVictim, Doomed, Kept
<1>6. CASE UnlinkMpd \/ UnlinkSegment
  BY <1>6 DEF UnlinkMpd, UnlinkSegment
<1>7. CASE RemoveEntry
  BY <1>7 DEF RemoveEntry, NextTurn, Streams
<1>8. CASE UNCHANGED vars
  BY <1>8 DEF vars
<1>9. Active \subseteq Streams
  BY StreamAssumption DEF Streams
<1>. QED
  BY <1>1, <1>2, <1>3, <1>4, <1>5, <1>6, <1>7, <1>8, <1>9 DEF Next, Delete, Continue
------------------------------------------------------------------------------
(* The steps of a worker.                                                   *)

\* What a step leaves alone stays as it was.
LEMMA Untouched ==
  ASSUME NEW t \in Streams, StreamInv(t),
         pc'[t] = pc[t], linked'[t] = linked[t], fname'[t] = fname[t],
         segs'[t] = segs[t], missing'[t] = missing[t], mpds'[t] = mpds[t],
         gl'[t] = gl[t]
  PROVE  StreamInv(t)'
<1>1. ListInv(t)'
  BY DEF StreamInv, ListInv
<1>2. FilesInv(t)'
  BY DEF StreamInv, FilesInv, Writing
<1>3. SegsInv(t)'
  BY DEF StreamInv, SegsInv
<1>. QED  BY <1>1, <1>2, <1>3 DEF StreamInv

\* The types of one stream's state.
LEMMA StreamTypes ==
  ASSUME TypeOK, NEW s \in Streams
  PROVE  /\ pc[s] \in Labels /\ linked[s] \in Nat /\ count[s] \in Nat
         /\ fname[s] \in Nat /\ fname[s] >= 1
         /\ segs[s] \in SUBSET Nat /\ missing[s] \in SUBSET Nat
         /\ mpds[s] \in SUBSET MpdFile /\ gl[s] \in Seq(Entry)
         /\ \A m \in mpds[s] : m.no \in Nat /\ m.seg \in Nat /\ m.whole \in BOOLEAN
BY DEF TypeOK, MpdFile

\* A listed entry is older than the file being written, and names a segment that
\* is linked already or being linked.
LEMMA EntryBelow ==
  ASSUME TypeOK, NEW s \in Streams, ListInv(s), NEW i \in 1..Len(gl[s])
  PROVE  /\ gl[s][i].no \in Nat /\ gl[s][i].seg \in Nat
         /\ gl[s][i].no < fname[s]
         /\ pc[s] \in {"lock", "insert"} => gl[s][i].no < fname[s] - 1
         /\ gl[s][i].seg <= linked[s]
<1>1. gl[s] \in Seq(Entry) /\ fname[s] \in Nat /\ linked[s] \in Nat
  BY StreamTypes
<1>2. 1 \in 1..Len(gl[s]) /\ 1 <= i /\ i - 1 \in Nat /\ gl[s] # <<>>
  BY <1>1
<1>3. /\ gl[s][i].no \in Nat /\ gl[s][i].seg \in Nat
      /\ gl[s][1].no \in Nat /\ gl[s][1].seg \in Nat
  BY <1>1, <1>2, EntryFields
<1>4. /\ gl[s][i].seg + (i - 1) <= gl[s][1].seg
      /\ gl[s][i].no + (i - 1) <= gl[s][1].no
  BY <1>2 DEF ListInv, Descending
<1>5. /\ gl[s][1].no = fname[s] - (IF pc[s] \in {"lock", "insert"} THEN 2 ELSE 1)
      /\ gl[s][1].seg <= linked[s]
  BY <1>2 DEF ListInv
<1>. DEFINE ino == gl[s][i].no
            iseg == gl[s][i].seg
            no == gl[s][1].no
            seg == gl[s][1].seg
<1>6. iseg <= seg /\ ino <= no
  <2>. HIDE DEF ino, iseg, no, seg
  <2>1. ino \in Nat /\ iseg \in Nat /\ no \in Nat /\ seg \in Nat
    BY <1>3 DEF ino, iseg, no, seg
  <2>2. iseg + (i - 1) <= seg /\ ino + (i - 1) <= no
    BY <1>4 DEF ino, iseg, no, seg
  <2>. QED  BY <1>2, <2>1, <2>2
<1>7. /\ ino \in Nat /\ iseg \in Nat /\ no \in Nat /\ seg \in Nat /\ seg <= linked[s]
      /\ no = fname[s] - (IF pc[s] \in {"lock", "insert"} THEN 2 ELSE 1)
  BY <1>3, <1>5
<1>. HIDE DEF ino, iseg, no, seg
<1>8. /\ ino < fname[s] /\ iseg <= linked[s]
      /\ pc[s] \in {"lock", "insert"} => ino < fname[s] - 1
  BY <1>1, <1>6, <1>7
<1>. QED  BY <1>7, <1>8 DEF ino, iseg

\* Further behind in the list, older.
LEMMA EntriesApart ==
  ASSUME TypeOK, NEW s \in Streams, ListInv(s),
         NEW i \in 1..Len(gl[s]), NEW j \in 1..Len(gl[s]), i < j
  PROVE  gl[s][j].no < gl[s][i].no /\ gl[s][j].seg < gl[s][i].seg
<1>1. gl[s] \in Seq(Entry)
  BY StreamTypes
<1>2. /\ gl[s][i].no \in Nat /\ gl[s][i].seg \in Nat
      /\ gl[s][j].no \in Nat /\ gl[s][j].seg \in Nat
  BY <1>1, EntryFields
<1>3. gl[s][j].seg + (j - i) <= gl[s][i].seg /\ gl[s][j].no + (j - i) <= gl[s][i].no
  BY DEF ListInv, Descending
<1>4. j - i \in Nat /\ j - i >= 1
  BY <1>1
<1>. QED  BY <1>2, <1>3, <1>4, Apart

\* The segment file is written, or its fopen fails.
LEMMA WriteSegmentInv ==
  ASSUME TypeOK, NEW s \in Streams, StreamInv(s), WriteSegment(s)
  PROVE  StreamInv(s)'
<1>1. /\ pc[s] = "idle" /\ pc'[s] \in {"playlist", "link"}
      /\ linked'[s] = linked[s] /\ fname'[s] = fname[s] /\ mpds'[s] = mpds[s]
      /\ gl'[s] = gl[s]
  BY DEF WriteSegment, Goto, TypeOK, deleterVars
<1>2. segs'[s] \cup missing'[s] = segs[s] \cup missing[s] \cup {linked[s] + 1}
  <2>1. s \in DOMAIN segs /\ s \in DOMAIN missing
    BY DEF TypeOK
  <2>2. \/ segs'[s] = segs[s] \cup {linked[s] + 1} /\ missing'[s] = missing[s]
        \/ missing'[s] = missing[s] \cup {linked[s] + 1} /\ segs'[s] = segs[s]
    BY <2>1 DEF WriteSegment
  <2>. QED  BY <2>2
<1>3. ListInv(s)'
  BY <1>1 DEF StreamInv, ListInv
<1>4. FilesInv(s)'
  BY <1>1 DEF StreamInv, FilesInv, Writing
<1>5. SegsInv(s)'
  BY <1>1, <1>2 DEF StreamInv, SegsInv
<1>. QED  BY <1>3, <1>4, <1>5 DEF StreamInv

\* A playlist is only counted.
LEMMA CountPlaylistInv ==
  ASSUME TypeOK, NEW s \in Streams, StreamInv(s), CountPlaylist(s)
  PROVE  StreamInv(s)'
<1>1. /\ pc[s] = "playlist" /\ pc'[s] = "link"
      /\ linked'[s] = linked[s] /\ fname'[s] = fname[s] /\ mpds'[s] = mpds[s]
      /\ gl'[s] = gl[s] /\ segs'[s] = segs[s] /\ missing'[s] = missing[s]
  BY DEF CountPlaylist, Goto, TypeOK, deleterVars
<1>3. ListInv(s)'
  BY <1>1 DEF StreamInv, ListInv
<1>4. FilesInv(s)'
  BY <1>1 DEF StreamInv, FilesInv, Writing
<1>5. SegsInv(s)'
  BY <1>1 DEF StreamInv, SegsInv
<1>. QED  BY <1>3, <1>4, <1>5 DEF StreamInv

\* The MPD file is created under the next number; a partial one of that number
\* is truncated.
LEMMA WriteMpdInv ==
  ASSUME TypeOK, NEW s \in Streams, StreamInv(s), WriteMpd(s)
  PROVE  StreamInv(s)'
<1>. DEFINE new == [no |-> fname[s], seg |-> linked[s], whole |-> FALSE]
<1>1. /\ pc[s] = "playlist" /\ pc'[s] = "lock" /\ linked'[s] = linked[s]
      /\ fname'[s] = fname[s] + 1 /\ mpds'[s] = Written(mpds[s], fname[s], linked[s])
      /\ gl'[s] = gl[s] /\ segs'[s] = segs[s] /\ missing'[s] = missing[s]
  BY DEF WriteMpd, Goto, TypeOK, deleterVars
<1>2. mpds'[s] = {m \in mpds[s] : m.no # fname[s]} \cup {new}
  BY <1>1 DEF Written
<1>8. new.no = fname[s] /\ new.seg = linked[s] /\ new.whole = FALSE
  OBVIOUS
<1>. HIDE DEF new
<1>3. /\ linked[s] \in Nat /\ fname[s] \in Nat /\ fname[s] >= 1 /\ gl[s] \in Seq(Entry)
      /\ \A m \in mpds[s] : m.no \in Nat /\ m.seg \in Nat /\ m.whole \in BOOLEAN
  BY StreamTypes
<1>4. \A m \in mpds'[s] :
        m = new \/ (m \in mpds[s] /\ m.no < fname[s] /\ m.whole /\ m.seg < linked[s])
  BY <1>1, <1>2, <1>3 DEF StreamInv, FilesInv, Writing
<1>9. \A m, k \in mpds[s] : m.no = k.no => m = k
  BY DEF StreamInv, FilesInv
<1>5. ListInv(s)'
  BY <1>1, <1>3 DEF StreamInv, ListInv
<1>6. FilesInv(s)'
  <2>1. \A m, k \in mpds'[s] : m.no = k.no => m = k
    BY <1>3, <1>4, <1>8, <1>9
  <2>2. \A m, k \in mpds'[s] : m.no < k.no /\ k.no < fname'[s] => m.seg < k.seg
    BY <1>3, <1>4, <1>8 DEF StreamInv, FilesInv
  <2>3. \A m \in mpds'[s] :
          /\ m.no <= fname'[s]
          /\ m.whole <=> m.no < fname'[s] /\ ~(m.no = fname'[s] - 1)
          /\ m.whole => m.seg <= linked'[s] /\ m.seg < linked'[s]
          /\ m.no = fname'[s] - 1 => m.seg = linked'[s]
    BY <1>1, <1>3, <1>4, <1>8
  <2>4. \E m \in mpds'[s] : m.no = fname'[s] - 1
    <3>1. new \in mpds'[s] /\ new.no = fname'[s] - 1
      BY <1>1, <1>2, <1>3, <1>8
    <3>. QED  BY <3>1
  <2>5. ASSUME NEW i \in 1..Len(gl'[s]), i <= Kept
        PROVE  \E m \in mpds'[s] : m.no = gl'[s][i].no /\ m.seg = gl'[s][i].seg
    <3>1. PICK m \in mpds[s] : m.no = gl[s][i].no /\ m.seg = gl[s][i].seg
      BY <1>1, <2>5 DEF StreamInv, FilesInv
    <3>2. gl[s][i].no \in Nat /\ gl[s][i].no < fname[s]
      BY <1>1, <2>5, EntryBelow DEF StreamInv
    <3>5. m.no # fname[s]
      BY <1>3, <3>1, <3>2
    <3>. QED  BY <1>1, <1>2, <3>1, <3>5
  <2>. QED  BY <1>1, <2>1, <2>2, <2>3, <2>4, <2>5 DEF FilesInv, Writing
<1>7. SegsInv(s)'
  BY <1>1 DEF StreamInv, SegsInv
<1>. QED  BY <1>5, <1>6, <1>7 DEF StreamInv

\* fopen fails or leaves a partial file under the number that is used again.
LEMMA FailMpdInv ==
  ASSUME TypeOK, NEW s \in Streams, StreamInv(s), FailMpd(s)
  PROVE  StreamInv(s)'
<1>1. /\ pc[s] = "playlist" /\ pc'[s] = "link" /\ linked'[s] = linked[s]
      /\ fname'[s] = fname[s] /\ gl'[s] = gl[s] /\ segs'[s] = segs[s]
      /\ missing'[s] = missing[s]
      /\ mpds'[s] = mpds[s] \/ mpds'[s] = Written(mpds[s], fname[s], linked[s])
  BY DEF FailMpd, Goto, TypeOK, deleterVars
<1>2. /\ linked[s] \in Nat /\ fname[s] \in Nat /\ gl[s] \in Seq(Entry)
      /\ \A m \in mpds[s] : m.no \in Nat /\ m.seg \in Nat /\ m.whole \in BOOLEAN
  BY StreamTypes
<1>3. \A m \in mpds'[s] :
        m \in mpds[s] \/ (m.no = fname[s] /\ m.seg = linked[s] /\ m.whole = FALSE)
  BY <1>1 DEF Written
<1>4. \A m \in mpds[s] : m.no # fname[s] => m \in mpds'[s]
  BY <1>1 DEF Written
<1>5. ListInv(s)'
  BY <1>1, <1>2 DEF StreamInv, ListInv
<1>6. FilesInv(s)'
  <2>1. \A m, k \in mpds'[s] : m.no = k.no => m = k
    <3>1. CASE mpds'[s] = mpds[s]
      BY <3>1 DEF StreamInv, FilesInv
    <3>2. CASE mpds'[s] = Written(mpds[s], fname[s], linked[s])
      <4>1. \A m, k \in mpds[s] : m.no = k.no => m = k
        BY DEF StreamInv, FilesInv
      <4>. DEFINE new == [no |-> fname[s], seg |-> linked[s], whole |-> FALSE]
      <4>2. \A m \in mpds'[s] : (m \in mpds[s] /\ m.no # fname[s]) \/ m = new
        BY <3>2 DEF Written
      <4>3. new.no = fname[s]
        OBVIOUS
      <4>. HIDE DEF new
      <4>. QED  BY <4>1, <4>2, <4>3
    <3>. QED  BY <1>1, <3>1, <3>2
  <2>2. \A m, k \in mpds'[s] : m.no < k.no /\ k.no < fname'[s] => m.seg < k.seg
    BY <1>1, <1>2, <1>3 DEF StreamInv, FilesInv
  <2>3. \A m \in mpds'[s] :
          /\ m.no <= fname'[s]
          /\ m.whole <=> m.no < fname'[s]
          /\ m.whole => m.seg <= linked'[s]
    BY <1>1, <1>2, <1>3 DEF StreamInv, FilesInv, Writing
  <2>4. ASSUME NEW i \in 1..Len(gl'[s]), i <= Kept
        PROVE  \E m \in mpds'[s] : m.no = gl'[s][i].no /\ m.seg = gl'[s][i].seg
    <3>1. PICK m \in mpds[s] : m.no = gl[s][i].no /\ m.seg = gl[s][i].seg
      BY <1>1, <2>4 DEF StreamInv, FilesInv
    <3>2. gl[s][i].no \in Nat /\ gl[s][i].no < fname[s]
      BY <1>1, <2>4, EntryBelow DEF StreamInv
    <3>3. m.no # fname[s]
      BY <1>2, <3>1, <3>2
    <3>. QED  BY <1>1, <1>4, <3>1, <3>3
  <2>. QED  BY <1>1, <2>1, <2>2, <2>3, <2>4 DEF FilesInv, Writing
<1>7. SegsInv(s)'
  BY <1>1 DEF StreamInv, SegsInv
<1>. QED  BY <1>5, <1>6, <1>7 DEF StreamInv

\* The mutex of the list is taken.
LEMMA LockListInv ==
  ASSUME TypeOK, NEW s \in Streams, StreamInv(s), LockList(s)
  PROVE  StreamInv(s)'
<1>1. /\ pc[s] = "lock" /\ pc'[s] = "insert"
      /\ linked'[s] = linked[s] /\ fname'[s] = fname[s] /\ mpds'[s] = mpds[s]
      /\ gl'[s] = gl[s] /\ segs'[s] = segs[s] /\ missing'[s] = missing[s]
  BY DEF LockList, Goto, TypeOK, deleterVars
<1>3. ListInv(s)'
  BY <1>1 DEF StreamInv, ListInv
<1>4. FilesInv(s)'
  BY <1>1 DEF StreamInv, FilesInv, Writing
<1>5. SegsInv(s)'
  BY <1>1 DEF StreamInv, SegsInv
<1>. QED  BY <1>3, <1>4, <1>5 DEF StreamInv

\* The entry of the new file joins at the head.
LEMMA InsertEntryInv ==
  ASSUME TypeOK, NEW s \in Streams, StreamInv(s), InsertEntry(s)
  PROVE  StreamInv(s)'
<1>. DEFINE e == [no |-> fname[s] - 1, seg |-> linked[s]]
<1>1. /\ pc[s] = "insert" /\ pc'[s] = "close"
      /\ linked'[s] = linked[s] /\ fname'[s] = fname[s] /\ mpds'[s] = mpds[s]
      /\ segs'[s] = segs[s] /\ missing'[s] = missing[s]
      /\ gl'[s] = Cons(e, gl[s])
  BY DEF InsertEntry, Goto, TypeOK, deleterVars
<1>2. /\ linked[s] \in Nat /\ fname[s] \in Nat /\ fname[s] >= 1 /\ gl[s] \in Seq(Entry)
      /\ \A m \in mpds[s] : m.no \in Nat /\ m.seg \in Nat /\ m.whole \in BOOLEAN
  BY StreamTypes
<1>3. e \in Entry /\ e.no = fname[s] - 1 /\ e.seg = linked[s]
  BY <1>2 DEF Entry
<1>. HIDE DEF e
<1>4. /\ gl'[s] \in Seq(Entry) /\ Len(gl'[s]) = Len(gl[s]) + 1 /\ gl'[s][1] = e
      /\ \A i \in 1..Len(gl[s]) : gl'[s][i + 1] = gl[s][i]
  <2>1. /\ Cons(e, gl[s]) \in Seq(Entry) /\ Len(Cons(e, gl[s])) = Len(gl[s]) + 1
        /\ Cons(e, gl[s])[1] = e
        /\ \A i \in 1..Len(gl[s]) : Cons(e, gl[s])[i + 1] = gl[s][i]
    BY <1>2, <1>3, ConsEntry
  <2>. QED  BY <1>1, <2>1
<1>5. gl[s] # <<>> => gl[s][1].seg < e.seg /\ gl[s][1].no < e.no
  BY <1>1, <1>2, <1>3 DEF StreamInv, ListInv
<1>6. ListInv(s)'
  <2>1. Descending(gl'[s])
    BY <1>1, <1>2, <1>3, <1>5, ConsDescending DEF StreamInv, ListInv
  <2>. QED  BY <1>1, <1>2, <1>3, <1>4, <2>1 DEF ListInv
<1>7. FilesInv(s)'
  <2>1. ASSUME NEW i \in 1..Len(gl'[s]), i <= Kept
        PROVE  \E m \in mpds'[s] : m.no = gl'[s][i].no /\ m.seg = gl'[s][i].seg
    <3>1. CASE i = 1
      <4>1. PICK m \in mpds[s] : m.no = fname[s] - 1
        BY <1>1 DEF StreamInv, FilesInv
      <4>2. m.seg = linked[s]
        BY <1>1, <4>1 DEF StreamInv, FilesInv, Writing
      <4>. QED  BY <1>1, <1>3, <1>4, <3>1, <4>1, <4>2
    <3>2. CASE i # 1
      <4>1. i - 1 \in 1..Len(gl[s]) /\ i - 1 <= Kept /\ (i - 1) + 1 = i
        BY <1>2, <1>4, <2>1, <3>2, KeepAssumption DEF Kept
      <4>2. \E m \in mpds[s] : m.no = gl[s][i - 1].no /\ m.seg = gl[s][i - 1].seg
        BY <4>1 DEF StreamInv, FilesInv
      <4>3. gl'[s][i] = gl[s][i - 1]
        BY <1>4, <4>1
      <4>. QED  BY <1>1, <4>2, <4>3
    <3>. QED  BY <3>1, <3>2
  <2>. QED  BY <1>1, <2>1 DEF StreamInv, FilesInv, Writing
<1>8. SegsInv(s)'
  <2>1. ASSUME Len(gl[s]) >= Kept, NEW n \in 1..linked[s], n < gl[s][Kept].seg
        PROVE  Len(gl'[s]) >= Kept /\ n < gl'[s][Kept].seg
    <3>1. Kept \in 1..Len(gl[s])
      BY <1>2, <2>1, KeepAssumption DEF Kept
    <3>2. CASE Kept = 1
      <4>1. gl[s] # <<>> /\ gl[s][1].seg \in Nat
        BY <1>2, <3>1, <3>2, EntryFields
      <4>2. gl[s][1].seg < e.seg /\ n < gl[s][1].seg /\ e.seg \in Nat /\ n \in Nat
        BY <1>2, <1>3, <1>5, <2>1, <3>2, <4>1
      <4>3. n < e.seg
        BY <4>1, <4>2
      <4>4. Len(gl'[s]) >= Kept /\ gl'[s][Kept] = e
        BY <1>2, <1>4, <2>1, <3>1, <3>2
      <4>. QED  BY <4>3, <4>4
    <3>3. CASE Kept # 1
      <4>1. Kept - 1 \in 1..Len(gl[s]) /\ (Kept - 1) + 1 = Kept /\ Kept - 1 < Kept
        BY <1>2, <3>1, <3>3
      <4>2. gl'[s][Kept] = gl[s][Kept - 1]
        BY <1>4, <4>1
      <4>3. gl[s][Kept].seg < gl[s][Kept - 1].seg
        BY <3>1, <4>1, EntriesApart DEF StreamInv
      <4>4. gl[s][Kept].seg \in Nat /\ gl[s][Kept - 1].seg \in Nat
        BY <1>2, <3>1, <4>1, EntryFields
      <4>5. n \in Nat /\ n < gl[s][Kept - 1].seg
        BY <2>1, <4>3, <4>4
      <4>6. Len(gl'[s]) >= Kept
        BY <1>2, <1>4, <2>1, <3>1
      <4>. QED  BY <4>2, <4>5, <4>6
    <3>. QED  BY <3>2, <3>3
  <2>. QED  BY <1>1, <2>1 DEF StreamInv, SegsInv
<1>. QED  BY <1>6, <1>7, <1>8 DEF StreamInv

\* The newest MPD file is closed.
LEMMA CloseMpdInv ==
  ASSUME TypeOK, NEW s \in Streams, StreamInv(s), CloseMpd(s)
  PROVE  StreamInv(s)'
<1>1. /\ pc[s] = "close" /\ pc'[s] = "link"
      /\ linked'[s] = linked[s] /\ fname'[s] = fname[s]
      /\ gl'[s] = gl[s] /\ segs'[s] = segs[s] /\ missing'[s] = missing[s]
      /\ mpds'[s] = Closed(mpds[s], fname[s] - 1)
  BY DEF CloseMpd, Goto, TypeOK, deleterVars
<1>2. /\ linked[s] \in Nat /\ fname[s] \in Nat /\ fname[s] >= 1 /\ gl[s] \in Seq(Entry)
      /\ mpds[s] \in SUBSET MpdFile
      /\ \A m \in mpds[s] : m.no \in Nat /\ m.seg \in Nat /\ m.whole \in BOOLEAN
  BY StreamTypes
<1>. DEFINE shut(m) == [m EXCEPT !.whole = m.whole \/ m.no = fname[s] - 1]
<1>3. mpds'[s] = {shut(m) : m \in mpds[s]}
  BY <1>1 DEF Closed
<1>4. \A m \in mpds[s] : /\ shut(m).no = m.no /\ shut(m).seg = m.seg
                         /\ shut(m).whole = (m.whole \/ m.no = fname[s] - 1)
  BY <1>2 DEF MpdFile
<1>5. \A m, k \in mpds[s] : m = k => shut(m) = shut(k)
  OBVIOUS
<1>. HIDE DEF shut
<1>6. ListInv(s)'
  BY <1>1, <1>2 DEF StreamInv, ListInv
<1>7. FilesInv(s)'
  <2>1. \A m, k \in mpds'[s] : m.no = k.no => m = k
    <3>1. \A m, k \in mpds[s] : m.no = k.no => m = k
      BY DEF StreamInv, FilesInv
    <3>. QED  BY <1>3, <1>4, <1>5, <3>1
  <2>2. \A m, k \in mpds'[s] : m.no < k.no /\ k.no < fname'[s] => m.seg < k.seg
    <3>1. \A m, k \in mpds[s] : m.no < k.no /\ k.no < fname[s] => m.seg < k.seg
      BY DEF StreamInv, FilesInv
    <3>. QED  BY <1>1, <1>3, <1>4, <3>1
  <2>3. ASSUME NEW m \in mpds[s]
        PROVE  /\ shut(m).no <= fname[s]
               /\ shut(m).whole <=> shut(m).no < fname[s]
               /\ shut(m).whole => shut(m).seg <= linked[s]
    <3>1. /\ m.no <= fname[s]
          /\ m.whole <=> m.no < fname[s] /\ ~(m.no = fname[s] - 1)
          /\ m.whole => m.seg <= linked[s] /\ m.seg < linked[s]
          /\ m.no = fname[s] - 1 => m.seg = linked[s]
      BY <1>1 DEF StreamInv, FilesInv, Writing
    <3>2. shut(m).no = m.no /\ shut(m).seg = m.seg
          /\ shut(m).whole = (m.whole \/ m.no = fname[s] - 1)
      BY <1>4
    <3>3. m.no \in Nat /\ m.seg \in Nat
      BY <1>2
    <3>4. shut(m).whole <=> m.whole \/ m.no = fname[s] - 1
      BY <3>2
    <3>5. shut(m).whole <=> m.no < fname[s]
      BY <1>2, <3>1, <3>3, <3>4
    <3>6. m.no < fname[s] => m.seg <= linked[s]
      BY <1>2, <3>1, <3>3
    <3>. QED  BY <3>1, <3>2, <3>5, <3>6
  <2>4. \A m \in mpds'[s] : /\ m.no <= fname'[s] /\ (m.whole <=> m.no < fname'[s])
                            /\ m.whole => m.seg <= linked'[s]
    BY <1>1, <1>3, <2>3
  <2>5. ASSUME NEW i \in 1..Len(gl'[s]), i <= Kept
        PROVE  \E m \in mpds'[s] : m.no = gl'[s][i].no /\ m.seg = gl'[s][i].seg
    <3>1. PICK m \in mpds[s] : m.no = gl[s][i].no /\ m.seg = gl[s][i].seg
      BY <1>1, <2>5 DEF StreamInv, FilesInv
    <3>2. shut(m) \in mpds'[s]
      BY <1>3
    <3>. QED  BY <1>1, <1>4, <3>1, <3>2
  <2>. QED  BY <1>1, <2>1, <2>2, <2>4, <2>5 DEF FilesInv, Writing
<1>8. SegsInv(s)'
  BY <1>1 DEF StreamInv, SegsInv
<1>. QED  BY <1>6, <1>7, <1>8 DEF StreamInv

\* The segment joins the list.
LEMMA LinkSegmentInv ==
  ASSUME TypeOK, NEW s \in Streams, StreamInv(s), LinkSegment(s)
  PROVE  StreamInv(s)'
<1>1. /\ pc[s] = "link" /\ pc'[s] = "idle"
      /\ linked'[s] = linked[s] + 1 /\ fname'[s] = fname[s] /\ mpds'[s] = mpds[s]
      /\ gl'[s] = gl[s] /\ segs'[s] = segs[s] /\ missing'[s] = missing[s]
  BY DEF LinkSegment, Goto, TypeOK, deleterVars
<1>2. /\ linked[s] \in Nat /\ fname[s] \in Nat /\ gl[s] \in Seq(Entry)
      /\ \A m \in mpds[s] : m.no \in Nat /\ m.seg \in Nat /\ m.whole \in BOOLEAN
  BY StreamTypes
<1>3. ListInv(s)'
  <2>1. gl[s] # <<>> => gl[s][1].seg \in Nat
    BY <1>2, EntryFields
  <2>. QED  BY <1>1, <1>2, <2>1 DEF StreamInv, ListInv
<1>4. FilesInv(s)'
  BY <1>1, <1>2 DEF StreamInv, FilesInv, Writing
<1>5. SegsInv(s)'
  BY <1>1, <1>2 DEF StreamInv, SegsInv
<1>. QED  BY <1>3, <1>4, <1>5 DEF StreamInv
------------------------------------------------------------------------------
(* The steps of the deleter.                                                *)

\* The victim of the deleter is behind every entry that stays, and older.
LEMMA VictimBehind ==
  ASSUME TypeOK, LockInv, ListInv(turn), dpc # "scan"
  PROVE  /\ Kept \in 1..Len(gl[turn]) /\ Kept + 1 \in 1..Len(gl[turn])
         /\ victim = gl[turn][Kept + 1]
         /\ \A i \in 1..Kept : /\ victim.no < gl[turn][i].no
                               /\ victim.seg < gl[turn][i].seg
         /\ victim.no \in Nat /\ victim.seg \in Nat
         /\ victim.no < fname[turn] - 1 /\ victim.seg <= linked[turn]
<1>1. turn \in Streams
  BY DEF TypeOK
<1>2. gl[turn] \in Seq(Entry) /\ fname[turn] \in Nat
  BY <1>1, StreamTypes
<1>3. Kept \in Nat /\ Kept >= 1 /\ Len(gl[turn]) > Kept /\ victim = gl[turn][Kept + 1]
  BY KeepAssumption DEF LockInv, Kept
<1>4. /\ Kept \in 1..Len(gl[turn]) /\ Kept + 1 \in 1..Len(gl[turn])
      /\ 1 \in 1..Kept
  BY <1>2, <1>3
<1>5. ASSUME NEW i \in 1..Kept
      PROVE  victim.no < gl[turn][i].no /\ victim.seg < gl[turn][i].seg
  <2>1. i \in 1..Len(gl[turn]) /\ i < Kept + 1
    BY <1>2, <1>3
  <2>2. /\ gl[turn][Kept + 1].no < gl[turn][i].no
        /\ gl[turn][Kept + 1].seg < gl[turn][i].seg
    BY <1>1, <1>4, <2>1, EntriesApart
  <2>. QED  BY <1>3, <2>2
<1>6. /\ victim.no \in Nat /\ victim.seg \in Nat /\ victim.seg <= linked[turn]
  BY <1>1, <1>3, <1>4, EntryBelow
<1>7. 1 \in 1..Len(gl[turn])
  BY <1>2, <1>3
<1>8. gl[turn][1].no \in Nat /\ gl[turn][1].no < fname[turn]
  BY <1>1, <1>7, EntryBelow
<1>9. victim.no < gl[turn][1].no
  BY <1>4, <1>5
<1>10. victim.no < fname[turn] - 1
  BY <1>2, <1>6, <1>8, <1>9
<1>. QED  BY <1>3, <1>4, <1>5, <1>6, <1>10

\* The MPD file of the victim goes.
LEMMA UnlinkMpdInv ==
  ASSUME TypeOK, LockInv, StreamInv(turn), UnlinkMpd
  PROVE  StreamInv(turn)'
<1>. DEFINE s == turn
<1>1. /\ s \in Streams /\ turn' = turn /\ dpc # "scan"
      /\ pc'[s] = pc[s] /\ linked'[s] = linked[s] /\ fname'[s] = fname[s]
      /\ gl'[s] = gl[s] /\ segs'[s] = segs[s] /\ missing'[s] = missing[s]
      /\ mpds'[s] = {m \in mpds[s] : m.no # victim.no}
  BY DEF UnlinkMpd, TypeOK, workerVars
<1>2. /\ \A i \in 1..Kept : victim.no < gl[s][i].no
      /\ victim.no \in Nat /\ victim.no < fname[s] - 1
      /\ fname[s] \in Nat /\ gl[s] \in Seq(Entry)
  BY <1>1, VictimBehind, StreamTypes DEF StreamInv
<1>3. ListInv(s)'
  BY <1>1 DEF StreamInv, ListInv
<1>4. FilesInv(s)'
  <2>1. \A m \in mpds'[s] : m \in mpds[s]
    BY <1>1
  <2>2. pc[s] \in {"lock", "insert"} => \E m \in mpds'[s] : m.no = fname[s] - 1
    <3>1. SUFFICES ASSUME pc[s] \in {"lock", "insert"}
                   PROVE  \E m \in mpds'[s] : m.no = fname[s] - 1
      OBVIOUS
    <3>2. PICK m \in mpds[s] : m.no = fname[s] - 1
      BY <3>1 DEF StreamInv, FilesInv
    <3>3. m.no # victim.no
      BY <1>2, <3>2
    <3>. QED  BY <1>1, <3>2, <3>3
  <2>3. ASSUME NEW i \in 1..Len(gl[s]), i <= Kept
        PROVE  \E m \in mpds'[s] : m.no = gl[s][i].no /\ m.seg = gl[s][i].seg
    <3>1. PICK m \in mpds[s] : m.no = gl[s][i].no /\ m.seg = gl[s][i].seg
      BY <2>3 DEF StreamInv, FilesInv
    <3>2. i \in 1..Kept /\ gl[s][i].no \in Nat
      BY <1>2, <2>3, KeepAssumption, EntryFields DEF Kept
    <3>3. m.no # victim.no
      BY <1>2, <3>1, <3>2
    <3>. QED  BY <1>1, <3>1, <3>3
  <2>. QED  BY <1>1, <2>1, <2>2, <2>3 DEF StreamInv, FilesInv, Writing
<1>5. SegsInv(s)'
  BY <1>1 DEF StreamInv, SegsInv
<1>. QED  BY <1>1, <1>3, <1>4, <1>5 DEF StreamInv

\* The segment file of the victim goes.
LEMMA UnlinkSegmentInv ==
  ASSUME TypeOK, LockInv, StreamInv(turn), UnlinkSegment
  PROVE  StreamInv(turn)'
<1>. DEFINE s == turn
<1>1. /\ s \in Streams /\ turn' = turn /\ dpc # "scan"
      /\ pc'[s] = pc[s] /\ linked'[s] = linked[s] /\ fname'[s] = fname[s]
      /\ gl'[s] = gl[s] /\ mpds'[s] = mpds[s] /\ missing'[s] = missing[s]
      /\ segs'[s] = segs[s] \ {victim.seg}
  BY DEF UnlinkSegment, TypeOK, workerVars
<1>2. /\ victim.seg \in Nat /\ victim.seg <= linked[s] /\ linked[s] \in Nat
      /\ Len(gl[s]) >= Kept /\ victim.seg < gl[s][Kept].seg
  <2>1. /\ Kept \in 1..Len(gl[s]) /\ \A i \in 1..Kept : victim.seg < gl[s][i].seg
        /\ victim.seg \in Nat /\ victim.seg <= linked[s]
    BY <1>1, VictimBehind DEF StreamInv
  <2>2. linked[s] \in Nat /\ gl[s] \in Seq(Entry)
    BY <1>1, StreamTypes
  <2>3. Kept \in 1..Kept /\ Len(gl[s]) >= Kept
    BY <2>1, <2>2
  <2>. QED  BY <2>1, <2>2, <2>3
<1>3. ListInv(s)'
  BY <1>1 DEF StreamInv, ListInv
<1>4. FilesInv(s)'
  BY <1>1 DEF StreamInv, FilesInv, Writing
<1>5. SegsInv(s)'
  BY <1>1, <1>2 DEF StreamInv, SegsInv
<1>. QED  BY <1>1, <1>3, <1>4, <1>5 DEF StreamInv

\* The entry of the victim goes; those that stay keep their places.
LEMMA RemoveEntryInv ==
  ASSUME TypeOK, LockInv, NEW s \in Streams, s = turn, StreamInv(s), RemoveEntry
  PROVE  StreamInv(s)'
<1>1. /\ dpc # "scan"
      /\ pc'[s] = pc[s] /\ linked'[s] = linked[s] /\ fname'[s] = fname[s]
      /\ mpds'[s] = mpds[s] /\ segs'[s] = segs[s] /\ missing'[s] = missing[s]
      /\ gl'[s] = RemoveAt(gl[s], Kept + 1)
  <2>1. Doomed(s) = Kept + 1
    BY KeepAssumption DEF Doomed, Kept
  <2>. QED  BY <2>1 DEF RemoveEntry, TypeOK, workerVars
<1>2. gl[s] \in Seq(Entry) /\ Kept \in 1..Len(gl[s]) /\ Kept + 1 \in 1..Len(gl[s])
  BY VictimBehind, StreamTypes, <1>1 DEF StreamInv
<1>3. /\ gl'[s] \in Seq(Entry) /\ Len(gl'[s]) = Len(gl[s]) - 1
      /\ \A i \in 1..Len(gl[s]) - 1 :
           gl'[s][i] = IF i < Kept + 1 THEN gl[s][i] ELSE gl[s][i + 1]
  <2>. DEFINE v == RemoveAt(gl[s], Kept + 1)
  <2>1. /\ v \in Seq(Entry) /\ Len(v) = Len(gl[s]) - 1
        /\ \A i \in 1..Len(gl[s]) - 1 :
             v[i] = IF i < Kept + 1 THEN gl[s][i] ELSE gl[s][i + 1]
    BY <1>2, RemoveAtEntry
  <2>. QED  BY <1>1, <2>1
<1>4. /\ Len(gl'[s]) >= Kept /\ Kept >= 1 /\ Len(gl'[s]) <= Len(gl[s])
      /\ \A i \in 1..Kept : gl'[s][i] = gl[s][i]
  <2>1. Kept \in Nat /\ Kept >= 1 /\ Len(gl[s]) \in Nat /\ Len(gl[s]) - 1 >= Kept
    BY <1>2, KeepAssumption DEF Kept
  <2>2. \A i \in 1..Kept : i \in 1..Len(gl[s]) - 1 /\ i < Kept + 1
    BY <2>1
  <2>. QED  BY <1>3, <2>1, <2>2
<1>5. ListInv(s)'
  <2>1. Descending(gl'[s])
    BY <1>1, <1>2, RemoveAtDescending DEF StreamInv, ListInv
  <2>2. gl'[s][1] = gl[s][1] /\ gl[s] # <<>> /\ gl'[s] # <<>>
    BY <1>2, <1>3, <1>4
  <2>. QED  BY <1>1, <2>1, <2>2 DEF StreamInv, ListInv
<1>6. FilesInv(s)'
  <2>1. ASSUME NEW i \in 1..Len(gl'[s]), i <= Kept
        PROVE  \E m \in mpds[s] : m.no = gl'[s][i].no /\ m.seg = gl'[s][i].seg
    <3>1. i \in 1..Kept /\ i \in 1..Len(gl[s])
      BY <1>2, <1>3, <2>1
    <3>. QED  BY <1>4, <2>1, <3>1 DEF StreamInv, FilesInv
  <2>. QED  BY <1>1, <2>1 DEF StreamInv, FilesInv, Writing
<1>7. SegsInv(s)'
  <2>1. gl'[s][Kept] = gl[s][Kept]
    BY <1>2, <1>4
  <2>. QED  BY <1>1, <1>4, <2>1 DEF StreamInv, SegsInv
<1>. QED  BY <1>5, <1>6, <1>7 DEF StreamInv
------------------------------------------------------------------------------
(* The invariant.                                                           *)

\* IInv holds at the start.
LEMMA InitInv == Init => IInv
<1>. SUFFICES ASSUME Init PROVE IInv  OBVIOUS
<1>1. TypeOK
  <2>1. count \in [Streams -> Nat]
    <3>1. CASE FALSE \in OpenResults
      BY <3>1 DEF Init
    <3>2. CASE FALSE \notin OpenResults
      BY <3>2 DEF Init
    <3>. QED  BY <3>1, <3>2
  <2>2. NoEntry \in Entry
    BY DEF NoEntry, Entry
  <2>. QED  BY <2>1, <2>2 DEF Init, TypeOK, Labels, Free, Worker, Deleter, Streams
<1>2. LockInv
  BY DEF Init, LockInv, Free, Worker, Deleter
<1>3. ASSUME NEW s \in Streams
      PROVE  StreamInv(s)
  <2>1. /\ pc[s] = "idle" /\ linked[s] = 0 /\ fname[s] = 1 /\ mpds[s] = {} /\ gl[s] = <<>>
    BY DEF Init
  <2>2. ListInv(s)
    BY <2>1 DEF ListInv, Descending
  <2>3. FilesInv(s)
    BY <2>1 DEF FilesInv
  <2>4. SegsInv(s)
    BY <2>1 DEF SegsInv
  <2>. QED  BY <2>2, <2>3, <2>4 DEF StreamInv
<1>. QED  BY <1>1, <1>2, <1>3 DEF IInv

\* A step of the worker of s keeps the invariant of s.
LEMMA WorkerStep ==
  ASSUME TypeOK, NEW s \in Streams, StreamInv(s), WriteSegment(s) \/ Continue(s)
  PROVE  StreamInv(s)'
BY WriteSegmentInv, CountPlaylistInv, WriteMpdInv, FailMpdInv, LockListInv,
   InsertEntryInv, CloseMpdInv, LinkSegmentInv DEF Continue

\* It leaves the other stream alone.
LEMMA OtherStream ==
  ASSUME TypeOK, NEW s \in Streams, NEW t \in Streams, t # s,
         WriteSegment(s) \/ Continue(s)
  PROVE  /\ pc'[t] = pc[t] /\ linked'[t] = linked[t] /\ fname'[t] = fname[t]
         /\ segs'[t] = segs[t] /\ missing'[t] = missing[t] /\ mpds'[t] = mpds[t]
         /\ gl'[t] = gl[t]
BY DEF TypeOK, Continue, WriteSegment, CountPlaylist, WriteMpd, FailMpd, LockList,
       InsertEntry, CloseMpd, LinkSegment, Goto, deleterVars

\* A step of the deleter touches the stream whose turn it is at most.
LEMMA DeleterStep ==
  ASSUME TypeOK, LockInv, NEW s \in Streams, StreamInv(s), Delete
  PROVE  StreamInv(s)'
<1>1. CASE PassOver \/ PickVictim
  BY <1>1, Untouched DEF PassOver, PickVictim, workerVars
<1>2. CASE (UnlinkMpd \/ UnlinkSegment \/ RemoveEntry) /\ s # turn
  <2>1. /\ pc'[s] = pc[s] /\ linked'[s] = linked[s] /\ fname'[s] = fname[s]
        /\ segs'[s] = segs[s] /\ missing'[s] = missing[s] /\ mpds'[s] = mpds[s]
        /\ gl'[s] = gl[s]
    BY <1>2 DEF TypeOK, UnlinkMpd, UnlinkSegment, RemoveEntry, workerVars
  <2>. QED  BY <2>1, Untouched
<1>3. CASE UnlinkMpd /\ s = turn
  <2>1. turn' = turn  BY <1>3 DEF UnlinkMpd
  <2>. QED  BY <1>3, <2>1, UnlinkMpdInv
<1>4. CASE UnlinkSegment /\ s = turn
  <2>1. turn' = turn  BY <1>4 DEF UnlinkSegment
  <2>. QED  BY <1>4, <2>1, UnlinkSegmentInv
<1>5. CASE RemoveEntry /\ s = turn
  BY <1>5, RemoveEntryInv
<1>. QED  BY <1>1, <1>2, <1>3, <1>4, <1>5 DEF Delete

\* IInv is an invariant of the store.
THEOREM Invariance == Spec => []IInv
<1>1. IInv /\ [Next]_vars => IInv'
  <2>. SUFFICES ASSUME IInv, [Next]_vars PROVE IInv'  OBVIOUS
  <2>1. TypeOK' /\ LockInv'
    BY TypeStep, LockStep DEF IInv
  <2>2. ASSUME NEW s \in Streams
        PROVE  StreamInv(s)'
    <3>1. CASE Delete
      BY <3>1, DeleterStep DEF IInv
    <3>2. ASSUME NEW t \in Active, WriteSegment(t) \/ Continue(t)
          PROVE  StreamInv(s)'
      <4>1. t \in Streams
        BY StreamAssumption DEF Streams
      <4>2. CASE t = s
        BY <3>2, <4>1, <4>2, WorkerStep DEF IInv
      <4>3. CASE t # s
        BY <3>2, <4>1, <4>3, OtherStream, Untouched DEF IInv
      <4>. QED  BY <4>2, <4>3
    <3>3. CASE UNCHANGED vars
      BY <3>3, Untouched DEF vars, workerVars, IInv
    <3>. QED  BY <3>1, <3>2, <3>3 DEF Next
  <2>. QED  BY <2>1, <2>2 DEF IInv
<1>. QED  BY <1>1, InitInv, PTL DEF Spec
------------------------------------------------------------------------------
(* The theorems.                                                            *)

\* The store's variables keep their types.
THEOREM TypeCorrect == Spec => []TypeOK
BY Invariance, PTL DEF IInv

\* A worker and the deleter are never both inside the critical section of a list.
THEOREM ListsExclusive == Spec => []ListExclusion
<1>1. IInv => ListExclusion
  BY StreamAssumption DEF IInv, LockInv, ListExclusion, Worker, Deleter, Streams
<1>. QED  BY <1>1, Invariance, PTL

\* What a playlist at place i of a list names is on disk, unless its file could
\* not be created, as long as N_COUNT - 1 entries that stay are behind it.
LEMMA NamedStays ==
  ASSUME IInv, NEW s \in Streams, NEW i \in 1..Len(gl[s]), Safe(i)
  PROVE  Listed(gl[s][i].seg) \subseteq segs[s] \cup missing[s]
<1>1. /\ gl[s] \in Seq(Entry) /\ linked[s] \in Nat /\ i \in Nat
      /\ Kept = FILES_MPD_COUNT + 1 /\ FILES_MPD_COUNT \in Nat
      /\ N_COUNT \in Nat /\ N_COUNT >= 2
  BY StreamTypes, KeepAssumption, WindowAssumption DEF IInv, Kept
<1>2. gl[s][i].seg \in Nat /\ gl[s][i].seg <= linked[s]
  BY EntryBelow DEF IInv, StreamInv
<1>3. SUFFICES ASSUME NEW n \in 1..gl[s][i].seg, n > gl[s][i].seg - N_COUNT,
                      n \notin segs[s] \cup missing[s]
               PROVE  FALSE
  BY DEF Listed
<1>4. n \in 1..linked[s] /\ n \in Nat
  BY <1>1, <1>2, <1>3
<1>5. Len(gl[s]) >= Kept /\ n < gl[s][Kept].seg
  BY <1>3, <1>4 DEF IInv, StreamInv, SegsInv
<1>6. Kept \in 1..Len(gl[s]) /\ i <= Kept + 1 - N_COUNT /\ i <= Kept
  BY <1>1, <1>5 DEF Safe
<1>7. gl[s][Kept].seg + (Kept - i) <= gl[s][i].seg
  BY <1>1, <1>6 DEF IInv, StreamInv, ListInv, Descending
<1>8. gl[s][Kept].seg \in Nat
  BY <1>1, <1>6, EntryFields
<1>9. Kept - i >= N_COUNT - 1 /\ Kept - i \in Nat
  BY <1>1, <1>6
<1>10. ASSUME NEW a \in Nat, NEW b \in Nat, NEW d \in Nat, a + d <= b,
              n < a, d >= N_COUNT - 1
       PROVE  n <= b - N_COUNT
  BY <1>1, <1>4, <1>10
<1>11. n <= gl[s][i].seg - N_COUNT
  <2>. DEFINE a == gl[s][Kept].seg
              b == gl[s][i].seg
              d == Kept - i
  <2>1. a \in Nat /\ b \in Nat /\ d \in Nat /\ a + d <= b /\ n < a /\ d >= N_COUNT - 1
    BY <1>2, <1>5, <1>7, <1>8, <1>9
  <2>. HIDE DEF a, b, d
  <2>2. n <= b - N_COUNT
    BY <1>10, <2>1
  <2>. QED  BY <2>2 DEF b
<1>. QED  BY <1>1, <1>2, <1>3, <1>11

\* A client that holds one of the newest playlists finds its file and its
\* segments, whatever fails, however the worker and the deleter interleave and
\* however many entries pile up.
THEOREM NewestStayPlayable == Spec => []NewestPlayable
<1>1. ASSUME IInv, NEW s \in Streams, NEW i \in 1..Len(gl[s]), Safe(i)
      PROVE  \E m \in mpds[s] : m.no = gl[s][i].no /\ m.seg = gl[s][i].seg
  <2>1. i <= Kept
    BY <1>1, KeepAssumption, WindowAssumption DEF Safe, Kept
  <2>. QED  BY <1>1, <2>1 DEF IInv, StreamInv, FilesInv
<1>2. IInv => NewestPlayable
  BY <1>1, NamedStays DEF NewestPlayable
<1>. QED  BY <1>2, Invariance, PTL
------------------------------------------------------------------------------
(* Without file errors.                                                     *)

\* What is on disk of a stream: the files of the entries, those of the segment
\* and the playlist at work, and the segment before it as long as no entry can
\* name it.
DiskInv(s) ==
  /\ count[s] = linked[s] + 1 + (IF pc[s] = "link" THEN 1 ELSE 0)
  /\ \A n \in segs[s] :
       /\ n >= 1
       /\ \/ \E i \in 1..Len(gl[s]) : gl[s][i].seg = n
          \/ n = linked[s] + 1
          \/ n = linked[s] /\ pc[s] \notin {"close", "link"}
  /\ \A m \in mpds[s] : \/ \E i \in 1..Len(gl[s]) : gl[s][i].no = m.no
                        \/ pc[s] \in {"lock", "insert"} /\ m.no = fname[s] - 1

\* What the deleter has unlinked is not made again before its entry goes.
GoneInv ==
  /\ dpc \in {"unlink_seg", "remove"} => \A m \in mpds[turn] : m.no # victim.no
  /\ dpc = "remove" => victim.seg \notin segs[turn]

LeakInv == GoneInv /\ \A s \in Streams : DiskInv(s)

\* What a step leaves alone stays as it was.
LEMMA UntouchedDisk ==
  ASSUME NEW t \in Streams, DiskInv(t),
         pc'[t] = pc[t], linked'[t] = linked[t], count'[t] = count[t],
         fname'[t] = fname[t], segs'[t] = segs[t], mpds'[t] = mpds[t],
         gl'[t] = gl[t]
  PROVE  DiskInv(t)'
BY DEF DiskInv

\* Faultless steps of a worker keep DiskInv.
LEMMA WorkerDisk ==
  ASSUME FALSE \notin OpenResults, N_COUNT = 2, IInv, NEW s \in Streams,
         DiskInv(s), WriteSegment(s) \/ Continue(s)
  PROVE  DiskInv(s)'
<1>. USE DEF Goto, deleterVars
<1>1. /\ linked[s] \in Nat /\ count[s] \in Nat /\ fname[s] \in Nat /\ fname[s] >= 1
      /\ segs[s] \in SUBSET Nat /\ gl[s] \in Seq(Entry)
      /\ \A m \in mpds[s] : m.no \in Nat
      /\ s \in DOMAIN pc /\ s \in DOMAIN linked /\ s \in DOMAIN count
      /\ s \in DOMAIN fname /\ s \in DOMAIN segs /\ s \in DOMAIN mpds /\ s \in DOMAIN gl
  BY StreamTypes DEF IInv, TypeOK
<1>2. CASE WriteSegment(s)
  <2>1. /\ pc[s] = "idle" /\ pc'[s] = "playlist"
        /\ linked'[s] = linked[s] /\ count'[s] = count[s] /\ fname'[s] = fname[s]
        /\ mpds'[s] = mpds[s] /\ gl'[s] = gl[s]
        /\ segs'[s] = segs[s] \cup {linked[s] + 1}
    BY <1>1, <1>2 DEF WriteSegment
  <2>. QED  BY <1>1, <2>1 DEF DiskInv
<1>3. CASE CountPlaylist(s)
  <2>1. /\ pc[s] = "playlist" /\ pc'[s] = "link" /\ count[s] < 2
        /\ linked'[s] = linked[s] /\ count'[s] = count[s] + 1 /\ fname'[s] = fname[s]
        /\ mpds'[s] = mpds[s] /\ gl'[s] = gl[s] /\ segs'[s] = segs[s]
    BY <1>1, <1>3 DEF CountPlaylist
  <2>2. linked[s] = 0
    BY <1>1, <2>1 DEF DiskInv
  <2>. QED  BY <1>1, <2>1, <2>2 DEF DiskInv
<1>4. CASE WriteMpd(s)
  <2>1. /\ pc[s] = "playlist" /\ pc'[s] = "lock"
        /\ linked'[s] = linked[s] /\ count'[s] = count[s] /\ fname'[s] = fname[s] + 1
        /\ gl'[s] = gl[s] /\ segs'[s] = segs[s]
        /\ mpds'[s] = Written(mpds[s], fname[s], linked[s])
    BY <1>1, <1>4 DEF WriteMpd
  <2>2. \A m \in mpds'[s] : m \in mpds[s] \/ m.no = fname[s]
    BY <2>1 DEF Written
  <2>. QED  BY <1>1, <2>1, <2>2 DEF DiskInv
<1>5. CASE LockList(s)
  <2>1. /\ pc[s] = "lock" /\ pc'[s] = "insert"
        /\ linked'[s] = linked[s] /\ count'[s] = count[s] /\ fname'[s] = fname[s]
        /\ mpds'[s] = mpds[s] /\ gl'[s] = gl[s] /\ segs'[s] = segs[s]
    BY <1>1, <1>5 DEF LockList
  <2>. QED  BY <2>1 DEF DiskInv
<1>6. CASE InsertEntry(s)
  <2>. DEFINE e == [no |-> fname[s] - 1, seg |-> linked[s]]
  <2>1. /\ pc[s] = "insert" /\ pc'[s] = "close"
        /\ linked'[s] = linked[s] /\ count'[s] = count[s] /\ fname'[s] = fname[s]
        /\ mpds'[s] = mpds[s] /\ gl'[s] = Cons(e, gl[s]) /\ segs'[s] = segs[s]
    BY <1>1, <1>6 DEF InsertEntry
  <2>2. e \in Entry /\ e.no = fname[s] - 1 /\ e.seg = linked[s]
    BY <1>1 DEF Entry
  <2>. HIDE DEF e
  <2>3. /\ Len(Cons(e, gl[s])) = Len(gl[s]) + 1 /\ Cons(e, gl[s])[1] = e
        /\ \A i \in 1..Len(gl[s]) : Cons(e, gl[s])[i + 1] = gl[s][i]
    BY <1>1, <2>2, ConsEntry
  <2>4. /\ 1 \in 1..Len(gl'[s]) /\ gl'[s][1].seg = linked[s] /\ gl'[s][1].no = fname[s] - 1
        /\ \A i \in 1..Len(gl[s]) : i + 1 \in 1..Len(gl'[s]) /\ gl'[s][i + 1] = gl[s][i]
    BY <1>1, <2>1, <2>2, <2>3
  <2>. DEFINE new == gl'[s]
  <2>5. ASSUME NEW n \in segs'[s]
        PROVE  n >= 1 /\ (\/ \E i \in 1..Len(new) : new[i].seg = n
                         \/ n = linked'[s] + 1)
    <3>1. n >= 1 /\ (\/ \E i \in 1..Len(gl[s]) : gl[s][i].seg = n
                    \/ n = linked[s] + 1 \/ n = linked[s])
      BY <2>1 DEF DiskInv
    <3>2. CASE \E i \in 1..Len(gl[s]) : gl[s][i].seg = n
      <4>1. PICK i \in 1..Len(gl[s]) : gl[s][i].seg = n
        BY <3>2
      <4>2. i + 1 \in 1..Len(new) /\ new[i + 1].seg = n
        BY <2>4, <4>1
      <4>. HIDE DEF new
      <4>. QED  BY <3>1, <4>2
    <3>3. CASE n = linked[s]
      <4>1. 1 \in 1..Len(new) /\ new[1].seg = n
        BY <2>4, <3>3
      <4>. HIDE DEF new
      <4>. QED  BY <3>1, <4>1
    <3>. QED  BY <2>1, <3>1, <3>2, <3>3
  <2>6. ASSUME NEW m \in mpds'[s]
        PROVE  \E i \in 1..Len(new) : new[i].no = m.no
    <3>1. (\E i \in 1..Len(gl[s]) : gl[s][i].no = m.no) \/ m.no = fname[s] - 1
      BY <2>1 DEF DiskInv
    <3>2. CASE \E i \in 1..Len(gl[s]) : gl[s][i].no = m.no
      <4>1. PICK i \in 1..Len(gl[s]) : gl[s][i].no = m.no
        BY <3>2
      <4>2. i + 1 \in 1..Len(new) /\ new[i + 1].no = m.no
        BY <2>4, <4>1
      <4>. HIDE DEF new
      <4>. QED  BY <4>2
    <3>3. CASE m.no = fname[s] - 1
      <4>1. 1 \in 1..Len(new) /\ new[1].no = m.no
        BY <2>4, <3>3
      <4>. HIDE DEF new
      <4>. QED  BY <4>1
    <3>. QED  BY <3>1, <3>2, <3>3
  <2>. QED  BY <2>1, <2>5, <2>6 DEF DiskInv
<1>7. CASE CloseMpd(s)
  <2>1. /\ pc[s] = "close" /\ pc'[s] = "link"
        /\ linked'[s] = linked[s] /\ count'[s] = count[s] + 1 /\ fname'[s] = fname[s]
        /\ mpds'[s] = Closed(mpds[s], fname[s] - 1)
        /\ gl'[s] = gl[s] /\ segs'[s] = segs[s]
    BY <1>1, <1>7 DEF CloseMpd
  <2>2. \A m \in mpds[s] : [m EXCEPT !.whole = m.whole \/ m.no = fname[s] - 1].no = m.no
    <3>1. mpds[s] \in SUBSET MpdFile
      BY StreamTypes DEF IInv
    <3>. QED  BY <3>1 DEF MpdFile
  <2>3. \A m \in mpds'[s] : \E k \in mpds[s] : m.no = k.no
    BY <2>1, <2>2 DEF Closed
  <2>. QED  BY <1>1, <2>1, <2>3 DEF DiskInv
<1>8. CASE LinkSegment(s)
  <2>1. /\ pc[s] = "link" /\ pc'[s] = "idle"
        /\ linked'[s] = linked[s] + 1 /\ count'[s] = count[s] /\ fname'[s] = fname[s]
        /\ mpds'[s] = mpds[s] /\ gl'[s] = gl[s] /\ segs'[s] = segs[s]
    BY <1>1, <1>8 DEF LinkSegment
  <2>. QED  BY <1>1, <2>1 DEF DiskInv
<1>9. ~FailMpd(s)
  BY DEF FailMpd
<1>. QED  BY <1>2, <1>3, <1>4, <1>5, <1>6, <1>7, <1>8, <1>9 DEF Continue

\* The deleter takes the two files of an entry away before the entry.
LEMMA DeleterDisk ==
  ASSUME IInv, LeakInv, NEW s \in Streams, Delete
  PROVE  DiskInv(s)'
<1>5. TypeOK /\ LockInv /\ StreamInv(s) /\ DiskInv(s) /\ GoneInv
  BY DEF IInv, LeakInv
<1>1. CASE PassOver \/ PickVictim
  BY <1>1, <1>5, UntouchedDisk DEF PassOver, PickVictim, workerVars
<1>2. CASE (UnlinkMpd \/ UnlinkSegment \/ RemoveEntry) /\ s # turn
  <2>1. /\ pc'[s] = pc[s] /\ linked'[s] = linked[s] /\ fname'[s] = fname[s]
        /\ segs'[s] = segs[s] /\ count'[s] = count[s] /\ mpds'[s] = mpds[s]
        /\ gl'[s] = gl[s]
    BY <1>2, <1>5 DEF TypeOK, UnlinkMpd, UnlinkSegment, RemoveEntry, workerVars
  <2>. QED  BY <1>5, <2>1, UntouchedDisk
<1>3. CASE (UnlinkMpd \/ UnlinkSegment) /\ s = turn
  <2>1. /\ pc'[s] = pc[s] /\ linked'[s] = linked[s] /\ fname'[s] = fname[s]
        /\ segs'[s] \subseteq segs[s] /\ count'[s] = count[s]
        /\ mpds'[s] \subseteq mpds[s] /\ gl'[s] = gl[s]
    BY <1>3, <1>5 DEF TypeOK, UnlinkMpd, UnlinkSegment, workerVars
  <2>. QED  BY <1>5, <2>1 DEF DiskInv
<1>4. CASE RemoveEntry /\ s = turn
  <2>1. /\ dpc = "remove" /\ pc'[s] = pc[s] /\ linked'[s] = linked[s]
        /\ count'[s] = count[s] /\ fname'[s] = fname[s]
        /\ mpds'[s] = mpds[s] /\ segs'[s] = segs[s]
        /\ gl'[s] = RemoveAt(gl[s], Kept + 1)
    <3>1. Doomed(s) = Kept + 1
      BY KeepAssumption DEF Doomed, Kept
    <3>. QED  BY <1>4, <1>5, <3>1 DEF TypeOK, RemoveEntry, workerVars
  <2>2. /\ gl[s] \in Seq(Entry) /\ Kept + 1 \in 1..Len(gl[s])
        /\ victim = gl[s][Kept + 1]
    BY <1>4, <1>5, <2>1, VictimBehind, StreamTypes DEF StreamInv
  <2>3. /\ Len(gl'[s]) = Len(gl[s]) - 1
        /\ \A i \in 1..Len(gl[s]) - 1 :
             gl'[s][i] = IF i < Kept + 1 THEN gl[s][i] ELSE gl[s][i + 1]
    BY <2>1, <2>2, RemoveAtEntry
  <2>4. ASSUME NEW i \in 1..Len(gl[s]), i # Kept + 1
        PROVE  \E j \in 1..Len(gl'[s]) : gl'[s][j] = gl[s][i]
    <3>0. Kept \in Nat
      BY KeepAssumption DEF Kept
    <3>1. CASE i < Kept + 1
      <4>1. i \in 1..Len(gl[s]) - 1
        BY <2>2, <3>0, <3>1
      <4>. QED  BY <2>2, <2>3, <3>1, <4>1
    <3>2. CASE i > Kept + 1
      <4>1. i - 1 \in 1..Len(gl[s]) - 1 /\ ~(i - 1 < Kept + 1) /\ (i - 1) + 1 = i
        BY <2>2, <3>0, <3>2
      <4>. QED  BY <2>2, <2>3, <4>1
    <3>. QED  BY <2>4, <3>0, <3>1, <3>2
  <2>5. /\ victim.seg \notin segs[s] /\ \A m \in mpds[s] : m.no # victim.no
    BY <1>4, <1>5, <2>1 DEF GoneInv
  <2>6. \A n \in segs[s] : (\E i \in 1..Len(gl[s]) : gl[s][i].seg = n)
                           => \E j \in 1..Len(gl'[s]) : gl'[s][j].seg = n
    BY <2>2, <2>4, <2>5
  <2>7. \A m \in mpds[s] : (\E i \in 1..Len(gl[s]) : gl[s][i].no = m.no)
                           => \E j \in 1..Len(gl'[s]) : gl'[s][j].no = m.no
    BY <2>2, <2>4, <2>5
  <2>. QED  BY <1>5, <2>1, <2>6, <2>7 DEF DiskInv
<1>. QED  BY <1>1, <1>2, <1>3, <1>4 DEF Delete

\* A worker makes no file of a number that was used before.
LEMMA WorkerGone ==
  ASSUME FALSE \notin OpenResults, IInv, LeakInv, NEW s \in Streams,
         WriteSegment(s) \/ Continue(s)
  PROVE  GoneInv'
<1>1. turn \in Streams /\ UNCHANGED <<dpc, turn, victim>>
  BY DEF IInv, TypeOK, WriteSegment, Continue, CountPlaylist, WriteMpd, FailMpd, LockList,
         InsertEntry, CloseMpd, LinkSegment, deleterVars
<1>2. CASE turn # s
  <2>1. mpds'[turn] = mpds[turn] /\ segs'[turn] = segs[turn]
    BY <1>1, <1>2, OtherStream DEF IInv
  <2>. QED  BY <1>1, <2>1 DEF LeakInv, GoneInv
<1>3. CASE turn = s /\ dpc # "scan"
  <2>1. /\ victim.no \in Nat /\ victim.seg \in Nat
        /\ victim.no < fname[s] - 1 /\ victim.seg <= linked[s]
    BY <1>1, <1>3, VictimBehind DEF IInv, StreamInv
  <2>2. /\ linked[s] \in Nat /\ fname[s] \in Nat /\ mpds[s] \in SUBSET MpdFile
    BY StreamTypes DEF IInv
  <2>3. segs'[s] \subseteq segs[s] \cup {linked[s] + 1}
    BY DEF IInv, TypeOK, WriteSegment, Continue, CountPlaylist, WriteMpd, FailMpd,
           LockList, InsertEntry, CloseMpd, LinkSegment
  <2>4. \A m \in mpds'[s] : m.no = fname[s] \/ \E k \in mpds[s] : m.no = k.no
    <3>1. CASE WriteMpd(s) \/ FailMpd(s)
      <4>1. \A m \in Written(mpds[s], fname[s], linked[s]) : m.no = fname[s] \/ m \in mpds[s]
        BY DEF Written
      <4>2. mpds'[s] = mpds[s] \/ mpds'[s] = Written(mpds[s], fname[s], linked[s])
        BY <3>1 DEF IInv, TypeOK, WriteMpd, FailMpd
      <4>. QED  BY <4>1, <4>2
    <3>2. CASE CloseMpd(s)
      <4>1. \A m \in mpds[s] : [m EXCEPT !.whole = m.whole \/ m.no = fname[s] - 1].no = m.no
        BY <2>2 DEF MpdFile
      <4>2. mpds'[s] = Closed(mpds[s], fname[s] - 1)
        BY <3>2 DEF IInv, TypeOK, CloseMpd
      <4>. QED  BY <4>1, <4>2 DEF Closed
    <3>3. CASE WriteSegment(s) \/ CountPlaylist(s) \/ LockList(s) \/ InsertEntry(s)
                 \/ LinkSegment(s)
      BY <3>3 DEF WriteSegment, CountPlaylist, LockList, InsertEntry, LinkSegment
    <3>. QED  BY <3>1, <3>2, <3>3 DEF Continue
  <2>5. \A m \in mpds'[s] : m.no = victim.no => \E k \in mpds[s] : k.no = victim.no
    BY <2>1, <2>2, <2>4
  <2>6. victim.seg \in segs'[s] => victim.seg \in segs[s]
    BY <2>1, <2>2, <2>3
  <2>. QED  BY <1>1, <1>3, <2>5, <2>6 DEF LeakInv, GoneInv
<1>4. CASE dpc = "scan"
  BY <1>1, <1>4 DEF GoneInv
<1>. QED  BY <1>2, <1>3, <1>4

\* The deleter works through one entry in order.
LEMMA DeleterGone ==
  ASSUME IInv, LeakInv, Delete
  PROVE  GoneInv'
<1>1. turn \in Streams
  BY DEF IInv, TypeOK
<1>2. CASE PassOver \/ PickVictim \/ RemoveEntry
  BY <1>2 DEF PassOver, PickVictim, RemoveEntry, GoneInv
<1>3. CASE UnlinkMpd
  BY <1>1, <1>3 DEF UnlinkMpd, GoneInv, IInv, TypeOK
<1>4. CASE UnlinkSegment
  BY <1>1, <1>4 DEF UnlinkSegment, GoneInv, IInv, TypeOK, LeakInv
<1>. QED  BY <1>2, <1>3, <1>4 DEF Delete

\* Without file errors, with the window of the code, no file outlives its entry:
\* the deleter leaks nothing, and a worker nothing the deleter does not reach.
THEOREM NothingIsLeaked ==
  ASSUME FALSE \notin OpenResults, N_COUNT = 2
  PROVE  Spec => []NothingLeaks
<1>1. Init => LeakInv
  <2>. SUFFICES ASSUME Init PROVE LeakInv  OBVIOUS
  <2>1. ASSUME NEW s \in Streams PROVE DiskInv(s)
    BY DEF Init, DiskInv
  <2>. QED  BY <2>1 DEF Init, LeakInv, GoneInv
<1>2. IInv /\ LeakInv /\ [Next]_vars => LeakInv'
  <2>. SUFFICES ASSUME IInv, LeakInv, [Next]_vars PROVE LeakInv'  OBVIOUS
  <2>1. CASE Delete
    BY <2>1, DeleterDisk, DeleterGone DEF LeakInv
  <2>2. ASSUME NEW t \in Active, WriteSegment(t) \/ Continue(t)
        PROVE  LeakInv'
    <3>1. t \in Streams
      BY StreamAssumption DEF Streams
    <3>2. GoneInv'
      BY <2>2, <3>1, WorkerGone
    <3>3. DiskInv(t)'
      BY <2>2, <3>1, WorkerDisk DEF LeakInv
    <3>4. ASSUME NEW s \in Streams, s # t
          PROVE  DiskInv(s)'
      <4>1. /\ pc'[s] = pc[s] /\ linked'[s] = linked[s] /\ fname'[s] = fname[s]
            /\ segs'[s] = segs[s] /\ mpds'[s] = mpds[s] /\ gl'[s] = gl[s]
        BY <2>2, <3>1, <3>4, OtherStream DEF IInv
      <4>2. count'[s] = count[s]
        BY <2>2, <3>4 DEF IInv, TypeOK, WriteSegment, Continue, CountPlaylist, WriteMpd,
              FailMpd, LockList, InsertEntry, CloseMpd, LinkSegment
      <4>. QED  BY <4>1, <4>2, UntouchedDisk DEF LeakInv
    <3>. QED  BY <3>2, <3>3, <3>4 DEF LeakInv
  <2>3. CASE UNCHANGED vars
    BY <2>3 DEF vars, workerVars, deleterVars, LeakInv, GoneInv, DiskInv
  <2>. QED  BY <2>1, <2>2, <2>3 DEF Next
<1>3. LeakInv => NothingLeaks
  <2>. SUFFICES ASSUME LeakInv, NEW s \in Streams
                PROVE  /\ segs[s] \subseteq {gl[s][i].seg : i \in 1..Len(gl[s])}
                                              \cup {linked[s], linked[s] + 1}
                       /\ {m.no : m \in mpds[s]} \subseteq {gl[s][i].no : i \in 1..Len(gl[s])}
                            \cup (IF pc[s] \in {"lock", "insert"} THEN {fname[s] - 1} ELSE {})
    BY DEF NothingLeaks
  <2>. QED  BY DEF LeakInv, DiskInv
<1>. QED  BY <1>1, <1>2, <1>3, Invariance, PTL DEF Spec
==============================================================================
