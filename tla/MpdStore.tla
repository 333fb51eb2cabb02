------------------------------ MODULE MpdStore ------------------------------
(***************************************************************************)
(* The files of the live window and the threads that share them: the       *)
(* worker of each stream writes segment files and playlists and puts one   *)
(* entry per playlist at the head of the stream's global list; the thread  *)
(* thr_del_mpd walks both lists in turn and unlinks what is behind the     *)
(* newest FILES_MPD_COUNT + 1 entries.  Each list has its own mutex.       *)
(*                                                                         *)
(* A segment is its number in the stream.  The worker is seen step by step *)
(* from dash_mpd_onsegment on (DashMpd has the rest of its stack frame as  *)
(* one action); every call of the file system is a step.                   *)
(***************************************************************************)
EXTENDS Integers, SequencesExt

CONSTANTS
  Active,           \* the streams that have a worker, among 0 and 1
  N_COUNT,          \* segments listed in a playlist (2 in the code)
  FILES_MPD_COUNT,  \* entries the deleter passes over are this many plus one (4)
  MaxSegments,      \* bound: segments a worker produces
  OpenResults       \* may fopen/fwrite of a file fail, succeed?

ASSUME StreamAssumption == Active \subseteq {0, 1}
ASSUME WindowAssumption == N_COUNT \in Nat /\ N_COUNT >= 2
ASSUME KeepAssumption   == FILES_MPD_COUNT \in Nat
ASSUME BoundAssumption  == MaxSegments \in Nat /\ OpenResults \subseteq BOOLEAN

VARIABLES
  pc,        \* where each worker is between dash_mpd_onsegment and the link
  linked,    \* segments linked in the adaptation set's list so far
  count,     \* dash->count
  fname,     \* dash->fname
  segs,      \* numbers of the segment files on disk
  missing,   \* numbers of the segments whose fopen failed
  mpds,      \* MPD files on disk
  gl,        \* gl_mpd_link_stream0/1: entries, newest first
  owner,     \* who holds stm0_mpd_mtx / stm1_mpd_mtx
  dpc,       \* where the deleter is
  turn,      \* the stream the deleter looks at
  victim     \* the entry it is deleting

workerVars  == <<pc, linked, count, fname, missing>>
deleterVars == <<dpc, turn, victim>>
vars == <<workerVars, segs, mpds, gl, owner, deleterVars>>

Streams == {0, 1}
Free == "free"
Worker == "worker"
Deleter == "deleter"

\* An entry names an MPD file and the newest segment this MPD lists.  The MPD
\* file is whole once it was closed.
Entry == [no : Nat, seg : Nat]
MpdFile == [no : Nat, seg : Nat, whole : BOOLEAN]
NoEntry == [no |-> 0, seg |-> 0]

\* The segments listed in an MPD whose newest is seg: the N_COUNT newest linked.
Listed(seg) == {n \in 1..seg : n > seg - N_COUNT}

\* Creating a file truncates the one of that name.
Written(files, no, seg) == {m \in files : m.no # no} \cup
                             {[no |-> no, seg |-> seg, whole |-> FALSE]}
Closed(files, no) ==
  {[m EXCEPT !.whole = m.whole \/ m.no = no] : m \in files}
------------------------------------------------------------------------------
(* The worker of stream s.                                                  *)

Goto(s, label) == pc' = [pc EXCEPT ![s] = label]

\* dash_mpd_onsegment: the file of the segment; without it no playlist either.
WriteSegment(s) ==
  /\ pc[s] = "idle"
  /\ linked[s] < MaxSegments
  /\ \/ /\ TRUE \in OpenResults
        /\ segs' = [segs EXCEPT ![s] = @ \cup {linked[s] + 1}]
        /\ Goto(s, "playlist")
        /\ UNCHANGED missing
     \/ /\ FALSE \in OpenResults
        /\ missing' = [missing EXCEPT ![s] = @ \cup {linked[s] + 1}]
        /\ Goto(s, "link")
        /\ UNCHANGED segs
  /\ UNCHANGED <<linked, count, fname, mpds, gl, owner, deleterVars>>

\* dash_mpd_playlist, as long as it only counts.
CountPlaylist(s) ==
  /\ pc[s] = "playlist" /\ count[s] < N_COUNT
  /\ count' = [count EXCEPT ![s] = @ + 1]
  /\ Goto(s, "link")
  /\ UNCHANGED <<linked, fname, missing, segs, mpds, gl, owner, deleterVars>>

\* The MPD file is created and written; its content reaches the disk with the
\* fclose.
WriteMpd(s) ==
  /\ pc[s] = "playlist" /\ count[s] >= N_COUNT
  /\ TRUE \in OpenResults
  /\ mpds' = [mpds EXCEPT ![s] = Written(@, fname[s], linked[s])]
  /\ fname' = [fname EXCEPT ![s] = @ + 1]
  /\ Goto(s, "lock")
  /\ UNCHANGED <<linked, count, missing, segs, gl, owner, deleterVars>>

\* fopen fails, or fwrite comes short and leaves a partial file: the call
\* returns, the playlist is not counted and its number is used again.
FailMpd(s) ==
  /\ pc[s] = "playlist" /\ count[s] >= N_COUNT
  /\ FALSE \in OpenResults
  /\ \/ UNCHANGED mpds
     \/ mpds' = [mpds EXCEPT ![s] = Written(@, fname[s], linked[s])]
  /\ Goto(s, "link")
  /\ UNCHANGED <<linked, count, fname, missing, segs, gl, owner, deleterVars>>

\* Faulty variant: the mutex is not taken.
LockList_Not(s) ==
  /\ pc[s] = "lock"
  /\ Goto(s, "insert")
  /\ UNCHANGED <<linked, count, fname, missing, segs, mpds, gl, owner, deleterVars>>

LockList(s) ==
  /\ pc[s] = "lock" /\ owner[s] = Free
  /\ owner' = [owner EXCEPT ![s] = Worker]
  /\ Goto(s, "insert")
  /\ UNCHANGED <<linked, count, fname, missing, segs, mpds, gl, deleterVars>>

\* Faulty variant: the entry goes to the tail.
InsertEntry_Tail(s) ==
  /\ pc[s] = "insert"
  /\ gl' = [gl EXCEPT ![s] = Append(@, [no |-> fname[s] - 1, seg |-> linked[s]])]
  /\ owner' = [owner EXCEPT ![s] = Free]
  /\ Goto(s, "close")
  /\ UNCHANGED <<linked, count, fname, missing, segs, mpds, deleterVars>>

\* list_insert_after the head, and unlock.
InsertEntry(s) ==
  /\ pc[s] = "insert"
  /\ gl' = [gl EXCEPT ![s] = Cons([no |-> fname[s] - 1, seg |-> linked[s]], @)]
  /\ owner' = [owner EXCEPT ![s] = Free]
  /\ Goto(s, "close")
  /\ UNCHANGED <<linked, count, fname, missing, segs, mpds, deleterVars>>

\* The start-up counter lies between (see Lifecycle); then fclose and the count.
CloseMpd(s) ==
  /\ pc[s] = "close"
  /\ mpds' = [mpds EXCEPT ![s] = Closed(@, fname[s] - 1)]
  /\ count' = [count EXCEPT ![s] = @ + 1]
  /\ Goto(s, "link")
  /\ UNCHANGED <<linked, fname, missing, segs, gl, owner, deleterVars>>

\* Back in dash_adaptation_set_segment: the segment joins the list.
LinkSegment(s) ==
  /\ pc[s] = "link"
  /\ linked' = [linked EXCEPT ![s] = @ + 1]
  /\ Goto(s, "idle")
  /\ UNCHANGED <<count, fname, missing, segs, mpds, gl, owner, deleterVars>>

\* The steps a worker takes without waiting for the encoder.
Continue(s) == \/ CountPlaylist(s) \/ WriteMpd(s) \/ FailMpd(s) \/ LockList(s)
               \/ InsertEntry(s) \/ CloseMpd(s) \/ LinkSegment(s)
------------------------------------------------------------------------------
(* The deleter.                                                             *)

\* Faulty variant: the walk stops one entry too early.
Doomed_OneEarly(s) == FILES_MPD_COUNT + 1

\* The place of the entry del_mpd_stream0/1 deletes: the first one that more
\* than FILES_MPD_COUNT entries precede.
Doomed(s) == FILES_MPD_COUNT + 2

\* Faulty variant: it looks at stream 0 only.
NextTurn_Same(s) == s

NextTurn(s) == 1 - s

\* The list is too short: lock, walk, unlock, sleep; nothing seen by others.
PassOver ==
  /\ dpc = "scan" /\ owner[turn] = Free
  /\ Len(gl[turn]) < Doomed(turn)
  /\ turn' = NextTurn(turn)
  /\ UNCHANGED <<workerVars, segs, mpds, gl, owner, dpc, victim>>

PickVictim ==
  /\ dpc = "scan" /\ owner[turn] = Free
  /\ Len(gl[turn]) >= Doomed(turn)
  /\ owner' = [owner EXCEPT ![turn] = Deleter]
  /\ victim' = gl[turn][Doomed(turn)]
  /\ dpc' = "unlink_mpd"
  /\ UNCHANGED <<workerVars, segs, mpds, gl, turn>>

UnlinkMpd ==
  /\ dpc = "unlink_mpd"
  /\ mpds' = [mpds EXCEPT ![turn] = {m \in @ : m.no # victim.no}]
  /\ dpc' = "unlink_seg"
  /\ UNCHANGED <<workerVars, segs, gl, owner, turn, victim>>

\* Faulty variant: only the MPD file is unlinked.
UnlinkSegment_Not ==
  /\ dpc = "unlink_seg"
  /\ dpc' = "remove"
  /\ UNCHANGED <<workerVars, segs, mpds, gl, owner, turn, victim>>

UnlinkSegment ==
  /\ dpc = "unlink_seg"
  /\ segs' = [segs EXCEPT ![turn] = @ \ {victim.seg}]
  /\ dpc' = "remove"
  /\ UNCHANGED <<workerVars, mpds, gl, owner, turn, victim>>

\* list_remove, free, unlock, sleep.
RemoveEntry ==
  /\ dpc = "remove"
  /\ gl' = [gl EXCEPT ![turn] = RemoveAt(@, Doomed(turn))]
  /\ owner' = [owner EXCEPT ![turn] = Free]
  /\ turn' = NextTurn(turn)
  /\ victim' = NoEntry
  /\ dpc' = "scan"
  /\ UNCHANGED <<workerVars, segs, mpds>>

Delete == PassOver \/ PickVictim \/ UnlinkMpd \/ UnlinkSegment \/ RemoveEntry
------------------------------------------------------------------------------
\* Each worker has handed out its init segment, which counts as a playlist if
\* its file could be created.
Init ==
  /\ pc = [s \in Streams |-> "idle"]
  /\ linked = [s \in Streams |-> 0]
  /\ count \in [Streams -> IF FALSE \in OpenResults THEN {0, 1} ELSE {1}]
  /\ fname = [s \in Streams |-> 1]
  /\ segs = [s \in Streams |-> {}] /\ missing = [s \in Streams |-> {}]
  /\ mpds = [s \in Streams |-> {}]
  /\ gl = [s \in Streams |-> <<>>]
  /\ owner = [s \in Streams |-> Free]
  /\ dpc = "scan" /\ turn = 0 /\ victim = NoEntry

Next == Delete \/ \E s \in Active : WriteSegment(s) \/ Continue(s)

\* The deleter keeps walking, and a worker inside the handler goes on; whether
\* another segment comes is up to the encoder.
Fairness == WF_vars(Delete) /\ \A s \in Active : WF_vars(Continue(s))

Spec == Init /\ [][Next]_vars /\ Fairness
------------------------------------------------------------------------------
(* Properties.                                                              *)

Labels == {"idle", "playlist", "lock", "insert", "close", "link"}

\* Types of the store's state.
TypeOK ==
  /\ pc \in [Streams -> Labels]
  /\ linked \in [Streams -> Nat] /\ count \in [Streams -> Nat]
  /\ fname \in [Streams -> Nat \ {0}]
  /\ segs \in [Streams -> SUBSET Nat] /\ missing \in [Streams -> SUBSET Nat]
  /\ mpds \in [Streams -> SUBSET MpdFile]
  /\ gl \in [Streams -> Seq(Entry)]
  /\ owner \in [Streams -> {Free, Worker, Deleter}]
  /\ dpc \in {"scan", "unlink_mpd", "unlink_seg", "remove"}
  /\ turn \in Streams /\ victim \in Entry

\* The i newest entries of a list that can rely on the files of the MPD's
\* segments: FILES_MPD_COUNT + 1 entries are kept, each with one segment, and an
\* MPD lists N_COUNT of them.
Safe(i) == i <= FILES_MPD_COUNT + 2 - N_COUNT

\* A client that holds one of the newest FILES_MPD_COUNT + 2 - N_COUNT playlists
\* finds the MPD file and every segment it lists on disk (a segment whose fopen
\* failed never was), whatever the deleter is in the middle of and however many
\* entries pile up.
NewestPlayable ==
  \A s \in Streams : \A i \in 1..Len(gl[s]) :
    Safe(i) => /\ Listed(gl[s][i].seg) \subseteq segs[s] \cup missing[s]
               /\ \E m \in mpds[s] : m.no = gl[s][i].no /\ m.seg = gl[s][i].seg

\* The worker and the deleter are never both inside the critical section of a
\* list, which is a plain doubly linked list.
ListExclusion ==
  \A s \in Active : ~(pc[s] = "insert" /\ turn = s /\ dpc # "scan")

\* Without file errors nothing leaks: a segment file on disk belongs to a listed
\* entry or is one of the two newest, and an MPD file on disk belongs to a listed
\* entry or is about to.
NothingLeaks ==
  \A s \in Streams :
    /\ segs[s] \subseteq {gl[s][i].seg : i \in 1..Len(gl[s])}
                          \cup {linked[s], linked[s] + 1}
    /\ {m.no : m \in mpds[s]} \subseteq {gl[s][i].no : i \in 1..Len(gl[s])}
                          \cup (IF pc[s] \in {"lock", "insert"}
                                THEN {fname[s] - 1} ELSE {})

\* What a client sees: the complete MPD files, and the segments that are gone (one
\* whose fopen failed never was there and does not count).  A number is out when its
\* file is closed.
Window ==
  INSTANCE LiveWindow WITH
    KeptPlaylists <- FILES_MPD_COUNT,
    KeptWhole <- FILES_MPD_COUNT + 1 - N_COUNT,
    produced <- linked,
    latest <- [s \in Streams |->
                 fname[s] - (IF pc[s] \in {"lock", "insert", "close"} THEN 2 ELSE 1)],
    offered <- [s \in Streams |->
                 {[no |-> m.no, seg |-> m.seg] : m \in {f \in mpds[s] : f.whole}}],
    withdrawn <- [s \in Streams |-> (1..linked[s]) \ (segs[s] \cup missing[s])]

\* The threads and the file system together keep the promise of LiveWindow: of
\* FILES_MPD_COUNT playlists none is withdrawn, of FILES_MPD_COUNT + 1 - N_COUNT no
\* segment either (one less than in the list, since the newest entry's file may
\* still be open), and no playlist is ever published that names what is gone.
KeepsPromise == Window!Spec

\* The backlog of each stream is worked off: again and again the list is down to
\* the entries that are kept.
BacklogDrained == \A s \in Active : []<>(Len(gl[s]) <= FILES_MPD_COUNT + 1)
==============================================================================
