------------------------------ MODULE Lifecycle ------------------------------
(***************************************************************************)
(* The life of the process: main starts the workers, waits on a counter    *)
(* and a condition variable until the streams have published, starts the   *)
(* deleter, joins everybody, sweeps the directory and frees the            *)
(* parameters.  A signal, a changed configuration, a starving stream or    *)
(* the expired wait ask for the shutdown by clearing done.                 *)
(*                                                                         *)
(* main calls pthread_cond_timedwait on mtx without holding it (its lock   *)
(* and unlock are commented out).  That is undefined; what glibc does with *)
(* a normal mutex is modelled: the wait releases mtx whoever holds it, and *)
(* main holds mtx when the wait returns.  An unlock frees mtx, too,        *)
(* whoever holds it.                                                       *)
(***************************************************************************)
EXTENDS Integers, FiniteSets

CONSTANTS
  ActiveSets,     \* what get_param may find: sets of active streams
  N_COUNT,        \* playlists a stream only counts (2 in the code)
  NODATA_LIMIT,   \* polls without data a worker tolerates in a row (250)
  CreateResults,  \* may pthread_create or malloc fail, succeed?
  ScanResults     \* may scandir fail, succeed?

ASSUME StreamAssumption == ActiveSets \subseteq SUBSET {"stream0", "stream1"}
ASSUME LimitAssumption  == /\ N_COUNT \in Nat /\ N_COUNT >= 1
                           /\ NODATA_LIMIT \in Nat
                           /\ CreateResults \subseteq BOOLEAN
                           /\ ScanResults \subseteq BOOLEAN

VARIABLES
  done,           \* the flag of that name: TRUE is 1, keep running
  count_pthread,  \* playlists main still waits for
  mtx,            \* who holds mtx
  mpc,            \* where main is
  status,         \* status in main: Ok, "EAGAIN" or "ETIMEDOUT"
  expired,        \* has cond_time passed?
  freed,          \* are the parameter blocks freed?
  swept,          \* has del_all_dir_files swept the directory?
  active,         \* stream_active of both parameter blocks
  wpc,            \* where each worker is
  back,           \* where a worker goes after a playlist: "loop" or "exited"
  loaded,         \* what count_pthread-- has read
  handed,         \* dash->count up to N_COUNT; 0 before the first frame
  starved,        \* wait_for_frame / 1000
  dpc,            \* the deleter: "none", "run", "exited"
  files           \* owners of the files in the directory

mainVars == <<mpc, status, expired, freed, swept, active>>
workVars == <<wpc, back, loaded, handed, starved>>
vars == <<done, count_pthread, mtx, mainVars, workVars, dpc, files>>

Stream0 == "stream0"
Stream1 == "stream1"
Streams == {Stream0, Stream1}
Free == "free"
Main == "main"
Ok == "ok"                \* the status zero
Leftover == "leftover"    \* files of an earlier run

Alive == mpc # "returned"  \* main's return ends the process
------------------------------------------------------------------------------
(* main                                                                     *)

\* ipc_wait answers, or main polls again unless it was told to stop.
IpcWait ==
  /\ mpc = "ipc_wait"
  /\ \/ mpc' = "setup"
     \/ ~done /\ mpc' = "returned"
  /\ UNCHANGED <<done, count_pthread, mtx, status, expired, freed, swept, active,
                 workVars, dpc, files>>

\* malloc and get_param; errors of get_param go unseen since status is unsigned.
\* A second active stream makes two playlists the target, alone or not.
Setup ==
  /\ mpc = "setup"
  /\ \/ /\ FALSE \in CreateResults
        /\ mpc' = "returned"
        /\ UNCHANGED <<active, count_pthread>>
     \/ /\ TRUE \in CreateResults
        /\ active' \in ActiveSets
        /\ count_pthread' = IF Stream1 \in active' THEN 2
                            ELSE IF Stream0 \in active' THEN 1 ELSE 0
        /\ mpc' = "create0"
  /\ UNCHANGED <<done, mtx, status, expired, freed, swept, workVars, dpc, files>>

\* Create the worker of stream s if it is active, then go on at next.  On an
\* error main frees the parameters and returns its status.
CreateWorker(s, here, next) ==
  /\ mpc = here
  /\ \/ s \notin active /\ mpc' = next /\ UNCHANGED <<wpc, status>>
     \/ /\ s \in active /\ TRUE \in CreateResults
        /\ wpc' = [wpc EXCEPT ![s] = "loop"]
        /\ mpc' = next /\ UNCHANGED status
     \/ /\ s \in active /\ FALSE \in CreateResults
        /\ status' = "EAGAIN" /\ mpc' = "free" /\ UNCHANGED wpc
  /\ UNCHANGED <<done, count_pthread, mtx, expired, freed, swept, active, back,
                 loaded, handed, starved, dpc, files>>

\* while(count_pthread): read without a lock, apart from the wait below.
TestCount ==
  /\ mpc = "test"
  /\ mpc' = IF count_pthread = 0 THEN "create_del" ELSE "call"
  /\ UNCHANGED <<done, count_pthread, mtx, status, expired, freed, swept, active,
                 workVars, dpc, files>>

\* pthread_cond_timedwait begins: mtx is released, main sleeps.
CallWait ==
  /\ mpc = "call"
  /\ mtx' = Free
  /\ mpc' = "waiting"
  /\ UNCHANGED <<done, count_pthread, status, expired, freed, swept, active,
                 workVars, dpc, files>>

\* A wake-up without a signal, which the call may give before the deadline;
\* nothing depends on it.
SpuriousWakeUp ==
  /\ mpc = "waiting" /\ ~expired
  /\ mpc' = "relock" /\ status' = Ok
  /\ UNCHANGED <<done, count_pthread, mtx, expired, freed, swept, active,
                 workVars, dpc, files>>

\* The deadline has passed.
TimeOut ==
  /\ mpc = "waiting" /\ expired
  /\ mpc' = "relock" /\ status' = "ETIMEDOUT"
  /\ UNCHANGED <<done, count_pthread, mtx, expired, freed, swept, active,
                 workVars, dpc, files>>

\* The wait returns with mtx held; nothing in main ever unlocks it.
Relock ==
  /\ mpc = "relock" /\ mtx = Free
  /\ mtx' = Main
  /\ \/ status = Ok /\ mpc' = "test" /\ UNCHANGED done
     \/ status # Ok /\ mpc' = "join0" /\ done' = FALSE
  /\ UNCHANGED <<count_pthread, status, expired, freed, swept, active, workVars,
                 dpc, files>>

CreateDeleter ==
  /\ mpc = "create_del"
  /\ \/ TRUE \in CreateResults /\ status' = Ok /\ dpc' = "run" /\ UNCHANGED done
     \/ FALSE \in CreateResults /\ status' = "EAGAIN" /\ done' = FALSE /\ UNCHANGED dpc
  /\ mpc' = "join0"
  /\ UNCHANGED <<count_pthread, mtx, expired, freed, swept, active, workVars, files>>

\* Faulty variant: main does not wait for the worker.
JoinWorker_Not(s, here, next) ==
  /\ mpc = here
  /\ mpc' = next
  /\ UNCHANGED <<done, count_pthread, mtx, status, expired, freed, swept, active,
                 workVars, dpc, files>>

JoinWorker(s, here, next) ==
  /\ mpc = here
  /\ s \in active => wpc[s] = "exited"
  /\ mpc' = next
  /\ UNCHANGED <<done, count_pthread, mtx, status, expired, freed, swept, active,
                 workVars, dpc, files>>

\* del_all_dir_files: if scandir fails the files stay.
Sweep ==
  /\ mpc = "sweep"
  /\ \/ TRUE \in ScanResults /\ files' = {} /\ swept' = TRUE
     \/ FALSE \in ScanResults /\ UNCHANGED <<files, swept>>
  /\ mpc' = "free"
  /\ UNCHANGED <<done, count_pthread, mtx, status, expired, freed, active,
                 workVars, dpc>>

FreeParams ==
  /\ mpc = "free"
  /\ freed' = TRUE
  /\ mpc' = IF status # Ok THEN "return" ELSE "join_del"
  /\ UNCHANGED <<done, count_pthread, mtx, status, expired, swept, active,
                 workVars, dpc, files>>

Return ==
  /\ \/ mpc = "return"
     \/ mpc = "join_del" /\ dpc = "exited"
  /\ mpc' = "returned"
  /\ UNCHANGED <<done, count_pthread, mtx, status, expired, freed, swept, active,
                 workVars, dpc, files>>

MainStep ==
  \/ IpcWait \/ Setup
  \/ CreateWorker(Stream0, "create0", "create1") \/ CreateWorker(Stream1, "create1", "test")
  \/ TestCount \/ CallWait \/ TimeOut \/ Relock
  \/ CreateDeleter
  \/ JoinWorker(Stream0, "join0", "join1") \/ JoinWorker(Stream1, "join1", "sweep")
  \/ Sweep \/ FreeParams \/ Return
------------------------------------------------------------------------------
(* The worker of stream s (dash_server_worker)                              *)

Go(s, label) == wpc' = [wpc EXCEPT ![s] = label]

\* Faulty variant: the last playlist that should only count is published.
HandOut_OneEarly(s, next) ==
  /\ files' = files \cup {s}
  /\ back' = [back EXCEPT ![s] = next]
  /\ \/ /\ handed[s] + 1 < N_COUNT
        /\ handed' = [handed EXCEPT ![s] = @ + 1]
        /\ Go(s, next)
     \/ /\ handed[s] + 1 >= N_COUNT
        /\ Go(s, "check")
        /\ UNCHANGED handed

\* A segment is handed out: its file is written; the first N_COUNT playlists
\* only count, every later one is published before the worker goes on at next.
HandOut(s, next) ==
  /\ files' = files \cup {s}
  /\ back' = [back EXCEPT ![s] = next]
  /\ \/ /\ handed[s] < N_COUNT
        /\ handed' = [handed EXCEPT ![s] = @ + 1]
        /\ Go(s, next)
     \/ /\ handed[s] = N_COUNT
        /\ Go(s, "check")
        /\ UNCHANGED handed

\* avi_get_frame delivered.  The first frame hands out the init segment; a later
\* one closes a segment or does not.
Frame(s) ==
  /\ wpc[s] = "loop" /\ done
  /\ starved' = [starved EXCEPT ![s] = 0]
  /\ \/ HandOut(s, "loop")
     \/ handed[s] > 0 /\ UNCHANGED <<wpc, back, handed, files>>
  /\ UNCHANGED <<done, count_pthread, mtx, mainVars, loaded, dpc>>

\* -ENODATA: a stream that starves stops the program, all streams of it.
NoData(s) ==
  /\ wpc[s] = "loop" /\ done
  /\ starved' = [starved EXCEPT ![s] = @ + 1]
  /\ \/ /\ starved[s] < NODATA_LIMIT
        /\ UNCHANGED <<done, wpc>>
     \/ /\ starved[s] >= NODATA_LIMIT
        /\ done' = FALSE
        /\ Go(s, "leave")
  /\ UNCHANGED <<count_pthread, mtx, mainVars, back, loaded, handed, dpc, files>>

\* while(done) ends.
LeaveLoop(s) ==
  /\ wpc[s] = "loop" /\ ~done
  /\ Go(s, "leave")
  /\ UNCHANGED <<done, count_pthread, mtx, mainVars, back, loaded, handed, starved,
                 dpc, files>>

\* dash_mpd_destroy closes the open segment, if there is one, and the thread ends.
DestroyStream(s) ==
  /\ wpc[s] = "leave"
  /\ \/ handed[s] > 0 /\ HandOut(s, "exited")
     \/ Go(s, "exited") /\ UNCHANGED <<back, handed, files>>
  /\ UNCHANGED <<done, count_pthread, mtx, mainVars, loaded, starved, dpc>>

\* Faulty variant: a counter that already is at zero counts on.
CheckCount_AtZero(s) ==
  /\ wpc[s] = "check"
  /\ Go(s, IF count_pthread >= 0 THEN "lock" ELSE back[s])
  /\ UNCHANGED <<done, count_pthread, mtx, mainVars, back, loaded, handed, starved,
                 dpc, files>>

\* Faulty variant: the counter is not looked at.
CheckCount_Not(s) ==
  /\ wpc[s] = "check"
  /\ Go(s, "lock")
  /\ UNCHANGED <<done, count_pthread, mtx, mainVars, back, loaded, handed, starved,
                 dpc, files>>

\* if(count_pthread > 0) of dash_mpd_playlist, outside the lock.
CheckCount(s) ==
  /\ wpc[s] = "check"
  /\ Go(s, IF count_pthread > 0 THEN "lock" ELSE back[s])
  /\ UNCHANGED <<done, count_pthread, mtx, mainVars, back, loaded, handed, starved,
                 dpc, files>>

LockMtx(s) ==
  /\ wpc[s] = "lock" /\ mtx = Free
  /\ mtx' = s
  /\ Go(s, "locked")
  /\ UNCHANGED <<done, count_pthread, mainVars, back, loaded, handed, starved,
                 dpc, files>>

\* count_pthread-- reads the counter ...
LoadCount(s) ==
  /\ wpc[s] = "locked"
  /\ loaded' = [loaded EXCEPT ![s] = count_pthread]
  /\ Go(s, "loaded")
  /\ UNCHANGED <<done, count_pthread, mtx, mainVars, back, handed, starved, dpc, files>>

\* ... and writes it: the lock may be gone in between, since main's wait releases it
\* whoever holds it, and then what the other worker has counted is lost.
CountDown(s) ==
  /\ wpc[s] = "loaded"
  /\ count_pthread' = loaded[s] - 1
  /\ loaded' = [loaded EXCEPT ![s] = 0]
  /\ Go(s, "counted")
  /\ UNCHANGED <<done, mtx, mainVars, back, handed, starved, dpc, files>>

\* The signal at zero wakes main if main is waiting and is lost if not.
Signal(s) ==
  /\ wpc[s] = "counted"
  /\ IF count_pthread = 0 /\ mpc = "waiting"
     THEN mpc' = "relock" /\ status' = Ok ELSE UNCHANGED <<mpc, status>>
  /\ Go(s, "unlock")
  /\ UNCHANGED <<done, count_pthread, mtx, expired, freed, swept, active, back, loaded,
                 handed, starved, dpc, files>>

\* Faulty variant: the unlock is forgotten.
UnlockMtx_Not(s) ==
  /\ wpc[s] = "unlock"
  /\ Go(s, back[s])
  /\ UNCHANGED <<done, count_pthread, mtx, mainVars, back, loaded, handed, starved,
                 dpc, files>>

UnlockMtx(s) ==
  /\ wpc[s] = "unlock"
  /\ mtx' = Free
  /\ Go(s, back[s])
  /\ UNCHANGED <<done, count_pthread, mainVars, back, loaded, handed, starved,
                 dpc, files>>

WorkerStep(s) ==
  /\ Alive
  /\ \/ Frame(s) \/ NoData(s) \/ LeaveLoop(s) \/ DestroyStream(s)
     \/ CheckCount(s) \/ LockMtx(s) \/ LoadCount(s) \/ CountDown(s) \/ Signal(s)
     \/ UnlockMtx(s)
------------------------------------------------------------------------------
(* The rest of the world                                                    *)

\* thr_del_mpd leaves its loop; what it does in there is in MpdStore.
DeleterEnds ==
  /\ Alive /\ dpc = "run" /\ ~done
  /\ dpc' = "exited"
  /\ UNCHANGED <<done, count_pthread, mtx, mainVars, workVars, files>>

\* SIGINT, or a changed configuration of a stream (cfg_subscribe).
OnSigterm ==
  /\ Alive /\ done
  /\ done' = FALSE
  /\ UNCHANGED <<count_pthread, mtx, mainVars, workVars, dpc, files>>

\* The five seconds are over.
Expire ==
  /\ ~expired /\ mpc \in {"test", "call", "waiting", "relock"}
  /\ expired' = TRUE
  /\ UNCHANGED <<done, count_pthread, mtx, mpc, status, freed, swept, active,
                 workVars, dpc, files>>

Finished == mpc = "returned" /\ UNCHANGED vars

Init ==
  /\ done = TRUE /\ count_pthread = 0 /\ mtx = Free
  /\ mpc = "ipc_wait" /\ status = Ok /\ expired = FALSE
  /\ freed = FALSE /\ swept = FALSE /\ active = {}
  /\ wpc = [s \in Streams |-> "none"] /\ back = [s \in Streams |-> "loop"]
  /\ loaded = [s \in Streams |-> 0]
  /\ handed = [s \in Streams |-> 0] /\ starved = [s \in Streams |-> 0]
  /\ dpc = "none" /\ files \in {{}, {Leftover}}

Next == \/ MainStep \/ \E s \in Streams : WorkerStep(s)
        \/ DeleterEnds \/ OnSigterm \/ Expire
        \/ SpuriousWakeUp \/ Finished

\* The scheduler runs every thread that can run, and time passes.  Nothing makes
\* a signal or a frame come.
Fairness == /\ WF_vars(MainStep) /\ WF_vars(DeleterEnds) /\ WF_vars(Expire)
            /\ \A s \in Streams : WF_vars(WorkerStep(s))

Spec == Init /\ [][Next]_vars /\ Fairness
------------------------------------------------------------------------------
(* Properties                                                               *)

\* main holds mtx, will not wait on it again, and a worker that it has to join
\* wants it: nothing but a kill ends this process.
Hung ==
  /\ mtx = Main /\ mpc \in {"create_del", "join0", "join1"}
  /\ \E s \in Streams : wpc[s] = "lock"

\* The unlocked test of count_pthread lets every stream through that saw it
\* positive, so it goes below zero, but by one stream less than are running:
\* with one stream it never does, with two it can reach -1.
CountBound ==
  count_pthread >= IF active = {} THEN 0 ELSE 1 - Cardinality(active)

\* With one stream the shutdown hangs only after the wait for the first playlist
\* timed out: a process that started never hangs.  (Two streams can both pass
\* the test of the counter, and then a process that did start hangs.)
HangNeedsTimeout == Hung => status = "ETIMEDOUT" \/ Cardinality(active) > 1

\* main declares the program running, and starts the deleter, only when some
\* stream has got past the playlists that are only counted.
RunMeansPublished ==
  dpc # "none" /\ active # {} => \E s \in active : handed[s] = N_COUNT

\* The directory stays empty once it has been swept: no worker, in the segment
\* it closes on its way out either, writes after del_all_dir_files.
SweptClean == swept => files = {}

\* The parameter blocks, which the workers use, are freed only when the workers
\* are gone; except that a failure to create the second worker frees the block
\* of the first one while it runs.
ParamsOutliveWorkers ==
  freed => \A s \in active : \/ wpc[s] \in {"none", "exited"}
                             \/ s = Stream0 /\ status = "EAGAIN" /\ wpc[Stream1] = "none"

\* Once it has been asked to stop (a signal, a changed configuration, a starving
\* stream, the expired wait), the process ends, or hangs on mtx.
ShutdownCompletes == ~done ~> (mpc = "returned" \/ Hung)
==============================================================================
