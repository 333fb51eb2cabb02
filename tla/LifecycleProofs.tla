--------------------------- MODULE LifecycleProofs ---------------------------
(***************************************************************************)
(* Proofs about Lifecycle, for every choice of active streams, every limit *)
(* and every failure to create a thread.  The inductive invariant IInv     *)
(* counts the workers that passed the unlocked test of count_pthread and   *)
(* have not counted down yet, and follows main through its joins.          *)
(***************************************************************************)
EXTENDS Lifecycle, FiniteSetTheorems, TLAPS

\* Where main, a worker and the deleter may be.
Before == {"ipc_wait", "setup", "create0", "create1"}
Waits  == {"test", "call", "waiting", "relock"}
Joins  == {"create_del", "join0", "join1", "sweep"}
After  == {"free", "return", "join_del", "returned"}
Passing == {"lock", "locked", "loaded"}
Pending == Passing \cup {"check", "counted", "unlock"}
Labels == Pending \cup {"none", "loop", "leave", "exited"}

\* The worker of s is not there (yet, or any more).
Gone(s) == wpc[s] \in {"none", "exited"}

\* Has s passed the test without having counted down?  Is it active?  As numbers.
Passed(s) == IF wpc[s] \in Passing THEN 1 ELSE 0
Running(s) == IF s \in active THEN 1 ELSE 0

TypeInv ==
  /\ done \in BOOLEAN /\ count_pthread \in Int
  /\ mpc \in Before \cup Waits \cup Joins \cup After
  /\ status \in {Ok, "EAGAIN", "ETIMEDOUT"}
  /\ freed \in BOOLEAN /\ swept \in BOOLEAN /\ active \subseteq Streams
  /\ wpc \in [Streams -> Labels] /\ back \in [Streams -> {"loop", "exited"}]
  /\ loaded \in [Streams -> Int] /\ handed \in [Streams -> 0..N_COUNT]
  /\ dpc \in {"none", "run", "exited"}

\* Workers exist only for active streams, once main has created them.
WorkersInv ==
  /\ mpc \in {"ipc_wait", "setup"} => active = {}
  /\ mpc \in {"ipc_wait", "setup", "create0"} => \A s \in Streams : wpc[s] = "none"
  /\ mpc = "create1" => wpc[Stream1] = "none"
  /\ \A s \in Streams : wpc[s] # "none" => s \in active

\* Whoever passed the test saw the counter positive, and nobody else counts down.
\* What a worker has read and not yet written back is as good as the counter: low
\* enough, and not below zero unless the counter is.
CountInv ==
  /\ active = {} => count_pthread = 0
  /\ active # {} => count_pthread >= 1 + Passed(Stream0) + Passed(Stream1)
                                       - Running(Stream0) - Running(Stream1)
  /\ \A s \in Streams : \A t \in Streams \ {s} : wpc[s] = "loaded" =>
       /\ loaded[s] >= 2 + Passed(t) - Running(Stream0) - Running(Stream1)
       /\ loaded[s] <= 0 => count_pthread <= 0
       /\ count_pthread <= 0 /\ wpc[t] \in Passing => loaded[s] <= 0

\* main goes on only when the counter is down or the wait timed out.  With two
\* workers the counter may come up again, when one writes back what it has read.
WaitInv ==
  /\ mpc = "relock" => status \in {Ok, "ETIMEDOUT"}
  /\ mpc \in Before => dpc = "none"
  /\ mpc = "create_del" => count_pthread <= 0 \/ active = Streams
  /\ mpc \in {"join0", "join1"} =>
       count_pthread <= 0 \/ active = Streams \/ status = "ETIMEDOUT"

\* Only a stream that has got past the counted playlists counts down.
PublishInv ==
  /\ \A s \in Streams : wpc[s] \in Pending => handed[s] = N_COUNT
  /\ active # {} /\ (count_pthread <= 0 \/ mpc = "create_del" \/ dpc # "none") =>
       \E s \in active : handed[s] = N_COUNT

\* main sweeps and frees behind the joins, or behind a failure to create a worker.
JoinInv ==
  /\ mpc = "join1" => Gone(Stream0)
  /\ mpc = "sweep" \/ swept => \A s \in Streams : Gone(s)
  /\ swept => mpc \in After /\ files = {}
  /\ mpc \in After => \/ \A s \in Streams : Gone(s)
                      \/ status = "EAGAIN" /\ wpc[Stream1] = "none"
  /\ freed => mpc \in After \ {"free"}

IInv == TypeInv /\ WorkersInv /\ CountInv /\ WaitInv /\ PublishInv /\ JoinInv
------------------------------------------------------------------------------
(* A step of a worker.                                                      *)

\* What a worker may do to the counter, to main and to itself.
LEMMA WorkerEffect ==
  ASSUME TypeInv, PublishInv, NEW s \in Streams, WorkerStep(s)
  PROVE  /\ wpc' \in [Streams -> Labels] /\ handed' \in [Streams -> 0..N_COUNT]
         /\ back' \in [Streams -> {"loop", "exited"}] /\ done' \in BOOLEAN
         /\ \A t \in Streams \ {s} : wpc'[t] = wpc[t] /\ handed'[t] = handed[t]
         /\ wpc[s] \notin {"none", "exited"} /\ wpc'[s] # "none"
         /\ handed'[s] = handed[s] \/ handed[s] < N_COUNT
         /\ wpc'[s] \in Pending => handed'[s] = N_COUNT
         /\ UNCHANGED <<freed, swept, active, dpc>>
         /\ \/ mpc' = mpc /\ status' = status
            \/ mpc = "waiting" /\ mpc' = "relock" /\ status' = Ok
         /\ loaded' \in [Streams -> Int]
         /\ \A t \in Streams \ {s} : loaded'[t] = loaded[t]
         /\ \/ /\ count_pthread' = count_pthread /\ wpc'[s] # "loaded"
               /\ \/ wpc'[s] \notin Passing
                  \/ wpc[s] \in Passing
                  \/ count_pthread > 0
            \/ /\ count_pthread' = count_pthread /\ loaded'[s] = count_pthread
               /\ wpc[s] = "locked" /\ wpc'[s] = "loaded"
            \/ /\ count_pthread' = loaded[s] - 1
               /\ wpc[s] = "loaded" /\ wpc'[s] = "counted"
<1>. USE DEF TypeInv, Go, mainVars, workVars, Passing
<1>0. \A l \in Labels : [wpc EXCEPT ![s] = l] \in [Streams -> Labels]
  OBVIOUS
<1>1. ASSUME NEW next \in {"loop", "exited"}, HandOut(s, next)
      PROVE  /\ wpc' \in [Streams -> Labels] /\ handed' \in [Streams -> 0..N_COUNT]
             /\ back' \in [Streams -> {"loop", "exited"}]
             /\ \A t \in Streams \ {s} : wpc'[t] = wpc[t] /\ handed'[t] = handed[t]
             /\ handed'[s] = handed[s] \/ handed[s] < N_COUNT
             /\ wpc'[s] \in {next, "check"}
             /\ wpc'[s] = "check" => handed'[s] = N_COUNT
  BY <1>1, LimitAssumption DEF HandOut, Labels, Pending
<1>2. CASE Frame(s)
  BY <1>1, <1>2 DEF Frame, Labels, Pending
<1>3. CASE NoData(s)
  BY <1>3, <1>0 DEF NoData, Labels, Pending
<1>4. CASE LeaveLoop(s)
  BY <1>4 DEF LeaveLoop, Labels, Pending
<1>5. CASE DestroyStream(s)
  BY <1>1, <1>5 DEF DestroyStream, Labels, Pending
<1>6. CASE CheckCount(s)
  <2>1. back[s] \in {"loop", "exited"} /\ handed[s] = N_COUNT
    BY <1>6 DEF CheckCount, PublishInv, Pending
  <2>. QED  BY <1>6, <2>1 DEF CheckCount, Labels, Pending
<1>7. CASE LockMtx(s)
  BY <1>7 DEF LockMtx, Labels, Pending, PublishInv
<1>8. CASE LoadCount(s)
  BY <1>8 DEF LoadCount, Labels, Pending, PublishInv
<1>8a. CASE CountDown(s)
  BY <1>8a DEF CountDown, Labels, Pending, PublishInv
<1>8b. CASE Signal(s)
  BY <1>8b DEF Signal, Labels, Pending, PublishInv
<1>9. CASE UnlockMtx(s)
  <2>1. back[s] \in {"loop", "exited"}
    OBVIOUS
  <2>. QED  BY <1>9, <2>1 DEF UnlockMtx, Labels, Pending
<1>. QED  BY <1>2, <1>3, <1>4, <1>5, <1>6, <1>7, <1>8, <1>8a, <1>8b,
             <1>9 DEF WorkerStep

\* A step of a worker keeps IInv.
LEMMA WorkerKeeps ==
  ASSUME IInv, NEW s \in Streams, WorkerStep(s)
  PROVE  IInv'
<1>. USE DEF IInv
<1>1. /\ wpc' \in [Streams -> Labels] /\ handed' \in [Streams -> 0..N_COUNT]
      /\ back' \in [Streams -> {"loop", "exited"}] /\ done' \in BOOLEAN
      /\ \A t \in Streams \ {s} : wpc'[t] = wpc[t] /\ handed'[t] = handed[t]
      /\ wpc[s] \notin {"none", "exited"} /\ wpc'[s] # "none"
      /\ handed'[s] = handed[s] \/ handed[s] < N_COUNT
      /\ wpc'[s] \in Pending => handed'[s] = N_COUNT
      /\ UNCHANGED <<freed, swept, active, dpc>>
  BY WorkerEffect
<1>2. \/ mpc' = mpc /\ status' = status
      \/ mpc = "waiting" /\ mpc' = "relock" /\ status' = Ok
  BY WorkerEffect
<1>3. \/ /\ count_pthread' = count_pthread /\ wpc'[s] # "loaded"
         /\ \/ wpc'[s] \notin Passing
            \/ wpc[s] \in Passing
            \/ count_pthread > 0
      \/ /\ count_pthread' = count_pthread /\ loaded'[s] = count_pthread
         /\ wpc[s] = "locked" /\ wpc'[s] = "loaded"
      \/ /\ count_pthread' = loaded[s] - 1
         /\ wpc[s] = "loaded" /\ wpc'[s] = "counted"
  BY WorkerEffect
<1>3a. loaded' \in [Streams -> Int] /\ \A t \in Streams \ {s} : loaded'[t] = loaded[t]
  BY WorkerEffect
<1>4. s \in active
  BY <1>1 DEF WorkersInv
<1>5. /\ count_pthread \in Int /\ N_COUNT \in Nat
      /\ \A t \in Streams : loaded[t] \in Int /\ loaded'[t] \in Int
  BY <1>3a, LimitAssumption DEF TypeInv
<1>6. TypeInv'
  <2>1. mpc' \in Before \cup Waits \cup Joins \cup After /\ status' \in {Ok, "EAGAIN", "ETIMEDOUT"}
    BY <1>2 DEF TypeInv, Waits
  <2>2. count_pthread' \in Int
    BY <1>3, <1>5
  <2>. QED  BY <1>1, <1>3a, <2>1, <2>2 DEF TypeInv
<1>7. WorkersInv'
  <2>1. Stream1 \in Streams
    BY DEF Streams
  <2>2. mpc \notin {"ipc_wait", "setup", "create0"}
    BY <1>1, <1>4 DEF WorkersInv
  <2>3. mpc' \notin {"ipc_wait", "setup", "create0"} /\ (mpc' = "create1" => mpc = "create1")
    BY <1>2, <2>2
  <2>4. mpc' = "create1" => wpc'[Stream1] = "none"
    BY <1>1, <2>1, <2>3 DEF WorkersInv
  <2>5. \A t \in Streams : wpc'[t] # "none" => t \in active'
    BY <1>1, <1>4 DEF WorkersInv
  <2>. QED  BY <2>3, <2>4, <2>5 DEF WorkersInv
<1>8. CountInv'
  <2>1. PICK o \in Streams : o # s /\ Streams = {s, o}
    BY DEF Streams, Stream0, Stream1
  <2>. DEFINE P == Passed(s)  N == Passed(s)'  Q == Passed(o)
              R == Running(Stream0) + Running(Stream1)
  <2>2. /\ P \in {0, 1} /\ Q \in {0, 1} /\ N \in {0, 1} /\ Q' = Q
        /\ R' = R /\ R \in {1, 2} /\ Q <= R - 1
    <3>1. Running(s) = 1 /\ Running(o) \in {0, 1} /\ (Q = 1 => Running(o) = 1)
      BY <1>4, <2>1 DEF Passed, Running, WorkersInv, Passing
    <3>2. R = Running(s) + Running(o)
      BY <2>1, <3>1 DEF Streams
    <3>3. P \in {0, 1} /\ Q \in {0, 1} /\ N \in {0, 1} /\ Q' = Q /\ R' = R
      BY <1>1, <2>1 DEF Passed, Running
    <3>. HIDE DEF P, N, Q, R
    <3>. QED  BY <3>1, <3>2, <3>3
  <2>3. Passed(Stream0) + Passed(Stream1) = P + Q
        /\ (Passed(Stream0) + Passed(Stream1))' = N + Q
    BY <2>1, <2>2 DEF Streams, Passed
  <2>4. count_pthread >= 1 + P + Q - R
    BY <1>4, <1>5, <2>2, <2>3 DEF CountInv, Running, Passed
  <2>5. wpc[s] = "loaded" => /\ loaded[s] >= 2 + Q - R
                             /\ loaded[s] <= 0 => count_pthread <= 0
                             /\ count_pthread <= 0 /\ Q = 1 => loaded[s] <= 0
    BY <1>5, <2>1 DEF CountInv, Passed, Running
  <2>6. wpc[o] = "loaded" => /\ loaded[o] >= 2 + P - R
                             /\ loaded[o] <= 0 => count_pthread <= 0
                             /\ count_pthread <= 0 /\ P = 1 => loaded[o] <= 0
    BY <1>5, <2>1 DEF CountInv, Passed, Running
  <2>7. /\ wpc[o] = "loaded" => Q = 1
        /\ wpc[s] = "loaded" => P = 1
        /\ wpc'[o] = wpc[o] /\ loaded'[o] = loaded[o]
    BY <1>1, <1>3a, <2>1 DEF Passed, Passing
  <2>8. \/ /\ count_pthread' = count_pthread /\ wpc'[s] # "loaded"
           /\ N <= P \/ count_pthread > 0
        \/ /\ count_pthread' = count_pthread /\ loaded'[s] = count_pthread
           /\ P = 1 /\ N = 1 /\ wpc'[s] = "loaded"
        \/ /\ count_pthread' = loaded[s] - 1
           /\ wpc[s] = "loaded" /\ wpc'[s] # "loaded" /\ N = 0
    BY <1>3 DEF Passed, Passing
  <2>. HIDE DEF P, N, Q, R
  <2>9. count_pthread' \in Int /\ loaded[s] \in Int /\ loaded[o] \in Int
    BY <1>5, <1>6 DEF TypeInv
  <2>10. count_pthread' >= 1 + N + Q - R
    <3>0. P \in Int /\ N \in Int /\ Q \in Int /\ R \in Int
      BY <2>2
    <3>1. CASE count_pthread' = count_pthread /\ N <= P
      <4>1. count_pthread >= 1 + N + Q - R
        BY <1>5, <2>4, <3>0, <3>1
      <4>. QED  BY <3>1, <4>1
    <3>2. CASE count_pthread' = count_pthread /\ count_pthread > 0
      BY <1>5, <2>2, <3>2
    <3>3. CASE count_pthread' = loaded[s] - 1 /\ wpc[s] = "loaded" /\ N = 0
      <4>1. loaded[s] >= 2 + Q - R
        BY <2>5, <3>3
      <4>. QED  BY <2>9, <3>0, <3>3, <4>1
    <3>. QED  BY <2>8, <2>2, <3>1, <3>2, <3>3
  <2>11. wpc'[s] = "loaded" => /\ loaded'[s] >= 2 + Q - R
                               /\ loaded'[s] <= 0 => count_pthread' <= 0
                               /\ count_pthread' <= 0 /\ Q = 1 => loaded'[s] <= 0
    BY <1>5, <2>2, <2>4, <2>8, <2>9
  <2>12. wpc'[o] = "loaded" => /\ loaded'[o] >= 2 + N - R
                               /\ loaded'[o] <= 0 => count_pthread' <= 0
                               /\ count_pthread' <= 0 /\ N = 1 => loaded'[o] <= 0
    BY <1>5, <2>2, <2>4, <2>5, <2>6, <2>7, <2>8, <2>9
  <2>. QED
    <3>1. active' # {}
      BY <1>1, <1>4
    <3>2. count_pthread' >= 1 + Passed(Stream0)' + Passed(Stream1)'
                              - Running(Stream0)' - Running(Stream1)'
      BY <2>2, <2>3, <2>9, <2>10 DEF R, P, N, Q, Passed, Running
    <3>3. ASSUME NEW x \in Streams, NEW t \in Streams \ {x}, wpc'[x] = "loaded"
          PROVE  /\ loaded'[x] >= 2 + Passed(t)' - Running(Stream0)' - Running(Stream1)'
                 /\ loaded'[x] <= 0 => count_pthread' <= 0
                 /\ count_pthread' <= 0 /\ wpc'[t] \in Passing => loaded'[x] <= 0
      <4>1. (x = s /\ t = o) \/ (x = o /\ t = s)
        BY <2>1
      <4>2. Running(Stream0)' \in {0, 1} /\ Running(Stream1)' \in {0, 1}
            /\ loaded'[x] \in Int
        BY <1>5 DEF Running
      <4>. QED  BY <2>2, <2>11, <2>12, <3>3, <4>1, <4>2 DEF P, N, Q, R, Passed
    <3>. QED  BY <3>1, <3>2, <3>3 DEF CountInv
<1>9. WaitInv'
  <2>1. ASSUME count_pthread <= 0, active # Streams
        PROVE  count_pthread' = count_pthread
    <3>1. PICK o \in Streams : o # s /\ Streams = {s, o}
      BY DEF Streams, Stream0, Stream1
    <3>2. o \notin active
      BY <1>4, <2>1, <3>1 DEF TypeInv
    <3>3. wpc[o] \notin Passing /\ Running(o) = 0 /\ Running(s) = 1
      BY <1>4, <3>1, <3>2 DEF WorkersInv, Running, Passing
    <3>4. Passed(o) = 0 /\ Passed(s) \in {0, 1}
      BY <3>3 DEF Passed
    <3>5. Passed(Stream0) + Passed(Stream1) = Passed(s)
          /\ Running(Stream0) + Running(Stream1) = 1
      BY <3>1, <3>3, <3>4 DEF Streams
    <3>6. Passed(s) = 0
      BY <1>4, <1>5, <2>1, <3>4, <3>5 DEF CountInv, Passed, Running
    <3>. QED  BY <1>3, <3>6 DEF Passed, Passing
  <2>2. mpc' = "relock" => status' \in {Ok, "ETIMEDOUT"}
    BY <1>2 DEF WaitInv
  <2>3. mpc' \in Before => dpc' = "none"
    BY <1>1, <1>2 DEF WaitInv, Before
  <2>4. /\ mpc' = "create_del" => count_pthread' <= 0 \/ active' = Streams
        /\ mpc' \in {"join0", "join1"} =>
             count_pthread' <= 0 \/ active' = Streams \/ status' = "ETIMEDOUT"
    BY <1>1, <1>2, <2>1 DEF WaitInv
  <2>. QED  BY <2>2, <2>3, <2>4 DEF WaitInv
<1>10. PublishInv'
  <2>1. \A t \in Streams : handed[t] = N_COUNT => handed'[t] = N_COUNT
    BY <1>1, <1>5
  <2>2. ASSUME count_pthread' <= 0 \/ mpc' = "create_del" \/ dpc' # "none"
        PROVE  count_pthread <= 0 \/ mpc = "create_del" \/ dpc # "none" \/ handed[s] = N_COUNT
    BY <1>1, <1>2, <1>3, <2>2 DEF PublishInv, Pending, Passing
  <2>3. active \subseteq Streams
    BY DEF TypeInv
  <2>4. \A t \in Streams : wpc'[t] \in Pending => handed'[t] = N_COUNT
    BY <1>1 DEF PublishInv
  <2>5. active' # {} /\ (count_pthread' <= 0 \/ mpc' = "create_del" \/ dpc' # "none") => \E t \in active' : handed'[t] = N_COUNT
    BY <1>1, <1>4, <2>1, <2>2, <2>3 DEF PublishInv
  <2>. QED  BY <2>4, <2>5 DEF PublishInv
<1>11. JoinInv'
  <2>1. ~Gone(s)
    BY <1>1 DEF Gone
  <2>2. mpc # "sweep" /\ ~swept
    BY <2>1 DEF JoinInv
  <2>3. \A t \in Streams \ {s} : Gone(t)' = Gone(t)
    BY <1>1 DEF Gone
  <2>4. ASSUME mpc = "join1" PROVE Gone(Stream0)'
    BY <2>1, <2>3, <2>4 DEF JoinInv, Streams
  <2>5. mpc \in After => status = "EAGAIN" /\ wpc'[Stream1] = "none"
    BY <1>1, <2>1 DEF JoinInv, Gone, Streams
  <2>6. mpc' # "sweep" /\ (mpc' \in After => mpc' = mpc /\ status' = status)
        /\ (mpc' = "join1" => mpc = "join1")
    BY <1>2, <2>2 DEF After
  <2>7. freed' => mpc' \in After \ {"free"}
    BY <1>1, <1>2 DEF JoinInv, After
  <2>. QED  BY <1>1, <2>2, <2>4, <2>5, <2>6, <2>7 DEF JoinInv
<1>. QED  BY <1>6, <1>7, <1>8, <1>9, <1>10, <1>11
------------------------------------------------------------------------------
(* Steps of main and of the rest.                                           *)

\* Steps of main before its workers are complete.
LEMMA SetupKeeps ==
  ASSUME IInv, IpcWait \/ Setup
  PROVE  IInv'
<1>. USE DEF IInv
<1>1. CASE IpcWait
  <2>1. /\ mpc = "ipc_wait" /\ mpc' \in {"setup", "returned"}
        /\ UNCHANGED <<done, count_pthread, status, freed, swept, active, wpc, back,
                       loaded, handed, dpc, files>>
    BY <1>1 DEF IpcWait, workVars
  <2>2. active = {} /\ \A s \in Streams : wpc[s] = "none"
    BY <2>1 DEF WorkersInv
  <2>3. ~swept /\ ~freed
    BY <2>1 DEF JoinInv, After
  <2>4. TypeInv' /\ WorkersInv' /\ CountInv'
    BY <2>1, <2>2 DEF TypeInv, WorkersInv, CountInv, Before, After, Passed, Running, Passing
  <2>5. WaitInv' /\ PublishInv'
    BY <2>1 DEF WaitInv, PublishInv, Before
  <2>6. JoinInv'
    BY <2>1, <2>2, <2>3 DEF JoinInv, Gone
  <2>. QED  BY <2>4, <2>5, <2>6
<1>2. CASE Setup
  <2>1. /\ mpc = "setup" /\ mpc' \in {"create0", "returned"}
        /\ UNCHANGED <<done, status, freed, swept, wpc, back, loaded, handed, dpc, files>>
    BY <1>2 DEF Setup, workVars
  <2>2. active = {} /\ \A s \in Streams : wpc[s] = "none"
    BY <2>1 DEF WorkersInv
  <2>3. ~swept /\ ~freed
    BY <2>1 DEF JoinInv, After
  <2>4. \/ active' = active /\ count_pthread' = count_pthread
        \/ /\ active' \subseteq Streams
           /\ count_pthread' = IF Stream1 \in active' THEN 2
                               ELSE IF Stream0 \in active' THEN 1 ELSE 0
           /\ mpc' = "create0"
    BY <1>2, StreamAssumption DEF Setup, Streams, Stream0, Stream1
  <2>5. count_pthread = 0
    BY <2>2 DEF CountInv
  <2>6. count_pthread' \in {0, 1, 2} /\ (active' # {} => count_pthread' >= 1)
        /\ (active' = {} => count_pthread' = 0)
    BY <2>2, <2>4, <2>5 DEF Streams
  <2>7. TypeInv' /\ WorkersInv'
    BY <2>1, <2>2, <2>4, <2>6 DEF TypeInv, WorkersInv, Before, After
  <2>8. CountInv'
    <3>1. Passed(Stream0)' = 0 /\ Passed(Stream1)' = 0
      BY <2>1, <2>2 DEF Passed, Passing, Streams
    <3>2. Running(Stream0)' \in {0, 1} /\ Running(Stream1)' \in {0, 1}
          /\ (active' # {} => Running(Stream0)' = 1 \/ Running(Stream1)' = 1)
      BY <2>2, <2>4 DEF Running, Streams
    <3>. QED  BY <2>1, <2>2, <2>6, <3>1, <3>2 DEF CountInv
  <2>9. WaitInv' /\ PublishInv'
    BY <2>1, <2>2, <2>6 DEF WaitInv, PublishInv, Pending, Before
  <2>10. JoinInv'
    BY <2>1, <2>2, <2>3 DEF JoinInv, Gone
  <2>. QED  BY <2>7, <2>8, <2>9, <2>10
<1>. QED  BY <1>1, <1>2

\* Creating a worker.
LEMMA CreateKeeps ==
  ASSUME IInv, \/ CreateWorker(Stream0, "create0", "create1")
               \/ CreateWorker(Stream1, "create1", "test")
  PROVE  IInv'
<1>. USE DEF IInv
<1>1. PICK s \in Streams, here \in Before, next \in Before \cup {"test"} :
        /\ \/ s = Stream0 /\ here = "create0" /\ next = "create1"
           \/ s = Stream1 /\ here = "create1" /\ next = "test"
        /\ CreateWorker(s, here, next)
  BY DEF Streams, Before
<1>2. /\ mpc = here
      /\ UNCHANGED <<done, count_pthread, freed, swept, active, back, loaded, handed, dpc, files>>
      /\ \/ mpc' = next /\ status' = status
            /\ (wpc' = wpc \/ (s \in active /\ wpc' = [wpc EXCEPT ![s] = "loop"]))
         \/ mpc' = "free" /\ status' = "EAGAIN" /\ wpc' = wpc
  BY <1>1 DEF CreateWorker
<1>3. ~swept /\ ~freed
  BY <1>1, <1>2 DEF JoinInv, After
<1>4. wpc' \in [Streams -> Labels] /\ wpc \in [Streams -> Labels]
  BY <1>2 DEF TypeInv, Labels
<1>5. /\ \A t \in Streams : wpc'[t] = wpc[t] \/ (wpc'[t] = "loop" /\ t \in active)
      /\ \A t \in Streams \ {s} : wpc'[t] = wpc[t]
  BY <1>1, <1>2, <1>4
<1>6. TypeInv'
  BY <1>1, <1>2, <1>4 DEF TypeInv, Before, Waits, After
<1>7. Stream0 # Stream1 /\ Stream0 \in Streams /\ Stream1 \in Streams
  BY DEF Stream0, Stream1, Streams
<1>8. wpc[Stream1] = "none"
  BY <1>1, <1>2, <1>7 DEF WorkersInv
<1>9. WorkersInv'
  BY <1>1, <1>2, <1>5, <1>7, <1>8 DEF WorkersInv
<1>10. CountInv'
  <2>1. \A t \in Streams : Passed(t)' \in {0, 1} /\ Passed(t)' <= Passed(t)
                           /\ Passed(t) \in {0, 1}
                           /\ Running(t)' = Running(t) /\ Running(t) \in {0, 1}
    BY <1>2, <1>5 DEF Passed, Running, Passing
  <2>2. \A t \in Streams : /\ wpc'[t] \in Passing => wpc[t] \in Passing
                           /\ wpc'[t] = "loaded" => wpc[t] = "loaded"
                           /\ loaded[t] \in Int
    BY <1>5 DEF Passing, TypeInv
  <2>. QED  BY <1>2, <1>7, <2>1, <2>2 DEF CountInv, TypeInv
<1>11. WaitInv' /\ PublishInv'
  BY <1>1, <1>2, <1>5 DEF WaitInv, PublishInv, Pending, Passing, Before
<1>12. mpc' \in {"create1", "test", "free"} /\ (mpc' = "free" => status' = "EAGAIN" /\ wpc'[Stream1] = "none")
  BY <1>1, <1>2, <1>8
<1>13. JoinInv'
  BY <1>2, <1>3, <1>12 DEF JoinInv, After
<1>. QED  BY <1>6, <1>9, <1>10, <1>11, <1>13

\* What is left to show of a step that leaves the workers and the counter alone.
LEMMA Calm ==
  ASSUME IInv, UNCHANGED <<count_pthread, active, wpc, back, loaded, handed>>,
         done' \in BOOLEAN, freed' \in BOOLEAN, swept' \in BOOLEAN,
         status' \in {Ok, "EAGAIN", "ETIMEDOUT"}, dpc' \in {"none", "run", "exited"},
         mpc' \in Waits \cup Joins \cup After \/ mpc' = mpc,
         mpc' = "create_del" \/ dpc' # "none" =>
           count_pthread <= 0 \/ mpc = "create_del" \/ dpc # "none",
         WaitInv', JoinInv'
  PROVE  IInv'
<1>1. TypeInv'
  BY DEF IInv, TypeInv
<1>2. mpc' \in Before => mpc' = mpc
  BY DEF Before, Waits, Joins, After
<1>3. WorkersInv'
  BY <1>2 DEF IInv, WorkersInv, Before
<1>4. CountInv'
  BY DEF IInv, CountInv, Passed, Running
<1>5. PublishInv'
  BY DEF IInv, PublishInv
<1>. QED  BY <1>1, <1>3, <1>4, <1>5 DEF IInv

\* main waits for the playlists and starts the deleter.
LEMMA WaitKeeps ==
  ASSUME IInv, TestCount \/ CallWait \/ SpuriousWakeUp \/ TimeOut \/ Relock \/ CreateDeleter
  PROVE  IInv'
<1>1. /\ UNCHANGED <<count_pthread, active, wpc, back, loaded, handed, freed, swept, files>>
      /\ mpc \in Waits \cup {"create_del"} /\ mpc' \in Waits \cup {"create_del", "join0"}
  BY DEF TestCount, CallWait, SpuriousWakeUp, TimeOut, Relock, CreateDeleter,
         workVars, Waits
<1>2. /\ done' \in BOOLEAN /\ status' \in {Ok, "EAGAIN", "ETIMEDOUT"}
      /\ dpc' \in {"none", "run", "exited"}
  BY DEF TestCount, CallWait, SpuriousWakeUp, TimeOut, Relock, CreateDeleter,
         IInv, TypeInv
<1>3. ~swept /\ ~freed /\ swept \in BOOLEAN /\ freed \in BOOLEAN
  BY <1>1 DEF IInv, TypeInv, JoinInv, After, Waits
<1>4. JoinInv'
  BY <1>1, <1>3 DEF JoinInv, After, Waits
<1>5. WaitInv'
  <2>1. count_pthread \in Int
    BY DEF IInv, TypeInv
  <2>2. CASE TestCount
    BY <2>1, <2>2 DEF TestCount, IInv, WaitInv, Before
  <2>3. CASE CallWait \/ SpuriousWakeUp \/ TimeOut
    BY <2>3 DEF CallWait, SpuriousWakeUp, TimeOut, IInv, WaitInv, Before
  <2>4. CASE Relock
    BY <2>4 DEF Relock, IInv, WaitInv, Before
  <2>5. CASE CreateDeleter
    BY <2>5 DEF CreateDeleter, IInv, WaitInv, Before
  <2>. QED  BY <2>2, <2>3, <2>4, <2>5
<1>6. mpc' = "create_del" \/ dpc' # "none" =>
        count_pthread <= 0 \/ mpc = "create_del" \/ dpc # "none"
  <2>1. CASE TestCount
    BY <2>1 DEF TestCount
  <2>2. CASE CallWait \/ SpuriousWakeUp \/ TimeOut
    BY <2>2 DEF CallWait, SpuriousWakeUp, TimeOut
  <2>3. CASE Relock \/ CreateDeleter
    BY <2>3 DEF Relock, CreateDeleter
  <2>. QED  BY <2>1, <2>2, <2>3
<1>. QED  BY <1>1, <1>2, <1>3, <1>4, <1>5, <1>6, Calm DEF Waits, Joins

\* main joins the workers, sweeps the directory, frees the parameters and returns.
LEMMA EndKeeps ==
  ASSUME IInv, \/ JoinWorker(Stream0, "join0", "join1")
               \/ JoinWorker(Stream1, "join1", "sweep")
               \/ Sweep \/ FreeParams \/ Return
  PROVE  IInv'
<1>1. /\ UNCHANGED <<done, count_pthread, active, wpc, back, loaded, handed, status, dpc>>
      /\ mpc' \in {"join1", "sweep"} \cup After
  BY DEF JoinWorker, Sweep, FreeParams, Return, workVars, After
<1>2. /\ done' \in BOOLEAN /\ status' \in {Ok, "EAGAIN", "ETIMEDOUT"}
      /\ dpc' \in {"none", "run", "exited"} /\ swept \in BOOLEAN /\ freed \in BOOLEAN
  BY <1>1 DEF IInv, TypeInv
<1>3. \A s \in Streams : Gone(s)' = Gone(s)
  BY <1>1 DEF Gone
<1>4. \A s \in Streams : wpc[s] # "none" => s \in active
  BY DEF IInv, WorkersInv
<1>5. freed' \in BOOLEAN /\ swept' \in BOOLEAN /\ JoinInv'
  <2>1. CASE JoinWorker(Stream0, "join0", "join1")
    <3>1. /\ mpc = "join0" /\ mpc' = "join1" /\ UNCHANGED <<swept, freed, files>>
          /\ Gone(Stream0)
      BY <1>4, <2>1 DEF JoinWorker, Gone, Streams
    <3>2. ~swept /\ ~freed
      BY <3>1 DEF IInv, JoinInv, After
    <3>. QED  BY <1>2, <1>3, <3>1, <3>2 DEF JoinInv, After, Streams
  <2>2. CASE JoinWorker(Stream1, "join1", "sweep")
    <3>1. /\ mpc = "join1" /\ mpc' = "sweep" /\ UNCHANGED <<swept, freed, files>>
          /\ Gone(Stream1) /\ Gone(Stream0)
      BY <1>4, <2>2 DEF JoinWorker, Gone, Streams, IInv, JoinInv
    <3>2. ~swept /\ ~freed
      BY <3>1 DEF IInv, JoinInv, After
    <3>. QED  BY <1>2, <1>3, <3>1, <3>2 DEF JoinInv, After, Streams
  <2>3. CASE Sweep
    <3>1. /\ mpc = "sweep" /\ mpc' = "free" /\ freed' = freed
          /\ (swept' = TRUE /\ files' = {}) \/ UNCHANGED <<swept, files>>
      BY <2>3 DEF Sweep
    <3>2. ~freed /\ ~swept /\ \A s \in Streams : Gone(s)
      BY <3>1 DEF IInv, JoinInv, After
    <3>3. (swept' = TRUE /\ files' = {}) \/ swept' = FALSE
      BY <1>2, <3>1, <3>2
    <3>. QED  BY <1>2, <1>3, <3>1, <3>2, <3>3 DEF JoinInv, After
  <2>4. CASE FreeParams \/ Return
    <3>1. /\ mpc \in {"free", "return", "join_del"}
          /\ mpc' \in {"return", "join_del", "returned"}
          /\ UNCHANGED <<swept, files>> /\ freed' \in {freed, TRUE}
      BY <2>4 DEF FreeParams, Return
    <3>2. /\ swept => files = {} /\ \A s \in Streams : Gone(s)
          /\ \/ \A s \in Streams : Gone(s)
             \/ status = "EAGAIN" /\ wpc[Stream1] = "none"
      BY <3>1 DEF IInv, JoinInv, After
    <3>. QED  BY <1>1, <1>2, <1>3, <3>1, <3>2 DEF JoinInv, After
  <2>. QED  BY <2>1, <2>2, <2>3, <2>4
<1>6. WaitInv'
  <2>1. mpc' = "join1" => mpc = "join0"
    BY DEF JoinWorker, Sweep, FreeParams, Return
  <2>2. mpc' \notin Before \cup {"relock", "create_del", "join0"}
    BY <1>1 DEF Before, After
  <2>. QED  BY <1>1, <2>1, <2>2 DEF IInv, WaitInv
<1>. QED  BY <1>1, <1>2, <1>5, <1>6, Calm DEF Joins, After

\* The end of the deleter, requests to stop, time and stuttering.
LEMMA RestKeeps ==
  ASSUME IInv, DeleterEnds \/ OnSigterm \/ Expire \/ UNCHANGED vars
  PROVE  IInv'
<1>1. UNCHANGED <<count_pthread, active, wpc, back, loaded, handed, mpc, status, freed, swept, files>>
  BY DEF DeleterEnds, OnSigterm, Expire, vars, mainVars, workVars
<1>2. /\ done' \in BOOLEAN /\ dpc' \in {"none", "run", "exited"}
      /\ dpc' = dpc \/ dpc # "none"
  BY DEF DeleterEnds, OnSigterm, Expire, vars, IInv, TypeInv
<1>3. WaitInv'
  BY <1>1, <1>2 DEF IInv, WaitInv
<1>4. JoinInv'
  BY <1>1 DEF IInv, JoinInv, Gone
<1>5. /\ status' \in {Ok, "EAGAIN", "ETIMEDOUT"} /\ freed' \in BOOLEAN /\ swept' \in BOOLEAN
  BY <1>1 DEF IInv, TypeInv
<1>. QED  BY <1>1, <1>2, <1>3, <1>4, <1>5, Calm

\* IInv is an invariant of the process.
THEOREM Invariance == Spec => []IInv
<1>1. Init => IInv
  <2>. SUFFICES ASSUME Init PROVE IInv  OBVIOUS
  <2>1. TypeInv
    <3>1. 0 \in 0..N_COUNT
      BY LimitAssumption
    <3>2. /\ wpc \in [Streams -> Labels] /\ back \in [Streams -> {"loop", "exited"}]
          /\ loaded \in [Streams -> Int] /\ handed \in [Streams -> 0..N_COUNT]
      BY <3>1 DEF Init, Labels
    <3>3. done \in BOOLEAN /\ freed \in BOOLEAN /\ swept \in BOOLEAN
      BY DEF Init
    <3>4. /\ count_pthread \in Int /\ mpc \in Before /\ active \subseteq Streams
          /\ status \in {Ok, "EAGAIN", "ETIMEDOUT"} /\ dpc \in {"none", "run", "exited"}
      BY DEF Init, Before
    <3>. QED  BY <3>2, <3>3, <3>4 DEF TypeInv
  <2>2. WorkersInv /\ CountInv /\ WaitInv
    BY DEF Init, WorkersInv, CountInv, WaitInv, Streams
  <2>3. PublishInv /\ JoinInv
    BY DEF Init, PublishInv, JoinInv, Pending, Passing, Before, After
  <2>. QED  BY <2>1, <2>2, <2>3 DEF IInv
<1>2. IInv /\ [Next]_vars => IInv'
  BY WorkerKeeps, SetupKeeps, CreateKeeps, WaitKeeps, EndKeeps, RestKeeps
     DEF Next, MainStep, Finished
<1>. QED  BY <1>1, <1>2, PTL DEF Spec
------------------------------------------------------------------------------
(* The theorems.                                                            *)

\* How many streams are active.
LEMMA ActiveCount ==
  ASSUME active \subseteq Streams
  PROVE  Cardinality(active) = Running(Stream0) + Running(Stream1)
<1>1. Stream0 # Stream1
  BY DEF Stream0, Stream1
<1>2. active \in {{}, {Stream0}, {Stream1}, {Stream0, Stream1}}
  BY DEF Streams
<1>3. /\ Cardinality({}) = 0 /\ Cardinality({Stream0}) = 1 /\ Cardinality({Stream1}) = 1
      /\ Cardinality({Stream0, Stream1}) = 2
  <2>1. IsFiniteSet({Stream1}) /\ Cardinality({Stream1}) = 1
    BY FS_Singleton
  <2>2. {Stream0, Stream1} = {Stream1} \cup {Stream0}
    OBVIOUS
  <2>3. Cardinality({Stream1} \cup {Stream0}) = Cardinality({Stream1}) + 1
    BY <1>1, <2>1, FS_AddElement
  <2>4. Cardinality({}) = 0 /\ Cardinality({Stream0}) = 1
    BY FS_EmptySet, FS_Singleton
  <2>5. Cardinality({Stream0, Stream1}) = 2
    BY <2>1, <2>2, <2>3
  <2>. QED  BY <2>1, <2>4, <2>5
<1>. QED  BY <1>1, <1>2, <1>3 DEF Running

\* The counter that dash_mpd_playlist tests without its lock goes below zero by one
\* stream less than are running, at most: whoever decrements it saw it positive.
THEOREM CounterIsBounded == Spec => []CountBound
<1>1. IInv => CountBound
  <2>. SUFFICES ASSUME IInv PROVE CountBound  OBVIOUS
  <2>1. Cardinality(active) = Running(Stream0) + Running(Stream1)
    BY ActiveCount DEF IInv, TypeInv
  <2>2. /\ Running(Stream0) \in {0, 1} /\ Running(Stream1) \in {0, 1}
        /\ Passed(Stream0) \in {0, 1} /\ Passed(Stream1) \in {0, 1}
        /\ count_pthread \in Int
    BY DEF Running, Passed, IInv, TypeInv
  <2>. QED  BY <2>1, <2>2 DEF IInv, CountInv, CountBound
<1>. QED  BY <1>1, Invariance, PTL

\* With at most one stream the shutdown can only hang on mtx if the wait for the
\* first playlist timed out.
THEOREM HangsOnlyAfterTimeout == Spec => []HangNeedsTimeout
<1>1. IInv => HangNeedsTimeout
  <2>. SUFFICES ASSUME IInv, Hung, ~(Cardinality(active) > 1)
                PROVE  status = "ETIMEDOUT"
    BY DEF HangNeedsTimeout
  <2>1. PICK s \in Streams : wpc[s] = "lock"
    BY DEF Hung
  <2>2. s \in active
    BY <2>1 DEF IInv, WorkersInv
  <2>3. Passed(s) = 1 /\ Running(s) = 1
    BY <2>1, <2>2 DEF Passed, Running, Passing
  <2>4. Cardinality(active) = Running(Stream0) + Running(Stream1)
    BY ActiveCount DEF IInv, TypeInv
  <2>5. \A t \in Streams : Running(t) \in {0, 1} /\ Passed(t) \in {0, 1}
    BY DEF Running, Passed
  <2>6. count_pthread > 0
    BY <2>2, <2>3, <2>4, <2>5 DEF IInv, CountInv, TypeInv, Streams
  <2>7. count_pthread \in Int /\ mpc \in {"create_del", "join0", "join1"}
    BY DEF IInv, TypeInv, Hung
  <2>8. active # Streams
    BY <2>4, <2>5 DEF Running, Streams
  <2>. QED  BY <2>6, <2>7, <2>8 DEF IInv, WaitInv
<1>. QED  BY <1>1, Invariance, PTL

\* main starts the deleter, that is, declares the program running, only when some
\* stream has got past the playlists that are only counted.
THEOREM RunningMeansPublished == Spec => []RunMeansPublished
<1>1. IInv => RunMeansPublished
  BY DEF IInv, WaitInv, PublishInv, RunMeansPublished
<1>. QED  BY <1>1, Invariance, PTL

\* Nobody writes into the directory once it has been swept.
THEOREM SweptStaysClean == Spec => []SweptClean
<1>1. IInv => SweptClean
  BY DEF IInv, JoinInv, SweptClean
<1>. QED  BY <1>1, Invariance, PTL

\* The workers are gone when the parameter blocks are freed, but for the first one
\* when the second could not be created.
THEOREM ParamsAreFreedLast == Spec => []ParamsOutliveWorkers
<1>1. IInv => ParamsOutliveWorkers
  <2>. SUFFICES ASSUME IInv, freed, NEW s \in active
                PROVE  \/ wpc[s] \in {"none", "exited"}
                       \/ s = Stream0 /\ status = "EAGAIN" /\ wpc[Stream1] = "none"
    BY DEF ParamsOutliveWorkers
  <2>1. s \in Streams
    BY DEF IInv, TypeInv
  <2>. QED  BY <2>1 DEF IInv, JoinInv, Gone, Streams
<1>. QED  BY <1>1, Invariance, PTL
==============================================================================
