------------------------- MODULE ServerQueueProofs -------------------------
(***************************************************************************)
(* Invariance proofs for ServerQueue, for every set of clients and every   *)
(* combination of the options.                                             *)
(***************************************************************************)
EXTENDS ServerQueue, TLAPS

-----------------------------------------------------------------------------
(* The strengthening.  Each conjunct says at which points of the main      *)
(* thread some piece of state may have which value.                        *)

\* Only the main thread keeps the mutex, exactly while it swaps the model.
MutexInv == mutex = Main <=> mpc \in {"unloading", "reloading"}

\* The server is asleep only inside the sleep section of the wait loop, or
\* after terminate() took the main thread out of it.
SleepInv ==
  /\ sleeping => mpc \in {"unloading", "asleep", "reloading", "drain", "done"}
  /\ mpc \in {"unloading", "asleep", "reloading"} => sleeping
  /\ sleeping /\ mpc = "drain" => ~running

\* Who may be blocked on the condition variable: clients only while the
\* server is asleep, the main thread only in one of its two waits.
WaitInv ==
  /\ waitset \cap Clients # {} => sleeping
  /\ Main \in waitset => mpc \in {"idle", "asleep"}

\* A request to wake up exists only while the server is asleep, and not while
\* the main thread is on its way in or out.
RequestInv == req_stop_sleeping => sleeping /\ mpc \notin {"unloading", "reloading"}

\* A working slot keeps the queue non-empty up to the wait, so past the test
\* for an empty queue no slot works.
BusyInv ==
  /\ mpc = "decode" => queue_tasks # <<>>
  /\ mpc \in {"touch", "wait"} /\ Busy => queue_tasks # <<>>
  /\ mpc \in {"boot", "idle", "unloading", "asleep", "reloading"} => ~Busy
  /\ sleeping => ~Busy

\* The model is gone only inside the sleep section.
ModelInv ==
  /\ mpc \notin {"asleep", "reloading", "drain", "done"} => loaded
  /\ mpc = "drain" /\ running => loaded

IInv ==
  /\ TypeOK
  /\ MutexInv
  /\ SleepInv
  /\ WaitInv
  /\ RequestInv
  /\ BusyInv
  /\ ModelInv
  /\ NoLostWakeup

-----------------------------------------------------------------------------
(* Initial states and typing.                                              *)

\* The invariant holds at first, ...
LEMMA InitIInv == Init => IInv
  <1> SUFFICES ASSUME Init PROVE IInv
    OBVIOUS
  <1>1. TypeOK
    <2>1. left \in [Clients -> 0 .. MaxSteps] /\ cpc \in [Clients -> ClientPoints]
      BY BoundAssumption DEF Init, ClientPoints
    <2>2. signal \in [state : {"none", "locking", "done"}, on : {NoThread, Main}]
      BY DEF Init
    <2>3. queue_tasks \in Seq(Clients \cup {NextResponse})
      BY DEF Init
    <2>4. QED
      BY <2>1, <2>2, <2>3 DEF Init, TypeOK, MainPoints
  <1>2. ~Busy
    BY DEF Init, Busy
  <1>3. QED
    BY <1>1, <1>2, ThreadsAssumption
    DEF Init, IInv, MutexInv, SleepInv, WaitInv, RequestInv, BusyInv, ModelInv,
        NoLostWakeup, Threads

\* Whoever notify_one picks, nobody joins the wait set.
LEMMA NotifyOneFact ==
  ASSUME NEW w \in NotifyOne
  PROVE  w \subseteq waitset
  BY DEF NotifyOne

\* ... no step breaks the types, ...
LEMMA TypeStep == TypeOK /\ [Next]_vars => TypeOK'
  <1> SUFFICES ASSUME TypeOK, [Next]_vars PROVE TypeOK'
    OBVIOUS
  <1> USE ThreadsAssumption, BoundAssumption
      DEF TypeOK, Threads, MainPoints, ClientPoints, flags, main
  <1>1. CASE start_loop
    BY <1>1 DEF start_loop, At
  <1>2. CASE drain
    <2>1. queue_tasks # <<>> => /\ Head(queue_tasks) \in Clients \cup {NextResponse}
                                /\ Tail(queue_tasks) \in Seq(Clients \cup {NextResponse})
      OBVIOUS
    <2>2. QED
      BY <1>2, <2>1, ZenonT(60) DEF drain, At
  <1>3. CASE process_task
    BY <1>3 DEF process_task, At
  <1>4. CASE update_slots
    <2>1. waitset' \in NotifyOne \/ UNCHANGED waitset
      BY <1>4 DEF update_slots
    <2>2. waitset' \subseteq waitset
      BY <2>1, NotifyOneFact
    <2>3. Append(queue_tasks, NextResponse) \in Seq(Clients \cup {NextResponse})
      OBVIOUS
    <2>4. QED
      BY <1>4, <2>2, <2>3, ZenonT(60) DEF update_slots, At
  <1>5. CASE decode
    BY <1>5 DEF decode, At
  <1>6. CASE touch
    BY <1>6 DEF touch, At
  <1>7. CASE wait_for_tasks
    BY <1>7, ZenonT(60) DEF wait_for_tasks, At, Block
  <1>8. CASE idle_wakeup
    BY <1>8 DEF idle_wakeup, At, Block
  <1>9. CASE idle_timeout
    BY <1>9 DEF idle_timeout, At
  <1>10. CASE enter_sleep
    BY <1>10 DEF enter_sleep, At, Block
  <1>11. CASE sleep_wakeup
    BY <1>11 DEF sleep_wakeup, At, Block
  <1>12. CASE exit_sleep
    BY <1>12 DEF exit_sleep, At
  <1>13. ASSUME NEW c \in Clients, wait_until_no_sleep(c) PROVE TypeOK'
    <2>1. \/ waitset' = waitset
          \/ waitset' = waitset \cup {c}
          \/ \E w \in NotifyOne : waitset' = w \cup {c}
      BY <1>13, Zenon DEF wait_until_no_sleep
    <2>2. ASSUME NEW w \in NotifyOne, waitset' = w \cup {c}
          PROVE  waitset' \subseteq Threads
      BY <2>2, NotifyOneFact
    <2>3. waitset' \subseteq Threads
      BY <2>1, <2>2
    <2>4. cpc' \in [Clients -> ClientPoints] /\ req_stop_sleeping' \in BOOLEAN
      <3>1. CASE sleeping
        BY <1>13, <3>1 DEF wait_until_no_sleep
      <3>2. CASE ~sleeping
        BY <1>13, <3>2 DEF wait_until_no_sleep
      <3>3. QED
        BY <3>1, <3>2
    <2>5. UNCHANGED <<running, sleeping, queue_tasks, idle, mutex, mpc, cur, loaded, left, signal>>
      BY <1>13 DEF wait_until_no_sleep
    <2>6. QED
      BY <2>3, <2>4, <2>5
  <1>14. ASSUME NEW c \in Clients, no_sleep_wakeup(c) PROVE TypeOK'
    BY <1>14 DEF no_sleep_wakeup, Block
  <1>15. ASSUME NEW c \in Clients, post(c) PROVE TypeOK'
    <2>1. waitset' \subseteq waitset
      BY <1>15, NotifyOneFact DEF post
    <2>2. Append(queue_tasks, c) \in Seq(Clients \cup {NextResponse})
      OBVIOUS
    <2>3. queue_tasks' \in Seq(Clients \cup {NextResponse})
      BY <1>15, <2>2 DEF post
    <2>4. cpc' \in [Clients -> ClientPoints] /\ idle' \in BOOLEAN
      BY <1>15 DEF post
    <2>5. UNCHANGED <<running, sleeping, req_stop_sleeping, mutex, mpc, cur, loaded, left, signal>>
      BY <1>15 DEF post
    <2>6. QED
      BY <2>1, <2>3, <2>4, <2>5
  <1>16. CASE idle_elapses
    BY <1>16 DEF idle_elapses
  <1>17. CASE signal_handler
    BY <1>17 DEF signal_handler
  <1>18. CASE terminate
    BY <1>18, ZenonT(60) DEF terminate
  <1>19. ASSUME NEW t \in Threads, Spurious(t) PROVE TypeOK'
    BY <1>19 DEF Spurious
  <1>20. CASE UNCHANGED vars
    BY <1>20 DEF vars
  <1> QED
    BY <1>1, <1>2, <1>3, <1>4, <1>5, <1>6, <1>7, <1>8, <1>9, <1>10, <1>11, <1>12, <1>13, <1>14, <1>15, <1>16, <1>17, <1>18, <1>19, <1>20 DEF Next, MainStep, ClientStep

-----------------------------------------------------------------------------
(* The inductive step.                                                     *)

\* ... and none breaks the invariant.
LEMMA StepIInv == IInv /\ [Next]_vars => IInv'
  <1> SUFFICES ASSUME IInv, [Next]_vars PROVE IInv'
    OBVIOUS
  <1> TypeOK'
    BY TypeStep DEF IInv
  <1> USE ThreadsAssumption, BoundAssumption
      DEF IInv, TypeOK, Threads, MainPoints, ClientPoints, flags, main, MutexInv,
          SleepInv, WaitInv, RequestInv, BusyInv, ModelInv, NoLostWakeup,
          Busy, HasWork, Free
  <1>1. CASE start_loop
    BY <1>1 DEF start_loop, At
  <1>2. CASE drain
    BY <1>2 DEF drain, At
  <1>3. CASE process_task
    BY <1>3 DEF process_task, At
  <1>4. CASE update_slots
    BY <1>4 DEF update_slots, At, NotifyOne
  <1>5. CASE decode
    BY <1>5 DEF decode, At
  <1>6. CASE touch
    BY <1>6 DEF touch, At
  <1>7. CASE wait_for_tasks
    BY <1>7 DEF wait_for_tasks, At, Block
  <1>8. CASE idle_wakeup
    BY <1>8 DEF idle_wakeup, At, Block
  <1>9. CASE idle_timeout
    BY <1>9 DEF idle_timeout, At
  <1>10. CASE enter_sleep
    BY <1>10 DEF enter_sleep, At, Block
  <1>11. CASE sleep_wakeup
    BY <1>11 DEF sleep_wakeup, At, Block
  <1>12. CASE exit_sleep
    BY <1>12 DEF exit_sleep, At
  <1>13. ASSUME NEW c \in Clients, wait_until_no_sleep(c) PROVE IInv'
    BY <1>13 DEF wait_until_no_sleep, NotifyOne
  <1>14. ASSUME NEW c \in Clients, no_sleep_wakeup(c) PROVE IInv'
    BY <1>14 DEF no_sleep_wakeup, Block
  <1>15. ASSUME NEW c \in Clients, post(c) PROVE IInv'
    BY <1>15, SMTT(60) DEF post, NotifyOne
  <1>16. CASE idle_elapses
    BY <1>16 DEF idle_elapses
  <1>17. CASE signal_handler
    BY <1>17 DEF signal_handler
  <1>18. CASE terminate
    BY <1>18 DEF terminate
  <1>19. ASSUME NEW t \in Threads, Spurious(t) PROVE IInv'
    BY <1>19 DEF Spurious
  <1>20. CASE UNCHANGED vars
    BY <1>20 DEF vars
  <1> QED
    BY <1>1, <1>2, <1>3, <1>4, <1>5, <1>6, <1>7, <1>8, <1>9, <1>10, <1>11, <1>12, <1>13, <1>14, <1>15, <1>16, <1>17, <1>18, <1>19, <1>20 DEF Next, MainStep, ClientStep
-----------------------------------------------------------------------------
(* The theorems.                                                           *)

\* For every set of clients and every combination of the options, the main thread and
\* the clients keep the invariant from which the safety properties follow.
THEOREM Invariance == Spec => []IInv
  <1>1. Init => IInv
    BY InitIInv
  <1>2. IInv /\ [Next]_vars => IInv'
    BY StepIInv
  <1>3. QED
    BY <1>1, <1>2, PTL DEF Spec

\* Every variable of the queue keeps its type (server-queue.h:15-26).
THEOREM TypeCorrect == Spec => []TypeOK
  <1>1. IInv => TypeOK
    BY DEF IInv
  <1>2. QED
    BY <1>1, Invariance, PTL

\* No thread's notification is lost or stolen while the main thread is in the
\* idle wait of start_loop, for any number of clients.
THEOREM NoLostWakeupHolds == Spec => []NoLostWakeup
  <1>1. IInv => NoLostWakeup
    BY DEF IInv
  <1>2. QED
    BY <1>1, Invariance, PTL

\* The server never falls asleep while one of its slots is working.
THEOREM SleepsOnlyWhenQuietHolds == Spec => []SleepsOnlyWhenQuiet
  <1>1. IInv => SleepsOnlyWhenQuiet
    BY DEF IInv, BusyInv, SleepsOnlyWhenQuiet
  <1>2. QED
    BY <1>1, Invariance, PTL
=============================================================================
