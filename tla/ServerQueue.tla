---------------------------- MODULE ServerQueue ----------------------------
(***************************************************************************)
(* The task queue of llama-server as a monitor: one mutex (mutex_tasks)    *)
(* and one condition variable (condition_tasks) shared by the main thread, *)
(* which runs server_queue::start_loop, by the HTTP worker threads, which  *)
(* wait for the server to be awake and then post a task, and by whoever    *)
(* calls terminate().  What a task does in the slots is reduced to the     *)
(* number of decode iterations it still needs; module ServerTasks models   *)
(* slots, deferral and cancellation.                                       *)
(*                                                                         *)
(* A critical section of the code is one action.  The mutex is a variable  *)
(* only because the main thread keeps it while it unloads and reloads the  *)
(* model.  The condition variable is the set of threads blocked on it.     *)
(***************************************************************************)
EXTENDS Naturals, Sequences

CONSTANTS
  Clients,       \* HTTP worker threads, each with at most one request in flight
  Main,          \* the thread that runs start_loop
  NextResponse,  \* the SERVER_TASK_TYPE_NEXT_RESPONSE task
  NoThread,      \* the mutex is free / no signal handler is running
  MaxSteps,      \* bound: decode iterations a task may need
  IdleSleep      \* --sleep-idle-seconds is not -1

Threads == Clients \cup {Main}

ASSUME ThreadsAssumption ==
  /\ Main \notin Clients
  /\ NoThread \notin Threads
  /\ NextResponse \notin Clients

ASSUME BoundAssumption == MaxSteps \in Nat \ {0}

ASSUME OptionAssumption == IdleSleep \in BOOLEAN

VARIABLES
  running, sleeping, req_stop_sleeping,  \* the flags of server_queue
  queue_tasks,  \* the client whose task it is, or NextResponse
  idle,         \* now - time_last_task >= idle_sleep_ms
  waitset,      \* threads blocked in condition_tasks.wait
  mutex,        \* who keeps mutex_tasks across steps
  loaded,       \* the model is in memory (server_context_impl::sleeping is false)
  mpc,          \* where the main thread is
  cur,          \* the task the main thread took from the queue
  left,         \* decode iterations each client's task still needs in its slot
  cpc,          \* where each client is
  signal        \* progress of the one call of terminate(), and on which thread

flags  == <<running, sleeping, req_stop_sleeping>>
main   == <<mpc, cur, loaded>>
vars   == <<running, sleeping, req_stop_sleeping, queue_tasks, idle, waitset,
            mutex, loaded, mpc, cur, left, cpc, signal>>

MainPoints   == {"boot", "drain", "process", "update", "decode", "touch", "wait",
                 "idle", "unloading", "asleep", "reloading", "done"}
ClientPoints == {"off", "blocked", "ready", "posted"}

TypeOK ==
  /\ running \in BOOLEAN /\ sleeping \in BOOLEAN /\ req_stop_sleeping \in BOOLEAN
  /\ queue_tasks \in Seq(Clients \cup {NextResponse})
  /\ idle \in BOOLEAN
  /\ waitset \in SUBSET Threads
  /\ mutex \in {NoThread, Main}
  /\ loaded \in BOOLEAN
  /\ mpc \in MainPoints
  /\ cur \in Clients \cup {NextResponse}
  /\ left \in [Clients -> 0 .. MaxSteps]
  /\ cpc \in [Clients -> ClientPoints]
  /\ signal \in [state : {"none", "locking", "done"}, on : {NoThread, Main}]

Init ==
  /\ running = FALSE /\ sleeping = FALSE /\ req_stop_sleeping = FALSE
  /\ queue_tasks = <<>>
  /\ idle = FALSE
  /\ waitset = {}
  /\ mutex = NoThread
  /\ loaded = TRUE
  /\ mpc = "boot"
  /\ cur = NextResponse
  /\ left = [c \in Clients |-> 0]
  /\ cpc = [c \in Clients |-> "off"]
  /\ signal = [state |-> "none", on |-> NoThread]

-----------------------------------------------------------------------------
(* The condition variable.                                                 *)

\* notify_one: some blocked thread, if there is one, leaves the wait set.
NotifyOne == IF waitset = {} THEN {{}} ELSE {waitset \ {t} : t \in waitset}

\* A thread that left the wait set has to take the mutex and test its
\* predicate again; one whose predicate is false blocks again.
Block(t) == waitset' = waitset \cup {t}

\* The standard lets a wait return without a notification.
Spurious(t) ==
  /\ t \in waitset
  /\ waitset' = waitset \ {t}
  /\ UNCHANGED <<flags, queue_tasks, idle, mutex, main, left, cpc, signal>>

Free == mutex = NoThread

-----------------------------------------------------------------------------
(* An HTTP worker: server_res_generator waits until the server is awake,   *)
(* the handler reads the model to build the task, and the task is posted.  *)

\* Mutant: the wake-up is requested but nobody is notified.
wait_until_no_sleep_silent(c) ==
  /\ cpc[c] = "off" /\ Free
  /\ req_stop_sleeping' = (sleeping \/ req_stop_sleeping)
  /\ waitset' = IF sleeping THEN waitset \cup {c} ELSE waitset
  /\ cpc' = [cpc EXCEPT ![c] = IF sleeping THEN "blocked" ELSE "ready"]
  /\ UNCHANGED <<running, sleeping, queue_tasks, idle, mutex, main, left, signal>>

wait_until_no_sleep(c) ==
  /\ cpc[c] = "off" /\ Free
  /\ \/ /\ ~sleeping
        /\ cpc' = [cpc EXCEPT ![c] = "ready"]
        /\ UNCHANGED <<req_stop_sleeping, waitset>>
     \/ /\ sleeping
        /\ req_stop_sleeping' = TRUE
        /\ \E w \in IF req_stop_sleeping THEN {waitset} ELSE NotifyOne :
             waitset' = w \cup {c}
        /\ cpc' = [cpc EXCEPT ![c] = "blocked"]
  /\ UNCHANGED <<running, sleeping, queue_tasks, idle, mutex, main, left, signal>>

no_sleep_wakeup(c) ==
  /\ cpc[c] = "blocked" /\ c \notin waitset /\ Free
  /\ \/ /\ sleeping
        /\ Block(c)
        /\ UNCHANGED cpc
     \/ /\ ~sleeping
        /\ cpc' = [cpc EXCEPT ![c] = "ready"]
        /\ UNCHANGED waitset
  /\ UNCHANGED <<flags, queue_tasks, idle, mutex, main, left, signal>>

\* Mutant: post without notify_one.
post_silent(c) ==
  /\ cpc[c] = "ready" /\ Free
  /\ queue_tasks' = Append(queue_tasks, c)
  /\ idle' = FALSE
  /\ cpc' = [cpc EXCEPT ![c] = "posted"]
  /\ UNCHANGED <<flags, waitset, mutex, main, left, signal>>

post(c) ==
  /\ cpc[c] = "ready" /\ Free
  /\ queue_tasks' = Append(queue_tasks, c)
  /\ idle' = FALSE
  /\ waitset' \in NotifyOne
  /\ cpc' = [cpc EXCEPT ![c] = "posted"]
  /\ UNCHANGED <<flags, mutex, main, left, signal>>

-----------------------------------------------------------------------------
(* terminate(), called once, at any time, either by a thread of its own or *)
(* by a signal handler that borrows the main thread and keeps it from      *)
(* going on.                                                               *)

MainRuns == ~(signal.state = "locking" /\ signal.on = Main)

signal_handler ==
  /\ signal.state = "none" /\ mpc # "done"
  /\ \E t \in {NoThread, Main} : signal' = [state |-> "locking", on |-> t]
  /\ UNCHANGED <<flags, queue_tasks, idle, waitset, mutex, main, left, cpc>>

\* Mutant: nobody is notified.
terminate_silent ==
  /\ signal.state = "locking" /\ Free
  /\ running' = FALSE
  /\ signal' = [state |-> "done", on |-> signal.on]
  /\ UNCHANGED <<sleeping, req_stop_sleeping, queue_tasks, idle, waitset, mutex, main, left, cpc>>

terminate ==
  /\ signal.state = "locking" /\ Free
  /\ running' = FALSE
  /\ waitset' = {}
  /\ signal' = [state |-> "done", on |-> signal.on]
  /\ UNCHANGED <<sleeping, req_stop_sleeping, queue_tasks, idle, mutex, main, left, cpc>>

-----------------------------------------------------------------------------
(* The main thread: server_queue::start_loop.                              *)

At(p) == mpc = p /\ MainRuns

start_loop ==
  /\ At("boot")
  /\ running' = TRUE
  /\ idle' = FALSE
  /\ mpc' = "drain"
  /\ UNCHANGED <<sleeping, req_stop_sleeping, queue_tasks, waitset, mutex, loaded, cur, left, cpc, signal>>

drain ==
  /\ At("drain")
  /\ \/ /\ ~running
        /\ mpc' = "done"
        /\ UNCHANGED <<cur, queue_tasks>>
     \/ /\ running /\ queue_tasks = <<>>
        /\ mpc' = "update"
        /\ UNCHANGED <<cur, queue_tasks>>
     \/ /\ running /\ queue_tasks # <<>>
        /\ cur' = Head(queue_tasks)
        /\ queue_tasks' = Tail(queue_tasks)
        /\ mpc' = "process"
  /\ UNCHANGED <<flags, idle, waitset, mutex, loaded, left, cpc, signal>>

\* callback_new_task: the task is launched into a slot.
process_task ==
  /\ At("process")
  /\ \/ /\ cur = NextResponse
        /\ UNCHANGED left
     \/ /\ cur # NextResponse
        /\ \E n \in 1 .. MaxSteps : left' = [left EXCEPT ![cur] = n]
  /\ mpc' = "drain"
  /\ UNCHANGED <<flags, queue_tasks, idle, waitset, mutex, loaded, cur, cpc, signal>>

Busy == \E c \in Clients : left[c] > 0

\* Mutant: no NEXT_RESPONSE task is posted.
update_slots_no_next_response ==
  /\ At("update")
  /\ mpc' = IF Busy THEN "decode" ELSE "touch"
  /\ UNCHANGED <<flags, queue_tasks, idle, waitset, mutex, loaded, cur, left, cpc, signal>>

\* callback_update_slots, first half: keep the loop turning while a slot works.
update_slots ==
  /\ At("update")
  /\ \/ /\ Busy
        /\ queue_tasks' = Append(queue_tasks, NextResponse)
        /\ idle' = FALSE
        /\ waitset' \in NotifyOne
        /\ mpc' = "decode"
     \/ /\ ~Busy
        /\ mpc' = "touch"
        /\ UNCHANGED <<queue_tasks, idle, waitset>>
  /\ UNCHANGED <<flags, mutex, loaded, cur, left, cpc, signal>>

\* callback_update_slots, second half: one iteration of every slot; a task
\* that needs no further one has its final result sent to its client.
decode ==
  /\ At("decode")
  /\ left' = [c \in Clients |-> IF left[c] > 0 THEN left[c] - 1 ELSE 0]
  /\ cpc' = [c \in Clients |-> IF left[c] = 1 THEN "off" ELSE cpc[c]]
  /\ mpc' = "touch"
  /\ UNCHANGED <<flags, queue_tasks, idle, waitset, mutex, loaded, cur, signal>>

touch ==
  /\ At("touch")
  /\ idle' = FALSE
  /\ mpc' = "wait"
  /\ UNCHANGED <<flags, queue_tasks, waitset, mutex, loaded, cur, left, cpc, signal>>

HasWork == queue_tasks # <<>> \/ ~running

wait_for_tasks ==
  /\ At("wait")
  /\ \/ /\ HasWork
        /\ mpc' = "drain"
        /\ UNCHANGED <<sleeping, mutex, waitset>>
     \/ /\ ~HasWork /\ idle
        /\ sleeping' = TRUE
        /\ mutex' = Main
        /\ mpc' = "unloading"
        /\ UNCHANGED waitset
     \/ /\ ~HasWork /\ ~idle
        /\ Block(Main)
        /\ mpc' = "idle"
        /\ UNCHANGED <<sleeping, mutex>>
  /\ UNCHANGED <<running, req_stop_sleeping, queue_tasks, idle, loaded, cur, left, cpc, signal>>

\* wait_for returns after a notification.
idle_wakeup ==
  /\ At("idle") /\ Main \notin waitset
  /\ \/ /\ HasWork
        /\ mpc' = "drain"
        /\ UNCHANGED waitset
     \/ /\ ~HasWork
        /\ Block(Main)
        /\ UNCHANGED mpc
  /\ UNCHANGED <<flags, queue_tasks, idle, mutex, loaded, cur, left, cpc, signal>>

\* wait_for returns after max_wait_time.
idle_timeout ==
  /\ At("idle")
  /\ waitset' = waitset \ {Main}
  /\ mpc' = IF HasWork THEN "drain" ELSE "wait"
  /\ UNCHANGED <<flags, queue_tasks, idle, mutex, loaded, cur, left, cpc, signal>>

\* callback_sleeping_state(true), still under the mutex, then the wait.
enter_sleep ==
  /\ At("unloading")
  /\ loaded' = FALSE
  /\ req_stop_sleeping' = FALSE
  /\ Block(Main)
  /\ mutex' = NoThread
  /\ mpc' = "asleep"
  /\ UNCHANGED <<running, sleeping, queue_tasks, idle, cur, left, cpc, signal>>

sleep_wakeup ==
  /\ At("asleep") /\ Main \notin waitset
  /\ \/ /\ ~running
        /\ mpc' = "drain"
        /\ UNCHANGED <<req_stop_sleeping, mutex, waitset>>
     \/ /\ running /\ req_stop_sleeping
        /\ req_stop_sleeping' = FALSE
        /\ mutex' = Main
        /\ mpc' = "reloading"
        /\ UNCHANGED waitset
     \/ /\ running /\ ~req_stop_sleeping
        /\ Block(Main)
        /\ UNCHANGED <<req_stop_sleeping, mutex, mpc>>
  /\ UNCHANGED <<running, sleeping, queue_tasks, idle, loaded, cur, left, cpc, signal>>

\* callback_sleeping_state(false), still under the mutex, then notify_all.
exit_sleep ==
  /\ At("reloading")
  /\ loaded' = TRUE
  /\ sleeping' = FALSE
  /\ idle' = FALSE
  /\ waitset' = {}
  /\ mutex' = NoThread
  /\ mpc' = "drain"
  /\ UNCHANGED <<running, req_stop_sleeping, queue_tasks, cur, left, cpc, signal>>

\* should_sleep: idle_sleep_ms have passed since time_last_task.  Only the
\* wait loop reads the clock, and it is entered with a fresh time_last_task.
idle_elapses ==
  /\ IdleSleep /\ ~idle /\ mpc \in {"wait", "idle"}
  /\ idle' = TRUE
  /\ UNCHANGED <<flags, queue_tasks, waitset, mutex, main, left, cpc, signal>>

-----------------------------------------------------------------------------

MainStep ==
  \/ start_loop \/ drain \/ process_task \/ update_slots \/ decode \/ touch
  \/ wait_for_tasks \/ idle_wakeup \/ idle_timeout
  \/ enter_sleep \/ sleep_wakeup \/ exit_sleep

ClientStep(c) == wait_until_no_sleep(c) \/ no_sleep_wakeup(c) \/ post(c)

Next ==
  \/ MainStep
  \/ \E c \in Clients : ClientStep(c)
  \/ idle_elapses
  \/ signal_handler
  \/ terminate
  \/ \E t \in Threads : Spurious(t)

Spec == Init /\ [][Next]_vars

\* Every thread that can take a step takes one eventually.  Nothing obliges a
\* client to send a request, the clock to reach the idle limit while tasks
\* keep coming, a signal to arrive, or a wait to return spuriously.  The main
\* thread takes the mutex for long only once per idle period of at least one
\* second, so terminate() gets it in between (strong fairness).
Fairness ==
  /\ WF_vars(MainStep)
  /\ SF_vars(terminate)
  /\ \A c \in Clients : WF_vars(no_sleep_wakeup(c)) /\ WF_vars(post(c))

FairSpec == Spec /\ Fairness

-----------------------------------------------------------------------------
(* Safety.                                                                 *)

\* The main thread is never blocked in the idle wait while there is something
\* to do: no notification of post(), defer() or terminate() gets lost there or
\* goes to a client instead (server-queue.cpp:113 and :199 share one condition
\* variable).
NoLostWakeup == mpc = "idle" /\ Main \in waitset => ~HasWork

\* The server falls asleep only when no slot is working: the NEXT_RESPONSE
\* task that update_slots posts keeps the queue non-empty until the last slot
\* is done, although the sleep test itself never looks at the slots.
SleepsOnlyWhenQuiet == sleeping => ~Busy

(* Liveness.                                                               *)

\* The server does not fall asleep behind the back of a client, one that saw it
\* awake and has not posted yet or one that was woken and has not run yet: the
\* wait of a sleeping server (server-queue.cpp:184) does not look at queue_tasks,
\* and a client asks for a wake-up once, before its own wait.
NoneInFlight == mpc = "unloading" => \A c \in Clients : cpc[c] \in {"off", "posted"}

\* A client that finds the server asleep gets past wait_until_no_sleep, unless
\* the server is shut down.
SleeperIsWoken ==
  []NoneInFlight =>
    \A c \in Clients : cpc[c] = "blocked" ~> cpc[c] = "ready" \/ signal.state # "none"

\* A posted task is processed and answered, unless the server is shut down.
TaskIsAnswered ==
  []NoneInFlight =>
    \A c \in Clients : cpc[c] = "posted" ~> cpc[c] = "off" \/ signal.state # "none"

\* "this will unblock start_loop()" (server.cpp:409): a terminate() that a thread
\* of its own calls once the loop has set `running` ends the loop, be it busy,
\* idle or asleep.
ShutdownUnblocksLoop ==
  signal.state = "locking" /\ signal.on = NoThread /\ running ~> mpc = "done"
=============================================================================
