----------------------------- MODULE SubmitPool -----------------------------
(* The submission pool of the meta backend: one worker thread for every      *)
(* device but the first, which the thread that evaluates the graph serves    *)
(* itself.  A dispatch hands every worker one share, either the subgraph in  *)
(* its slot (mode 1) or the closure that all of them run (mode 2, and the    *)
(* diagonals of the AffinityWave benchmark), and is joined before the next.  *)
(* One action is one critical section of `m`, or the run of one share.  A    *)
(* thread that finds its predicate false unlocks and sleeps in one step.     *)
(* A share is named by its dispatch, that is by the value seq had then.      *)
EXTENDS Naturals, FiniteSets

CONSTANTS Workers,  \* the threads of the pool
          Main,     \* the thread that evaluates graphs
          MaxJobs   \* bound: dispatches

ASSUME PoolAssumption ==
    /\ IsFiniteSet(Workers) /\ Workers # {}   \* the pool is made for n_backends > 1
    /\ Main \notin Workers
    /\ MaxJobs \in Nat

VARIABLES seq, n_pending, stop,
          spmd_job,  \* 0 for nullptr, else the dispatch whose closure it is
          slot,      \* worker -> dispatch whose subgraph its slot has
          status,    \* worker -> dispatch whose share wrote the status, and whether it is a success
          seen,      \* worker -> its local `seen`
          job,       \* worker -> its local `job`: like spmd_job
          pc,        \* worker -> where it is
          main,      \* where the evaluating thread is
          status0,   \* the status of its own share, like status
          result     \* whether the last dispatch returned success

workerVars == <<slot, status, seen, job, pc>>
vars == <<seq, n_pending, stop, spmd_job, workerVars, main, status0, result>>

NoStatus == [of |-> 0, ok |-> TRUE]

Init ==
    /\ seq = 0 /\ n_pending = 0 /\ stop = FALSE /\ spmd_job = 0
    /\ slot = [w \in Workers |-> 0] /\ status = [w \in Workers |-> NoStatus]
    /\ seen = [w \in Workers |-> 0] /\ job = [w \in Workers |-> 0]
    /\ pc = [w \in Workers |-> "lock"]
    /\ main = "free" /\ status0 = NoStatus /\ result = TRUE

-----------------------------------------------------------------------------
(* The loop of a worker.  It waits for `stop || seq != seen`.                 *)

take(w) ==
    /\ pc[w] = "lock" /\ ~stop /\ seq # seen[w]
    /\ seen' = [seen EXCEPT ![w] = seq]
    /\ job' = [job EXCEPT ![w] = spmd_job]
    /\ pc' = [pc EXCEPT ![w] = "run"]
    /\ UNCHANGED <<seq, n_pending, stop, spmd_job, slot, status, main, status0, result>>

sleep(w) ==
    /\ pc[w] = "lock" /\ ~stop /\ seq = seen[w]
    /\ pc' = [pc EXCEPT ![w] = "asleep"]
    /\ UNCHANGED <<seq, n_pending, stop, spmd_job, slot, status, seen, job, main, status0, result>>

leave(w) ==
    /\ pc[w] = "lock" /\ stop
    /\ pc' = [pc EXCEPT ![w] = "gone"]
    /\ UNCHANGED <<seq, n_pending, stop, spmd_job, slot, status, seen, job, main, status0, result>>

(* Without the lock: the closure, or the subgraph of the slot as it is now.   *)
run(w) ==
    /\ pc[w] = "run"
    /\ \E ok \in BOOLEAN :
         status' = [status EXCEPT ![w] = [of |-> IF job[w] # 0 THEN job[w] ELSE slot[w], ok |-> ok]]
    /\ pc' = [pc EXCEPT ![w] = "ran"]
    /\ UNCHANGED <<seq, n_pending, stop, spmd_job, slot, seen, job, main, status0, result>>

\* Mutant: only a worker that is not the last one signals cv_done.
finish_silent(w) ==
    /\ pc[w] = "ran"
    /\ n_pending' = n_pending - 1
    /\ main' = IF n_pending' # 0 /\ main = "asleep" THEN "wait" ELSE main
    /\ pc' = [pc EXCEPT ![w] = "lock"]
    /\ UNCHANGED <<seq, stop, spmd_job, slot, status, seen, job, status0, result>>

finish(w) ==
    /\ pc[w] = "ran"
    /\ n_pending' = n_pending - 1
    /\ main' = IF n_pending' = 0 /\ main = "asleep" THEN "wait" ELSE main
    /\ pc' = [pc EXCEPT ![w] = "lock"]
    /\ UNCHANGED <<seq, stop, spmd_job, slot, status, seen, job, status0, result>>

-----------------------------------------------------------------------------
(* The evaluating thread.                                                     *)

\* Mutant: the slots keep the subgraphs of the dispatch before.
publish_stale ==
    /\ main = "free" /\ seq < MaxJobs
    /\ seq' = seq + 1
    /\ spmd_job' \in {0, seq'}
    /\ n_pending' = Cardinality(Workers)
    /\ main' = "notify"
    /\ UNCHANGED <<stop, workerVars, status0, result>>

(* Mode 1 fills the slots, mode 2 sets spmd_job.                              *)
publish ==
    /\ main = "free" /\ seq < MaxJobs
    /\ seq' = seq + 1
    /\ \/ /\ slot' = [w \in Workers |-> seq'] /\ UNCHANGED spmd_job
       \/ /\ spmd_job' = seq' /\ UNCHANGED slot
    /\ n_pending' = Cardinality(Workers)
    /\ main' = "notify"
    /\ UNCHANGED <<stop, status, seen, job, pc, status0, result>>

(* cv_go.notify_all                                                           *)
Woken == [w \in Workers |-> IF pc[w] = "asleep" THEN "lock" ELSE pc[w]]

notify ==
    /\ main = "notify"
    /\ pc' = Woken /\ main' = "own"
    /\ UNCHANGED <<seq, n_pending, stop, spmd_job, slot, status, seen, job, status0, result>>

run_own ==
    /\ main = "own"
    /\ \E ok \in BOOLEAN : status0' = [of |-> seq, ok |-> ok]
    /\ main' = "wait"
    /\ UNCHANGED <<seq, n_pending, stop, spmd_job, workerVars, result>>

sleep_done ==
    /\ main = "wait" /\ n_pending # 0
    /\ main' = "asleep"
    /\ UNCHANGED <<seq, n_pending, stop, spmd_job, workerVars, status0, result>>

\* Mutant: a failed share of its own makes it return without the join.
joined_early ==
    /\ main = "wait" /\ (n_pending = 0 \/ ~status0.ok)
    /\ spmd_job' = 0
    /\ main' = "read"
    /\ UNCHANGED <<seq, n_pending, stop, workerVars, status0, result>>

(* Mode 1 leaves spmd_job alone, which is nullptr then.                       *)
joined ==
    /\ main = "wait" /\ n_pending = 0
    /\ spmd_job' = 0
    /\ main' = "read"
    /\ UNCHANGED <<seq, n_pending, stop, workerVars, status0, result>>

(* The statuses are read, and with the return the closure is destroyed.       *)
collect ==
    /\ main = "read"
    /\ result' = (status0.ok /\ \A w \in Workers : status[w].ok)
    /\ main' = "free"
    /\ UNCHANGED <<seq, n_pending, stop, spmd_job, workerVars, status0>>

(* The destructor.                                                            *)
destroy ==
    /\ main = "free"
    /\ stop' = TRUE /\ main' = "stopped"
    /\ UNCHANGED <<seq, n_pending, spmd_job, workerVars, status0, result>>

notify_stop ==
    /\ main = "stopped"
    /\ pc' = Woken /\ main' = "join"
    /\ UNCHANGED <<seq, n_pending, stop, spmd_job, slot, status, seen, job, status0, result>>

join ==
    /\ main = "join" /\ \A w \in Workers : pc[w] = "gone"
    /\ main' = "gone"
    /\ UNCHANGED <<seq, n_pending, stop, spmd_job, workerVars, status0, result>>

-----------------------------------------------------------------------------
Worker(w) == take(w) \/ sleep(w) \/ leave(w) \/ run(w) \/ finish(w)

\* What the evaluating thread does without being asked for a graph.
Dispatching == notify \/ run_own \/ sleep_done \/ joined \/ collect \/ notify_stop \/ join

Next == publish \/ destroy \/ Dispatching \/ \E w \in Workers : Worker(w)

Spec == Init /\ [][Next]_vars

(* Threads are scheduled and a share ends.  Nobody has to ask for a graph,    *)
(* nor to destroy the pool.                                                   *)
FairSpec == Spec /\ WF_vars(Dispatching) /\ \A w \in Workers : WF_vars(Worker(w))

-----------------------------------------------------------------------------
Stamp == 0 .. MaxJobs
Statuses == [of : Stamp, ok : BOOLEAN]
WorkerStates == {"lock", "asleep", "run", "ran", "gone"}
InRound == {"notify", "own", "wait", "asleep", "read"}
MainStates == InRound \cup {"free", "stopped", "join", "gone"}

(* The types.  n_pending, a size_t, is decremented by threads that do not     *)
(* look at it: that it never goes below zero is part of this (:2109).         *)
TypeOK ==
    /\ seq \in Stamp /\ n_pending \in 0 .. Cardinality(Workers) /\ stop \in BOOLEAN
    /\ spmd_job \in Stamp /\ slot \in [Workers -> Stamp]
    /\ status \in [Workers -> Statuses]
    /\ seen \in [Workers -> Stamp] /\ job \in [Workers -> Stamp]
    /\ pc \in [Workers -> WorkerStates]
    /\ main \in MainStates
    /\ status0 \in Statuses /\ result \in BOOLEAN

(* spmd_job points to a closure on the stack of the thread that evaluates     *)
(* the graph: while a worker runs it, that thread is inside the dispatch      *)
(* that owns it, and has not yet forgotten it (:2103, :3499-3513).            *)
JobIsAlive == \A w \in Workers : pc[w] = "run" /\ job[w] # 0 =>
                  main \in InRound \ {"read"} /\ job[w] = seq /\ spmd_job = seq

(* Each device runs its share of each dispatch exactly once, dispatches do    *)
(* not overlap, and the status returned is that of these shares (:3516-3523). *)
DoneBy(p) == IF p = Main THEN status0.of = seq ELSE status[p].of = seq
FailedBy(p) == IF p = Main THEN ~status0.ok ELSE ~status[p].ok
Everyone == Workers \cup {Main}
FJ == INSTANCE ForkJoin WITH
        Everyone <- Everyone,
        round <- seq,
        open <- main \in InRound,
        todo <- {p \in Everyone : ~DoneBy(p)},
        failed <- {p \in Everyone : DoneBy(p) /\ FailedBy(p)},
        verdict <- result
ImplementsForkJoin == FJ!FJSpec

(* Every dispatch returns, and the destructor joins every worker: neither a   *)
(* worker on cv_go nor the evaluating thread on cv_done misses its signal     *)
(* (:2098, :3511, :2118-2126).                                                *)
DispatchEnds == [](main \in InRound => <>(main = "free")) /\ [](stop => <>(main = "gone"))
=============================================================================
