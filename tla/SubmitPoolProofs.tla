-------------------------- MODULE SubmitPoolProofs --------------------------
(***************************************************************************)
(* Theorems about SubmitPool for any number of workers and of dispatches:  *)
(* no worker runs a closure that is gone, and the pool implements rounds   *)
(* that do not overlap (ForkJoin).                                         *)
(***************************************************************************)
EXTENDS SubmitPool, FiniteSetTheorems, TLAPS

Dispatch == {"notify", "own", "wait", "asleep"}

\* The workers that the current dispatch still waits for.
Pending == {w \in Workers : seen[w] # seq \/ pc[w] \in {"run", "ran"}}

\* n_pending counts them, and outside of a dispatch there are none.
Counted == /\ n_pending = Cardinality(Pending)
           /\ main \notin Dispatch => Pending = {}

\* What a worker may find when it takes its share.
Published == /\ spmd_job \in {0, seq}
             /\ main \notin Dispatch => spmd_job = 0
             /\ main \in Dispatch /\ spmd_job = 0 => \A w \in Workers : slot[w] = seq

\* Where worker w is in the current dispatch: not begun, running, or done.
Progress(w) ==
    /\ status[w].of <= seq
    /\ seen[w] # seq => status[w].of # seq
    /\ pc[w] \in {"run", "ran"} => seen[w] = seq
    /\ pc[w] = "run" => status[w].of # seq /\ job[w] = spmd_job
    /\ seen[w] = seq /\ pc[w] # "run" => status[w].of = seq

OwnShare == /\ status0.of <= seq
            /\ status0.of = seq <=> main \notin {"notify", "own"}

IInv == TypeOK /\ Counted /\ Published /\ (\A w \in Workers : Progress(w)) /\ OwnShare

\* There are finitely many workers.
LEMMA WorkersCount == Cardinality(Workers) \in Nat
  BY PoolAssumption, FS_CardinalityType

\* The invariant holds before the first submission.
LEMMA InitIInv == Init => IInv
  <1> SUFFICES ASSUME Init PROVE IInv
    OBVIOUS
  <1>1. TypeOK
    <2>1. 0 \in Stamp /\ 0 \in 0 .. Cardinality(Workers)
      BY WorkersCount, PoolAssumption DEF Stamp
    <2>2. NoStatus \in Statuses
      BY <2>1 DEF NoStatus, Statuses
    <2>3. QED
      BY <2>1, <2>2 DEF Init, TypeOK, WorkerStates, MainStates
  <1>2. Counted
    <2>1. Pending = {}
      BY DEF Init, Pending
    <2>2. QED
      BY <2>1, FS_EmptySet DEF Init, Counted
  <1>3. Published
    BY DEF Init, Published, Dispatch
  <1>4. \A w \in Workers : Progress(w)
    BY DEF Init, Progress, NoStatus
  <1>5. OwnShare
    BY DEF Init, OwnShare, NoStatus
  <1>6. QED
    BY <1>1, <1>2, <1>3, <1>4, <1>5 DEF IInv

\* A count of pending workers stays within the type of n_pending.
LEMMA CountBound ==
  ASSUME NEW P \in SUBSET Workers
  PROVE  /\ IsFiniteSet(P)
         /\ Cardinality(P) \in 0 .. Cardinality(Workers)
         /\ Cardinality(P) = 0 <=> P = {}
  BY PoolAssumption, FS_Subset, FS_CardinalityType, FS_EmptySet

\* A step that leaves the pending workers as they are.
LEMMA SamePending ==
  ASSUME Counted, n_pending' = n_pending, Pending' = Pending,
         main' \notin Dispatch => main \notin Dispatch \/ Pending = {}
  PROVE  Counted'
  BY DEF Counted

\* The main thread publishes a submission, ...
LEMMA PublishIInv == IInv /\ publish => IInv'
  <1> SUFFICES ASSUME IInv, publish PROVE IInv'
    OBVIOUS
  <1> USE DEF publish, IInv
  <1>1. Pending = {} /\ main' = "notify" /\ seq' = seq + 1 /\ seq \in Nat /\ seq' \in Stamp
    BY PoolAssumption DEF Counted, Dispatch, TypeOK, Stamp
  <1>2. \A w \in Workers : seen[w] = seq /\ pc[w] \notin {"run", "ran"}
    BY <1>1 DEF Pending
  <1>3. TypeOK'
    BY <1>1, WorkersCount DEF TypeOK, Stamp, Statuses, MainStates, InRound
  <1>4. Counted'
    <2>1. Pending' = Workers
      BY <1>1, <1>2 DEF Pending
    <2>2. QED
      BY <2>1 DEF Counted, Dispatch
  <1>5. Published'
    <2>1. spmd_job = 0
      BY DEF Published, Dispatch
    <2>2. QED
      BY <2>1, <1>1 DEF Published, Dispatch
  <1>6. ASSUME NEW w \in Workers PROVE Progress(w)'
    <2>1. status[w].of \in Nat /\ status[w].of <= seq
      BY DEF TypeOK, Stamp, Statuses, Progress
    <2>2. QED
      BY <1>1, <1>2, <2>1 DEF Progress
  <1>7. OwnShare'
    <2>1. status0.of \in Nat
      BY DEF TypeOK, Stamp, Statuses
    <2>2. QED
      BY <1>1, <2>1 DEF OwnShare
  <1>8. QED
    BY <1>3, <1>4, <1>5, <1>6, <1>7

\* ... a worker sees it, ...
LEMMA TakeIInv == ASSUME NEW w \in Workers PROVE IInv /\ take(w) => IInv'
  <1> SUFFICES ASSUME IInv, take(w) PROVE IInv'
    OBVIOUS
  <1> USE DEF take, IInv
  <1>1. TypeOK'
    BY DEF TypeOK, WorkerStates
  <1>2. Counted'
    <2>1. Pending' = Pending
      BY DEF Pending, TypeOK
    <2>2. QED
      BY <2>1, SamePending
  <1>3. Published'
    BY DEF Published
  <1>4. ASSUME NEW v \in Workers PROVE Progress(v)'
    BY DEF Progress, TypeOK
  <1>5. OwnShare'
    BY DEF OwnShare
  <1>6. QED
    BY <1>1, <1>2, <1>3, <1>4, <1>5

\* A worker goes to sleep, is woken or leaves: not in the middle of a share.
LEMMA MoveIInv ==
  ASSUME IInv,
         pc' \in [Workers -> WorkerStates],
         \A w \in Workers : pc'[w] # pc[w] => {pc[w], pc'[w]} \cap {"run", "ran"} = {},
         UNCHANGED <<seq, n_pending, spmd_job, slot, status, seen, job, status0, result>>,
         stop' \in BOOLEAN, main' \in MainStates,
         main' \in Dispatch <=> main \in Dispatch,
         main' \in {"notify", "own"} <=> main \in {"notify", "own"}
  PROVE  IInv'
  <1> USE DEF IInv
  <1>1. TypeOK'
    BY DEF TypeOK
  <1>2. Counted'
    <2>1. Pending' = Pending
      BY DEF Pending
    <2>2. QED
      BY <2>1, SamePending
  <1>3. Published'
    BY DEF Published
  <1>4. ASSUME NEW w \in Workers PROVE Progress(w)'
    BY DEF Progress
  <1>5. OwnShare'
    BY DEF OwnShare
  <1>6. QED
    BY <1>1, <1>2, <1>3, <1>4, <1>5

\* ... runs its share, which is one of the current submission, ...
LEMMA RunIInv == ASSUME NEW w \in Workers PROVE IInv /\ run(w) => IInv' /\ status'[w].of = seq
  <1> SUFFICES ASSUME IInv, run(w) PROVE IInv' /\ status'[w].of = seq
    OBVIOUS
  <1> USE DEF run, IInv
  <1>0. PICK ok \in BOOLEAN :
          status' = [status EXCEPT ![w] = [of |-> IF job[w] # 0 THEN job[w] ELSE slot[w], ok |-> ok]]
    OBVIOUS
  <1>1. TypeOK'
    BY <1>0 DEF TypeOK, WorkerStates, Statuses
  <1>2. Counted'
    <2>1. Pending' = Pending
      BY DEF Pending, TypeOK
    <2>2. QED
      BY <2>1, SamePending
  <1>3. Published'
    BY DEF Published
  <1>4. status'[w].of = seq
    <2>1. w \in Pending /\ main \in Dispatch
      BY DEF Pending, Counted
    <2>2. job[w] = spmd_job
      BY DEF Progress
    <2>3. QED
      BY <1>0, <2>1, <2>2 DEF Published, TypeOK
  <1>5. ASSUME NEW v \in Workers PROVE Progress(v)'
    <2>1. CASE v = w
      BY <2>1, <1>0, <1>4 DEF Progress, TypeOK, Stamp
    <2>2. CASE v # w
      BY <2>2, <1>0 DEF Progress, TypeOK
    <2>3. QED
      BY <2>1, <2>2
  <1>6. OwnShare'
    BY DEF OwnShare
  <1>7. QED
    BY <1>1, <1>2, <1>3, <1>4, <1>5, <1>6

\* ... and reports that it has finished.
LEMMA FinishIInv == ASSUME NEW w \in Workers PROVE IInv /\ finish(w) => IInv'
  <1> SUFFICES ASSUME IInv, finish(w) PROVE IInv'
    OBVIOUS
  <1> USE DEF finish, IInv
  <1>1. /\ w \in Pending /\ Pending' = Pending \ {w}
        /\ main \in Dispatch /\ main' \in Dispatch
        /\ main' \in {"notify", "own"} <=> main \in {"notify", "own"}
    <2>1. w \in Pending /\ main \in Dispatch
      BY DEF Pending, Counted
    <2>2. seen[w] = seq
      BY DEF Progress
    <2>3. Pending' = Pending \ {w}
      BY <2>2 DEF Pending, TypeOK
    <2>4. QED
      BY <2>1, <2>3 DEF Dispatch
  <1>2. n_pending' = Cardinality(Pending') /\ n_pending' \in 0 .. Cardinality(Workers)
    <2>1. Pending \in SUBSET Workers /\ Pending' \in SUBSET Workers
      BY <1>1 DEF Pending
    <2>2. IsFiniteSet(Pending)
      BY <2>1, CountBound
    <2>3. Cardinality(Pending \ {w}) = Cardinality(Pending) - 1
      BY <1>1, <2>2, FS_RemoveElement
    <2>4. QED
      BY <1>1, <2>1, <2>3, CountBound DEF Counted
  <1>3. TypeOK'
    BY <1>1, <1>2 DEF TypeOK, WorkerStates, MainStates, InRound, Dispatch
  <1>4. Counted'
    BY <1>1, <1>2 DEF Counted
  <1>5. Published'
    BY <1>1 DEF Published
  <1>6. ASSUME NEW v \in Workers PROVE Progress(v)'
    BY DEF Progress, TypeOK
  <1>7. OwnShare'
    BY <1>1 DEF OwnShare
  <1>8. QED
    BY <1>3, <1>4, <1>5, <1>6, <1>7

\* The main thread runs its own share, ...
LEMMA RunOwnIInv == IInv /\ run_own => IInv'
  <1> SUFFICES ASSUME IInv, run_own PROVE IInv'
    OBVIOUS
  <1> USE DEF run_own, IInv, workerVars
  <1>1. PICK ok \in BOOLEAN : status0' = [of |-> seq, ok |-> ok]
    OBVIOUS
  <1>2. TypeOK'
    BY <1>1 DEF TypeOK, Statuses, MainStates, InRound
  <1>3. Counted'
    <2>1. Pending' = Pending
      BY DEF Pending
    <2>2. QED
      BY <2>1, SamePending DEF Dispatch
  <1>4. Published'
    BY DEF Published, Dispatch
  <1>5. ASSUME NEW w \in Workers PROVE Progress(w)'
    BY DEF Progress
  <1>6. OwnShare'
    BY <1>1 DEF OwnShare, TypeOK, Stamp
  <1>7. QED
    BY <1>2, <1>3, <1>4, <1>5, <1>6

\* ... waits for the last worker ...
LEMMA JoinedIInv == IInv /\ joined => IInv'
  <1> SUFFICES ASSUME IInv, joined PROVE IInv'
    OBVIOUS
  <1> USE DEF joined, IInv, workerVars
  <1>1. Pending = {}
    BY CountBound DEF Counted, Pending
  <1>2. TypeOK'
    BY PoolAssumption DEF TypeOK, MainStates, InRound, Stamp
  <1>3. Counted'
    <2>1. Pending' = Pending
      BY DEF Pending
    <2>2. QED
      BY <1>1, <2>1, SamePending
  <1>4. Published'
    BY DEF Published, Dispatch
  <1>5. ASSUME NEW w \in Workers PROVE Progress(w)'
    <2>1. pc[w] # "run"
      BY <1>1 DEF Pending
    <2>2. QED
      BY <2>1 DEF Progress
  <1>6. OwnShare'
    BY DEF OwnShare
  <1>7. QED
    BY <1>2, <1>3, <1>4, <1>5, <1>6

\* ... and collects the results.
LEMMA CollectIInv == IInv /\ collect => IInv'
  <1> SUFFICES ASSUME IInv, collect PROVE IInv'
    OBVIOUS
  <1> USE DEF collect, IInv, workerVars
  <1>1. TypeOK'
    BY DEF TypeOK, MainStates
  <1>2. Counted'
    <2>1. Pending' = Pending
      BY DEF Pending
    <2>2. QED
      BY <2>1, SamePending DEF Dispatch
  <1>3. Published'
    BY DEF Published, Dispatch
  <1>4. ASSUME NEW w \in Workers PROVE Progress(w)'
    BY DEF Progress
  <1>5. OwnShare'
    BY DEF OwnShare
  <1>6. QED
    BY <1>1, <1>2, <1>3, <1>4, <1>5

\* No step breaks the invariant.
LEMMA StepIInv == IInv /\ [Next]_vars => IInv'
  <1> SUFFICES ASSUME IInv, [Next]_vars PROVE IInv'
    OBVIOUS
  <1> USE DEF workerVars
  <1>0. TypeOK
    BY DEF IInv
  <1>1. CASE publish
    BY <1>1, PublishIInv
  <1>2. ASSUME NEW w \in Workers, take(w) PROVE IInv'
    BY <1>2, TakeIInv
  <1>3. ASSUME NEW w \in Workers, sleep(w) \/ leave(w) PROVE IInv'
    BY <1>0, <1>3, MoveIInv DEF sleep, leave, TypeOK, WorkerStates
  <1>4. ASSUME NEW w \in Workers, run(w) PROVE IInv'
    BY <1>4, RunIInv
  <1>5. ASSUME NEW w \in Workers, finish(w) PROVE IInv'
    BY <1>5, FinishIInv
  <1>6. CASE notify \/ notify_stop
    <2>1. /\ Woken \in [Workers -> WorkerStates]
          /\ \A w \in Workers : Woken[w] # pc[w] => pc[w] = "asleep" /\ Woken[w] = "lock"
      BY <1>0 DEF Woken, TypeOK, WorkerStates
    <2>2. QED
      BY <1>0, <1>6, <2>1, MoveIInv
         DEF notify, notify_stop, TypeOK, MainStates, InRound, Dispatch
  <1>7. CASE run_own
    BY <1>7, RunOwnIInv
  <1>8. CASE sleep_done \/ destroy \/ join
    BY <1>0, <1>8, MoveIInv
       DEF sleep_done, destroy, join, TypeOK, MainStates, InRound, Dispatch
  <1>9. CASE joined
    BY <1>9, JoinedIInv
  <1>10. CASE collect
    BY <1>10, CollectIInv
  <1>11. CASE UNCHANGED vars
    BY <1>0, <1>11, MoveIInv DEF vars, TypeOK
  <1>12. QED
    BY <1>1, <1>2, <1>3, <1>4, <1>5, <1>6, <1>7, <1>8, <1>9, <1>10, <1>11
       DEF Next, Dispatching, Worker

\* The pool never counts wrong, whatever the number of workers and dispatches.
THEOREM Invariance == Spec => []IInv
  BY InitIInv, StepIInv, PTL DEF Spec

\* The types, with n_pending never below zero (:2109).
THEOREM TypeCorrect == Spec => []TypeOK
  BY Invariance, PTL DEF IInv

\* No worker runs a closure whose owner has returned or forgotten it.
THEOREM ClosureAlive == Spec => []JobIsAlive
  <1>1. IInv => JobIsAlive
    <2> SUFFICES ASSUME IInv, NEW w \in Workers, pc[w] = "run", job[w] # 0
                 PROVE  main \in InRound \ {"read"} /\ job[w] = seq /\ spmd_job = seq
      BY DEF JobIsAlive
    <2>1. w \in Pending
      BY DEF Pending
    <2>2. main \in Dispatch
      BY <2>1 DEF IInv, Counted
    <2>3. job[w] = spmd_job /\ spmd_job = seq
      BY DEF IInv, Progress, Published
    <2>4. QED
      BY <2>2, <2>3 DEF Dispatch, InRound
  <1>2. QED
    BY <1>1, Invariance, PTL

-----------------------------------------------------------------------------
\* A step that changes neither the dispatch nor a status is a stutter of ForkJoin.
LEMMA Stutter ==
  ASSUME UNCHANGED <<seq, status, status0, result>>, main' \in InRound <=> main \in InRound
  PROVE  UNCHANGED FJ!fjVars
  BY DEF FJ!fjVars, DoneBy, FailedBy, Everyone

\* At the end of a dispatch every share is done.
LEMMA AllDone == IInv /\ main = "read" => \A p \in Everyone : DoneBy(p)
  <1> SUFFICES ASSUME IInv, main = "read", NEW p \in Everyone PROVE DoneBy(p)
    OBVIOUS
  <1>1. CASE p = Main
    BY <1>1 DEF IInv, OwnShare, DoneBy
  <1>2. CASE p # Main
    <2>1. p \in Workers /\ Pending = {}
      BY <1>2 DEF Everyone, IInv, Counted, Dispatch
    <2>2. seen[p] = seq /\ pc[p] # "run"
      BY <2>1 DEF Pending
    <2>3. QED
      BY <1>2, <2>1, <2>2 DEF DoneBy, IInv, Progress
  <1>3. QED
    BY <1>1, <1>2

\* In a dispatch that has just been published no share is done.
LEMMA NoneDone == IInv /\ publish => \A p \in Everyone : ~DoneBy(p)'
  <1> SUFFICES ASSUME IInv, publish, NEW p \in Everyone PROVE ~DoneBy(p)'
    OBVIOUS
  <1>1. seq' = seq + 1 /\ seq \in Nat /\ UNCHANGED <<status, status0>>
    BY DEF publish, IInv, TypeOK, Stamp
  <1>2. CASE p = Main
    <2>1. status0.of \in Nat /\ status0.of <= seq
      BY DEF IInv, OwnShare, TypeOK, Statuses, Stamp
    <2>2. QED
      BY <1>1, <1>2, <2>1 DEF DoneBy
  <1>3. CASE p # Main
    <2>1. p \in Workers
      BY <1>3 DEF Everyone
    <2>2. status[p].of \in Nat /\ status[p].of <= seq
      BY <2>1 DEF IInv, Progress, TypeOK, Statuses, Stamp
    <2>3. QED
      BY <1>1, <1>3, <2>2 DEF DoneBy
  <1>4. QED
    BY <1>2, <1>3

\* A worker that runs its share does a share of the fork-join, ...
LEMMA RunIsShare == ASSUME NEW w \in Workers PROVE IInv /\ run(w) => FJ!Share(w)
  <1> SUFFICES ASSUME IInv, run(w) PROVE FJ!Share(w)
    OBVIOUS
  <1>1. w # Main /\ w \in Everyone
    BY PoolAssumption DEF Everyone
  <1>2. ~DoneBy(w)
    BY <1>1 DEF run, IInv, Progress, DoneBy
  <1>3. DoneBy(w)'
    BY <1>1, RunIInv DEF run, DoneBy
  <1>4. \A p \in Everyone : p # w => (DoneBy(p)' <=> DoneBy(p)) /\ (FailedBy(p)' <=> FailedBy(p))
    BY DEF run, DoneBy, FailedBy, Everyone, IInv, TypeOK
  <1>5. QED
    BY <1>1, <1>2, <1>3, <1>4 DEF FJ!Share, run

\* ... the main thread does as well, ...
LEMMA RunOwnIsShare == IInv /\ run_own => FJ!Share(Main)
  <1> SUFFICES ASSUME IInv, run_own PROVE FJ!Share(Main)
    OBVIOUS
  <1> USE DEF run_own, workerVars
  <1>1. ~DoneBy(Main) /\ DoneBy(Main)' /\ Main \in Everyone
    BY DEF IInv, OwnShare, DoneBy, Everyone
  <1>2. \A p \in Everyone : p # Main => (DoneBy(p)' <=> DoneBy(p)) /\ (FailedBy(p)' <=> FailedBy(p))
    BY DEF DoneBy, FailedBy
  <1>3. QED
    BY <1>1, <1>2 DEF FJ!Share, InRound

\* ... and collecting the results ends it.
LEMMA CollectIsEnd == IInv /\ collect => FJ!End
  <1> SUFFICES ASSUME IInv, collect PROVE FJ!End
    OBVIOUS
  <1> USE DEF collect, workerVars
  <1>1. \A p \in Everyone : DoneBy(p)
    BY AllDone
  <1>2. result' = (\A p \in Everyone : ~FailedBy(p))
    BY PoolAssumption DEF FailedBy, Everyone, IInv, TypeOK
  <1>3. \A p \in Everyone : (DoneBy(p)' <=> DoneBy(p)) /\ (FailedBy(p)' <=> FailedBy(p))
    BY DEF DoneBy, FailedBy
  <1>4. {p \in Everyone : ~DoneBy(p)} = {} /\ UNCHANGED {p \in Everyone : ~DoneBy(p)}
    BY <1>1, <1>3
  <1>5. UNCHANGED {p \in Everyone : DoneBy(p) /\ FailedBy(p)}
    BY <1>3
  <1>6. result' = ({p \in Everyone : DoneBy(p) /\ FailedBy(p)} = {})
    BY <1>1, <1>2
  <1>7. main \in InRound /\ (main \in InRound)' = FALSE
    BY DEF InRound
  <1>8. QED
    BY <1>4, <1>5, <1>6, <1>7 DEF FJ!End

\* Every step of the pool is a step of the fork-join or none.
LEMMA StepRefines == IInv /\ [Next]_vars => [FJ!FJNext]_(FJ!fjVars)
  <1> SUFFICES ASSUME IInv, [Next]_vars PROVE [FJ!FJNext]_(FJ!fjVars)
    OBVIOUS
  <1>1. CASE publish
    <2>1. FJ!Begin
      BY <1>1, NoneDone DEF publish, FJ!Begin, InRound
    <2>2. QED
      BY <2>1 DEF FJ!FJNext
  <1>2. ASSUME NEW w \in Workers, run(w) PROVE FJ!FJNext
    BY <1>2, RunIsShare DEF FJ!FJNext, Everyone
  <1>3. CASE run_own
    BY <1>3, RunOwnIsShare DEF FJ!FJNext, Everyone
  <1>4. CASE collect
    BY <1>4, CollectIsEnd DEF FJ!FJNext
  <1>5. ASSUME NEW w \in Workers, take(w) \/ sleep(w) \/ leave(w) \/ finish(w)
        PROVE UNCHANGED FJ!fjVars
    BY <1>5, Stutter DEF take, sleep, leave, finish, InRound
  <1>6. CASE notify \/ notify_stop \/ sleep_done \/ joined \/ destroy \/ join
    BY <1>6, Stutter DEF notify, notify_stop, sleep_done, joined, destroy, join, InRound, workerVars
  <1>7. CASE UNCHANGED vars
    BY <1>7, Stutter DEF vars, workerVars
  <1>8. QED
    BY <1>1, <1>2, <1>3, <1>4, <1>5, <1>6, <1>7 DEF Next, Dispatching, Worker

\* Every device runs its share of every dispatch once, and the status that the
\* evaluation returns is that of exactly these shares.
THEOREM PoolImplementsForkJoin == Spec => ImplementsForkJoin
  <1>1. Init => FJ!FJInit
    <2> SUFFICES ASSUME Init PROVE FJ!FJInit
      OBVIOUS
    <2>1. \A p \in Everyone : DoneBy(p) /\ ~FailedBy(p)
      BY DEF Init, DoneBy, FailedBy, NoStatus, Everyone
    <2>2. {p \in Everyone : ~DoneBy(p)} = {} /\ {p \in Everyone : DoneBy(p) /\ FailedBy(p)} = {}
      BY <2>1
    <2>3. (main \in InRound) = FALSE
      BY DEF Init, InRound
    <2>4. QED
      BY <2>2, <2>3 DEF Init, FJ!FJInit
  <1>2. QED
    BY <1>1, Invariance, StepRefines, PTL DEF Spec, ImplementsForkJoin, FJ!FJSpec
=============================================================================
