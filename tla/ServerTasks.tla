----------------------------- MODULE ServerTasks -----------------------------
(***************************************************************************)
(* The life of a task in llama-server: an HTTP worker registers the ids of *)
(* its request, posts the tasks and reads their results through a          *)
(* server_response_reader; the main thread launches each task into a slot  *)
(* or defers it, decodes all slots together, sends results and releases    *)
(* the slots.  A reader that gives up cancels its tasks.                   *)
(*                                                                         *)
(* Only the main thread touches the slots.  The workers meet it at two     *)
(* mutexes, mutex_tasks and mutex_results, and a critical section of       *)
(* either is one action.  Tokens, samplers and the KV cache are left out:  *)
(* what an iteration does to a slot is chosen among its possible outcomes. *)
(***************************************************************************)
EXTENDS Naturals, Sequences, FiniteSets

CONSTANTS
  Requests,  \* one server_response_reader each
  Tasks,     \* every task and child task; a model value is a task id
  NoTask,
  NSlots,    \* --parallel
  MaxTurns,  \* bound: iterations that do not end a task
  Loads      \* the mixes of requests that are looked at

Slots == 1 .. NSlots
Kinds == {"completion", "embedding", "slot_op"}

ASSUME TasksAssumption ==
  /\ NSlots \in Nat \ {0}
  /\ NoTask \notin Tasks
  /\ MaxTurns \in Nat

\* What clients ask for, and whether things may go wrong.
ASSUME LoadsAssumption ==
  \A l \in Loads :
    /\ l.posted \in [Requests -> Seq(Tasks)]     \* the tasks a request posts
    /\ l.children \in [Tasks -> Seq(Tasks)]      \* n_cmpl > 1: the tasks of the other choices
    /\ l.kind \in [Tasks -> Kinds]
    /\ l.idSlot \in [Tasks -> 0 .. NSlots]       \* task.id_slot, 0 stands for -1
    /\ l.actionSlot \in [Tasks -> 0 .. NSlots]   \* slot_action.id_slot, 0: needs no slot
    /\ l.stream \subseteq Requests              \* requests that ask for partial results
    /\ l.emptyPrompt \subseteq Tasks            \* tasks whose prompt has no tokens
    /\ l.mayFail \in BOOLEAN                    \* launching and decoding may fail
    /\ l.mayGiveUp \in BOOLEAN                  \* connections may close

\* Every task has an id of its own, from get_new_id.  Only completions have
\* children, and add_child makes these without any.
ASSUME IdsAssumption ==
  \A l \in Loads :
    LET elems(s) == {s[i] : i \in DOMAIN s} IN
    /\ \A r, q \in Requests : r # q => elems(l.posted[r]) \cap elems(l.posted[q]) = {}
    /\ \A p, q \in Tasks : p # q => elems(l.children[p]) \cap elems(l.children[q]) = {}
    /\ \A r \in Requests, p \in Tasks : elems(l.posted[r]) \cap elems(l.children[p]) = {}
    /\ \A p \in Tasks : l.children[p] # <<>> =>
         l.kind[p] = "completion" /\ \A c \in elems(l.children[p]) : l.children[c] = <<>>

VARIABLES
  load,              \* the mix of requests; never changes
  queue_tasks, queue_tasks_deferred,  \* server_queue
  waiting_task_ids,  \* server_response
  results,           \* server_response.queue_results, split by reader
  slot,              \* the slots: state, task, iterations so far
  batched,           \* generating slots that have a token in the batch
  mpc, cur,          \* the main thread and the task it took from the queue
  reply, due,        \* what it still has to send and release before going on
  cpc,               \* where each reader is
  received           \* the tasks whose final result each reader has returned

queues == <<queue_tasks, queue_tasks_deferred>>
resp   == <<waiting_task_ids, results>>
agenda == <<reply, due>>
reader == <<cpc, received>>
vars   == <<load, queue_tasks, queue_tasks_deferred, waiting_task_ids, results, slot,
            batched, mpc, cur, reply, due, cpc, received>>

Posted      == load.posted
Children    == load.children
Kind        == load.kind
IdSlot      == load.idSlot
ActionSlot  == load.actionSlot
Stream      == load.stream
EmptyPrompt == load.emptyPrompt
MayFail     == load.mayFail
MayGiveUp   == load.mayGiveUp

ElemsOf(s) == {s[i] : i \in DOMAIN s}

\* server_response_reader::id_tasks.
IdTasks(r) == UNION {{t} \cup ElemsOf(Children[t]) : t \in ElemsOf(Posted[r])}
Owner(t) == CHOOSE r \in Requests : t \in IdTasks(r)
IsChildOf(c, t) == c \in ElemsOf(Children[t])
IsChild(t) == \E p \in Tasks : IsChildOf(t, p)

Run(t)    == [op |-> "run", t |-> t]
Cancel(t) == [op |-> "cancel", t |-> t]
NextResponse == [op |-> "next", t |-> NoTask]

IdleSlot == [st |-> "idle", task |-> NoTask, turns |-> 0]

MainPoints   == {"drain", "process", "update", "pre_decode", "decode", "post_decode", "wait"}
ReaderPoints == {"new", "registered", "reading", "stopping", "finished", "cancelling", "gone"}
SlotStates   == {"idle", "wait_other", "started", "done_prompt", "generating"}
ResultKinds  == {"partial", "final", "error"}
QueueElems   == [op : {"run", "cancel"}, t : Tasks] \cup {NextResponse}

\* due[s] is what the loop over all slots does when it comes to slot s: send a
\* result and, unless the task goes on, release the slot.  reply is a result
\* that is sent first and belongs to no slot.
Duties  == {"none", "release"} \cup ResultKinds
NoReply == [t |-> NoTask, kind |-> "none"]
Nothing == [s \in Slots |-> "none"]

TypeOK ==
  /\ load \in Loads
  /\ queue_tasks \in Seq(QueueElems)
  /\ queue_tasks_deferred \in Seq(Tasks)
  /\ waiting_task_ids \in SUBSET Tasks
  /\ results \in [Requests -> Seq([t : Tasks, kind : ResultKinds])]
  /\ slot \in [Slots -> [st : SlotStates, task : Tasks \cup {NoTask}, turns : Nat]]
  /\ batched \in SUBSET Slots
  /\ mpc \in MainPoints
  /\ cur \in QueueElems
  /\ reply \in [t : Tasks, kind : {"final", "error"}] \cup {NoReply}
  /\ due \in [Slots -> Duties]
  /\ cpc \in [Requests -> ReaderPoints]
  /\ received \in [Requests -> SUBSET Tasks]

Init ==
  /\ load \in Loads
  /\ queue_tasks = <<>> /\ queue_tasks_deferred = <<>>
  /\ waiting_task_ids = {}
  /\ results = [r \in Requests |-> <<>>]
  /\ slot = [s \in Slots |-> IdleSlot]
  /\ batched = {}
  /\ mpc = "wait" /\ cur = NextResponse /\ reply = NoReply /\ due = Nothing
  /\ cpc = [r \in Requests |-> "new"]
  /\ received = [r \in Requests |-> {}]

-----------------------------------------------------------------------------
(* Queues and slots.                                                       *)

\* The numbers of a finite set in ascending order, and what a sequence has at
\* these positions.
InOrder(S) == [j \in 1 .. Cardinality(S) |-> CHOOSE x \in S : Cardinality({y \in S : y <= x}) = j]
AtPositions(q, S) == [j \in DOMAIN InOrder(S) |-> q[InOrder(S)[j]]]

\* cleanup_pending_task for a set of targets.
NotPending(q, targets) == AtPositions(q, {i \in DOMAIN q : ~(q[i].op = "run" /\ q[i].t \in targets)})
NotDeferred(d, targets) == AtPositions(d, {i \in DOMAIN d : d[i] \notin targets})

WithoutIndex(s, i) == SubSeq(s, 1, i - 1) \o SubSeq(s, i + 1, Len(s))

\* The deferred task that takes the place of what slot s was doing.
DeferredFor(s) ==
  LET asks == {i \in DOMAIN queue_tasks_deferred : IdSlot[queue_tasks_deferred[i]] = s}
  IN  IF asks = {} THEN 1 ELSE CHOOSE i \in asks : \A j \in asks : i <= j

\* Mutant: only a task that asks for this very slot is moved.
pop_deferred_task_exact(s) ==
  IF \E i \in DOMAIN queue_tasks_deferred : IdSlot[queue_tasks_deferred[i]] = s
    THEN /\ queue_tasks' = <<Run(queue_tasks_deferred[DeferredFor(s)])>> \o queue_tasks
         /\ queue_tasks_deferred' = WithoutIndex(queue_tasks_deferred, DeferredFor(s))
    ELSE UNCHANGED queues

pop_deferred_task(s) ==
  IF queue_tasks_deferred = <<>> THEN UNCHANGED queues
  ELSE /\ queue_tasks' = <<Run(queue_tasks_deferred[DeferredFor(s)])>> \o queue_tasks
       /\ queue_tasks_deferred' = WithoutIndex(queue_tasks_deferred, DeferredFor(s))

Busy(s) == slot[s].st # "idle"

-----------------------------------------------------------------------------
(* The HTTP worker: server_response_reader.                                *)

add_waiting_task_ids(r) ==
  /\ cpc[r] = "new" /\ Posted[r] # <<>>
  /\ waiting_task_ids' = waiting_task_ids \cup IdTasks(r)
  /\ cpc' = [cpc EXCEPT ![r] = "registered"]
  /\ UNCHANGED <<queues, results, slot, batched, mpc, cur, agenda, received>>

post_tasks(r) ==
  /\ cpc[r] = "registered"
  /\ queue_tasks' = queue_tasks \o [i \in DOMAIN Posted[r] |-> Run(Posted[r][i])]
  /\ cpc' = [cpc EXCEPT ![r] = "reading"]
  /\ UNCHANGED <<queue_tasks_deferred, resp, slot, batched, mpc, cur, agenda, received>>

next(r) ==
  /\ cpc[r] = "reading" /\ results[r] # <<>>
  /\ LET res == Head(results[r])
         got == IF res.kind = "final" THEN received[r] \cup {res.t} ELSE received[r]
     IN  /\ results' = [results EXCEPT ![r] = Tail(results[r])]
         /\ received' = [received EXCEPT ![r] = got]
         /\ cpc' = [cpc EXCEPT ![r] = IF res.kind = "error" THEN "stopping"
                                      ELSE IF got = IdTasks(r) THEN "finished"
                                      ELSE "reading"]
  /\ UNCHANGED <<queues, waiting_task_ids, slot, batched, mpc, cur, agenda>>

\* recv_with_timeout returns nullptr and should_stop() holds, or the response
\* cannot be written: the handler is left and its reader destroyed.
give_up(r) ==
  /\ MayGiveUp /\ cpc[r] = "reading"
  /\ cpc' = [cpc EXCEPT ![r] = "stopping"]
  /\ UNCHANGED <<queues, resp, slot, batched, mpc, cur, agenda, received>>

\* stop(), under mutex_results: no result is expected any more, and unless all
\* arrived those that did are purged.
stop(r) ==
  /\ cpc[r] \in {"stopping", "finished"}
  /\ waiting_task_ids' = waiting_task_ids \ IdTasks(r)
  /\ results' = IF cpc[r] = "stopping" THEN [results EXCEPT ![r] = <<>>] ELSE results
  /\ cpc' = [cpc EXCEPT ![r] = IF cpc[r] = "stopping" THEN "cancelling" ELSE "gone"]
  /\ UNCHANGED <<queues, slot, batched, mpc, cur, agenda, received>>

\* Mutant: only the posted tasks are cancelled, not their children.
post_cancel_parents(r) ==
  /\ cpc[r] = "cancelling"
  /\ queue_tasks' = [i \in DOMAIN Posted[r] |-> Cancel(Posted[r][i])]
                      \o NotPending(queue_tasks, IdTasks(r))
  /\ queue_tasks_deferred' = NotDeferred(queue_tasks_deferred, IdTasks(r))
  /\ cpc' = [cpc EXCEPT ![r] = "gone"]
  /\ UNCHANGED <<resp, slot, batched, mpc, cur, agenda, received>>

\* stop(), under mutex_tasks: a CANCEL task for each id goes to the front, in
\* the order of an unordered_set, and what is pending is removed.
post_cancel(r) ==
  /\ cpc[r] = "cancelling"
  /\ \E order \in [1 .. Cardinality(IdTasks(r)) -> IdTasks(r)] :
       /\ ElemsOf(order) = IdTasks(r)
       /\ queue_tasks' = [i \in DOMAIN order |-> Cancel(order[i])]
                           \o NotPending(queue_tasks, IdTasks(r))
  /\ queue_tasks_deferred' = NotDeferred(queue_tasks_deferred, IdTasks(r))
  /\ cpc' = [cpc EXCEPT ![r] = "gone"]
  /\ UNCHANGED <<resp, slot, batched, mpc, cur, agenda, received>>

-----------------------------------------------------------------------------
(* The main thread.  It works off its agenda before it takes another step. *)

At(p) == mpc = p /\ agenda = <<NoReply, Nothing>>

\* The loop over the slots is at slot s, where it has something to do.
LoopAt(s) == reply = NoReply /\ due[s] # "none" /\ \A x \in Slots : x < s => due[x] = "none"

\* server_response::send: a result nobody waits for is dropped.
send(t, kind) ==
  /\ results' = IF t \in waiting_task_ids
                   THEN [results EXCEPT ![Owner(t)] = Append(@, [t |-> t, kind |-> kind])]
                   ELSE results
  /\ UNCHANGED <<queues, waiting_task_ids, slot, batched, mpc, cur, reader>>

send_reply ==
  /\ reply # NoReply
  /\ send(reply.t, reply.kind)
  /\ reply' = NoReply
  /\ UNCHANGED due

send_of_slot(s) ==
  /\ LoopAt(s) /\ due[s] \in ResultKinds
  /\ send(slot[s].task, due[s])
  /\ due' = [due EXCEPT ![s] = IF @ = "partial" THEN "none" ELSE "release"]
  /\ UNCHANGED reply

\* server_slot::release, with its callback.
release(s) ==
  /\ LoopAt(s) /\ due[s] = "release"
  /\ slot' = [slot EXCEPT ![s] = IdleSlot]
  /\ pop_deferred_task(s)
  /\ due' = [due EXCEPT ![s] = "none"]
  /\ UNCHANGED <<reply, resp, batched, mpc, cur, reader>>

drain ==
  /\ At("drain")
  /\ \/ /\ queue_tasks = <<>>
        /\ mpc' = "update"
        /\ UNCHANGED <<queue_tasks, cur>>
     \/ /\ queue_tasks # <<>>
        /\ cur' = Head(queue_tasks)
        /\ queue_tasks' = Tail(queue_tasks)
        /\ mpc' = "process"
  /\ UNCHANGED <<queue_tasks_deferred, resp, slot, batched, agenda, reader>>

\* process_single_task: a task that needs a slot and gets none is deferred.
defer(t) ==
  /\ queue_tasks_deferred' = Append(queue_tasks_deferred, t)
  /\ UNCHANGED <<slot, agenda>>

\* get_available_slot: the slot asked for, busy or not, or some idle one.
AvailableSlots(t) ==
  IF IdSlot[t] # 0 THEN {IdSlot[t]} ELSE {s \in Slots : ~Busy(s)}

\* get_free_slots: the first idle slots other than s.
FreeSlotsBut(s) == InOrder({x \in Slots \ {s} : ~Busy(x)})

Launched(t) == [st |-> IF IsChild(t) THEN "wait_other" ELSE "started", task |-> t, turns |-> 0]

\* The first k children of t occupy the first k of the free slots.
WithChildren(t, free, k) ==
  [s \in Slots |-> IF \E i \in 1 .. k : free[i] = s
                     THEN Launched(Children[t][CHOOSE i \in 1 .. k : free[i] = s])
                     ELSE slot[s]]

\* launch_slots_with_parent_task: children first, then the task itself.
launch(t, s) ==
  LET free == FreeSlotsBut(s)
      n    == Len(Children[t])
  IN  \/ /\ slot' = [WithChildren(t, free, n) EXCEPT ![s] = Launched(t)]
         /\ UNCHANGED agenda
      \/ /\ MayFail
         /\ \E k \in 0 .. n :
              /\ slot' = WithChildren(t, free, k)
              /\ reply' = [t |-> IF k < n THEN Children[t][k + 1] ELSE t, kind |-> "error"]
              /\ due' = [x \in Slots |-> IF \E i \in 1 .. k : free[i] = x THEN "release" ELSE "none"]

process_slot_task(t) ==
  \/ /\ \A s \in AvailableSlots(t) : Busy(s)
     /\ defer(t)
  \/ \E s \in AvailableSlots(t) :
       /\ ~Busy(s)
       /\ \/ /\ Len(FreeSlotsBut(s)) < Len(Children[t])
             /\ defer(t)
          \/ /\ Len(FreeSlotsBut(s)) >= Len(Children[t])
             /\ launch(t, s)
             /\ UNCHANGED queue_tasks_deferred

\* SLOT_SAVE, SLOT_RESTORE and SLOT_ERASE need their slot idle for a moment and
\* leave it idle; METRICS, CONTROL and the LORA tasks need none.
process_slot_op(t) ==
  \/ /\ ActionSlot[t] # 0 /\ Busy(ActionSlot[t])
     /\ defer(t)
  \/ /\ ActionSlot[t] # 0 => ~Busy(ActionSlot[t])
     /\ \E kind \in {"final"} \cup (IF MayFail THEN {"error"} ELSE {}) :
          reply' = [t |-> t, kind |-> kind]
     /\ UNCHANGED <<queue_tasks_deferred, slot, due>>

process_cancel(t) ==
  /\ \/ \E s \in Slots : slot[s].task = t /\ due' = [due EXCEPT ![s] = "release"]
     \/ /\ \A s \in Slots : slot[s].task # t
        /\ UNCHANGED due
  /\ UNCHANGED <<queue_tasks_deferred, slot, reply>>

process_single_task ==
  /\ At("process")
  /\ \/ /\ cur.op = "run" /\ Kind[cur.t] # "slot_op"
        /\ process_slot_task(cur.t)
     \/ /\ cur.op = "run" /\ Kind[cur.t] = "slot_op"
        /\ process_slot_op(cur.t)
     \/ /\ cur.op = "cancel"
        /\ process_cancel(cur.t)
     \/ /\ cur.op = "next"
        /\ UNCHANGED <<queue_tasks_deferred, slot, agenda>>
  /\ cur' = NextResponse
  /\ mpc' = "drain"
  /\ UNCHANGED <<queue_tasks, resp, batched, reader>>

update_slots ==
  /\ At("update")
  /\ \/ /\ \A s \in Slots : ~Busy(s)
        /\ mpc' = "wait"
        /\ UNCHANGED queue_tasks
     \/ /\ \E s \in Slots : Busy(s)
        /\ queue_tasks' = Append(queue_tasks, NextResponse)
        /\ mpc' = "pre_decode"
  /\ UNCHANGED <<queue_tasks_deferred, resp, slot, batched, cur, agenda, reader>>

In(p) == {s \in Slots : slot[s].st = p}

\* can_batch_with: all slots of a batch have the same kind of task, that of the
\* generating ones if there are any.
BatchablePrompts ==
  LET ofKind(k) == {s \in In("started") : Kind[slot[s].task] = k}
  IN  IF In("generating") # {} THEN {ofKind("completion")}
      ELSE {ofKind(Kind[slot[s].task]) : s \in In("started")} \cup
             (IF In("started") = {} THEN {{}} ELSE {})

\* What becomes of a slot when the batch is put together.  A prompt may need
\* several batches; an empty one is answered at once.
PromptOutcomes(s) ==
  IF slot[s].task \in EmptyPrompt THEN {"final"}
  ELSE {"done"} \cup (IF slot[s].turns < MaxTurns THEN {"chunk"} ELSE {})
                \cup (IF MayFail THEN {"error"} ELSE {})

pre_decode ==
  /\ At("pre_decode")
  /\ \E prompts \in BatchablePrompts :
     \E full \in SUBSET (IF MayFail THEN In("generating") ELSE {}) :  \* context full
     \E outcome \in [Slots -> {"none", "error", "final", "done", "chunk"}] :
       /\ \A s \in Slots : outcome[s] \in IF s \in prompts THEN PromptOutcomes(s)
                                          ELSE IF s \in full THEN {"error"} ELSE {"none"}
       /\ slot' = [s \in Slots |->
                     CASE outcome[s] = "done"  -> [slot[s] EXCEPT !.st = "done_prompt"]
                       [] outcome[s] = "chunk" -> [slot[s] EXCEPT !.turns = @ + 1]
                       [] OTHER -> slot[s]]
       /\ batched' = In("generating") \ full
       /\ due' = [s \in Slots |-> IF outcome[s] \in {"done", "chunk"} THEN "none" ELSE outcome[s]]
       /\ mpc' = IF \/ batched' # {}
                    \/ \E s \in Slots : outcome[s] \in {"done", "chunk"}
                   THEN "decode" ELSE "wait"
  /\ UNCHANGED <<queues, resp, cur, reply, reader>>

\* Mutant: no child is activated.
decode_no_children ==
  /\ At("decode")
  /\ mpc' = "post_decode"
  /\ UNCHANGED <<queues, resp, slot, batched, cur, agenda, reader>>

\* Mutant: the slots that fail are released without an error result.
decode_silent_error ==
  /\ At("decode")
  /\ \/ /\ slot' = [s \in Slots |->
              IF \E p \in In("done_prompt") :
                   slot[s].st = "wait_other" /\ IsChildOf(slot[s].task, slot[p].task)
                THEN [slot[s] EXCEPT !.st = "done_prompt"] ELSE slot[s]]
        /\ mpc' = "post_decode"
        /\ UNCHANGED agenda
     \/ /\ MayFail
        /\ due' = [s \in Slots |-> IF Busy(s) THEN "release" ELSE "none"]
        /\ mpc' = "wait"
        /\ UNCHANGED <<slot, reply>>
  /\ UNCHANGED <<queues, resp, batched, cur, reader>>

\* decode(): it fails for all slots, or the children of a parent whose prompt
\* is done take over its state.
decode ==
  /\ At("decode")
  /\ \/ /\ slot' = [s \in Slots |->
              IF \E p \in In("done_prompt") :
                   slot[s].st = "wait_other" /\ IsChildOf(slot[s].task, slot[p].task)
                THEN [slot[s] EXCEPT !.st = "done_prompt"] ELSE slot[s]]
        /\ mpc' = "post_decode"
        /\ UNCHANGED agenda
     \/ /\ MayFail
        /\ due' = [s \in Slots |-> IF Busy(s) THEN "error" ELSE "none"]
        /\ mpc' = "wait"
        /\ UNCHANGED <<slot, reply>>
  /\ UNCHANGED <<queues, resp, batched, cur, reader>>

\* A token ends the task, or is sent if the request streams.
TokenOutcomes(s) ==
  IF Kind[slot[s].task] = "embedding" THEN {"final"}
  ELSE {"final"} \cup (IF slot[s].turns >= MaxTurns THEN {}
                       ELSE IF Owner(slot[s].task) \in Stream THEN {"partial"} ELSE {"none"})

post_decode ==
  /\ At("post_decode")
  /\ LET sampled == batched \cup In("done_prompt") IN
     \E outcome \in [Slots -> {"none", "partial", "final"}] :
       /\ \A s \in Slots : outcome[s] \in IF s \in sampled THEN TokenOutcomes(s) ELSE {"none"}
       /\ slot' = [s \in Slots |-> IF s \in sampled /\ Kind[slot[s].task] # "embedding"
                                     THEN [slot[s] EXCEPT !.st = "generating", !.turns = @ + 1]
                                     ELSE slot[s]]
       /\ due' = outcome
  /\ batched' = {}
  /\ mpc' = "wait"
  /\ UNCHANGED <<queues, resp, cur, reply, reader>>

wait_for_tasks ==
  /\ At("wait") /\ queue_tasks # <<>>
  /\ mpc' = "drain"
  /\ UNCHANGED <<queues, resp, slot, batched, cur, agenda, reader>>

-----------------------------------------------------------------------------

MainStep ==
  /\ \/ send_reply \/ \E s \in Slots : send_of_slot(s) \/ release(s)
     \/ drain \/ process_single_task \/ update_slots
     \/ pre_decode \/ decode \/ post_decode \/ wait_for_tasks
  /\ UNCHANGED load

ReaderStep(r) ==
  /\ \/ add_waiting_task_ids(r) \/ post_tasks(r) \/ next(r)
     \/ stop(r) \/ post_cancel(r)
  /\ UNCHANGED load

Next ==
  \/ MainStep
  \/ \E r \in Requests : ReaderStep(r) \/ (give_up(r) /\ UNCHANGED load)

Spec == Init /\ [][Next]_vars

\* The main thread and the workers keep running; nothing obliges a connection
\* to close.  That a task ends at all is the bound MaxTurns, n_predict or the
\* context size in the code.
Fairness == WF_vars(MainStep) /\ \A r \in Requests : WF_vars(ReaderStep(r))

FairSpec == Spec /\ Fairness

-----------------------------------------------------------------------------
(* Safety.                                                                 *)

\* How often task t is waiting, being looked at or in a slot.
Places(t) ==
  Cardinality({i \in DOMAIN queue_tasks : queue_tasks[i] = Run(t)})
  + Cardinality({i \in DOMAIN queue_tasks_deferred : queue_tasks_deferred[i] = t})
  + (IF cur = Run(t) THEN 1 ELSE 0)
  + Cardinality({s \in Slots : slot[s].task = t})

Live(t) ==
  \/ Places(t) > 0 \/ reply.t = t
  \/ \E p \in Tasks : IsChildOf(t, p) /\
       (Run(p) \in ElemsOf(queue_tasks) \/ p \in ElemsOf(queue_tasks_deferred) \/ cur = Run(p))
HasResult(r, t, kinds) == \E i \in DOMAIN results[r] : results[r][i].t = t /\ results[r][i].kind \in kinds
HasError(r) ==
  \/ \E i \in DOMAIN results[r] : results[r][i].kind = "error"
  \/ reply.kind = "error" /\ reply.t \in IdTasks(r)
  \/ \E s \in Slots : due[s] = "error" /\ slot[s].task \in IdTasks(r)

\* No task gets lost: as long as a reader waits, each of its tasks is still on
\* its way or answered, or an error that ends the whole request is.
NoSilentLoss ==
  \A r \in Requests : cpc[r] = "reading" =>
    \/ HasError(r)
    \/ \A t \in IdTasks(r) : t \in received[r] \/ HasResult(r, t, {"final"}) \/ Live(t)

\* The slot of a child waits for a prompt that its parent still processes, or
\* an error, on its way to the reader or already there, will get it cancelled.
\* ("after assigning a task, but waiting for parent slot to process prompt",
\* server-context.cpp:60.)
ChildWaitsForParent ==
  \A s \in In("wait_other") : agenda = <<NoReply, Nothing>> =>
    \/ \E p \in In("started") \cup In("done_prompt") : IsChildOf(slot[s].task, slot[p].task)
    \/ cpc[Owner(slot[s].task)] # "reading"
    \/ HasError(Owner(slot[s].task))

Cancelled(r) == cpc[r] \in {"cancelling", "gone"} /\ received[r] # IdTasks(r)

(* Liveness.                                                               *)

\* The main thread stops working with all slots idle although a task is deferred.
Stranded ==
  /\ At("wait") /\ queue_tasks = <<>>
  /\ \A s \in Slots : ~Busy(s)
  /\ queue_tasks_deferred # <<>>

\* Every request is answered, unless it is stranded: only the release of a slot
\* takes a deferred task up again (server-queue.cpp:77), and a task taken up that
\* fails to launch or was cancelled releases none.
RequestIsAnswered == \A r \in Requests : cpc[r] = "registered" ~> cpc[r] = "gone" \/ Stranded

\* A child in a slot whose parent has left its own.
Orphaned(t) ==
  \E s \in In("wait_other") : slot[s].task = t /\ ~\E p \in Slots : Busy(p) /\ IsChildOf(t, slot[p].task)

\* A request that is over does not keep places in the queues or slots, but for
\* the slot of an orphan (see AbandonedSlotsComeFree).
SlotsComeFree ==
  \A r \in Requests : cpc[r] = "gone" ~> \A t \in IdTasks(r) : Places(t) = 0 \/ Orphaned(t)

(* Statements of the documentation and the comments.                       *)

\* "defer until one slot is available" (server-queue.h:41): without failures and
\* closed connections no task is stranded.
NoStrandedTask == ~MayFail /\ ~MayGiveUp => ~Stranded

\* test_cancel_request, "make sure the slot is free" (tests/unit/test_completion.py):
\* the slots of a request whose client has gone are free again.
AbandonedSlotsComeFree ==
  \A r \in Requests : cpc[r] = "gone" ~> \A s \in Slots : slot[s].task \notin IdTasks(r)
=============================================================================
