------------------------------ MODULE TwoBatch ------------------------------
(* One CUDA device under the meta backend while it evaluates prefill graphs  *)
(* of a mixture-of-experts model: two-batch overlap (consecutive evals       *)
(* alternate between two streams), the prefetch of all experts on a copy     *)
(* stream, and the sorted routes, which are staged in pinned memory and      *)
(* cached for the products of one layer.  The thread that serves the device  *)
(* is the only one that does.  An eval is a sequence of graph_compute calls; *)
(* call i < Layers is layer i, with Products products by expert weights, and *)
(* a later call has none.  Not here: the values, the routes, graph capture.  *)
EXTENDS Integers, Sequences

CONSTANTS MaxEvals,        \* bound: evals
          Calls,           \* bound: the numbers of calls an eval may have
          Layers, Products,
          Ring,            \* GGML_CUDA_TBO_RING
          NSlots           \* GGML_CUDA_ASYNCEP_NSLOTS

ASSUME TwoBatchAssumption ==
    /\ MaxEvals \in Nat /\ Calls \subseteq Nat \ {0}
    /\ Layers \in Nat \ {0} /\ Products \in Nat \ {0}
    /\ Ring \in Nat \ {0} /\ NSlots \in Nat \ {0}

Copy == 2                  \* copy_stream, beside the streams 0 and 1 of the backend
AllStreams == {0, 1, Copy}

VARIABLES
    eval,       \* number of evals begun, and of the current one: calls, kind
    host,       \* where the thread is
    made, m,    \* calls made in this eval, products done in this call
    ahead,      \* k: entries looked at after this product
    td,         \* ggml_cuda_tbo_devs[dev] without its events
    ev,         \* slot -> index -> event
    curr,       \* curr_stream_no
    slot_entry, ev_ready, ev_done,  \* ggml_cuda_asyncep_devs[dev]
    content,    \* slot -> the entry whose weights are in its memory
    mcache,     \* stream slot -> ids tensor and kind the cached sort is for
    pin,        \* stream slot -> the sort in pinned memory
    sorted,     \* stream slot -> the sort in device memory
    bad,        \* history: products that read wrong weights or a wrong sort
    queue, ran

INSTANCE Streams WITH Streams <- AllStreams

tboVars == <<td, ev, curr>>
prefetchVars == <<slot_entry, ev_ready, ev_done>>
memVars == <<content, sorted, bad>>
vars == <<eval, host, made, m, ahead, tboVars, prefetchVars, memVars, mcache, pin, queue, ran>>

Slots == 0 .. NSlots - 1
Entries == Layers * Products   \* registered in graph order
Lowest(a, b) == IF a < b THEN a ELSE b

NoEval == [n |-> 0, calls |-> 0, tbo |-> FALSE, big |-> FALSE]
NoSort == [ids |-> -1, big |-> FALSE]
Quiet == Idle(0) /\ Idle(1)

Init ==
    /\ eval = NoEval /\ host = "between" /\ made = 0 /\ m = 0 /\ ahead = 0
    /\ td = [active |-> FALSE, prev_was_tbo |-> FALSE, slot |-> 0, call_idx |-> 0,
             prev_count |-> 0, last_idx |-> <<-1, -1>>]
    /\ ev = [s \in {0, 1} |-> [i \in 0 .. Ring - 1 |-> Never]]
    /\ curr = 0
    /\ slot_entry = [s \in Slots |-> -1]
    /\ ev_ready = [s \in Slots |-> Never] /\ ev_done = [s \in Slots |-> Never]
    /\ content = [s \in Slots |-> -1]
    /\ mcache = [s \in {0, 1} |-> NoSort]
    /\ pin = [s \in {0, 1} |-> <<>>] /\ sorted = [s \in {0, 1} |-> <<>>]
    /\ bad = {}
    /\ StreamsInit

-----------------------------------------------------------------------------
(* The eval begins.  Two-batch overlap is for graphs that were rebuilt, the   *)
(* prefetch for evals with many tokens.                                       *)

Overlapped == [td EXCEPT !.active = TRUE, !.prev_was_tbo = TRUE, !.call_idx = 0,
                         !.prev_count = td.call_idx, !.slot = 1 - td.slot,
                         !.last_idx[td.slot + 1] = Lowest(td.call_idx, Ring) - 1]
First == [td EXCEPT !.active = TRUE, !.prev_was_tbo = TRUE, !.call_idx = 0,
                    !.prev_count = 0, !.slot = 0, !.last_idx = <<-1, -1>>]
Plain == [td EXCEPT !.active = FALSE, !.prev_was_tbo = FALSE]

\* Mutant: the boundary from overlap to plain evals does not drain the streams.
begin_eval_undrained(tbo) ==
    /\ (tbo /\ ~td.prev_was_tbo) => Quiet
    /\ td' = IF ~tbo THEN Plain ELSE IF td.prev_was_tbo THEN Overlapped ELSE First
    /\ curr' = IF tbo THEN td'.slot ELSE 0

(* Both streams are drained where evals with overlap begin and end.           *)
begin_eval(tbo) ==
    /\ tbo # td.prev_was_tbo => Quiet
    /\ td' = IF ~tbo THEN Plain ELSE IF td.prev_was_tbo THEN Overlapped ELSE First
    /\ curr' = IF tbo THEN td'.slot ELSE 0

begin ==
    /\ host = "between" /\ eval.n < MaxEvals
    /\ \E tbo, big \in BOOLEAN, calls \in Calls :
         /\ eval' = [n |-> eval.n + 1, calls |-> calls, tbo |-> tbo, big |-> big]
         /\ begin_eval(tbo)
    /\ made' = 0 /\ host' = "call"
    /\ UNCHANGED <<m, ahead, ev, prefetchVars, memVars, mcache, pin, queue, ran>>

-----------------------------------------------------------------------------
(* A call of graph_compute.                                                   *)

(* It waits for the call with the same index of the eval before.              *)
Fenced(q) ==
    IF td.active /\ td.prev_count > 0
    THEN Wait(q, curr, ev[1 - td.slot][Lowest(Lowest(td.call_idx, td.prev_count - 1), Ring - 1)])
    ELSE q

compute ==
    /\ host = "call" /\ made < eval.calls
    /\ queue' = Push(Fenced(queue), curr, [do |-> "state", eval |-> eval.n, call |-> made])
    /\ m' = 0
    /\ host' = IF made < Layers THEN "product" ELSE "record"
    /\ UNCHANGED <<eval, made, ahead, tboVars, prefetchVars, memVars, mcache, pin, ran>>

record ==
    /\ host = "record"
    /\ IF td.active
       THEN /\ ev' = [ev EXCEPT ![td.slot][Lowest(td.call_idx, Ring - 1)] = Recorded(curr, queue)]
            /\ td' = [td EXCEPT !.call_idx = @ + 1]
       ELSE UNCHANGED <<ev, td>>
    /\ made' = made + 1 /\ host' = "call"
    /\ UNCHANGED <<eval, m, ahead, curr, prefetchVars, memVars, mcache, pin, queue, ran>>

-----------------------------------------------------------------------------
(* The prefetch.                                                              *)

\* Mutant: the copy does not wait for the last read of the slot.
issue_unfenced(e) ==
    LET s == e % NSlots
        q == Push(queue, Copy, [do |-> "fill", slot |-> s, entry |-> e])
    IN  \/ slot_entry[s] = e /\ UNCHANGED <<queue, prefetchVars>>
        \/ /\ slot_entry[s] # e
           /\ queue' = q
           /\ slot_entry' = [slot_entry EXCEPT ![s] = e]
           /\ ev_ready' = [ev_ready EXCEPT ![s] = Recorded(Copy, q)]
           /\ UNCHANGED ev_done

issue(e) ==
    LET s == e % NSlots
        q == Push(Wait(queue, Copy, ev_done[s]), Copy, [do |-> "fill", slot |-> s, entry |-> e])
    IN  \/ slot_entry[s] = e /\ UNCHANGED <<queue, prefetchVars>>
        \/ /\ slot_entry[s] # e
           /\ queue' = q
           /\ slot_entry' = [slot_entry EXCEPT ![s] = e]
           /\ ev_ready' = [ev_ready EXCEPT ![s] = Recorded(Copy, q)]
           /\ UNCHANGED ev_done

Entry == made * Products + m
Slot == Entry % NSlots

(* Before the product: the entry is there, or is copied now.                  *)
acquire ==
    /\ host = "product"
    /\ \/ eval.big /\ issue(Entry) /\ host' = "ready"
       \/ ~eval.big /\ UNCHANGED <<queue, prefetchVars>> /\ host' = "multiply"
    /\ UNCHANGED <<eval, made, m, ahead, tboVars, memVars, mcache, pin, ran>>

wait_ready ==
    /\ host = "ready"
    /\ queue' = Wait(queue, curr, ev_ready[Slot])
    /\ host' = "multiply"
    /\ UNCHANGED <<eval, made, m, ahead, tboVars, prefetchVars, memVars, mcache, pin, ran>>

-----------------------------------------------------------------------------
(* The sort.  The ids tensor of a layer is the same object in each eval.      *)

Wanted == [ids |-> made, big |-> eval.big]
Sort == <<eval.n, made>>

\* Mutant: one cache and one staging buffer for both streams.
SortSlot_shared == 0

SortSlot == curr

(* The product reads the sort, and the prefetched weights if there are any.   *)
Product == [do |-> "product", eval |-> eval.n, call |-> made, sort |-> SortSlot,
            slot |-> IF eval.big THEN Slot ELSE -1, entry |-> Entry]

Advance == /\ m' = m + 1
           /\ host' = IF m' < Products THEN "product" ELSE "record"

(* After a product that read a slot, the read is marked.                      *)
Multiply(q) ==
    /\ queue' = Push(q, curr, Product)
    /\ \/ /\ eval.big
          /\ ev_done' = [ev_done EXCEPT ![Slot] = Recorded(curr, queue')]
          /\ host' = "ahead" /\ ahead' = 1
          /\ UNCHANGED m
       \/ ~eval.big /\ Advance /\ UNCHANGED <<ahead, ev_done>>
    /\ UNCHANGED <<slot_entry, ev_ready>>

Hit == mcache[SortSlot] = Wanted

mul_mat_id ==
    /\ host = "multiply"
    /\ \/ Hit /\ Multiply(queue)
       \/ ~Hit /\ host' = "drain" /\ UNCHANGED <<m, ahead, queue, prefetchVars>>
    /\ UNCHANGED <<eval, made, tboVars, memVars, mcache, pin, ran>>

(* On a miss the thread waits for the routes, which drains its stream, sorts  *)
(* them into pinned memory and has them copied to the device.                 *)
sort ==
    /\ host = "drain" /\ Idle(curr)
    /\ pin' = [pin EXCEPT ![SortSlot] = Sort]
    /\ mcache' = [mcache EXCEPT ![SortSlot] = Wanted]
    /\ Multiply(Push(queue, curr, [do |-> "upload", sort |-> SortSlot]))
    /\ UNCHANGED <<eval, made, tboVars, memVars, ran>>

(* The next entries in graph order are fetched, past the last one those of    *)
(* the next eval.                                                             *)
prefetch ==
    /\ host = "ahead"
    /\ \/ /\ ahead < NSlots
          /\ issue((Entry + ahead) % Entries)
          /\ ahead' = ahead + 1
          /\ UNCHANGED <<host, m>>
       \/ /\ ahead = NSlots
          /\ Advance
          /\ UNCHANGED <<ahead, queue, prefetchVars>>
    /\ UNCHANGED <<eval, made, tboVars, memVars, mcache, pin, ran>>

-----------------------------------------------------------------------------
\* Mutant: end_eval waits for nothing.
Bounded_not == TRUE

(* The eval before is over: all up to its last event.                         *)
Bounded == LET prev == 1 - td.slot
               last == td.last_idx[prev + 1]
           IN  td.active /\ last >= 0 => Reached(ev[prev][last])

end_eval ==
    /\ host = "call" /\ made = eval.calls
    /\ Bounded
    /\ host' = "between"
    /\ UNCHANGED <<eval, made, m, ahead, tboVars, prefetchVars, memVars, mcache, pin, queue, ran>>

(* A stream runs its next operation.                                          *)
run(s) ==
    /\ Step(s)
    /\ LET op == Head(queue[s]) IN
       /\ content' = IF op.do = "fill" THEN [content EXCEPT ![op.slot] = op.entry] ELSE content
       /\ sorted' = IF op.do = "upload" THEN [sorted EXCEPT ![op.sort] = pin[op.sort]] ELSE sorted
       /\ bad' = bad \cup (IF op.do = "product"
                           THEN (IF op.slot >= 0 /\ content[op.slot] # op.entry THEN {"weights"} ELSE {})
                                \cup (IF sorted[op.sort] # <<op.eval, op.call>> THEN {"sort"} ELSE {})
                           ELSE {})
    /\ UNCHANGED <<eval, host, made, m, ahead, tboVars, prefetchVars, mcache, pin>>

Host == begin \/ compute \/ record \/ acquire \/ wait_ready \/ mul_mat_id \/ sort \/ prefetch \/ end_eval
Next == Host \/ \E s \in AllStreams : run(s)

Spec == Init /\ [][Next]_vars

-----------------------------------------------------------------------------
NextState(s) == ~Idle(s) /\ Head(queue[s]).do = "state"

(* The KV cache and the recurrent state: call i of an eval runs after every   *)
(* call of an earlier eval with an index up to i, and a plain eval after all  *)
(* calls of earlier evals (ggml-cuda.cu:4132-4136, :4201).  Issued(k) is what evals before *)
(* k still have in the streams.                                               *)
Given(s) == {queue[s][i] : i \in DOMAIN queue[s]}
Issued(k) == {<<op.eval, op.call>> : op \in {o \in Given(0) \cup Given(1) :
                                              o.do = "state" /\ o.eval < k}}
StateInOrder ==
    \A s \in {0, 1} : NextState(s) =>
      LET op == Head(queue[s]) IN
      \A p \in Issued(op.eval) : eval.tbo /\ p[2] > op.call

(* Between evals at most the last one is still in flight: its predecessor's   *)
(* memory may be written again (:4211-4217).                                  *)
DepthTwo == host = "between" /\ td.active => Issued(eval.n) = {}

(* Every product multiplies by the weights of its own entry, whatever was     *)
(* prefetched, evicted or fetched again in between (:2927-2930).              *)
WeightsAreOwn == "weights" \notin bad

(* Every product uses the sort of the routes of its own layer and eval: the   *)
(* cache never serves a stale one, and neither the staging buffer nor the     *)
(* device's is overwritten while it is needed (:3126-3153, :3359-3362).       *)
SortIsOwn == "sort" \notin bad
=============================================================================
