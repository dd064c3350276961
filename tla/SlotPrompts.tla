---------------------------- MODULE SlotPrompts -----------------------------
(* What the slots of tools/server keep of their prompts: the choice of a slot *)
(* for a task, the prompt cache in RAM, the reuse of a common prefix, context *)
(* checkpoints, the batch and its retries (server-context.cpp), and           *)
(* server_prompt_cache (server-task.cpp).  Everything runs on the main        *)
(* thread: it processes queued tasks, then calls update_slots; an action is   *)
(* one task, pre_decode, or one view of the batch with its post_decode.       *)
(* Memory is what libllama holds for a sequence: the tokens of the attention  *)
(* cells (kv) and the tokens its recurrent state has absorbed (rs); a slot's  *)
(* `tokens` is what the server believes to be there.                          *)
(* Abstracted: the tokens a task will sample (its answer), LRU order (any     *)
(* idle slot), the order of the queue (any task), sizes in bytes.  Left out:  *)
(* images, LoRA, draft models, SWA, context shift, n_cache_reuse, embeddings. *)
EXTENDS Integers, Sequences, FiniteSets, FiniteSetsExt, SequencesExt

CONSTANTS NSlots,       \* n_parallel
          NBatch,       \* n_batch
          NUbatch,      \* n_ubatch
          LastTokens,   \* tokens left for a last checkpoint, 4 in the source
          MinStep,      \* checkpoint_min_step
          MaxCkpts,     \* n_ctx_checkpoints
          CacheTokens,  \* bound of the prompt cache, in tokens
          Scenarios     \* configurations with the requests they get: records
                        \* [hybrid, unified, ram, tasks, cancels, calls, faults]

ASSUME SlotPromptsAssumption ==
    /\ {NSlots, NBatch, NUbatch, LastTokens, MinStep, MaxCkpts, CacheTokens} \subseteq Nat \ {0}
    /\ NSlots <= NBatch /\ NUbatch <= NBatch
    /\ \A sc \in Scenarios :
         /\ sc.calls \subseteq {"save", "restore", "erase"}
         /\ sc.faults \subseteq {"shortage", "compute", "load"}
         /\ sc.cancels \subseteq DOMAIN sc.tasks /\ 0 \notin DOMAIN sc.tasks
         /\ \A t \in DOMAIN sc.tasks : sc.tasks[t].prompt # <<>> /\ sc.tasks[t].answer # <<>>

VARIABLES sc,        \* the scenario, never changed
          slots,     \* the slots: state, task, prompt and memory
          cache,     \* prompt_cache->states, oldest first
          file,      \* what the last slot save wrote
          todo,      \* tasks in queue_tasks
          deferred,  \* tasks in queue_tasks_deferred
          cancels,   \* tasks whose client may still go away
          calls,     \* slot operations still to come
          phase,     \* "tasks", or "decode" in the loop over the batch
          batch,     \* entries [slot, tok, pos]
          off,       \* off_next: tokens of the batch that are decoded
          nb,        \* n_batch of the loop
          failed     \* an assertion or an abort was reached

vars == <<sc, slots, cache, file, todo, deferred, cancels, calls, phase, batch, off, nb, failed>>

Slots == 1..NSlots
InOrder == [i \in Slots |-> i]   \* the slots as the loops visit them
Task(t) == sc.tasks[t]
Prompt(t) == Task(t).prompt
Children(t) == Task(t).children
Launchable == {t \in DOMAIN sc.tasks : Task(t).parent = 0}

lcp(a, b) == Max({n \in 0..Min({Len(a), Len(b)}) : SubSeq(a, 1, n) = SubSeq(b, 1, n)})

Processing(sl) == sl.state # "idle"
Idle == {s \in Slots : ~Processing(slots[s])}

EmptySlot == [state |-> "idle", task |-> 0, tokens |-> <<>>, ckpts |-> <<>>,
              kv |-> <<>>, rs |-> <<>>, decoded |-> 0, ib |-> 0]

Init == /\ sc \in Scenarios
        /\ slots = [s \in Slots |-> EmptySlot]
        /\ cache = <<>> /\ file = EmptySlot
        /\ todo = Launchable /\ deferred = {}
        /\ cancels = sc.cancels /\ calls = sc.calls
        /\ phase = "tasks" /\ batch = <<>> /\ off = 0 /\ nb = NBatch /\ failed = FALSE

-----------------------------------------------------------------------------
(* The memory of a sequence                                                   *)

(* llama_memory_seq_pos_min: the one state of recurrent memory is its last.   *)
pos_min(sl) == Max({IF sl.kv = <<>> THEN -1 ELSE 0, Len(sl.rs) - 1})
pos_max(sl) == IF sc.hybrid THEN Min({Len(sl.kv), Len(sl.rs)}) - 1 ELSE Len(sl.kv) - 1

(* common_context_seq_rm(p, -1): recurrent memory cannot lose its end only,   *)
(* and the call then aborts.                                                  *)
Removable(sl, p) == p = 0 \/ Len(sl.rs) <= p
seq_rm(sl, p) == [sl EXCEPT !.kv = SubSeq(@, 1, Min({p, Len(@)})),
                            !.rs = IF p = 0 THEN <<>> ELSE @]
(* A decoded token.                                                           *)
seq_add(sl, tok) == [sl EXCEPT !.kv = Append(@, tok),
                               !.rs = IF sc.hybrid THEN Append(@, tok) ELSE @]

(* prompt_clear: the checkpoints stay.                                        *)
prompt_clear(sl) == [seq_rm(sl, 0) EXCEPT !.tokens = <<>>]

release(sl) ==
    LET freed == [sl EXCEPT !.state = "idle", !.task = 0, !.decoded = 0, !.ib = 0]
    IN IF Task(sl.task).parent # 0 THEN prompt_clear(freed) ELSE freed

(* Each release gives one deferred task back to the queue (module             *)
(* ServerTasks says which).                                                   *)
GiveBack(n) ==
    \E back \in kSubset(Min({n, Cardinality(deferred)}), deferred) :
        todo' = todo \cup back /\ deferred' = deferred \ back

-----------------------------------------------------------------------------
(* The prompt cache                                                           *)

Saved(sl) == [tokens |-> sl.tokens, ckpts |-> sl.ckpts, kv |-> sl.kv, rs |-> sl.rs]

(* server_prompt_cache::update keeps at least one entry.                      *)
Total(c) == FoldSeq(LAMBDA e, n : n + Len(e.tokens), 0, c)
update(c) ==
    SubSeq(c, Min({i \in 1..Len(c) : i = Len(c) \/ Total(SubSeq(c, i, Len(c))) <= CacheTokens}
                  \cup {Len(c) + 1}), Len(c))

(* prompt_save and server_prompt_cache::alloc                                 *)
InCache(sl, c) == \E i \in DOMAIN c : IsPrefix(sl.tokens, c[i].tokens)
prompt_save(sl, c) ==
    IF sl.tokens = <<>> \/ InCache(sl, c) THEN c
    ELSE Append(SelectSeq(c, LAMBDA e : ~IsPrefix(e.tokens, sl.tokens)), Saved(sl))

(* server_prompt_cache::load: the entry that keeps more of itself and gives   *)
(* more of the prompt than what was best so far, 0 for the slot's own.        *)
KeptBy(tokens, prompt) == <<lcp(tokens, prompt), Len(tokens)>>
Improves(a, b) == b[2] = 0 \/ (b[1] * a[2] < a[1] * b[2] /\ b[1] < a[1])
Best(sl, c, prompt) ==
    LET kept(i) == IF i = 0 THEN KeptBy(sl.tokens, prompt) ELSE KeptBy(c[i].tokens, prompt)
    IN FoldLeft(LAMBDA best, i : IF 4 * kept(i)[1] >= kept(i)[2] /\ Improves(kept(i), kept(best))
                                 THEN i ELSE best,
                0, [i \in DOMAIN c |-> i])
prompt_load(sl, c, prompt) ==
    LET i == Best(sl, c, prompt)
    IN IF i = 0 THEN [slot |-> sl, cache |-> c]
       ELSE [slot |-> [sl EXCEPT !.tokens = c[i].tokens, !.ckpts = c[i].ckpts,
                                 !.kv = c[i].kv, !.rs = c[i].rs],
             cache |-> RemoveAt(c, i)]

-----------------------------------------------------------------------------
(* Tasks                                                                      *)

(* get_available_slot: the slot asked for, else the idle slot whose prompt is *)
(* most similar, else the least recently used one; and whether its prompt is  *)
(* to be exchanged with the cache.                                            *)
Similar(t) == {s \in Idle : /\ Task(t).slot \in {0, s}
                            /\ 10 * lcp(slots[s].tokens, Prompt(t)) > Len(Prompt(t))}
MostSimilar(t) ==
    LET sim(s) == lcp(slots[s].tokens, Prompt(t))
    IN Min({s \in Similar(t) : \A o \in Similar(t) : sim(o) <= sim(s)})
Selected(t) ==
    IF Similar(t) # {}
    THEN LET s == MostSimilar(t)
         IN {<<s, 2 * lcp(slots[s].tokens, Prompt(t)) < Len(slots[s].tokens)>>}
    ELSE IF Task(t).slot # 0 THEN {<<Task(t).slot, slots[Task(t).slot].tokens # <<>>>>}
    ELSE Idle \X {TRUE}

(* The exchange with the prompt cache; `ok` is the success of a restore.      *)
Exchanged(t, s, ok) ==
    LET saved == prompt_save(slots[s], cache)
        loaded == prompt_load(slots[s], saved, Prompt(t))
    IN IF ok \/ Best(slots[s], saved, Prompt(t)) = 0
       THEN [slot |-> loaded.slot, cache |-> update(loaded.cache)]
       ELSE [slot |-> prompt_clear(slots[s]), cache |-> update(saved)]

(* launch_slot_with_task, and its use by launch_slots_with_parent_task        *)
launch(sl, t) == [sl EXCEPT !.task = t,
                            !.state = IF Task(t).parent = 0 THEN "started" ELSE "wait_other"]
ChildSlots(t, s) == {c \in Idle \ {s} : Cardinality({o \in Idle \ {s} : o < c})
                                           < Cardinality(Children(t))}
launch_all(t, s, sls) ==
    LET kids == SetToSortSeq(Children(t), <)
        free == SetToSortSeq(ChildSlots(t, s), <)
    IN [o \in Slots |-> IF o = s THEN launch(sls[o], t)
                        ELSE IF o \in ChildSlots(t, s)
                        THEN launch(sls[o], kids[CHOOSE i \in DOMAIN free : free[i] = o])
                        ELSE sls[o]]

(* cache_idle_slots: after a launch the idle slots are saved, and cleared     *)
(* when the slots share one KV cache.                                         *)
cache_idle_slots(sls, c) ==
    LET idle(s) == sc.ram /\ ~Processing(sls[s])
    IN [slots |-> [s \in Slots |-> IF idle(s) /\ sc.unified THEN prompt_clear(sls[s]) ELSE sls[s]],
        cache |-> FoldLeft(LAMBDA acc, s : IF idle(s) THEN update(prompt_save(sls[s], acc)) ELSE acc,
                           c, InOrder)]

(* process_single_task for a completion                                       *)
Completion(t) ==
    \E chosen \in Selected(t), ok \in (IF "load" \in sc.faults THEN BOOLEAN ELSE {TRUE}) :
        LET s == chosen[1]
            x == IF chosen[2] /\ sc.ram THEN Exchanged(t, s, ok) ELSE [slot |-> slots[s], cache |-> cache]
            sls == [slots EXCEPT ![s] = x.slot]
            launched == cache_idle_slots(launch_all(t, s, sls), x.cache)
        IN IF s \in Idle /\ Cardinality(ChildSlots(t, s)) = Cardinality(Children(t))
           THEN /\ slots' = launched.slots /\ cache' = launched.cache
                /\ UNCHANGED <<deferred, failed>>
           ELSE /\ slots' = sls /\ cache' = x.cache
                /\ deferred' = deferred \cup {t}
                \* prompt_clear asserts that the slot is not processing
                /\ failed' = (s \notin Idle /\ x.slot.tokens = <<>> /\ slots[s].tokens # <<>>)
process_task(t) ==
    /\ phase = "tasks" /\ ~failed /\ t \in todo
    /\ todo' = todo \ {t}
    /\ \/ Selected(t) # {} /\ Completion(t)
       \/ Selected(t) = {} /\ deferred' = deferred \cup {t} /\ UNCHANGED <<slots, cache, failed>>
    /\ UNCHANGED <<sc, file, cancels, calls, phase, batch, off, nb>>

(* SERVER_TASK_TYPE_CANCEL, and the removal of a task that waits.             *)
cancel(t) ==
    /\ phase = "tasks" /\ ~failed /\ t \in cancels
    /\ cancels' = cancels \ {t}
    /\ \/ \E s \in Slots : /\ slots[s].task = t
                           /\ slots' = [slots EXCEPT ![s] = release(@)]
                           /\ GiveBack(1)
       \/ /\ \A s \in Slots : slots[s].task # t
          /\ todo' = todo \ {t} /\ deferred' = deferred \ {t}
          /\ UNCHANGED slots
    /\ UNCHANGED <<sc, cache, file, calls, phase, batch, off, nb, failed>>

(* SERVER_TASK_TYPE_SLOT_SAVE, _RESTORE and _ERASE on an idle slot: restore   *)
(* replaces tokens and memory, and leaves the checkpoints.                    *)
slot_action(op, s) ==
    /\ phase = "tasks" /\ ~failed /\ op \in calls /\ s \in Idle
    /\ calls' = calls \ {op}
    /\ \/ op = "save" /\ file' = slots[s] /\ UNCHANGED slots
       \/ /\ op = "restore" /\ file.tokens # <<>>
          /\ slots' = [slots EXCEPT ![s] = [@ EXCEPT !.tokens = file.tokens,
                                                     !.kv = file.kv, !.rs = file.rs]]
          /\ UNCHANGED file
       \/ op = "erase" /\ slots' = [slots EXCEPT ![s] = prompt_clear(@)] /\ UNCHANGED file
    /\ UNCHANGED <<sc, cache, todo, deferred, cancels, phase, batch, off, nb, failed>>

-----------------------------------------------------------------------------
(* pre_decode: the last sampled tokens of the slots that generate, then as    *)
(* much of the other slots' prompts as the batch has room for.  ib is the     *)
(* place in the batch whose logits a slot samples, 0 for none.                *)

entries(s, tokens, n) ==
    [i \in 1..Len(tokens) - n |-> [slot |-> s, tok |-> tokens[n + i], pos |-> n + i - 1]]

Generating == {s \in Slots : slots[s].state = "generating"}
sampled(sl) == <<Task(sl.task).answer[sl.decoded]>>
handle_last_sampled_token(sl, place) == [sl EXCEPT !.tokens = @ \o sampled(sl), !.ib = place]

(* A slot that starts: what its prompt and its memory have in common with the *)
(* task is kept.  Memory that is ahead of that is taken back to a checkpoint, *)
(* or to nothing.                                                             *)
NPast(sl) == IF Task(sl.task).cache_prompt THEN lcp(sl.tokens, Prompt(sl.task)) ELSE 0
\* Mutant: a prompt that is in memory as a whole leaves no token to evaluate.
pos_min_thold_no_logits(sl) == NPast(sl)
pos_min_thold(sl) ==
    Max({0, NPast(sl) - (IF NPast(sl) < Len(Prompt(sl.task)) THEN 0 ELSE 1)})
Usable(sl) == {i \in DOMAIN sl.ckpts :
                 /\ sl.ckpts[i].pos <= NPast(sl)
                 /\ sl.ckpts[i].pos < pos_min_thold(sl) \/ sl.ckpts[i].pos = 0}
\* Mutant: the checkpoints past what is kept of the prompt are not erased.
Truncated_keeps_checkpoints(sl, n, pos_next) ==
    [sl EXCEPT !.state = "processing",
               !.tokens = SubSeq(@, 1, IF n = Len(Prompt(sl.task)) THEN n - 1 ELSE n)]
Truncated(sl, n, pos_next) ==
    [sl EXCEPT !.state = "processing",
               !.tokens = SubSeq(@, 1, IF n = Len(Prompt(sl.task)) THEN n - 1 ELSE n),
               !.ckpts = SelectSeq(@, LAMBDA c : c.pos <= pos_next)]
start(sl) ==
    IF NPast(sl) > 0 /\ pos_min(sl) >= pos_min_thold(sl)
    THEN IF Usable(sl) = {} THEN Truncated(sl, 0, 0)
         ELSE LET c == sl.ckpts[Max(Usable(sl))]
                  pos_next == Min({NPast(sl), c.pos + 1})
              IN Truncated([sl EXCEPT !.rs = c.rs], Min({pos_next, c.n}), pos_next)
    ELSE Truncated(sl, NPast(sl), NPast(sl))
(* pos_min == -1, but n_past > 0                                              *)
NoMemory(sl) == sl.state = "started" /\ NPast(sl) > 0 /\ pos_min(sl) = -1

(* The batch takes tokens up to a user message, up to the places of the last  *)
(* checkpoints, to its own end or to the end of the prompt.                   *)
LastUser(t) == Max(Task(t).users \cup {-1})
Checkpointed == sc.hybrid
StopsAt(t, n) ==
    \/ n \in Task(t).users
    \/ Checkpointed /\ \E offset \in {LastTokens + NUbatch, LastTokens} :
                          Len(Prompt(t)) = n + Min({NBatch, offset})
Filled(sl, used) ==
    LET n == Len(sl.tokens)
        last == Min({Len(Prompt(sl.task)), n + NBatch - used})
    IN Min({m \in n + 1..last : m = last \/ StopsAt(sl.task, m)})

(* A checkpoint is taken of the memory as it is before the batch is decoded.  *)
do_checkpoint(sl, n, m) ==
    /\ Checkpointed
    /\ m = Len(Prompt(sl.task)) \/ n \in Task(sl.task).users \/ Len(Prompt(sl.task)) < m + NUbatch
    /\ pos_min(sl) >= 0
    /\ \/ sl.ckpts = <<>>
       \/ n = LastUser(sl.task)
       \/ n > sl.ckpts[Len(sl.ckpts)].n + MinStep
create_checkpoint(sl, n) ==
    LET kept == SubSeq(sl.ckpts, Max({1, Len(sl.ckpts) - MaxCkpts + 2}), Len(sl.ckpts))
    IN [sl EXCEPT !.ckpts = Append(kept, [n |-> n, pos |-> pos_min(sl), rs |-> sl.rs])]

(* A slot in the loop over the slots, when `used` places of the batch are.    *)
\* Mutant: a prompt that is longer than its first batch is not gone on with.
Fills_first_batch(sl, used) == sl.state = "started" /\ used < NBatch
Fills(sl, used) == sl.state \in {"started", "processing"} /\ used < NBatch
begin(sl) == IF sl.state = "started" THEN start(sl) ELSE sl
Aborts(sl) == NoMemory(sl) \/ ~Removable(begin(sl), Len(begin(sl).tokens))
fill(sl, used) ==
    LET n == Len(sl.tokens)
        m == Filled(sl, used)
        kept == seq_rm(sl, n)
        saved == IF do_checkpoint(kept, n, m) THEN create_checkpoint(kept, n) ELSE kept
        done == m = Len(Prompt(sl.task))
    IN [saved EXCEPT !.tokens = SubSeq(Prompt(sl.task), 1, m),
                     !.state = IF done THEN "done" ELSE "processing",
                     !.ib = IF done THEN used + m - n ELSE 0]

(* The places used when the loop has gone through the first i slots.          *)
Used(sls) ==
    LET used[i \in 0..NSlots] ==
          IF i = 0 THEN Cardinality(Generating)
          ELSE LET u == used[i - 1]
               IN IF Fills(sls[i], u) THEN u + Filled(sls[i], u) - Len(sls[i].tokens) ELSE u
    IN used

(* update_slots up to its loop over the batch.  A quantifier over a singleton *)
(* names a value that TLC computes once.                                      *)
pre_decode ==
    /\ phase = "tasks" /\ ~failed /\ Idle # Slots
    /\ \E begun \in {[s \in Slots |-> begin(slots[s])]} :
       \E used \in {[s \in Slots |-> Used(begun)[s - 1]]} :
         LET filling == {s \in Slots : Fills(slots[s], used[s])}
             place(s) == Cardinality({o \in Generating : o <= s})
         IN \E new \in {[s \in Slots |->
                IF s \in filling THEN fill(begun[s], used[s])
                ELSE IF s \in Generating THEN handle_last_sampled_token(slots[s], place(s))
                ELSE slots[s]]} :
            LET batched(from, S) == FlattenSeq([s \in Slots |->
                    IF s \in S THEN entries(s, new[s].tokens, Len(from[s].tokens)) ELSE <<>>])
            IN /\ slots' = new
               /\ batch' = batched(slots, Generating) \o batched(begun, filling)
               /\ phase' = "decode"
               /\ failed' = \E s \in filling : Aborts(slots[s])
    /\ off' = 0 /\ nb' = NBatch
    /\ UNCHANGED <<sc, cache, file, todo, deferred, cancels, calls>>

-----------------------------------------------------------------------------
(* The loop over the batch                                                    *)

ViewEnd == Min({off + nb, Len(batch)})
View == off + 1..ViewEnd
Fed(s) == SelectSeq(SubSeq(batch, off + 1, ViewEnd), LAMBDA e : e.slot = s)

(* llama_decode refuses tokens that do not follow those in memory.            *)
Consecutive ==
    \A s \in Slots : Fed(s) # <<>> /\ pos_max(slots[s]) >= 0 => Fed(s)[1].pos = pos_max(slots[s]) + 1
llama_decode(sl, s) == FoldLeft(LAMBDA acc, e : seq_add(acc, e.tok), sl, Fed(s))

(* Mutant: the children get the cells of the attention cache only.            *)
copy_state_to_attention(parent, child) ==
    [child EXCEPT !.state = "done", !.tokens = parent.tokens, !.ckpts = parent.ckpts,
                  !.kv = parent.kv, !.decoded = parent.decoded, !.ib = parent.ib]
(* copy_state_to: the children of a parent that is done get its memory.       *)
copy_state_to(parent, child) ==
    [child EXCEPT !.state = "done", !.tokens = parent.tokens, !.ckpts = parent.ckpts,
                  !.kv = parent.kv, !.rs = parent.rs, !.decoded = parent.decoded, !.ib = parent.ib]
activate(sls) ==
    [s \in Slots |->
        IF sls[s].state = "wait_other" /\ \E p \in Slots : /\ sls[p].state = "done"
                                                           /\ sls[p].task = Task(sls[s].task).parent
        THEN copy_state_to(sls[CHOOSE p \in Slots : /\ sls[p].state = "done"
                                                    /\ sls[p].task = Task(sls[s].task).parent], sls[s])
        ELSE sls[s]]

(* post_decode samples for the slots whose logits are in the view.            *)
sample(sl) ==
    IF sl.ib \notin View \/ sl.state \notin {"done", "generating"} THEN sl
    ELSE IF sl.decoded + 1 = Len(Task(sl.task).answer) THEN release(sl)
    ELSE [sl EXCEPT !.state = "generating", !.decoded = @ + 1, !.ib = 0]

(* The loop over an empty batch ends at once.                                 *)
decode_ok ==
    \E decoded \in {IF batch = <<>> THEN slots
                     ELSE activate([s \in Slots |-> llama_decode(slots[s], s)])} :
       /\ slots' = [s \in Slots |-> sample(decoded[s])]
       /\ off' = ViewEnd /\ nb' = NBatch
       /\ phase' = IF ViewEnd = Len(batch) THEN "tasks" ELSE "decode"
       /\ GiveBack(Cardinality({s \in Slots : Processing(decoded[s]) /\ ~Processing(sample(decoded[s]))}))

(* An error: every slot that works is released and cleared.                   *)
decode_error ==
    /\ slots' = [s \in Slots |-> IF Processing(slots[s]) THEN prompt_clear(release(slots[s])) ELSE slots[s]]
    /\ phase' = "tasks"
    /\ GiveBack(Cardinality(Slots \ Idle))
    /\ UNCHANGED <<off, nb>>

Fatal == \/ ~Consecutive
         \/ batch # <<>> /\ ("compute" \in sc.faults \/ ("shortage" \in sc.faults /\ nb = 1))

(* No room in a KV cache that the slots share: an idle slot gives up its      *)
(* prompt, or the view gets smaller.                                          *)
Clearable == {s \in Idle : slots[s].tokens # <<>>}
decode_retry ==
    /\ IF sc.unified /\ Clearable # {}
       THEN slots' = [slots EXCEPT ![Min(Clearable)] = prompt_clear(@)] /\ UNCHANGED nb
       ELSE nb' = nb \div 2 /\ UNCHANGED slots
    /\ UNCHANGED <<off, phase, todo, deferred>>

decode ==
    /\ phase = "decode" /\ ~failed
    /\ \/ Consecutive /\ decode_ok
       \/ Fatal /\ decode_error
       \/ batch # <<>> /\ Consecutive /\ "shortage" \in sc.faults /\ nb > 1 /\ decode_retry
    /\ UNCHANGED <<sc, cache, file, cancels, calls, batch, failed>>

Next == \/ \E t \in DOMAIN sc.tasks : process_task(t) \/ cancel(t)
        \/ \E op \in calls, s \in Slots : slot_action(op, s)
        \/ pre_decode \/ decode

(* Only the main thread's loop is fair: tasks come when they come.  This is   *)
(* WF_vars(pre_decode) /\ WF_vars(decode) with the guards in the place of     *)
(* ENABLED, which TLC would compute from the whole of the two actions: both   *)
(* change the phase, off, nb or a slot whenever their guards hold.            *)
Batchable == ~failed /\ phase = "tasks" /\ Idle # Slots
Decodable == ~failed /\ phase = "decode"
Fairness == /\ []<>~Batchable \/ []<><<pre_decode>>_vars
            /\ []<>~Decodable \/ []<><<decode>>_vars
Spec == Init /\ [][Next]_vars /\ Fairness

-----------------------------------------------------------------------------
MemoryIsOf(sl, tokens) == sl.kv = tokens /\ (sc.hybrid => sl.rs = tokens)

(* Between two updates every slot's memory is that of its tokens, and a slot  *)
(* that answers has its own prompt and answer before it, whatever was reused, *)
(* restored from a checkpoint, exchanged with the cache or copied.            *)
ContextIsOwn ==
    phase = "tasks" /\ ~failed =>
        \A s \in Slots : LET sl == slots[s] IN
            /\ MemoryIsOf(sl, sl.tokens)
            /\ sl.state = "generating" =>
                 sl.tokens = Prompt(sl.task) \o SubSeq(Task(sl.task).answer, 1, sl.decoded - 1)
            /\ sl.state = "processing" => IsPrefix(sl.tokens, Prompt(sl.task))

(* What is kept for later is what it will be taken for: a cached prompt's     *)
(* memory is that of its tokens, and so is every checkpoint within them.      *)
CheckpointsAreOf(ckpts, tokens) ==
    \A i \in DOMAIN ckpts : ckpts[i].n <= Len(tokens) => ckpts[i].rs = SubSeq(tokens, 1, ckpts[i].n)
SavedIsOwn ==
    /\ \A i \in DOMAIN cache : /\ MemoryIsOf(cache[i], cache[i].tokens)
                               /\ CheckpointsAreOf(cache[i].ckpts, cache[i].tokens)
    /\ \A s \in Slots : slots[s].state \in {"processing", "done", "generating"} =>
                            CheckpointsAreOf(slots[s].ckpts, slots[s].tokens)

(* No assertion or abort of the server is reached: recurrent memory is never  *)
(* asked to forget its end only, tokens to be reused are in memory, and no    *)
(* working slot is cleared by a task that wants it.                           *)
NoAbort == ~failed

(* A slot that works comes to its end, although the KV cache may have no room *)
(* at every attempt.                                                          *)
ReplyEnds == \A s \in Slots : Processing(slots[s]) ~> ~Processing(slots[s]) \/ failed

(* What the comment at the deferral of a task for a busy slot says: the task  *)
(* is left for later, and the slot goes on with its own context.              *)
BusySlotIsLeftAlone ==
    [][\A t \in todo, s \in Slots : process_task(t) /\ Processing(slots[s]) =>
          slots'[s] = slots[s]]_vars

=============================================================================
