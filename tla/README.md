# A TLA+ development of affinitywave-p100

This directory models the parts of the repository whose correctness depends on
the order of things: the task queue, the slots and the prompts of
`llama-server`, its resumable streams, its router of child processes, and, below
them, the AffinityWave wave scheduler, the submission pool of the meta backend
and the two-batch overlap of a CUDA device. TLC checks the models on small
instances; TLAPS proves central invariants for every instance.

Paths are relative to the repository. Module and action names follow the
functions they model; `PROJECT.json` gives the lines of each definition.

## 1. Inventory

### 1.1 The server (`tools/server`)

| Part | State | Operations | Meets the others through |
|---|---|---|---|
| `server_queue` (`server-queue.cpp`) | `queue_tasks`, `queue_tasks_deferred`, `running`, `sleeping`, `req_stop_sleeping`, `time_last_task` | `post`, `defer`, `pop_deferred_task`, `wait_until_no_sleep`, `terminate`, `start_loop` | one mutex and one condition variable, shared by the main thread, HTTP workers and a signal handler |
| `server_context_impl` (`server-context.cpp`) | the slots with their prompts and checkpoints, the batch, the model | `process_single_task`, `get_available_slot`, `launch_slots_with_parent_task`, `release`, `update_slots` (pre-decode, the loop over the batch, post-decode) | callbacks of `server_queue`, on the main thread; results go to `server_response` |
| `server_prompt_cache` (`server-task.cpp`) | saved prompts with their memory and checkpoints | `alloc`, `load` of the best match, `update` | the main thread only |
| `server_response`, `server_response_reader` (`server-queue.cpp`) | `waiting_task_ids`, `queue_results`; per reader `id_tasks`, `cancelled` | `send`, `recv_with_timeout`, `next`, `stop` | a second mutex, between the main thread and the workers |
| `stream_session` (`server-stream.cpp`) | `buffer`, `prefix_dropped`, `done`, `cancelled`, `stop_producer` | `append`, `read_from`, `finalize`, `cancel` | the worker that produces, the workers that read, a `DELETE` |
| `stream_session_manager`, pipes | the map from conversation id to session, a garbage collector | `create_or_replace`, `evict_and_cancel`, `gc`; `close`, `cleanup`, the destructor of a pipe | shared pointers, the `alive` flag and the cancel hook |
| `server_models` (`server-models.cpp`) | `mapping`, `stopping_models`, `is_reloading`, `need_reload` | `load`, `unload`, `unload_lru`, `load_models`, `download`, `remove`, `unload_all`, `ensure_model_ready` | a mutex, two condition variables, child processes, three threads per child |
| HTTP layer (`server-http.cpp`, `server.cpp`) | the httplib server, the order of shutdown | middleware, content provider, `clean_up` | starts the workers and joins them |

A request travels as follows. A worker waits until the server is awake,
registers the ids of its tasks with `server_response`, posts the tasks and reads
results. The main thread takes tasks from the queue, chooses a slot for each,
perhaps exchanges the slot's prompt with the prompt cache, or defers the task.
It decodes all working slots together: a starting slot keeps what its memory has
in common with the new prompt, memory that cannot go back is restored from a
checkpoint, and a decode without room is tried again in smaller parts. While a
slot works, the main thread keeps posting itself a `NEXT_RESPONSE` task. A finished slot is
released, which moves one deferred task back to the queue. A reader that stops
early posts a `CANCEL` for each of its tasks. With an `X-Conversation-Id` header
the worker also attaches a session: every chunk is copied into a ring, from
which another connection can resume, and the generation goes on when the client
leaves. In router mode the worker instead makes sure that a child process serves
the model, evicting another one if too many run, and forwards the request to it.

What is hard about it: several roles share one condition variable with
`notify_one`; the decision to sleep never looks at the slots; taking a task and
deferring it are two critical sections; results, cancels and releases cross;
children of a request wait in slots for their parent; what the server believes
to be in a slot's memory must stay true through reuse, exchange, restoration,
copying, splitting and failure; cancellation calls into another thread's response
through a flag and a copied hook; a ring forgets bytes under readers that are
between two reads; every child process is watched by threads that report by name
what may have been replaced meanwhile.

### 1.2 Below the server (`ggml-backend-meta.cpp`, `ggml-cuda`)

| Part | State | Operations |
|---|---|---|
| diagonal scheduler | the diagonal, one graph per device | corridors between adjacent lanes, graphs up to the experts, the service, the rest of the graphs; synchronization at the end of a pass |
| live expert service (`affinity-wave.cu`) | scratch buffers and six events per group and device, a copy stream per device | pack and send requests, compute, return partials, sum |
| submission pool | `seq`, `n_pending`, `spmd_job`, a mutex, two condition variables | hand a job to one worker per device and wait for all |
| two-batch overlap (`ggml-cuda.cu`) | two streams, a ring of events per stream, the call index | begin and end an eval, fence and record each call |
| expert prefetch and sorted routes (`ggml-cuda.cu`) | slots of prefetched weights with two events each; the cached sort and its staging buffers | acquire, release and issue ahead; sort, stage, upload, reuse |
| T64 repacking, benchmarks, process barrier | catalogue of repacked tensors | load-time conversion, stand-alone measurements |

The host only enqueues; streams run by themselves and are ordered by events. In
the scheduler, the cells that share a group's scratch have different home devices
on each diagonal. In the overlap, two evals of one device are in flight at a time.

### 1.3 What is left out

`PROJECT.json` lists the remaining components. Kernels, model definitions,
quantization, samplers and format conversions have no protocol, or are out of a
model checker's reach. libllama's KV cache, the ggml thread pool and the backend
scheduler are upstream code that this repository hardly changes. Vendored code,
tools, examples, bindings and data are aside.

## 2. Modules

| Module | What it is | Run |
|---|---|---|
| `ServerQueue` | the queue as a monitor: loop, idle sleep, wake-up, shutdown | `queue` |
| `ServerQueueProofs` | its theorems | |
| `ServerTasks` | tasks between readers, queue, slots and results | `tasks`, `tasks_orphan` |
| `ServerTasksProofs` | its theorems | |
| `SlotPrompts` | what slots, prompt cache and checkpoints hold; the batch and its retries | `prompts`, `prompts_pinned` |
| `StreamLog` | abstract: a log that grows until it is finished, readers get consecutive bytes | |
| `StreamRing` | the ring of a session and its readers; implements `StreamLog` | `ring` |
| `StreamRingProofs` | its theorems | |
| `StreamSession` | sessions of one conversation: attach, drain, cancel, tear down | `session`, `session_stop_after_free` |
| `StreamSessionProofs` | its theorems | |
| `Router` | `server_models` with its child processes and their threads | `router` |
| `RouterProofs` | its theorems | |
| `Wavefront` | abstract: the grid of cells and what each waits for | |
| `AffinityWave` | the scheduler and the service on streams and events; implements `Wavefront` | `wave` |
| `AffinityWaveProofs` | its theorems | |
| `ForkJoin` | abstract: rounds in which everyone does one share | |
| `SubmitPool` | the submission pool; implements `ForkJoin` | `pool` |
| `SubmitPoolProofs` | its theorems | |
| `Streams` | streams and events of one device | |
| `TwoBatch` | two-batch overlap, prefetch and sorted routes, on `Streams` | `twobatch` |
| `TwoBatchProofs` | its theorems | |
| `MC...` | constants of the instances | |

The modules share no variables. They meet where one hands over to another:
`ServerTasks` refines what a task of `ServerQueue` is (there a number of
iterations) and `SlotPrompts` what an iteration of `ServerTasks` does (there a
choice among its outcomes); `StreamSession` appends to what `StreamRing` models;
`AffinityWave` dispatches its diagonals through what `SubmitPool` models.

Definitions marked "Mutant" restate one definition with a plausible bug, next
to it. They take no part in a specification; each shows that a property notices
the bug.

## 3. The models and what they show

### 3.1 ServerQueue

One action is one critical section of `mutex_tasks`. The condition variable is
the set `waitset` of blocked threads; `NotifyOne` picks any of them,
`Spurious` wakes any. The mutex itself is a variable only because the main
thread keeps it while it unloads and reloads the model. `mpc` follows
`start_loop`: drain, process, update, decode, touch (`time_last_task`), wait,
idle (`wait_for`), unloading, asleep, reloading. The clock is the flag `idle`:
`idle_sleep_ms` have passed. What slots do is a number of decode iterations.
`signal_handler` is the handler's entry, on a thread of its own or on the main
thread, at any time; `terminate` is the moment it gets the mutex.

`queue` (3 workers, tasks of up to 2 iterations):

- `NoLostWakeup`: the main thread is never blocked in the idle wait while there
  is a task or a shutdown. It holds although workers wait on the same condition
  variable, because they do so only while the server is asleep.
- `SleepsOnlyWhenQuiet`: falling asleep with a working slot is prevented only by
  the `NEXT_RESPONSE` task.
- `SleeperIsWoken`, `TaskIsAnswered`: both under `[]NoneInFlight`, that is unless
  the server falls asleep while a worker is between its look at `sleeping` and its
  post, or was woken and has not run yet. Without the condition TLC finds the
  race: the worker posts into a sleeping server that does not look at its queue
  until somebody else wakes it, although `tools/server/README.md:1991` says "any
  new incoming task will automatically trigger the model to reload"; and a worker
  that was woken but is not scheduled for a whole idle period blocks again.
- `ShutdownUnblocksLoop` (`server.cpp:409`): for a handler on a thread of its own
  and a loop that runs. Without these conditions TLC finds two more
  counterexamples. A handler that interrupts the main thread while it reloads the
  model waits for the mutex its own thread holds (`server-queue.cpp:120`), and
  `start_loop` overwrites a `terminate()` that came first (`:126`). A worker in
  `wait_until_no_sleep` at shutdown is not released, because `sleeping` stays set.

Three workers are needed for a notification to go to the wrong one of several
waiters.

Fairness: the main thread and a worker that can go on do so (weak). `terminate`
is strongly fair: the main thread holds the mutex for long only around the swap
of the model, at most once per idle period. No arrival, signal, elapsing of the
idle time or spurious wake-up is assumed to happen.

### 3.2 ServerTasks

A reader goes through new, registered, reading, stopping or finished,
cancelling, gone. The main thread's steps are those of `start_loop` and
`update_slots`; since it may send and release several times within one of them
and workers run in between, these steps leave behind what is still to come: in
`reply` the result of a task that is in no slot, in `due` what the loop over the
slots still does at each of them. It is worked off first, in the order of the slots.
`release` includes its callback `pop_deferred_task`. Slots are idle,
wait_other (a child), started, done_prompt, generating. The result queue is split
by reader, which only loses the order between different readers. A task's other
completions (`n_cmpl`) are its `Children`. Every task has an id of its own, from
`get_new_id`; only a posted completion has children, and these have none
(`server-task.h:225`, `server-context.cpp:4129`, `4152`): `IdsAssumption`.

`tasks` looks at four mixes of requests on two slots: `Quiet` (a streaming
completion, one with two choices, an embedding pinned to slot 1; nothing fails),
`Faulty` (the last two, where launching and decoding may fail anywhere and any
connection may close), `FaultySlotOp` (with an operation on slot 1 in place of
the embedding) and `FailingSingles` (three single tasks, one with an empty prompt).

- `NoSilentLoss`: as long as a reader waits, each of its tasks is on its way, or
  answered, or an error is.
- `ChildWaitsForParent`: a child's slot waits for a prompt that is still processed,
  or an error is on its way.
- `NoStrandedTask`, `RequestIsAnswered`: without failures no task stays deferred
  while all slots are idle, and a request is answered unless that happens to it.
- `SlotsComeFree`: a request that is over gives up its places, except for the slot
  of an orphaned child.

Two slots and four tasks are the least with which a parent with a child, a
pinned task and a deferred one compete. `MaxTurns` bounds iterations that do
not end a task; one is enough for a slot to be reused while another still
generates. Deadlock is not checked: when all requests are gone the main thread
rightly waits. Fairness: the main thread and the readers run; no connection has
to close.

`tasks_orphan`: the main thread pops a task and defers it in two critical
sections; a `CANCEL` in between finds it in neither queue nor in a slot. With one
choice the cancelled task is decoded to its end for nobody. With two, the
`CANCEL` of the child's id is processed before the task is launched and the
parent's after, which releases the parent's slot only: the child's waits for ever,
and keeps the main thread turning with empty batches.

`NoStrandedTask` fails once a slot operation is among the deferred tasks, or one
fails or is cancelled after it was moved, which takes three requests: it takes the
one wake-up of the released slot and releases none itself, and the tasks deferred
after it wait for a release by another request (`server-queue.cpp:77`;
`server-queue.h:41` says "defer until one slot is available").

`EmptyPrompt` holds only tasks without children: an empty prompt with
`n_cmpl > 1` answers the parent before decode, and its children stay in
`wait_other` (`server-context.cpp:3116`).

### 3.3 SlotPrompts

Everything here runs on the main thread, so an action is one task, `pre_decode`,
or one view of the batch with its decode and post-decode; tasks come between two
updates. The memory of a sequence is the tokens of its attention cells (`kv`) and,
for hybrid models, the tokens its recurrent state has absorbed (`rs`); `tokens` is
what the server believes to be there. A token is a number, so memory that belongs
to another prompt is visible as such. A scenario fixes the kind of memory, whether
slots share one KV cache, whether there is a prompt cache, the tasks with the
answers they will sample, and which faults occur: no room in the KV cache, a
compute error, a failing restore. Which idle slot is least recently used, and
which queued task comes next, is a free choice.

`prompts`: two slots, prompts of two to six tokens that begin alike, a batch of 3
and a micro-batch of 2, so that a prompt takes several batches and two slots compete
for one; one token left for the last checkpoint (4 in the source), at most two
checkpoints at least two tokens apart, a cache of 12 tokens, so that old checkpoints
and entries are dropped. Its four scenarios are hybrid memory with one KV cache
without room and failing restores; a completion with two choices, a cancelled child
and compute errors; attention memory with pinned tasks and slot files; and chat
messages with a request that reuses nothing.

- `ContextIsOwn`: between two updates every slot's memory is that of its `tokens`,
  and a generating slot has its own prompt and answer before it.
- `SavedIsOwn`: a cached prompt's memory is that of its tokens, and a checkpoint
  within them is the recurrent state at its place.
- `NoAbort`: no assertion or abort is reached; above all, recurrent memory is never
  asked to forget its end only.
- `ReplyEnds`: a slot that works comes to its end, although every decode may find
  no room. Weak fairness of `pre_decode` and `decode`, the main loop; it is written
  with the guards instead of `ENABLED`, which TLC would compute from the whole
  actions. Both actions change a variable whenever their guards hold, so it is the
  same condition.

`prompts_pinned`: `get_available_slot` runs the exchange with the prompt cache on
the slot a task asks for before anybody looks whether that slot works
(`server-context.cpp:1676`, `:2406`). A generation goes on from another prompt, or,
if the restore fails, the assertion of `prompt_clear` ends the server.

The passing scenarios leave out four cases in which TLC finds the properties
violated. They were confirmed with scenarios of their own, and no statement of the
repository is about them directly:

- A checkpoint is erased if its position is past what the next prompt keeps
  (`:3346`), not if it is equal. After the prompts `<<1,2>>`, `<<3,2,2>>` on one slot,
  the checkpoint at position 0 of the first one is restored for `<<3,2,5>>`: its
  recurrent state has absorbed another token. The prompts of the run begin alike, as
  they do with a BOS token.
- Restoring a slot from a file keeps the checkpoints of the prompt before it
  (`:2609`). The run restores attention memory only.
- When a retry has split a batch, `activate` copies the memory of a parent that
  counts as done while the end of its prompt is not decoded yet (`:3681`). The run
  has no shortage where there are children.
- A pinned task on a busy slot (above): the run's pinned tasks have no prompt cache.

Not in the model: images, LoRA, draft models and speculation (a speculative batch
that is split makes `post_decode` throw, `:3715`; a failing restore of the draft
leaves a cached entry without data, `server-task.cpp:1711`), sliding windows,
context shift, `n_cache_reuse`, embeddings, prompts longer than the context, limits
in bytes.

### 3.4 StreamLog and StreamRing

A byte is its position in the stream, so skipping, repeating or mixing up bytes
is visible in what a reader was sent. `append_large` and `append_small` are the
two cases of `append`; `read_lost`, `read_bytes`, `read_end` those of
`read_from`, between which the producer may run because the reader sends
outside the mutex. `finalize` takes no lock in the code; a reader looks at
`done` only inside the lock, so setting it in the middle of an `append` is
indistinguishable from setting it after.

`ring`: cap 3, chunks of 1 to 5 bytes, 9 bytes in all, two readers starting at
0, 2 or 7. That covers chunks below, at and above the cap, a ring that wraps
several times, offsets that are dropped, current, and beyond the end. Checked:
`RingIsSuffix`, `ReadsAreContiguous`, `ImplementsLog` (in which only a reader that
has everything is told that it is complete), and `ReadersEnd` under weak fairness
of each reader, which the 200 ms limit of its wait justifies. A reader that is
overtaken by the drop is told `OFFSET_LOST`; that its client sees a response which
ends as if complete (`server-stream.cpp:446`) is beyond the module.

### 3.5 StreamSession

`ppc` follows the HTTP worker of a POST through the attachment of the session,
the loop of the content provider (to the wire, or only to the ring once the peer
is gone) and the destructor of the response in its order: `alive` off, hook
removed, reader freed, session finalized. `kpc` follows a cancelling thread:
set the flag, copy the hook, test `alive`, call `stop()`, finalize. A chunk is
the number of its result. A result may be available whenever asked for.

`session` (two POSTs and a DELETE of one conversation, two results each):
`RingComplete`, `LiveIsReachable`, `CancelledByOne`, `CancelledIsFreed`,
`AnsweredIsFinalized`. Two POSTs are the least for a session to be replaced;
with the DELETE, two threads cancel different sessions at the same time.
Fairness: the workers and the cancelling threads run; nobody is obliged to send a
result, and `CancelledIsFreed` does not need one.

`session_stop_after_free`: `README-dev.md:135` says a cancel during teardown can
never call `stop()` on a freed response. The `alive` test and the call are two
steps; the response can be freed in between.

### 3.6 Router

One action is one critical section of the mutex of `server_models`. A thread that
is joined with the mutex locked is awaited with `holder` set, which disables
everybody else; that is where the deadlocks below come from. `me` has the locals
of an HTTP thread, `child` the processes, numbered by generation, each with its
managing thread (log, clear, reap) and its stopping thread. `mapping` entries
carry the generation of their instance, so that an effect on an entry by another
process's thread is visible, while the code's reports carry only a name.
Abstracted: `last_used` (any running model may be evicted), LOADED and SLEEPING
(both run and accept requests), aliases and ports, progress.

`load_models` also loads models itself, those with load-on-startup: at the start, when it
fills an empty mapping, and those that a reload has added. `load` is one set of actions for
this and for requests: `auto` has the models that the thread in `load_models` still has to
load, and `Target` is the model it loads now. An error (a limit that was reached meanwhile,
a name that is gone) ends the request that caused the reload and leaves the rest unloaded.
`commit` puts `reloading` down before: `load` waits for it, and the comment at
`server-models.cpp:642` says so; the mutant that puts it down later is caught by `WaitsEnd`.
The count at `:480` is against `models_max` itself, so that with 0, which means no limit
elsewhere, any model to load at startup is an error; `Init` and `diff` have it so.

`router`: two models of which one may run, one loaded when it appears (at startup, if its
source is there at first, or by a reload after the edit), two HTTP threads
with any pair of the requests the routes offer (request, load, unload, reload, list,
download, remove), three processes, one crash, one edit of the sources.

- `Capacity`: however evictions, loads and crashes interleave, no more processes
  live than `--models-max`; the code counts entries in one critical section and
  spawns in another.
- `StatusTellsTruth`: a living process is the instance of a running entry, and a
  running entry has a managing thread that will report its end.
- `UpdatesOwnEntry`: an entry changes status only by what its own instance did.
- `UnloadEnds`, `WaitsEnd`, `ShutdownEnds`: a model that was asked to stop ends even
  if its process ignores it, every HTTP thread ends, shutdown ends and leaves no
  process. Fairness is that the router's threads and the children's reports do not
  all rest; a serving child need not obey. `WaitsEnd` has one exception: `unload_lru`
  waits as long as another thread has loaded the evicted model again.

The first two liveness properties are conditional on `Calm`: no download or removal,
no two reloads at a time. What TLC finds without it, and what else the model reaches:

- `remove` joins the managing thread of a downloaded model with the mutex locked, on
  the comment that the thread no longer needs it (`server-models.cpp:1204`); it does
  (`:1324`, `:995`), and both wait for ever. `load_models` joins in the same way at
  `:555`, against its own comment at `:440`.
- Two reloads at a time reach the assertion at `:560`, or lose the thread of a
  download, see below.
- A name that `unload` put into `stopping_models` after the managing thread had
  removed it stays there for the model's next process (`:1054`, `:996`).
- A download process that crashes leaves its entry DOWNLOADING (`:1010`), and two
  concurrent downloads of one name share an entry.
- `unload_all` only flags a download; `ShutdownEnds` needs, and assumes, that a
  flagged download exits.

`DownloadsLeftAlone`, that an entry which shows a download keeps its thread, is what the
comment at `server-models.cpp:536` promises ("leave them alone"). It is a theorem for
reloads that do not overlap (section 4). With three HTTP threads and one model that is
deleted from disk while it runs, TLC finds it violated in 18 states (`Handlers` of
three, `Requests` of reload and download, `MaxGen = 2`, one edit). Two reloads both stop
the model and wait for its end. The faster one erases the entry and finishes; the model
is downloaded again; the slower one then takes the thread of every entry it had stopped
by name (`:530`), the download's, and blocks until the download is complete. With four
threads two downloads of that name follow each other into one entry, the thread of the
first is never joined, and its log thread writes DOWNLOADED into the entry of the
second: `UpdatesOwnEntry` fails. The theorems of section 4 therefore have a condition,
and it excludes just this.

### 3.7 Wavefront and AffinityWave

Each device has the queues `main` and `copy`. The host's phases are `submit_pre`, the
four loops of the live service, `submit_post` and `synchronize`; each enqueues its
whole program at once, since what streams do while the host is still enqueuing they
may as well do later. The program of a phase is the set of its operations (`Corridors`,
`Graphs`, `Requests`, `Owners`, `Returns`, `Sums`, `Posts`): records that say what is
done, in which pass, on which diagonal, for which lane or group and on which device.
`On` gives the stream of an operation, `Waits` and `Records` the events around it, and
`Rank` its place in the host's loops, by which `InOrder` puts it on its stream. An event
is the operation that recorded it last (`recorded`); a wait captures that operation when
it is enqueued and is over when it has left its queue, so that waiting for an event
never recorded does not block. Buffers hold the name of the cell they were filled for.
Device steps are atomic; two conflicting operations that no event orders would be found
in one of their orders.

`wave`: 3 lanes, a recurrent layer followed by an attention layer, groups of at
most two cells, shared expert on, two passes. Three lanes and two layers give
diagonals with one and two active cells, first lanes that end while the last one
begins, groups whose homes change, and owners that are not homes; two passes
exercise what is left over from one to the next. Also checked while building,
with the same result: groups of one cell (the retained `1111` pattern), four
lanes, stagger 2.

- `SumIsOfItsCell`: every partial in a cell's sum was computed from that cell's
  request, and the shared expert worked on its input.
- `AttentionSeesEarlierLanes`, `WaveIsWhole`, `ImplementsWave`; deadlock, that is
  events waited for in a circle, is checked.

Some of the code's ordering is redundant in this model. Removing the waits of a
request for the scratch of other owners (`affinity-wave.cu:1934-1937`), or
enqueuing the corridor on the receiving stream without an event, breaks no
property: the sum of each home waits for all owners, and adjacent lanes are tied
by the corridors. Each was removed by itself, in this instance.

`RecurrentContinuesLane` states what `ARCHITECTURE.md:37` says of a recurrent layer,
that the previous lane "has published the recurrent or KV state needed by this
lane". TLC refutes it: the corridor copies the state the previous lane started from,
into a tensor that the receiving cell's graph computes again from its own cache. The
benchmark withholds its output and `STATUS.md:61` lists the corridors as not
validated, so this is not counted as a finding; it is what a validation would find.

### 3.8 ForkJoin and SubmitPool

One action is one critical section of the pool's mutex, or one share. A share is
named by the value of `seq` at its dispatch, so a closure, a slot or a status that
belongs to another dispatch is visible. A worker that finds its predicate false
unlocks and sleeps in one step, as a condition variable does.

`pool` (three workers, three dispatches of either mode whose shares may fail, then
the destructor): `JobIsAlive` (nobody runs a closure whose owner returned or
cleared `spmd_job`), `ImplementsForkJoin` (each device does its share of each round
once, rounds do not overlap, the verdict is that of these shares), `DispatchEnds`
(every dispatch returns, and the destructor joins everybody), under weak fairness of
the threads. Three dispatches let a late worker meet the next round.

### 3.9 Streams and TwoBatch

Streams are queues as in AffinityWave; an event is a place in one of them. An eval is
a sequence of `graph_compute` calls, the first of which are layers with products by
expert weights, and is plain or overlapped, with or without prefetch. `content`,
`pin` and `sorted` hold the name of what was written to them; a product that reads
something else is noted in `bad`. The streams run between any two steps of the host
thread, and its steps within a call are those between which it matters: the fence and
the state, then for each product the fetch of its weights, the wait for them, the sort
on a miss (for which the thread drains its stream), the product, and the prefetch, entry
by entry.

`twobatch`: four evals of two or four calls, two layers of two products, a ring of
three events and three prefetch slots (so calls outnumber the ring, and entries the
slots). `StateInOrder`: an eval's use of the persistent state at a call follows every
earlier eval's up to that call. `DepthTwo`: between evals at most the last one is in
flight. `WeightsAreOwn`, `SortIsOwn`: each product reads its own weights and its own
routes. Without the fence of a call `StateInOrder` fails. With a single layer
`SortIsOwn` fails, since the next eval's ids tensor is the one the cached sort is for;
the comment at `ggml-cuda.cu:3130` relies on other layers in between, which every model
has. It is the hypothesis of the theorem about `SortIsOwn`; the other three are theorems
without one (section 4).

One thread serves the device. The state is static per device (`ggml-cuda.cu:4155`), so
two backends on one device would share it; that is not modelled.

### 3.10 Findings

| Run | Code | Statement it contradicts |
|---|---|---|
| `tasks_orphan` | `server-context.cpp:2402` | `tests/unit/test_completion.py:618` |
| `session_stop_after_free` | `server-stream.cpp:375` | `tools/server/README-dev.md:135` |
| `prompts_pinned` | `server-context.cpp:1676` | comment at `server-context.cpp:2407` |

What else was seen is described in the sections above: the late post and the signal
handler (3.1), stranded tasks and children of an empty prompt (3.2), stale checkpoints
and split parents (3.3), joins under the mutex and the thread of a download that two
reloads lose (3.6), the recurrent corridor (3.7).

## 4. Theorems

The theorems hold for every value of the constants that satisfies the modules'
`ASSUME`s: distinctness of thread names, positive bounds, a positive cap, finitely
many workers.

`ServerQueueProofs`: `TypeCorrect`, `NoLostWakeupHolds`,
`SleepsOnlyWhenQuietHolds`, for any set of workers. Neither property is inductive.
`IInv` adds where the main thread may be when the server is asleep (`SleepInv`), who
may be blocked (`WaitInv`: a worker only while the server sleeps, so `notify_one` in
the idle wait cannot pick one), that working slots keep the queue non-empty up to the
wait (`BusyInv`), who keeps the mutex, and when the model may be gone. The step lemma
has one case per action.

`StreamRingProofs`: `TypeCorrect`, `RingIsCorrect` (`RingIsSuffix` and
`WithinCap`), `ReadersGetConsecutiveBytes`, `CompleteIsComplete`, and
`RingImplementsLog`: every initial state and step of the ring is one of
`StreamLog` or a stutter. The invariant is the conjunction of the properties and
of `NothingYet`, a reader that has not begun was sent nothing. The work is in
`AppendRing` (the window moves to the end and keeps the cap, in both cases) and
`ReadFact` (a read continues what was delivered), over facts about `SubSeq` and
`\o`.

`SubmitPoolProofs`: `TypeCorrect` (`n_pending` never goes below zero),
`ClosureAlive` (`JobIsAlive`) and `PoolImplementsForkJoin`, for any finite set of
workers and any number of dispatches. `IInv` says that `n_pending` counts the workers
that have not yet counted themselves off (`Counted`), to which dispatch `spmd_job` and
the slots belong (`Published`), and how far each worker is with the current dispatch
(`Progress`, `OwnShare`). Counting is what carries the proof: the evaluating thread
leaves only at zero, and a worker that runs is one of those counted.

`StreamSessionProofs`: `TypeCorrect`, `CancelledByOneHolds`, `LiveIsReachableHolds` and
`RingCompleteHolds`, for any number of POSTs, DELETEs and results. `IInv` adds that a
session some thread cancels has left the map and no other thread cancels it (`Handed`),
that a cancelling thread sets the flag before it finalizes (`Flagged`), and how far the
ring of a stream is that nobody cancelled (`Filled`): its chunks are in order, only its own
worker finalizes it, only an error stops its reader, and the worker does not leave the
content provider before the end is in the ring. The last part needs one case per point at
which the peer may go.

`RouterProofs`: for any number of models, HTTP threads and processes, and any interleaving
of their requests, `BooksAgree` (the inductive invariant), `CapacityHolds`,
`StatusTellsTruthHolds`, `UpdatesOwnEntryHolds` and `DownloadsLeftAloneHolds`. The code
reports, reaps and stops by name while entries are replaced, removed and renewed. `IInv`
says why the names are right: a model process that is not reaped, and a download that has
not reported its result, are shown by their entry (`NormalIsShown`, `DownloadIsShown`), or
a thread that keeps the mutex is just putting them there (`HolderOK`); an entry that shows
one has a thread, which whoever replaces or erases the entry joins first (`EntryOK`).
`CapacityHolds` counts: entries with a process are at most `--models-max` (`ActiveOK`), and
living processes map into them one to one.

These theorems have a hypothesis, `[]OneReload`: while somebody downloads, no two threads
are in the locked part of `load_models`. It is needed: with two reloads `DownloadsLeftAlone`
is false, and then `UpdatesOwnEntry` is (3.6); a proof attempt that did not go through led
there. `NoDownloadNoCondition` shows that the hypothesis is about
nothing else: if no request is a download, `Capacity` and `StatusTellsTruth` hold of every
behaviour, with any number of reloads at a time.

`TwoBatchProofs`: `TypeCorrect`, `StateInOrderHolds`, `DepthTwoHolds`,
`WeightsAreOwnHolds` and `SortIsOwnHolds`, for any number of evals, calls, layers,
products, ring events and prefetch slots. What the streams have still to do is
unbounded, so the invariant speaks of its possible orders. A cut is a position in each
stream at which no stream has passed a wait before the event waited for; `After(C, e, f)`
says that in every cut of `C` in which `e` is reached, `f` is. A step of a stream leaves
fewer cuts, and enqueuing operations adds none below the old ends, so what is after what
survives every step (`CutsRun`, `CutsGrown`). In these terms `IInv` says:

- `Order`: work of an eval comes after that of the evals before it, up to its call;
  the events of the ring and the end of the last eval stand for the work they are to cover
  (`Recording`, `Fence`), and at most one eval is open besides the current one (`Depth`).
- `Weights`: the last copy into a slot is what the slot table says, and comes after the
  reads of the entries the slot had before (`SlotsOK`); a product that reads a slot comes
  after the copy of its entry and before the next copy into the slot (`ReadsOwn`); the
  products about to be issued have their slots (`Acquired`).

`SortIsOwnHolds` needs `SortInv` on top, which relates the cached sort of a stream to the
sorts and products still queued (`Sorts`) and to the products made so far (`Fresh`), and the
hypothesis `SeveralLayers`: an eval runs at least two layers, as the comment at
`ggml-cuda.cu:3130` takes for granted. With one layer TLC shows it false. The invariants
were checked with TLC on the instance of 3.9, cut down, before they were proved.

`ServerTasksProofs`: `TypeCorrect`, `NoSilentLossHolds`, `ChildWaitsForParentHolds` and
`NoStrandedTaskHolds`, for any mix of requests, any number of slots and tasks, any failures
and closed connections (the last, whose property is about the absence of both, aside).
`NoSilentLoss` is not inductive. A task in a slot that is about to be released counts for it,
but is gone a step later; `Kept` counts a slot only while no release is due, and counts a
final result that is the main thread's next, so it says that a slot is released only after
its answer or for a reader that no longer waits. That this is so needs:

- `WaitingOK`: the ids of a reader that waits are registered, so `send` does not drop what
  is meant for it;
- `CancelOK`: a `CANCEL` in the queue is of a request that is over, so it takes no task from
  a reader that waits;
- `PostedOK`: only posted tasks are pending, so a child is started by its parent and by
  nothing else;
- `SlotsOK`, `BatchOK`, `CursorOK`: a slot has a task exactly while it is busy, the slots of
  a batch generate and owe nothing before `decode`, a task is in hand only while it is processed.

`ChildWaitsForParentHolds` needs `ParentsOK` on top: the parent's slot is in its prompt and owes
nothing, and after `decode` only a prompt with a chunk to go counts. Its hypothesis,
`ParentsHavePrompts`, excludes what the end of 3.2 describes, a parent with an empty
prompt; there the property is false.

`NoStrandedTaskHolds` needs `QuietInv`: without failures and closed connections no error is
sent and nothing is cancelled (`Undisturbed`), and as long as tasks are deferred some slot is
busy, or a task that takes one is in the queue or in hand (`DeferredOK`). The step that
matters is the release of a slot, which may be the last busy one: the task it moves to the
queue has to be one that takes a slot in turn, and with all slots idle it may not be deferred
again. The hypothesis `DeferredTasksTakeSlots` says both of the mixes without failures: no
request has more choices than there are slots, which the hard limit of `n_cmpl` ensures
(`server-schema.cpp:58`), and no slot operation that needs a slot is among them. The latter
is what 3.2 shows to be needed. `QuietInv` was checked with TLC on five mixes.

The order in which slots are served and tasks are taken
from the queues comes from `InOrder`, the elements of a set of numbers by size. It is
defined by rank (the element with `j` elements up to it), and `InOrderFact` shows by counting
that it lists each element once, without an induction.

`AffinityWaveProofs`: `TypeCorrect`, `SumsAreOfTheirCells`, `AttentionIsComplete`,
`WavesAreWhole` and `WaveImplementsWavefront`, for any number of lanes, layers and passes,
any set of attention layers, any stagger and size of the groups, with and without the
shared expert. The program of a pass is fixed, so the invariant speaks of a set: `Ran`, the
operations of this pass that were issued and have left their queues. `IInv` says:

- `OrderOK`: the queues hold what was issued in the order of `Less`, which is a strict
  total order on the program (`LessOrder`); the operations an entry waits for cover every
  earlier record of its events (`AwaitedOK`); hence `Ran` is `Closed`: with an operation it
  contains what is before it on its stream or recorded an event it waited for.
- `DataOK`: each buffer has a window in terms of `Ran`. A request is in an owner's scratch
  once it was copied there (`Packed`) and until the owner is done with it (`Last`), and so
  on for the activations, the partials, what came back, and the rows of a K/V cache.

That the windows of one buffer never overlap is a fact about closed sets, without any
state: the chains (`PackedChain`, `ComputeChain`, `ReturnChain`, `CorridorChain`, ...)
follow the events from an operation back to those that must have run, across diagonals
whose groups have different homes. The chain behind the reuse of a scratch goes from the
copy of a request through `output_ready` and `scratch_free` of the same group and owner, and
the one behind the received partials through `recv_free` of their group and home. A step of
a device adds one operation to `Ran`, a step of the host none. That `synchronize` waits for
the compute streams only, and that all has run then nevertheless, is `AllRan`: what the copy
streams do is waited for by a computation or a sum. The parts of `IInv` were checked with TLC
before they were proved. The model computes with sets of operations rather than folds over
sequences, so that the provers can follow it.

Only model-checked: all liveness properties, since neither fairness nor ENABLED
is within the provers' reach; everything about `SlotPrompts`, which computes with folds
and `CHOOSE` over bounded data, and whose `ContextIsOwn` holds under the exclusions of its
scenario (3.3) only; a proof would have to state these as assumptions on the code's
decisions.

The type invariant of a module is its `TypeOK` where it has one; those of the
modules with theorems are proved (in `RouterProofs` and `TwoBatchProofs` it is stated there).

## 5. Bounds

Every bound is a constant: `MaxSteps` (decode iterations of a task), `MaxTurns`
(iterations that do not end a task), `MaxChunk` and `MaxTotal` (bytes),
`MaxResults`, `Passes`, `MaxJobs` (dispatches), `MaxEvals` and `Calls`, `MaxGen`,
`MaxCrashes` and `MaxEdits` (processes, crashes and edits of a router); `CacheTokens`,
`MaxCkpts`, `MinStep` and `LastTokens` are options or literals of the source. Clients,
requests, tasks, slots, readers, lanes and layers are the sizes of sets. Requests and
sessions are used once; a client of `ServerQueue` may send any number of requests.
`Passes = 2` is one warm-up and one measured pass (the code has two and one). No
symmetry is used: instances distinguish their tasks, and liveness is checked.

## 6. Not modelled, and the plan

Abstracted in the modules: sampling, images, speculative decoding, sliding windows and
context shift; time stamps and listing of sessions, the shutdown of the garbage
collector, a `DELETE` before the session exists; error returns of the expert service,
uneven group patterns, padded tails, the tree reduction of the meta backend, graph
capture, kernels.

The share of the repository's lines that the models translate is small, and will stay
small: most of its lines are kernels of a dozen backends, model definitions, grammars,
parsers and vendored code, whose correctness is numerical or textual and is no matter
of steps and their order.

Next, in this order:

1. `SlotPrompts` with sliding windows and with draft tokens, whose rejected part has to
   leave the memory again.
2. Shutdown as a whole: `ServerQueue` with the joining of HTTP workers, and the
   handlers' reads of a model that is being unloaded (`server-context.cpp:4043`).
3. The cells of libllama's KV cache, the barrier of the CPU thread pool, the logger.

## 7. Running it

    tlc -config Q_queue.cfg MCServerQueue
    tlapm ServerQueueProofs.tla

Each run of `PROJECT.json` names its module and configuration in the same way.
The longest, `session`, `tasks` and `prompts`, take about two minutes each with two
workers.
