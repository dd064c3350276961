----------------------------- MODULE AffinityWave -----------------------------
(***************************************************************************)
(* The AffinityWave prompt benchmark: the diagonal scheduler of the meta   *)
(* backend (ggml-backend-meta.cpp) and the live expert service that it     *)
(* calls on every diagonal (ggml-cuda/affinity-wave.cu).                   *)
(*                                                                         *)
(* The host only enqueues.  Every device has a compute stream ("main") and *)
(* a copy stream ("copy"), FIFO queues that run concurrently with the host *)
(* and with each other; what orders them is CUDA events.  A wait refers to *)
(* the latest record of the event that was enqueued before it: it is over  *)
(* when the operation that recorded has run, and an event that was never   *)
(* recorded does not block.                                                *)
(*                                                                         *)
(* A buffer holds the name of the cell its contents are of, so that        *)
(* contents that were overwritten too early or read too early are seen.    *)
(* An operation on a stream is atomic: where two operations that are not   *)
(* ordered touch the same buffer, one of their orders gives a wrong name.  *)
(***************************************************************************)
EXTENDS Integers, Sequences, FiniteSets

CONSTANTS
  NLanes,         \* token lanes, one per device (n_backends, AW_GPU_COUNT: 4)
  NLayers,        \* layer cells (40)
  Attention,      \* the layers with attention; the others are recurrent
  LaneStagger,    \* GGML_CUDA_AW_LANE_STAGGER
  GroupCells,     \* GGML_CUDA_AW_GROUP_CELLS: cells the service pools
  SharedService,  \* GGML_CUDA_AW_SHARED_SERVICE
  Passes          \* warmup_passes + 1

Lanes  == 0 .. NLanes - 1
Layers == 0 .. NLayers - 1
Groups == 0 .. NLanes - 1   \* aw_live_states has a row for every group

ASSUME WaveAssumption ==
  /\ NLanes \in Nat \ {0} /\ NLayers \in Nat \ {0} /\ Passes \in Nat \ {0}
  /\ Attention \subseteq Layers
  /\ LaneStagger \in 1 .. NLayers
  /\ GroupCells \in 1 .. NLanes
  /\ SharedService \in BOOLEAN

Cells   == [pass : 1 .. Passes, lane : Lanes, layer : Layers]
NoCell  == [pass |-> 0, lane |-> 0, layer |-> 0]
Streams == {"main", "copy"} \X Lanes
Main(j) == <<"main", j>>
Copy(j) == <<"copy", j>>

Event(name, g, j) == <<name, g, j>>
Events == {"copied", "source_ready", "input_ready", "compute_done",
           "scratch_free", "output_ready", "recv_free"} \X Groups \X Lanes

-----------------------------------------------------------------------------
(* The diagonals and their groups.                                         *)

\* Mutant: all lanes start together.
LayerOf_together(d, j) == d

\* The layer of lane j on diagonal d, if it is one.
LayerOf(d, j) == d - LaneStagger * j

Active(d) == {j \in Lanes : LayerOf(d, j) \in Layers}

\* The active cells, in the order of their lanes, are cut into groups.
Position(d, j) == Cardinality({i \in Active(d) : i < j})
GroupOf(d, j)  == Position(d, j) \div GroupCells
InGroup(d, j)  == Position(d, j) % GroupCells
Members(d, g)  == {j \in Active(d) : GroupOf(d, j) = g}

\* Mutant: the diagonals of the last lanes are left out.
LastDiagonal_short == NLayers - 1

LastDiagonal == NLayers + LaneStagger * (NLanes - 1) - 1

-----------------------------------------------------------------------------
(* The program of the host.  An operation is for lane n, or group n, and   *)
(* concerns device o.                                                      *)

Kinds == {"corridor", "copied", "pre", "source", "pack", "send", "input", "compute",
          "shared", "return", "output", "sum", "post"}
Op(do, p, d, n, o) == [do |-> do, pass |-> p, diagonal |-> d, n |-> n, o |-> o]
NoOp == Op("none", 0, 0, 0, 0)
CellOf(op) == [pass |-> op.pass, lane |-> op.n, layer |-> LayerOf(op.diagonal, op.n)]

\* ggml_backend_cuda_cpy_tensor_async: state corridors between adjacent lanes, on
\* the sending lane's stream, which the receiving lane's stream then waits for.
Corridors(p, d) == LET To == Active(d) \ {0} IN
  {Op("corridor", p, d, j, j - 1) : j \in To} \cup {Op("copied", p, d, j, j) : j \in To}
\* The graphs up to the experts.
Graphs(p, d) == {Op("pre", p, d, j, j) : j \in Active(d)}

\* The request of one cell: packed on its home device, then sent to the owners.
Requests(p, d) ==
  {Op(do, p, d, j, j) : do \in {"source", "pack", "input"}, j \in Active(d)}
    \cup {Op("send", p, d, jo[1], jo[2]) : jo \in {x \in Active(d) \X Lanes : x[1] # x[2]}}

\* What the owners compute for a group; their own cells' shared experts come after.
GroupsOf(d) == {g \in Groups : Members(d, g) # {}}
Owners(p, d) ==
  {Op("compute", p, d, g, o) : g \in GroupsOf(d), o \in Lanes}
    \cup {Op("shared", p, d, j, j) : j \in {i \in Active(d) : SharedService}}

\* The partials on every owner go back to the homes of the cells.
Returns(p, d) ==
  {Op("return", p, d, j, o) : j \in Active(d), o \in Lanes}
    \cup {Op("output", p, d, g, o) : g \in GroupsOf(d), o \in Lanes}

Sums(p, d)  == {Op("sum", p, d, j, j) : j \in Active(d)}
Posts(p, d) == {Op("post", p, d, j, j) : j \in Active(d)}

On(op) == IF op.do \in {"pack", "send", "input"} THEN Copy(op.n)
          ELSE IF op.do \in {"return", "output"} THEN Copy(op.o)
          ELSE Main(op.o)

\* The events an operation waits for, and those that are recorded after it.
Free(g, o) == {Event("output_ready", g, o), Event("scratch_free", g, o)}

\* Mutant: only the first request of the group is waited for.
Inputs_first_only(d, g) == {Event("input_ready", g, j) : j \in {i \in Members(d, g) : InGroup(d, i) = 0}}

Inputs(d, g) == {Event("input_ready", g, j) : j \in Members(d, g)}

\* Mutant: the receiving lane goes on without the copy.
Copied_ignored(j) == {}

Copied(j) == {Event("copied", 0, j - 1)}

Waits(op) ==
  LET d == op.diagonal g == GroupOf(d, op.n) IN
  CASE op.do = "copied"  -> Copied(op.n)
    [] op.do = "pack"    -> {Event("source_ready", g, op.n)} \cup Free(g, op.o)
    [] op.do = "send"    -> Free(g, op.o)
    [] op.do = "compute" -> Inputs(d, op.n)
    [] op.do = "return"  -> {Event("compute_done", g, op.o), Event("recv_free", g, op.n)}
    [] op.do = "sum"     -> {Event("output_ready", g, o) : o \in Lanes}
    [] OTHER             -> {}

\* The scratch of an owner is free after its shared expert, if it has one there.
Shares(d, g, o) == SharedService /\ o \in Members(d, g)
Records(op) ==
  LET d == op.diagonal g == GroupOf(d, op.n) IN
  CASE op.do = "corridor" -> {Event("copied", 0, op.o)}
    [] op.do = "source"   -> {Event("source_ready", g, op.n)}
    [] op.do = "input"    -> {Event("input_ready", g, op.n)}
    [] op.do = "compute"  -> {Event("compute_done", op.n, op.o)} \cup
                             (IF Shares(d, op.n, op.o) THEN {} ELSE {Event("scratch_free", op.n, op.o)})
    [] op.do = "shared"   -> {Event("scratch_free", g, op.o)}
    [] op.do = "output"   -> {Event("output_ready", op.n, op.o)}
    [] op.do = "sum"      -> {Event("recv_free", g, op.n)}
    [] OTHER              -> {}

\* The place of an operation among those of its diagonal, from the nesting of the
\* host's loops: over lanes, or over groups, owners and cells.
Rank(op) ==
  LET d == op.diagonal g == GroupOf(d, op.n) IN
  CASE op.do = "corridor" -> <<0, op.n, 0, 0>>
    [] op.do = "copied"   -> <<0, op.n, 1, 0>>
    [] op.do = "pre"      -> <<1, op.n, 0, 0>>
    [] op.do = "source"   -> <<2, op.n, 0, 0>>
    [] op.do = "pack"     -> <<2, op.n, 1, 0>>
    [] op.do = "send"     -> <<2, op.n, 2, op.o>>
    [] op.do = "input"    -> <<2, op.n, 3, 0>>
    [] op.do = "compute"  -> <<3, op.n, op.o, 0>>
    [] op.do = "shared"   -> <<3, g, op.o, 1>>
    [] op.do = "return"   -> <<4, g, op.o, InGroup(d, op.n)>>
    [] op.do = "output"   -> <<4, op.n, op.o, GroupCells>>
    [] op.do = "sum"      -> <<5, op.n, 0, 0>>
    [] OTHER              -> <<6, op.n, 0, 0>>

\* The host issues x before y, within one pass.
Less(x, y) ==
  LET r == Rank(x) t == Rank(y) IN
  \/ x.diagonal < y.diagonal
  \/ /\ x.diagonal = y.diagonal
     /\ \/ r[1] < t[1]
        \/ r[1] = t[1] /\ r[2] < t[2]
        \/ r[1] = t[1] /\ r[2] = t[2] /\ r[3] < t[3]
        \/ r[1] = t[1] /\ r[2] = t[2] /\ r[3] = t[3] /\ r[4] < t[4]

\* A set of operations in the order in which they are issued.
InOrder(S) ==
  [n \in 1 .. Cardinality(S) |-> CHOOSE x \in S : Cardinality({y \in S : ~Less(x, y)}) = n]

-----------------------------------------------------------------------------
VARIABLES
  pass, diagonal, hpc,   \* the host
  queue,                 \* what is enqueued on each stream
  recorded,              \* per event: the operation that recorded it last
  kv,                    \* per lane and layer: the pass of the rows of each lane in its K/V cache
  rs,                    \* per lane and layer: the cell whose final recurrent state its cache holds
  state_in,              \* per lane and layer: the initial state its graph works on
  source,                \* per lane: activations, expert ids and weights of its cell
  request, partial,      \* per group, device and position: the service's input and result
  recv,                  \* per group and home: the partials that came in, per owner
  output, shared,        \* per lane: what its expert sum and its shared expert worked on
  seen,                  \* history, per lane: what the latest cell read of the other lanes
  executed               \* history: cells that are complete

host    == <<pass, diagonal, hpc>>
events  == <<queue, recorded>>
lanes   == <<kv, rs, state_in, source>>
service == <<request, partial, recv>>
results == <<output, shared>>
history == <<seen, executed>>
vars    == <<host, events, lanes, service, results, history>>

HostPoints == {"pre", "inputs", "owners", "outputs", "sums", "post", "sync", "done"}
Names == Cells \cup {NoCell}
\* A request has two parts, which are copied separately.
Whole(cell) == [input |-> cell, routes |-> cell]
Parts == [input : Names, routes : Names]

\* An operation, and those that have to run before it on other streams.
Operations == [do : Kinds, pass : 1 .. Passes, diagonal : 0 .. LastDiagonal, n : Lanes, o : Lanes]
Entries == [op : Operations, after : SUBSET (Operations \cup {NoOp})]

TypeOK ==
  /\ pass \in 1 .. Passes
  /\ diagonal \in 0 .. LastDiagonal + 1
  /\ hpc \in HostPoints
  /\ queue \in [Streams -> Seq(Entries)]
  /\ recorded \in [Events -> Operations \cup {NoOp}]
  /\ kv \in [Lanes -> [Layers -> [Lanes -> 0 .. Passes]]]
  /\ rs \in [Lanes -> [Layers -> Names]]
  /\ state_in \in [Lanes -> [Layers -> Names]]
  /\ source \in [Lanes -> Names]
  /\ request \in [Groups -> [Lanes -> [0 .. GroupCells - 1 -> Parts]]]
  /\ partial \in [Groups -> [Lanes -> [0 .. GroupCells - 1 -> Parts]]]
  /\ recv \in [Groups -> [Lanes -> [Lanes -> Parts]]]
  /\ output \in [Lanes -> [cell : Names, parts : [Lanes -> Parts]]]
  /\ shared \in [Lanes -> [cell : Names, input : Names]]
  /\ seen \in [Lanes -> [cell : Names, rows : [Lanes -> 0 .. Passes], state : Names]]
  /\ executed \subseteq Cells

Init ==
  /\ pass = 1 /\ diagonal = 0 /\ hpc = "pre"
  /\ queue = [s \in Streams |-> <<>>]
  /\ recorded = [e \in Events |-> NoOp]
  /\ kv = [j \in Lanes |-> [l \in Layers |-> [c \in Lanes |-> 0]]]
  /\ rs = [j \in Lanes |-> [l \in Layers |-> NoCell]]
  /\ state_in = rs
  /\ source = [j \in Lanes |-> NoCell]
  /\ request = [g \in Groups |-> [o \in Lanes |-> [i \in 0 .. GroupCells - 1 |-> Whole(NoCell)]]]
  /\ partial = request
  /\ recv = [g \in Groups |-> [j \in Lanes |-> [o \in Lanes |-> Whole(NoCell)]]]
  /\ output = [j \in Lanes |-> [cell |-> NoCell, parts |-> [o \in Lanes |-> Whole(NoCell)]]]
  /\ shared = [j \in Lanes |-> [cell |-> NoCell, input |-> NoCell]]
  /\ seen = [j \in Lanes |-> [cell |-> NoCell, rows |-> [c \in Lanes |-> 0], state |-> NoCell]]
  /\ executed = {}

-----------------------------------------------------------------------------
(* The host.                                                               *)

\* Operations are enqueued on their streams.  An operation that waits for an event
\* waits for its last record; no phase records an event after a wait for it.
enqueue(ops) ==
  /\ recorded' = [e \in Events |-> IF \E x \in ops : e \in Records(x)
                                   THEN CHOOSE x \in ops : e \in Records(x)
                                   ELSE recorded[e]]
  /\ queue' = [s \in Streams |->
       LET program == InOrder({x \in ops : On(x) = s}) IN
       queue[s] \o [i \in DOMAIN program |->
                      [op |-> program[i], after |-> {recorded'[e] : e \in Waits(program[i])}]]]

Phase(from, to, ops) ==
  /\ hpc = from
  /\ enqueue(ops)
  /\ hpc' = to
  /\ UNCHANGED <<pass, diagonal, lanes, service, results, history>>

submit_pre      == Phase("pre", "inputs", Corridors(pass, diagonal) \cup Graphs(pass, diagonal))
service_inputs  == Phase("inputs", "owners", Requests(pass, diagonal))
service_owners  == Phase("owners", "outputs", Owners(pass, diagonal))
service_outputs == Phase("outputs", "sums", Returns(pass, diagonal))
service_sums    == Phase("sums", "post", Sums(pass, diagonal))

\* The rest of the graphs; then the next diagonal.
submit_post ==
  /\ hpc = "post"
  /\ enqueue(Posts(pass, diagonal))
  /\ diagonal' = diagonal + 1
  /\ hpc' = IF diagonal = LastDiagonal THEN "sync" ELSE "pre"
  /\ UNCHANGED <<pass, lanes, service, results, history>>

\* ggml_backend_synchronize: the compute streams, not the copy streams.
synchronize ==
  /\ hpc = "sync"
  /\ \A j \in Lanes : queue[Main(j)] = <<>>
  /\ \/ /\ pass < Passes
        /\ pass' = pass + 1 /\ diagonal' = 0 /\ hpc' = "pre"
     \/ /\ pass = Passes
        /\ hpc' = "done"
        /\ UNCHANGED <<pass, diagonal>>
  /\ UNCHANGED <<events, lanes, service, results, history>>

-----------------------------------------------------------------------------
(* The devices.                                                            *)

Pending(x) == \E i \in DOMAIN queue[On(x)] : queue[On(x)][i].op = x

\* The next operation of stream s is one of kinds, what it waits for has run, and
\* it runs.
Runs(s, kinds) ==
  /\ queue[s] # <<>> /\ Head(queue[s]).op.do \in kinds
  /\ \A x \in Head(queue[s]).after : ~Pending(x)
  /\ queue' = [queue EXCEPT ![s] = Tail(@)]
  /\ UNCHANGED <<host, recorded>>

\* Operations that do nothing but wait or record.
mark(s) ==
  /\ Runs(s, {"copied", "source", "input", "output"})
  /\ UNCHANGED <<lanes, service, results, history>>

\* The K/V cache of an attention layer, or the initial states of a recurrent one.
corridor(s) ==
  /\ Runs(s, {"corridor"})
  /\ LET cell == CellOf(Head(queue[s]).op) j == cell.lane l == cell.layer IN
       \/ /\ l \in Attention
          /\ kv' = [kv EXCEPT ![j][l] = kv[j - 1][l]]
          /\ UNCHANGED state_in
       \/ /\ l \notin Attention
          /\ state_in' = [state_in EXCEPT ![j][l] = state_in[j - 1][l]]
          /\ UNCHANGED kv
  /\ UNCHANGED <<rs, source, service, results, history>>

\* Attention writes the lane's own rows and reads all.  A recurrent layer gets
\* its initial states from the lane's own cache (build_rs) and puts the final
\* ones there.
pre(s) ==
  /\ Runs(s, {"pre"})
  /\ LET cell == CellOf(Head(queue[s]).op) j == cell.lane l == cell.layer IN
       /\ \/ /\ l \in Attention
             /\ kv' = [kv EXCEPT ![j][l][j] = cell.pass]
             /\ seen' = [seen EXCEPT ![j] = [cell |-> cell, rows |-> kv'[j][l], state |-> NoCell]]
             /\ UNCHANGED <<rs, state_in>>
          \/ /\ l \notin Attention
             /\ state_in' = [state_in EXCEPT ![j][l] = rs[j][l]]
             /\ rs' = [rs EXCEPT ![j][l] = cell]
             /\ seen' = [seen EXCEPT ![j] =
                           [cell |-> cell, rows |-> [c \in Lanes |-> 0], state |-> state_in'[j][l]]]
             /\ UNCHANGED kv
       /\ source' = [source EXCEPT ![j] = cell]
  /\ UNCHANGED <<service, results, executed>>

\* Where an operation of a lane finds its scratch.
Group(op) == GroupOf(op.diagonal, op.n)
Index(op) == InGroup(op.diagonal, op.n)

pack(s) ==
  /\ Runs(s, {"pack"})
  /\ LET op == Head(queue[s]).op IN
       request' = [request EXCEPT ![Group(op)][op.n][Index(op)] = Whole(source[op.n])]
  /\ UNCHANGED <<lanes, partial, recv, results, history>>

\* The packed input, and the ids and weights where the graph put them.
send(s) ==
  /\ Runs(s, {"send"})
  /\ LET op == Head(queue[s]).op IN
       request' = [request EXCEPT ![Group(op)][op.o][Index(op)] =
                     [input |-> request[Group(op)][op.n][Index(op)].input, routes |-> source[op.n]]]
  /\ UNCHANGED <<lanes, partial, recv, results, history>>

\* The owner's partials for all cells of the group.
compute(s) ==
  /\ Runs(s, {"compute"})
  /\ LET op == Head(queue[s]).op
         rows == {InGroup(op.diagonal, j) : j \in Members(op.diagonal, op.n)}
     IN  partial' = [partial EXCEPT ![op.n][op.o] =
                       [i \in DOMAIN @ |-> IF i \in rows THEN request[op.n][op.o][i] ELSE @[i]]]
  /\ UNCHANGED <<lanes, request, recv, results, history>>

shared_expert(s) ==
  /\ Runs(s, {"shared"})
  /\ LET op == Head(queue[s]).op IN
       shared' = [shared EXCEPT ![op.o] =
                    [cell |-> CellOf(op), input |-> request[Group(op)][op.o][Index(op)].input]]
  /\ UNCHANGED <<lanes, service, output, history>>

return(s) ==
  /\ Runs(s, {"return"})
  /\ LET op == Head(queue[s]).op IN
       recv' = [recv EXCEPT ![Group(op)][op.n][op.o] = partial[Group(op)][op.o][Index(op)]]
  /\ UNCHANGED <<lanes, request, partial, results, history>>

sum_owners(s) ==
  /\ Runs(s, {"sum"})
  /\ LET op == Head(queue[s]).op IN
       output' = [output EXCEPT ![op.n] = [cell |-> CellOf(op), parts |-> recv[Group(op)][op.n]]]
  /\ UNCHANGED <<lanes, service, shared, history>>

post(s) ==
  /\ Runs(s, {"post"})
  /\ executed' = executed \cup {CellOf(Head(queue[s]).op)}
  /\ UNCHANGED <<lanes, service, results, seen>>

-----------------------------------------------------------------------------

Host ==
  \/ submit_pre \/ service_inputs \/ service_owners \/ service_outputs
  \/ service_sums \/ submit_post \/ synchronize

Device(s) ==
  \/ mark(s) \/ corridor(s) \/ pre(s) \/ pack(s) \/ send(s) \/ compute(s)
  \/ shared_expert(s) \/ return(s) \/ sum_owners(s) \/ post(s)

\* The benchmark has returned.
Terminated == hpc = "done" /\ UNCHANGED vars

Next == Host \/ (\E s \in Streams : Device(s)) \/ Terminated

Spec == Init /\ [][Next]_vars

-----------------------------------------------------------------------------
(* Properties.                                                             *)

\* A cell's expert sum adds, for every owner, the partial that this owner
\* computed from the request of this very cell, and its shared expert worked on
\* that cell's input: no scratch buffer is reused while somebody still needs it
\* and none is read before it was filled, although the groups of successive
\* diagonals have different homes.
SumIsOfItsCell ==
  \A j \in Lanes :
    /\ output[j].cell # NoCell => \A o \in Lanes : output[j].parts[o] = Whole(output[j].cell)
    /\ shared[j].input = shared[j].cell

\* "consumers wait before use": an attention cell reads the rows that every
\* earlier lane wrote in this pass.
AttentionSeesEarlierLanes ==
  \A j \in Lanes : seen[j].cell.layer \in Attention /\ seen[j].cell # NoCell =>
    \A c \in 0 .. j : seen[j].rows[c] = seen[j].cell.pass

\* A pass ends with every cell of the grid executed.
WaveIsWhole ==
  hpc = "done" \/ (hpc = "pre" /\ diagonal = 0) =>
    {c \in Cells : c.pass < pass \/ hpc = "done"} \subseteq executed

\* Cells complete in the order of their dependencies.
Wave == INSTANCE Wavefront
ImplementsWave == Wave!WaveSpec

\* "the same layer for the previous lane has published the recurrent or KV
\* state needed by this lane" (ARCHITECTURE.md:37): a recurrent cell starts
\* from the final state of the previous lane.  Not a property of a run: TLC
\* refutes it with two lanes and one recurrent layer (see the README).
RecurrentContinuesLane ==
  \A j \in Lanes \ {0} : seen[j].cell # NoCell /\ seen[j].cell.layer \notin Attention =>
    seen[j].state = [seen[j].cell EXCEPT !.lane = j - 1]
=============================================================================
