-------------------------- MODULE ServerTasksProofs --------------------------
(***************************************************************************)
(* Theorems about ServerTasks for any mixes of requests, any number of     *)
(* slots and tasks.                                                        *)
(***************************************************************************)
EXTENDS ServerTasks, FunctionTheorems, FiniteSetTheorems, TLAPS

-----------------------------------------------------------------------------
(* Sequences and what is in them.                                          *)

\* InOrder lists every element of a set once.
LEMMA InOrderFact ==
  ASSUME NEW S \in SUBSET Nat, IsFiniteSet(S)
  PROVE  /\ Cardinality(S) \in Nat
         /\ InOrder(S) \in [1 .. Cardinality(S) -> S]
         /\ \A x \in S : \E j \in 1 .. Cardinality(S) : InOrder(S)[j] = x
         /\ \A i, j \in 1 .. Cardinality(S) : InOrder(S)[i] = InOrder(S)[j] => i = j
         /\ \A j \in 1 .. Cardinality(S) : Cardinality({y \in S : y <= InOrder(S)[j]}) = j
  <1> DEFINE Below(x) == {y \in S : y <= x}
             n == Cardinality(S)
             rank == [x \in S |-> Cardinality(Below(x))]
  <1>1. n \in Nat
    BY FS_CardinalityType
  <1>2. ASSUME NEW x \in S PROVE rank[x] \in 1 .. n /\ IsFiniteSet(Below(x)) /\ x \in Below(x)
    <2>1. x \in Below(x)
      BY DEF Below
    <2>2. /\ IsFiniteSet(Below(x)) /\ Cardinality(Below(x)) <= n
          /\ Cardinality(Below(x)) \in Nat /\ Cardinality(Below(x)) # 0
      BY <2>1, FS_Subset, FS_CardinalityType, FS_EmptySet
    <2>3. QED
      BY <1>1, <2>1, <2>2
  <1>3. ASSUME NEW x \in S, NEW y \in S, x < y PROVE rank[x] # rank[y]
    <2>1. Below(x) \subseteq Below(y) /\ y \in Below(y) /\ y \notin Below(x)
      <3>1. x \in Nat /\ y \in Nat /\ x < y /\ S \subseteq Nat
        BY <1>3
      <3>2. \A z \in Nat : z <= x => z <= y
        BY <3>1
      <3>3. ~(y <= x) /\ y <= y
        BY <3>1
      <3>4. QED
        BY <3>1, <3>2, <3>3
    <2>2. IsFiniteSet(Below(y)) /\ rank[x] = Cardinality(Below(x)) /\ rank[y] = Cardinality(Below(y))
      BY <1>2
    <2> HIDE DEF Below, rank
    <2>3. QED
      BY <2>1, <2>2, FS_Subset
  <1>4. \A x, y \in S : rank[x] = rank[y] => x = y
    <2>1. SUFFICES ASSUME NEW x \in S, NEW y \in S, x # y PROVE rank[x] # rank[y]
      OBVIOUS
    <2>2. x < y \/ y < x
      BY <2>1
    <2>3. QED
      BY <1>3, <2>2
  <1>5. \A j \in 1 .. n : \E x \in S : rank[x] = j
    <2>1. rank \in Injection(S, 1 .. n)
      <3>1. rank \in [S -> 1 .. n]
        BY <1>2
      <3>2. QED
        BY <1>4, <3>1, Fun_IsInj
    <2>2. IsFiniteSet(1 .. n) /\ Cardinality(1 .. n) = n
      BY <1>1, FS_Interval
    <2>3. rank \in Surjection(S, 1 .. n)
      BY <2>1, <2>2, FS_Injection
    <2>4. QED
      BY <2>3 DEF Surjection
  <1>6. ASSUME NEW j \in 1 .. n PROVE InOrder(S)[j] \in S /\ rank[InOrder(S)[j]] = j
    <2>1. InOrder(S)[j] = CHOOSE x \in S : Cardinality(Below(x)) = j
      BY DEF InOrder
    <2>2. \E x \in S : Cardinality(Below(x)) = j
      BY <1>5
    <2>3. QED
      BY <2>1, <2>2
  <1>7. InOrder(S) \in [1 .. n -> S]
    <2>1. InOrder(S) = [j \in 1 .. n |-> InOrder(S)[j]]
      BY DEF InOrder
    <2>2. QED
      BY <1>6, <2>1
  <1>8. ASSUME NEW j \in 1 .. n PROVE Cardinality({y \in S : y <= InOrder(S)[j]}) = j
    BY <1>6
  <1>9. QED
    BY <1>1, <1>2, <1>4, <1>6, <1>7, <1>8

\* A finite set of numbers has a smallest one.
LEMMA MinimumFact ==
  ASSUME NEW S \in SUBSET Nat, IsFiniteSet(S), S # {}
  PROVE  \E m \in S : \A x \in S : m <= x
  <1>1. /\ Cardinality(S) \in Nat /\ InOrder(S) \in [1 .. Cardinality(S) -> S]
        /\ \A j \in 1 .. Cardinality(S) : Cardinality({y \in S : y <= InOrder(S)[j]}) = j
    BY InOrderFact
  <1>2. 1 \in 1 .. Cardinality(S)
    BY <1>1, FS_EmptySet
  <1>3. PICK m \in S : m = InOrder(S)[1]
    BY <1>1, <1>2
  <1> DEFINE B == {y \in S : y <= m}
  <1>4. Cardinality(B) = 1 /\ IsFiniteSet(B) /\ m \in B
    <2>1. m <= m
      BY <1>3
    <2>2. B \subseteq S /\ m \in B
      BY <2>1
    <2>3. QED
      BY <1>1, <1>2, <1>3, <2>2, FS_Subset
  <1>5. PICK z : B = {z}
    <2> HIDE DEF B
    <2>1. QED
      BY <1>4, FS_Singleton
  <1>6. ASSUME NEW x \in S PROVE m <= x
    <2>1. CASE x <= m
      BY <1>4, <1>5, <2>1
    <2>2. CASE m < x
      BY <2>2
    <2>3. QED
      BY <2>1, <2>2
  <1>7. QED
    BY <1>6

\* What a sequence has are the things at its positions.
LEMMA ElemsFact ==
  ASSUME NEW T, NEW q \in Seq(T)
  PROVE  /\ ElemsOf(q) \subseteq T /\ DOMAIN q = 1 .. Len(q) /\ Len(q) \in Nat
         /\ \A i \in 1 .. Len(q) : q[i] \in ElemsOf(q)
         /\ \A x \in ElemsOf(q) : \E i \in 1 .. Len(q) : q[i] = x
         /\ ElemsOf(q) = {} <=> q = <<>>
  <1>1. DOMAIN q = 1 .. Len(q) /\ Len(q) \in Nat /\ \A i \in 1 .. Len(q) : q[i] \in T
    OBVIOUS
  <1>2. /\ \A i \in 1 .. Len(q) : q[i] \in ElemsOf(q)
        /\ \A x \in ElemsOf(q) : \E i \in 1 .. Len(q) : q[i] = x
    BY <1>1 DEF ElemsOf
  <1>3. q # <<>> => 1 \in 1 .. Len(q)
    OBVIOUS
  <1>4. q = <<>> => 1 .. Len(q) = {}
    OBVIOUS
  <1>5. QED
    BY <1>1, <1>2, <1>3, <1>4

\* Two sequences in a row have what either has, ...
LEMMA ConcatElems ==
  ASSUME NEW T, NEW p \in Seq(T), NEW q \in Seq(T)
  PROVE  p \o q \in Seq(T) /\ ElemsOf(p \o q) = ElemsOf(p) \cup ElemsOf(q)
  <1>1. PICK w : w = p \o q
    OBVIOUS
  <1>2. /\ w \in Seq(T) /\ Len(w) = Len(p) + Len(q) /\ Len(p) \in Nat /\ Len(q) \in Nat
        /\ \A i \in 1 .. Len(p) : w[i] = p[i]
        /\ \A i \in 1 .. Len(q) : w[Len(p) + i] = q[i]
    BY <1>1
  <1>a. /\ \A i \in 1 .. Len(w) : w[i] \in ElemsOf(w)
        /\ \A x \in ElemsOf(w) : \E i \in 1 .. Len(w) : w[i] = x
    BY <1>2, ElemsFact
  <1>3. ElemsOf(w) \subseteq ElemsOf(p) \cup ElemsOf(q)
    <2>1. SUFFICES ASSUME NEW i \in 1 .. Len(w) PROVE w[i] \in ElemsOf(p) \cup ElemsOf(q)
      BY <1>a
    <2>2. CASE i <= Len(p)
      BY <1>2, <2>2, ElemsFact, SMTT(60)
    <2>3. CASE i > Len(p)
      <3>1. PICK k \in 1 .. Len(q) : k = i - Len(p)
        BY <1>2, <2>3
      <3>2. w[i] = q[k]
        BY <1>2, <3>1
      <3>3. QED
        BY <3>2, ElemsFact
    <2>4. QED
      BY <1>2, <2>2, <2>3
  <1>4. ElemsOf(p) \subseteq ElemsOf(w)
    <2>1. SUFFICES ASSUME NEW i \in 1 .. Len(p) PROVE p[i] \in ElemsOf(w)
      BY ElemsFact
    <2>2. i \in 1 .. Len(w) /\ w[i] = p[i]
      BY <1>2, SMTT(90)
    <2>3. QED
      BY <1>a, <2>2
  <1>5. ElemsOf(q) \subseteq ElemsOf(w)
    <2>1. SUFFICES ASSUME NEW i \in 1 .. Len(q) PROVE q[i] \in ElemsOf(w)
      BY ElemsFact
    <2>2. PICK k \in 1 .. Len(w) : w[k] = q[i]
      <3>1. Len(p) + i \in 1 .. Len(w) /\ w[Len(p) + i] = q[i]
        BY <1>2
      <3>2. QED
        BY <3>1
    <2>3. QED
      BY <1>a, <2>2
  <1>6. QED
    BY <1>1, <1>2, <1>3, <1>4, <1>5

\* ... an extended one has what was added, ...
LEMMA AppendElems ==
  ASSUME NEW T, NEW q \in Seq(T), NEW x \in T
  PROVE  Append(q, x) \in Seq(T) /\ ElemsOf(Append(q, x)) = ElemsOf(q) \cup {x}
  <1>1. PICK one : one = <<x>>
    OBVIOUS
  <1>2. one \in Seq(T) /\ Append(q, x) = q \o one
    BY <1>1
  <1>3. ElemsOf(one) = {x}
    BY <1>1 DEF ElemsOf
  <1>4. QED
    BY <1>2, <1>3, ConcatElems

\* ... the head and the tail of a sequence have all it has, ...
LEMMA HeadElems ==
  ASSUME NEW T, NEW q \in Seq(T), q # <<>>
  PROVE  /\ Head(q) \in T /\ Tail(q) \in Seq(T)
         /\ ElemsOf(q) = {Head(q)} \cup ElemsOf(Tail(q))
  <1>1. PICK x, one, rest : x = Head(q) /\ one = <<x>> /\ rest = Tail(q)
    OBVIOUS
  <1>2. x \in T /\ rest \in Seq(T) /\ one \in Seq(T) /\ q = one \o rest
    BY <1>1
  <1>3. ElemsOf(one) = {x}
    BY <1>1 DEF ElemsOf
  <1>4. ElemsOf(one \o rest) = ElemsOf(one) \cup ElemsOf(rest)
    BY <1>2, ConcatElems
  <1>5. ElemsOf(q) = {x} \cup ElemsOf(rest)
    BY <1>2, <1>3, <1>4
  <1>6. QED
    BY <1>1, <1>2, <1>5

\* ... and so do one of its positions and what is left without it.
LEMMA WithoutElems ==
  ASSUME NEW T, NEW q \in Seq(T), NEW i \in 1 .. Len(q)
  PROVE  /\ WithoutIndex(q, i) \in Seq(T)
         /\ ElemsOf(q) = {q[i]} \cup ElemsOf(WithoutIndex(q, i))
  <1>1. PICK a, b : a = SubSeq(q, 1, i - 1) /\ b = SubSeq(q, i + 1, Len(q))
    OBVIOUS
  <1>2. /\ a \in Seq(T) /\ Len(a) = i - 1 /\ \A k \in 1 .. i - 1 : a[k] = q[k]
        /\ b \in Seq(T) /\ Len(b) = Len(q) - i /\ \A k \in 1 .. Len(q) - i : b[k] = q[i + k]
    BY <1>1, SMTT(90)
  <1>3. WithoutIndex(q, i) = a \o b /\ ElemsOf(a \o b) = ElemsOf(a) \cup ElemsOf(b) /\ a \o b \in Seq(T)
    BY <1>1, <1>2, ConcatElems, ZenonT(60) DEF WithoutIndex
  <1>4. ASSUME NEW k \in 1 .. Len(q), k # i PROVE q[k] \in ElemsOf(a) \cup ElemsOf(b)
    <2>1. CASE k < i
      <3>1. k \in 1 .. Len(a) /\ a[k] = q[k]
        BY <1>2, <2>1
      <3>2. QED
        BY <1>2, <3>1, ElemsFact
    <2>2. CASE k > i
      <3>1. k - i \in 1 .. Len(b) /\ b[k - i] = q[k]
        BY <1>2, <2>2
      <3>2. QED
        BY <1>2, <3>1, ElemsFact
    <2>3. QED
      BY <1>4, <2>1, <2>2
  <1>5. \A x \in ElemsOf(a) \cup ElemsOf(b) : x \in ElemsOf(q)
    <2>1. \A k \in 1 .. Len(a) : a[k] \in ElemsOf(q)
      BY <1>2, ElemsFact, SMTT(90)
    <2>2. ASSUME NEW k \in 1 .. Len(b) PROVE b[k] \in ElemsOf(q)
      <3>1. i + k \in 1 .. Len(q) /\ b[k] = q[i + k]
        BY <1>2, SMTT(60)
      <3>2. QED
        BY <3>1, ElemsFact
    <2>3. QED
      BY <1>2, <2>1, <2>2, ElemsFact, SMTT(90)
  <1>6. ElemsOf(q) = {q[i]} \cup ElemsOf(a) \cup ElemsOf(b)
    BY <1>4, <1>5, ElemsFact
  <1>7. QED
    BY <1>3, <1>6

\* What a sequence has at some of its positions.
LEMMA PositionsElems ==
  ASSUME NEW T, NEW q \in Seq(T), NEW S \in SUBSET (DOMAIN q)
  PROVE  /\ AtPositions(q, S) \in Seq(T)
         /\ \A x : x \in ElemsOf(AtPositions(q, S)) <=> \E i \in S : q[i] = x
  <1>1. S \subseteq 1 .. Len(q) /\ Len(q) \in Nat /\ S \in SUBSET Nat
    OBVIOUS
  <1>2. IsFiniteSet(S)
    BY <1>1, FS_Interval, FS_Subset
  <1>3. PICK f : f = InOrder(S)
    OBVIOUS
  <1>4. PICK n \in Nat : n = Cardinality(S)
    BY <1>1, <1>2, FS_CardinalityType
  <1>5. f \in [1 .. n -> S] /\ \A x \in S : \E j \in 1 .. n : f[j] = x
    BY <1>1, <1>2, <1>3, <1>4, InOrderFact
  <1>6. AtPositions(q, S) = [j \in 1 .. n |-> q[f[j]]]
    BY <1>3, <1>5 DEF AtPositions
  <1>7. \A j \in 1 .. n : q[f[j]] \in T
    BY <1>1, <1>5
  <1>8. AtPositions(q, S) \in Seq(T)
    BY <1>4, <1>6, <1>7
  <1>9. \A x : x \in ElemsOf(AtPositions(q, S)) <=> \E j \in 1 .. n : q[f[j]] = x
    BY <1>6 DEF ElemsOf
  <1>10. QED
    BY <1>5, <1>8, <1>9

-----------------------------------------------------------------------------
(* The inductive invariant.                                                *)

Begun(r) == cpc[r] \notin {"new", "registered"}
Pending(t) == Run(t) \in ElemsOf(queue_tasks) \/ t \in ElemsOf(queue_tasks_deferred) \/ cur = Run(t)
Cancelling(t) == Cancel(t) \in ElemsOf(queue_tasks) \/ cur = Cancel(t)

CursorOK == mpc # "process" => cur = NextResponse
SlotsOK ==
    \A s \in Slots :
      IF Busy(s) THEN \E r \in Requests : slot[s].task \in IdTasks(r) /\ Begun(r)
                 ELSE slot[s].task = NoTask /\ due[s] = "none"
BatchOK ==
    mpc \in {"decode", "post_decode"} => \A s \in batched : slot[s].st = "generating" /\ due[s] = "none"

\* Only what was posted is pending, and a request that is over alone is cancelled.
PostedOK == \A t \in Tasks : Pending(t) => \E r \in Requests : t \in ElemsOf(Posted[r]) /\ Begun(r)
CancelOK == \A t \in Tasks : Cancelling(t) => \E r \in Requests : t \in IdTasks(r) /\ cpc[r] = "gone"
WaitingOK ==
    \A r \in Requests : cpc[r] \in {"registered", "reading"} => IdTasks(r) \subseteq waiting_task_ids

\* A task of a reader that waits without an error is answered, or a final result
\* is the main thread's next, or it or its parent is pending, or a slot works on it.
Fine(r) == cpc[r] = "reading" /\ ~HasError(r)
Safe(r, t) ==
    \/ t \in received[r] \/ HasResult(r, t, {"final"}) \/ reply.t = t \/ Pending(t)
    \/ \E p \in Tasks : IsChildOf(t, p) /\ Pending(p)
    \/ \E s \in Slots : slot[s].task = t /\ due[s] # "release"
Kept == \A r \in Requests : Fine(r) => \A t \in IdTasks(r) : Safe(r, t)

IInv == TypeOK /\ CursorOK /\ SlotsOK /\ BatchOK /\ PostedOK /\ CancelOK /\ WaitingOK /\ Kept

\* A child waits in its slot while its parent has a prompt to process; after
\* decode this can only be a prompt with a chunk to go.
Parents == IF mpc = "post_decode" THEN {"started"} ELSE {"started", "done_prompt"}
ParentsOK ==
    \A r \in Requests : Fine(r) =>
      \A s \in Slots : slot[s].st = "wait_other" /\ slot[s].task \in IdTasks(r) =>
        \E p \in Slots : slot[p].st \in Parents /\ due[p] = "none" /\ IsChildOf(slot[s].task, slot[p].task)

-----------------------------------------------------------------------------
(* Requests and their tasks.                                               *)

\* The parts of the load have their types.
LEMMA LoadFact ==
  ASSUME load \in Loads
  PROVE  /\ Posted \in [Requests -> Seq(Tasks)] /\ Children \in [Tasks -> Seq(Tasks)]
         /\ Kind \in [Tasks -> Kinds] /\ IdSlot \in [Tasks -> 0 .. NSlots]
         /\ ActionSlot \in [Tasks -> 0 .. NSlots] /\ EmptyPrompt \subseteq Tasks
  BY LoadsAssumption DEF Posted, Children, Kind, IdSlot, ActionSlot, EmptyPrompt

\* No two requests or parents share a task, and children have no children.
LEMMA IdsFact ==
  ASSUME load \in Loads
  PROVE  /\ \A r, q \in Requests : r # q => ElemsOf(Posted[r]) \cap ElemsOf(Posted[q]) = {}
         /\ \A p, q \in Tasks : p # q => ElemsOf(Children[p]) \cap ElemsOf(Children[q]) = {}
         /\ \A r \in Requests : \A p \in Tasks : ElemsOf(Posted[r]) \cap ElemsOf(Children[p]) = {}
         /\ \A p \in Tasks : Children[p] # <<>> =>
              Kind[p] = "completion" /\ \A c \in ElemsOf(Children[p]) : Children[c] = <<>>
  BY IdsAssumption DEF Posted, Children, Kind, ElemsOf

\* The tasks of a request are those it posts and their children.
LEMMA TasksFact ==
  ASSUME load \in Loads, NEW r \in Requests
  PROVE  /\ IdTasks(r) \subseteq Tasks /\ ElemsOf(Posted[r]) \subseteq IdTasks(r)
         /\ \A p \in ElemsOf(Posted[r]) : ElemsOf(Children[p]) \subseteq IdTasks(r)
         /\ \A t \in IdTasks(r) : t \in ElemsOf(Posted[r]) \/ \E p \in ElemsOf(Posted[r]) : t \in ElemsOf(Children[p])
  <1>1. Posted[r] \in Seq(Tasks) /\ \A p \in Tasks : Children[p] \in Seq(Tasks)
    BY LoadFact
  <1>2. ElemsOf(Posted[r]) \subseteq Tasks /\ \A p \in Tasks : ElemsOf(Children[p]) \subseteq Tasks
    BY <1>1, ElemsFact
  <1>3. QED
    BY <1>2 DEF IdTasks

\* A task belongs to one request, which is that of its parent.
LEMMA OwnerFact ==
  ASSUME load \in Loads, NEW r \in Requests, NEW t \in IdTasks(r)
  PROVE  /\ \A q \in Requests : t \in IdTasks(q) => q = r
         /\ Owner(t) = r /\ t \in Tasks
         /\ \A p \in Tasks, q \in Requests : IsChildOf(t, p) /\ p \in ElemsOf(Posted[q]) => q = r
  <1>1. ASSUME NEW q \in Requests, t \in IdTasks(q) PROVE q = r
    <2>1. PICK x \in ElemsOf(Posted[r]) : t = x \/ t \in ElemsOf(Children[x])
      BY TasksFact
    <2>2. PICK y \in ElemsOf(Posted[q]) : t = y \/ t \in ElemsOf(Children[y])
      BY <1>1, TasksFact
    <2>3. x \in Tasks /\ y \in Tasks
      BY <2>1, <2>2, TasksFact
    <2>4. x = y
      BY <2>1, <2>2, <2>3, IdsFact
    <2>5. QED
      BY <2>1, <2>2, <2>4, IdsFact
  <1>2. Owner(t) = r
    BY <1>1 DEF Owner
  <1>3. \A p \in Tasks, q \in Requests : IsChildOf(t, p) /\ p \in ElemsOf(Posted[q]) => t \in IdTasks(q)
    BY TasksFact DEF IsChildOf
  <1>4. QED
    BY <1>1, <1>2, <1>3, TasksFact

\* The load never changes, nor does what is defined by it alone.
LEMMA LoadKept ==
  ASSUME load' = load
  PROVE  /\ Posted' = Posted /\ Children' = Children /\ Kind' = Kind /\ EmptyPrompt' = EmptyPrompt
         /\ \A r : IdTasks(r)' = IdTasks(r)
         /\ \A c, p : IsChildOf(c, p)' <=> IsChildOf(c, p)
  <1>1. Posted' = Posted /\ Children' = Children /\ Kind' = Kind /\ EmptyPrompt' = EmptyPrompt
    BY DEF Posted, Children, Kind, EmptyPrompt
  <1>2. QED
    BY <1>1 DEF IdTasks, IsChildOf

\* The entries of the queue can be told apart.
LEMMA RecordFact ==
  /\ \A t, u : Run(t) = Run(u) => t = u
  /\ \A t, u : Cancel(t) = Cancel(u) => t = u
  /\ \A t, u : Run(t) # Cancel(u)
  /\ \A t : Run(t) # NextResponse /\ Cancel(t) # NextResponse
  /\ \A t \in Tasks : Run(t) \in QueueElems /\ Cancel(t) \in QueueElems
  /\ NextResponse \in QueueElems
  BY DEF Run, Cancel, NextResponse, QueueElems

-----------------------------------------------------------------------------
(* Steps of the readers.                                                   *)

\* A step of reader r leaves the main thread and the other readers alone.
LEMMA ReaderFrame ==
  ASSUME IInv, NEW r \in Requests, TypeOK',
         UNCHANGED <<load, slot, batched, mpc, cur, agenda>>,
         \A q \in Requests : q # r =>
           cpc'[q] = cpc[q] /\ results'[q] = results[q] /\ received'[q] = received[q],
         Begun(r) => Begun(r)'
  PROVE  /\ CursorOK' /\ SlotsOK' /\ BatchOK'
         /\ \A q \in Requests : Begun(q) => Begun(q)'
         /\ \A q \in Requests : q # r => (Fine(q)' <=> Fine(q))
  <1>1. load \in Loads /\ slot' = slot /\ due' = due /\ reply' = reply /\ mpc' = mpc /\ cur' = cur /\ batched' = batched
    BY DEF IInv, TypeOK, agenda
  <1>2. \A q : IdTasks(q)' = IdTasks(q)
    BY LoadKept
  <1>3. \A q \in Requests : Begun(q) => Begun(q)'
    BY DEF Begun
  <1>4. CursorOK'
    BY <1>1 DEF IInv, CursorOK
  <1>5. SlotsOK'
    BY <1>1, <1>2, <1>3 DEF IInv, SlotsOK, Busy
  <1>6. BatchOK'
    BY <1>1 DEF IInv, BatchOK
  <1>7. ASSUME NEW q \in Requests, q # r PROVE Fine(q)' <=> Fine(q)
    BY <1>1, <1>2, <1>7 DEF Fine, HasError
  <1>8. QED
    BY <1>3, <1>4, <1>5, <1>6, <1>7

\* A step of reader r keeps the promise to all readers, if it does so for r and takes
\* no pending task from the others.
LEMMA ReaderKept ==
  ASSUME IInv, NEW r \in Requests,
         UNCHANGED <<load, slot, batched, mpc, cur, agenda>>,
         \A q \in Requests : q # r =>
           cpc'[q] = cpc[q] /\ results'[q] = results[q] /\ received'[q] = received[q],
         \A q \in Requests : q # r => (Fine(q)' <=> Fine(q)),
         \A q \in Requests : q # r => \A t \in IdTasks(q) : Pending(t) => Pending(t)',
         Fine(r)' => \A t \in IdTasks(r) : Safe(r, t)'
  PROVE  Kept'
  <1>1. load \in Loads /\ slot' = slot /\ due' = due /\ reply' = reply /\ PostedOK /\ Kept
    BY DEF IInv, TypeOK, agenda
  <1>2. /\ \A q : IdTasks(q)' = IdTasks(q)
        /\ \A c, p : IsChildOf(c, p)' <=> IsChildOf(c, p)
    BY LoadKept
  <1>3. ASSUME NEW q \in Requests, q # r, Fine(q), NEW t \in IdTasks(q) PROVE Safe(q, t)'
    <2>1. Safe(q, t)
      BY <1>1, <1>3 DEF Kept
    <2>2. ASSUME NEW p \in Tasks, IsChildOf(t, p), Pending(p) PROVE Pending(p)'
      <3>1. PICK o \in Requests : p \in ElemsOf(Posted[o])
        BY <1>1, <2>2 DEF PostedOK
      <3>2. o = q /\ p \in IdTasks(q)
        BY <1>1, <2>2, <3>1, OwnerFact, TasksFact
      <3>3. QED
        BY <1>3, <2>2, <3>2
    <2>3. HasResult(q, t, {"final"})' <=> HasResult(q, t, {"final"})
      BY <1>3 DEF HasResult
    <2>4. Pending(t) => Pending(t)'
      BY <1>3
    <2>5. QED
      BY <1>1, <1>2, <1>3, <2>1, <2>2, <2>3, <2>4 DEF Safe
  <1>4. QED
    BY <1>2, <1>3 DEF Kept

\* What a reader does under mutex_results leaves the queues alone.
LEMMA SameQueues ==
  ASSUME UNCHANGED <<queue_tasks, queue_tasks_deferred, cur>>
  PROVE  \A t : (Pending(t)' <=> Pending(t)) /\ (Cancelling(t)' <=> Cancelling(t))
  BY DEF Pending, Cancelling

\* A step that adds no pending or cancelled task breaks nothing about these.
LEMMA QueuesFrame ==
  ASSUME IInv, load' = load,
         \A q \in Requests : (Begun(q) => Begun(q)') /\ (cpc[q] = "gone" => cpc'[q] = "gone"),
         \A t \in Tasks : (Pending(t)' => Pending(t)) /\ (Cancelling(t)' => Cancelling(t))
  PROVE  PostedOK' /\ CancelOK'
  <1>1. PostedOK /\ CancelOK /\ Posted' = Posted /\ \A q : IdTasks(q)' = IdTasks(q)
    BY LoadKept DEF IInv
  <1>2. QED
    BY <1>1 DEF PostedOK, CancelOK

\* A reader that registers its tasks before it posts them.
LEMMA AddWaitingStep ==
  ASSUME IInv, NEW r \in Requests, add_waiting_task_ids(r), load' = load
  PROVE  IInv'
  <1>1. /\ TypeOK /\ load \in Loads /\ WaitingOK
        /\ cpc[r] = "new" /\ cpc' = [cpc EXCEPT ![r] = "registered"]
        /\ waiting_task_ids' = waiting_task_ids \cup IdTasks(r)
        /\ UNCHANGED <<queue_tasks, queue_tasks_deferred, results, slot, batched, mpc, cur, agenda, reply, due, received>>
    BY DEF IInv, TypeOK, add_waiting_task_ids, queues, agenda
  <1>2. cpc \in [Requests -> ReaderPoints] /\ cpc'[r] = "registered" /\ \A q \in Requests : q # r => cpc'[q] = cpc[q]
    BY <1>1 DEF TypeOK
  <1>3. TypeOK'
    <2>1. cpc' \in [Requests -> ReaderPoints]
      BY <1>1, <1>2 DEF ReaderPoints
    <2>2. IdTasks(r) \subseteq Tasks
      BY <1>1, TasksFact
    <2>3. QED
      BY <1>1, <2>1, <2>2 DEF TypeOK
  <1>4. Begun(r) => Begun(r)'
    BY <1>1 DEF Begun
  <1>5. /\ CursorOK' /\ SlotsOK' /\ BatchOK' /\ \A q \in Requests : Begun(q) => Begun(q)'
        /\ \A q \in Requests : q # r => (Fine(q)' <=> Fine(q))
    BY <1>1, <1>2, <1>3, <1>4, ReaderFrame
  <1>6. \A t : (Pending(t)' <=> Pending(t)) /\ (Cancelling(t)' <=> Cancelling(t))
    BY <1>1, SameQueues
  <1>7. PostedOK' /\ CancelOK'
    BY <1>1, <1>2, <1>5, <1>6, QueuesFrame
  <1>8. WaitingOK'
    <2>1. \A q : IdTasks(q)' = IdTasks(q)
      BY LoadKept
    <2>2. QED
      BY <1>1, <1>2, <2>1 DEF WaitingOK
  <1>9. Kept'
    <2>1. ~Fine(r)'
      BY <1>2 DEF Fine
    <2>2. QED
      BY <1>1, <1>2, <1>5, <1>6, <2>1, ReaderKept
  <1>10. QED
    BY <1>3, <1>5, <1>7, <1>8, <1>9 DEF IInv

\* All tasks of a request go into the queue, the children with their parents.
LEMMA PostStep ==
  ASSUME IInv, NEW r \in Requests, post_tasks(r), load' = load
  PROVE  IInv'
  <1> DEFINE new == [i \in DOMAIN Posted[r] |-> Run(Posted[r][i])]
  <1>1. /\ TypeOK /\ load \in Loads /\ WaitingOK /\ PostedOK /\ CancelOK
        /\ cpc[r] = "registered" /\ cpc' = [cpc EXCEPT ![r] = "reading"]
        /\ queue_tasks' = queue_tasks \o new
        /\ UNCHANGED <<queue_tasks_deferred, waiting_task_ids, results, slot, batched, mpc, cur, agenda, reply, due, received>>
    BY DEF IInv, TypeOK, post_tasks, resp, agenda
  <1>2. cpc \in [Requests -> ReaderPoints] /\ cpc'[r] = "reading" /\ \A q \in Requests : q # r => cpc'[q] = cpc[q]
    BY <1>1 DEF TypeOK
  <1>a. queue_tasks \in Seq(QueueElems)
    BY <1>1 DEF TypeOK
  <1>3. /\ new \in Seq(QueueElems) /\ \A x : x \in ElemsOf(new) <=> \E t \in ElemsOf(Posted[r]) : x = Run(t)
    <2>1. Posted[r] \in Seq(Tasks)
      BY <1>1, LoadFact
    <2>2. new \in Seq(QueueElems)
      BY <2>1, RecordFact
    <2>3. QED
      BY <2>1, <2>2 DEF ElemsOf
  <1> HIDE DEF new
  <1>4. queue_tasks' \in Seq(QueueElems) /\ ElemsOf(queue_tasks') = ElemsOf(queue_tasks) \cup ElemsOf(new)
    BY <1>1, <1>a, <1>3, ConcatElems
  <1>5. TypeOK'
    <2>1. cpc' \in [Requests -> ReaderPoints]
      BY <1>1, <1>2 DEF ReaderPoints
    <2>2. QED
      BY <1>1, <1>4, <2>1 DEF TypeOK
  <1>6. Begun(r)'
    BY <1>2 DEF Begun
  <1>7. /\ CursorOK' /\ SlotsOK' /\ BatchOK' /\ \A q \in Requests : Begun(q) => Begun(q)'
        /\ \A q \in Requests : q # r => (Fine(q)' <=> Fine(q))
    BY <1>1, <1>2, <1>5, <1>6, ReaderFrame
  <1>8. \A t \in Tasks : Pending(t)' <=> Pending(t) \/ t \in ElemsOf(Posted[r])
    BY <1>1, <1>3, <1>4, RecordFact DEF Pending
  <1>9. \A t \in Tasks : Cancelling(t)' <=> Cancelling(t)
    BY <1>1, <1>3, <1>4, RecordFact DEF Cancelling
  <1>10. Posted' = Posted /\ (\A q : IdTasks(q)' = IdTasks(q)) /\ (\A c, p : IsChildOf(c, p)' <=> IsChildOf(c, p))
    BY LoadKept
  <1>11. PostedOK'
    BY <1>1, <1>6, <1>7, <1>8, <1>10 DEF PostedOK
  <1>12. CancelOK' /\ WaitingOK'
    BY <1>1, <1>2, <1>9, <1>10 DEF CancelOK, WaitingOK
  <1>13. Kept'
    <2>1. ASSUME NEW t \in IdTasks(r) PROVE Safe(r, t)'
      <3>1. t \in ElemsOf(Posted[r]) \/ \E p \in ElemsOf(Posted[r]) : t \in ElemsOf(Children[p])
        BY <1>1, TasksFact
      <3>2. \A p \in ElemsOf(Posted[r]) : p \in Tasks /\ Pending(p)'
        BY <1>1, <1>8, TasksFact
      <3>3. QED
        BY <3>1, <3>2, <1>10 DEF Safe, IsChildOf
    <2>2. \A q \in Requests : \A t \in IdTasks(q) : Pending(t) => Pending(t)'
      BY <1>1, <1>8, TasksFact
    <2>3. QED
      BY <1>1, <1>2, <1>7, <2>1, <2>2, ReaderKept
  <1>14. QED
    BY <1>5, <1>7, <1>11, <1>12, <1>13 DEF IInv

\* A reader takes its first result: a final one is remembered, an error ends it.
LEMMA NextStep ==
  ASSUME IInv, NEW r \in Requests, next(r), load' = load
  PROVE  IInv' /\ (Fine(r)' => Fine(r))
  <1> DEFINE res == Head(results[r])
             got == IF res.kind = "final" THEN received[r] \cup {res.t} ELSE received[r]
             c   == IF res.kind = "error" THEN "stopping" ELSE IF got = IdTasks(r) THEN "finished" ELSE "reading"
             R   == [t : Tasks, kind : ResultKinds]
  <1>1. /\ TypeOK /\ load \in Loads /\ WaitingOK /\ Kept
        /\ cpc[r] = "reading" /\ cpc' = [cpc EXCEPT ![r] = c]
        /\ results[r] # <<>> /\ results' = [results EXCEPT ![r] = Tail(results[r])]
        /\ received' = [received EXCEPT ![r] = got]
        /\ UNCHANGED <<queue_tasks, queue_tasks_deferred, waiting_task_ids, slot, batched, mpc, cur, agenda, reply, due>>
    BY DEF IInv, TypeOK, next, queues, agenda
  <1>2. cpc \in [Requests -> ReaderPoints] /\ results \in [Requests -> Seq(R)] /\ received \in [Requests -> SUBSET Tasks]
    BY <1>1 DEF TypeOK
  <1>3. /\ res \in R /\ Tail(results[r]) \in Seq(R)
        /\ ElemsOf(results[r]) = {res} \cup ElemsOf(Tail(results[r]))
    BY <1>1, <1>2, HeadElems
  <1>4. got \subseteq Tasks /\ received[r] \subseteq got /\ (res.kind = "final" => res.t \in got)
    BY <1>2, <1>3
  <1>5. c \in {"stopping", "finished", "reading"} /\ (c = "reading" => res.kind # "error")
    OBVIOUS
  <1> HIDE DEF res, got, c
  <1>6. /\ cpc'[r] = c /\ results'[r] = Tail(results[r]) /\ received'[r] = got
        /\ \A q \in Requests : q # r => cpc'[q] = cpc[q] /\ results'[q] = results[q] /\ received'[q] = received[q]
    BY <1>1, <1>2
  <1>7. TypeOK'
    <2>1. cpc' \in [Requests -> ReaderPoints]
      BY <1>1, <1>2, <1>5 DEF ReaderPoints
    <2>2. results' \in [Requests -> Seq(R)]
      BY <1>1, <1>2, <1>3
    <2>3. received' \in [Requests -> SUBSET Tasks]
      BY <1>1, <1>2, <1>4
    <2>4. QED
      BY <1>1, <2>1, <2>2, <2>3 DEF TypeOK
  <1>8. Begun(r)'
    BY <1>5, <1>6 DEF Begun
  <1>9. /\ CursorOK' /\ SlotsOK' /\ BatchOK' /\ \A q \in Requests : Begun(q) => Begun(q)'
        /\ \A q \in Requests : q # r => (Fine(q)' <=> Fine(q))
    BY <1>1, <1>6, <1>7, <1>8, ReaderFrame
  <1>10. \A t : (Pending(t)' <=> Pending(t)) /\ (Cancelling(t)' <=> Cancelling(t))
    BY <1>1, SameQueues
  <1>11. PostedOK' /\ CancelOK'
    BY <1>1, <1>6, <1>9, <1>10, QueuesFrame
  <1>12. (\A q : IdTasks(q)' = IdTasks(q)) /\ (\A x, p : IsChildOf(x, p)' <=> IsChildOf(x, p))
    BY LoadKept
  <1>13. WaitingOK'
    BY <1>1, <1>5, <1>6, <1>12 DEF WaitingOK
  <1>14. Fine(r)' => Fine(r)
    <2>1. SUFFICES ASSUME Fine(r)' PROVE ~HasError(r)
      BY <1>1 DEF Fine
    <2>2. c = "reading" /\ ~HasError(r)'
      BY <1>6, <2>1 DEF Fine
    <2>3. \A y \in ElemsOf(results'[r]) : y.kind # "error"
      BY <2>2 DEF HasError, ElemsOf
    <2>4. \A y \in ElemsOf(results[r]) : y.kind # "error"
      BY <1>3, <1>5, <1>6, <2>2, <2>3
    <2>5. \A i \in DOMAIN results[r] : results[r][i].kind # "error"
      BY <2>4 DEF ElemsOf
    <2>6. QED
      BY <1>1, <1>12, <2>2, <2>5 DEF HasError
  <1>15. Kept'
    <2>1. ASSUME Fine(r)', NEW t \in IdTasks(r) PROVE Safe(r, t)'
      <3>1. Safe(r, t)
        BY <1>1, <1>14, <2>1 DEF Kept
      <3>2. HasResult(r, t, {"final"}) => t \in got \/ HasResult(r, t, {"final"})'
        <4>1. SUFFICES ASSUME NEW i \in DOMAIN results[r], results[r][i].t = t, results[r][i].kind = "final"
                       PROVE  t \in got \/ HasResult(r, t, {"final"})'
          BY DEF HasResult
        <4>2. results[r][i] \in ElemsOf(results[r])
          BY DEF ElemsOf
        <4>3. CASE results[r][i] = res
          BY <1>4, <4>1, <4>3
        <4>4. CASE results[r][i] \in ElemsOf(results'[r])
          BY <4>1, <4>4 DEF ElemsOf, HasResult
        <4>5. QED
          BY <1>3, <1>6, <4>2, <4>3, <4>4
      <3>3. QED
        BY <1>1, <1>4, <1>6, <1>10, <1>12, <3>1, <3>2 DEF Safe
    <2>2. QED
      BY <1>1, <1>6, <1>9, <1>10, <2>1, ReaderKept
  <1>16. QED
    BY <1>7, <1>9, <1>11, <1>13, <1>14, <1>15 DEF IInv

\* A reader that gives up is promised nothing any more.
LEMMA GiveUpStep ==
  ASSUME IInv, NEW r \in Requests, give_up(r), load' = load
  PROVE  IInv'
  <1>1. /\ TypeOK /\ load \in Loads /\ WaitingOK
        /\ cpc[r] = "reading" /\ cpc' = [cpc EXCEPT ![r] = "stopping"]
        /\ UNCHANGED <<queue_tasks, queue_tasks_deferred, waiting_task_ids, results, slot, batched, mpc, cur, agenda, reply, due, received>>
    BY DEF IInv, TypeOK, give_up, queues, resp, agenda
  <1>2. cpc \in [Requests -> ReaderPoints] /\ cpc'[r] = "stopping" /\ \A q \in Requests : q # r => cpc'[q] = cpc[q]
    BY <1>1 DEF TypeOK
  <1>3. TypeOK'
    <2>1. cpc' \in [Requests -> ReaderPoints]
      BY <1>1, <1>2 DEF ReaderPoints
    <2>2. QED
      BY <1>1, <2>1 DEF TypeOK
  <1>4. Begun(r)'
    BY <1>2 DEF Begun
  <1>5. /\ CursorOK' /\ SlotsOK' /\ BatchOK' /\ \A q \in Requests : Begun(q) => Begun(q)'
        /\ \A q \in Requests : q # r => (Fine(q)' <=> Fine(q))
    BY <1>1, <1>2, <1>3, <1>4, ReaderFrame
  <1>6. \A t : (Pending(t)' <=> Pending(t)) /\ (Cancelling(t)' <=> Cancelling(t))
    BY <1>1, SameQueues
  <1>7. PostedOK' /\ CancelOK'
    BY <1>1, <1>2, <1>5, <1>6, QueuesFrame
  <1>8. WaitingOK'
    <2>1. \A q : IdTasks(q)' = IdTasks(q)
      BY LoadKept
    <2>2. QED
      BY <1>1, <1>2, <2>1 DEF WaitingOK
  <1>9. Kept'
    <2>1. ~Fine(r)'
      BY <1>2 DEF Fine
    <2>2. QED
      BY <1>1, <1>2, <1>5, <1>6, <2>1, ReaderKept
  <1>10. QED
    BY <1>3, <1>5, <1>7, <1>8, <1>9 DEF IInv

\* Nobody else waits for the ids that stop() takes off the list.
LEMMA StopStep ==
  ASSUME IInv, NEW r \in Requests, stop(r), load' = load
  PROVE  IInv'
  <1> DEFINE c == IF cpc[r] = "stopping" THEN "cancelling" ELSE "gone"
             R == [t : Tasks, kind : ResultKinds]
  <1>1. /\ TypeOK /\ load \in Loads /\ WaitingOK
        /\ cpc[r] \in {"stopping", "finished"} /\ cpc' = [cpc EXCEPT ![r] = c]
        /\ waiting_task_ids' = waiting_task_ids \ IdTasks(r)
        /\ results' = [results EXCEPT ![r] = <<>>] \/ results' = results
        /\ UNCHANGED <<queue_tasks, queue_tasks_deferred, slot, batched, mpc, cur, agenda, reply, due, received>>
    BY DEF IInv, TypeOK, stop, queues, agenda
  <1>2. c \in {"cancelling", "gone"}
    OBVIOUS
  <1> HIDE DEF c
  <1>3. cpc \in [Requests -> ReaderPoints] /\ results \in [Requests -> Seq(R)]
    BY <1>1 DEF TypeOK
  <1>4. cpc'[r] = c /\ \A q \in Requests : q # r => cpc'[q] = cpc[q] /\ results'[q] = results[q]
    BY <1>1, <1>3
  <1>5. TypeOK'
    <2>1. cpc' \in [Requests -> ReaderPoints]
      BY <1>1, <1>2, <1>3 DEF ReaderPoints
    <2>2. results' \in [Requests -> Seq(R)]
      <3>1. <<>> \in Seq(R)
        OBVIOUS
      <3>2. QED
        BY <1>1, <1>3, <3>1
    <2>3. QED
      BY <1>1, <2>1, <2>2 DEF TypeOK
  <1>6. Begun(r)'
    BY <1>2, <1>4 DEF Begun
  <1>7. /\ CursorOK' /\ SlotsOK' /\ BatchOK' /\ \A q \in Requests : Begun(q) => Begun(q)'
        /\ \A q \in Requests : q # r => (Fine(q)' <=> Fine(q))
    BY <1>1, <1>4, <1>5, <1>6, ReaderFrame
  <1>8. \A t : (Pending(t)' <=> Pending(t)) /\ (Cancelling(t)' <=> Cancelling(t))
    BY <1>1, SameQueues
  <1>9. PostedOK' /\ CancelOK'
    BY <1>1, <1>4, <1>7, <1>8, QueuesFrame
  <1>10. WaitingOK'
    <2>1. \A q : IdTasks(q)' = IdTasks(q)
      BY LoadKept
    <2>2. \A q \in Requests : q # r => IdTasks(q) \cap IdTasks(r) = {}
      BY <1>1, OwnerFact
    <2>3. QED
      BY <1>1, <1>2, <1>4, <2>1, <2>2 DEF WaitingOK
  <1>11. Kept'
    <2>1. ~Fine(r)'
      BY <1>2, <1>4 DEF Fine
    <2>2. QED
      BY <1>1, <1>4, <1>7, <1>8, <2>1, ReaderKept
  <1>12. QED
    BY <1>5, <1>7, <1>9, <1>10, <1>11 DEF IInv

\* The clean-up takes the targets out of the queues and nothing else.
LEMMA NotPendingFact ==
  ASSUME NEW q \in Seq(QueueElems), NEW d \in Seq(Tasks), NEW S
  PROVE  /\ NotPending(q, S) \in Seq(QueueElems) /\ NotDeferred(d, S) \in Seq(Tasks)
         /\ \A x : x \in ElemsOf(NotPending(q, S)) <=> x \in ElemsOf(q) /\ ~(x.op = "run" /\ x.t \in S)
         /\ \A t : t \in ElemsOf(NotDeferred(d, S)) <=> t \in ElemsOf(d) /\ t \notin S
  <1> DEFINE I == {i \in DOMAIN q : ~(q[i].op = "run" /\ q[i].t \in S)}
             J == {i \in DOMAIN d : d[i] \notin S}
  <1>1. I \subseteq DOMAIN q /\ J \subseteq DOMAIN d
    OBVIOUS
  <1>2. /\ \A x : (\E i \in I : q[i] = x) <=> x \in ElemsOf(q) /\ ~(x.op = "run" /\ x.t \in S)
        /\ \A t : (\E i \in J : d[i] = t) <=> t \in ElemsOf(d) /\ t \notin S
    BY DEF ElemsOf
  <1>3. NotPending(q, S) = AtPositions(q, I) /\ NotDeferred(d, S) = AtPositions(d, J)
    BY DEF NotPending, NotDeferred
  <1> HIDE DEF I, J
  <1>4. QED
    BY <1>1, <1>2, <1>3, PositionsElems

\* A function has finitely many values on a finite set.
LEMMA FiniteImage ==
  ASSUME NEW S, NEW T, NEW f \in [S -> T], IsFiniteSet(S)
  PROVE  IsFiniteSet({f[x] : x \in S})
  <1> DEFINE U == {f[x] : x \in S}
  <1>1. f \in [S -> U] /\ \A u \in U : \E x \in S : f[x] = u
    OBVIOUS
  <1>2. f \in Surjection(S, U)
    BY <1>1 DEF Surjection
  <1>3. QED
    BY <1>2, FS_Surjection

\* A request has finitely many tasks.
LEMMA IdTasksFinite ==
  ASSUME load \in Loads, NEW r \in Requests
  PROVE  IsFiniteSet(IdTasks(r))
  <1>1. Posted[r] \in Seq(Tasks) /\ \A t \in Tasks : Children[t] \in Seq(Tasks)
    BY LoadFact
  <1>2. \A q \in Seq(Tasks) : IsFiniteSet(ElemsOf(q)) /\ ElemsOf(q) \subseteq Tasks
    <2>1. SUFFICES ASSUME NEW q \in Seq(Tasks) PROVE IsFiniteSet(ElemsOf(q))
      BY ElemsFact
    <2>2. q \in [1 .. Len(q) -> Tasks] /\ IsFiniteSet(1 .. Len(q)) /\ DOMAIN q = 1 .. Len(q)
      BY FS_Interval
    <2>3. IsFiniteSet({q[i] : i \in 1 .. Len(q)})
      BY <2>2, FiniteImage
    <2>4. QED
      BY <2>2, <2>3 DEF ElemsOf
  <1> DEFINE group == [t \in ElemsOf(Posted[r]) |-> {t} \cup ElemsOf(Children[t])]
             groups == {group[t] : t \in ElemsOf(Posted[r])}
  <1>3. ElemsOf(Posted[r]) \subseteq Tasks /\ IsFiniteSet(ElemsOf(Posted[r]))
    BY <1>1, <1>2
  <1>4. \A t \in ElemsOf(Posted[r]) : IsFiniteSet(group[t])
    BY <1>1, <1>2, <1>3, FS_Singleton, FS_Union
  <1>5. group \in [ElemsOf(Posted[r]) -> SUBSET Tasks]
    BY <1>1, <1>2, <1>3
  <1>6. IdTasks(r) = UNION groups
    BY DEF IdTasks
  <1> HIDE DEF group
  <1>7. IsFiniteSet(groups) /\ \A g \in groups : IsFiniteSet(g)
    BY <1>3, <1>4, <1>5, FiniteImage
  <1>8. QED
    BY <1>6, <1>7, FS_UNION

\* A reader that is gone takes its own tasks from the queues and no others.
LEMMA PostCancelStep ==
  ASSUME IInv, NEW r \in Requests, post_cancel(r), load' = load
  PROVE  IInv'
  <1>0. /\ TypeOK /\ load \in Loads /\ WaitingOK /\ PostedOK /\ CancelOK
        /\ queue_tasks \in Seq(QueueElems) /\ queue_tasks_deferred \in Seq(Tasks)
        /\ IdTasks(r) \subseteq Tasks
    BY TasksFact DEF IInv, TypeOK
  <1> DEFINE n == Cardinality(IdTasks(r))
             kept == NotPending(queue_tasks, IdTasks(r))
  <1>1. PICK order \in [1 .. n -> IdTasks(r)] :
          /\ ElemsOf(order) = IdTasks(r)
          /\ queue_tasks' = [i \in DOMAIN order |-> Cancel(order[i])] \o kept
    BY DEF post_cancel
  <1>2. /\ queue_tasks_deferred' = NotDeferred(queue_tasks_deferred, IdTasks(r))
        /\ cpc[r] = "cancelling" /\ cpc' = [cpc EXCEPT ![r] = "gone"]
        /\ UNCHANGED <<waiting_task_ids, results, slot, batched, mpc, cur, agenda, reply, due, received>>
    BY DEF post_cancel, resp, agenda
  <1> DEFINE cancels == [i \in DOMAIN order |-> Cancel(order[i])]
  <1>3. n \in Nat
    BY <1>0, IdTasksFinite, FS_CardinalityType
  <1>4. cancels \in Seq(QueueElems) /\ \A x : x \in ElemsOf(cancels) <=> \E t \in IdTasks(r) : x = Cancel(t)
    <2>1. DOMAIN order = 1 .. n /\ DOMAIN cancels = 1 .. n /\ \A i \in 1 .. n : cancels[i] = Cancel(order[i])
      OBVIOUS
    <2>2. \A i \in 1 .. n : order[i] \in Tasks /\ cancels[i] \in QueueElems
      BY <1>0, <2>1, RecordFact
    <2>3. cancels \in Seq(QueueElems)
      BY <1>3, <2>1, <2>2
    <2>4. \A t : t \in IdTasks(r) <=> \E i \in 1 .. n : order[i] = t
      BY <1>1, <2>1 DEF ElemsOf
    <2>5. \A x : x \in ElemsOf(cancels) <=> \E i \in 1 .. n : cancels[i] = x
      BY <2>1 DEF ElemsOf
    <2>6. QED
      BY <2>1, <2>3, <2>4, <2>5
  <1>5. /\ kept \in Seq(QueueElems) /\ queue_tasks_deferred' \in Seq(Tasks)
        /\ \A x : x \in ElemsOf(kept) <=> x \in ElemsOf(queue_tasks) /\ ~(x.op = "run" /\ x.t \in IdTasks(r))
        /\ \A t : t \in ElemsOf(queue_tasks_deferred') <=> t \in ElemsOf(queue_tasks_deferred) /\ t \notin IdTasks(r)
    BY <1>0, <1>2, NotPendingFact
  <1> HIDE DEF cancels, kept
  <1>6. queue_tasks' \in Seq(QueueElems) /\ ElemsOf(queue_tasks') = ElemsOf(cancels) \cup ElemsOf(kept)
    <2>1. queue_tasks' = cancels \o kept
      BY <1>1 DEF cancels
    <2>2. QED
      BY <2>1, <1>4, <1>5, ConcatElems
  <1>7. cpc \in [Requests -> ReaderPoints] /\ cpc'[r] = "gone" /\ \A q \in Requests : q # r => cpc'[q] = cpc[q]
    BY <1>0, <1>2 DEF TypeOK
  <1>8. TypeOK'
    <2>1. cpc' \in [Requests -> ReaderPoints]
      BY <1>2, <1>7 DEF ReaderPoints
    <2>2. QED
      BY <1>0, <1>2, <1>5, <1>6, <2>1 DEF TypeOK
  <1>9. Begun(r)'
    BY <1>7 DEF Begun
  <1>10. /\ CursorOK' /\ SlotsOK' /\ BatchOK' /\ \A q \in Requests : Begun(q) => Begun(q)'
         /\ \A q \in Requests : q # r => (Fine(q)' <=> Fine(q))
    BY <1>0, <1>2, <1>7, <1>8, <1>9, ReaderFrame
  <1>11. \A t : Run(t) \in ElemsOf(queue_tasks') <=> Run(t) \in ElemsOf(queue_tasks) /\ t \notin IdTasks(r)
    <2>1. \A t : Run(t).op = "run" /\ Run(t).t = t
      BY DEF Run
    <2>2. \A t : Run(t) \notin ElemsOf(cancels)
      BY <1>4, RecordFact
    <2>3. QED
      BY <1>5, <1>6, <2>1, <2>2
  <1>12. \A t : Cancel(t) \in ElemsOf(queue_tasks') <=> Cancel(t) \in ElemsOf(queue_tasks) \/ t \in IdTasks(r)
    <2>1. \A t : Cancel(t).op # "run"
      BY DEF Cancel
    <2>2. \A t : Cancel(t) \in ElemsOf(cancels) <=> t \in IdTasks(r)
      BY <1>4, RecordFact
    <2>3. QED
      BY <1>5, <1>6, <2>1, <2>2
  <1>13. \A t \in Tasks : (Pending(t)' => Pending(t)) /\ (t \notin IdTasks(r) /\ Pending(t) => Pending(t)')
    BY <1>2, <1>5, <1>11 DEF Pending
  <1>14. \A t \in Tasks : Cancelling(t)' => Cancelling(t) \/ t \in IdTasks(r)
    BY <1>2, <1>12 DEF Cancelling
  <1>15. Posted' = Posted /\ \A q : IdTasks(q)' = IdTasks(q)
    BY LoadKept
  <1>16. PostedOK'
    BY <1>0, <1>10, <1>13, <1>15 DEF PostedOK
  <1>17. CancelOK'
    BY <1>0, <1>7, <1>14, <1>15 DEF CancelOK
  <1>18. WaitingOK'
    BY <1>0, <1>2, <1>7, <1>15 DEF WaitingOK
  <1>19. Kept'
    <2>1. ~Fine(r)'
      BY <1>7 DEF Fine
    <2>2. \A q \in Requests : q # r => \A t \in IdTasks(q) : Pending(t) => Pending(t)'
      BY <1>0, <1>13, OwnerFact
    <2>3. QED
      BY <1>0, <1>2, <1>7, <1>10, <2>1, <2>2, ReaderKept
  <1>20. QED
    BY <1>8, <1>10, <1>16, <1>17, <1>18, <1>19 DEF IInv

-----------------------------------------------------------------------------
(* Steps of the main thread.                                               *)

\* A step of the main thread that adds no pending or cancelled task leaves what the
\* readers posted, registered and cancelled as it was.
LEMMA MainFrame ==
  ASSUME IInv, UNCHANGED <<load, waiting_task_ids, cpc>>,
         \A t \in Tasks : (Pending(t)' => Pending(t)) /\ (Cancelling(t)' => Cancelling(t))
  PROVE  PostedOK' /\ CancelOK' /\ WaitingOK' /\ \A r : Begun(r)' <=> Begun(r)
  <1>1. \A r : Begun(r)' <=> Begun(r)
    BY DEF Begun
  <1>2. \A q : IdTasks(q)' = IdTasks(q)
    BY LoadKept
  <1>3. WaitingOK'
    BY <1>2 DEF IInv, WaitingOK
  <1>4. QED
    BY <1>1, <1>3, QueuesFrame

\* A busy slot works on a task of a request that has begun, an idle one has none and
\* nothing to send.
LEMMA SlotFact ==
  ASSUME IInv, NEW s \in Slots
  PROVE  /\ Busy(s) => slot[s].task \in Tasks /\ \E r \in Requests : slot[s].task \in IdTasks(r) /\ Begun(r)
         /\ ~Busy(s) => slot[s].task = NoTask /\ due[s] = "none" /\ slot[s].task \notin Tasks
         /\ slot[s].task \in Tasks => Busy(s)
  <1>1. SlotsOK /\ load \in Loads
    BY DEF IInv, TypeOK
  <1>2. \A r \in Requests : IdTasks(r) \subseteq Tasks
    BY <1>1, TasksFact
  <1>3. QED
    BY <1>1, <1>2, TasksAssumption DEF SlotsOK

\* Nothing that was sent is taken back, and a reader that waits gets what is sent.
LEMMA SendFact ==
  ASSUME IInv, NEW t \in Tasks, NEW kind \in ResultKinds, send(t, kind)
  PROVE  /\ results' \in [Requests -> Seq([t : Tasks, kind : ResultKinds])]
         /\ \A r \in Requests : \A i \in DOMAIN results[r] :
              i \in DOMAIN results'[r] /\ results'[r][i] = results[r][i]
         /\ \A r \in Requests : cpc[r] = "reading" /\ t \in IdTasks(r) =>
              \E i \in DOMAIN results'[r] : results'[r][i].t = t /\ results'[r][i].kind = kind
  <1> DEFINE R == [t : Tasks, kind : ResultKinds]
             x == [t |-> t, kind |-> kind]
  <1>1. load \in Loads /\ results \in [Requests -> Seq(R)] /\ WaitingOK /\ x \in R /\ x.t = t /\ x.kind = kind
    BY DEF IInv, TypeOK
  <1>2. results' = IF t \in waiting_task_ids THEN [results EXCEPT ![Owner(t)] = Append(results[Owner(t)], x)] ELSE results
    BY DEF send
  <1> HIDE DEF x
  <1>3. ASSUME NEW r \in Requests
        PROVE  /\ results'[r] \in Seq(R)
               /\ results'[r] = Append(results[r], x) \/ results'[r] = results[r]
               /\ cpc[r] = "reading" /\ t \in IdTasks(r) => results'[r] = Append(results[r], x)
    <2>1. results'[r] = Append(results[r], x) \/ results'[r] = results[r]
      BY <1>1, <1>2
    <2>2. cpc[r] = "reading" /\ t \in IdTasks(r) => t \in waiting_task_ids /\ Owner(t) = r
      BY <1>1, OwnerFact DEF WaitingOK
    <2>3. cpc[r] = "reading" /\ t \in IdTasks(r) => results'[r] = Append(results[r], x)
      BY <1>1, <1>2, <2>2
    <2>4. results[r] \in Seq(R)
      BY <1>1
    <2>5. results'[r] \in Seq(R)
      <3>1. Append(results[r], x) \in Seq(R)
        BY <1>1, <2>4, AppendElems
      <3>2. QED
        BY <2>1, <2>4, <3>1
    <2>6. QED
      BY <2>1, <2>3, <2>5
  <1>4. results' \in [Requests -> Seq(R)]
    <2>1. results' = [r \in Requests |-> results'[r]]
      BY <1>1, <1>2
    <2>2. QED
      BY <1>3, <2>1
  <1>5. ASSUME NEW r \in Requests, NEW i \in DOMAIN results[r]
        PROVE  i \in DOMAIN results'[r] /\ results'[r][i] = results[r][i]
    <2>1. results[r] \in Seq(R)
      BY <1>1
    <2>2. i \in 1 .. Len(results[r])
      BY <1>5, <2>1
    <2>3. QED
      BY <1>1, <1>3, <2>1, <2>2
  <1>6. ASSUME NEW r \in Requests, cpc[r] = "reading", t \in IdTasks(r)
        PROVE  \E i \in DOMAIN results'[r] : results'[r][i].t = t /\ results'[r][i].kind = kind
    <2>1. results'[r] = Append(results[r], x) /\ results[r] \in Seq(R)
      BY <1>1, <1>3, <1>6
    <2>2. PICK k : k = Len(results[r]) + 1
      OBVIOUS
    <2>3. k \in DOMAIN results'[r] /\ results'[r][k] = x
      BY <1>1, <2>1, <2>2
    <2>4. QED
      BY <1>1, <2>3
  <1>7. QED
    BY <1>4, <1>5, <1>6

\* If no result is taken back, final results and errors stay.
LEMMA ResultKept ==
  ASSUME NEW r, \A i \in DOMAIN results[r] : i \in DOMAIN results'[r] /\ results'[r][i] = results[r][i]
  PROVE  /\ \A t : HasResult(r, t, {"final"}) => HasResult(r, t, {"final"})'
         /\ (\E i \in DOMAIN results[r] : results[r][i].kind = "error") =>
              \E i \in DOMAIN results'[r] : results'[r][i].kind = "error"
  BY DEF HasResult

\* Sending a result that belongs to no slot.
LEMMA SendReplyStep ==
  ASSUME IInv, send_reply, load' = load
  PROVE  IInv' /\ \A r \in Requests : Fine(r)' => Fine(r)
  <1>0. /\ TypeOK /\ load \in Loads /\ reply # NoReply /\ send(reply.t, reply.kind) /\ reply' = NoReply
        /\ UNCHANGED <<queue_tasks, queue_tasks_deferred, waiting_task_ids, slot, batched, mpc, cur, due, cpc, received>>
    BY DEF IInv, TypeOK, send_reply, send, queues, reader
  <1>1. PICK t0 \in Tasks, k0 \in {"final", "error"} : reply.t = t0 /\ reply.kind = k0
    BY <1>0 DEF TypeOK
  <1>2. k0 \in ResultKinds /\ send(t0, k0)
    BY <1>0, <1>1 DEF ResultKinds
  <1>3. /\ results' \in [Requests -> Seq([t : Tasks, kind : ResultKinds])]
        /\ \A r \in Requests : \A i \in DOMAIN results[r] :
             i \in DOMAIN results'[r] /\ results'[r][i] = results[r][i]
        /\ \A r \in Requests : cpc[r] = "reading" /\ t0 \in IdTasks(r) =>
             \E i \in DOMAIN results'[r] : results'[r][i].t = t0 /\ results'[r][i].kind = k0
    BY <1>2, SendFact, ZenonT(60)
  <1>4. TypeOK'
    BY <1>0, <1>3 DEF TypeOK
  <1>5. /\ (\A t : (Pending(t)' <=> Pending(t)) /\ (Cancelling(t)' <=> Cancelling(t)))
        /\ (\A q : IdTasks(q)' = IdTasks(q)) /\ (\A c, p : IsChildOf(c, p)' <=> IsChildOf(c, p))
    BY <1>0, SameQueues, LoadKept
  <1>6. PostedOK' /\ CancelOK' /\ WaitingOK' /\ \A r : Begun(r)' <=> Begun(r)
    BY <1>0, <1>5, MainFrame
  <1>7. CursorOK' /\ BatchOK'
    BY <1>0 DEF IInv, CursorOK, BatchOK
  <1>8. SlotsOK'
    BY <1>0, <1>5, <1>6 DEF IInv, SlotsOK, Busy
  <1>9. ASSUME NEW r \in Requests, Fine(r)' PROVE Fine(r)
    <2>1. cpc[r] = "reading"
      BY <1>0, <1>9 DEF Fine
    <2>2. HasError(r) => HasError(r)'
      BY <1>0, <1>1, <1>3, <1>5, <2>1 DEF HasError
    <2>3. QED
      BY <1>9, <2>1, <2>2 DEF Fine
  <1>10. Kept'
    <2>1. SUFFICES ASSUME NEW r \in Requests, Fine(r)', NEW t \in IdTasks(r) PROVE Safe(r, t)'
      BY <1>5 DEF Kept
    <2>2. cpc[r] = "reading" /\ ~HasError(r)
      BY <1>9, <2>1 DEF Fine
    <2>3. Safe(r, t)
      BY <1>9, <2>1 DEF IInv, Kept
    <2>4. reply.t = t => HasResult(r, t, {"final"})'
      <3>1. ASSUME reply.t = t PROVE k0 = "final" /\ t0 = t
        BY <1>1, <2>1, <2>2, <3>1 DEF HasError
      <3>2. QED
        BY <1>3, <2>1, <2>2, <3>1 DEF HasResult
    <2>5. HasResult(r, t, {"final"}) => HasResult(r, t, {"final"})'
      BY <1>3, ResultKept
    <2>6. QED
      BY <1>0, <1>5, <2>3, <2>4, <2>5 DEF Safe
  <1>11. QED
    BY <1>4, <1>6, <1>7, <1>8, <1>9, <1>10 DEF IInv

\* A final result and an error are sent before the slot is released.
LEMMA SendOfSlotStep ==
  ASSUME IInv, NEW s \in Slots, send_of_slot(s), load' = load
  PROVE  IInv' /\ \A r \in Requests : Fine(r)' => Fine(r)
  <1>0. PICK t0, k0 : t0 = slot[s].task /\ k0 = due[s]
    OBVIOUS
  <1> DEFINE d == IF k0 = "partial" THEN "none" ELSE "release"
  <1>1. /\ TypeOK /\ load \in Loads /\ k0 \in ResultKinds /\ due[s] # "none" /\ send(t0, k0)
        /\ due' = [due EXCEPT ![s] = d]
        /\ UNCHANGED <<queue_tasks, queue_tasks_deferred, waiting_task_ids, slot, batched, mpc, cur, reply, cpc, received>>
    BY <1>0 DEF IInv, TypeOK, send_of_slot, LoopAt, send, queues, reader
  <1>2. d \in Duties /\ (d = "release" => k0 \in {"final", "error"})
    BY <1>1 DEF Duties, ResultKinds
  <1>3. Busy(s) /\ t0 \in Tasks
    BY <1>0, <1>1, SlotFact
  <1>4. /\ results' \in [Requests -> Seq([t : Tasks, kind : ResultKinds])]
        /\ \A r \in Requests : \A i \in DOMAIN results[r] :
             i \in DOMAIN results'[r] /\ results'[r][i] = results[r][i]
        /\ \A r \in Requests : cpc[r] = "reading" /\ t0 \in IdTasks(r) =>
             \E i \in DOMAIN results'[r] : results'[r][i].t = t0 /\ results'[r][i].kind = k0
    BY <1>1, <1>3, SendFact, ZenonT(60)
  <1>5. due \in [Slots -> Duties] /\ due'[s] = d /\ \A x \in Slots : x # s => due'[x] = due[x]
    BY <1>1 DEF TypeOK
  <1>6. TypeOK'
    <2>1. due' \in [Slots -> Duties]
      BY <1>1, <1>2, <1>5
    <2>2. QED
      BY <1>1, <1>4, <2>1 DEF TypeOK
  <1>7. /\ (\A t : (Pending(t)' <=> Pending(t)) /\ (Cancelling(t)' <=> Cancelling(t)))
        /\ (\A q : IdTasks(q)' = IdTasks(q)) /\ (\A c, p : IsChildOf(c, p)' <=> IsChildOf(c, p))
    BY <1>1, SameQueues, LoadKept
  <1>8. PostedOK' /\ CancelOK' /\ WaitingOK' /\ \A r : Begun(r)' <=> Begun(r)
    BY <1>1, <1>7, MainFrame
  <1>9. CursorOK' /\ BatchOK'
    <2>1. CursorOK'
      BY <1>1 DEF IInv, CursorOK
    <2>2. batched \subseteq Slots
      BY <1>1 DEF TypeOK
    <2>3. BatchOK'
      BY <1>1, <1>5, <2>2 DEF IInv, BatchOK
    <2>4. QED
      BY <2>1, <2>3
  <1>10. SlotsOK'
    BY <1>0, <1>1, <1>3, <1>5, <1>7, <1>8 DEF IInv, SlotsOK, Busy
  <1>11. ASSUME NEW r \in Requests, Fine(r)' PROVE Fine(r)
    <2>1. cpc[r] = "reading"
      BY <1>1, <1>11 DEF Fine
    <2>2. ASSUME HasError(r) PROVE HasError(r)'
      <3>1. CASE k0 = "error" /\ t0 \in IdTasks(r)
        BY <1>4, <2>1, <3>1 DEF HasError
      <3>2. CASE ~(k0 = "error" /\ t0 \in IdTasks(r))
        BY <1>0, <1>1, <1>4, <1>5, <1>7, <2>2, <3>2 DEF HasError
      <3>3. QED
        BY <3>1, <3>2
    <2>3. QED
      BY <1>11, <2>1, <2>2 DEF Fine
  <1>12. Kept'
    <2>1. SUFFICES ASSUME NEW r \in Requests, Fine(r)', NEW t \in IdTasks(r) PROVE Safe(r, t)'
      BY <1>7 DEF Kept
    <2>2. cpc[r] = "reading" /\ ~HasError(r)
      BY <1>11, <2>1 DEF Fine
    <2>3. Safe(r, t)
      BY <1>11, <2>1 DEF IInv, Kept
    <2>4. ASSUME t0 = t, d = "release" PROVE HasResult(r, t, {"final"})'
      <3>1. k0 = "final"
        BY <1>0, <1>2, <2>1, <2>2, <2>4 DEF HasError
      <3>2. QED
        BY <1>4, <2>1, <2>2, <2>4, <3>1 DEF HasResult
    <2>5. ASSUME NEW x \in Slots, slot[x].task = t, due[x] # "release"
          PROVE  HasResult(r, t, {"final"})' \/ due'[x] # "release"
      BY <1>0, <1>5, <2>4, <2>5
    <2> HIDE DEF d
    <2>6. HasResult(r, t, {"final"}) => HasResult(r, t, {"final"})'
      BY <1>4, ResultKept
    <2>7. QED
      BY <1>1, <1>7, <2>3, <2>5, <2>6 DEF Safe
  <1>13. QED
    BY <1>6, <1>8, <1>9, <1>10, <1>11, <1>12 DEF IInv

\* A deferred task that is taken up again moves to the front of the queue.
LEMMA PopFact ==
  ASSUME TypeOK, NEW s \in Slots, pop_deferred_task(s)
  PROVE  /\ queue_tasks' \in Seq(QueueElems) /\ queue_tasks_deferred' \in Seq(Tasks)
         /\ \A t \in Tasks : Cancel(t) \in ElemsOf(queue_tasks') <=> Cancel(t) \in ElemsOf(queue_tasks)
         /\ \A t \in Tasks : Run(t) \in ElemsOf(queue_tasks') \/ t \in ElemsOf(queue_tasks_deferred')
                         <=> Run(t) \in ElemsOf(queue_tasks) \/ t \in ElemsOf(queue_tasks_deferred)
         /\ ElemsOf(queue_tasks_deferred') \subseteq ElemsOf(queue_tasks_deferred)
         /\ \A x \in ElemsOf(queue_tasks) : x \in ElemsOf(queue_tasks')
         /\ IF queue_tasks_deferred = <<>> THEN queue_tasks_deferred' = <<>>
            ELSE \E u \in ElemsOf(queue_tasks_deferred) : u \in Tasks /\ Run(u) \in ElemsOf(queue_tasks')
  <1>1. queue_tasks \in Seq(QueueElems) /\ queue_tasks_deferred \in Seq(Tasks)
    BY DEF TypeOK
  <1>2. CASE queue_tasks_deferred = <<>>
    <2>1. queue_tasks' = queue_tasks /\ queue_tasks_deferred' = queue_tasks_deferred
      BY <1>2 DEF pop_deferred_task, queues
    <2>2. QED
      BY <1>1, <1>2, <2>1
  <1>3. CASE queue_tasks_deferred # <<>>
    <2> DEFINE asks == {i \in DOMAIN queue_tasks_deferred : IdSlot[queue_tasks_deferred[i]] = s}
    <2>1. DeferredFor(s) \in 1 .. Len(queue_tasks_deferred)
      <3>1. DOMAIN queue_tasks_deferred = 1 .. Len(queue_tasks_deferred) /\ Len(queue_tasks_deferred) \in Nat
        BY <1>1
      <3>2. CASE asks = {}
        <4>1. DeferredFor(s) = 1
          BY <3>2 DEF DeferredFor
        <4>2. QED
          BY <1>1, <1>3, <4>1
      <3>3. CASE asks # {}
        <4>1. asks \subseteq 1 .. Len(queue_tasks_deferred) /\ IsFiniteSet(asks) /\ asks \in SUBSET Nat
          <5>1. asks \subseteq 1 .. Len(queue_tasks_deferred)
            BY <3>1
          <5> HIDE DEF asks
          <5>2. IsFiniteSet(1 .. Len(queue_tasks_deferred)) /\ 1 .. Len(queue_tasks_deferred) \subseteq Nat
            BY <3>1, FS_Interval
          <5>3. QED
            BY <5>1, <5>2, FS_Subset
        <4>2. \E i \in asks : \A j \in asks : i <= j
          <5> HIDE DEF asks
          <5>1. QED
            BY <3>3, <4>1, MinimumFact
        <4>3. DeferredFor(s) = CHOOSE i \in asks : \A j \in asks : i <= j
          BY <3>3 DEF DeferredFor
        <4>4. DeferredFor(s) \in asks
          <5> HIDE DEF asks
          <5>1. QED
            BY <4>2, <4>3
        <4>5. QED
          BY <4>1, <4>4
      <3>4. QED
        BY <3>2, <3>3
    <2>2. PICK k \in 1 .. Len(queue_tasks_deferred) : k = DeferredFor(s)
      BY <2>1
    <2>3. PICK u, one : u = queue_tasks_deferred[k] /\ one = <<Run(u)>>
      OBVIOUS
    <2>4. u \in Tasks /\ one \in Seq(QueueElems) /\ ElemsOf(one) = {Run(u)}
      <3>1. u \in Tasks /\ Run(u) \in QueueElems
        BY <1>1, <2>3, RecordFact
      <3>2. QED
        BY <2>3, <3>1 DEF ElemsOf
    <2>5. queue_tasks' = one \o queue_tasks /\ queue_tasks_deferred' = WithoutIndex(queue_tasks_deferred, k)
      BY <1>3, <2>2, <2>3 DEF pop_deferred_task
    <2>6. queue_tasks' \in Seq(QueueElems) /\ ElemsOf(queue_tasks') = {Run(u)} \cup ElemsOf(queue_tasks)
      BY <1>1, <2>4, <2>5, ConcatElems
    <2>7. /\ queue_tasks_deferred' \in Seq(Tasks)
          /\ ElemsOf(queue_tasks_deferred) = {u} \cup ElemsOf(queue_tasks_deferred')
      BY <1>1, <2>2, <2>3, <2>5, WithoutElems
    <2>8. QED
      BY <1>3, <2>4, <2>6, <2>7, RecordFact
  <1>4. QED
    BY <1>2, <1>3

\* Releasing a slot, whose task has been answered or cancelled.
LEMMA ReleaseStep ==
  ASSUME IInv, NEW s \in Slots, release(s), load' = load
  PROVE  IInv' /\ \A r \in Requests : Fine(r)' => Fine(r)
  <1>1. /\ TypeOK /\ load \in Loads /\ due[s] = "release" /\ pop_deferred_task(s)
        /\ slot' = [slot EXCEPT ![s] = IdleSlot] /\ due' = [due EXCEPT ![s] = "none"]
        /\ UNCHANGED <<waiting_task_ids, results, batched, mpc, cur, reply, cpc, received>>
    BY DEF IInv, TypeOK, release, LoopAt, resp, reader
  <1>2. /\ queue_tasks' \in Seq(QueueElems) /\ queue_tasks_deferred' \in Seq(Tasks)
        /\ \A t \in Tasks : Cancel(t) \in ElemsOf(queue_tasks') <=> Cancel(t) \in ElemsOf(queue_tasks)
        /\ \A t \in Tasks : Run(t) \in ElemsOf(queue_tasks') \/ t \in ElemsOf(queue_tasks_deferred')
                        <=> Run(t) \in ElemsOf(queue_tasks) \/ t \in ElemsOf(queue_tasks_deferred)
    BY <1>1, PopFact
  <1>3. /\ due \in [Slots -> Duties] /\ slot \in [Slots -> [st : SlotStates, task : Tasks \cup {NoTask}, turns : Nat]]
        /\ due'[s] = "none" /\ slot'[s] = IdleSlot
        /\ \A x \in Slots : x # s => due'[x] = due[x] /\ slot'[x] = slot[x]
    BY <1>1 DEF TypeOK
  <1>4. TypeOK'
    <2>1. due' \in [Slots -> Duties]
      BY <1>1, <1>3 DEF Duties
    <2>2. IdleSlot \in [st : SlotStates, task : Tasks \cup {NoTask}, turns : Nat]
      BY DEF IdleSlot, SlotStates
    <2>3. slot' \in [Slots -> [st : SlotStates, task : Tasks \cup {NoTask}, turns : Nat]]
      BY <1>1, <1>3, <2>2
    <2>4. QED
      BY <1>1, <1>2, <2>1, <2>3 DEF TypeOK
  <1>5. (\A q : IdTasks(q)' = IdTasks(q)) /\ (\A c, p : IsChildOf(c, p)' <=> IsChildOf(c, p))
    BY LoadKept
  <1>6. \A t \in Tasks : (Pending(t)' <=> Pending(t)) /\ (Cancelling(t)' <=> Cancelling(t))
    BY <1>1, <1>2 DEF Pending, Cancelling
  <1>7. PostedOK' /\ CancelOK' /\ WaitingOK' /\ \A r : Begun(r)' <=> Begun(r)
    BY <1>1, <1>6, MainFrame
  <1>8. IdleSlot.st = "idle" /\ IdleSlot.task = NoTask
    BY DEF IdleSlot
  <1>9. CursorOK'
    BY <1>1 DEF IInv, CursorOK
  <1>10. BatchOK'
    <2>1. batched \subseteq Slots
      BY <1>1 DEF TypeOK
    <2>2. QED
      BY <1>1, <1>3, <2>1 DEF IInv, BatchOK
  <1>11. SlotsOK'
    BY <1>3, <1>5, <1>7, <1>8 DEF IInv, SlotsOK, Busy
  <1>12. ASSUME NEW r \in Requests, Fine(r)' PROVE Fine(r)
    <2>1. HasError(r) => HasError(r)'
      BY <1>1, <1>3, <1>5 DEF HasError
    <2>2. QED
      BY <1>1, <1>12, <2>1 DEF Fine
  <1>13. Kept'
    <2>1. SUFFICES ASSUME NEW r \in Requests, Fine(r)', NEW t \in IdTasks(r) PROVE Safe(r, t)'
      BY <1>5 DEF Kept
    <2>2. Safe(r, t) /\ t \in Tasks
      BY <1>1, <1>12, <2>1, TasksFact DEF IInv, Kept
    <2>3. HasResult(r, t, {"final"})' <=> HasResult(r, t, {"final"})
      BY <1>1 DEF HasResult
    <2>4. \A x \in Slots : slot[x].task = t /\ due[x] # "release" => slot'[x].task = t /\ due'[x] # "release"
      BY <1>1, <1>3
    <2>5. QED
      BY <1>1, <1>5, <1>6, <2>2, <2>3, <2>4 DEF Safe
  <1>14. QED
    BY <1>4, <1>7, <1>9, <1>10, <1>11, <1>12, <1>13 DEF IInv

\* With nothing left to send or release, no slot is about to be released, and
\* an error is one that a reader already has.
LEMMA AtFact ==
  ASSUME IInv, NEW p, At(p)
  PROVE  /\ mpc = p /\ reply = NoReply /\ \A s \in Slots : due[s] = "none"
         /\ \A t \in Tasks : reply.t # t
         /\ \A r : HasError(r) <=> \E i \in DOMAIN results[r] : results[r][i].kind = "error"
         /\ p # "process" => cur = NextResponse
  <1>1. mpc = p /\ reply = NoReply /\ due = Nothing /\ CursorOK
    BY DEF At, agenda, IInv
  <1>2. \A s \in Slots : due[s] = "none"
    BY <1>1 DEF Nothing
  <1>3. reply.t = NoTask /\ reply.kind # "error"
    BY <1>1 DEF NoReply
  <1>4. QED
    BY <1>1, <1>2, <1>3, TasksAssumption DEF HasError, CursorOK

\* A step that sends nothing makes no error disappear.
LEMMA AtFine ==
  ASSUME IInv, NEW p, At(p), UNCHANGED <<results, cpc>>
  PROVE  \A r : Fine(r)' => Fine(r)
  <1>1. \A r : HasError(r) => HasError(r)'
    BY AtFact DEF HasError
  <1>2. QED
    BY <1>1 DEF Fine

\* A step of the main thread that takes no result away keeps what matters to a
\* reader, if it keeps the tasks that are pending or in a slot.
LEMMA AtKept ==
  ASSUME IInv, NEW p, At(p), UNCHANGED <<load, results, cpc, received>>,
         \A r \in Requests : \A t \in IdTasks(r) :
           /\ Fine(r)'
           /\ Pending(t) \/ (\E x \in Tasks : IsChildOf(t, x) /\ Pending(x)) \/ \E s \in Slots : slot[s].task = t
           => Safe(r, t)'
  PROVE  Kept'
  <1>1. load \in Loads /\ Kept
    BY DEF IInv, TypeOK
  <1>2. (\A q : IdTasks(q)' = IdTasks(q)) /\ (\A x, y : IsChildOf(x, y)' <=> IsChildOf(x, y))
    BY LoadKept
  <1>3. SUFFICES ASSUME NEW r \in Requests, Fine(r)', NEW t \in IdTasks(r) PROVE Safe(r, t)'
    BY <1>2 DEF Kept
  <1>4. Fine(r)
    BY <1>3, AtFine
  <1>5. Safe(r, t) /\ t \in Tasks
    BY <1>1, <1>4, TasksFact DEF Kept
  <1>6. HasResult(r, t, {"final"})' <=> HasResult(r, t, {"final"})
    BY DEF HasResult
  <1>7. CASE t \in received[r] \/ HasResult(r, t, {"final"})
    BY <1>6, <1>7 DEF Safe
  <1>8. CASE ~(t \in received[r] \/ HasResult(r, t, {"final"}))
    <2>1. reply.t # t
      BY <1>5, AtFact
    <2>2. Pending(t) \/ (\E x \in Tasks : IsChildOf(t, x) /\ Pending(x)) \/ \E s \in Slots : slot[s].task = t
      BY <1>5, <1>8, <2>1 DEF Safe
    <2>3. QED
      BY <1>3, <2>2
  <1>9. QED
    BY <1>7, <1>8

\* ... in particular if the slots keep their tasks and none is to be released.
LEMMA AtKeptSlots ==
  ASSUME IInv, NEW p, At(p), UNCHANGED <<load, results, cpc, received>>,
         \A t \in Tasks : Pending(t) => Pending(t)',
         \A s \in Slots : slot'[s].task = slot[s].task /\ due'[s] # "release"
  PROVE  Kept'
  <1>1. load \in Loads /\ \A x, y : IsChildOf(x, y)' <=> IsChildOf(x, y)
    BY LoadKept DEF IInv, TypeOK
  <1>2. ASSUME NEW r \in Requests, NEW t \in IdTasks(r),
               Pending(t) \/ (\E x \in Tasks : IsChildOf(t, x) /\ Pending(x)) \/ \E s \in Slots : slot[s].task = t
        PROVE  Safe(r, t)'
    <2>1. t \in Tasks
      BY <1>1, TasksFact
    <2>2. QED
      BY <1>1, <1>2, <2>1 DEF Safe
  <1>3. QED
    BY <1>2, AtKept

\* Taking a task from the queue.
LEMMA DrainStep ==
  ASSUME IInv, drain, load' = load
  PROVE  IInv'
  <1>1. /\ TypeOK /\ load \in Loads /\ At("drain") /\ mpc' \in {"update", "process"}
        /\ \/ queue_tasks = <<>> /\ mpc' = "update" /\ UNCHANGED <<queue_tasks, cur>>
           \/ /\ queue_tasks # <<>> /\ mpc' = "process"
              /\ cur' = Head(queue_tasks) /\ queue_tasks' = Tail(queue_tasks)
        /\ UNCHANGED <<queue_tasks_deferred, waiting_task_ids, results, slot, batched, reply, due, cpc, received>>
    BY DEF IInv, TypeOK, drain, resp, agenda, reader
  <1>2. cur = NextResponse /\ \A s \in Slots : due[s] = "none"
    BY <1>1, AtFact
  <1>3. queue_tasks \in Seq(QueueElems) /\ cur \in QueueElems
    BY <1>1 DEF TypeOK
  <1>4. /\ queue_tasks' \in Seq(QueueElems) /\ cur' \in QueueElems
        /\ \A x : x # NextResponse => (x \in ElemsOf(queue_tasks') \/ cur' = x <=> x \in ElemsOf(queue_tasks))
    <2>1. CASE queue_tasks # <<>>
      BY <1>1, <1>3, <2>1, HeadElems, ZenonT(60)
    <2>2. CASE queue_tasks = <<>>
      BY <1>1, <1>2, <1>3, <2>2
    <2>3. QED
      BY <2>1, <2>2
  <1>5. TypeOK'
    BY <1>1, <1>4 DEF TypeOK, MainPoints
  <1>6. \A t \in Tasks : (Pending(t)' <=> Pending(t)) /\ (Cancelling(t)' <=> Cancelling(t))
    <2>1. \A t : Run(t) # NextResponse /\ Cancel(t) # NextResponse
      BY RecordFact
    <2>2. QED
      BY <1>1, <1>2, <1>4, <2>1 DEF Pending, Cancelling
  <1>7. PostedOK' /\ CancelOK' /\ WaitingOK' /\ \A r : Begun(r)' <=> Begun(r)
    BY <1>1, <1>6, MainFrame
  <1>8. CursorOK' /\ BatchOK'
    BY <1>1, <1>2 DEF CursorOK, BatchOK
  <1>9. SlotsOK'
    BY <1>1, <1>7, LoadKept DEF IInv, SlotsOK, Busy
  <1>10. Kept'
    BY <1>1, <1>2, <1>6, AtKeptSlots
  <1>11. QED
    BY <1>5, <1>7, <1>8, <1>9, <1>10 DEF IInv

\* Starting an iteration, or going to sleep with all slots idle.
LEMMA UpdateStep ==
  ASSUME IInv, update_slots, load' = load
  PROVE  IInv'
  <1>1. /\ TypeOK /\ load \in Loads /\ At("update") /\ mpc' \in {"wait", "pre_decode"}
        /\ queue_tasks' = queue_tasks \/ queue_tasks' = Append(queue_tasks, NextResponse)
        /\ UNCHANGED <<queue_tasks_deferred, waiting_task_ids, results, slot, batched, cur, reply, due, cpc, received>>
    BY DEF IInv, TypeOK, update_slots, resp, agenda, reader
  <1>2. cur = NextResponse /\ \A s \in Slots : due[s] = "none"
    BY <1>1, AtFact
  <1>3. queue_tasks \in Seq(QueueElems)
    BY <1>1 DEF TypeOK
  <1>4. /\ queue_tasks' \in Seq(QueueElems)
        /\ \A x : x # NextResponse => (x \in ElemsOf(queue_tasks') <=> x \in ElemsOf(queue_tasks))
    <2>1. /\ Append(queue_tasks, NextResponse) \in Seq(QueueElems)
          /\ ElemsOf(Append(queue_tasks, NextResponse)) = ElemsOf(queue_tasks) \cup {NextResponse}
      BY <1>3, RecordFact, AppendElems
    <2>2. QED
      BY <1>1, <1>3, <2>1
  <1>5. TypeOK'
    BY <1>1, <1>4 DEF TypeOK, MainPoints
  <1>6. \A t \in Tasks : (Pending(t)' <=> Pending(t)) /\ (Cancelling(t)' <=> Cancelling(t))
    <2>1. \A t : Run(t) # NextResponse /\ Cancel(t) # NextResponse
      BY RecordFact
    <2>2. QED
      BY <1>1, <1>4, <2>1 DEF Pending, Cancelling
  <1>7. PostedOK' /\ CancelOK' /\ WaitingOK' /\ \A r : Begun(r)' <=> Begun(r)
    BY <1>1, <1>6, MainFrame
  <1>8. CursorOK' /\ BatchOK'
    BY <1>1, <1>2 DEF CursorOK, BatchOK
  <1>9. SlotsOK'
    BY <1>1, <1>7, LoadKept DEF IInv, SlotsOK, Busy
  <1>10. Kept'
    BY <1>1, <1>2, <1>6, AtKeptSlots
  <1>11. QED
    BY <1>5, <1>7, <1>8, <1>9, <1>10 DEF IInv

\* Waking up for a new task.
LEMMA WaitStep ==
  ASSUME IInv, wait_for_tasks, load' = load
  PROVE  IInv'
  <1>1. /\ TypeOK /\ load \in Loads /\ At("wait") /\ mpc' = "drain"
        /\ UNCHANGED <<queue_tasks, queue_tasks_deferred, waiting_task_ids, results, slot, batched, cur, reply, due, cpc, received>>
    BY DEF IInv, TypeOK, wait_for_tasks, queues, resp, agenda, reader
  <1>2. cur = NextResponse /\ \A s \in Slots : due[s] = "none"
    BY <1>1, AtFact
  <1>3. TypeOK'
    BY <1>1 DEF TypeOK, MainPoints
  <1>4. \A t : (Pending(t)' <=> Pending(t)) /\ (Cancelling(t)' <=> Cancelling(t))
    BY <1>1, SameQueues
  <1>5. PostedOK' /\ CancelOK' /\ WaitingOK' /\ \A r : Begun(r)' <=> Begun(r)
    BY <1>1, <1>4, MainFrame
  <1>6. CursorOK' /\ BatchOK'
    BY <1>1, <1>2 DEF CursorOK, BatchOK
  <1>7. SlotsOK'
    BY <1>1, <1>5, LoadKept DEF IInv, SlotsOK, Busy
  <1>8. Kept'
    BY <1>1, <1>2, <1>4, AtKeptSlots
  <1>9. QED
    BY <1>3, <1>5, <1>6, <1>7, <1>8 DEF IInv

SlotRecords == [st : SlotStates, task : Tasks \cup {NoTask}, turns : Nat]

\* What pre_decode does to a slot: only a slot with a prompt or a generating one
\* gets something to send, and it keeps its task.
LEMMA PreDecodeFact ==
  ASSUME IInv, pre_decode
  PROVE  /\ At("pre_decode") /\ mpc' \in {"decode", "wait"}
         /\ slot' \in [Slots -> SlotRecords] /\ due' \in [Slots -> Duties] /\ batched' \subseteq Slots
         /\ \A s \in Slots :
              /\ slot'[s].task = slot[s].task
              /\ slot'[s].st = slot[s].st \/ (slot[s].st = "started" /\ slot'[s].st = "done_prompt")
              /\ due'[s] \in {"none", "error", "final"}
              /\ due'[s] # "none" => slot[s].st \in {"started", "generating"}
              /\ due'[s] = "final" => slot[s].st = "started" /\ slot[s].task \in EmptyPrompt
         /\ \A s \in batched' : slot'[s].st = "generating" /\ due'[s] = "none"
  <1>1. PICK prompts \in BatchablePrompts, full \in SUBSET (IF MayFail THEN In("generating") ELSE {}),
             outcome \in [Slots -> {"none", "error", "final", "done", "chunk"}] :
          /\ \A s \in Slots : outcome[s] \in IF s \in prompts THEN PromptOutcomes(s)
                                             ELSE IF s \in full THEN {"error"} ELSE {"none"}
          /\ slot' = [s \in Slots |->
                        CASE outcome[s] = "done"  -> [slot[s] EXCEPT !.st = "done_prompt"]
                          [] outcome[s] = "chunk" -> [slot[s] EXCEPT !.turns = @ + 1]
                          [] OTHER -> slot[s]]
          /\ batched' = In("generating") \ full
          /\ due' = [s \in Slots |-> IF outcome[s] \in {"done", "chunk"} THEN "none" ELSE outcome[s]]
          /\ mpc' \in {"decode", "wait"}
    BY DEF pre_decode
  <1>2. At("pre_decode") /\ slot \in [Slots -> SlotRecords]
    BY DEF pre_decode, IInv, TypeOK, SlotRecords
  <1>3. prompts \subseteq In("started") /\ full \subseteq In("generating")
    <2>1. prompts \subseteq In("started")
      BY <1>1 DEF BatchablePrompts
    <2>2. full \subseteq In("generating")
      BY <1>1
    <2>3. QED
      BY <2>1, <2>2
  <1>4. ASSUME NEW s \in Slots
        PROVE  /\ outcome[s] \in {"none", "error", "final", "done", "chunk"}
               /\ outcome[s] \in {"done", "chunk", "final"} => s \in prompts /\ slot[s].st = "started"
               /\ outcome[s] = "final" => slot[s].task \in EmptyPrompt
               /\ outcome[s] = "error" => slot[s].st \in {"started", "generating"}
               /\ slot[s].st = "generating" /\ s \notin full => outcome[s] = "none"
    <2>1. outcome[s] \in {"none", "error", "final", "done", "chunk"}
      BY <1>1
    <2>2. s \in prompts => slot[s].st = "started"
      BY <1>3 DEF In
    <2>3. s \in full => slot[s].st = "generating"
      BY <1>3 DEF In
    <2>4. CASE s \in prompts
      <3>1. outcome[s] \in PromptOutcomes(s)
        BY <1>1, <2>4
      <3>2. outcome[s] = "final" => slot[s].task \in EmptyPrompt
        BY <3>1 DEF PromptOutcomes
      <3>3. QED
        BY <2>1, <2>2, <2>4, <3>2
    <2>5. CASE s \notin prompts
      <3>1. outcome[s] \in IF s \in full THEN {"error"} ELSE {"none"}
        BY <1>1, <2>5
      <3>2. QED
        BY <2>1, <2>3, <2>5, <3>1
    <2>6. QED
      BY <2>4, <2>5
  <1>5. ASSUME NEW s \in Slots
        PROVE  /\ slot'[s] \in SlotRecords /\ slot'[s].task = slot[s].task
               /\ slot'[s].st = IF outcome[s] = "done" THEN "done_prompt" ELSE slot[s].st
    <2>1. slot[s] \in SlotRecords
      BY <1>2
    <2>2. CASE outcome[s] = "done"
      <3>1. slot'[s] = [slot[s] EXCEPT !.st = "done_prompt"]
        BY <1>1, <2>2
      <3>2. QED
        BY <2>1, <2>2, <3>1 DEF SlotRecords, SlotStates
    <2>3. CASE outcome[s] = "chunk"
      <3>1. slot'[s] = [slot[s] EXCEPT !.turns = @ + 1]
        BY <1>1, <2>3
      <3>2. QED
        BY <2>1, <2>3, <3>1 DEF SlotRecords, SlotStates
    <2>4. CASE outcome[s] \notin {"done", "chunk"}
      <3>1. slot'[s] = slot[s]
        BY <1>1, <2>4
      <3>2. QED
        BY <2>1, <2>4, <3>1
    <2>5. QED
      BY <2>2, <2>3, <2>4
  <1>6. slot' \in [Slots -> SlotRecords]
    <2>1. slot' = [s \in Slots |-> slot'[s]]
      BY <1>1
    <2>2. QED
      BY <1>5, <2>1
  <1>7. ASSUME NEW s \in Slots
        PROVE  /\ due'[s] \in {"none", "error", "final"}
               /\ due'[s] # "none" => due'[s] = outcome[s]
               /\ outcome[s] = "none" => due'[s] = "none"
    BY <1>1, <1>4
  <1>8. due' \in [Slots -> Duties]
    <2>1. due' = [s \in Slots |-> due'[s]]
      BY <1>1
    <2>2. QED
      BY <1>7, <2>1 DEF Duties, ResultKinds
  <1>9. ASSUME NEW s \in batched' PROVE s \in Slots /\ slot'[s].st = "generating" /\ due'[s] = "none"
    <2>1. s \in Slots /\ slot[s].st = "generating" /\ s \notin full
      BY <1>1 DEF In
    <2>2. QED
      BY <1>4, <1>5, <1>7, <2>1
  <1>10. ASSUME NEW s \in Slots
         PROVE  /\ slot'[s].task = slot[s].task
                /\ slot'[s].st = slot[s].st \/ (slot[s].st = "started" /\ slot'[s].st = "done_prompt")
                /\ due'[s] # "none" => slot[s].st \in {"started", "generating"}
                /\ due'[s] = "final" => slot[s].st = "started" /\ slot[s].task \in EmptyPrompt
    BY <1>4, <1>5, <1>7
  <1>11. batched' \subseteq Slots
    BY <1>9
  <1>12. QED
    BY <1>1, <1>2, <1>6, <1>7, <1>8, <1>9, <1>10, <1>11, ZenonT(60)

\* A slot is idle or not as before.
LEMMA BusyFact ==
  ASSUME IInv, \A s \in Slots : slot'[s].task = slot[s].task /\ (Busy(s)' <=> Busy(s)),
         \A s \in Slots : ~Busy(s) => due'[s] = "none",
         load' = load, \A r : Begun(r)' <=> Begun(r)
  PROVE  SlotsOK'
  BY LoadKept DEF IInv, SlotsOK

\* Putting the batch together.
LEMMA PreDecodeStep ==
  ASSUME IInv, pre_decode, load' = load
  PROVE  IInv'
  <1>1. /\ TypeOK /\ load \in Loads
        /\ UNCHANGED <<queue_tasks, queue_tasks_deferred, waiting_task_ids, results, cur, reply, cpc, received>>
    BY DEF IInv, TypeOK, pre_decode, queues, resp, reader
  <1>2. /\ At("pre_decode") /\ mpc' \in {"decode", "wait"}
        /\ slot' \in [Slots -> SlotRecords] /\ due' \in [Slots -> Duties] /\ batched' \subseteq Slots
        /\ \A s \in Slots :
             /\ slot'[s].task = slot[s].task
             /\ slot'[s].st = slot[s].st \/ (slot[s].st = "started" /\ slot'[s].st = "done_prompt")
             /\ due'[s] \in {"none", "error", "final"}
             /\ due'[s] # "none" => slot[s].st \in {"started", "generating"}
        /\ \A s \in batched' : slot'[s].st = "generating" /\ due'[s] = "none"
    BY PreDecodeFact
  <1>3. cur = NextResponse
    BY <1>2, AtFact
  <1>4. TypeOK'
    BY <1>1, <1>2 DEF TypeOK, MainPoints, SlotRecords
  <1>5. \A t : (Pending(t)' <=> Pending(t)) /\ (Cancelling(t)' <=> Cancelling(t))
    BY <1>1, SameQueues
  <1>6. PostedOK' /\ CancelOK' /\ WaitingOK' /\ \A r : Begun(r)' <=> Begun(r)
    BY <1>1, <1>5, MainFrame
  <1>7. CursorOK' /\ BatchOK'
    BY <1>1, <1>2, <1>3 DEF CursorOK, BatchOK
  <1>8. SlotsOK'
    <2>1. \A s \in Slots : (Busy(s)' <=> Busy(s)) /\ (~Busy(s) => due'[s] = "none")
      BY <1>2 DEF Busy
    <2>2. QED
      BY <1>2, <1>6, <2>1, BusyFact
  <1>9. Kept'
    BY <1>1, <1>2, <1>5, AtKeptSlots
  <1>10. QED
    BY <1>4, <1>6, <1>7, <1>8, <1>9 DEF IInv

\* The two ends of decode: the children of a parent whose prompt is done go on,
\* or every slot that works on something gets an error.
Activated(s) ==
    \E p \in In("done_prompt") : slot[s].st = "wait_other" /\ IsChildOf(slot[s].task, slot[p].task)

\* After decode all slots have their tasks, and either all go on or all busy ones fail.
LEMMA DecodeFact ==
  ASSUME IInv, decode
  PROVE  /\ At("decode") /\ mpc' \in {"post_decode", "wait"}
         /\ slot' \in [Slots -> SlotRecords] /\ due' \in [Slots -> Duties]
         /\ \A s \in Slots : slot'[s].task = slot[s].task /\ due'[s] \in {"none", "error"}
         /\ mpc' = "post_decode" => /\ \A s \in Slots : slot'[s].st = IF Activated(s) THEN "done_prompt" ELSE slot[s].st
                                    /\ due' = due
         /\ mpc' = "wait" => slot' = slot /\ \A s \in Slots : due'[s] = IF Busy(s) THEN "error" ELSE "none"
  <1>1. At("decode") /\ slot \in [Slots -> SlotRecords] /\ due \in [Slots -> Duties] /\ \A s \in Slots : due[s] = "none"
    BY AtFact DEF decode, IInv, TypeOK, SlotRecords
  <1>2. CASE /\ slot' = [s \in Slots |-> IF Activated(s) THEN [slot[s] EXCEPT !.st = "done_prompt"] ELSE slot[s]]
             /\ mpc' = "post_decode" /\ due' = due
    <2>1. ASSUME NEW s \in Slots
          PROVE  /\ slot'[s] \in SlotRecords /\ slot'[s].task = slot[s].task
                 /\ slot'[s].st = IF Activated(s) THEN "done_prompt" ELSE slot[s].st
      <3>1. slot[s] \in SlotRecords
        BY <1>1
      <3>2. CASE Activated(s)
        <4>1. slot'[s] = [slot[s] EXCEPT !.st = "done_prompt"]
          BY <1>2, <3>2
        <4>2. QED
          BY <3>1, <3>2, <4>1 DEF SlotRecords, SlotStates
      <3>3. CASE ~Activated(s)
        <4>1. slot'[s] = slot[s]
          BY <1>2, <3>3
        <4>2. QED
          BY <3>1, <3>3, <4>1
      <3>4. QED
        BY <3>2, <3>3
    <2>2. slot' = [s \in Slots |-> slot'[s]]
      BY <1>2
    <2>3. slot' \in [Slots -> SlotRecords]
      BY <2>1, <2>2
    <2>4. QED
      BY <1>1, <1>2, <2>1, <2>3
  <1>3. CASE /\ due' = [s \in Slots |-> IF Busy(s) THEN "error" ELSE "none"]
             /\ mpc' = "wait" /\ slot' = slot
    <2>1. \A s \in Slots : due'[s] = IF Busy(s) THEN "error" ELSE "none"
      BY <1>3
    <2>2. due' \in [Slots -> Duties]
      BY <1>3 DEF Duties, ResultKinds
    <2>3. QED
      BY <1>1, <1>3, <2>1, <2>2
  <1>4. QED
    BY <1>2, <1>3 DEF decode, Activated, agenda

\* Decoding the batch.
LEMMA DecodeStep ==
  ASSUME IInv, decode, load' = load
  PROVE  IInv'
  <1>1. /\ TypeOK /\ load \in Loads /\ BatchOK
        /\ UNCHANGED <<queue_tasks, queue_tasks_deferred, waiting_task_ids, results, batched, cur, reply, cpc, received>>
    BY DEF IInv, TypeOK, decode, queues, resp, agenda, reader
  <1>2. /\ At("decode") /\ mpc' \in {"post_decode", "wait"}
        /\ slot' \in [Slots -> SlotRecords] /\ due' \in [Slots -> Duties]
        /\ \A s \in Slots : slot'[s].task = slot[s].task /\ due'[s] \in {"none", "error"}
        /\ mpc' = "post_decode" => /\ \A s \in Slots : slot'[s].st = IF Activated(s) THEN "done_prompt" ELSE slot[s].st
                                   /\ due' = due
        /\ mpc' = "wait" => slot' = slot /\ \A s \in Slots : due'[s] = IF Busy(s) THEN "error" ELSE "none"
    BY DecodeFact
  <1>3. cur = NextResponse /\ mpc = "decode" /\ \A s \in Slots : due[s] = "none"
    BY <1>2, AtFact
  <1>4. TypeOK'
    BY <1>1, <1>2 DEF TypeOK, MainPoints, SlotRecords
  <1>5. \A t : (Pending(t)' <=> Pending(t)) /\ (Cancelling(t)' <=> Cancelling(t))
    BY <1>1, SameQueues
  <1>6. PostedOK' /\ CancelOK' /\ WaitingOK' /\ \A r : Begun(r)' <=> Begun(r)
    BY <1>1, <1>5, MainFrame
  <1>7. \A s \in Slots : Activated(s) => slot[s].st = "wait_other"
    BY DEF Activated
  <1>8. CursorOK'
    BY <1>1, <1>3 DEF CursorOK
  <1>9. BatchOK'
    <2>1. batched \subseteq Slots
      BY <1>1 DEF TypeOK
    <2>2. QED
      BY <1>1, <1>2, <1>3, <1>7, <2>1 DEF BatchOK
  <1>10. SlotsOK'
    <2>1. \A s \in Slots : (Busy(s)' <=> Busy(s)) /\ (~Busy(s) => due'[s] = "none")
      BY <1>2, <1>3, <1>7 DEF Busy
    <2>2. QED
      BY <1>2, <1>6, <2>1, BusyFact
  <1>11. Kept'
    BY <1>1, <1>2, <1>5, AtKeptSlots
  <1>12. QED
    BY <1>4, <1>6, <1>8, <1>9, <1>10, <1>11 DEF IInv

\* Only slots in the batch or with a prompt that is done get a token.
LEMMA PostDecodeFact ==
  ASSUME IInv, post_decode
  PROVE  /\ At("post_decode") /\ mpc' = "wait" /\ batched' = {}
         /\ slot' \in [Slots -> SlotRecords] /\ due' \in [Slots -> Duties]
         /\ \A s \in Slots :
              /\ slot'[s].task = slot[s].task /\ due'[s] \in {"none", "partial", "final"}
              /\ slot[s].st \notin {"generating", "done_prompt"} => slot'[s] = slot[s] /\ due'[s] = "none"
              /\ slot'[s].st \in {slot[s].st, "generating"}
  <1> DEFINE sampled == batched \cup In("done_prompt")
  <1>1. PICK outcome \in [Slots -> {"none", "partial", "final"}] :
          /\ \A s \in Slots : outcome[s] \in IF s \in sampled THEN TokenOutcomes(s) ELSE {"none"}
          /\ slot' = [s \in Slots |-> IF s \in sampled /\ Kind[slot[s].task] # "embedding"
                                        THEN [slot[s] EXCEPT !.st = "generating", !.turns = @ + 1]
                                        ELSE slot[s]]
          /\ due' = outcome /\ batched' = {} /\ mpc' = "wait"
    BY DEF post_decode
  <1>2. At("post_decode") /\ mpc = "post_decode" /\ slot \in [Slots -> SlotRecords] /\ BatchOK /\ batched \subseteq Slots
    BY AtFact DEF post_decode, IInv, TypeOK, SlotRecords
  <1>3. \A s \in Slots : s \in sampled => slot[s].st \in {"generating", "done_prompt"}
    BY <1>2 DEF BatchOK, In
  <1>4. ASSUME NEW s \in Slots
        PROVE  /\ slot'[s] \in SlotRecords /\ slot'[s].task = slot[s].task
               /\ s \notin sampled => slot'[s] = slot[s] /\ due'[s] = "none"
               /\ slot'[s].st \in {slot[s].st, "generating"}
               /\ due'[s] \in {"none", "partial", "final"}
    <2>1. slot[s] \in SlotRecords /\ due'[s] = outcome[s]
      BY <1>1, <1>2
    <2>2. CASE s \in sampled /\ Kind[slot[s].task] # "embedding"
      <3>1. slot'[s] = [slot[s] EXCEPT !.st = "generating", !.turns = @ + 1]
        BY <1>1, <2>2
      <3>2. slot[s].turns + 1 \in Nat /\ slot[s].task \in Tasks \cup {NoTask}
        BY <2>1 DEF SlotRecords
      <3>3. slot'[s] = [st |-> "generating", task |-> slot[s].task, turns |-> slot[s].turns + 1]
        BY <2>1, <3>1 DEF SlotRecords
      <3>4. QED
        BY <2>1, <2>2, <3>2, <3>3, <1>1 DEF SlotRecords, SlotStates
    <2>3. CASE ~(s \in sampled /\ Kind[slot[s].task] # "embedding")
      <3>1. slot'[s] = slot[s]
        BY <1>1, <2>3
      <3>2. s \notin sampled => outcome[s] = "none"
        BY <1>1
      <3>3. QED
        BY <2>1, <3>1, <3>2
    <2>4. QED
      BY <2>2, <2>3
  <1>5. slot' \in [Slots -> SlotRecords]
    <2>1. slot' = [s \in Slots |-> slot'[s]]
      BY <1>1
    <2>2. QED
      BY <1>4, <2>1
  <1>6. due' \in [Slots -> Duties]
    BY <1>1 DEF Duties, ResultKinds
  <1> HIDE DEF sampled
  <1>7. QED
    BY <1>1, <1>2, <1>3, <1>4, <1>5, <1>6

\* Sampling a token for each slot in the batch.
LEMMA PostDecodeStep ==
  ASSUME IInv, post_decode, load' = load
  PROVE  IInv'
  <1>1. /\ TypeOK /\ load \in Loads
        /\ UNCHANGED <<queue_tasks, queue_tasks_deferred, waiting_task_ids, results, cur, reply, cpc, received>>
    BY DEF IInv, TypeOK, post_decode, queues, resp, reader
  <1>2. /\ At("post_decode") /\ mpc' = "wait" /\ batched' = {}
        /\ slot' \in [Slots -> SlotRecords] /\ due' \in [Slots -> Duties]
        /\ \A s \in Slots :
             /\ slot'[s].task = slot[s].task /\ due'[s] \in {"none", "partial", "final"}
             /\ slot[s].st \notin {"generating", "done_prompt"} => slot'[s] = slot[s] /\ due'[s] = "none"
             /\ slot'[s].st \in {slot[s].st, "generating"}
    BY PostDecodeFact
  <1>3. cur = NextResponse
    BY <1>2, AtFact
  <1>4. TypeOK'
    BY <1>1, <1>2 DEF TypeOK, MainPoints, SlotRecords
  <1>5. \A t : (Pending(t)' <=> Pending(t)) /\ (Cancelling(t)' <=> Cancelling(t))
    BY <1>1, SameQueues
  <1>6. PostedOK' /\ CancelOK' /\ WaitingOK' /\ \A r : Begun(r)' <=> Begun(r)
    BY <1>1, <1>5, MainFrame
  <1>7. CursorOK' /\ BatchOK'
    BY <1>1, <1>2, <1>3 DEF CursorOK, BatchOK
  <1>8. SlotsOK'
    <2>1. \A s \in Slots : (Busy(s)' <=> Busy(s)) /\ (~Busy(s) => due'[s] = "none")
      BY <1>2 DEF Busy
    <2>2. QED
      BY <1>2, <1>6, <2>1, BusyFact
  <1>9. Kept'
    BY <1>1, <1>2, <1>5, AtKeptSlots
  <1>10. QED
    BY <1>4, <1>6, <1>7, <1>8, <1>9 DEF IInv

\* The free slots are idle, differ from the slot itself and from one another.
LEMMA FreeFact ==
  ASSUME NEW s \in Slots
  PROVE  /\ Len(FreeSlotsBut(s)) \in Nat
         /\ \A i \in 1 .. Len(FreeSlotsBut(s)) :
              /\ FreeSlotsBut(s)[i] \in Slots /\ FreeSlotsBut(s)[i] # s /\ ~Busy(FreeSlotsBut(s)[i])
              /\ \A j \in 1 .. Len(FreeSlotsBut(s)) : FreeSlotsBut(s)[i] = FreeSlotsBut(s)[j] => i = j
  <1> DEFINE S == {x \in Slots \ {s} : ~Busy(x)}
  <1>1. S \in SUBSET Nat /\ IsFiniteSet(S)
    <2>1. Slots \subseteq Nat /\ IsFiniteSet(Slots)
      BY TasksAssumption, FS_Interval DEF Slots
    <2>2. QED
      BY <2>1, FS_Subset
  <1>2. FreeSlotsBut(s) = InOrder(S)
    BY DEF FreeSlotsBut
  <1>3. \A x \in S : x \in Slots /\ x # s /\ ~Busy(x)
    OBVIOUS
  <1> HIDE DEF S
  <1>4. PICK n \in Nat : n = Cardinality(S)
    BY <1>1, FS_CardinalityType
  <1>5. /\ FreeSlotsBut(s) \in [1 .. n -> S]
        /\ \A i, j \in 1 .. n : FreeSlotsBut(s)[i] = FreeSlotsBut(s)[j] => i = j
    BY <1>1, <1>2, <1>4, InOrderFact
  <1>6. Len(FreeSlotsBut(s)) = n
    BY <1>4, <1>5
  <1>7. QED
    BY <1>3, <1>4, <1>5, <1>6

\* The first k children go to k different idle slots other than s.
LEMMA WithChildrenFact ==
  ASSUME IInv, NEW t \in Tasks, NEW s \in Slots,
         NEW k \in 0 .. Len(Children[t]), k <= Len(FreeSlotsBut(s)), NEW w, w = WithChildren(t, FreeSlotsBut(s), k)
  PROVE  /\ w \in [Slots -> SlotRecords] /\ w[s] = slot[s]
         /\ \A i \in 1 .. k : FreeSlotsBut(s)[i] \in Slots /\ w[FreeSlotsBut(s)[i]] = Launched(Children[t][i])
         /\ \A x \in Slots : \/ /\ ~Busy(x) /\ x # s
                                /\ \E i \in 1 .. k : FreeSlotsBut(s)[i] = x /\ w[x] = Launched(Children[t][i])
                             \/ w[x] = slot[x] /\ ~\E i \in 1 .. k : FreeSlotsBut(s)[i] = x
  <1>1. PICK free : free = FreeSlotsBut(s)
    OBVIOUS
  <1>2. /\ Children[t] \in Seq(Tasks) /\ slot \in [Slots -> SlotRecords]
    BY LoadFact DEF IInv, TypeOK, SlotRecords
  <1>3. /\ Len(free) \in Nat /\ Len(Children[t]) \in Nat
        /\ \A i \in 1 .. k : free[i] \in Slots /\ free[i] # s /\ ~Busy(free[i])
        /\ \A i, j \in 1 .. k : free[i] = free[j] => i = j
        /\ \A i \in 1 .. k : Children[t][i] \in Tasks
    BY <1>1, <1>2, FreeFact, SMTT(90)
  <1>4. \A u \in Tasks : Launched(u) \in SlotRecords
    BY DEF Launched, SlotRecords, SlotStates
  <1>5. ASSUME NEW i \in 1 .. k PROVE w[free[i]] = Launched(Children[t][i])
    <2>1. \A j \in 1 .. k : free[j] = free[i] => j = i
      BY <1>3
    <2>2. (CHOOSE j \in 1 .. k : free[j] = free[i]) = i
      BY <2>1
    <2>3. QED
      BY <1>1, <1>3, <2>2 DEF WithChildren
  <1>6. ASSUME NEW x \in Slots, ~\E i \in 1 .. k : free[i] = x PROVE w[x] = slot[x]
    BY <1>1, <1>6 DEF WithChildren
  <1>7. w = [x \in Slots |-> w[x]]
    BY DEF WithChildren
  <1>8. \A x \in Slots : w[x] \in SlotRecords
    BY <1>2, <1>3, <1>4, <1>5, <1>6
  <1>9. QED
    BY <1>1, <1>3, <1>5, <1>6, <1>7, <1>8

\* What process_single_task does in any case.
Processing == At("process") /\ cur' = NextResponse /\ mpc' = "drain"
              /\ UNCHANGED <<load, queue_tasks, waiting_task_ids, results, batched, cpc, received>>

\* What every outcome of process_single_task leaves alone.
LEMMA ProcessFrame ==
  ASSUME IInv, Processing,
         \A t \in Tasks : t \in ElemsOf(queue_tasks_deferred') => t \in ElemsOf(queue_tasks_deferred) \/ cur = Run(t)
  PROVE  /\ CursorOK' /\ BatchOK' /\ PostedOK' /\ CancelOK' /\ WaitingOK'
         /\ \A r : Begun(r)' <=> Begun(r)
         /\ \A q : IdTasks(q)' = IdTasks(q)
         /\ \A c, p : IsChildOf(c, p)' <=> IsChildOf(c, p)
  <1>1. /\ (\A q : IdTasks(q)' = IdTasks(q)) /\ (\A c, p : IsChildOf(c, p)' <=> IsChildOf(c, p))
    BY LoadKept DEF Processing
  <1>2. CursorOK' /\ BatchOK'
    BY DEF CursorOK, BatchOK, Processing
  <1>3. \A t \in Tasks : (Pending(t)' => Pending(t)) /\ (Cancelling(t)' => Cancelling(t))
    <2>1. \A t : Run(t) # NextResponse /\ Cancel(t) # NextResponse
      BY RecordFact
    <2>2. QED
      BY <2>1 DEF Pending, Cancelling, Processing
  <1>4. QED
    BY <1>1, <1>2, <1>3, MainFrame DEF Processing

\* A task that is deferred stays pending.
LEMMA ProcessDefer ==
  ASSUME IInv, Processing, NEW t0 \in Tasks, cur = Run(t0), defer(t0)
  PROVE  IInv'
  <1>1. /\ TypeOK /\ load \in Loads /\ queue_tasks_deferred \in Seq(Tasks)
        /\ queue_tasks_deferred' = Append(queue_tasks_deferred, t0) /\ UNCHANGED <<slot, reply, due>>
    BY DEF IInv, TypeOK, defer, agenda
  <1>2. queue_tasks_deferred' \in Seq(Tasks) /\ ElemsOf(queue_tasks_deferred') = ElemsOf(queue_tasks_deferred) \cup {t0}
    BY <1>1, AppendElems
  <1>3. TypeOK'
    BY <1>1, <1>2, RecordFact DEF TypeOK, Processing, MainPoints
  <1>4. /\ CursorOK' /\ BatchOK' /\ PostedOK' /\ CancelOK' /\ WaitingOK'
        /\ (\A r : Begun(r)' <=> Begun(r)) /\ (\A q : IdTasks(q)' = IdTasks(q))
    BY <1>2, ProcessFrame
  <1>5. SlotsOK'
    BY <1>1, <1>4 DEF IInv, SlotsOK, Busy
  <1>6. \A t \in Tasks : Pending(t) => Pending(t)'
    BY <1>2, RecordFact DEF Pending, Processing
  <1>7. Kept'
    <2>1. \A s \in Slots : slot'[s].task = slot[s].task /\ due'[s] # "release"
      BY <1>1, AtFact DEF Processing
    <2>2. QED
      BY <1>6, <2>1, AtKeptSlots DEF Processing
  <1>8. QED
    BY <1>3, <1>4, <1>5, <1>7 DEF IInv

\* After a launch the task and all its children have their slots.
LEMMA ProcessLaunched ==
  ASSUME IInv, Processing, NEW t0 \in Tasks, cur = Run(t0), NEW s \in Slots, ~Busy(s),
         Len(FreeSlotsBut(s)) >= Len(Children[t0]),
         slot' = [WithChildren(t0, FreeSlotsBut(s), Len(Children[t0])) EXCEPT ![s] = Launched(t0)],
         UNCHANGED <<queue_tasks_deferred, reply, due>>
  PROVE  /\ IInv'
         /\ slot'[s] = Launched(t0)
         /\ \A x \in Slots \ {s} :
              slot'[x] = slot[x] \/ (~Busy(x) /\ \E c \in ElemsOf(Children[t0]) : slot'[x] = Launched(c))
  <1>0. TypeOK /\ load \in Loads /\ PostedOK /\ Children[t0] \in Seq(Tasks) /\ Len(Children[t0]) \in Nat
    <2>1. TypeOK /\ load \in Loads /\ PostedOK
      BY DEF IInv, TypeOK
    <2>2. Children[t0] \in Seq(Tasks)
      BY <2>1, LoadFact
    <2>3. QED
      BY <2>1, <2>2, ElemsFact
  <1>1. PICK n, w, free : n \in Nat /\ n = Len(Children[t0]) /\ free = FreeSlotsBut(s) /\ w = WithChildren(t0, free, n)
    BY <1>0
  <1>2. /\ w \in [Slots -> SlotRecords]
        /\ \A i \in 1 .. n : free[i] \in Slots /\ free[i] # s /\ w[free[i]] = Launched(Children[t0][i])
        /\ \A x \in Slots : \/ ~Busy(x) /\ x # s /\ \E i \in 1 .. n : w[x] = Launched(Children[t0][i])
                            \/ w[x] = slot[x]
    <2>1. n \in 0 .. Len(Children[t0]) /\ n <= Len(FreeSlotsBut(s)) /\ Len(FreeSlotsBut(s)) \in Nat
      BY <1>0, <1>1, FreeFact
    <2>2. \A i \in 1 .. n : FreeSlotsBut(s)[i] # s
      BY <2>1, <1>1, FreeFact
    <2>3. /\ w \in [Slots -> SlotRecords] /\ w[s] = slot[s]
          /\ \A i \in 1 .. n : FreeSlotsBut(s)[i] \in Slots /\ w[FreeSlotsBut(s)[i]] = Launched(Children[t0][i])
          /\ \A x \in Slots : \/ /\ ~Busy(x) /\ x # s
                                 /\ \E i \in 1 .. n : FreeSlotsBut(s)[i] = x /\ w[x] = Launched(Children[t0][i])
                              \/ w[x] = slot[x] /\ ~\E i \in 1 .. n : FreeSlotsBut(s)[i] = x
      BY <1>1, <2>1, WithChildrenFact
    <2>4. QED
      BY <1>1, <2>2, <2>3
  <1>3. slot' = [w EXCEPT ![s] = Launched(t0)]
    BY <1>1
  <1>4. /\ slot'[s] = Launched(t0) /\ \A x \in Slots : x # s => slot'[x] = w[x]
    BY <1>2, <1>3
  <1>5. \A u : Launched(u).task = u /\ Launched(u).st # "idle"
    BY DEF Launched
  <1>6. /\ \A i \in 1 .. n : Children[t0][i] \in Tasks /\ Children[t0][i] \in ElemsOf(Children[t0])
        /\ \A c \in ElemsOf(Children[t0]) : \E i \in 1 .. n : Children[t0][i] = c
    BY <1>0, <1>1, ElemsFact
  <1>7. TypeOK'
    <2>1. Launched(t0) \in SlotRecords
      BY DEF Launched, SlotRecords, SlotStates
    <2>2. slot' \in [Slots -> SlotRecords]
      BY <1>2, <1>3, <2>1, ZenonT(60)
    <2>3. QED
      BY <1>0, <2>2, RecordFact DEF TypeOK, Processing, MainPoints, SlotRecords
  <1>8. /\ CursorOK' /\ BatchOK' /\ PostedOK' /\ CancelOK' /\ WaitingOK'
        /\ (\A r : Begun(r)' <=> Begun(r)) /\ (\A q : IdTasks(q)' = IdTasks(q))
        /\ (\A c, p : IsChildOf(c, p)' <=> IsChildOf(c, p))
    BY ProcessFrame
  <1>9. PICK r0 \in Requests : t0 \in ElemsOf(Posted[r0]) /\ Begun(r0)
    BY <1>0 DEF PostedOK, Pending
  <1>10. t0 \in IdTasks(r0) /\ \A i \in 1 .. n : Children[t0][i] \in IdTasks(r0)
    BY <1>0, <1>6, <1>9, TasksFact
  <1>11. due' = due /\ \A x \in Slots : due[x] = "none"
    BY AtFact DEF Processing
  <1>12. SlotsOK'
    <2>1. SUFFICES ASSUME NEW x \in Slots
                   PROVE  IF Busy(x)' THEN \E r \in Requests : slot'[x].task \in IdTasks(r) /\ Begun(r)
                                      ELSE slot'[x].task = NoTask /\ due'[x] = "none"
      BY <1>8 DEF SlotsOK
    <2>2. CASE \E u \in IdTasks(r0) : slot'[x] = Launched(u)
      BY <1>5, <1>9, <2>2 DEF Busy
    <2>3. CASE x # s /\ w[x] = slot[x]
      BY <1>4, <1>11, <2>3 DEF IInv, SlotsOK, Busy
    <2>4. QED
      BY <1>2, <1>4, <1>10, <2>2, <2>3
  <1>13. Kept'
    <2>1. \A t \in Tasks : t # t0 /\ Pending(t) => Pending(t)'
      BY RecordFact DEF Pending, Processing
    <2>2. ASSUME NEW r \in Requests, NEW t \in IdTasks(r),
                 Pending(t) \/ (\E x \in Tasks : IsChildOf(t, x) /\ Pending(x)) \/ \E x \in Slots : slot[x].task = t
          PROVE  Safe(r, t)'
      <3>1. t \in Tasks
        BY <1>0, TasksFact
      <3>2. CASE Pending(t)
        <4>1. CASE t = t0
          BY <1>4, <1>5, <1>11, <4>1 DEF Safe
        <4>2. CASE t # t0
          BY <2>1, <3>1, <3>2, <4>2 DEF Safe
        <4>3. QED
          BY <4>1, <4>2
      <3>3. ASSUME NEW x \in Tasks, IsChildOf(t, x), Pending(x) PROVE Safe(r, t)'
        <4>1. CASE x = t0
          <5>1. PICK i \in 1 .. n : Children[t0][i] = t
            BY <1>6, <3>3, <4>1 DEF IsChildOf
          <5>2. free[i] \in Slots /\ slot'[free[i]].task = t /\ due'[free[i]] = "none"
            BY <1>2, <1>4, <1>5, <1>11, <5>1
          <5>3. QED
            BY <5>2 DEF Safe
        <4>2. CASE x # t0
          BY <1>8, <2>1, <3>3, <4>2 DEF Safe
        <4>3. QED
          BY <4>1, <4>2
      <3>4. ASSUME NEW x \in Slots, slot[x].task = t PROVE Safe(r, t)'
        <4>1. Busy(x)
          BY <3>1, <3>4, SlotFact
        <4>2. x # s /\ w[x] = slot[x]
          BY <1>2, <4>1
        <4>3. slot'[x].task = t /\ due'[x] # "release"
          BY <1>4, <1>11, <3>4, <4>2
        <4>4. QED
          BY <4>3 DEF Safe
      <3>5. QED
        BY <2>2, <3>2, <3>3, <3>4
    <2>3. QED
      BY <2>2, AtKept DEF Processing
  <1>14. QED
    BY <1>2, <1>4, <1>6, <1>7, <1>8, <1>12, <1>13 DEF IInv

\* If a launch fails, an error is on its way to the reader and the slots that
\* were taken for children are given back.
LEMMA ProcessFailed ==
  ASSUME IInv, Processing, NEW t0 \in Tasks, cur = Run(t0), NEW s \in Slots,
         NEW k \in 0 .. Len(Children[t0]), Len(FreeSlotsBut(s)) >= Len(Children[t0]),
         slot' = WithChildren(t0, FreeSlotsBut(s), k),
         reply' = [t |-> IF k < Len(Children[t0]) THEN Children[t0][k + 1] ELSE t0, kind |-> "error"],
         due' = [x \in Slots |-> IF \E i \in 1 .. k : FreeSlotsBut(s)[i] = x THEN "release" ELSE "none"],
         UNCHANGED queue_tasks_deferred
  PROVE  /\ IInv'
         /\ \A r \in Requests : t0 \in IdTasks(r) => HasError(r)'
         /\ \A x \in Slots : Busy(x) => slot'[x] = slot[x] /\ due'[x] = "none"
         /\ \A x \in Slots : slot'[x] = slot[x] \/ \E c \in ElemsOf(Children[t0]) : slot'[x] = Launched(c)
  <1>0. TypeOK /\ load \in Loads /\ PostedOK /\ Children[t0] \in Seq(Tasks) /\ Len(Children[t0]) \in Nat
    <2>1. TypeOK /\ load \in Loads /\ PostedOK
      BY DEF IInv, TypeOK
    <2>2. Children[t0] \in Seq(Tasks)
      BY <2>1, LoadFact
    <2>3. QED
      BY <2>1, <2>2, ElemsFact
  <1>1. PICK n, w, free : n \in Nat /\ n = Len(Children[t0]) /\ free = FreeSlotsBut(s) /\ w = slot'
    BY <1>0
  <1>2. /\ w \in [Slots -> SlotRecords]
        /\ \A x \in Slots : \/ /\ ~Busy(x) /\ x # s
                               /\ \E i \in 1 .. k : free[i] = x /\ w[x] = Launched(Children[t0][i])
                            \/ w[x] = slot[x] /\ ~\E i \in 1 .. k : free[i] = x
    <2>1. k <= Len(FreeSlotsBut(s)) /\ w = WithChildren(t0, FreeSlotsBut(s), k)
      BY <1>0, <1>1, FreeFact
    <2>2. /\ w \in [Slots -> SlotRecords]
          /\ \A x \in Slots : \/ /\ ~Busy(x) /\ x # s
                                 /\ \E i \in 1 .. k : FreeSlotsBut(s)[i] = x /\ w[x] = Launched(Children[t0][i])
                              \/ w[x] = slot[x] /\ ~\E i \in 1 .. k : FreeSlotsBut(s)[i] = x
      BY <2>1, WithChildrenFact
    <2>3. QED
      BY <1>1, <2>2
  <1>3. \A u : Launched(u).task = u /\ Launched(u).st # "idle"
    BY DEF Launched
  <1>4. /\ \A i \in 1 .. n : Children[t0][i] \in Tasks /\ Children[t0][i] \in ElemsOf(Children[t0])
        /\ k <= n /\ k \in Nat
    BY <1>0, <1>1, ElemsFact
  <1>5. PICK u \in {t0} \cup ElemsOf(Children[t0]) : reply' = [t |-> u, kind |-> "error"]
    <2>1. k < n => k + 1 \in 1 .. n
      BY <1>1, <1>4
    <2>2. QED
      BY <1>1, <1>4, <2>1
  <1>6. u \in Tasks
    BY <1>0, <1>5, ElemsFact
  <1>7. \A x \in Slots : due'[x] = IF \E i \in 1 .. k : free[i] = x THEN "release" ELSE "none"
    BY <1>1
  <1>8. TypeOK'
    <2>1. slot' \in [Slots -> SlotRecords]
      BY <1>1, <1>2
    <2>2. due' \in [Slots -> Duties]
      BY DEF Duties
    <2>3. reply' \in [t : Tasks, kind : {"final", "error"}] \cup {NoReply}
      BY <1>5, <1>6
    <2>4. QED
      BY <1>0, <2>1, <2>2, <2>3, RecordFact DEF TypeOK, Processing, MainPoints, SlotRecords
  <1>9. /\ CursorOK' /\ BatchOK' /\ PostedOK' /\ CancelOK' /\ WaitingOK'
        /\ (\A r : Begun(r)' <=> Begun(r)) /\ (\A q : IdTasks(q)' = IdTasks(q))
        /\ (\A c, p : IsChildOf(c, p)' <=> IsChildOf(c, p))
    BY ProcessFrame
  <1>10. PICK r0 \in Requests : t0 \in ElemsOf(Posted[r0]) /\ Begun(r0)
    BY <1>0 DEF PostedOK, Pending
  <1>11. t0 \in IdTasks(r0) /\ ElemsOf(Children[t0]) \subseteq IdTasks(r0)
    BY <1>0, <1>10, TasksFact
  <1>12. HasError(r0)' /\ \A r \in Requests : t0 \in IdTasks(r) => r = r0
    <2>1. HasError(r0)'
      BY <1>5, <1>9, <1>11 DEF HasError
    <2>2. QED
      BY <1>0, <1>11, <2>1, OwnerFact
  <1>13. \A x \in Slots : due[x] = "none"
    BY AtFact DEF Processing
  <1>14. SlotsOK'
    <2>1. SUFFICES ASSUME NEW x \in Slots
                   PROVE  IF Busy(x)' THEN \E r \in Requests : slot'[x].task \in IdTasks(r) /\ Begun(r)
                                      ELSE slot'[x].task = NoTask /\ due'[x] = "none"
      BY <1>9 DEF SlotsOK
    <2>2. CASE \E i \in 1 .. k : free[i] = x /\ w[x] = Launched(Children[t0][i])
      <3>1. PICK c \in IdTasks(r0) : slot'[x] = Launched(c)
        BY <1>1, <1>4, <1>11, <2>2
      <3>2. QED
        BY <1>3, <1>10, <3>1 DEF Busy
    <2>3. CASE w[x] = slot[x] /\ ~\E i \in 1 .. k : free[i] = x
      BY <1>1, <1>7, <2>3 DEF IInv, SlotsOK, Busy
    <2>4. QED
      BY <1>2, <2>2, <2>3
  <1>15. \A x \in Slots : Busy(x) => slot'[x] = slot[x] /\ due'[x] = "none"
    BY <1>1, <1>2, <1>7
  <1>16. Kept'
    <2>1. \A t \in Tasks : t # t0 /\ Pending(t) => Pending(t)'
      BY RecordFact DEF Pending, Processing
    <2>2. ASSUME NEW r \in Requests, NEW t \in IdTasks(r), Fine(r)',
                 Pending(t) \/ (\E x \in Tasks : IsChildOf(t, x) /\ Pending(x)) \/ \E x \in Slots : slot[x].task = t
          PROVE  Safe(r, t)'
      <3>1. t \in Tasks /\ r # r0
        BY <1>0, <1>12, <2>2, TasksFact DEF Fine
      <3>2. t # t0 /\ ~IsChildOf(t, t0)
        BY <1>0, <1>10, <1>11, <3>1, OwnerFact
      <3>3. CASE Pending(t)
        BY <2>1, <3>1, <3>2, <3>3 DEF Safe
      <3>4. CASE \E x \in Tasks : IsChildOf(t, x) /\ Pending(x)
        BY <1>9, <2>1, <3>2, <3>4 DEF Safe
      <3>5. ASSUME NEW x \in Slots, slot[x].task = t PROVE Safe(r, t)'
        <4>1. Busy(x)
          BY <3>1, <3>5, SlotFact
        <4>2. slot'[x].task = t /\ due'[x] # "release"
          BY <1>15, <3>5, <4>1
        <4>3. QED
          BY <4>2 DEF Safe
      <3>6. QED
        BY <2>2, <3>3, <3>4, <3>5
    <2>3. QED
      BY <2>2, AtKept DEF Processing
  <1>17. \A x \in Slots : slot'[x] = slot[x] \/ \E c \in ElemsOf(Children[t0]) : slot'[x] = Launched(c)
    BY <1>1, <1>2, <1>4
  <1>18. QED
    BY <1>8, <1>9, <1>12, <1>14, <1>15, <1>16, <1>17 DEF IInv

\* A slot operation is answered at once.
LEMMA ProcessOp ==
  ASSUME IInv, Processing, NEW t0 \in Tasks, cur = Run(t0), Kind[t0] = "slot_op",
         NEW kind \in {"final", "error"}, reply' = [t |-> t0, kind |-> kind],
         UNCHANGED <<queue_tasks_deferred, slot, due>>
  PROVE  IInv'
  <1>1. TypeOK /\ load \in Loads /\ reply'.t = t0 /\ reply' \in [t : Tasks, kind : {"final", "error"}]
    BY DEF IInv, TypeOK
  <1>2. TypeOK'
    BY <1>1, RecordFact DEF TypeOK, Processing, MainPoints
  <1>3. /\ CursorOK' /\ BatchOK' /\ PostedOK' /\ CancelOK' /\ WaitingOK'
        /\ (\A r : Begun(r)' <=> Begun(r)) /\ (\A q : IdTasks(q)' = IdTasks(q))
        /\ (\A c, p : IsChildOf(c, p)' <=> IsChildOf(c, p))
    BY ProcessFrame
  <1>4. SlotsOK'
    BY <1>3 DEF IInv, SlotsOK, Busy
  <1>5. \A c : ~IsChildOf(c, t0)
    <2>1. Children[t0] = <<>>
      BY <1>1, IdsFact
    <2>2. QED
      BY <2>1 DEF IsChildOf, ElemsOf
  <1>6. Kept'
    <2>1. \A t \in Tasks : t # t0 /\ Pending(t) => Pending(t)'
      BY RecordFact DEF Pending, Processing
    <2>2. \A x \in Slots : due'[x] = "none"
      BY AtFact DEF Processing
    <2>3. ASSUME NEW r \in Requests, NEW t \in IdTasks(r),
                 Pending(t) \/ (\E x \in Tasks : IsChildOf(t, x) /\ Pending(x)) \/ \E x \in Slots : slot[x].task = t
          PROVE  Safe(r, t)'
      <3>1. t \in Tasks
        BY <1>1, TasksFact
      <3>2. CASE Pending(t)
        BY <1>1, <2>1, <3>1, <3>2 DEF Safe
      <3>3. CASE \E x \in Tasks : IsChildOf(t, x) /\ Pending(x)
        BY <1>3, <1>5, <2>1, <3>3 DEF Safe
      <3>4. CASE \E x \in Slots : slot[x].task = t
        BY <2>2, <3>4 DEF Safe
      <3>5. QED
        BY <2>3, <3>2, <3>3, <3>4
    <2>4. QED
      BY <2>3, AtKept DEF Processing
  <1>7. QED
    BY <1>2, <1>3, <1>4, <1>6 DEF IInv

\* What is cancelled belongs to a reader that is gone.
LEMMA ProcessCancel ==
  ASSUME IInv, Processing, NEW t0 \in Tasks, cur = Cancel(t0), process_cancel(t0)
  PROVE  IInv'
  <1>1. TypeOK /\ load \in Loads /\ CancelOK /\ UNCHANGED <<queue_tasks_deferred, slot, reply>>
    BY DEF IInv, TypeOK, process_cancel
  <1>2. due \in [Slots -> Duties] /\ \A x \in Slots : due[x] = "none"
    BY <1>1, AtFact DEF TypeOK, Processing
  <1>3. PICK r0 \in Requests : t0 \in IdTasks(r0) /\ cpc[r0] = "gone"
    BY <1>1 DEF CancelOK, Cancelling
  <1>4. due' \in [Slots -> Duties] /\ \A x \in Slots : due'[x] = "none" \/ (due'[x] = "release" /\ slot[x].task = t0)
    <2>1. CASE \A s \in Slots : slot[s].task # t0
      BY <1>2, <2>1 DEF process_cancel
    <2>2. ASSUME NEW s \in Slots, slot[s].task = t0, due' = [due EXCEPT ![s] = "release"]
          PROVE  due' \in [Slots -> Duties] /\ \A x \in Slots : due'[x] = "none" \/ (due'[x] = "release" /\ slot[x].task = t0)
      BY <1>2, <2>2 DEF Duties
    <2>3. QED
      BY <2>1, <2>2 DEF process_cancel
  <1>5. TypeOK'
    BY <1>1, <1>4, RecordFact DEF TypeOK, Processing, MainPoints
  <1>6. /\ CursorOK' /\ BatchOK' /\ PostedOK' /\ CancelOK' /\ WaitingOK'
        /\ (\A r : Begun(r)' <=> Begun(r)) /\ (\A q : IdTasks(q)' = IdTasks(q))
        /\ (\A c, p : IsChildOf(c, p)' <=> IsChildOf(c, p))
    BY <1>1, ProcessFrame
  <1>7. SlotsOK'
    <2>1. \A x \in Slots : slot[x].task = t0 => Busy(x)
      BY SlotFact
    <2>2. QED
      BY <1>1, <1>4, <1>6, <2>1 DEF IInv, SlotsOK, Busy
  <1>8. Kept'
    <2>1. \A t \in Tasks : Pending(t) => Pending(t)'
      BY <1>1, RecordFact DEF Pending, Processing
    <2>2. ASSUME NEW r \in Requests, NEW t \in IdTasks(r), Fine(r)',
                 Pending(t) \/ (\E x \in Tasks : IsChildOf(t, x) /\ Pending(x)) \/ \E x \in Slots : slot[x].task = t
          PROVE  Safe(r, t)'
      <3>1. t \in Tasks /\ r # r0
        BY <1>1, <1>3, <2>2, TasksFact DEF Fine, Processing
      <3>2. t # t0
        BY <1>1, <1>3, <3>1, OwnerFact
      <3>3. CASE Pending(t) \/ \E x \in Tasks : IsChildOf(t, x) /\ Pending(x)
        BY <1>6, <2>1, <3>1, <3>3 DEF Safe
      <3>4. CASE \E x \in Slots : slot[x].task = t
        BY <1>1, <1>4, <3>2, <3>4 DEF Safe
      <3>5. QED
        BY <2>2, <3>3, <3>4
    <2>3. QED
      BY <1>1, <2>2, AtKept DEF Processing
  <1>9. QED
    BY <1>5, <1>6, <1>7, <1>8 DEF IInv

\* The task that only starts the next iteration does nothing.
LEMMA ProcessNothing ==
  ASSUME IInv, Processing, cur = NextResponse, UNCHANGED <<queue_tasks_deferred, slot, agenda>>
  PROVE  IInv'
  <1>1. TypeOK /\ load \in Loads /\ reply' = reply /\ due' = due
    BY DEF IInv, TypeOK, agenda
  <1>2. TypeOK'
    BY <1>1, RecordFact DEF TypeOK, Processing, MainPoints
  <1>3. /\ CursorOK' /\ BatchOK' /\ PostedOK' /\ CancelOK' /\ WaitingOK'
        /\ (\A r : Begun(r)' <=> Begun(r)) /\ (\A q : IdTasks(q)' = IdTasks(q))
    BY ProcessFrame
  <1>4. SlotsOK'
    BY <1>1, <1>3 DEF IInv, SlotsOK, Busy
  <1>5. Kept'
    <2>1. \A t \in Tasks : Pending(t) => Pending(t)'
      BY RecordFact DEF Pending, Processing
    <2>2. \A s \in Slots : slot'[s].task = slot[s].task /\ due'[s] # "release"
      BY <1>1, AtFact DEF Processing
    <2>3. QED
      BY <2>1, <2>2, AtKeptSlots DEF Processing
  <1>6. QED
    BY <1>2, <1>3, <1>4, <1>5 DEF IInv

\* The outcomes of process_single_task: deferred, launched, failed to launch, a slot
\* operation done, cancelled, nothing.
LEMMA ProcessCases ==
  ASSUME IInv, process_single_task, load' = load
  PROVE  /\ Processing
         /\ \/ \E t0 \in Tasks : cur = Run(t0) /\ defer(t0)
            \/ \E t0 \in Tasks, s \in Slots :
                 /\ cur = Run(t0) /\ ~Busy(s) /\ Len(FreeSlotsBut(s)) >= Len(Children[t0])
                 /\ slot' = [WithChildren(t0, FreeSlotsBut(s), Len(Children[t0])) EXCEPT ![s] = Launched(t0)]
                 /\ UNCHANGED <<queue_tasks_deferred, reply, due>>
            \/ \E t0 \in Tasks, s \in Slots : \E k \in 0 .. Len(Children[t0]) :
                 /\ cur = Run(t0) /\ Len(FreeSlotsBut(s)) >= Len(Children[t0])
                 /\ slot' = WithChildren(t0, FreeSlotsBut(s), k)
                 /\ reply' = [t |-> IF k < Len(Children[t0]) THEN Children[t0][k + 1] ELSE t0, kind |-> "error"]
                 /\ due' = [x \in Slots |-> IF \E i \in 1 .. k : FreeSlotsBut(s)[i] = x THEN "release" ELSE "none"]
                 /\ UNCHANGED queue_tasks_deferred
            \/ \E t0 \in Tasks, kind \in {"final", "error"} :
                 /\ cur = Run(t0) /\ Kind[t0] = "slot_op" /\ reply' = [t |-> t0, kind |-> kind]
                 /\ UNCHANGED <<queue_tasks_deferred, slot, due>>
            \/ \E t0 \in Tasks : cur = Cancel(t0) /\ process_cancel(t0)
            \/ cur = NextResponse /\ UNCHANGED <<queue_tasks_deferred, slot, agenda>>
  <1>1. Processing
    BY DEF process_single_task, Processing, resp, reader
  <1>2. load \in Loads /\ cur \in QueueElems
    BY DEF IInv, TypeOK
  <1>3. \/ cur.op = "next" /\ cur = NextResponse
        \/ \E t0 \in Tasks : cur.op = "run" /\ cur = Run(t0) /\ cur.t = t0
        \/ \E t0 \in Tasks : cur.op = "cancel" /\ cur = Cancel(t0) /\ cur.t = t0
    BY <1>2 DEF QueueElems, Run, Cancel, NextResponse
  <1>4. CASE cur.op = "next" /\ cur = NextResponse
    <2>1. UNCHANGED <<queue_tasks_deferred, slot, agenda>>
      BY <1>4 DEF process_single_task
    <2>2. QED
      BY <1>1, <1>4, <2>1
  <1>5. ASSUME NEW t0 \in Tasks, cur.op = "cancel", cur = Cancel(t0), cur.t = t0 PROVE process_cancel(t0)
    BY <1>5 DEF process_single_task
  <1>6. ASSUME NEW t0 \in Tasks, cur.op = "run", cur = Run(t0), cur.t = t0, Kind[t0] = "slot_op"
        PROVE  \/ defer(t0)
               \/ \E kind \in {"final", "error"} :
                    reply' = [t |-> t0, kind |-> kind] /\ UNCHANGED <<queue_tasks_deferred, slot, due>>
    <2>1. process_slot_op(t0)
      BY <1>6 DEF process_single_task
    <2>2. QED
      BY <2>1 DEF process_slot_op
  <1>7. ASSUME NEW t0 \in Tasks, cur.op = "run", cur = Run(t0), cur.t = t0, Kind[t0] # "slot_op"
        PROVE  \/ defer(t0)
               \/ \E s \in Slots : ~Busy(s) /\ Len(FreeSlotsBut(s)) >= Len(Children[t0]) /\ launch(t0, s)
                                   /\ UNCHANGED queue_tasks_deferred
    <2>1. process_slot_task(t0)
      BY <1>7 DEF process_single_task
    <2>2. AvailableSlots(t0) \subseteq Slots
      <3>1. IdSlot[t0] \in 0 .. NSlots
        BY <1>2, LoadFact
      <3>2. QED
        BY <3>1, TasksAssumption DEF AvailableSlots, Slots
    <2>3. QED
      BY <2>1, <2>2 DEF process_slot_task
  <1>8. ASSUME NEW t0 \in Tasks, NEW s \in Slots, launch(t0, s)
        PROVE  \/ /\ slot' = [WithChildren(t0, FreeSlotsBut(s), Len(Children[t0])) EXCEPT ![s] = Launched(t0)]
                  /\ UNCHANGED <<reply, due>>
               \/ \E k \in 0 .. Len(Children[t0]) :
                    /\ slot' = WithChildren(t0, FreeSlotsBut(s), k)
                    /\ reply' = [t |-> IF k < Len(Children[t0]) THEN Children[t0][k + 1] ELSE t0, kind |-> "error"]
                    /\ due' = [x \in Slots |-> IF \E i \in 1 .. k : FreeSlotsBut(s)[i] = x THEN "release" ELSE "none"]
    BY <1>8 DEF launch, agenda
  <1>9. CASE \E t0 \in Tasks : cur.op = "run" /\ cur = Run(t0) /\ cur.t = t0
    <2>1. PICK t0 \in Tasks : cur.op = "run" /\ cur = Run(t0) /\ cur.t = t0
      BY <1>9
    <2>2. CASE Kind[t0] = "slot_op"
      BY <1>1, <1>6, <2>1, <2>2
    <2>3. CASE Kind[t0] # "slot_op"
      <3>1. CASE defer(t0)
        BY <1>1, <2>1, <3>1
      <3>2. ASSUME NEW s \in Slots, ~Busy(s), Len(FreeSlotsBut(s)) >= Len(Children[t0]), launch(t0, s),
                   UNCHANGED queue_tasks_deferred
            PROVE  \/ /\ slot' = [WithChildren(t0, FreeSlotsBut(s), Len(Children[t0])) EXCEPT ![s] = Launched(t0)]
                      /\ UNCHANGED <<queue_tasks_deferred, reply, due>>
                   \/ \E k \in 0 .. Len(Children[t0]) :
                        /\ slot' = WithChildren(t0, FreeSlotsBut(s), k)
                        /\ reply' = [t |-> IF k < Len(Children[t0]) THEN Children[t0][k + 1] ELSE t0, kind |-> "error"]
                        /\ due' = [x \in Slots |-> IF \E i \in 1 .. k : FreeSlotsBut(s)[i] = x THEN "release" ELSE "none"]
        BY <1>8, <3>2
      <3>3. QED
        BY <1>1, <1>7, <2>1, <2>3, <3>1, <3>2
    <2>4. QED
      BY <2>2, <2>3
  <1>10. QED
    BY <1>1, <1>3, <1>4, <1>5, <1>9

\* None of them breaks the invariant.
LEMMA ProcessStep ==
  ASSUME IInv, process_single_task, load' = load
  PROVE  IInv'
  BY ProcessCases, ProcessDefer, ProcessLaunched, ProcessFailed, ProcessOp, ProcessCancel, ProcessNothing

-----------------------------------------------------------------------------
(* What holds in every state.                                              *)

\* At first nothing is registered, posted or running.
LEMMA Start ==
  ASSUME Init
  PROVE  IInv
  <1>1. load \in Loads /\ mpc = "wait" /\ cur = NextResponse /\ reply = NoReply /\ due = Nothing /\ batched = {}
    BY DEF Init
  <1>2. \A s \in Slots : slot[s] = IdleSlot /\ due[s] = "none"
    BY DEF Init, Nothing
  <1>3. \A r \in Requests : cpc[r] = "new"
    BY DEF Init
  <1>4. IdleSlot.st = "idle" /\ IdleSlot.task = NoTask /\ IdleSlot \in [st : SlotStates, task : Tasks \cup {NoTask}, turns : Nat]
    BY DEF IdleSlot, SlotStates
  <1>5. TypeOK
    <2>1. slot \in [Slots -> [st : SlotStates, task : Tasks \cup {NoTask}, turns : Nat]]
      BY <1>4 DEF Init
    <2>2. /\ results \in [Requests -> Seq([t : Tasks, kind : ResultKinds])] /\ received \in [Requests -> SUBSET Tasks]
          /\ cpc \in [Requests -> ReaderPoints] /\ queue_tasks \in Seq(QueueElems) /\ queue_tasks_deferred \in Seq(Tasks)
      BY DEF Init, ReaderPoints
    <2>3. due \in [Slots -> Duties]
      BY <1>1 DEF Nothing, Duties
    <2>4. QED
      BY <1>1, <2>1, <2>2, <2>3, RecordFact DEF Init, TypeOK, MainPoints
  <1>6. CursorOK /\ BatchOK
    BY <1>1 DEF CursorOK, BatchOK
  <1>7. SlotsOK
    BY <1>2, <1>4 DEF SlotsOK, Busy
  <1>8. PostedOK /\ CancelOK
    <2>1. queue_tasks = <<>> /\ queue_tasks_deferred = <<>> /\ ElemsOf(<<>>) = {}
      BY DEF Init, ElemsOf
    <2>2. \A t \in Tasks : ~Pending(t) /\ ~Cancelling(t)
      BY <1>1, <2>1, RecordFact DEF Pending, Cancelling
    <2>3. QED
      BY <2>2 DEF PostedOK, CancelOK
  <1>9. WaitingOK /\ Kept
    BY <1>3 DEF WaitingOK, Kept, Fine
  <1>10. QED
    BY <1>5, <1>6, <1>7, <1>8, <1>9 DEF IInv

\* A step that changes nothing.
LEMMA StutterStep ==
  ASSUME IInv, UNCHANGED vars
  PROVE  IInv' /\ \A r \in Requests : Fine(r)' => Fine(r)
  <1>1. /\ load' = load /\ queue_tasks' = queue_tasks /\ queue_tasks_deferred' = queue_tasks_deferred
        /\ waiting_task_ids' = waiting_task_ids /\ results' = results /\ slot' = slot /\ batched' = batched
        /\ mpc' = mpc /\ cur' = cur /\ reply' = reply /\ due' = due /\ cpc' = cpc /\ received' = received
    BY DEF vars
  <1>2. /\ \A t : (Pending(t)' <=> Pending(t)) /\ (Cancelling(t)' <=> Cancelling(t))
        /\ \A r : Begun(r)' <=> Begun(r)
        /\ (\A q : IdTasks(q)' = IdTasks(q)) /\ (\A c, p : IsChildOf(c, p)' <=> IsChildOf(c, p))
    BY <1>1, SameQueues, LoadKept DEF Begun
  <1>3. PostedOK' /\ CancelOK' /\ WaitingOK'
    BY <1>1, <1>2, MainFrame
  <1>4. TypeOK' /\ CursorOK' /\ BatchOK'
    BY <1>1 DEF IInv, TypeOK, CursorOK, BatchOK
  <1>5. SlotsOK'
    BY <1>1, <1>2 DEF IInv, SlotsOK, Busy
  <1>6. \A r \in Requests : (Fine(r)' <=> Fine(r)) /\ \A t : Safe(r, t) => Safe(r, t)'
    <2>1. \A r \in Requests : HasError(r)' <=> HasError(r)
      BY <1>1, <1>2 DEF HasError
    <2>2. \A r \in Requests : \A t : HasResult(r, t, {"final"})' <=> HasResult(r, t, {"final"})
      BY <1>1 DEF HasResult
    <2>3. QED
      BY <1>1, <1>2, <2>1, <2>2 DEF Fine, Safe
  <1>7. Kept'
    BY <1>2, <1>6 DEF IInv, Kept
  <1>8. QED
    BY <1>3, <1>4, <1>5, <1>6, <1>7 DEF IInv

\* Every step keeps the invariant.
LEMMA Step ==
  ASSUME IInv, [Next]_vars
  PROVE  IInv'
  <1>1. CASE MainStep
    <2>1. load' = load
      BY <1>1 DEF MainStep
    <2>2. CASE send_reply
      BY <2>1, <2>2, SendReplyStep
    <2>3. ASSUME NEW s \in Slots, send_of_slot(s) \/ release(s) PROVE IInv'
      BY <2>1, <2>3, SendOfSlotStep, ReleaseStep
    <2>4. CASE drain \/ update_slots \/ wait_for_tasks
      BY <2>1, <2>4, DrainStep, UpdateStep, WaitStep
    <2>5. CASE process_single_task
      BY <2>1, <2>5, ProcessStep
    <2>6. CASE pre_decode \/ decode \/ post_decode
      BY <2>1, <2>6, PreDecodeStep, DecodeStep, PostDecodeStep
    <2>7. QED
      BY <1>1, <2>2, <2>3, <2>4, <2>5, <2>6 DEF MainStep
  <1>2. ASSUME NEW r \in Requests, ReaderStep(r) PROVE IInv'
    BY <1>2, AddWaitingStep, PostStep, NextStep, StopStep, PostCancelStep DEF ReaderStep
  <1>3. ASSUME NEW r \in Requests, give_up(r), load' = load PROVE IInv'
    BY <1>3, GiveUpStep
  <1>4. CASE UNCHANGED vars
    BY <1>4, StutterStep
  <1>5. QED
    BY <1>1, <1>2, <1>3, <1>4 DEF Next

\* Every reachable state has its type, and a reader that waits without an error
\* has each of its tasks answered, pending or in a slot.
THEOREM InvariantHolds == Spec => []IInv
  BY Start, Step, PTL DEF Spec

\* The queues, the slots and what is still to be sent hold only what they are
\* meant for.
THEOREM TypeCorrect == Spec => []TypeOK
  <1>1. IInv => TypeOK
    BY DEF IInv
  <1>2. QED
    BY <1>1, InvariantHolds, PTL

\* For any number of slots and any mix of requests no task is lost: as long as
\* a reader waits, each of its tasks is answered or on its way, or an error is.
THEOREM NoSilentLossHolds == Spec => []NoSilentLoss
  <1>1. ASSUME IInv PROVE NoSilentLoss
    <2>1. SUFFICES ASSUME NEW r \in Requests, cpc[r] = "reading", ~HasError(r), NEW t \in IdTasks(r)
                   PROVE  t \in received[r] \/ HasResult(r, t, {"final"}) \/ Live(t)
      BY DEF NoSilentLoss
    <2>2. load \in Loads /\ TypeOK /\ Safe(r, t) /\ t \in Tasks
      BY <1>1, <2>1, TasksFact DEF IInv, TypeOK, Kept, Fine
    <2> DEFINE Q == {i \in DOMAIN queue_tasks : queue_tasks[i] = Run(t)}
               D == {i \in DOMAIN queue_tasks_deferred : queue_tasks_deferred[i] = t}
               S == {s \in Slots : slot[s].task = t}
               c == IF cur = Run(t) THEN 1 ELSE 0
    <2>3. Places(t) = Cardinality(Q) + Cardinality(D) + c + Cardinality(S)
      BY DEF Places
    <2>4. /\ IsFiniteSet(DOMAIN queue_tasks) /\ IsFiniteSet(DOMAIN queue_tasks_deferred) /\ IsFiniteSet(Slots)
      <3>1. queue_tasks \in Seq(QueueElems) /\ queue_tasks_deferred \in Seq(Tasks)
        BY <2>2 DEF TypeOK
      <3>2. QED
        BY <3>1, TasksAssumption, FS_Interval DEF Slots
    <2>5. Q \subseteq DOMAIN queue_tasks /\ D \subseteq DOMAIN queue_tasks_deferred /\ S \subseteq Slots
      OBVIOUS
    <2>6. /\ Run(t) \in ElemsOf(queue_tasks) => Q # {}
          /\ t \in ElemsOf(queue_tasks_deferred) => D # {}
          /\ (\E s \in Slots : slot[s].task = t) => S # {}
          /\ c \in {0, 1} /\ (cur = Run(t) => c = 1)
      BY DEF ElemsOf
    <2> HIDE DEF Q, D, S, c
    <2>7. Cardinality(Q) \in Nat /\ Cardinality(D) \in Nat /\ Cardinality(S) \in Nat
      BY <2>4, <2>5, FS_Subset, FS_CardinalityType
    <2>8. /\ Q # {} => Cardinality(Q) > 0
          /\ D # {} => Cardinality(D) > 0
          /\ S # {} => Cardinality(S) > 0
      BY <2>4, <2>5, <2>7, FS_Subset, FS_EmptySet
    <2>9. Pending(t) \/ (\E s \in Slots : slot[s].task = t) => Places(t) > 0
      BY <2>3, <2>6, <2>7, <2>8 DEF Pending
    <2>10. QED
      BY <2>2, <2>9 DEF Safe, Live, Pending
  <1>2. QED
    BY <1>1, InvariantHolds, PTL

-----------------------------------------------------------------------------
(* Children and their parents.                                             *)

\* Only completions with a prompt have children.  A parent without one is
\* answered at once, and its children wait in vain.
ParentsHavePrompts == \A l \in Loads : \A t \in l.emptyPrompt : l.children[t] = <<>>

\* A parent belongs to the request of its child.
LEMMA ParentOwner ==
  ASSUME load \in Loads, NEW r \in Requests, NEW c \in IdTasks(r), NEW q \in Requests, NEW p \in IdTasks(q),
         IsChildOf(c, p)
  PROVE  q = r
  <1>1. Children[p] # <<>> /\ p \in Tasks
    BY TasksFact DEF IsChildOf, ElemsOf
  <1>2. PICK x \in ElemsOf(Posted[q]) : p = x \/ p \in ElemsOf(Children[x])
    BY TasksFact
  <1>3. p = x
    <2>1. CASE p \in ElemsOf(Children[x])
      <3>1. x \in Tasks /\ Children[x] # <<>>
        BY <1>2, <2>1, TasksFact DEF ElemsOf
      <3>2. QED
        BY <1>1, <2>1, <3>1, IdsFact
    <2>2. QED
      BY <1>2, <2>1
  <1>4. QED
    BY <1>1, <1>2, <1>3, OwnerFact

\* A reader that waits without an error did so before, or its tasks are new.
LEMMA FineStep ==
  ASSUME IInv, [Next]_vars, NEW r \in Requests, Fine(r)'
  PROVE  Fine(r) \/ ~Begun(r)
  <1>1. CASE MainStep
    <2>1. load' = load
      BY <1>1 DEF MainStep
    <2>2. CASE send_reply
      BY <2>1, <2>2, SendReplyStep
    <2>3. ASSUME NEW s \in Slots, send_of_slot(s) \/ release(s) PROVE Fine(r)
      BY <2>1, <2>3, SendOfSlotStep, ReleaseStep
    <2>4. ASSUME NEW p, At(p), UNCHANGED <<results, cpc>> PROVE Fine(r)
      BY <2>4, AtFine
    <2>5. CASE drain \/ update_slots \/ wait_for_tasks \/ process_single_task \/ pre_decode \/ decode \/ post_decode
      <3>1. UNCHANGED <<results, cpc>>
        BY <2>5 DEF drain, update_slots, wait_for_tasks, process_single_task, pre_decode, decode, post_decode, resp, reader
      <3>2. \E p : At(p)
        BY <2>5 DEF drain, update_slots, wait_for_tasks, process_single_task, pre_decode, decode, post_decode
      <3>3. QED
        BY <2>4, <3>1, <3>2
    <2>6. QED
      BY <1>1, <2>2, <2>3, <2>5 DEF MainStep
  <1>2. cpc \in [Requests -> ReaderPoints] /\ TypeOK
    BY DEF IInv, TypeOK
  <1>3. ASSUME NEW q \in Requests, ReaderStep(q) \/ (give_up(q) /\ load' = load) PROVE Fine(r) \/ ~Begun(r)
    <2>1. load' = load
      BY <1>3 DEF ReaderStep
    <2>2. CASE next(q)
      <3>1. CASE q = r
        BY <2>1, <2>2, <3>1, NextStep
      <3>2. CASE q # r
        <4>1. /\ UNCHANGED <<slot, due, reply>> /\ cpc'[r] = cpc[r] /\ results'[r] = results[r]
          BY <1>2, <2>2, <3>2 DEF next, agenda, TypeOK
        <4>2. QED
          BY <2>1, <4>1, LoadKept DEF Fine, HasError
      <3>3. QED
        BY <3>1, <3>2
    <2>3. CASE post_tasks(q)
      <3>1. /\ UNCHANGED <<slot, due, reply, results>> /\ cpc' = [cpc EXCEPT ![q] = "reading"] /\ cpc[q] = "registered"
        BY <2>3 DEF post_tasks, agenda, resp
      <3>2. CASE q = r
        BY <3>1, <3>2 DEF Begun
      <3>3. CASE q # r
        BY <1>2, <2>1, <3>1, <3>3, LoadKept DEF Fine, HasError
      <3>4. QED
        BY <3>2, <3>3
    <2>4. CASE add_waiting_task_ids(q) \/ give_up(q) \/ stop(q) \/ post_cancel(q)
      <3>1. UNCHANGED <<slot, due, reply>>
        BY <2>4 DEF add_waiting_task_ids, give_up, stop, post_cancel, agenda
      <3>2. \E c \in {"registered", "stopping", "cancelling", "gone"} : cpc' = [cpc EXCEPT ![q] = c]
        BY <2>4 DEF add_waiting_task_ids, give_up, stop, post_cancel
      <3>3. q # r /\ cpc'[r] = cpc[r]
        BY <1>2, <3>2 DEF Fine
      <3>4. results'[r] = results[r]
        BY <1>2, <2>4, <3>3 DEF add_waiting_task_ids, give_up, stop, post_cancel, resp, TypeOK
      <3>5. QED
        BY <2>1, <3>1, <3>3, <3>4, LoadKept DEF Fine, HasError
    <2>5. QED
      BY <1>3, <2>2, <2>3, <2>4 DEF ReaderStep
  <1>4. CASE UNCHANGED vars
    BY <1>4, StutterStep
  <1>5. QED
    BY <1>1, <1>3, <1>4 DEF Next

\* If the slots of children are as they were and so are those of their parents,
\* the children of readers that wait still have parents.
LEMMA ParentsFrame ==
  ASSUME IInv, ParentsOK, [Next]_vars, load' = load,
         \A r \in Requests : \A s \in Slots :
           Fine(r)' /\ slot'[s].st = "wait_other" /\ slot'[s].task \in IdTasks(r) =>
             slot[s].st = "wait_other" /\ slot'[s].task = slot[s].task,
         \A r \in Requests : \A s, p \in Slots :
           /\ Fine(r)' /\ slot[s].st = "wait_other" /\ slot'[s].st = "wait_other" /\ slot[s].task \in IdTasks(r)
           /\ slot[p].st \in Parents /\ due[p] = "none" /\ IsChildOf(slot[s].task, slot[p].task)
           => slot'[p].st \in Parents' /\ due'[p] = "none" /\ slot'[p].task = slot[p].task
  PROVE  ParentsOK'
  <1>1. load \in Loads /\ (\A q : IdTasks(q)' = IdTasks(q)) /\ (\A c, p : IsChildOf(c, p)' <=> IsChildOf(c, p))
    BY LoadKept DEF IInv, TypeOK
  <1>2. SUFFICES ASSUME NEW r \in Requests, Fine(r)', NEW s \in Slots,
                        slot'[s].st = "wait_other", slot'[s].task \in IdTasks(r)
                 PROVE  \E p \in Slots : /\ slot'[p].st \in Parents' /\ due'[p] = "none"
                                         /\ IsChildOf(slot'[s].task, slot'[p].task)
    BY <1>1 DEF ParentsOK
  <1>3. slot[s].st = "wait_other" /\ slot'[s].task = slot[s].task
    BY <1>2
  <1>4. Fine(r)
    <2>1. PICK q \in Requests : slot[s].task \in IdTasks(q) /\ Begun(q)
      BY <1>3 DEF IInv, SlotsOK, Busy
    <2>2. q = r
      BY <1>1, <1>2, <1>3, <2>1, OwnerFact
    <2>3. QED
      BY <1>2, <2>1, <2>2, FineStep
  <1>5. PICK p \in Slots : slot[p].st \in Parents /\ due[p] = "none" /\ IsChildOf(slot[s].task, slot[p].task)
    BY <1>2, <1>3, <1>4 DEF ParentsOK
  <1>6. slot'[p].st \in Parents' /\ due'[p] = "none" /\ slot'[p].task = slot[p].task
    BY <1>2, <1>3, <1>5
  <1>7. QED
    BY <1>3, <1>5, <1>6

\* Steps that leave the slots alone.
LEMMA ParentsSame ==
  ASSUME IInv, ParentsOK, [Next]_vars, UNCHANGED <<load, slot, due>>, mpc' = mpc \/ mpc' # "post_decode"
  PROVE  ParentsOK'
  <1>1. \A x : x \in Parents => x \in Parents'
    BY DEF Parents
  <1>2. QED
    BY <1>1, ParentsFrame

\* A launch puts a parent with a prompt into a slot together with its children.
LEMMA ParentsProcess ==
  ASSUME IInv, ParentsOK, [Next]_vars, process_single_task, load' = load
  PROVE  ParentsOK'
  <1>1. load \in Loads /\ TypeOK /\ PostedOK /\ CancelOK
    BY DEF IInv, TypeOK
  <1>2. Processing /\ mpc' = "drain"
    BY ProcessCases DEF Processing
  <1>3. \A x : x \in Parents => x \in Parents'
    BY <1>2 DEF Parents
  <1>4. /\ \A x \in Slots : due[x] = "none"
        /\ (\A q : IdTasks(q)' = IdTasks(q)) /\ (\A c, p : IsChildOf(c, p)' <=> IsChildOf(c, p))
    BY <1>2, AtFact, LoadKept DEF Processing
  <1>5. \A u : Launched(u).task = u /\ Launched(u).st # "idle"
    BY DEF Launched
  <1>6. CASE UNCHANGED <<slot, due>>
    BY <1>2, <1>6, ParentsSame
  <1>7. ASSUME NEW t0 \in Tasks, NEW s0 \in Slots, cur = Run(t0), ~Busy(s0), Len(FreeSlotsBut(s0)) >= Len(Children[t0]),
               slot' = [WithChildren(t0, FreeSlotsBut(s0), Len(Children[t0])) EXCEPT ![s0] = Launched(t0)],
               UNCHANGED <<queue_tasks_deferred, reply, due>>
        PROVE  ParentsOK'
    <2>1. /\ slot'[s0] = Launched(t0)
          /\ \A x \in Slots \ {s0} :
               slot'[x] = slot[x] \/ (~Busy(x) /\ \E c \in ElemsOf(Children[t0]) : slot'[x] = Launched(c))
      BY <1>2, <1>7, ProcessLaunched
    <2>2. Launched(t0).st = "started"
      <3>1. PICK r0 \in Requests : t0 \in ElemsOf(Posted[r0])
        BY <1>1, <1>7 DEF PostedOK, Pending
      <3>2. ~IsChild(t0)
        BY <1>1, <3>1, IdsFact DEF IsChild, IsChildOf
      <3>3. QED
        BY <3>2 DEF Launched
    <2>3. ASSUME NEW r \in Requests, Fine(r)', NEW s \in Slots, slot'[s].st = "wait_other", slot'[s].task \in IdTasks(r)
          PROVE  \E p \in Slots : /\ slot'[p].st \in Parents' /\ due'[p] = "none"
                                  /\ IsChildOf(slot'[s].task, slot'[p].task)
      <3>1. s # s0
        BY <2>1, <2>2, <2>3
      <3>2. CASE \E c \in ElemsOf(Children[t0]) : slot'[s] = Launched(c)
        <4>1. IsChildOf(slot'[s].task, slot'[s0].task)
          BY <1>5, <2>1, <3>2 DEF IsChildOf
        <4>2. slot'[s0].st \in Parents' /\ due'[s0] = "none"
          BY <1>2, <1>4, <1>7, <2>1, <2>2 DEF Parents
        <4>3. QED
          BY <4>1, <4>2
      <3>3. CASE slot'[s] = slot[s]
        <4>1. PICK q \in Requests : slot[s].task \in IdTasks(q) /\ Begun(q)
          BY <2>3, <3>3 DEF IInv, SlotsOK, Busy
        <4>2. Fine(r)
          <5>1. q = r
            BY <1>1, <2>3, <3>3, <4>1, OwnerFact
          <5>2. QED
            BY <2>3, <4>1, <5>1, FineStep
        <4>3. PICK p \in Slots : slot[p].st \in Parents /\ due[p] = "none" /\ IsChildOf(slot[s].task, slot[p].task)
          BY <2>3, <3>3, <4>2 DEF ParentsOK
        <4>4. Busy(p)
          BY <4>3 DEF Busy, Parents
        <4>5. p # s0 /\ slot'[p] = slot[p]
          BY <1>7, <2>1, <4>4
        <4>6. QED
          BY <1>3, <1>7, <3>3, <4>3, <4>5
      <3>4. QED
        BY <2>1, <3>1, <3>2, <3>3
    <2>4. QED
      BY <1>4, <2>3 DEF ParentsOK
  <1>8. ASSUME NEW t0 \in Tasks, NEW s0 \in Slots, NEW k \in 0 .. Len(Children[t0]), cur = Run(t0),
               Len(FreeSlotsBut(s0)) >= Len(Children[t0]), slot' = WithChildren(t0, FreeSlotsBut(s0), k),
               reply' = [t |-> IF k < Len(Children[t0]) THEN Children[t0][k + 1] ELSE t0, kind |-> "error"],
               due' = [x \in Slots |-> IF \E i \in 1 .. k : FreeSlotsBut(s0)[i] = x THEN "release" ELSE "none"],
               UNCHANGED queue_tasks_deferred
        PROVE  ParentsOK'
    <2>1. /\ \A r \in Requests : t0 \in IdTasks(r) => HasError(r)'
          /\ \A x \in Slots : Busy(x) => slot'[x] = slot[x] /\ due'[x] = "none"
          /\ \A x \in Slots : slot'[x] = slot[x] \/ \E c \in ElemsOf(Children[t0]) : slot'[x] = Launched(c)
      BY <1>2, <1>8, ProcessFailed
    <2>2. PICK r0 \in Requests : t0 \in ElemsOf(Posted[r0])
      BY <1>1, <1>8 DEF PostedOK, Pending
    <2>3. ~Fine(r0)' /\ ElemsOf(Children[t0]) \subseteq IdTasks(r0)
      BY <1>1, <2>1, <2>2, TasksFact DEF Fine
    <2>4. ASSUME NEW r \in Requests, NEW s \in Slots, Fine(r)', slot'[s].st = "wait_other", slot'[s].task \in IdTasks(r)
          PROVE  slot[s].st = "wait_other" /\ slot'[s].task = slot[s].task
      <3>1. ASSUME NEW c \in ElemsOf(Children[t0]), slot'[s] = Launched(c) PROVE FALSE
        <4>1. c \in IdTasks(r) /\ c \in IdTasks(r0)
          BY <1>5, <2>3, <2>4, <3>1
        <4>2. r = r0
          BY <1>1, <4>1, OwnerFact
        <4>3. QED
          BY <2>3, <2>4, <4>2
      <3>2. QED
        BY <2>1, <2>4, <3>1
    <2>5. ASSUME NEW p \in Slots, slot[p].st \in Parents PROVE slot'[p] = slot[p] /\ due'[p] = "none"
      BY <2>1, <2>5 DEF Busy, Parents
    <2>6. QED
      BY <1>3, <2>4, <2>5, ParentsFrame
  <1>9. ASSUME NEW t0 \in Tasks, cur = Cancel(t0), process_cancel(t0) PROVE ParentsOK'
    <2>1. slot' = slot /\ due \in [Slots -> Duties]
      BY <1>1, <1>9 DEF process_cancel, TypeOK
    <2>2. \A x \in Slots : slot[x].task # t0 => due'[x] = due[x]
      BY <1>9, <2>1 DEF process_cancel
    <2>3. PICK r0 \in Requests : t0 \in IdTasks(r0) /\ cpc[r0] = "gone"
      BY <1>1, <1>9 DEF CancelOK, Cancelling
    <2>4. ASSUME NEW r \in Requests, NEW s \in Slots, NEW p \in Slots, Fine(r)', slot[s].task \in IdTasks(r),
                 IsChildOf(slot[s].task, slot[p].task)
          PROVE  slot[p].task # t0
      <3>1. r # r0
        BY <1>2, <2>3, <2>4 DEF Fine, Processing
      <3>2. ~IsChildOf(slot[s].task, t0)
        BY <1>1, <2>3, <2>4, <3>1, ParentOwner
      <3>3. QED
        BY <2>4, <3>2
    <2>5. QED
      BY <1>3, <2>1, <2>2, <2>4, ParentsFrame
  <1>10. QED
    BY <1>6, <1>7, <1>8, <1>9, ProcessCases DEF defer, agenda

\* Putting the batch together leaves a parent its prompt, unless it fails.
LEMMA ParentsPreDecode ==
  ASSUME ParentsHavePrompts, IInv, ParentsOK, [Next]_vars, pre_decode, load' = load
  PROVE  ParentsOK'
  <1>1. /\ At("pre_decode") /\ mpc' \in {"decode", "wait"}
        /\ \A s \in Slots :
             /\ slot'[s].task = slot[s].task
             /\ slot'[s].st = slot[s].st \/ (slot[s].st = "started" /\ slot'[s].st = "done_prompt")
             /\ due'[s] \in {"none", "error", "final"}
             /\ due'[s] # "none" => slot[s].st \in {"started", "generating"}
             /\ due'[s] = "final" => slot[s].st = "started" /\ slot[s].task \in EmptyPrompt
    BY PreDecodeFact
  <1>2. load \in Loads /\ (\A q : IdTasks(q)' = IdTasks(q))
    BY LoadKept DEF IInv, TypeOK
  <1>3. Parents' = {"started", "done_prompt"} /\ Parents \subseteq Parents'
    BY <1>1 DEF Parents
  <1>4. ASSUME NEW r \in Requests, NEW s \in Slots, NEW p \in Slots, Fine(r)', slot[s].task \in IdTasks(r),
               slot[p].st \in Parents, IsChildOf(slot[s].task, slot[p].task)
        PROVE  slot'[p].st \in Parents' /\ due'[p] = "none" /\ slot'[p].task = slot[p].task
    <2>1. slot'[p].st \in Parents'
      BY <1>1, <1>3, <1>4
    <2>2. due'[p] # "final"
      <3>1. \A t \in EmptyPrompt : Children[t] = <<>>
        BY <1>2 DEF ParentsHavePrompts, EmptyPrompt, Children
      <3>2. Children[slot[p].task] # <<>>
        BY <1>4 DEF IsChildOf, ElemsOf
      <3>3. QED
        BY <1>1, <3>1, <3>2
    <2>3. due'[p] # "error"
      <3>1. PICK q \in Requests : slot[p].task \in IdTasks(q)
        BY <1>3, <1>4 DEF IInv, SlotsOK, Busy, Parents
      <3>2. q = r
        BY <1>2, <1>4, <3>1, ParentOwner
      <3>3. QED
        BY <1>1, <1>2, <1>4, <3>1, <3>2 DEF Fine, HasError
    <2>4. QED
      BY <1>1, <2>1, <2>2, <2>3
  <1>5. \A s \in Slots : slot'[s].st = "wait_other" => slot[s].st = "wait_other"
    BY <1>1
  <1>6. QED
    BY <1>1, <1>4, <1>5, ParentsFrame

\* After decode no slot waits for a parent whose prompt is done.
LEMMA ParentsDecode ==
  ASSUME IInv, ParentsOK, [Next]_vars, decode, load' = load
  PROVE  ParentsOK'
  <1>1. /\ At("decode") /\ mpc' \in {"post_decode", "wait"}
        /\ \A s \in Slots : slot'[s].task = slot[s].task
        /\ mpc' = "post_decode" => /\ \A s \in Slots : slot'[s].st = IF Activated(s) THEN "done_prompt" ELSE slot[s].st
                                   /\ due' = due
        /\ mpc' = "wait" => slot' = slot /\ \A s \in Slots : due'[s] = IF Busy(s) THEN "error" ELSE "none"
    BY DecodeFact
  <1>2. load \in Loads /\ mpc = "decode" /\ (\A q : IdTasks(q)' = IdTasks(q))
    BY <1>1, AtFact, LoadKept DEF IInv, TypeOK
  <1>3. CASE mpc' = "post_decode"
    <2>1. Parents = {"started", "done_prompt"} /\ Parents' = {"started"}
      BY <1>2, <1>3 DEF Parents
    <2>2. ASSUME NEW s \in Slots, NEW p \in Slots, slot[s].st = "wait_other", slot'[s].st = "wait_other",
                 slot[p].st \in Parents, due[p] = "none", IsChildOf(slot[s].task, slot[p].task)
          PROVE  slot'[p].st \in Parents' /\ due'[p] = "none"
      <3>1. ~Activated(s)
        BY <1>1, <1>3, <2>2
      <3>2. slot[p].st # "done_prompt"
        BY <2>2, <3>1 DEF Activated, In
      <3>3. slot[p].st = "started" /\ ~Activated(p)
        BY <2>1, <2>2, <3>2 DEF Activated
      <3>4. QED
        BY <1>1, <1>3, <2>1, <2>2, <3>3
    <2>3. \A s \in Slots : slot'[s].st = "wait_other" => slot[s].st = "wait_other"
      BY <1>1, <1>3
    <2>4. QED
      BY <1>1, <2>2, <2>3, ParentsFrame
  <1>4. CASE mpc' = "wait"
    <2>1. ASSUME NEW r \in Requests, NEW s \in Slots, Fine(r)', slot[s].st = "wait_other", slot[s].task \in IdTasks(r)
          PROVE  FALSE
      <3>1. due'[s] = "error" /\ slot'[s].task = slot[s].task
        BY <1>1, <1>4, <2>1 DEF Busy
      <3>2. QED
        BY <1>2, <2>1, <3>1 DEF Fine, HasError
    <2>2. QED
      BY <1>1, <1>4, <2>1, ParentsFrame
  <1>5. QED
    BY <1>1, <1>3, <1>4

\* No step leaves a child waiting in vain.
LEMMA ParentsStep ==
  ASSUME ParentsHavePrompts, IInv, ParentsOK, [Next]_vars
  PROVE  ParentsOK'
  <1>1. CASE MainStep
    <2>1. load' = load
      BY <1>1 DEF MainStep
    <2>2. CASE send_reply
      BY <2>1, <2>2, ParentsSame DEF send_reply, send
    <2>3. ASSUME NEW s0 \in Slots, send_of_slot(s0) \/ release(s0) PROVE ParentsOK'
      <3>1. /\ slot \in [Slots -> SlotRecords] /\ due \in [Slots -> Duties] /\ mpc' = mpc
            /\ due[s0] # "none"
            /\ \A x \in Slots : x # s0 => slot'[x] = slot[x] /\ due'[x] = due[x]
            /\ slot'[s0] = slot[s0] \/ slot'[s0] = IdleSlot
        BY <2>3 DEF send_of_slot, release, LoopAt, send, IInv, TypeOK, SlotRecords
      <3>2. IdleSlot.st = "idle"
        BY DEF IdleSlot
      <3>3. \A s \in Slots : slot'[s].st = "wait_other" => slot[s].st = "wait_other" /\ slot'[s].task = slot[s].task
        BY <3>1, <3>2
      <3>4. Parents' = Parents
        BY <3>1 DEF Parents
      <3>5. \A p \in Slots : due[p] = "none" => slot'[p] = slot[p] /\ due'[p] = due[p]
        BY <3>1
      <3>6. QED
        BY <2>1, <3>3, <3>4, <3>5, ParentsFrame
    <2>4. CASE drain \/ update_slots \/ wait_for_tasks
      BY <2>1, <2>4, ParentsSame DEF drain, update_slots, wait_for_tasks, agenda
    <2>5. CASE process_single_task
      BY <2>1, <2>5, ParentsProcess
    <2>6. CASE pre_decode \/ decode
      BY <2>1, <2>6, ParentsPreDecode, ParentsDecode
    <2>7. CASE post_decode
      <3>1. /\ At("post_decode") /\ mpc' = "wait"
            /\ \A s \in Slots :
                 /\ slot'[s].task = slot[s].task
                 /\ slot[s].st \notin {"generating", "done_prompt"} => slot'[s] = slot[s] /\ due'[s] = "none"
                 /\ slot'[s].st \in {slot[s].st, "generating"}
        BY <2>7, PostDecodeFact
      <3>2. Parents = {"started"} /\ "started" \in Parents'
        BY <3>1, AtFact DEF Parents
      <3>3. \A s \in Slots : slot'[s].st = "wait_other" => slot[s].st = "wait_other"
        BY <3>1
      <3>4. QED
        BY <2>1, <3>1, <3>2, <3>3, ParentsFrame
    <2>8. QED
      BY <1>1, <2>2, <2>3, <2>4, <2>5, <2>6, <2>7 DEF MainStep
  <1>2. ASSUME NEW r \in Requests, ReaderStep(r) \/ (give_up(r) /\ load' = load) PROVE ParentsOK'
    <2>1. UNCHANGED <<load, slot, due, mpc>>
      BY <1>2 DEF ReaderStep, add_waiting_task_ids, post_tasks, next, give_up, stop, post_cancel, agenda
    <2>2. QED
      BY <2>1, ParentsSame
  <1>3. CASE UNCHANGED vars
    BY <1>3, ParentsSame DEF vars
  <1>4. QED
    BY <1>1, <1>2, <1>3 DEF Next

\* If every parent has a prompt, a child never waits in its slot for a parent
\* that is through with its own, unless the request is over or about to be
\* cancelled.
THEOREM ChildWaitsForParentHolds ==
  ASSUME ParentsHavePrompts
  PROVE  Spec => []ChildWaitsForParent
  <1>1. Init => ParentsOK
    BY DEF Init, ParentsOK, Fine
  <1>2. IInv /\ ParentsOK /\ [Next]_vars => ParentsOK'
    BY ParentsStep
  <1>3. ASSUME IInv, ParentsOK PROVE ChildWaitsForParent
    <2>1. SUFFICES ASSUME NEW s \in Slots, slot[s].st = "wait_other",
                          cpc[Owner(slot[s].task)] = "reading", ~HasError(Owner(slot[s].task))
                   PROVE  \E p \in In("started") \cup In("done_prompt") : IsChildOf(slot[s].task, slot[p].task)
      BY DEF ChildWaitsForParent, In
    <2>2. load \in Loads
      BY <1>3 DEF IInv, TypeOK
    <2>3. PICK r \in Requests : slot[s].task \in IdTasks(r)
      BY <1>3, <2>1 DEF IInv, SlotsOK, Busy
    <2>4. Owner(slot[s].task) = r
      BY <2>2, <2>3, OwnerFact
    <2>5. PICK p \in Slots : slot[p].st \in Parents /\ IsChildOf(slot[s].task, slot[p].task)
      BY <1>3, <2>1, <2>3, <2>4 DEF ParentsOK, Fine
    <2>6. QED
      BY <2>5 DEF In, Parents
  <1>4. QED
    BY <1>1, <1>2, <1>3, InvariantHolds, PTL DEF Spec

-----------------------------------------------------------------------------
(* Deferred tasks, when nothing fails and no connection closes.            *)

\* No request asks for more choices than there are slots (the hard limit of
\* n_cmpl), and operations on slots, which may be deferred as well but release
\* no slot when they are done, do not occur.
DeferredTasksTakeSlots ==
    \A l \in Loads : ~l.mayFail /\ ~l.mayGiveUp =>
      \A t \in Tasks : Len(l.children[t]) < NSlots /\ (l.kind[t] = "slot_op" => l.actionSlot[t] = 0)

\* Without failures no error is sent and nothing is cancelled.
Undisturbed ==
    /\ reply.kind # "error" /\ \A s \in Slots : due[s] # "error"
    /\ \A r \in Requests : /\ cpc[r] \notin {"stopping", "cancelling"}
                           /\ \A i \in DOMAIN results[r] : results[r][i].kind # "error"
    /\ \A t \in Tasks : ~Cancelling(t)

\* The main thread is going to launch t.
Upcoming(t) == Kind[t] # "slot_op" /\ (Run(t) \in ElemsOf(queue_tasks) \/ cur = Run(t))

\* Only tasks that need a slot are deferred, and as long as there are any some
\* slot, now or soon, works on a task and will be released.
DeferredOK ==
    /\ \A t \in ElemsOf(queue_tasks_deferred) : Kind[t] # "slot_op"
    /\ queue_tasks_deferred # <<>> => (\E s \in Slots : Busy(s)) \/ \E t \in Tasks : Upcoming(t)

QuietInv == ~MayFail /\ ~MayGiveUp => Undisturbed /\ DeferredOK

\* What a result leaves behind for the readers to find: no error, unless it is one.
LEMMA NoErrorSent ==
  ASSUME IInv, Undisturbed, NEW t \in Tasks, NEW kind \in ResultKinds, kind # "error", send(t, kind)
  PROVE  \A r \in Requests : \A i \in DOMAIN results'[r] : results'[r][i].kind # "error"
  <1> DEFINE R == [t : Tasks, kind : ResultKinds]
             x == [t |-> t, kind |-> kind]
  <1>1. results \in [Requests -> Seq(R)] /\ x \in R /\ x.kind # "error"
    BY DEF IInv, TypeOK
  <1>2. results' = IF t \in waiting_task_ids THEN [results EXCEPT ![Owner(t)] = Append(results[Owner(t)], x)] ELSE results
    BY DEF send
  <1> HIDE DEF x
  <1>3. ASSUME NEW r \in Requests, NEW i \in DOMAIN results'[r] PROVE results'[r][i].kind # "error"
    <2>1. results[r] \in Seq(R) /\ \A j \in DOMAIN results[r] : results[r][j].kind # "error"
      BY <1>1 DEF Undisturbed
    <2>2. results'[r] = Append(results[r], x) \/ results'[r] = results[r]
      BY <1>1, <1>2
    <2>3. CASE results'[r] = Append(results[r], x)
      <3>1. /\ DOMAIN results'[r] = 1 .. Len(results[r]) + 1 /\ DOMAIN results[r] = 1 .. Len(results[r])
            /\ Len(results[r]) \in Nat
            /\ \A j \in 1 .. Len(results[r]) : results'[r][j] = results[r][j]
            /\ results'[r][Len(results[r]) + 1] = x
        BY <1>1, <2>1, <2>3
      <3>2. CASE i = Len(results[r]) + 1
        BY <1>1, <3>1, <3>2
      <3>3. CASE i # Len(results[r]) + 1
        BY <1>3, <2>1, <3>1, <3>3
      <3>4. QED
        BY <3>2, <3>3
    <2>4. QED
      BY <1>3, <2>1, <2>2, <2>3
  <1>4. QED
    BY <1>3

\* With no slot busy, all but one are free for children.
LEMMA AllFree ==
  ASSUME NEW s \in Slots, \A x \in Slots : ~Busy(x)
  PROVE  Len(FreeSlotsBut(s)) = NSlots - 1
  <1>1. IsFiniteSet(Slots) /\ Cardinality(Slots) = NSlots /\ Slots \subseteq Nat
    BY TasksAssumption, FS_Interval DEF Slots
  <1>2. IsFiniteSet(Slots \ {s}) /\ Cardinality(Slots \ {s}) = NSlots - 1
    BY <1>1, FS_RemoveElement
  <1>3. FreeSlotsBut(s) = InOrder({x \in Slots \ {s} : ~Busy(x)}) /\ {x \in Slots \ {s} : ~Busy(x)} = Slots \ {s}
    BY DEF FreeSlotsBut
  <1>4. PICK n \in Nat : n = NSlots - 1
    BY TasksAssumption
  <1>5. FreeSlotsBut(s) \in [1 .. n -> Slots \ {s}]
    <2>1. Slots \ {s} \in SUBSET Nat
      BY <1>1
    <2>2. InOrder(Slots \ {s}) \in [1 .. Cardinality(Slots \ {s}) -> Slots \ {s}]
      BY <1>2, <2>1, InOrderFact
    <2>3. QED
      BY <1>2, <1>3, <1>4, <2>2
  <1>6. Len(FreeSlotsBut(s)) = n
    BY <1>5
  <1>7. QED
    BY <1>4, <1>6

\* A task is deferred only if it needs a slot and one is busy.
LEMMA DeferredForASlot ==
  ASSUME DeferredTasksTakeSlots, IInv, ~MayFail, ~MayGiveUp, process_single_task, load' = load,
         NEW t \in Tasks, cur = Run(t)
  PROVE  \/ /\ Kind[t] # "slot_op" /\ (\E s \in Slots : Busy(s))
            /\ queue_tasks_deferred' = Append(queue_tasks_deferred, t) /\ UNCHANGED <<slot, reply, due>>
         \/ /\ Kind[t] # "slot_op" /\ UNCHANGED <<queue_tasks_deferred, reply, due>>
            /\ \E s \in Slots : Busy(s)'
         \/ /\ Kind[t] = "slot_op" /\ UNCHANGED <<queue_tasks_deferred, slot, due>>
            /\ reply' = [t |-> t, kind |-> "final"]
  <1>1. load \in Loads /\ cur.op = "run" /\ cur.t = t /\ slot \in [Slots -> SlotRecords]
    BY DEF IInv, TypeOK, Run, SlotRecords
  <1>2. Len(Children[t]) < NSlots /\ (Kind[t] = "slot_op" => ActionSlot[t] = 0)
    BY <1>1 DEF DeferredTasksTakeSlots, MayFail, MayGiveUp, Children, Kind, ActionSlot
  <1>3. Children[t] \in Seq(Tasks) /\ Len(Children[t]) \in Nat /\ IdSlot[t] \in 0 .. NSlots
    BY <1>1, LoadFact
  <1>4. CASE Kind[t] = "slot_op"
    <2>1. process_slot_op(t)
      BY <1>1, <1>4 DEF process_single_task
    <2>2. QED
      BY <1>2, <1>4, <2>1 DEF process_slot_op
  <1>5. CASE Kind[t] # "slot_op"
    <2>1. process_slot_task(t)
      BY <1>1, <1>5 DEF process_single_task
    <2>2. AvailableSlots(t) # {} \/ \E s \in Slots : Busy(s)
      <3>1. 1 \in Slots
        BY TasksAssumption DEF Slots
      <3>2. QED
        BY <1>3, <3>1, TasksAssumption DEF AvailableSlots, Slots
    <2>3. AvailableSlots(t) \subseteq Slots
      BY <1>3, TasksAssumption DEF AvailableSlots, Slots
    <2>4. CASE defer(t)
      <3>1. \E s \in Slots : Busy(s)
        <4>1. SUFFICES ASSUME \A s \in Slots : ~Busy(s) PROVE FALSE
          OBVIOUS
        <4>2. ~(\A s \in AvailableSlots(t) : Busy(s))
          BY <2>2, <2>3, <4>1
        <4>3. \A s \in Slots : Len(FreeSlotsBut(s)) = NSlots - 1
          BY <4>1, AllFree
        <4>4. PICK s \in Slots : Len(FreeSlotsBut(s)) < Len(Children[t]) \/ UNCHANGED queue_tasks_deferred
          BY <2>1, <2>3, <4>2 DEF process_slot_task
        <4>5. queue_tasks_deferred' # queue_tasks_deferred
          <5>1. queue_tasks_deferred \in Seq(Tasks)
            BY DEF IInv, TypeOK
          <5>2. Len(Append(queue_tasks_deferred, t)) = Len(queue_tasks_deferred) + 1 /\ Len(queue_tasks_deferred) \in Nat
            BY <5>1
          <5>3. QED
            BY <2>4, <5>2 DEF defer
        <4>6. QED
          BY <1>2, <1>3, <4>3, <4>4, <4>5, TasksAssumption
      <3>2. QED
        BY <1>5, <2>4, <3>1 DEF defer, agenda
    <2>5. ASSUME NEW s \in Slots, launch(t, s), UNCHANGED queue_tasks_deferred
          PROVE  (\E x \in Slots : Busy(x)') /\ UNCHANGED <<reply, due>>
      <3>1. PICK w : w = WithChildren(t, FreeSlotsBut(s), Len(Children[t]))
        OBVIOUS
      <3>2. slot' = [w EXCEPT ![s] = Launched(t)] /\ UNCHANGED <<reply, due>>
        BY <2>5, <3>1 DEF launch, agenda
      <3>3. DOMAIN w = Slots
        BY <3>1 DEF WithChildren
      <3>4. slot'[s] = Launched(t) /\ Launched(t).st # "idle"
        BY <3>2, <3>3 DEF Launched
      <3>5. QED
        BY <3>2, <3>4 DEF Busy
    <2>6. QED
      BY <1>5, <2>1, <2>3, <2>4, <2>5 DEF process_slot_task
  <1>6. QED
    BY <1>4, <1>5

\* No step leaves a deferred task behind.  The reader's steps first.
LEMMA QuietReader ==
  ASSUME DeferredTasksTakeSlots, IInv, ~MayFail, ~MayGiveUp, Undisturbed, DeferredOK, load' = load,
         NEW r \in Requests, ReaderStep(r) \/ give_up(r)
  PROVE  Undisturbed' /\ DeferredOK'
  <1>1. /\ TypeOK /\ load \in Loads /\ Kind' = Kind /\ queue_tasks \in Seq(QueueElems)
        /\ cpc \in [Requests -> ReaderPoints] /\ Posted[r] \in Seq(Tasks)
        /\ results \in [Requests -> Seq([t : Tasks, kind : ResultKinds])]
    BY LoadFact, LoadKept DEF IInv, TypeOK
  <1>2. UNCHANGED <<slot, cur, reply, due, queue_tasks_deferred>>
    <2>1. cpc[r] # "cancelling"
      BY DEF Undisturbed
    <2>2. QED
      BY <2>1 DEF ReaderStep, add_waiting_task_ids, post_tasks, next, give_up, stop, post_cancel, agenda, queues
  <1>3. /\ \A t \in Tasks : Cancel(t) \in ElemsOf(queue_tasks') => Cancel(t) \in ElemsOf(queue_tasks)
        /\ \A x \in ElemsOf(queue_tasks) : x \in ElemsOf(queue_tasks')
    <2>1. CASE post_tasks(r)
      <3>1. PICK p : p = [i \in DOMAIN Posted[r] |-> Run(Posted[r][i])]
        OBVIOUS
      <3>2. /\ p \in Seq(QueueElems)
            /\ \A x \in ElemsOf(p) : \E t \in Tasks : x = Run(t)
        <4>1. /\ DOMAIN Posted[r] = 1 .. Len(Posted[r]) /\ Len(Posted[r]) \in Nat
              /\ \A i \in 1 .. Len(Posted[r]) : Posted[r][i] \in Tasks
          BY <1>1
        <4>2. p \in [1 .. Len(Posted[r]) -> QueueElems] /\ \A i \in 1 .. Len(Posted[r]) : p[i] = Run(Posted[r][i])
          BY <3>1, <4>1, RecordFact
        <4>3. p \in Seq(QueueElems)
          BY <4>1, <4>2
        <4>4. QED
          BY <4>1, <4>2, <4>3 DEF ElemsOf
      <3>3. queue_tasks' = queue_tasks \o p
        BY <2>1, <3>1 DEF post_tasks
      <3>4. ElemsOf(queue_tasks') = ElemsOf(queue_tasks) \cup ElemsOf(p)
        BY <1>1, <3>2, <3>3, ConcatElems
      <3>5. QED
        BY <3>2, <3>4, RecordFact
    <2>2. CASE ~post_tasks(r)
      <3>1. queue_tasks' = queue_tasks
        BY <2>2 DEF Undisturbed, ReaderStep, add_waiting_task_ids, next, give_up, stop, post_cancel, queues
      <3>2. QED
        BY <3>1
    <2>3. QED
      BY <2>1, <2>2
  <1>4. ASSUME NEW q \in Requests
        PROVE  /\ cpc'[q] \notin {"stopping", "cancelling"}
               /\ \A i \in DOMAIN results'[q] : results'[q][i].kind # "error"
    <2>1. cpc[q] \notin {"stopping", "cancelling"} /\ \A i \in DOMAIN results[q] : results[q][i].kind # "error"
      BY DEF Undisturbed
    <2>2. CASE add_waiting_task_ids(r) \/ post_tasks(r)
      BY <1>1, <2>1, <2>2 DEF add_waiting_task_ids, post_tasks, resp
    <2>3. CASE next(r)
      <3>1. /\ results[r] \in Seq([t : Tasks, kind : ResultKinds]) /\ results[r] # <<>>
            /\ \A i \in DOMAIN results[r] : results[r][i].kind # "error"
            /\ results' = [results EXCEPT ![r] = Tail(results[r])]
        BY <1>1, <2>3 DEF next, Undisturbed
      <3>2. /\ Head(results[r]).kind # "error"
            /\ \A i \in DOMAIN Tail(results[r]) : Tail(results[r])[i].kind # "error"
        BY <3>1
      <3>3. cpc' = [cpc EXCEPT ![r] = cpc'[r]] /\ cpc'[r] \in {"finished", "reading"}
        BY <1>1, <2>3, <3>2 DEF next
      <3>4. QED
        BY <1>1, <2>1, <3>1, <3>2, <3>3
    <2>4. CASE stop(r)
      <3>1. cpc[r] = "finished"
        BY <2>4 DEF stop, Undisturbed
      <3>2. QED
        BY <1>1, <2>1, <2>4, <3>1 DEF stop
    <2>5. QED
      BY <2>2, <2>3, <2>4 DEF ReaderStep, give_up, post_cancel, Undisturbed
  <1>5. Undisturbed'
    BY <1>2, <1>3, <1>4 DEF Undisturbed, Cancelling
  <1>6. \A t \in Tasks : Upcoming(t) => Upcoming(t)'
    BY <1>1, <1>2, <1>3 DEF Upcoming
  <1>7. DeferredOK'
    BY <1>1, <1>2, <1>6 DEF DeferredOK, Busy
  <1>8. QED
    BY <1>5, <1>7

\* Without failures pre_decode finds no error.
LEMMA QuietPreDecode ==
  ASSUME ~MayFail, pre_decode
  PROVE  \A s \in Slots : due'[s] # "error"
  <1>1. PICK prompts \in BatchablePrompts, full \in SUBSET (IF MayFail THEN In("generating") ELSE {}),
             outcome \in [Slots -> {"none", "error", "final", "done", "chunk"}] :
          /\ \A s \in Slots : outcome[s] \in IF s \in prompts THEN PromptOutcomes(s)
                                             ELSE IF s \in full THEN {"error"} ELSE {"none"}
          /\ slot' = [s \in Slots |->
                        CASE outcome[s] = "done"  -> [slot[s] EXCEPT !.st = "done_prompt"]
                          [] outcome[s] = "chunk" -> [slot[s] EXCEPT !.turns = @ + 1]
                          [] OTHER -> slot[s]]
          /\ batched' = In("generating") \ full
          /\ due' = [s \in Slots |-> IF outcome[s] \in {"done", "chunk"} THEN "none" ELSE outcome[s]]
          /\ mpc' \in {"decode", "wait"}
    BY DEF pre_decode
  <1>2. full = {} /\ \A s \in Slots : "error" \notin PromptOutcomes(s)
    BY <1>1 DEF PromptOutcomes
  <1>3. \A s \in Slots : outcome[s] # "error"
    BY <1>1, <1>2
  <1>4. QED
    BY <1>1, <1>3

\* Then the main thread's: what it launches, decodes or releases.
LEMMA QuietMain ==
  ASSUME DeferredTasksTakeSlots, IInv, ~MayFail, ~MayGiveUp, Undisturbed, DeferredOK, load' = load,
         MainStep
  PROVE  Undisturbed' /\ DeferredOK'
  <1>1. /\ TypeOK /\ load \in Loads /\ Kind' = Kind
        /\ queue_tasks \in Seq(QueueElems) /\ queue_tasks_deferred \in Seq(Tasks)
        /\ slot \in [Slots -> SlotRecords] /\ due \in [Slots -> Duties]
    BY LoadKept DEF IInv, TypeOK, SlotRecords
  <1>2. ASSUME UNCHANGED <<queue_tasks, queue_tasks_deferred, cur, results, cpc>>,
               reply'.kind # "error", \A s \in Slots : due'[s] # "error" /\ (Busy(s) => Busy(s)')
        PROVE  Undisturbed' /\ DeferredOK'
    BY <1>1, <1>2 DEF Undisturbed, Cancelling, DeferredOK, Upcoming
  <1>3. CASE send_reply
    <2>1. PICK t \in Tasks : reply.t = t /\ reply.kind = "final"
      BY <1>1, <1>3 DEF send_reply, TypeOK, Undisturbed
    <2>2. send(t, "final") /\ reply' = NoReply /\ due' = due
      BY <1>3, <2>1 DEF send_reply
    <2>3. \A r \in Requests : \A i \in DOMAIN results'[r] : results'[r][i].kind # "error"
      BY <2>2, NoErrorSent DEF ResultKinds
    <2>4. UNCHANGED <<queue_tasks, queue_tasks_deferred, cur, cpc, slot>>
      BY <2>2 DEF send, queues, reader
    <2>5. QED
      BY <1>1, <2>2, <2>3, <2>4 DEF Undisturbed, Cancelling, DeferredOK, Upcoming, Busy, NoReply
  <1>4. ASSUME NEW s \in Slots, send_of_slot(s) PROVE Undisturbed' /\ DeferredOK'
    <2>1. due[s] \in ResultKinds \ {"error"} /\ send(slot[s].task, due[s]) /\ reply' = reply
      BY <1>4 DEF send_of_slot, Undisturbed
    <2>2. slot[s].task \in Tasks
      BY <1>1, <2>1, SlotFact DEF ResultKinds
    <2>3. \A r \in Requests : \A i \in DOMAIN results'[r] : results'[r][i].kind # "error"
      BY <2>1, <2>2, NoErrorSent
    <2>4. \A x \in Slots : due'[x] # "error"
      BY <1>1, <1>4, <2>1 DEF send_of_slot, Undisturbed
    <2>5. UNCHANGED <<queue_tasks, queue_tasks_deferred, cur, cpc, slot>>
      BY <2>1 DEF send, queues, reader
    <2>6. QED
      BY <1>1, <2>1, <2>3, <2>4, <2>5 DEF Undisturbed, Cancelling, DeferredOK, Upcoming, Busy
  <1>5. ASSUME NEW s \in Slots, release(s) PROVE Undisturbed' /\ DeferredOK'
    <2>1. /\ pop_deferred_task(s) /\ UNCHANGED <<reply, cur, cpc, results>>
          /\ due' = [due EXCEPT ![s] = "none"] /\ slot' = [slot EXCEPT ![s] = IdleSlot]
      BY <1>5 DEF release, resp, reader
    <2>2. /\ \A t \in Tasks : Cancel(t) \in ElemsOf(queue_tasks') <=> Cancel(t) \in ElemsOf(queue_tasks)
          /\ ElemsOf(queue_tasks_deferred') \subseteq ElemsOf(queue_tasks_deferred)
          /\ IF queue_tasks_deferred = <<>> THEN queue_tasks_deferred' = <<>>
             ELSE \E u \in ElemsOf(queue_tasks_deferred) : u \in Tasks /\ Run(u) \in ElemsOf(queue_tasks')
      BY <1>1, <2>1, PopFact
    <2>3. Undisturbed'
      BY <1>1, <2>1, <2>2 DEF Undisturbed, Cancelling
    <2>4. DeferredOK'
      BY <1>1, <2>2 DEF DeferredOK, Upcoming
    <2>5. QED
      BY <2>3, <2>4
  <1>6. CASE drain
    <2>1. /\ cur = NextResponse /\ UNCHANGED <<queue_tasks_deferred, results, slot, reply, due, cpc>>
          /\ \/ UNCHANGED <<queue_tasks, cur>>
             \/ queue_tasks # <<>> /\ cur' = Head(queue_tasks) /\ queue_tasks' = Tail(queue_tasks)
      BY <1>6, AtFact DEF drain, resp, agenda, reader
    <2>2. CASE UNCHANGED <<queue_tasks, cur>>
      BY <1>2, <2>1, <2>2 DEF Undisturbed, Busy
    <2>3. CASE queue_tasks # <<>> /\ cur' = Head(queue_tasks) /\ queue_tasks' = Tail(queue_tasks)
      <3>1. ElemsOf(queue_tasks) = {cur'} \cup ElemsOf(queue_tasks')
        BY <1>1, <2>3, HeadElems
      <3>2. \A t \in Tasks : /\ Cancelling(t)' => Cancelling(t)
                             /\ Upcoming(t) => Upcoming(t)'
        BY <1>1, <2>1, <3>1, RecordFact DEF Cancelling, Upcoming
      <3>3. QED
        BY <1>1, <2>1, <3>2 DEF Undisturbed, DeferredOK, Busy
    <2>4. QED
      BY <2>1, <2>2, <2>3
  <1>7. CASE process_single_task
    <2>1. Processing
      BY <1>7, ProcessCases
    <2>2. /\ reply = NoReply /\ reply.kind # "error" /\ cur' = NextResponse
          /\ UNCHANGED <<queue_tasks, results, cpc>>
      BY <2>1, AtFact DEF Processing, Undisturbed
    <2>3. ASSUME reply'.kind # "error", \A s \in Slots : due'[s] # "error"
          PROVE  Undisturbed'
      BY <2>2, <2>3, RecordFact DEF Undisturbed, Cancelling
    <2>4. ASSUME NEW t \in Tasks, cur = Run(t) PROVE Undisturbed' /\ DeferredOK'
      <3>1. \/ /\ Kind[t] # "slot_op" /\ (\E s \in Slots : Busy(s))
               /\ queue_tasks_deferred' = Append(queue_tasks_deferred, t) /\ UNCHANGED <<slot, reply, due>>
            \/ /\ Kind[t] # "slot_op" /\ UNCHANGED <<queue_tasks_deferred, reply, due>>
               /\ \E s \in Slots : Busy(s)'
            \/ /\ Kind[t] = "slot_op" /\ UNCHANGED <<queue_tasks_deferred, slot, due>>
               /\ reply' = [t |-> t, kind |-> "final"]
        BY <1>7, <2>4, DeferredForASlot
      <3>2. Undisturbed'
        BY <2>2, <2>3, <3>1 DEF Undisturbed
      <3>3. CASE /\ Kind[t] # "slot_op" /\ (\E s \in Slots : Busy(s))
                 /\ queue_tasks_deferred' = Append(queue_tasks_deferred, t) /\ UNCHANGED slot
        <4>1. ElemsOf(queue_tasks_deferred') = ElemsOf(queue_tasks_deferred) \cup {t}
          BY <1>1, <3>3, AppendElems
        <4>2. QED
          BY <1>1, <3>2, <3>3, <4>1 DEF DeferredOK, Busy
      <3>4. CASE UNCHANGED queue_tasks_deferred /\ \E s \in Slots : Busy(s)'
        BY <1>1, <3>2, <3>4 DEF DeferredOK
      <3>5. CASE Kind[t] = "slot_op" /\ UNCHANGED <<queue_tasks_deferred, slot>>
        <4>1. \A u \in Tasks : Upcoming(u) => Upcoming(u)'
          BY <1>1, <2>2, <2>4, <3>5, RecordFact DEF Upcoming
        <4>2. QED
          BY <1>1, <3>2, <3>5, <4>1 DEF DeferredOK, Busy
      <3>6. QED
        BY <3>1, <3>3, <3>4, <3>5
    <2>5. CASE cur = NextResponse
      <3>1. UNCHANGED <<queue_tasks_deferred, slot, reply, due>>
        BY <1>7, <2>5 DEF process_single_task, NextResponse, agenda
      <3>2. \A u \in Tasks : Upcoming(u) => Upcoming(u)'
        BY <1>1, <2>2, <2>5 DEF Upcoming
      <3>3. QED
        BY <1>1, <2>2, <2>3, <3>1, <3>2 DEF Undisturbed, DeferredOK, Busy
    <2>6. \A t \in Tasks : cur # Cancel(t)
      BY DEF Undisturbed, Cancelling
    <2>7. cur = NextResponse \/ (\E t \in Tasks : cur = Run(t)) \/ \E t \in Tasks : cur = Cancel(t)
      BY <1>1 DEF TypeOK, QueueElems, Run, Cancel
    <2>8. QED
      BY <2>4, <2>5, <2>6, <2>7
  <1>8. CASE update_slots
    <2>1. /\ UNCHANGED <<queue_tasks_deferred, results, slot, cur, reply, due, cpc>>
          /\ queue_tasks' = queue_tasks \/ queue_tasks' = Append(queue_tasks, NextResponse)
      BY <1>8 DEF update_slots, resp, agenda, reader
    <2>2. ElemsOf(queue_tasks') = ElemsOf(queue_tasks) \/ ElemsOf(queue_tasks') = ElemsOf(queue_tasks) \cup {NextResponse}
      <3>1. ElemsOf(Append(queue_tasks, NextResponse)) = ElemsOf(queue_tasks) \cup {NextResponse}
        BY <1>1, AppendElems, RecordFact
      <3>2. QED
        BY <2>1, <3>1
    <2>3. \A t \in Tasks : (Cancelling(t)' => Cancelling(t)) /\ (Upcoming(t) => Upcoming(t)')
      BY <1>1, <2>1, <2>2, RecordFact DEF Cancelling, Upcoming
    <2>4. QED
      BY <1>1, <2>1, <2>3 DEF Undisturbed, DeferredOK, Busy
  <1>9. CASE pre_decode
    <2>1. UNCHANGED <<queue_tasks, queue_tasks_deferred, cur, results, reply, cpc>>
      BY <1>9 DEF pre_decode, queues, resp, reader
    <2>2. \A s \in Slots : slot'[s].st = slot[s].st \/ slot'[s].st = "done_prompt"
      BY <1>9, PreDecodeFact
    <2>3. \A s \in Slots : due'[s] # "error"
      BY <1>9, QuietPreDecode
    <2>4. QED
      BY <1>2, <2>1, <2>2, <2>3 DEF Undisturbed, Busy
  <1>10. CASE decode
    <2>1. UNCHANGED <<queue_tasks, queue_tasks_deferred, cur, results, reply, due, cpc>>
      BY <1>10 DEF decode, queues, resp, agenda, reader
    <2>2. \A s \in Slots : slot'[s].st = slot[s].st \/ slot'[s].st = "done_prompt"
      BY <1>10, DecodeFact
    <2>3. QED
      BY <1>2, <2>1, <2>2 DEF Undisturbed, Busy
  <1>11. CASE post_decode
    <2>1. UNCHANGED <<queue_tasks, queue_tasks_deferred, cur, results, reply, cpc>>
      <3>1. UNCHANGED <<queues, resp, cur, reply, reader>>
        BY <1>11, Zenon DEF post_decode
      <3>2. QED
        BY <3>1 DEF queues, resp, reader
    <2>2. \A s \in Slots : slot'[s].st \in {slot[s].st, "generating"} /\ due'[s] # "error"
      BY <1>11, PostDecodeFact
    <2>3. QED
      BY <1>2, <2>1, <2>2 DEF Undisturbed, Busy
  <1>12. CASE wait_for_tasks
    BY <1>2, <1>12 DEF wait_for_tasks, queues, resp, agenda, reader, Undisturbed, Busy
  <1>13. QED
    BY <1>3, <1>4, <1>5, <1>6, <1>7, <1>8, <1>9, <1>10, <1>11, <1>12 DEF MainStep

\* Without failures and closed connections no task is left deferred with all
\* slots idle and nothing to do, for any number of slots and any mix of requests
\* in which what is deferred takes a slot.
THEOREM NoStrandedTaskHolds ==
  ASSUME DeferredTasksTakeSlots
  PROVE  Spec => []NoStrandedTask
  <1>1. ASSUME Init PROVE QuietInv
    <2>1. queue_tasks = <<>> /\ queue_tasks_deferred = <<>> /\ cur = NextResponse /\ reply.kind # "error"
      BY <1>1 DEF Init, NoReply
    <2>2. ElemsOf(queue_tasks) = {} /\ ElemsOf(queue_tasks_deferred) = {}
      BY <2>1 DEF ElemsOf
    <2>3. QED
      BY <1>1, <2>1, <2>2, RecordFact DEF Init, QuietInv, Undisturbed, Cancelling, DeferredOK, Nothing
  <1>2. ASSUME IInv, QuietInv, [Next]_vars PROVE QuietInv'
    <2>1. CASE UNCHANGED vars
      BY <1>2, <2>1 DEF vars, QuietInv, Undisturbed, DeferredOK, Cancelling, Upcoming, Busy, MayFail, MayGiveUp, Kind
    <2>2. CASE Next
      <3>1. load' = load /\ MayFail' = MayFail /\ MayGiveUp' = MayGiveUp
        BY <2>2 DEF Next, MainStep, ReaderStep, MayFail, MayGiveUp
      <3>2. ASSUME ~MayFail, ~MayGiveUp PROVE Undisturbed' /\ DeferredOK'
        BY <1>2, <2>2, <3>1, <3>2, QuietReader, QuietMain DEF Next, QuietInv
      <3>3. QED
        BY <3>1, <3>2 DEF QuietInv
    <2>3. QED
      BY <1>2, <2>1, <2>2
  <1>3. ASSUME IInv, QuietInv PROVE NoStrandedTask
    <2>1. SUFFICES ASSUME ~MayFail, ~MayGiveUp, At("wait"), queue_tasks = <<>>, \A s \in Slots : ~Busy(s),
                          queue_tasks_deferred # <<>>
                   PROVE  FALSE
      BY DEF NoStrandedTask, Stranded
    <2>2. cur = NextResponse /\ ElemsOf(queue_tasks) = {}
      BY <1>3, <2>1, AtFact DEF ElemsOf
    <2>3. QED
      BY <1>3, <2>1, <2>2, RecordFact DEF QuietInv, DeferredOK, Upcoming
  <1>4. QED
    BY <1>1, <1>2, <1>3, InvariantHolds, PTL DEF Spec
=============================================================================
