--------------------------- MODULE TwoBatchProofs ---------------------------
(***************************************************************************)
(* Theorems about TwoBatch for any number of evals, calls, layers, events  *)
(* and prefetch slots.                                                     *)
(*                                                                         *)
(* Everything rests on one relation: After(C, e, f) says that in every cut *)
(* of C in which e is reached, f is.  A cut is a position in each stream   *)
(* such that no wait is passed before the event it waits for; the streams  *)
(* only ever come to cuts.  A step that runs an operation leaves fewer     *)
(* cuts, and one that enqueues some adds none below the old ends, so what  *)
(* is after what survives every step (CutsRun, CutsGrown).                 *)
(***************************************************************************)
EXTENDS TwoBatch, TLAPS

Events == [on : AllStreams, at : Nat]
Operations ==
    [do : {"wait"}, event : Events]
      \cup [do : {"state"}, eval : Nat, call : Nat]
      \cup [do : {"fill"}, slot : Slots, entry : Nat]
      \cup [do : {"upload"}, sort : {0, 1}]
      \cup [do : {"product"}, eval : Nat, call : Nat, sort : {0, 1},
            slot : Slots \cup {-1}, entry : Nat]

StreamsOK == queue \in [AllStreams -> Seq(Operations)] /\ ran \in [AllStreams -> Nat]

\* Positions of a stream count its operations from the first; those it has not
\* run are pending, Op has the one at a position.
Total == [s \in AllStreams |-> ran[s] + Len(queue[s])]
Pending == [s \in AllStreams |-> ran[s] + 1 .. Total[s]]
Op == [s \in AllStreams |-> [p \in Pending[s] |-> queue[s][p - ran[s]]]]
Point(s, p) == [on |-> s, at |-> p]

Cut(R) ==
    /\ \A s \in AllStreams : ran[s] <= R[s] /\ R[s] <= Total[s]
    /\ \A s \in AllStreams : \A p \in Pending[s] :
         p <= R[s] /\ Op[s][p].do = "wait" => R[Op[s][p].event.on] >= Op[s][p].event.at
Cuts == {R \in [AllStreams -> Nat] : Cut(R)}

After(C, e, f) == \A R \in C : R[e.on] >= e.at => R[f.on] >= f.at

\* The point lies within what its stream was given.
Exists(e) == e \in Events /\ e.at <= Total[e.on]
WaitsExist == \A s \in AllStreams : \A p \in Pending[s] :
                Op[s][p].do = "wait" => Exists(Op[s][p].event)

\* The streams are given more to do, or nothing.
Grown == /\ ran' = ran
         /\ \A s \in AllStreams :
              /\ Total'[s] >= Total[s]
              /\ \A p \in Pending[s] : p \in Pending'[s] /\ Op'[s][p] = Op[s][p]

-----------------------------------------------------------------------------
(* Queues.                                                                 *)

\* What an operation of each kind carries.
LEMMA OperationFact ==
  ASSUME NEW o \in Operations
  PROVE  /\ o.do = "wait" => o.event \in Events
         /\ o.do = "state" => o.eval \in Nat /\ o.call \in Nat
         /\ o.do = "fill" => o.slot \in Slots /\ o.entry \in Nat
         /\ o.do = "upload" => o.sort \in {0, 1}
         /\ o.do = "product" => /\ o.eval \in Nat /\ o.call \in Nat /\ o.sort \in {0, 1}
                                /\ o.slot \in Slots \cup {-1} /\ o.entry \in Nat
         /\ o.do \in {"wait", "state", "fill", "upload", "product"}
  BY DEF Operations

\* The pending operations of a stream are those of its queue, numbered in order.
LEMMA PendingFact ==
  ASSUME StreamsOK, NEW s \in AllStreams
  PROVE  /\ Total[s] \in Nat /\ ran[s] \in Nat /\ ran[s] <= Total[s]
         /\ Total[s] = ran[s] + Len(queue[s]) /\ Len(queue[s]) \in Nat
         /\ Pending[s] = ran[s] + 1 .. Total[s]
         /\ \A p \in Pending[s] : /\ p \in Nat /\ p > ran[s] /\ p <= Total[s]
                                  /\ Op[s][p] = queue[s][p - ran[s]] /\ Op[s][p] \in Operations
  <1>1. queue[s] \in Seq(Operations) /\ Len(queue[s]) \in Nat /\ ran[s] \in Nat
    BY DEF StreamsOK
  <1>2. Total[s] = ran[s] + Len(queue[s]) /\ Pending[s] = ran[s] + 1 .. Total[s]
    BY DEF Total, Pending
  <1>3. ASSUME NEW p \in Pending[s]
        PROVE  p - ran[s] \in 1 .. Len(queue[s]) /\ p \in Nat /\ p > ran[s] /\ p <= Total[s]
    BY <1>1, <1>2
  <1>4. ASSUME NEW p \in Pending[s]
        PROVE  Op[s][p] = queue[s][p - ran[s]] /\ Op[s][p] \in Operations
    <2>1. Op[s][p] = queue[s][p - ran[s]]
      BY DEF Op
    <2>2. QED
      BY <1>1, <1>3, <2>1
  <1>5. QED
    BY <1>1, <1>2, <1>3, <1>4

\* q is what Push(p, s, o) is.
Pushed(q, p, s, o) ==
    /\ q \in [AllStreams -> Seq(Operations)]
    /\ \A t \in AllStreams : t # s => q[t] = p[t]
    /\ Len(q[s]) = Len(p[s]) + 1
    /\ \A i \in 1 .. Len(p[s]) : q[s][i] = p[s][i]
    /\ q[s][Len(p[s]) + 1] = o
    /\ \A t \in AllStreams : Len(p[t]) \in Nat

\* Pushing an operation adds it at the end of one stream.
LEMMA PushFact ==
  ASSUME NEW q \in [AllStreams -> Seq(Operations)], NEW s \in AllStreams, NEW o \in Operations
  PROVE  Pushed(Push(q, s, o), q, s, o)
  BY DEF Push, Pushed

\* What k operations more on stream s do to the positions.
More(s, k) ==
    /\ StreamsOK' /\ ran' = ran
    /\ \A t \in AllStreams : t # s => queue'[t] = queue[t]
    /\ Len(queue'[s]) = Len(queue[s]) + k
    /\ \A i \in 1 .. Len(queue[s]) : queue'[s][i] = queue[s][i]

\* Pushing k operations gives them the next k numbers and changes no other stream.
LEMMA MoreFact ==
  ASSUME StreamsOK, NEW s \in AllStreams, NEW k \in 1 .. 2, More(s, k)
  PROVE  /\ StreamsOK' /\ Grown
         /\ \A t \in AllStreams : t # s => Total'[t] = Total[t] /\ Pending'[t] = Pending[t]
         /\ Total'[s] = Total[s] + k
         /\ \A p \in Pending'[s] : p \in Pending[s] \/ p \in Total[s] + 1 .. Total[s] + k
         /\ \A i \in 1 .. k : /\ Total[s] + i \in Pending'[s]
                              /\ Op'[s][Total[s] + i] = queue'[s][Len(queue[s]) + i]
  <1>1. StreamsOK' /\ ran' = ran
    BY DEF More
  <1>2. ASSUME NEW t \in AllStreams, t # s
        PROVE  Total'[t] = Total[t] /\ Pending'[t] = Pending[t] /\ Op'[t] = Op[t]
    <2>1. queue'[t] = queue[t]
      BY <1>2 DEF More
    <2>2. Total'[t] = Total[t]
      BY <1>1, <2>1 DEF Total
    <2>3. Pending'[t] = Pending[t]
      BY <1>1, <2>2 DEF Pending
    <2>4. QED
      BY <1>1, <2>1, <2>2, <2>3 DEF Op
  <1>3. /\ Total[s] = ran[s] + Len(queue[s]) /\ Len(queue[s]) \in Nat /\ ran[s] \in Nat
        /\ Pending[s] = ran[s] + 1 .. Total[s]
        /\ \A p \in Pending[s] : Op[s][p] = queue[s][p - ran[s]]
    BY PendingFact
  <1>4. Len(queue'[s]) = Len(queue[s]) + k
    BY DEF More
  <1>5. Total'[s] = Total[s] + k
    BY <1>1, <1>3, <1>4, SMTT(60) DEF Total
  <1>6. Pending'[s] = ran[s] + 1 .. Total[s] + k
    BY <1>1, <1>5 DEF Pending
  <1>7. \A p \in Pending'[s] : Op'[s][p] = queue'[s][p - ran[s]]
    BY <1>1 DEF Op
  <1>8. \A p \in Pending[s] : p \in Pending'[s] /\ Op'[s][p] = Op[s][p]
    <2>1. SUFFICES ASSUME NEW p \in Pending[s] PROVE p \in Pending'[s] /\ Op'[s][p] = Op[s][p]
      OBVIOUS
    <2>2. p \in Pending'[s] /\ p - ran[s] \in 1 .. Len(queue[s])
      BY <1>3, <1>6
    <2>3. queue'[s][p - ran[s]] = queue[s][p - ran[s]]
      BY <2>2 DEF More
    <2>4. QED
      BY <1>3, <1>7, <2>2, <2>3
  <1>9. ASSUME NEW i \in 1 .. k
        PROVE  /\ Total[s] + i \in Pending'[s]
               /\ Op'[s][Total[s] + i] = queue'[s][Len(queue[s]) + i]
    <2>1. Total[s] + i \in Pending'[s] /\ (Total[s] + i) - ran[s] = Len(queue[s]) + i
      BY <1>3, <1>6, SMTT(60)
    <2>2. QED
      BY <1>7, <2>1
  <1>10. \A p \in Pending'[s] : p \in Pending[s] \/ p \in Total[s] + 1 .. Total[s] + k
    BY <1>3, <1>6
  <1>11. Grown
    <2>1. \A t \in AllStreams : t # s => Total[t] \in Nat
      BY PendingFact
    <2>2. ASSUME NEW t \in AllStreams
          PROVE  /\ Total'[t] >= Total[t]
                 /\ \A p \in Pending[t] : p \in Pending'[t] /\ Op'[t][p] = Op[t][p]
      <3>1. CASE t = s
        <4>1. Total[s] \in Nat
          BY PendingFact
        <4>2. Total'[s] >= Total[s]
          BY <1>5, <4>1
        <4>3. QED
          BY <1>8, <3>1, <4>2
      <3>2. CASE t # s
        BY <1>2, <2>1, <3>2
      <3>3. QED
        BY <3>1, <3>2
    <2>3. QED
      BY <1>1, <2>2 DEF Grown
  <1>12. QED
    BY <1>1, <1>2, <1>5, <1>9, <1>10, <1>11

\* The same for one operation ...
LEMMA PushOne ==
  ASSUME StreamsOK, NEW s \in AllStreams, NEW o \in Operations,
         queue' = Push(queue, s, o), ran' = ran
  PROVE  /\ StreamsOK' /\ Grown
         /\ \A t \in AllStreams : t # s => Total'[t] = Total[t] /\ Pending'[t] = Pending[t]
         /\ Total'[s] = Total[s] + 1
         /\ \A p \in Pending'[s] : p \in Pending[s] \/ p = Total[s] + 1
         /\ Total[s] + 1 \in Pending'[s] /\ Op'[s][Total[s] + 1] = o
  <1>1. queue \in [AllStreams -> Seq(Operations)] /\ ran \in [AllStreams -> Nat]
    BY DEF StreamsOK
  <1>2. /\ More(s, 1) /\ queue'[s][Len(queue[s]) + 1] = o
    <2>1. Pushed(queue', queue, s, o)
      BY <1>1, PushFact
    <2>2. StreamsOK'
      BY <1>1, <2>1 DEF Pushed, StreamsOK
    <2>3. QED
      BY <2>1, <2>2 DEF Pushed, More
  <1>3. Total[s] \in Nat
    BY PendingFact
  <1>4. /\ StreamsOK' /\ Grown
        /\ \A t \in AllStreams : t # s => Total'[t] = Total[t] /\ Pending'[t] = Pending[t]
        /\ Total'[s] = Total[s] + 1
        /\ \A p \in Pending'[s] : p \in Pending[s] \/ p \in Total[s] + 1 .. Total[s] + 1
        /\ \A i \in 1 .. 1 : /\ Total[s] + i \in Pending'[s]
                             /\ Op'[s][Total[s] + i] = queue'[s][Len(queue[s]) + i]
    BY <1>2, MoreFact
  <1>5. \A p \in Pending'[s] : p \in Pending[s] \/ p = Total[s] + 1
    BY <1>3, <1>4
  <1>6. QED
    BY <1>2, <1>4, <1>5

\* ... and for two.
LEMMA PushTwo ==
  ASSUME StreamsOK, NEW s \in AllStreams, NEW o \in Operations, NEW x \in Operations,
         queue' = Push(Push(queue, s, o), s, x), ran' = ran
  PROVE  /\ StreamsOK' /\ Grown
         /\ \A t \in AllStreams : t # s => Total'[t] = Total[t] /\ Pending'[t] = Pending[t]
         /\ Total'[s] = Total[s] + 2
         /\ \A p \in Pending'[s] : p \in Pending[s] \/ p = Total[s] + 1 \/ p = Total[s] + 2
         /\ Total[s] + 1 \in Pending'[s] /\ Op'[s][Total[s] + 1] = o
         /\ Total[s] + 2 \in Pending'[s] /\ Op'[s][Total[s] + 2] = x
  <1>1. queue \in [AllStreams -> Seq(Operations)] /\ ran \in [AllStreams -> Nat]
    BY DEF StreamsOK
  <1>2. PICK q : q = Push(queue, s, o)
    OBVIOUS
  <1>3. Pushed(q, queue, s, o)
    BY <1>1, <1>2, PushFact
  <1>4. Pushed(queue', q, s, x)
    <2>1. q \in [AllStreams -> Seq(Operations)]
      BY <1>3 DEF Pushed
    <2>2. queue' = Push(q, s, x)
      BY <1>2
    <2>3. QED
      BY <2>1, <2>2, PushFact
  <1>5. /\ Len(queue'[s]) = Len(queue[s]) + 2
        /\ \A i \in 1 .. Len(queue[s]) : queue'[s][i] = queue[s][i]
        /\ queue'[s][Len(queue[s]) + 1] = o /\ queue'[s][Len(queue[s]) + 2] = x
        /\ \A t \in AllStreams : t # s => queue'[t] = queue[t]
        /\ queue' \in [AllStreams -> Seq(Operations)]
    <2>1. /\ Len(queue[s]) \in Nat /\ Len(q[s]) = Len(queue[s]) + 1
          /\ \A i \in 1 .. Len(queue[s]) : q[s][i] = queue[s][i]
          /\ q[s][Len(queue[s]) + 1] = o
          /\ \A t \in AllStreams : t # s => q[t] = queue[t]
      BY <1>3 DEF Pushed
    <2>2. /\ Len(queue'[s]) = Len(q[s]) + 1
          /\ \A i \in 1 .. Len(q[s]) : queue'[s][i] = q[s][i]
          /\ queue'[s][Len(q[s]) + 1] = x
          /\ \A t \in AllStreams : t # s => queue'[t] = q[t]
          /\ queue' \in [AllStreams -> Seq(Operations)]
      BY <1>4 DEF Pushed
    <2>3. PICK k \in Nat : k = Len(queue[s])
      BY <2>1
    <2>4. Len(q[s]) = k + 1 /\ k + 1 \in 1 .. k + 1 /\ Len(queue'[s]) = k + 2 /\ (k + 1) + 1 = k + 2
      BY <2>1, <2>2, <2>3
    <2>5. queue'[s][k + 1] = o /\ queue'[s][k + 2] = x
      BY <2>1, <2>2, <2>3, <2>4
    <2>6. \A i \in 1 .. k : queue'[s][i] = queue[s][i]
      BY <2>1, <2>2, <2>3, <2>4
    <2>7. \A t \in AllStreams : t # s => queue'[t] = queue[t]
      BY <2>1, <2>2
    <2>8. QED
      BY <2>2, <2>3, <2>4, <2>5, <2>6, <2>7
  <1>6. More(s, 2)
    BY <1>1, <1>5 DEF More, StreamsOK
  <1>7. Total[s] \in Nat
    BY PendingFact
  <1>8. /\ StreamsOK' /\ Grown
        /\ \A t \in AllStreams : t # s => Total'[t] = Total[t] /\ Pending'[t] = Pending[t]
        /\ Total'[s] = Total[s] + 2
        /\ \A p \in Pending'[s] : p \in Pending[s] \/ p \in Total[s] + 1 .. Total[s] + 2
        /\ \A i \in 1 .. 2 : /\ Total[s] + i \in Pending'[s]
                             /\ Op'[s][Total[s] + i] = queue'[s][Len(queue[s]) + i]
    BY <1>6, MoreFact
  <1>9. \A p \in Pending'[s] : p \in Pending[s] \/ p = Total[s] + 1 \/ p = Total[s] + 2
    BY <1>7, <1>8
  <1>10. QED
    BY <1>5, <1>8, <1>9

\* Stream t runs the first of its pending operations.
LEMMA StepFact ==
  ASSUME StreamsOK, NEW t \in AllStreams, Step(t)
  PROVE  /\ StreamsOK'
         /\ \A s \in AllStreams : Total'[s] = Total[s]
         /\ \A s \in AllStreams : s # t => ran'[s] = ran[s] /\ Pending'[s] = Pending[s]
         /\ ran'[t] = ran[t] + 1
         /\ ran[t] + 1 \in Pending[t] /\ Pending'[t] = Pending[t] \ {ran[t] + 1}
         /\ Head(queue[t]) = Op[t][ran[t] + 1]
         /\ \A s \in AllStreams : \A p \in Pending'[s] : p \in Pending[s] /\ Op'[s][p] = Op[s][p]
         /\ Op[t][ran[t] + 1].do = "wait" => Reached(Op[t][ran[t] + 1].event)
  <1>1. /\ queue[t] \in Seq(Operations) /\ queue[t] # <<>>
        /\ queue' = [queue EXCEPT ![t] = Tail(queue[t])]
        /\ ran' = [ran EXCEPT ![t] = ran[t] + 1]
        /\ Head(queue[t]).do = "wait" => Reached(Head(queue[t]).event)
        /\ queue \in [AllStreams -> Seq(Operations)] /\ ran \in [AllStreams -> Nat]
    BY DEF Step, StreamsOK
  <1>2. /\ Len(queue[t]) \in Nat /\ Len(queue[t]) >= 1
        /\ Tail(queue[t]) \in Seq(Operations)
        /\ Len(Tail(queue[t])) = Len(queue[t]) - 1
        /\ \A i \in 1 .. Len(queue[t]) - 1 : Tail(queue[t])[i] = queue[t][i + 1]
        /\ Head(queue[t]) = queue[t][1]
    BY <1>1
  <1>3. /\ ran'[t] = ran[t] + 1 /\ queue'[t] = Tail(queue[t])
        /\ \A s \in AllStreams : s # t => ran'[s] = ran[s] /\ queue'[s] = queue[s]
    BY <1>1
  <1>4. StreamsOK'
    BY <1>1, <1>2 DEF StreamsOK
  <1>5. ASSUME NEW s \in AllStreams, s # t
        PROVE  Total'[s] = Total[s] /\ Pending'[s] = Pending[s] /\ Op'[s] = Op[s]
    <2>1. Total'[s] = Total[s]
      BY <1>3, <1>5 DEF Total
    <2>2. Pending'[s] = Pending[s]
      BY <1>3, <1>5, <2>1 DEF Pending
    <2>3. QED
      BY <1>3, <1>5, <2>1, <2>2 DEF Op
  <1>6. /\ Total[t] = ran[t] + Len(queue[t]) /\ ran[t] \in Nat
        /\ Pending[t] = ran[t] + 1 .. Total[t]
        /\ \A p \in Pending[t] : Op[t][p] = queue[t][p - ran[t]]
    BY PendingFact
  <1>7. /\ Total'[t] = ran'[t] + Len(queue'[t])
        /\ Pending'[t] = ran'[t] + 1 .. Total'[t]
        /\ \A p \in Pending'[t] : Op'[t][p] = queue'[t][p - ran'[t]]
    BY DEF Total, Pending, Op
  <1>8. Total'[t] = Total[t]
    <2>1. Len(queue'[t]) = Len(queue[t]) - 1
      BY <1>2, <1>3
    <2>2. Len(queue[t]) \in Nat /\ ran'[t] = ran[t] + 1
      BY <1>2, <1>3
    <2>3. Total'[t] = (ran[t] + 1) + (Len(queue[t]) - 1)
      BY <1>7, <2>1, <2>2
    <2>4. QED
      BY <1>6, <2>2, <2>3, SMTT(60)
  <1>9. ran[t] + 1 \in Pending[t] /\ Pending'[t] = Pending[t] \ {ran[t] + 1}
    BY <1>2, <1>3, <1>6, <1>7, <1>8
  <1>10. Head(queue[t]) = Op[t][ran[t] + 1]
    <2>1. (ran[t] + 1) - ran[t] = 1
      BY <1>6
    <2>2. QED
      BY <1>2, <1>6, <1>9, <2>1
  <1>11. ASSUME NEW p \in Pending'[t] PROVE p \in Pending[t] /\ Op'[t][p] = Op[t][p]
    <2>1. p \in Pending[t]
      BY <1>9
    <2>2. p - ran'[t] \in 1 .. Len(queue[t]) - 1 /\ (p - ran'[t]) + 1 = p - ran[t]
      BY <1>2, <1>3, <1>6, <1>9, SMTT(60)
    <2>3. queue'[t][p - ran'[t]] = queue[t][p - ran[t]]
      BY <1>2, <1>3, <2>2
    <2>4. QED
      BY <1>6, <1>7, <2>1, <2>3
  <1>12. QED
    BY <1>1, <1>3, <1>4, <1>5, <1>8, <1>9, <1>10, <1>11

-----------------------------------------------------------------------------
(* Cuts.                                                                   *)

\* What the streams have done so far is a cut.
LEMMA CutNow == StreamsOK => ran \in Cuts
  <1> SUFFICES ASSUME StreamsOK PROVE ran \in Cuts
    OBVIOUS
  <1>1. ran \in [AllStreams -> Nat]
    BY DEF StreamsOK
  <1>2. \A s \in AllStreams : ran[s] <= ran[s] /\ ran[s] <= Total[s] /\ \A p \in Pending[s] : ~(p <= ran[s])
    <2>1. SUFFICES ASSUME NEW s \in AllStreams
                   PROVE  ran[s] <= ran[s] /\ ran[s] <= Total[s] /\ \A p \in Pending[s] : ~(p <= ran[s])
      OBVIOUS
    <2>2. QED
      BY PendingFact
  <1>3. QED
    BY <1>1, <1>2 DEF Cuts, Cut

\* To come after is transitive.
LEMMA AfterTrans ==
  ASSUME NEW C, NEW e, NEW f, NEW g, After(C, e, f), After(C, f, g)
  PROVE  After(C, e, g)
  BY DEF After

\* A stream comes to its points in their order.
LEMMA AfterFifo ==
  ASSUME NEW C \in SUBSET [AllStreams -> Nat], NEW e \in Events, NEW f \in Events,
         e.on = f.on, e.at >= f.at
  PROVE  After(C, e, f)
  <1>1. ASSUME NEW R \in C, R[e.on] >= e.at PROVE R[f.on] >= f.at
    <2>1. R[e.on] \in Nat /\ e.at \in Nat /\ f.at \in Nat
      BY DEF Events
    <2>2. QED
      BY <1>1, <2>1
  <1>2. QED
    BY <1>1 DEF After

\* A cut has a number for each stream.
LEMMA CutsFact == Cuts \in SUBSET [AllStreams -> Nat]
  BY DEF Cuts

\* A point of a stream is an event.
LEMMA PointFact ==
  ASSUME NEW s \in AllStreams, NEW p \in Nat
  PROVE  Point(s, p) \in Events /\ Point(s, p).on = s /\ Point(s, p).at = p
  BY DEF Point, Events

\* A stream that has passed a wait has passed the event.
LEMMA AfterWait ==
  ASSUME StreamsOK, NEW s \in AllStreams, NEW p \in Pending[s], Op[s][p].do = "wait"
  PROVE  After(Cuts, Point(s, p), Op[s][p].event)
  <1>1. p \in Nat
    BY PendingFact
  <1>2. ASSUME NEW R \in Cuts, R[s] >= p PROVE R[Op[s][p].event.on] >= Op[s][p].event.at
    <2>1. R[s] \in Nat
      BY DEF Cuts
    <2>2. p <= R[s]
      BY <1>1, <1>2, <2>1
    <2>3. QED
      BY <2>2 DEF Cuts, Cut
  <1>3. QED
    BY <1>1, <1>2, PointFact DEF After

\* Once an event is reached, what it comes after is.
LEMMA AfterReached ==
  ASSUME StreamsOK, NEW e, NEW f, After(Cuts, e, f), Reached(e)
  PROVE  Reached(f)
  BY CutNow DEF After, Reached

\* What has not run is not reached, and what is reached has run.
LEMMA NotReached ==
  ASSUME StreamsOK, NEW s \in AllStreams, NEW p \in Pending[s]
  PROVE  ~Reached(Point(s, p))
  BY PendingFact, PointFact DEF Reached

\* The first pending operation of a stream, if it may run, leads to a cut.
LEMMA CutHead ==
  ASSUME StreamsOK, NEW t \in AllStreams, ran[t] + 1 \in Pending[t],
         Op[t][ran[t] + 1].do = "wait" => Reached(Op[t][ran[t] + 1].event)
  PROVE  [ran EXCEPT ![t] = ran[t] + 1] \in Cuts
  <1>1. PICK R : R = [ran EXCEPT ![t] = ran[t] + 1]
    OBVIOUS
  <1>2. /\ ran \in [AllStreams -> Nat] /\ R \in [AllStreams -> Nat]
        /\ R[t] = ran[t] + 1
        /\ \A s \in AllStreams : s # t => R[s] = ran[s]
        /\ \A s \in AllStreams : R[s] >= ran[s]
    BY <1>1 DEF StreamsOK
  <1>3. ASSUME NEW s \in AllStreams PROVE ran[s] <= R[s] /\ R[s] <= Total[s]
    <2>1. ran[s] \in Nat /\ Total[s] \in Nat /\ ran[s] <= Total[s] /\ Pending[s] = ran[s] + 1 .. Total[s]
      BY PendingFact
    <2>2. QED
      BY <1>2, <2>1
  <1>4. ASSUME NEW s \in AllStreams, NEW p \in Pending[s], p <= R[s], Op[s][p].do = "wait"
        PROVE  R[Op[s][p].event.on] >= Op[s][p].event.at
    <2>1. ran[s] \in Nat /\ p \in Nat /\ p > ran[s] /\ Op[s][p] \in Operations
      BY PendingFact
    <2>2. s = t /\ p = ran[t] + 1
      BY <1>2, <1>4, <2>1
    <2>3. Reached(Op[s][p].event)
      BY <1>4, <2>2
    <2>4. Op[s][p].event \in Events
      BY <1>4, <2>1, OperationFact
    <2>5. PICK e \in Events : e = Op[s][p].event
      BY <2>4
    <2>6. e.on \in AllStreams /\ e.at \in Nat
      BY DEF Events
    <2>7. R[e.on] >= ran[e.on] /\ ran[e.on] \in Nat /\ R[e.on] \in Nat
      BY <1>2, <2>6
    <2>8. ran[e.on] >= e.at
      BY <2>3, <2>5 DEF Reached
    <2>9. QED
      BY <2>5, <2>6, <2>7, <2>8
  <1>5. QED
    BY <1>1, <1>2, <1>3, <1>4 DEF Cuts, Cut

\* No pending operation comes after the first one of a stream that may run,
\* unless it is on the same stream.
LEMMA HeadIsFirst ==
  ASSUME StreamsOK, NEW t \in AllStreams, ran[t] + 1 \in Pending[t],
         Op[t][ran[t] + 1].do = "wait" => Reached(Op[t][ran[t] + 1].event),
         NEW s \in AllStreams, s # t, NEW p \in Pending[s]
  PROVE  ~After(Cuts, Point(t, ran[t] + 1), Point(s, p))
  <1>1. PICK R \in Cuts : R = [ran EXCEPT ![t] = ran[t] + 1]
    BY CutHead
  <1>2. /\ ran \in [AllStreams -> Nat] /\ R[t] = ran[t] + 1 /\ R[s] = ran[s]
    BY <1>1 DEF StreamsOK
  <1>3. ran[s] \in Nat /\ p \in Nat /\ p > ran[s] /\ ran[t] + 1 \in Nat
    BY <1>2, PendingFact
  <1>4. R[t] >= ran[t] + 1 /\ ~(R[s] >= p)
    BY <1>2, <1>3
  <1>5. QED
    BY <1>3, <1>4, PointFact DEF After

\* A step of a stream leaves fewer cuts.
LEMMA CutsRun ==
  ASSUME StreamsOK, NEW t \in AllStreams, Step(t)
  PROVE  Cuts' \subseteq Cuts
  <1>1. SUFFICES ASSUME NEW R \in Cuts' PROVE R \in Cuts
    OBVIOUS
  <1>2. /\ R \in [AllStreams -> Nat]
        /\ \A s \in AllStreams : ran'[s] <= R[s] /\ R[s] <= Total'[s]
        /\ \A s \in AllStreams : \A p \in Pending'[s] :
             p <= R[s] /\ Op'[s][p].do = "wait" => R[Op'[s][p].event.on] >= Op'[s][p].event.at
    BY DEF Cuts, Cut
  <1>3. ran \in [AllStreams -> Nat] /\ StreamsOK'
    BY StepFact DEF StreamsOK
  <1>4. \A s \in AllStreams : ran'[s] \in Nat /\ ran[s] \in Nat /\ ran'[s] >= ran[s] /\ Total'[s] = Total[s]
    <2>1. SUFFICES ASSUME NEW s \in AllStreams
                   PROVE  ran'[s] \in Nat /\ ran[s] \in Nat /\ ran'[s] >= ran[s] /\ Total'[s] = Total[s]
      OBVIOUS
    <2>2. ran'[s] \in Nat /\ ran[s] \in Nat
      BY <1>3 DEF StreamsOK
    <2>3. ran'[s] = ran[s] \/ ran'[s] = ran[s] + 1
      BY StepFact
    <2>4. QED
      BY <2>2, <2>3, StepFact
  <1>5. \A s \in AllStreams : ran[s] <= R[s] /\ R[s] <= Total[s]
    BY <1>2, <1>4
  <1>6. ASSUME NEW s \in AllStreams, NEW p \in Pending[s], p <= R[s], Op[s][p].do = "wait"
        PROVE  R[Op[s][p].event.on] >= Op[s][p].event.at
    <2>1. CASE p \in Pending'[s]
      <3>1. Op'[s][p] = Op[s][p]
        BY <2>1, StepFact
      <3>2. QED
        BY <1>2, <1>6, <2>1, <3>1
    <2>2. CASE p \notin Pending'[s]
      <3>1. s = t /\ p = ran[t] + 1
        BY <2>2, StepFact
      <3>2. Reached(Op[s][p].event)
        BY <1>6, <3>1, StepFact
      <3>3. Op[s][p] \in Operations
        BY PendingFact
      <3>4. PICK e \in Events : e = Op[s][p].event
        BY <1>6, <3>3, OperationFact
      <3>5. e.on \in AllStreams /\ e.at \in Nat
        BY DEF Events
      <3>6. ran[e.on] >= e.at
        BY <3>2, <3>4 DEF Reached
      <3>7. ran[e.on] <= R[e.on] /\ ran[e.on] \in Nat /\ R[e.on] \in Nat
        BY <1>2, <1>4, <1>5, <3>5
      <3>8. QED
        BY <3>4, <3>5, <3>6, <3>7
    <2>3. QED
      BY <2>1, <2>2
  <1>7. QED
    BY <1>2, <1>5, <1>6 DEF Cuts, Cut

\* What comes after something does so when a stream has done an operation.
LEMMA AfterRun ==
  ASSUME StreamsOK, NEW t \in AllStreams, Step(t), NEW e, NEW f, After(Cuts, e, f)
  PROVE  After(Cuts', e, f)
  BY CutsRun DEF After

\* When streams are given more, what was after what stays so.
LEMMA CutsGrown ==
  ASSUME StreamsOK, StreamsOK', Grown, WaitsExist, NEW e, Exists(e), NEW f \in Events,
         After(Cuts, e, f)
  PROVE  After(Cuts', e, f)
  <1>1. SUFFICES ASSUME NEW R \in Cuts', R[e.on] >= e.at PROVE R[f.on] >= f.at
    BY DEF After
  <1>2. /\ R \in [AllStreams -> Nat]
        /\ \A s \in AllStreams : ran'[s] <= R[s] /\ R[s] <= Total'[s]
        /\ \A s \in AllStreams : \A p \in Pending'[s] :
             p <= R[s] /\ Op'[s][p].do = "wait" => R[Op'[s][p].event.on] >= Op'[s][p].event.at
    BY DEF Cuts, Cut
  <1>3. /\ \A s \in AllStreams : Total[s] \in Nat /\ ran[s] \in Nat /\ ran[s] <= Total[s]
        /\ ran' = ran
    BY PendingFact DEF Grown
  <1>4. PICK Q : Q = [s \in AllStreams |-> IF R[s] <= Total[s] THEN R[s] ELSE Total[s]]
    OBVIOUS
  <1>5. /\ Q \in [AllStreams -> Nat]
        /\ \A s \in AllStreams : /\ Q[s] <= R[s] /\ Q[s] <= Total[s] /\ ran[s] <= Q[s]
                                 /\ \A n \in Nat : n <= R[s] /\ n <= Total[s] => n <= Q[s]
    <2>1. Q \in [AllStreams -> Nat]
      BY <1>2, <1>3, <1>4
    <2>2. ASSUME NEW s \in AllStreams
          PROVE  /\ Q[s] <= R[s] /\ Q[s] <= Total[s] /\ ran[s] <= Q[s]
                 /\ \A n \in Nat : n <= R[s] /\ n <= Total[s] => n <= Q[s]
      <3>1. R[s] \in Nat /\ ran[s] <= R[s] /\ Total[s] \in Nat /\ ran[s] \in Nat /\ ran[s] <= Total[s]
        BY <1>2, <1>3
      <3>2. Q[s] = IF R[s] <= Total[s] THEN R[s] ELSE Total[s]
        BY <1>4
      <3>3. QED
        BY <3>1, <3>2
    <2>3. QED
      BY <2>1, <2>2
  <1>6. Cut(Q)
    <2>1. ASSUME NEW s \in AllStreams, NEW p \in Pending[s], p <= Q[s], Op[s][p].do = "wait"
          PROVE  Q[Op[s][p].event.on] >= Op[s][p].event.at
      <3>1. p \in Nat /\ Q[s] \in Nat /\ R[s] \in Nat /\ Q[s] <= R[s]
        BY <1>2, <1>5, PendingFact
      <3>2. p \in Pending'[s] /\ Op'[s][p] = Op[s][p] /\ p <= R[s]
        BY <2>1, <3>1 DEF Grown
      <3>3. PICK g : g = Op[s][p].event
        OBVIOUS
      <3>4. g \in Events /\ g.at <= Total[g.on]
        BY <2>1, <3>3 DEF WaitsExist, Exists
      <3>5. g.on \in AllStreams /\ g.at \in Nat
        BY <3>4 DEF Events
      <3>6. R[g.on] >= g.at
        BY <1>2, <2>1, <3>2, <3>3
      <3>7. g.at <= R[g.on] /\ R[g.on] \in Nat
        BY <1>2, <3>5, <3>6
      <3>8. g.at <= Q[g.on] /\ Q[g.on] \in Nat
        BY <1>5, <3>4, <3>5, <3>7
      <3>9. QED
        BY <3>3, <3>5, <3>8
    <2>2. QED
      BY <1>5, <2>1 DEF Cut
  <1>7. e.on \in AllStreams /\ e.at \in Nat /\ e.at <= Total[e.on] /\ f.on \in AllStreams /\ f.at \in Nat
    BY DEF Exists, Events
  <1>8. Q[e.on] >= e.at
    <2>1. e.at <= R[e.on] /\ Q[e.on] \in Nat /\ R[e.on] \in Nat
      BY <1>1, <1>2, <1>5, <1>7
    <2>2. e.at <= Q[e.on]
      BY <1>5, <1>7, <2>1
    <2>3. QED
      BY <1>7, <2>1, <2>2
  <1>9. Q[f.on] >= f.at
    BY <1>5, <1>6, <1>8 DEF After, Cuts
  <1>10. Q[f.on] <= R[f.on] /\ Q[f.on] \in Nat /\ R[f.on] \in Nat
    BY <1>2, <1>5, <1>7
  <1>11. QED
    BY <1>7, <1>9, <1>10

\* An event that exists does so when the streams have grown.
LEMMA ExistsGrown ==
  ASSUME StreamsOK, StreamsOK', Grown, NEW e, Exists(e)
  PROVE  e \in Events /\ e.at <= Total'[e.on]
  <1>1. e \in Events /\ e.on \in AllStreams /\ e.at \in Nat /\ e.at <= Total[e.on]
    BY DEF Exists, Events
  <1>2. Total[e.on] \in Nat /\ Total'[e.on] >= Total[e.on]
    BY <1>1, PendingFact DEF Grown
  <1>3. Total'[e.on] \in Nat
    <2>1. queue' \in [AllStreams -> Seq(Operations)] /\ ran' \in [AllStreams -> Nat]
      BY DEF StreamsOK
    <2>2. Total'[e.on] = ran'[e.on] + Len(queue'[e.on])
      BY <1>1 DEF Total
    <2>3. queue'[e.on] \in Seq(Operations) /\ ran'[e.on] \in Nat
      BY <1>1, <2>1
    <2>4. QED
      BY <2>2, <2>3
  <1>4. QED
    BY <1>1, <1>2, <1>3

-----------------------------------------------------------------------------
(* The invariant.                                                          *)

Lanes == {0, 1}
Points == {"between", "call", "product", "ready", "multiply", "drain", "ahead", "record"}

TypeOK ==
    /\ eval \in [n : Nat, calls : Nat, tbo : BOOLEAN, big : BOOLEAN]
    /\ host \in Points /\ made \in Nat /\ m \in Nat /\ ahead \in Nat
    /\ td \in [active : BOOLEAN, prev_was_tbo : BOOLEAN, slot : Lanes, call_idx : Nat,
               prev_count : Nat, last_idx : Int \X Int]
    /\ ev \in [Lanes -> [0 .. Ring - 1 -> Events]]
    /\ curr \in Lanes
    /\ slot_entry \in [Slots -> Int] /\ content \in [Slots -> Int]
    /\ ev_ready \in [Slots -> Events] /\ ev_done \in [Slots -> Events]
    /\ mcache \in [Lanes -> [ids : Int, big : BOOLEAN]]
    /\ pin \in [Lanes -> Seq(Nat)] /\ sorted \in [Lanes -> Seq(Nat)]
    /\ bad \subseteq {"weights", "sort"}
    /\ StreamsOK

InCall == host \notin {"between", "call"}

\* Where the thread is in its eval.
HostOK ==
    /\ td.active = eval.tbo /\ td.prev_was_tbo = eval.tbo
    /\ curr = IF eval.tbo THEN td.slot ELSE 0
    /\ eval.tbo => td.call_idx = made /\ eval.calls > 0
    /\ host = "between" => made = eval.calls
    /\ InCall /\ host # "record" => m < Products /\ made < Layers
    /\ host \in {"ready", "ahead"} => eval.big

EventsExist ==
    /\ WaitsExist
    /\ \A s \in Lanes : \A i \in 0 .. Ring - 1 : Exists(ev[s][i])
    /\ \A x \in Slots : Exists(ev_ready[x]) /\ Exists(ev_done[x])

\* Which operations a stream may have.
Placed ==
    /\ \A s \in Lanes : \A p \in Pending[s] :
         /\ Op[s][p].do # "fill"
         /\ Op[s][p].do \in {"upload", "product"} => Op[s][p].sort = s
         /\ Op[s][p].do = "product" =>
              /\ Op[s][p].call * Products <= Op[s][p].entry
              /\ Op[s][p].entry < Op[s][p].call * Products + Products
    /\ \A p \in Pending[Copy] : Op[Copy][p].do \in {"wait", "fill"}

\* The uses of the persistent state and the products, the products that read a
\* prefetched entry, and the copies into slot x.
Works(s) == {p \in Pending[s] : Op[s][p].do \in {"state", "product"}}
Reads(s) == {p \in Pending[s] : Op[s][p].do = "product" /\ Op[s][p].slot # -1}
Fills(x) == {p \in Pending[Copy] : Op[Copy][p].do = "fill" /\ Op[Copy][p].slot = x}

\* Which evals and calls a stream still has, oldest first.
Depth ==
    /\ ~eval.tbo => Pending[1] = {}
    /\ \A s \in Lanes : \A p \in Works(s) :
         /\ Op[s][p].eval <= eval.n
         /\ Op[s][p].eval = eval.n => /\ s = curr /\ Op[s][p].call <= made
                                      /\ ~InCall => Op[s][p].call < made
         /\ eval.tbo => IF s = curr THEN Op[s][p].eval = eval.n
                        ELSE /\ Op[s][p].eval = eval.n - 1 /\ host # "between"
                             /\ Op[s][p].call < td.prev_count
    /\ \A s \in Lanes : \A p, q \in Works(s) : p < q => Op[s][p].eval <= Op[s][q].eval

\* A call comes after the calls of earlier evals with an index up to its own.
Ordered ==
    \A s, t \in Lanes : s # t =>
      \A p \in Works(s) : \A q \in Works(t) :
        Op[s][p].eval < Op[t][q].eval /\ Op[s][p].call <= Op[t][q].call =>
          After(Cuts, Point(t, q), Point(s, p))

\* The event of a call comes after all of its eval up to that call.
Recording ==
    eval.tbo =>
      /\ \A s \in Lanes : \A p \in Works(s) :
           \A j \in 0 .. (IF s = curr THEN made ELSE td.prev_count) - 1 :
             Op[s][p].call <= j => After(Cuts, ev[s][Lowest(j, Ring - 1)], Point(s, p))
      /\ td.last_idx[(1 - td.slot) + 1] = Lowest(td.prev_count, Ring) - 1

\* What the current call gives its stream comes after the fence.
Fence ==
    eval.tbo /\ InCall =>
      \A s \in Lanes : s # curr =>
        \A p \in Works(s) : Op[s][p].call <= made =>
          After(Cuts, Point(curr, Total[curr]), Point(s, p))

Order == Depth /\ Ordered /\ Recording /\ Fence

\* When the copy stream has come to b, slot x has entry e.
Carried(x, e, b) ==
    /\ b > ran[Copy] => b \in Fills(x) /\ Op[Copy][b].entry = e
    /\ b <= ran[Copy] => content[x] = e

\* The last copy into a slot is the one its table entry speaks of; it comes
\* after the reads of other entries, as the mark of the last read does after all.
SlotsOK ==
    \A x \in Slots :
      /\ slot_entry[x] # -1 =>
           /\ ev_ready[x].on = Copy
           /\ Carried(x, slot_entry[x], ev_ready[x].at)
           /\ \A q \in Fills(x) : q <= ev_ready[x].at
      /\ \A s \in Lanes : \A p \in Reads(s) : Op[s][p].slot = x =>
           /\ After(Cuts, ev_done[x], Point(s, p))
           /\ Op[s][p].entry # slot_entry[x] => After(Cuts, ev_ready[x], Point(s, p))

\* A product comes after the copy of its entry and before the next one.
ReadsOwn ==
    \A s \in Lanes : \A p \in Reads(s) :
      \E b \in Nat :
        /\ Carried(Op[s][p].slot, Op[s][p].entry, b)
        /\ After(Cuts, Point(s, p), Point(Copy, b))
        /\ \A q \in Fills(Op[s][p].slot) : q > b => After(Cuts, Point(Copy, q), Point(s, p))

Acquired ==
    /\ eval.big /\ host \in {"ready", "multiply", "drain"} => slot_entry[Slot] = Entry
    /\ eval.big /\ host \in {"multiply", "drain"} =>
         After(Cuts, Point(curr, Total[curr]), ev_ready[Slot])

Weights == SlotsOK /\ ReadsOwn /\ Acquired /\ WeightsAreOwn
IInv == TypeOK /\ HostOK /\ EventsExist /\ Placed /\ Order /\ Weights

\* The sort in the device's memory, or the upload that is still to run, is that
\* of all products of the stream.
Sorts ==
    \A s \in Lanes :
      /\ \A p \in Pending[s] : Op[s][p].do = "product" => pin[s] = <<Op[s][p].eval, Op[s][p].call>>
      /\ \/ sorted[s] = pin[s]
         \/ \E u \in Pending[s] : /\ Op[s][u].do = "upload"
                                  /\ \A p \in Pending[s] : Op[s][p].do = "product" => u < p

\* The cache of a stream never has what the next call asks for.
Fresh ==
    /\ eval.calls # 1
    /\ \A s \in Lanes : s # curr \/ (made = 0 /\ host \in {"call", "between"}) => mcache[s].ids # 0
    /\ host \in {"call", "between"} /\ made > 0 =>
         mcache[curr].ids < made /\ (made > 1 => mcache[curr].ids > 0)
    /\ host = "record" => mcache[curr].ids <= made /\ (made > 0 => mcache[curr].ids > 0)
    /\ host \in {"product", "ready", "multiply", "drain"} /\ m = 0 =>
         IF made = 0 THEN mcache[curr].ids # 0 ELSE mcache[curr].ids < made
    /\ host = "ahead" \/ (host \in {"product", "ready", "multiply", "drain"} /\ m > 0) =>
         mcache[curr] = Wanted /\ pin[curr] = Sort

SortInv == Sorts /\ Fresh /\ SortIsOwn

\* The steps that leave the eval, the call and the memory alone.
LEMMA TypeKept ==
  ASSUME TypeOK, StreamsOK', host' \in Points, m' = m \/ m' \in Nat, ahead' = ahead \/ ahead' \in Nat,
         eval' = eval, made' = made, curr' = curr, td' = td, ev' = ev,
         content' = content, sorted' = sorted, bad' = bad, mcache' = mcache, pin' = pin,
         slot_entry' = slot_entry \/ slot_entry' \in [Slots -> Int],
         ev_ready' = ev_ready \/ ev_ready' \in [Slots -> Events],
         ev_done' = ev_done \/ ev_done' \in [Slots -> Events]
  PROVE  TypeOK'
  <1>1. /\ m' \in Nat /\ ahead' \in Nat /\ slot_entry' \in [Slots -> Int]
        /\ ev_ready' \in [Slots -> Events] /\ ev_done' \in [Slots -> Events]
    BY DEF TypeOK
  <1>2. /\ eval' \in [n : Nat, calls : Nat, tbo : BOOLEAN, big : BOOLEAN] /\ made' \in Nat
        /\ td' \in [active : BOOLEAN, prev_was_tbo : BOOLEAN, slot : Lanes, call_idx : Nat,
                    prev_count : Nat, last_idx : Int \X Int]
        /\ ev' \in [Lanes -> [0 .. Ring - 1 -> Events]] /\ curr' \in Lanes
    BY DEF TypeOK
  <1>3. /\ content' \in [Slots -> Int] /\ mcache' \in [Lanes -> [ids : Int, big : BOOLEAN]]
        /\ pin' \in [Lanes -> Seq(Nat)] /\ sorted' \in [Lanes -> Seq(Nat)]
        /\ bad' \subseteq {"weights", "sort"}
    BY DEF TypeOK
  <1>4. QED
    BY <1>1, <1>2, <1>3 DEF TypeOK

-----------------------------------------------------------------------------
(* The initial states.                                                     *)

\* The event that was never recorded is an event.
LEMMA NeverFact == Never \in Events /\ Never.at = 0
  <1>1. (CHOOSE s \in AllStreams : TRUE) \in AllStreams
    <2>1. 0 \in AllStreams
      BY DEF AllStreams
    <2>2. QED
      BY <2>1
  <1>2. QED
    BY <1>1 DEF Never, Events

\* At first the streams are empty.
LEMMA InitStreams ==
  ASSUME Init
  PROVE  /\ StreamsOK
         /\ \A s \in AllStreams : Pending[s] = {} /\ Total[s] = 0
  <1>1. queue = [s \in AllStreams |-> <<>>] /\ ran = [s \in AllStreams |-> 0]
    BY DEF Init, StreamsInit
  <1>2. StreamsOK
    BY <1>1 DEF StreamsOK
  <1>3. ASSUME NEW s \in AllStreams PROVE Pending[s] = {} /\ Total[s] = 0
    <2>1. ran[s] = 0 /\ Len(queue[s]) = 0
      BY <1>1
    <2>2. Total[s] = 0 /\ Pending[s] = 1 .. 0
      BY <2>1 DEF Total, Pending
    <2>3. QED
      BY <2>2
  <1>4. QED
    BY <1>2, <1>3

\* The initial state has its type ...
LEMMA InitType == Init => TypeOK
  <1> SUFFICES ASSUME Init PROVE TypeOK
    OBVIOUS
  <1>1. /\ eval \in [n : Nat, calls : Nat, tbo : BOOLEAN, big : BOOLEAN]
        /\ host \in Points /\ made \in Nat /\ m \in Nat /\ ahead \in Nat
        /\ curr \in Lanes /\ bad \subseteq {"weights", "sort"}
    BY DEF Init, NoEval, Points, Lanes
  <1>2. td \in [active : BOOLEAN, prev_was_tbo : BOOLEAN, slot : Lanes, call_idx : Nat,
                prev_count : Nat, last_idx : Int \X Int]
    BY DEF Init, Lanes
  <1>3. /\ ev \in [Lanes -> [0 .. Ring - 1 -> Events]]
        /\ ev_ready \in [Slots -> Events] /\ ev_done \in [Slots -> Events]
    BY NeverFact DEF Init, Lanes
  <1>4. slot_entry \in [Slots -> Int] /\ content \in [Slots -> Int]
    BY DEF Init
  <1>5. mcache \in [Lanes -> [ids : Int, big : BOOLEAN]]
    BY DEF Init, Lanes, NoSort
  <1>6. pin \in [Lanes -> Seq(Nat)] /\ sorted \in [Lanes -> Seq(Nat)]
    BY DEF Init, Lanes
  <1>7. QED
    BY <1>1, <1>2, <1>3, <1>4, <1>5, <1>6, InitStreams DEF TypeOK

\* ... and meets the invariant.
LEMMA InitFact == Init => IInv
  <1> SUFFICES ASSUME Init PROVE IInv
    OBVIOUS
  <1>1. TypeOK
    BY InitType
  <1>2. HostOK
    BY DEF Init, NoEval, HostOK, InCall
  <1>3. \A s \in AllStreams : Pending[s] = {} /\ Total[s] = 0
    BY InitStreams
  <1>4. Exists(Never)
    BY <1>3, NeverFact DEF Exists, Events
  <1>5. EventsExist
    <2>1. WaitsExist
      BY <1>3 DEF WaitsExist
    <2>2. \A s \in Lanes : \A i \in 0 .. Ring - 1 : ev[s][i] = Never
      BY DEF Init, Lanes
    <2>3. \A x \in Slots : ev_ready[x] = Never /\ ev_done[x] = Never
      BY DEF Init
    <2>4. QED
      BY <1>4, <2>1, <2>2, <2>3 DEF EventsExist
  <1>6. /\ \A s \in Lanes : Pending[s] = {} /\ Works(s) = {} /\ Reads(s) = {}
        /\ Pending[Copy] = {} /\ Pending[1] = {}
    BY <1>3 DEF Lanes, Works, Reads, AllStreams, Copy
  <1>7. Placed
    BY <1>6 DEF Placed
  <1>8. Order
    <2>1. eval.tbo = FALSE
      BY DEF Init, NoEval
    <2>2. QED
      BY <1>6, <2>1 DEF Order, Depth, Ordered, Recording, Fence
  <1>9. Weights
    <2>1. slot_entry = [x \in Slots |-> -1] /\ bad = {} /\ host = "between"
      BY DEF Init
    <2>2. QED
      BY <1>6, <2>1 DEF Weights, SlotsOK, ReadsOwn, Acquired, WeightsAreOwn
  <1>10. QED
    BY <1>1, <1>2, <1>5, <1>7, <1>8, <1>9 DEF IInv

-----------------------------------------------------------------------------
(* A stream runs an operation.                                             *)

\* A pending operation is an event that exists.
LEMMA PendingExists ==
  ASSUME StreamsOK, NEW s \in AllStreams, NEW p \in Pending[s]
  PROVE  Exists(Point(s, p)) /\ p \in Nat
  BY PendingFact, PointFact DEF Exists

\* The lanes and the copy stream are different streams.
LEMMA LanesFact == Lanes \subseteq AllStreams /\ Copy \in AllStreams /\ Copy \notin Lanes /\ 1 \in Lanes
  BY DEF Lanes, AllStreams, Copy

\* A stream that does an operation keeps the types.
LEMMA RunType ==
  ASSUME TypeOK, NEW t \in AllStreams, run(t)
  PROVE  TypeOK'
  <1>1. Step(t) /\ StreamsOK
    BY DEF run, TypeOK
  <1>2. PICK o : o = Head(queue[t])
    OBVIOUS
  <1>3. o \in Operations
    BY <1>1, <1>2, StepFact, PendingFact, SMTT(60)
  <1>4. /\ content' = IF o.do = "fill" THEN [content EXCEPT ![o.slot] = o.entry] ELSE content
        /\ sorted' = IF o.do = "upload" THEN [sorted EXCEPT ![o.sort] = pin[o.sort]] ELSE sorted
    BY <1>2 DEF run
  <1>5. bad' \subseteq {"weights", "sort"}
    BY DEF run, TypeOK
  <1>6. content' \in [Slots -> Int]
    <2>1. content \in [Slots -> Int]
      BY DEF TypeOK
    <2>2. CASE o.do = "fill"
      <3>1. o.entry \in Int
        BY <1>3, <2>2, OperationFact
      <3>2. content' = [content EXCEPT ![o.slot] = o.entry]
        BY <1>4, <2>2
      <3>3. QED
        BY <2>1, <3>1, <3>2
    <2>3. CASE o.do # "fill"
      BY <1>4, <2>1, <2>3
    <2>4. QED
      BY <2>2, <2>3
  <1>7. sorted' \in [Lanes -> Seq(Nat)]
    <2>1. CASE o.do = "upload"
      <3>1. o.sort \in Lanes
        BY <1>3, <2>1, OperationFact DEF Lanes
      <3>2. pin[o.sort] \in Seq(Nat)
        BY <3>1 DEF TypeOK
      <3>3. QED
        BY <1>4, <2>1, <3>2 DEF TypeOK
    <2>2. CASE o.do # "upload"
      BY <1>4, <2>2 DEF TypeOK
    <2>3. QED
      BY <2>1, <2>2
  <1>8. StreamsOK'
    BY <1>1, StepFact
  <1>9. UNCHANGED <<eval, host, made, m, ahead, tboVars, prefetchVars, mcache, pin>>
    BY DEF run
  <1>10. /\ eval' = eval /\ host' = host /\ made' = made /\ m' = m /\ ahead' = ahead
         /\ td' = td /\ ev' = ev /\ curr' = curr /\ mcache' = mcache /\ pin' = pin
         /\ slot_entry' = slot_entry /\ ev_ready' = ev_ready /\ ev_done' = ev_done
    BY <1>9 DEF tboVars, prefetchVars
  <1>11. QED
    BY <1>5, <1>6, <1>7, <1>8, <1>10 DEF TypeOK

\* Fewer operations are pending, and what was after what stays so.
Fewer ==
    /\ \A s \in AllStreams : Total'[s] = Total[s]
    /\ \A s \in AllStreams : \A p \in Pending'[s] : p \in Pending[s] /\ Op'[s][p] = Op[s][p]
    /\ \A e, f : After(Cuts, e, f) => After(Cuts', e, f)

\* Then fewer operations are pending, and what was after what stays so.
LEMMA RunFewer ==
  ASSUME StreamsOK, NEW t \in AllStreams, Step(t)
  PROVE  Fewer
  BY StepFact, AfterRun DEF Fewer

\* The host, the events and the order of the operations are left as they were, ...
LEMMA RunStatic ==
  ASSUME IInv, NEW t \in AllStreams, run(t)
  PROVE  HostOK' /\ EventsExist' /\ Placed' /\ Order'
  <1>1. Step(t) /\ StreamsOK
    BY DEF run, TypeOK, IInv
  <1>2. Fewer
    BY <1>1, RunFewer
  <1>3. UNCHANGED <<eval, host, made, m, ahead, tboVars, prefetchVars>>
    BY DEF run
  <1>4. /\ eval' = eval /\ host' = host /\ made' = made /\ m' = m /\ td' = td /\ ev' = ev
        /\ curr' = curr /\ ev_ready' = ev_ready /\ ev_done' = ev_done
    BY <1>3 DEF tboVars, prefetchVars
  <1>5. HostOK'
    BY <1>4 DEF IInv, HostOK, InCall
  <1>6. ASSUME NEW e, Exists(e) PROVE e \in Events /\ e.at <= Total'[e.on]
    BY <1>2, <1>6 DEF Fewer, Exists, Events
  <1>7. EventsExist'
    <2>1. WaitsExist'
      BY <1>2, <1>6 DEF Fewer, IInv, EventsExist, WaitsExist, Exists
    <2>2. QED
      BY <1>4, <1>6, <2>1 DEF IInv, EventsExist, Exists
  <1>8. Placed'
    BY <1>2, LanesFact DEF Fewer, IInv, Placed
  <1>9. ASSUME NEW s \in Lanes
        PROVE  /\ \A p \in Works(s)' : p \in Works(s) /\ Op'[s][p] = Op[s][p]
               /\ Total'[s] = Total[s]
    BY <1>2, LanesFact DEF Fewer, Works
  <1>10. Pending[1] = {} => Pending'[1] = {}
    BY <1>2, LanesFact DEF Fewer
  <1>11. Depth'
    <2>1. InCall' = InCall
      BY <1>4 DEF InCall
    <2>2. QED
      BY <1>4, <1>9, <1>10, <2>1 DEF IInv, Order, Depth
  <1>12. Ordered'
    BY <1>2, <1>9 DEF IInv, Order, Ordered, Fewer
  <1>13. Recording'
    BY <1>2, <1>4, <1>9 DEF IInv, Order, Recording, Fewer
  <1>14. Fence'
    <2>1. curr \in Lanes /\ InCall' = InCall
      BY <1>4 DEF InCall, IInv, TypeOK
    <2>2. Total'[curr'] = Total[curr]
      BY <1>4, <1>9, <2>1
    <2>3. QED
      BY <1>2, <1>4, <1>9, <2>1, <2>2 DEF IInv, Order, Fence, Fewer
  <1>15. QED
    BY <1>5, <1>7, <1>8, <1>11, <1>12, <1>13, <1>14 DEF Order

\* ... pending products still find their weights, ...
LEMMA RunWeights ==
  ASSUME IInv, NEW t \in AllStreams, run(t)
  PROVE  Weights'
  <1>1. Step(t) /\ StreamsOK
    BY DEF run, TypeOK, IInv
  <1>2. Fewer
    BY <1>1, RunFewer
  <1>3. UNCHANGED <<eval, host, made, m, ahead, tboVars, prefetchVars>>
    BY DEF run
  <1>4. /\ eval' = eval /\ host' = host /\ made' = made /\ m' = m /\ curr' = curr
        /\ slot_entry' = slot_entry /\ ev_ready' = ev_ready /\ ev_done' = ev_done
    BY <1>3 DEF tboVars, prefetchVars
  <1>5. PICK h \in Pending[t] : h = ran[t] + 1
    BY <1>1, StepFact
  <1>6. /\ \A s \in AllStreams : ran[s] \in Nat /\ (s # t => ran'[s] = ran[s])
        /\ ran'[t] = ran[t] + 1 /\ h \in Nat /\ h = ran[t] + 1
        /\ Pending'[t] = Pending[t] \ {h}
        /\ \A s \in AllStreams : s # t => Pending'[s] = Pending[s]
    BY <1>1, <1>5, StepFact, PendingFact
  <1>7. PICK o \in Operations : o = Op[t][h] /\ o = Head(queue[t])
    BY <1>1, <1>5, StepFact, PendingFact
  <1>8. /\ content' = IF o.do = "fill" THEN [content EXCEPT ![o.slot] = o.entry] ELSE content
        /\ bad' = bad \cup (IF o.do = "product"
                            THEN (IF o.slot >= 0 /\ content[o.slot] # o.entry THEN {"weights"} ELSE {})
                                 \cup (IF sorted[o.sort] # <<o.eval, o.call>> THEN {"sort"} ELSE {})
                            ELSE {})
    BY <1>7 DEF run
  <1>9. ASSUME NEW s \in AllStreams, NEW p \in Nat, NEW b \in Nat,
               After(Cuts, Point(s, p), Point(Copy, b)), p <= ran'[s]
        PROVE  b <= ran'[Copy]
    <2>1. ran' \in Cuts'
      <3>1. StreamsOK'
        BY <1>1, StepFact
      <3>2. /\ ran' \in [AllStreams -> Nat]
            /\ \A s1 \in AllStreams : ran'[s1] <= Total'[s1] /\ Pending'[s1] = ran'[s1] + 1 .. Total'[s1]
        <4>1. ran' \in [AllStreams -> Nat] /\ queue' \in [AllStreams -> Seq(Operations)]
          BY <3>1 DEF StreamsOK
        <4>2. ASSUME NEW s1 \in AllStreams
              PROVE  ran'[s1] <= Total'[s1] /\ Pending'[s1] = ran'[s1] + 1 .. Total'[s1]
          <5>1. ran'[s1] \in Nat /\ Len(queue'[s1]) \in Nat
            BY <4>1
          <5>2. Total'[s1] = ran'[s1] + Len(queue'[s1]) /\ Pending'[s1] = ran'[s1] + 1 .. Total'[s1]
            BY DEF Total, Pending
          <5>3. QED
            BY <5>1, <5>2
        <4>3. QED
          BY <4>1, <4>2
      <3>3. ASSUME NEW s1 \in AllStreams
            PROVE  ran'[s1] <= ran'[s1] /\ \A p1 \in Pending'[s1] : ~(p1 <= ran'[s1])
        <4>1. ran'[s1] \in Nat /\ Pending'[s1] = ran'[s1] + 1 .. Total'[s1]
          BY <3>2
        <4>2. QED
          BY <4>1
      <3>4. QED
        BY <3>2, <3>3 DEF Cuts, Cut
    <2>2. After(Cuts', Point(s, p), Point(Copy, b))
      BY <1>2, <1>9 DEF Fewer
    <2>3. ran'[s] \in Nat /\ ran'[Copy] \in Nat
      BY <1>6, LanesFact
    <2>4. ran'[s] >= p
      BY <1>9, <2>3
    <2>5. QED
      BY <2>1, <2>2, <2>3, <2>4, PointFact, LanesFact DEF After
  <1>10. ASSUME NEW x \in Slots PROVE Fills(x)' \subseteq Fills(x) /\ \A q \in Fills(x)' : Op'[Copy][q] = Op[Copy][q]
    BY <1>2, LanesFact DEF Fills, Fewer
  <1>11. ASSUME NEW s \in Lanes PROVE Reads(s)' \subseteq Reads(s) /\ \A p \in Reads(s)' : Op'[s][p] = Op[s][p]
    BY <1>2, LanesFact DEF Reads, Fewer
  \* The copy into a slot puts there what the slot is said to have.
  <1>12. ASSUME NEW x \in Slots, NEW e \in Int, NEW b \in Nat, Carried(x, e, b),
                \A q \in Fills(x) : q > b => q # h \/ t # Copy
         PROVE  Carried(x, e, b)'
    <2>1. ran[Copy] \in Nat /\ ran'[Copy] \in Nat
      BY <1>6, LanesFact
    <2>2. CASE t = Copy /\ o.do = "fill" /\ o.slot = x
      <3>1. h \in Fills(x) /\ h = ran[Copy] + 1 /\ ran'[Copy] = h
        BY <1>5, <1>6, <1>7, <2>2 DEF Fills
      <3>2. h <= b
        BY <1>12, <2>1, <2>2, <3>1
      <3>3. b \in Fills(x) /\ Op[Copy][b].entry = e
        BY <1>12, <2>1, <3>1, <3>2 DEF Carried
      <3>4. CASE b = h
        <4>1. content' = [content EXCEPT ![x] = e]
          BY <1>7, <1>8, <2>2, <3>3, <3>4
        <4>2. content'[x] = e
          BY <4>1 DEF IInv, TypeOK
        <4>3. ~(b > ran'[Copy])
          BY <2>1, <3>1, <3>4
        <4>4. QED
          BY <4>2, <4>3 DEF Carried
      <3>5. CASE b # h
        <4>1. b > ran'[Copy]
          BY <2>1, <3>1, <3>2, <3>5
        <4>2. b \in Pending'[Copy] /\ b \in Pending[Copy]
          BY <1>6, <2>2, <3>3, <3>5 DEF Fills
        <4>3. b \in Fills(x)' /\ Op'[Copy][b].entry = e
          BY <1>2, <3>3, <4>2, LanesFact DEF Fills, Fewer
        <4>4. QED
          BY <2>1, <4>1, <4>3 DEF Carried
      <3>6. QED
        BY <3>4, <3>5
    <2>3. CASE ~(t = Copy /\ o.do = "fill" /\ o.slot = x)
      <3>1. content'[x] = content[x]
        <4>1. o.do = "fill" => t = Copy
          <5>1. t \in Lanes \/ t = Copy
            BY DEF AllStreams, Lanes, Copy
          <5>2. t \in Lanes => o.do # "fill"
            BY <1>5, <1>7 DEF IInv, Placed
          <5>3. QED
            BY <5>1, <5>2
        <4>2. CASE o.do = "fill"
          BY <1>8, <2>3, <4>1, <4>2 DEF IInv, TypeOK
        <4>3. CASE o.do # "fill"
          BY <1>8, <4>3
        <4>4. QED
          BY <4>2, <4>3
      <3>2. CASE b > ran[Copy]
        <4>1. b \in Fills(x) /\ Op[Copy][b].entry = e
          BY <1>12, <3>2 DEF Carried
        <4>2. ~(t = Copy /\ b = h)
          BY <1>7, <2>3, <4>1 DEF Fills
        <4>3. b \in Pending'[Copy]
          BY <1>6, <4>1, <4>2, LanesFact DEF Fills
        <4>4. b \in Fills(x)' /\ Op'[Copy][b].entry = e
          BY <1>2, <4>1, <4>3, LanesFact DEF Fills, Fewer
        <4>5. b > ran'[Copy]
          <5>1. ran'[Copy] = ran[Copy] \/ (t = Copy /\ ran'[Copy] = h /\ h = ran[Copy] + 1)
            BY <1>6, LanesFact
          <5>2. QED
            BY <1>6, <2>1, <3>2, <4>2, <5>1
        <4>6. QED
          BY <2>1, <4>4, <4>5 DEF Carried
      <3>3. CASE b <= ran[Copy]
        <4>1. content[x] = e
          BY <1>12, <3>3 DEF Carried
        <4>2. ran'[Copy] >= ran[Copy]
          BY <1>6, LanesFact
        <4>3. ~(b > ran'[Copy])
          BY <2>1, <3>3, <4>2
        <4>4. QED
          BY <3>1, <4>1, <4>3 DEF Carried
      <3>4. QED
        BY <2>1, <3>2, <3>3
    <2>4. QED
      BY <2>2, <2>3
  <1>13. SlotsOK'
    <2>1. SUFFICES ASSUME NEW x \in Slots
                   PROVE  /\ slot_entry'[x] # -1 =>
                               /\ ev_ready'[x].on = Copy
                               /\ Carried(x, slot_entry[x], ev_ready[x].at)'
                               /\ \A q \in Fills(x)' : q <= ev_ready'[x].at
                          /\ \A s \in Lanes : \A p \in Reads(s)' : Op'[s][p].slot = x =>
                               /\ After(Cuts', ev_done'[x], Point(s, p))
                               /\ Op'[s][p].entry # slot_entry'[x] => After(Cuts', ev_ready'[x], Point(s, p))
      BY DEF SlotsOK
    <2>2. ASSUME slot_entry[x] # -1
          PROVE  /\ ev_ready[x].on = Copy
                 /\ Carried(x, slot_entry[x], ev_ready[x].at)'
                 /\ \A q \in Fills(x)' : q <= ev_ready[x].at
      <3>1. /\ ev_ready[x].on = Copy
            /\ Carried(x, slot_entry[x], ev_ready[x].at)
            /\ \A q \in Fills(x) : q <= ev_ready[x].at
        BY <2>2 DEF IInv, Weights, SlotsOK
      <3>2. PICK b \in Nat : b = ev_ready[x].at
        BY DEF IInv, TypeOK, Events
      <3>3. PICK e \in Int : e = slot_entry[x]
        BY DEF IInv, TypeOK
      <3>4. \A q \in Fills(x) : ~(q > b)
        <4>1. \A q \in Fills(x) : q \in Nat
          BY <1>1, PendingFact, LanesFact DEF Fills
        <4>2. QED
          BY <3>1, <3>2, <4>1
      <3>5. Carried(x, e, b)'
        BY <1>12, <3>1, <3>2, <3>3, <3>4
      <3>6. QED
        BY <1>4, <1>10, <3>1, <3>2, <3>3, <3>5 DEF Carried
    <2>3. ASSUME NEW s \in Lanes, NEW p \in Reads(s)', Op'[s][p].slot = x
          PROVE  /\ After(Cuts', ev_done[x], Point(s, p))
                 /\ Op'[s][p].entry # slot_entry[x] => After(Cuts', ev_ready[x], Point(s, p))
      BY <1>2, <1>11, <2>3 DEF IInv, Weights, SlotsOK, Fewer
    <2>4. QED
      BY <1>4, <2>2, <2>3
  <1>14. ReadsOwn'
    <2>1. SUFFICES ASSUME NEW s \in Lanes, NEW p \in Reads(s)'
                   PROVE  \E b \in Nat :
                            /\ Carried(Op[s][p].slot, Op[s][p].entry, b)'
                            /\ After(Cuts', Point(s, p), Point(Copy, b))
                            /\ \A q \in Fills(Op[s][p].slot)' : q > b => After(Cuts', Point(Copy, q), Point(s, p))
      BY DEF ReadsOwn
    <2>2. p \in Reads(s) /\ Op'[s][p] = Op[s][p]
      BY <1>11
    <2>3. /\ s \in AllStreams /\ p \in Pending[s] /\ p \in Nat /\ Op[s][p] \in Operations
          /\ Op[s][p].do = "product" /\ Op[s][p].slot # -1
      BY <1>1, <2>2, PendingFact, LanesFact DEF Reads
    <2>4. PICK x \in Slots : x = Op[s][p].slot
      BY <2>3, OperationFact
    <2>5. PICK e \in Int : e = Op[s][p].entry
      BY <2>3, OperationFact
    <2>6. PICK b \in Nat :
            /\ Carried(x, e, b)
            /\ After(Cuts, Point(s, p), Point(Copy, b))
            /\ \A q \in Fills(x) : q > b => After(Cuts, Point(Copy, q), Point(s, p))
      BY <2>2, <2>4, <2>5 DEF IInv, Weights, ReadsOwn
    <2>7. \A q \in Fills(x) : q > b => q # h \/ t # Copy
      <3>1. SUFFICES ASSUME h \in Fills(x), h > b, t = Copy PROVE FALSE
        OBVIOUS
      <3>2. ~After(Cuts, Point(t, ran[t] + 1), Point(s, p))
        <4>1. s # t
          BY <3>1, LanesFact
        <4>2. Op[t][ran[t] + 1].do = "wait" => Reached(Op[t][ran[t] + 1].event)
          BY <1>1, StepFact
        <4>3. QED
          BY <1>1, <1>5, <2>3, <4>1, <4>2, HeadIsFirst
      <3>3. QED
        BY <1>6, <2>6, <3>1, <3>2
    <2>8. Carried(x, e, b)'
      BY <1>12, <2>6, <2>7
    <2>9. /\ After(Cuts', Point(s, p), Point(Copy, b))
          /\ \A q \in Fills(x)' : q > b => After(Cuts', Point(Copy, q), Point(s, p))
      BY <1>2, <1>10, <2>6 DEF Fewer
    <2>10. QED
      BY <2>2, <2>4, <2>5, <2>8, <2>9 DEF Carried, Fills
  <1>15. Acquired'
    <2>1. curr \in AllStreams /\ Total'[curr'] = Total[curr]
      BY <1>2, <1>4, LanesFact DEF IInv, TypeOK, Fewer
    <2>2. Slot' = Slot /\ Entry' = Entry
      BY <1>4 DEF Slot, Entry
    <2>3. QED
      BY <1>2, <1>4, <2>1, <2>2 DEF IInv, Weights, Acquired, Fewer
  <1>16. WeightsAreOwn'
    <2>1. CASE o.do = "product" /\ o.slot # -1
      <3>1. t \in Lanes /\ h \in Reads(t)
        <4>1. t \in Lanes \/ t = Copy
          BY DEF AllStreams, Lanes, Copy
        <4>2. t # Copy
          BY <1>5, <1>7, <2>1 DEF IInv, Placed
        <4>3. QED
          BY <1>5, <1>7, <2>1, <4>1, <4>2 DEF Reads
      <3>2. PICK x \in Slots : x = o.slot
        BY <2>1, OperationFact
      <3>3. PICK b \in Nat : Carried(x, o.entry, b) /\ After(Cuts, Point(t, h), Point(Copy, b))
        BY <1>7, <3>1, <3>2 DEF IInv, Weights, ReadsOwn
      <3>4. b <= ran'[Copy] /\ ran'[Copy] = ran[Copy]
        <4>1. t # Copy
          BY <3>1, LanesFact
        <4>2. h <= ran'[t]
          BY <1>6
        <4>3. QED
          BY <1>6, <1>9, <3>3, <4>1, <4>2, LanesFact
      <3>5. content[x] = o.entry
        BY <3>3, <3>4 DEF Carried
      <3>6. QED
        BY <1>8, <3>2, <3>5 DEF IInv, Weights, WeightsAreOwn
    <2>2. CASE ~(o.do = "product" /\ o.slot # -1)
      <3>1. o.do = "product" => ~(o.slot >= 0)
        BY <2>2
      <3>2. QED
        BY <1>8, <3>1 DEF IInv, Weights, WeightsAreOwn
    <2>3. QED
      BY <2>1, <2>2
  <1>17. QED
    BY <1>13, <1>14, <1>15, <1>16 DEF Weights

\* ... and so the invariant holds.
LEMMA RunFact ==
  ASSUME IInv, NEW t \in AllStreams, run(t)
  PROVE  IInv'
  BY RunType, RunStatic, RunWeights DEF IInv

-----------------------------------------------------------------------------
(* The thread gives the streams something to do.                           *)

\* What it may give to stream s now.
May(s, o) ==
    /\ IF s = Copy THEN o.do \in {"wait", "fill"} ELSE s = curr /\ o.do # "fill"
    /\ o.do = "wait" => Exists(o.event)
    /\ o.do \in {"upload", "product"} => o.sort = s
    /\ o.do \in {"state", "product"} => o.eval = eval.n /\ o.call = made
    /\ o.do = "product" => o.call * Products <= o.entry /\ o.entry < o.call * Products + Products

\* It gives only this, and a use of the state or a product comes last.
Gives ==
    /\ StreamsOK' /\ Grown
    /\ \A s \in AllStreams : \A p \in Pending'[s] :
         \/ p \in Pending[s]
         \/ /\ p > Total[s] /\ May(s, Op'[s][p])
            /\ Op'[s][p].do \in {"state", "product"} => p = Total'[s]

\* Nothing about the operations changes if the streams do not.
LEMMA SameFact ==
  ASSUME queue' = queue, ran' = ran
  PROVE  Total' = Total /\ Pending' = Pending /\ Op' = Op /\ Cuts' = Cuts
  <1>1. Total' = Total
    BY DEF Total
  <1>2. Pending' = Pending
    BY <1>1 DEF Pending
  <1>3. Op' = Op
    BY <1>2 DEF Op
  <1>4. Cuts' = Cuts
    BY <1>1, <1>2, <1>3 DEF Cuts, Cut
  <1>5. QED
    BY <1>1, <1>2, <1>3, <1>4

\* The host may give no operation, ...
LEMMA GivesNone ==
  ASSUME StreamsOK, queue' = queue, ran' = ran
  PROVE  Gives
  <1>1. StreamsOK'
    BY DEF StreamsOK
  <1>2. Grown
    <2>1. \A s \in AllStreams : Total[s] \in Nat
      BY PendingFact
    <2>2. QED
      BY <2>1, SameFact DEF Grown
  <1>3. QED
    BY <1>1, <1>2, SameFact DEF Gives

\* ... one that is allowed, ...
LEMMA GivesOne ==
  ASSUME StreamsOK, NEW s \in AllStreams, NEW o \in Operations, May(s, o),
         queue' = Push(queue, s, o), ran' = ran
  PROVE  Gives
  <1>1. Total[s] \in Nat
    BY PendingFact
  <1>2. /\ StreamsOK' /\ Grown
        /\ \A t \in AllStreams : t # s => Pending'[t] = Pending[t]
        /\ Total'[s] = Total[s] + 1
        /\ \A p \in Pending'[s] : p \in Pending[s] \/ p = Total[s] + 1
        /\ Op'[s][Total[s] + 1] = o
    BY PushOne
  <1>3. QED
    BY <1>1, <1>2 DEF Gives

\* ... or two, of which only the second computes.
LEMMA GivesTwo ==
  ASSUME StreamsOK, NEW s \in AllStreams, NEW o \in Operations, NEW x \in Operations,
         May(s, o), o.do \notin {"state", "product"}, May(s, x),
         queue' = Push(Push(queue, s, o), s, x), ran' = ran
  PROVE  Gives
  <1>1. Total[s] \in Nat
    BY PendingFact
  <1>2. /\ StreamsOK' /\ Grown
        /\ \A t \in AllStreams : t # s => Pending'[t] = Pending[t]
        /\ Total'[s] = Total[s] + 2
        /\ \A p \in Pending'[s] : p \in Pending[s] \/ p = Total[s] + 1 \/ p = Total[s] + 2
        /\ Op'[s][Total[s] + 1] = o /\ Op'[s][Total[s] + 2] = x
    BY PushTwo
  <1>3. QED
    BY <1>1, <1>2 DEF Gives

\* A stream that has passed a wait just given to it has passed the event.
LEMMA AfterNewWait ==
  ASSUME NEW s \in AllStreams, NEW p \in Nat, p \in Pending'[s], Op'[s][p].do = "wait"
  PROVE  After(Cuts', Point(s, p), Op'[s][p].event)
  <1>1. ASSUME NEW R \in Cuts', R[s] >= p PROVE R[Op'[s][p].event.on] >= Op'[s][p].event.at
    <2>1. R \in [AllStreams -> Nat]
      BY DEF Cuts
    <2>2. p <= R[s]
      BY <1>1, <2>1
    <2>3. QED
      BY <2>2 DEF Cuts, Cut
  <1>2. QED
    BY <1>1, PointFact DEF After

\* Cuts count operations after the step as well.
LEMMA CutsNextFact == Cuts' \in SUBSET [AllStreams -> Nat]
  BY DEF Cuts

\* What the host gives makes the streams grow ...
LEMMA GivesFact ==
  ASSUME IInv, Gives
  PROVE  /\ StreamsOK /\ StreamsOK' /\ Grown /\ WaitsExist
         /\ \A s \in AllStreams : Total'[s] \in Nat /\ Total[s] \in Nat /\ Total'[s] >= Total[s]
  <1>1. StreamsOK /\ StreamsOK' /\ Grown /\ WaitsExist
    BY DEF IInv, TypeOK, EventsExist, Gives
  <1>2. ASSUME NEW s \in AllStreams
        PROVE  Total'[s] \in Nat /\ Total[s] \in Nat /\ Total'[s] >= Total[s]
    <2>1. queue'[s] \in Seq(Operations) /\ ran'[s] \in Nat
      BY <1>1 DEF StreamsOK
    <2>2. Total'[s] = ran'[s] + Len(queue'[s]) /\ Len(queue'[s]) \in Nat
      BY <2>1 DEF Total
    <2>3. QED
      BY <1>1, <2>1, <2>2, PendingFact DEF Grown
  <1>3. QED
    BY <1>1, <1>2

\* What was after what stays so, for what the streams have and for all events.
LEMMA GivesKeeps ==
  ASSUME IInv, Gives, NEW e, Exists(e), NEW f \in Events, After(Cuts, e, f)
  PROVE  After(Cuts', e, f)
  BY GivesFact, CutsGrown

\* ... and keeps the events that exist, ...
LEMMA GivesExist ==
  ASSUME IInv, Gives, NEW e, Exists(e)
  PROVE  e \in Events /\ e.at <= Total'[e.on]
  BY GivesFact, ExistsGrown

\* ... waits for events that exist, and lies where it belongs.
LEMMA GivesPlaced ==
  ASSUME IInv, Gives
  PROVE  WaitsExist' /\ Placed'
  <1>1. \A s \in AllStreams : \A p \in Pending'[s] :
          (p \in Pending[s] /\ Op'[s][p] = Op[s][p]) \/ May(s, Op'[s][p])
    BY DEF Gives, Grown
  <1>2. WaitsExist'
    <2>1. SUFFICES ASSUME NEW s \in AllStreams, NEW p \in Pending'[s], Op'[s][p].do = "wait"
                   PROVE  Op'[s][p].event \in Events /\ Op'[s][p].event.at <= Total'[Op'[s][p].event.on]
      BY DEF WaitsExist, Exists
    <2>2. PICK e : e = Op'[s][p].event
      OBVIOUS
    <2>3. Exists(e)
      BY <1>1, <2>1, <2>2 DEF May, IInv, EventsExist, WaitsExist
    <2>4. QED
      BY <2>2, <2>3, GivesExist
  <1>3. Placed'
    <2>1. \A s \in Lanes : \A p \in Pending'[s] :
            /\ Op'[s][p].do # "fill"
            /\ Op'[s][p].do \in {"upload", "product"} => Op'[s][p].sort = s
            /\ Op'[s][p].do = "product" =>
                 /\ Op'[s][p].call * Products <= Op'[s][p].entry
                 /\ Op'[s][p].entry < Op'[s][p].call * Products + Products
      <3>1. SUFFICES ASSUME NEW s \in Lanes, NEW p \in Pending'[s]
                     PROVE  /\ Op'[s][p].do # "fill"
                            /\ Op'[s][p].do \in {"upload", "product"} => Op'[s][p].sort = s
                            /\ Op'[s][p].do = "product" =>
                                 /\ Op'[s][p].call * Products <= Op'[s][p].entry
                                 /\ Op'[s][p].entry < Op'[s][p].call * Products + Products
        OBVIOUS
      <3>2. s \in AllStreams /\ s # Copy
        BY LanesFact
      <3>3. PICK o : o = Op'[s][p]
        OBVIOUS
      <3>4. (p \in Pending[s] /\ o = Op[s][p]) \/ May(s, o)
        BY <1>1, <3>2, <3>3
      <3>5. QED
        BY <3>2, <3>3, <3>4 DEF May, IInv, Placed
    <2>2. \A p \in Pending'[Copy] : Op'[Copy][p].do \in {"wait", "fill"}
      BY <1>1, LanesFact DEF May, IInv, Placed
    <2>3. QED
      BY <2>1, <2>2 DEF Placed
  <1>4. QED
    BY <1>2, <1>3

\* The operations that compute are those of before, and at most the last of the current
\* lane, which belongs to the current call.
LEMMA GivesWorks ==
  ASSUME IInv, Gives, NEW s \in Lanes, NEW p \in Works(s)'
  PROVE  /\ p \in Nat
         /\ \/ p \in Works(s) /\ Op'[s][p] = Op[s][p] /\ p <= Total[s]
            \/ /\ p \notin Pending[s] /\ p > Total[s] /\ p = Total'[s]
               /\ s = curr /\ Op'[s][p].eval = eval.n /\ Op'[s][p].call = made
  <1>1. s \in AllStreams /\ s # Copy /\ p \in Pending'[s] /\ Op'[s][p].do \in {"state", "product"}
    BY LanesFact DEF Works
  <1>2. CASE p \in Pending[s]
    <2>1. Op'[s][p] = Op[s][p]
      BY <1>1, <1>2 DEF Gives, Grown
    <2>2. p <= Total[s] /\ p \in Nat
      BY <1>1, <1>2, GivesFact, PendingFact
    <2>3. QED
      BY <1>1, <1>2, <2>1, <2>2 DEF Works
  <1>3. CASE p \notin Pending[s]
    <2>1. p > Total[s] /\ p = Total'[s] /\ May(s, Op'[s][p])
      BY <1>1, <1>3 DEF Gives
    <2>2. QED
      BY <1>1, <1>3, <2>1, GivesFact DEF May
  <1>4. QED
    BY <1>2, <1>3

\* An operation that computes is pending and names its eval and call.
LEMMA WorkFact ==
  ASSUME TypeOK, NEW s \in Lanes, NEW p \in Works(s)
  PROVE  /\ p \in Nat /\ p \in Pending[s] /\ p <= Total[s] /\ p > ran[s]
         /\ Op[s][p].eval \in Nat /\ Op[s][p].call \in Nat
         /\ Exists(Point(s, p)) /\ Point(s, p) \in Events
  <1>1. StreamsOK /\ s \in AllStreams /\ p \in Pending[s] /\ Op[s][p].do \in {"state", "product"}
    BY LanesFact DEF TypeOK, Works
  <1>2. QED
    BY <1>1, PendingFact, OperationFact, PendingExists DEF Exists

\* Within a call, what comes after the fence still does.
LEMMA FenceKept ==
  ASSUME IInv, Gives, eval' = eval, made' = made, curr' = curr, InCall
  PROVE  Fence'
  <1>1. SUFFICES ASSUME eval.tbo, NEW s \in Lanes, s # curr, NEW p \in Works(s)', Op'[s][p].call <= made
                 PROVE  After(Cuts', Point(curr, Total'[curr]), Point(s, p))
    BY DEF Fence
  <1>2. p \in Works(s) /\ Op'[s][p] = Op[s][p]
    BY <1>1, GivesWorks
  <1>3. /\ TypeOK /\ curr \in AllStreams /\ Total[curr] \in Nat /\ Total'[curr] \in Nat
        /\ Total'[curr] >= Total[curr]
    BY GivesFact, LanesFact DEF IInv, TypeOK
  <1>4. After(Cuts, Point(curr, Total[curr]), Point(s, p))
    BY <1>1, <1>2 DEF IInv, Order, Fence
  <1>5. Exists(Point(curr, Total[curr])) /\ Point(s, p) \in Events
    BY <1>2, <1>3, PointFact, WorkFact DEF Exists
  <1>6. After(Cuts', Point(curr, Total[curr]), Point(s, p))
    BY <1>4, <1>5, GivesKeeps
  <1>7. After(Cuts', Point(curr, Total'[curr]), Point(curr, Total[curr]))
    BY <1>3, PointFact, AfterFifo, CutsNextFact
  <1>8. QED
    BY <1>6, <1>7, AfterTrans

\* The order is kept if what is given falls under the current call and its fence.
LEMMA GivesOrder ==
  ASSUME IInv, Gives, UNCHANGED <<eval, made, td, ev, curr>>, InCall', Fence'
  PROVE  Order'
  <1>1. /\ eval' = eval /\ made' = made /\ td' = td /\ ev' = ev /\ curr' = curr
        /\ TypeOK /\ made \in Nat /\ eval.n \in Nat /\ curr \in Lanes
        /\ Depth /\ Ordered /\ Recording
    BY DEF IInv, TypeOK, Order
  <1>2. Depth'
    <2>1. ~eval.tbo => Pending'[1] = {}
      <3>1. SUFFICES ASSUME ~eval.tbo, NEW p \in Pending'[1] PROVE FALSE
        OBVIOUS
      <3>2. curr = 0 /\ Pending[1] = {}
        BY <1>1, <3>1 DEF Depth, IInv, HostOK
      <3>3. May(1, Op'[1][p])
        BY <3>1, <3>2, LanesFact DEF Gives
      <3>4. QED
        BY <3>2, <3>3, LanesFact DEF May
    <2>2. ASSUME NEW s \in Lanes, NEW p \in Works(s)'
          PROVE  /\ Op'[s][p].eval <= eval.n
                 /\ Op'[s][p].eval = eval.n => s = curr /\ Op'[s][p].call <= made
                 /\ eval.tbo => IF s = curr THEN Op'[s][p].eval = eval.n
                                ELSE Op'[s][p].eval = eval.n - 1 /\ Op'[s][p].call < td.prev_count
      <3>1. CASE p \in Works(s) /\ Op'[s][p] = Op[s][p]
        BY <1>1, <3>1 DEF Depth
      <3>2. CASE s = curr /\ Op'[s][p].eval = eval.n /\ Op'[s][p].call = made
        BY <1>1, <3>2
      <3>3. QED
        BY <3>1, <3>2, GivesWorks
    <2>3. ASSUME NEW s \in Lanes, NEW p \in Works(s)', NEW q \in Works(s)', p < q
          PROVE  Op'[s][p].eval <= Op'[s][q].eval
      <3>1. CASE q \in Works(s) /\ Op'[s][q] = Op[s][q] /\ q <= Total[s]
        <4>1. p \in Works(s) /\ Op'[s][p] = Op[s][p]
          <5>1. Total[s] \in Nat /\ q \in Nat /\ p \in Nat
            BY GivesWorks, GivesFact, LanesFact
          <5>2. ~(p > Total[s])
            BY <2>3, <3>1, <5>1
          <5>3. QED
            BY <5>2, GivesWorks
        <4>2. QED
          BY <1>1, <2>3, <3>1, <4>1 DEF Depth
      <3>2. CASE Op'[s][q].eval = eval.n
        BY <2>2, <3>2
      <3>3. QED
        BY <3>1, <3>2, GivesWorks
    <2>4. host' # "between" /\ InCall'
      BY DEF InCall
    <2>5. QED
      BY <1>1, <2>1, <2>2, <2>3, <2>4 DEF Depth
  <1>3. Ordered'
    <2>1. SUFFICES ASSUME NEW s \in Lanes, NEW t \in Lanes, s # t,
                          NEW p \in Works(s)', NEW q \in Works(t)',
                          Op'[s][p].eval < Op'[t][q].eval, Op'[s][p].call <= Op'[t][q].call
                   PROVE  After(Cuts', Point(t, q), Point(s, p))
      BY DEF Ordered
    <2>2. CASE /\ p \in Works(s) /\ Op'[s][p] = Op[s][p]
               /\ q \in Works(t) /\ Op'[t][q] = Op[t][q]
      <3>1. After(Cuts, Point(t, q), Point(s, p))
        BY <1>1, <2>1, <2>2 DEF Ordered
      <3>2. Exists(Point(t, q)) /\ Point(s, p) \in Events
        BY <1>1, <2>2, WorkFact
      <3>3. QED
        BY <3>1, <3>2, GivesKeeps
    <2>3. CASE /\ p \in Works(s) /\ Op'[s][p] = Op[s][p]
               /\ q = Total'[t] /\ t = curr /\ Op'[t][q].call = made
      <3>1. eval.tbo
        <4>1. SUFFICES ASSUME ~eval.tbo PROVE FALSE
          OBVIOUS
        <4>2. curr = 0 /\ Pending[1] = {}
          BY <1>1, <4>1 DEF Depth, IInv, HostOK
        <4>3. s = 1
          BY <2>1, <2>3, <4>2 DEF Lanes
        <4>4. QED
          BY <2>3, <4>2, <4>3 DEF Works
      <3>2. InCall' /\ Op'[s][p].call <= made' /\ s # curr' /\ eval'.tbo
        BY <1>1, <2>1, <2>3, <3>1
      <3>3. After(Cuts', Point(curr', Total'[curr']), Point(s, p))
        BY <3>2 DEF Fence
      <3>4. QED
        BY <1>1, <2>3, <3>3
    <2>4. CASE Op'[s][p].eval = eval.n
      <3>1. Op'[t][q].eval <= eval.n /\ Op'[t][q].eval \in Nat
        <4>1. CASE q \in Works(t) /\ Op'[t][q] = Op[t][q]
          BY <1>1, <4>1, WorkFact DEF Depth
        <4>2. CASE Op'[t][q].eval = eval.n
          BY <1>1, <4>2
        <4>3. QED
          BY <4>1, <4>2, GivesWorks
      <3>2. QED
        BY <1>1, <2>1, <2>4, <3>1
    <2>5. QED
      BY <2>2, <2>3, <2>4, GivesWorks
  <1>4. Recording'
    <2>1. SUFFICES ASSUME eval.tbo, NEW s \in Lanes, NEW p \in Works(s)',
                          NEW j \in 0 .. (IF s = curr THEN made ELSE td.prev_count) - 1,
                          Op'[s][p].call <= j
                   PROVE  After(Cuts', ev[s][Lowest(j, Ring - 1)], Point(s, p))
      BY <1>1 DEF Recording
    <2>2. p \in Works(s) /\ Op'[s][p] = Op[s][p]
      <3>1. Op'[s][p].call = made => s # curr
        BY <1>1, <2>1
      <3>2. QED
        BY <3>1, GivesWorks
    <2>3. After(Cuts, ev[s][Lowest(j, Ring - 1)], Point(s, p))
      BY <1>1, <2>1, <2>2 DEF Recording
    <2>4. Exists(ev[s][Lowest(j, Ring - 1)])
      <3>1. td.prev_count \in Nat
        BY <1>1 DEF TypeOK
      <3>2. j \in Nat
        BY <1>1, <3>1
      <3>3. Lowest(j, Ring - 1) \in 0 .. Ring - 1
        BY <3>2, TwoBatchAssumption DEF Lowest
      <3>4. QED
        BY <3>3 DEF IInv, EventsExist
    <2>5. QED
      BY <1>1, <2>2, <2>3, <2>4, WorkFact, GivesKeeps
  <1>5. QED
    BY <1>2, <1>3, <1>4 DEF Order

-----------------------------------------------------------------------------
(* The prefetch slots.                                                     *)

\* The next entry and its slot.
LEMMA EntryFact ==
  ASSUME TypeOK
  PROVE  Entry \in Nat /\ Slot \in Slots
  <1>1. made \in Nat /\ m \in Nat /\ Products \in Nat /\ NSlots \in Nat /\ NSlots > 0
    BY TwoBatchAssumption DEF TypeOK
  <1>2. Entry \in Nat
    BY <1>1 DEF Entry
  <1>3. QED
    BY <1>1, <1>2 DEF Slot, Slots

\* Every entry has a slot of the ring.
LEMMA SlotFact ==
  ASSUME NEW e \in Nat
  PROVE  e % NSlots \in Slots
  BY TwoBatchAssumption DEF Slots

\* A product that reads a slot is pending and names the slot and the entry.
LEMMA ReadFact ==
  ASSUME TypeOK, NEW s \in Lanes, NEW p \in Reads(s)
  PROVE  /\ p \in Nat /\ p \in Pending[s] /\ p <= Total[s] /\ p \in Works(s)
         /\ Op[s][p].slot \in Slots /\ Op[s][p].entry \in Nat /\ Op[s][p].call \in Nat
         /\ Exists(Point(s, p)) /\ Point(s, p) \in Events
  <1>1. StreamsOK /\ s \in AllStreams /\ p \in Pending[s] /\ Op[s][p].do = "product" /\ Op[s][p].slot # -1
    BY LanesFact DEF TypeOK, Reads
  <1>2. Op[s][p] \in Operations
    BY <1>1, PendingFact
  <1>3. QED
    BY <1>1, <1>2, PendingFact, OperationFact, PendingExists DEF Exists, Works

\* The fills of a slot are those of before and those given now, ...
LEMMA GivesFills ==
  ASSUME IInv, Gives, NEW x, NEW q \in Fills(x)'
  PROVE  /\ q \in Nat /\ q \in Pending'[Copy]
         /\ q \in Fills(x) \/ (q \notin Pending[Copy] /\ q > Total[Copy])
  <1>1. Copy \in AllStreams /\ q \in Pending'[Copy] /\ Op'[Copy][q].do = "fill" /\ Op'[Copy][q].slot = x
    BY LanesFact DEF Fills
  <1>2. q \in Nat
    <2>1. queue'[Copy] \in Seq(Operations) /\ ran'[Copy] \in Nat
      BY <1>1, GivesFact DEF StreamsOK
    <2>2. Pending'[Copy] = ran'[Copy] + 1 .. Total'[Copy]
      BY <1>1 DEF Pending
    <2>3. QED
      BY <1>1, <2>1, <2>2
  <1>3. q \in Pending[Copy] => Op'[Copy][q] = Op[Copy][q]
    BY <1>1 DEF Gives, Grown
  <1>4. q \notin Pending[Copy] => q > Total[Copy]
    BY <1>1 DEF Gives
  <1>5. QED
    BY <1>1, <1>2, <1>3, <1>4 DEF Fills

\* ... none is lost, ...
LEMMA FillsKept ==
  ASSUME Gives, NEW x, NEW q \in Fills(x)
  PROVE  q \in Fills(x)' /\ Op'[Copy][q] = Op[Copy][q]
  BY LanesFact DEF Gives, Grown, Fills

\* ... so a slot that carries an entry goes on doing so.
LEMMA CarriedKept ==
  ASSUME Gives, content' = content, NEW x, NEW e, NEW b, Carried(x, e, b)
  PROVE  Carried(x, e, b)'
  <1>1. ran' = ran
    BY DEF Gives, Grown
  <1>2. b > ran[Copy] => b \in Fills(x)' /\ Op'[Copy][b].entry = e
    BY FillsKept DEF Carried
  <1>3. QED
    BY <1>1, <1>2 DEF Carried

\* A product that was given before keeps its entry, if what is copied into the
\* slot from now on comes after it.
LEMMA ReadKept ==
  ASSUME IInv, Gives, content' = content,
         NEW s \in Lanes, NEW p \in Reads(s), NEW x, x = Op[s][p].slot, NEW e, e = Op[s][p].entry,
         \A q \in Fills(x)' : q \in Fills(x) \/ After(Cuts', Point(Copy, q), Point(s, p))
  PROVE  \E b \in Nat : /\ Carried(x, e, b)'
                        /\ After(Cuts', Point(s, p), Point(Copy, b))
                        /\ \A q \in Fills(x)' : q > b => After(Cuts', Point(Copy, q), Point(s, p))
  <1>1. TypeOK /\ StreamsOK
    BY DEF IInv, TypeOK
  <1>2. Exists(Point(s, p)) /\ Point(s, p) \in Events
    BY <1>1, ReadFact
  <1>3. PICK b \in Nat :
          /\ Carried(x, e, b)
          /\ After(Cuts, Point(s, p), Point(Copy, b))
          /\ \A q \in Fills(x) : q > b => After(Cuts, Point(Copy, q), Point(s, p))
    BY DEF IInv, Weights, ReadsOwn
  <1>4. Carried(x, e, b)'
    BY <1>3, CarriedKept
  <1>5. After(Cuts', Point(s, p), Point(Copy, b))
    <2>1. Point(Copy, b) \in Events
      BY PointFact, LanesFact
    <2>2. QED
      BY <1>2, <1>3, <2>1, GivesKeeps
  <1>6. ASSUME NEW q \in Fills(x)', q > b PROVE After(Cuts', Point(Copy, q), Point(s, p))
    <2>1. CASE q \in Fills(x)
      <3>1. Exists(Point(Copy, q))
        BY <1>1, <2>1, PendingExists, LanesFact DEF Fills
      <3>2. After(Cuts, Point(Copy, q), Point(s, p))
        BY <1>3, <1>6, <2>1
      <3>3. QED
        BY <1>2, <3>1, <3>2, GivesKeeps
    <2>2. QED
      BY <1>6, <2>1
  <1>7. QED
    BY <1>4, <1>5, <1>6

\* So do the marks of a slot.
LEMMA MarksKept ==
  ASSUME IInv, Gives, NEW s \in Lanes, NEW p \in Reads(s), NEW x \in Slots, x = Op[s][p].slot
  PROVE  /\ After(Cuts', ev_done[x], Point(s, p))
         /\ Op[s][p].entry # slot_entry[x] => After(Cuts', ev_ready[x], Point(s, p))
  <1>1. Point(s, p) \in Events /\ Exists(ev_done[x]) /\ Exists(ev_ready[x])
    BY ReadFact DEF IInv, EventsExist
  <1>2. /\ After(Cuts, ev_done[x], Point(s, p))
        /\ Op[s][p].entry # slot_entry[x] => After(Cuts, ev_ready[x], Point(s, p))
    BY DEF IInv, Weights, SlotsOK
  <1>3. QED
    BY <1>1, <1>2, GivesKeeps

\* And what the table says of a slot that no copy is made into.
LEMMA TableKept ==
  ASSUME IInv, Gives, content' = content, NEW x \in Slots, slot_entry[x] # -1,
         \A q \in Fills(x)' : q \in Fills(x), NEW e, e = slot_entry[x], NEW b, b = ev_ready[x].at
  PROVE  /\ ev_ready[x].on = Copy
         /\ Carried(x, e, b)'
         /\ \A q \in Fills(x)' : q <= b
  BY CarriedKept DEF IInv, Weights, SlotsOK

\* The streams are given no copies and no reads of a slot.
LEMMA GivesSlots ==
  ASSUME IInv, Gives, slot_entry' = slot_entry, ev_ready' = ev_ready, ev_done' = ev_done,
         content' = content, bad' = bad,
         \A p \in Pending'[Copy] : p \in Pending[Copy],
         \A s \in Lanes : \A p \in Reads(s)' : p \in Pending[s]
  PROVE  SlotsOK' /\ ReadsOwn' /\ WeightsAreOwn'
  <1>1. ASSUME NEW s \in Lanes, NEW p \in Reads(s)' PROVE p \in Reads(s) /\ Op'[s][p] = Op[s][p]
    BY LanesFact DEF Gives, Grown, Reads
  <1>2. ASSUME NEW x PROVE \A q \in Fills(x)' : q \in Fills(x)
    <2>1. SUFFICES ASSUME NEW q \in Fills(x)' PROVE q \in Fills(x)
      OBVIOUS
    <2>2. q \in Pending[Copy]
      BY DEF Fills
    <2>3. QED
      BY <2>2, GivesFills
  <1>3. SlotsOK'
    <2>1. SUFFICES ASSUME NEW x \in Slots
                   PROVE  /\ slot_entry'[x] # -1 =>
                               /\ ev_ready'[x].on = Copy
                               /\ Carried(x, slot_entry[x], ev_ready[x].at)'
                               /\ \A q \in Fills(x)' : q <= ev_ready'[x].at
                          /\ \A s \in Lanes : \A p \in Reads(s)' : Op'[s][p].slot = x =>
                               /\ After(Cuts', ev_done'[x], Point(s, p))
                               /\ Op'[s][p].entry # slot_entry'[x] => After(Cuts', ev_ready'[x], Point(s, p))
      BY DEF SlotsOK
    <2>2. PICK e, b : e = slot_entry[x] /\ b = ev_ready[x].at
      OBVIOUS
    <2>3. slot_entry[x] # -1 => ev_ready[x].on = Copy /\ Carried(x, e, b)' /\ \A q \in Fills(x)' : q <= b
      BY <1>2, <2>2, TableKept
    <2>4. ASSUME NEW s \in Lanes, NEW p \in Reads(s)', Op'[s][p].slot = x
          PROVE  /\ After(Cuts', ev_done[x], Point(s, p))
                 /\ Op'[s][p].entry # slot_entry[x] => After(Cuts', ev_ready[x], Point(s, p))
      <3>1. p \in Reads(s) /\ Op'[s][p] = Op[s][p]
        BY <1>1
      <3>2. QED
        BY <2>4, <3>1, MarksKept
    <2>5. QED
      BY <2>2, <2>3, <2>4 DEF Carried
  <1>4. ReadsOwn'
    <2>1. SUFFICES ASSUME NEW s \in Lanes, NEW p \in Reads(s)'
                   PROVE  \E b \in Nat :
                            /\ Carried(Op[s][p].slot, Op[s][p].entry, b)'
                            /\ After(Cuts', Point(s, p), Point(Copy, b))
                            /\ \A q \in Fills(Op[s][p].slot)' : q > b => After(Cuts', Point(Copy, q), Point(s, p))
      BY DEF ReadsOwn
    <2>2. p \in Reads(s) /\ Op'[s][p] = Op[s][p]
      BY <1>1
    <2>3. PICK x, e : x = Op[s][p].slot /\ e = Op[s][p].entry
      OBVIOUS
    <2>4. \E b \in Nat : /\ Carried(x, e, b)'
                         /\ After(Cuts', Point(s, p), Point(Copy, b))
                         /\ \A q \in Fills(x)' : q > b => After(Cuts', Point(Copy, q), Point(s, p))
      BY <1>2, <2>2, <2>3, ReadKept
    <2>5. QED
      BY <2>2, <2>3, <2>4 DEF Carried, Fills
  <1>5. WeightsAreOwn'
    BY DEF IInv, Weights, WeightsAreOwn
  <1>6. QED
    BY <1>3, <1>4, <1>5

\* A copy is given to the copy stream, after a wait for the last read of the
\* slot: it comes after all reads of the slot, and the table speaks of it.
LEMMA IssueNew ==
  ASSUME IInv, NEW e \in Nat, NEW x \in Slots, x = e % NSlots, ran' = ran, content' = content, bad' = bad,
         NEW q, q = Push(Wait(queue, Copy, ev_done[x]), Copy, [do |-> "fill", slot |-> x, entry |-> e]),
         queue' = q,
         slot_entry' = [slot_entry EXCEPT ![x] = e],
         ev_ready' = [ev_ready EXCEPT ![x] = Recorded(Copy, q)],
         ev_done' = ev_done
  PROVE  /\ Gives /\ SlotsOK' /\ ReadsOwn' /\ WeightsAreOwn'
         /\ slot_entry' \in [Slots -> Int] /\ ev_ready' \in [Slots -> Events]
         /\ \A y \in Slots : ev_ready'[y] \in Events /\ ev_ready'[y].at <= Total'[ev_ready'[y].on]
         /\ slot_entry'[x] = e
  <1>1. /\ TypeOK /\ StreamsOK /\ Exists(ev_done[x]) /\ ev_done[x] \in Events
        /\ slot_entry \in [Slots -> Int] /\ ev_ready \in [Slots -> Events]
    BY DEF IInv, TypeOK, EventsExist
  <1>2. PICK w, f : w = [do |-> "wait", event |-> ev_done[x]] /\ f = [do |-> "fill", slot |-> x, entry |-> e]
    OBVIOUS
  <1>3. w \in Operations /\ f \in Operations
    BY <1>1, <1>2 DEF Operations
  <1>4. May(Copy, w) /\ May(Copy, f)
    BY <1>1, <1>2 DEF May
  <1>5. queue' = Push(Push(queue, Copy, w), Copy, f)
    BY <1>2 DEF Wait
  <1>6. Gives
    BY <1>1, <1>2, <1>3, <1>4, <1>5, GivesTwo, LanesFact
  <1>7. PICK a, b : a = Total[Copy] + 1 /\ b = Total[Copy] + 2
    OBVIOUS
  <1>8. /\ Total'[Copy] = b
        /\ \A p \in Pending'[Copy] : p \in Pending[Copy] \/ p = a \/ p = b
        /\ a \in Pending'[Copy] /\ Op'[Copy][a] = w
        /\ b \in Pending'[Copy] /\ Op'[Copy][b] = f
        /\ \A s \in Lanes : Pending'[s] = Pending[s]
    <2>1. Copy \in AllStreams /\ \A s \in Lanes : s \in AllStreams /\ s # Copy
      BY LanesFact
    <2>2. /\ Total'[Copy] = Total[Copy] + 2
          /\ \A p \in Pending'[Copy] : p \in Pending[Copy] \/ p = Total[Copy] + 1 \/ p = Total[Copy] + 2
          /\ Total[Copy] + 1 \in Pending'[Copy] /\ Op'[Copy][Total[Copy] + 1] = w
          /\ Total[Copy] + 2 \in Pending'[Copy] /\ Op'[Copy][Total[Copy] + 2] = f
          /\ \A s \in AllStreams : s # Copy => Pending'[s] = Pending[s]
      BY <1>1, <1>3, <1>5, <2>1, PushTwo
    <2>3. QED
      BY <1>7, <2>1, <2>2
  <1>9. a \in Nat /\ b \in Nat /\ Total[Copy] \in Nat /\ ran[Copy] \in Nat /\ ran[Copy] <= Total[Copy] /\ b > ran[Copy]
    BY <1>1, <1>7, PendingFact, LanesFact, SMTT(60)
  <1>10. Recorded(Copy, q) = Point(Copy, b)
    <2>1. q = queue' /\ Total'[Copy] = ran'[Copy] + Len(queue'[Copy])
      BY LanesFact DEF Total
    <2>2. QED
      BY <1>8, <2>1 DEF Recorded, Point
  <1>11. /\ slot_entry'[x] = e /\ ev_ready'[x] = Point(Copy, b)
         /\ slot_entry' \in [Slots -> Int] /\ ev_ready' \in [Slots -> Events]
         /\ \A y \in Slots : y # x => slot_entry'[y] = slot_entry[y] /\ ev_ready'[y] = ev_ready[y]
    <2>1. Point(Copy, b) \in Events
      BY <1>9, PointFact, LanesFact
    <2>2. QED
      BY <1>1, <1>10, <2>1
  <1>12. ASSUME NEW y \in Slots PROVE ev_ready'[y] \in Events /\ ev_ready'[y].at <= Total'[ev_ready'[y].on]
    <2>1. CASE y = x
      BY <1>8, <1>9, <1>11, <2>1, PointFact, LanesFact
    <2>2. CASE y # x
      BY <1>6, <1>11, <2>2, GivesExist DEF IInv, EventsExist
    <2>3. QED
      BY <2>1, <2>2
  \* The new copy is the only one, and it is into slot x.
  <1>13. ASSUME NEW y, NEW p \in Fills(y)' PROVE p \in Fills(y) \/ (y = x /\ p = b)
    <2>1. p \in Pending'[Copy] /\ Op'[Copy][p].do = "fill" /\ Op'[Copy][p].slot = y
      BY DEF Fills
    <2>2. CASE p = a
      BY <1>2, <1>8, <2>1, <2>2
    <2>3. CASE p = b
      BY <1>2, <1>8, <2>1, <2>3
    <2>4. CASE p \in Pending[Copy]
      <3>1. ~(p > Total[Copy])
        BY <1>1, <2>4, PendingFact, LanesFact
      <3>2. QED
        BY <1>6, <2>4, <3>1, GivesFills
    <2>5. QED
      BY <1>8, <2>1, <2>2, <2>3, <2>4
  <1>14. b \in Fills(x)' /\ Op'[Copy][b].entry = e
    BY <1>2, <1>8 DEF Fills
  <1>15. ASSUME NEW s \in Lanes, NEW p \in Reads(s)' PROVE p \in Reads(s) /\ Op'[s][p] = Op[s][p]
    <2>1. p \in Pending[s]
      BY <1>8 DEF Reads
    <2>2. QED
      BY <1>6, <2>1, LanesFact DEF Gives, Grown, Reads
  \* It comes after every read of the slot.
  <1>16. ASSUME NEW s \in Lanes, NEW p \in Reads(s), Op[s][p].slot = x
         PROVE  After(Cuts', Point(Copy, b), Point(s, p))
    <2>1. After(Cuts', ev_done[x], Point(s, p))
      BY <1>6, <1>16, MarksKept
    <2>2. After(Cuts', Point(Copy, a), ev_done[x])
      BY <1>2, <1>8, <1>9, AfterNewWait, LanesFact
    <2>3. After(Cuts', Point(Copy, b), Point(Copy, a))
      <3>1. b >= a
        BY <1>7, <1>9
      <3>2. PICK g \in Events, h \in Events : g = Point(Copy, b) /\ h = Point(Copy, a)
        BY <1>9, PointFact, LanesFact
      <3>3. g.on = h.on /\ g.at >= h.at
        BY <1>9, <3>1, <3>2, PointFact, LanesFact
      <3>4. QED
        BY <3>2, <3>3, AfterFifo, CutsNextFact
    <2>4. After(Cuts', Point(Copy, b), ev_done[x])
      BY <2>2, <2>3, AfterTrans
    <2>5. QED
      BY <2>1, <2>4, AfterTrans
  <1>17. SlotsOK'
    <2>1. SUFFICES ASSUME NEW y \in Slots
                   PROVE  /\ slot_entry'[y] # -1 =>
                               /\ ev_ready'[y].on = Copy
                               /\ Carried(y, slot_entry[y], ev_ready[y].at)'
                               /\ \A p \in Fills(y)' : p <= ev_ready'[y].at
                          /\ \A s \in Lanes : \A p \in Reads(s)' : Op'[s][p].slot = y =>
                               /\ After(Cuts', ev_done'[y], Point(s, p))
                               /\ Op'[s][p].entry # slot_entry'[y] => After(Cuts', ev_ready'[y], Point(s, p))
      BY DEF SlotsOK
    <2>2. CASE y = x
      <3>1. Carried(x, e, b)'
        <4>1. ~(b <= ran'[Copy])
          BY <1>6, <1>9 DEF Gives, Grown
        <4>2. QED
          BY <1>14, <4>1 DEF Carried
      <3>2. ASSUME NEW p \in Fills(x)' PROVE p <= b
        <4>1. CASE p = b
          BY <1>9, <4>1
        <4>2. CASE p \in Fills(x)
          <5>1. p \in Nat /\ p <= Total[Copy]
            BY <1>1, <4>2, PendingFact, LanesFact DEF Fills
          <5>2. QED
            BY <1>7, <1>9, <5>1
        <4>3. QED
          BY <1>13, <4>1, <4>2
      <3>3. ev_ready'[x].on = Copy /\ ev_ready'[x].at = b /\ slot_entry'[x] = e
        BY <1>9, <1>11, PointFact, LanesFact
      <3>4. ASSUME NEW s \in Lanes, NEW p \in Reads(s)', Op'[s][p].slot = x
            PROVE  After(Cuts', ev_done[x], Point(s, p)) /\ After(Cuts', ev_ready'[x], Point(s, p))
        <4>1. p \in Reads(s) /\ Op[s][p].slot = x
          BY <1>15, <3>4
        <4>2. After(Cuts', ev_done[x], Point(s, p))
          BY <1>6, <4>1, MarksKept
        <4>3. QED
          BY <1>11, <1>16, <4>1, <4>2
      <3>5. QED
        BY <2>2, <3>1, <3>2, <3>3, <3>4 DEF Carried
    <2>3. CASE y # x
      <3>1. PICK k, c : k = slot_entry[y] /\ c = ev_ready[y].at
        OBVIOUS
      <3>2. k # -1 => ev_ready[y].on = Copy /\ Carried(y, k, c)' /\ \A p \in Fills(y)' : p <= c
        BY <1>6, <1>13, <2>3, <3>1, TableKept
      <3>3. ASSUME NEW s \in Lanes, NEW p \in Reads(s)', Op'[s][p].slot = y
            PROVE  /\ After(Cuts', ev_done[y], Point(s, p))
                   /\ Op'[s][p].entry # slot_entry[y] => After(Cuts', ev_ready[y], Point(s, p))
        BY <1>6, <1>15, <3>3, MarksKept
      <3>4. slot_entry'[y] = k /\ ev_ready'[y] = ev_ready[y] /\ ev_ready'[y].at = c /\ ev_done'[y] = ev_done[y]
        BY <1>11, <2>3, <3>1
      <3>5. QED
        BY <3>1, <3>2, <3>3, <3>4 DEF Carried
    <2>4. QED
      BY <2>2, <2>3
  <1>18. ReadsOwn'
    <2>1. SUFFICES ASSUME NEW s \in Lanes, NEW p \in Reads(s)'
                   PROVE  \E c \in Nat :
                            /\ Carried(Op[s][p].slot, Op[s][p].entry, c)'
                            /\ After(Cuts', Point(s, p), Point(Copy, c))
                            /\ \A r \in Fills(Op[s][p].slot)' : r > c => After(Cuts', Point(Copy, r), Point(s, p))
      BY DEF ReadsOwn
    <2>2. p \in Reads(s) /\ Op'[s][p] = Op[s][p]
      BY <1>15
    <2>3. PICK y, k : y = Op[s][p].slot /\ k = Op[s][p].entry
      OBVIOUS
    <2>4. \A r \in Fills(y)' : r \in Fills(y) \/ After(Cuts', Point(Copy, r), Point(s, p))
      BY <1>13, <1>16, <2>2, <2>3
    <2>5. \E c \in Nat : /\ Carried(y, k, c)'
                         /\ After(Cuts', Point(s, p), Point(Copy, c))
                         /\ \A r \in Fills(y)' : r > c => After(Cuts', Point(Copy, r), Point(s, p))
      BY <1>6, <2>2, <2>3, <2>4, ReadKept
    <2>6. QED
      BY <2>2, <2>3, <2>5 DEF Carried, Fills
  <1>19. WeightsAreOwn'
    BY DEF IInv, Weights, WeightsAreOwn
  <1>20. QED
    BY <1>6, <1>11, <1>12, <1>17, <1>18, <1>19

\* Whether a copy is made or the entry is there.
LEMMA IssueFact ==
  ASSUME IInv, NEW e \in Nat, issue(e), ran' = ran, content' = content, bad' = bad
  PROVE  /\ Gives /\ SlotsOK' /\ ReadsOwn' /\ WeightsAreOwn'
         /\ slot_entry' \in [Slots -> Int] /\ ev_ready' \in [Slots -> Events] /\ ev_done' = ev_done
         /\ \A y \in Slots : ev_ready'[y] \in Events /\ ev_ready'[y].at <= Total'[ev_ready'[y].on]
         /\ slot_entry'[e % NSlots] = e
         /\ \A s \in Lanes : Pending'[s] = Pending[s] /\ Total'[s] = Total[s] /\ queue'[s] = queue[s]
  <1>1. PICK x \in Slots : x = e % NSlots
    BY SlotFact
  <1>2. CASE slot_entry[x] = e /\ UNCHANGED <<queue, prefetchVars>>
    <2>1. queue' = queue /\ slot_entry' = slot_entry /\ ev_ready' = ev_ready /\ ev_done' = ev_done
      BY <1>2 DEF prefetchVars
    <2>2. StreamsOK /\ slot_entry \in [Slots -> Int] /\ ev_ready \in [Slots -> Events]
      BY DEF IInv, TypeOK
    <2>3. Gives /\ Total' = Total /\ Pending' = Pending
      BY <2>1, <2>2, GivesNone, SameFact
    <2>4. SlotsOK' /\ ReadsOwn' /\ WeightsAreOwn'
      <3>1. \A p \in Pending'[Copy] : p \in Pending[Copy]
        BY <2>3
      <3>2. \A s \in Lanes : \A p \in Reads(s)' : p \in Pending[s]
        BY <2>3 DEF Reads
      <3>3. QED
        BY <2>1, <2>3, <3>1, <3>2, GivesSlots
    <2>5. QED
      BY <1>1, <1>2, <2>1, <2>2, <2>3, <2>4 DEF IInv, EventsExist, Exists
  <1>3. CASE slot_entry[x] # e
    <2>1. PICK q : q = Push(Wait(queue, Copy, ev_done[x]), Copy, [do |-> "fill", slot |-> x, entry |-> e])
      OBVIOUS
    <2>2. /\ queue' = q /\ slot_entry' = [slot_entry EXCEPT ![x] = e]
          /\ ev_ready' = [ev_ready EXCEPT ![x] = Recorded(Copy, q)] /\ ev_done' = ev_done
      BY <1>1, <1>3, <2>1 DEF issue
    <2>3. /\ Gives /\ SlotsOK' /\ ReadsOwn' /\ WeightsAreOwn'
          /\ slot_entry' \in [Slots -> Int] /\ ev_ready' \in [Slots -> Events]
          /\ \A y \in Slots : ev_ready'[y] \in Events /\ ev_ready'[y].at <= Total'[ev_ready'[y].on]
          /\ slot_entry'[x] = e
      BY <1>1, <2>1, <2>2, IssueNew
    <2>4. ASSUME NEW s \in Lanes PROVE Pending'[s] = Pending[s] /\ Total'[s] = Total[s] /\ queue'[s] = queue[s]
      <3>1. s # Copy /\ s \in AllStreams
        BY LanesFact
      <3>2. queue'[s] = queue[s]
        BY <2>1, <2>2, <3>1 DEF Wait, Push, IInv, TypeOK, StreamsOK
      <3>3. ran' = ran
        OBVIOUS
      <3>4. Total'[s] = Total[s]
        BY <3>1, <3>2, <3>3 DEF Total
      <3>5. QED
        BY <3>1, <3>2, <3>3, <3>4 DEF Pending
    <2>5. QED
      BY <1>1, <2>2, <2>3, <2>4
  <1>4. QED
    BY <1>1, <1>2, <1>3 DEF issue

\* A product that reads its slot is given to the stream, and the read is marked:
\* the mark comes after all reads of the slot, and the slot has the entry.
LEMMA ReadNew ==
  ASSUME IInv, Gives, eval.big, host \in {"multiply", "drain"},
         NEW x \in Slots, x = Slot, NEW n \in Nat, n = Total'[curr],
         n \in Pending'[curr], n > Total[curr], Op'[curr][n] = Product,
         slot_entry' = slot_entry, ev_ready' = ev_ready, content' = content, bad' = bad,
         ev_done' = [ev_done EXCEPT ![x] = Point(curr, n)],
         \A p \in Pending'[Copy] : p \in Pending[Copy],
         \A s \in Lanes : \A p \in Reads(s)' : p \in Pending[s] \/ (s = curr /\ p = n)
  PROVE  SlotsOK' /\ ReadsOwn' /\ WeightsAreOwn'
  <1>1. /\ TypeOK /\ StreamsOK /\ curr \in Lanes /\ curr \in AllStreams /\ Total[curr] \in Nat
        /\ made \in Nat /\ m \in Nat /\ m < Products /\ Products \in Nat
    <2>1. TypeOK /\ HostOK /\ InCall /\ host # "record"
      BY DEF IInv, InCall
    <2>2. QED
      BY <2>1, PendingFact, LanesFact, TwoBatchAssumption DEF TypeOK, HostOK
  <1>2. PICK e : e = Entry
    OBVIOUS
  <1>3. /\ Op'[curr][n].do = "product" /\ Op'[curr][n].slot = x /\ Op'[curr][n].entry = e
        /\ e = made * Products + m /\ e \in Nat
    BY <1>1, <1>2, EntryFact DEF Product, Entry
  <1>4. /\ slot_entry[x] = e /\ slot_entry[x] # -1
        /\ After(Cuts, Point(curr, Total[curr]), ev_ready[x])
        /\ ev_ready[x].on = Copy /\ ev_ready[x] \in Events /\ Exists(ev_ready[x])
    <2>1. slot_entry[x] = e /\ After(Cuts, Point(curr, Total[curr]), ev_ready[x])
      BY <1>2 DEF IInv, Weights, Acquired
    <2>2. slot_entry[x] # -1
      BY <1>3, <2>1
    <2>3. QED
      BY <2>1, <2>2 DEF IInv, TypeOK, Weights, SlotsOK, EventsExist
  <1>5. PICK b \in Nat : b = ev_ready[x].at /\ ev_ready[x] = Point(Copy, b)
    <2>1. ev_ready[x].at \in Nat /\ ev_ready[x] = [on |-> ev_ready[x].on, at |-> ev_ready[x].at]
      BY <1>4 DEF Events
    <2>2. QED
      BY <1>4, <2>1 DEF Point
  <1>6. /\ Exists(Point(curr, Total[curr]))
        /\ After(Cuts', Point(curr, n), Point(curr, Total[curr]))
    <2>1. PICK g \in Events, h \in Events : g = Point(curr, n) /\ h = Point(curr, Total[curr])
      BY <1>1, PointFact
    <2>2. g.on = h.on /\ g.at >= h.at
      BY <1>1, <2>1, PointFact
    <2>3. After(Cuts', g, h)
      BY <2>2, AfterFifo, CutsNextFact
    <2>4. QED
      BY <1>1, <2>1, <2>3, PointFact DEF Exists
  <1>7. ASSUME NEW f \in Events, After(Cuts, Point(curr, Total[curr]), f) PROVE After(Cuts', Point(curr, n), f)
    <2>1. After(Cuts', Point(curr, Total[curr]), f)
      BY <1>6, <1>7, GivesKeeps
    <2>2. QED
      BY <1>6, <2>1, AfterTrans
  <1>8. ASSUME NEW s \in Lanes, NEW p \in Reads(s)'
        PROVE  \/ p \in Reads(s) /\ Op'[s][p] = Op[s][p]
               \/ s = curr /\ p = n
    <2>1. CASE p \in Pending[s]
      BY <2>1, LanesFact DEF Gives, Grown, Reads
    <2>2. QED
      BY <2>1
  <1>9. ASSUME NEW y PROVE \A q \in Fills(y)' : q \in Fills(y)
    <2>1. SUFFICES ASSUME NEW q \in Fills(y)' PROVE q \in Fills(y)
      OBVIOUS
    <2>2. q \in Pending[Copy]
      BY DEF Fills
    <2>3. QED
      BY <2>2, GivesFills
  \* It comes after every read of the slot: those of other entries were over
  \* before the copy, the others are of the same call.
  <1>10. ASSUME NEW s \in Lanes, NEW p \in Reads(s), Op[s][p].slot = x
         PROVE  After(Cuts', Point(curr, n), Point(s, p))
    <2>1. /\ p \in Nat /\ p \in Pending[s] /\ p <= Total[s] /\ p \in Works(s) /\ Point(s, p) \in Events
          /\ Op[s][p].entry \in Nat /\ Op[s][p].call \in Nat /\ Op[s][p].do = "product"
      BY <1>1, ReadFact DEF Reads
    <2>2. CASE s = curr
      <3>1. PICK g \in Events, h \in Events : g = Point(curr, n) /\ h = Point(s, p)
        BY <1>1, <2>1, PointFact
      <3>2. g.on = h.on /\ g.at >= h.at
        BY <1>1, <2>1, <2>2, <3>1, PointFact
      <3>3. QED
        BY <3>1, <3>2, AfterFifo, CutsNextFact
    <2>3. CASE s # curr /\ Op[s][p].entry # e
      <3>1. After(Cuts', ev_ready[x], Point(s, p))
        BY <1>4, <1>10, <2>3, MarksKept
      <3>2. After(Cuts', Point(curr, n), ev_ready[x])
        BY <1>4, <1>7
      <3>3. QED
        BY <3>1, <3>2, AfterTrans
    <2>4. CASE s # curr /\ Op[s][p].entry = e
      <3>1. Op[s][p].call = made
        <4>1. PICK c \in Nat : c = Op[s][p].call
          BY <2>1
        <4>2. c * Products <= made * Products + m /\ made * Products + m < c * Products + Products
          BY <1>3, <2>1, <2>4, <4>1 DEF IInv, Placed
        <4>3. (c + 1) * Products > made * Products
          BY <1>1, <4>2
        <4>4. c * Products < (made + 1) * Products
          BY <1>1, <4>2
        <4>5. c + 1 > made /\ c < made + 1
          BY <1>1, <4>3, <4>4
        <4>6. QED
          BY <1>1, <4>1, <4>5
      <3>2. eval.tbo
        <4>1. SUFFICES ASSUME ~eval.tbo PROVE FALSE
          OBVIOUS
        <4>2. curr = 0 /\ Pending[1] = {}
          BY <4>1 DEF IInv, Order, Depth, HostOK
        <4>3. s = 1
          BY <2>4, <4>2 DEF Lanes
        <4>4. QED
          BY <2>1, <4>2, <4>3
      <3>3. After(Cuts, Point(curr, Total[curr]), Point(s, p))
        <4>1. InCall /\ Op[s][p].call <= made
          BY <1>1, <3>1 DEF InCall
        <4>2. QED
          BY <2>1, <2>4, <3>2, <4>1 DEF IInv, Order, Fence
      <3>4. QED
        BY <1>7, <2>1, <3>3
    <2>5. QED
      BY <2>2, <2>3, <2>4
  <1>11. SlotsOK'
    <2>1. SUFFICES ASSUME NEW y \in Slots
                   PROVE  /\ slot_entry'[y] # -1 =>
                               /\ ev_ready'[y].on = Copy
                               /\ Carried(y, slot_entry[y], ev_ready[y].at)'
                               /\ \A q \in Fills(y)' : q <= ev_ready'[y].at
                          /\ \A s \in Lanes : \A p \in Reads(s)' : Op'[s][p].slot = y =>
                               /\ After(Cuts', ev_done'[y], Point(s, p))
                               /\ Op'[s][p].entry # slot_entry'[y] => After(Cuts', ev_ready'[y], Point(s, p))
      BY DEF SlotsOK
    <2>2. PICK k, c : k = slot_entry[y] /\ c = ev_ready[y].at
      OBVIOUS
    <2>3. k # -1 => ev_ready[y].on = Copy /\ Carried(y, k, c)' /\ \A q \in Fills(y)' : q <= c
      BY <1>9, <2>2, TableKept
    <2>4. ASSUME NEW s \in Lanes, NEW p \in Reads(s)', Op'[s][p].slot = y
          PROVE  /\ After(Cuts', ev_done'[y], Point(s, p))
                 /\ Op'[s][p].entry # slot_entry[y] => After(Cuts', ev_ready[y], Point(s, p))
      <3>1. ev_done'[x] = Point(curr, n) /\ (y # x => ev_done'[y] = ev_done[y])
        BY <1>1 DEF TypeOK
      <3>2. CASE p \in Reads(s) /\ Op'[s][p] = Op[s][p]
        <4>1. Op[s][p].slot = y
          BY <2>4, <3>2
        <4>2. /\ After(Cuts', ev_done[y], Point(s, p))
              /\ Op[s][p].entry # slot_entry[y] => After(Cuts', ev_ready[y], Point(s, p))
          BY <3>2, <4>1, MarksKept
        <4>3. y = x => After(Cuts', ev_done'[y], Point(s, p))
          BY <1>10, <3>1, <3>2, <4>1
        <4>4. QED
          BY <3>1, <3>2, <4>2, <4>3
      <3>3. CASE s = curr /\ p = n
        <4>1. y = x /\ Op'[s][p].entry = slot_entry[y]
          BY <1>3, <1>4, <2>4, <3>3
        <4>2. After(Cuts', Point(curr, n), Point(curr, n))
          BY DEF After
        <4>3. QED
          BY <3>1, <3>3, <4>1, <4>2
      <3>4. QED
        BY <1>8, <3>2, <3>3
    <2>5. QED
      BY <2>2, <2>3, <2>4 DEF Carried
  <1>12. ReadsOwn'
    <2>1. SUFFICES ASSUME NEW s \in Lanes, NEW p \in Reads(s)'
                   PROVE  \E c \in Nat :
                            /\ Carried(Op[s][p].slot, Op[s][p].entry, c)'
                            /\ After(Cuts', Point(s, p), Point(Copy, c))
                            /\ \A q \in Fills(Op[s][p].slot)' : q > c => After(Cuts', Point(Copy, q), Point(s, p))
      BY DEF ReadsOwn
    <2>2. PICK y, k : y = Op'[s][p].slot /\ k = Op'[s][p].entry
      OBVIOUS
    <2>3. SUFFICES \E c \in Nat : /\ Carried(y, k, c)'
                                  /\ After(Cuts', Point(s, p), Point(Copy, c))
                                  /\ \A q \in Fills(y)' : q > c => After(Cuts', Point(Copy, q), Point(s, p))
      BY <2>2 DEF Carried, Fills
    <2>4. CASE p \in Reads(s) /\ Op'[s][p] = Op[s][p]
      BY <1>9, <2>2, <2>4, ReadKept
    <2>5. CASE s = curr /\ p = n
      <3>1. y = x /\ k = e
        BY <1>3, <2>2, <2>5
      <3>2. Carried(x, e, b)' /\ \A q \in Fills(x)' : q <= b
        BY <1>4, <1>5, <1>9, TableKept
      <3>3. After(Cuts', Point(s, p), Point(Copy, b))
        BY <1>4, <1>5, <1>7, <2>5
      <3>4. \A q \in Fills(x)' : ~(q > b)
        <4>1. \A q \in Fills(x)' : q \in Nat
          BY GivesFills
        <4>2. QED
          BY <3>2, <4>1
      <3>5. QED
        BY <3>1, <3>2, <3>3, <3>4
    <2>6. QED
      BY <1>8, <2>4, <2>5
  <1>13. WeightsAreOwn'
    BY DEF IInv, Weights, WeightsAreOwn
  <1>14. QED
    BY <1>11, <1>12, <1>13

-----------------------------------------------------------------------------
(* The steps of the thread.                                                *)

\* The host gives operations and records no event.
LEMMA EventsKept ==
  ASSUME IInv, Gives, ev' = ev, ev_ready' = ev_ready, ev_done' = ev_done
  PROVE  EventsExist'
  <1>1. WaitsExist'
    BY GivesPlaced
  <1>2. \A s \in Lanes : \A i \in 0 .. Ring - 1 : ev[s][i] \in Events /\ ev[s][i].at <= Total'[ev[s][i].on]
    BY GivesExist DEF IInv, EventsExist
  <1>3. \A x \in Slots : /\ ev_ready[x] \in Events /\ ev_ready[x].at <= Total'[ev_ready[x].on]
                         /\ ev_done[x] \in Events /\ ev_done[x].at <= Total'[ev_done[x].on]
    BY GivesExist DEF IInv, EventsExist
  <1>4. QED
    BY <1>1, <1>2, <1>3 DEF EventsExist, Exists

\* A call that begins gives no product, and what it gives its stream waits for the fence.
LEMMA ComputeGives ==
  ASSUME IInv, compute
  PROVE  /\ Gives
         /\ \A p \in Pending'[Copy] : p \in Pending[Copy]
         /\ \A s \in Lanes : \A p \in Reads(s)' : p \in Pending[s]
         /\ \A s \in Lanes : \A p \in Pending'[s] : p \in Pending[s] \/ Op'[s][p].do # "product"
         /\ Fence'
  <1>1. /\ TypeOK /\ StreamsOK /\ HostOK /\ curr \in Lanes /\ curr \in AllStreams
        /\ eval.n \in Nat /\ made \in Nat /\ td.slot \in Lanes /\ td.prev_count \in Nat /\ td.call_idx \in Nat
        /\ Total[curr] \in Nat
    <2>1. TypeOK /\ HostOK
      BY DEF IInv
    <2>2. QED
      BY <2>1, PendingFact, LanesFact DEF TypeOK
  <1>2. /\ eval' = eval /\ made' = made /\ td' = td /\ curr' = curr /\ ran' = ran
        /\ queue' = Push(Fenced(queue), curr, [do |-> "state", eval |-> eval.n, call |-> made])
    BY DEF compute, tboVars
  <1>3. PICK o : o = [do |-> "state", eval |-> eval.n, call |-> made]
    OBVIOUS
  <1>4. o \in Operations /\ May(curr, o) /\ o.do = "state"
    BY <1>1, <1>3, LanesFact DEF Operations, May
  <1>5. CASE td.active /\ td.prev_count > 0
    <2>1. PICK j \in Nat : j = Lowest(made, td.prev_count - 1)
      BY <1>1, <1>5 DEF Lowest
    <2>2. PICK i \in 0 .. Ring - 1 : i = Lowest(j, Ring - 1)
      BY TwoBatchAssumption DEF Lowest
    <2>3. PICK s \in Lanes : s = 1 - td.slot
      BY <1>1 DEF Lanes
    <2>4. PICK w : w = [do |-> "wait", event |-> ev[s][i]]
      OBVIOUS
    <2>5. Exists(ev[s][i]) /\ ev[s][i] \in Events
      BY DEF IInv, EventsExist, Exists
    <2>6. w \in Operations /\ May(curr, w) /\ w.do = "wait" /\ w.event = ev[s][i]
      BY <1>1, <2>4, <2>5, LanesFact DEF Operations, May
    <2>7. td.call_idx = made
      BY <1>1, <1>5 DEF HostOK
    <2>8. queue' = Push(Push(queue, curr, w), curr, o)
      BY <1>2, <1>3, <1>5, <2>1, <2>2, <2>3, <2>4, <2>7 DEF Fenced, Wait
    <2>9. Gives
      BY <1>1, <1>2, <1>4, <2>6, <2>8, GivesTwo
    <2>10. /\ \A t \in AllStreams : t # curr => Pending'[t] = Pending[t]
           /\ Total'[curr] = Total[curr] + 2
           /\ \A p \in Pending'[curr] : p \in Pending[curr] \/ p = Total[curr] + 1 \/ p = Total[curr] + 2
           /\ Op'[curr][Total[curr] + 1] = w /\ Op'[curr][Total[curr] + 2] = o
           /\ Total[curr] + 1 \in Pending'[curr]
      <3>1. /\ StreamsOK /\ curr \in AllStreams /\ o \in Operations /\ w \in Operations
            /\ queue' = Push(Push(queue, curr, w), curr, o) /\ ran' = ran
        BY <1>1, <1>2, <1>4, <2>6, <2>8
      <3>2. QED
        BY <3>1, PushTwo
    <2>11. \A p \in Pending'[Copy] : p \in Pending[Copy]
      BY <1>1, <2>10, LanesFact
    <2>12. \A t \in Lanes : \A p \in Reads(t)' : p \in Pending[t]
      BY <1>4, <2>6, <2>10, LanesFact DEF Reads
    <2>13. Fence'
      <3>1. SUFFICES ASSUME eval.tbo, NEW t \in Lanes, t # curr, NEW p \in Works(t)', Op'[t][p].call <= made
                     PROVE  After(Cuts', Point(curr, Total'[curr]), Point(t, p))
        BY <1>2 DEF Fence
      <3>2. p \in Works(t) /\ Op'[t][p] = Op[t][p]
        BY <2>9, <3>1, GivesWorks
      <3>3. Op[t][p].call \in Nat /\ Exists(Point(t, p)) /\ Point(t, p) \in Events
        BY <1>1, <3>2, WorkFact
      <3>4. t = s /\ s # curr
        BY <1>1, <2>3, <3>1 DEF HostOK, Lanes
      <3>5. Op[t][p].call < td.prev_count
        BY <3>1, <3>2 DEF IInv, Order, Depth
      <3>6. Op[t][p].call <= j /\ j \in 0 .. td.prev_count - 1
        BY <1>1, <1>5, <2>1, <3>1, <3>2, <3>3, <3>5 DEF Lowest
      <3>7. After(Cuts, ev[s][i], Point(t, p))
        BY <2>2, <3>1, <3>2, <3>4, <3>6 DEF IInv, Order, Recording
      <3>8. After(Cuts', ev[s][i], Point(t, p))
        BY <2>5, <2>9, <3>3, <3>7, GivesKeeps
      <3>9. After(Cuts', Point(curr, Total[curr] + 1), ev[s][i])
        BY <1>1, <2>6, <2>10, AfterNewWait
      <3>10. After(Cuts', Point(curr, Total'[curr]), Point(curr, Total[curr] + 1))
        <4>1. PICK g \in Events, h \in Events : g = Point(curr, Total'[curr]) /\ h = Point(curr, Total[curr] + 1)
          BY <1>1, <2>10, PointFact
        <4>2. g.on = h.on /\ g.at >= h.at
          BY <1>1, <2>10, <4>1, PointFact
        <4>3. QED
          BY <4>1, <4>2, AfterFifo, CutsNextFact
      <3>11. QED
        BY <3>8, <3>9, <3>10, AfterTrans
    <2>14. \A t \in Lanes : \A p \in Pending'[t] : p \in Pending[t] \/ Op'[t][p].do # "product"
      BY <1>4, <2>6, <2>10, LanesFact
    <2>15. QED
      BY <2>9, <2>11, <2>12, <2>13, <2>14
  <1>6. CASE ~(td.active /\ td.prev_count > 0)
    <2>1. queue' = Push(queue, curr, o)
      BY <1>2, <1>3, <1>6 DEF Fenced
    <2>2. Gives
      BY <1>1, <1>2, <1>4, <2>1, GivesOne
    <2>3. /\ \A t \in AllStreams : t # curr => Pending'[t] = Pending[t]
          /\ \A p \in Pending'[curr] : p \in Pending[curr] \/ p = Total[curr] + 1
          /\ Op'[curr][Total[curr] + 1] = o
      BY <1>1, <1>2, <1>4, <2>1, PushOne
    <2>4. \A p \in Pending'[Copy] : p \in Pending[Copy]
      BY <1>1, <2>3, LanesFact
    <2>5. \A t \in Lanes : \A p \in Reads(t)' : p \in Pending[t]
      BY <1>4, <2>3, LanesFact DEF Reads
    <2>6. Fence'
      <3>1. SUFFICES ASSUME eval.tbo, NEW t \in Lanes, t # curr, NEW p \in Works(t)' PROVE FALSE
        BY <1>2 DEF Fence
      <3>2. p \in Works(t)
        BY <2>2, <3>1, GivesWorks
      <3>3. Op[t][p].call < td.prev_count /\ Op[t][p].call \in Nat
        BY <1>1, <3>1, <3>2, WorkFact DEF IInv, Order, Depth
      <3>4. td.active /\ td.prev_count > 0
        BY <1>1, <3>1, <3>3 DEF HostOK
      <3>5. QED
        BY <1>6, <3>4
    <2>7. \A t \in Lanes : \A p \in Pending'[t] : p \in Pending[t] \/ Op'[t][p].do # "product"
      BY <1>4, <2>3, LanesFact
    <2>8. QED
      BY <2>2, <2>4, <2>5, <2>6, <2>7
  <1>7. QED
    BY <1>5, <1>6

\* compute keeps the invariant.
LEMMA ComputeFact == IInv /\ compute => IInv'
  <1> SUFFICES ASSUME IInv, compute PROVE IInv'
    OBVIOUS
  <1>1. /\ eval' = eval /\ made' = made /\ ahead' = ahead /\ td' = td /\ ev' = ev /\ curr' = curr
        /\ slot_entry' = slot_entry /\ ev_ready' = ev_ready /\ ev_done' = ev_done
        /\ content' = content /\ sorted' = sorted /\ bad' = bad /\ mcache' = mcache /\ pin' = pin
        /\ m' = 0 /\ host' = (IF made < Layers THEN "product" ELSE "record") /\ host = "call"
    BY DEF compute, tboVars, prefetchVars, memVars
  <1>2. Gives /\ Fence'
    BY ComputeGives
  <1>3. TypeOK'
    <2>1. StreamsOK' /\ host' \in Points /\ m' \in Nat
      BY <1>1, <1>2, GivesFact DEF Points
    <2>2. QED
      BY <1>1, <2>1 DEF IInv, TypeOK
  <1>4. HostOK'
    <2>1. m' < Products
      BY <1>1, TwoBatchAssumption
    <2>2. host' \in {"product", "record"} /\ (host' = "product" => made < Layers)
      BY <1>1
    <2>3. QED
      BY <1>1, <2>1, <2>2 DEF IInv, HostOK, InCall
  <1>5. EventsExist' /\ Placed'
    BY <1>1, <1>2, EventsKept, GivesPlaced
  <1>6. InCall'
    BY <1>1 DEF InCall
  <1>7. Order'
    BY <1>1, <1>2, <1>6, GivesOrder
  <1>8. SlotsOK' /\ ReadsOwn' /\ WeightsAreOwn'
    BY <1>1, ComputeGives, GivesSlots
  <1>9. Acquired'
    BY <1>1 DEF Acquired
  <1>10. QED
    BY <1>3, <1>4, <1>5, <1>7, <1>8, <1>9 DEF IInv, Weights

\* The position up to which a stream was given operations.
LEMMA RecordedFact ==
  ASSUME StreamsOK, NEW s \in AllStreams
  PROVE  Recorded(s, queue) = Point(s, Total[s]) /\ Exists(Point(s, Total[s]))
  BY PendingFact, PointFact DEF Recorded, Point, Total, Exists

\* The end of a call keeps the order of the operations.
LEMMA RecordOrder ==
  ASSUME IInv, record
  PROVE  Order'
  <1>1. /\ TypeOK /\ StreamsOK /\ HostOK /\ curr \in Lanes /\ curr \in AllStreams
        /\ eval.n \in Nat /\ made \in Nat /\ td.call_idx \in Nat /\ td.prev_count \in Nat
        /\ ev \in [Lanes -> [0 .. Ring - 1 -> Events]] /\ InCall /\ host = "record" /\ td.slot \in Lanes
    BY LanesFact DEF record, IInv, TypeOK, InCall
  <1>2. /\ eval' = eval /\ made' = made + 1 /\ curr' = curr /\ ran' = ran /\ queue' = queue /\ host' = "call"
    BY DEF record
  <1>3. /\ td'.slot = td.slot /\ td'.prev_count = td.prev_count /\ td'.last_idx = td.last_idx
        /\ ~td.active => ev' = ev
        /\ td.active => ev' = [ev EXCEPT ![td.slot][Lowest(td.call_idx, Ring - 1)] = Recorded(curr, queue)]
    BY <1>1 DEF record, TypeOK
  <1>4. Total' = Total /\ Pending' = Pending /\ Op' = Op /\ Cuts' = Cuts
    BY <1>2, SameFact
  <1>5. ASSUME NEW s \in Lanes PROVE Works(s)' = Works(s)
    BY <1>4 DEF Works
  <1>6. ASSUME NEW s \in Lanes, NEW p \in Works(s)
        PROVE  /\ Op[s][p].eval \in Nat /\ Op[s][p].call \in Nat
               /\ Op[s][p].eval = eval.n => s = curr /\ Op[s][p].call <= made
    BY <1>1, WorkFact DEF IInv, Order, Depth
  <1>7. Depth'
    <2>1. ~InCall' /\ host' # "between"
      BY <1>2 DEF InCall
    <2>2. ASSUME NEW s \in Lanes, NEW p \in Works(s), Op[s][p].eval = eval.n PROVE Op[s][p].call < made + 1
      BY <1>1, <1>6, <2>2
    <2>3. ASSUME NEW s \in Lanes, NEW p \in Works(s), Op[s][p].eval = eval.n PROVE Op[s][p].call <= made + 1
      BY <1>1, <1>6, <2>3
    <2>4. Depth
      BY DEF IInv, Order
    <2>5. /\ ~eval.tbo => Pending[1] = {}
          /\ \A s \in Lanes : \A p \in Works(s) :
               /\ Op[s][p].eval <= eval.n
               /\ Op[s][p].eval = eval.n => s = curr
               /\ eval.tbo => IF s = curr THEN Op[s][p].eval = eval.n
                              ELSE Op[s][p].eval = eval.n - 1 /\ Op[s][p].call < td.prev_count
          /\ \A s \in Lanes : \A p, q \in Works(s) : p < q => Op[s][p].eval <= Op[s][q].eval
      BY <2>4 DEF Depth
    <2>6. QED
      BY <1>2, <1>3, <1>4, <1>5, <2>1, <2>2, <2>3, <2>5 DEF Depth
  <1>8. Ordered'
    BY <1>4, <1>5 DEF IInv, Order, Ordered
  <1>9. Fence'
    BY <1>2 DEF Fence, InCall
  <1>10. Recording'
    <2>1. SUFFICES ASSUME eval.tbo
                   PROVE  /\ \A s \in Lanes : \A p \in Works(s) :
                               \A j \in 0 .. (IF s = curr THEN made + 1 ELSE td.prev_count) - 1 :
                                 Op[s][p].call <= j => After(Cuts, ev'[s][Lowest(j, Ring - 1)], Point(s, p))
                          /\ td.last_idx[(1 - td.slot) + 1] = Lowest(td.prev_count, Ring) - 1
      BY <1>2, <1>3, <1>4, <1>5 DEF Recording
    <2>2. /\ td.active /\ td.call_idx = made /\ curr = td.slot
      BY <1>1, <2>1 DEF HostOK
    <2>3. PICK k \in 0 .. Ring - 1 : k = Lowest(made, Ring - 1)
      BY <1>1, TwoBatchAssumption DEF Lowest
    <2>4. ev' = [ev EXCEPT ![curr][k] = Recorded(curr, queue)]
      BY <1>3, <2>2, <2>3
    <2>5. /\ ev'[curr][k] = Point(curr, Total[curr])
          /\ \A i \in 0 .. Ring - 1 : i # k => ev'[curr][i] = ev[curr][i]
          /\ \A s \in Lanes : s # curr => ev'[s] = ev[s]
      <3>1. ev[curr] \in [0 .. Ring - 1 -> Events]
        BY <1>1
      <3>2. ev'[curr] = [ev[curr] EXCEPT ![k] = Recorded(curr, queue)]
        BY <1>1, <2>4
      <3>3. \A s \in Lanes : s # curr => ev'[s] = ev[s]
        BY <1>1, <2>4
      <3>4. QED
        BY <1>1, <3>1, <3>2, <3>3, RecordedFact
    <2>6. /\ \A s \in Lanes : \A p \in Works(s) :
               \A j \in 0 .. (IF s = curr THEN made ELSE td.prev_count) - 1 :
                 Op[s][p].call <= j => After(Cuts, ev[s][Lowest(j, Ring - 1)], Point(s, p))
          /\ td.last_idx[(1 - td.slot) + 1] = Lowest(td.prev_count, Ring) - 1
      BY <2>1 DEF IInv, Order, Recording
    <2>7. ASSUME NEW s \in Lanes, NEW p \in Works(s),
                 NEW j \in 0 .. (IF s = curr THEN made + 1 ELSE td.prev_count) - 1, Op[s][p].call <= j
          PROVE  After(Cuts, ev'[s][Lowest(j, Ring - 1)], Point(s, p))
      <3>1. CASE s # curr
        BY <2>5, <2>6, <2>7, <3>1
      <3>2. CASE s = curr
        <4>1. j \in Nat /\ j <= made
          BY <1>1, <2>7, <3>2
        <4>2. PICK i \in 0 .. Ring - 1 : i = Lowest(j, Ring - 1)
          BY <4>1, TwoBatchAssumption DEF Lowest
        <4>3. CASE i = k
          <5>1. p \in Nat /\ p <= Total[s] /\ Total[s] \in Nat /\ s \in AllStreams
            BY <1>1, <3>2, WorkFact, PendingFact
          <5>2. PICK g \in Events, h \in Events : g = Point(s, Total[s]) /\ h = Point(s, p)
            BY <5>1, PointFact
          <5>3. g.on = h.on /\ g.at >= h.at
            BY <5>1, <5>2, PointFact
          <5>4. After(Cuts, g, h)
            BY <5>3, AfterFifo, CutsFact
          <5>5. QED
            BY <2>5, <3>2, <4>2, <4>3, <5>2, <5>4
        <4>4. CASE i # k
          <5>1. j < made
            BY <1>1, <2>3, <4>1, <4>2, <4>4
          <5>2. After(Cuts, ev[s][i], Point(s, p))
            BY <1>1, <2>6, <2>7, <3>2, <4>1, <4>2, <5>1
          <5>3. QED
            BY <2>5, <3>2, <4>2, <4>4, <5>2
        <4>5. QED
          BY <4>3, <4>4
      <3>3. QED
        BY <3>1, <3>2
    <2>8. QED
      BY <2>6, <2>7
  <1>11. QED
    BY <1>7, <1>8, <1>9, <1>10 DEF Order

\* record keeps the invariant.
LEMMA RecordFact == IInv /\ record => IInv'
  <1> SUFFICES ASSUME IInv, record PROVE IInv'
    OBVIOUS
  <1>1. /\ eval' = eval /\ made' = made + 1 /\ ahead' = ahead /\ curr' = curr /\ m' = m
        /\ slot_entry' = slot_entry /\ ev_ready' = ev_ready /\ ev_done' = ev_done
        /\ content' = content /\ sorted' = sorted /\ bad' = bad /\ mcache' = mcache /\ pin' = pin
        /\ host' = "call" /\ host = "record" /\ queue' = queue /\ ran' = ran
    BY DEF record, prefetchVars, memVars
  <1>2. /\ TypeOK /\ StreamsOK /\ HostOK /\ made \in Nat /\ td.call_idx \in Nat /\ td.slot \in Lanes /\ curr \in Lanes
        /\ ev \in [Lanes -> [0 .. Ring - 1 -> Events]]
        /\ td \in [active : BOOLEAN, prev_was_tbo : BOOLEAN, slot : Lanes, call_idx : Nat,
                   prev_count : Nat, last_idx : Int \X Int]
    BY DEF IInv, TypeOK
  <1>3. Gives /\ Total' = Total /\ Pending' = Pending
    BY <1>1, <1>2, GivesNone, SameFact
  <1>4. /\ td' = IF td.active THEN [td EXCEPT !.call_idx = td.call_idx + 1] ELSE td
        /\ td.active => ev' = [ev EXCEPT ![td.slot][Lowest(td.call_idx, Ring - 1)] = Point(curr, Total[curr])]
        /\ ~td.active => ev' = ev
    BY <1>2, RecordedFact, LanesFact DEF record
  <1>5. Point(curr, Total[curr]) \in Events /\ Exists(Point(curr, Total[curr]))
    BY <1>2, RecordedFact, LanesFact DEF Exists
  <1>6. \A s \in Lanes : \A i \in 0 .. Ring - 1 : ev'[s][i] = ev[s][i] \/ ev'[s][i] = Point(curr, Total[curr])
    <2>1. CASE td.active
      <3>1. PICK k : k = Lowest(td.call_idx, Ring - 1)
        OBVIOUS
      <3>2. ev' = [ev EXCEPT ![td.slot][k] = Point(curr, Total[curr])]
        BY <1>4, <2>1, <3>1
      <3>3. QED
        BY <1>2, <3>2
    <2>2. CASE ~td.active
      BY <1>4, <2>2
    <2>3. QED
      BY <2>1, <2>2
  <1>7. TypeOK'
    <2>1. StreamsOK' /\ host' \in Points /\ made' \in Nat
      BY <1>1, <1>2, <1>3, GivesFact DEF Points
    <2>2. td' \in [active : BOOLEAN, prev_was_tbo : BOOLEAN, slot : Lanes, call_idx : Nat,
                   prev_count : Nat, last_idx : Int \X Int]
      BY <1>2, <1>4
    <2>3. ev' \in [Lanes -> [0 .. Ring - 1 -> Events]]
      <3>1. CASE td.active
        <4>1. PICK k, e, f : /\ k = Lowest(td.call_idx, Ring - 1) /\ e = Point(curr, Total[curr])
                             /\ f = [ev[td.slot] EXCEPT ![k] = e]
          OBVIOUS
        <4>2. f \in [0 .. Ring - 1 -> Events]
          BY <1>2, <1>5, <4>1
        <4>3. ev' = [ev EXCEPT ![td.slot] = f]
          BY <1>2, <1>4, <3>1, <4>1
        <4>4. QED
          BY <1>2, <4>2, <4>3
      <3>2. CASE ~td.active
        BY <1>2, <1>4, <3>2
      <3>3. QED
        BY <3>1, <3>2
    <2>4. QED
      BY <1>1, <2>1, <2>2, <2>3 DEF IInv, TypeOK
  <1>8. HostOK'
    <2>1. /\ td'.active = td.active /\ td'.prev_was_tbo = td.prev_was_tbo /\ td'.slot = td.slot
          /\ td.active => td'.call_idx = td.call_idx + 1
      BY <1>2, <1>4
    <2>2. QED
      BY <1>1, <1>2, <2>1 DEF HostOK, InCall
  <1>9. EventsExist'
    <2>1. WaitsExist'
      BY <1>3, GivesPlaced
    <2>2. ASSUME NEW s \in Lanes, NEW i \in 0 .. Ring - 1
          PROVE  ev'[s][i] \in Events /\ ev'[s][i].at <= Total'[ev'[s][i].on]
      <3>1. Exists(ev[s][i])
        BY DEF IInv, EventsExist
      <3>2. QED
        BY <1>3, <1>5, <1>6, <3>1 DEF Exists
    <2>3. \A x \in Slots : Exists(ev_ready[x]) /\ Exists(ev_done[x])
      BY DEF IInv, EventsExist
    <2>4. QED
      BY <1>1, <1>3, <2>1, <2>2, <2>3 DEF EventsExist, Exists
  <1>10. Placed' /\ Order'
    BY <1>3, GivesPlaced, RecordOrder
  <1>11. SlotsOK' /\ ReadsOwn' /\ WeightsAreOwn'
    <2>1. \A p \in Pending'[Copy] : p \in Pending[Copy]
      BY <1>3
    <2>2. \A s \in Lanes : \A p \in Reads(s)' : p \in Pending[s]
      BY <1>3 DEF Reads
    <2>3. QED
      BY <1>1, <1>3, <2>1, <2>2, GivesSlots
  <1>12. Acquired'
    BY <1>1 DEF Acquired
  <1>13. QED
    BY <1>7, <1>8, <1>9, <1>10, <1>11, <1>12 DEF IInv, Weights

\* A step within a call.
LEMMA WithinCall ==
  ASSUME IInv, Gives, eval' = eval, made' = made, td' = td, ev' = ev, curr' = curr, InCall, InCall'
  PROVE  Placed' /\ Order'
  BY FenceKept, GivesOrder, GivesPlaced

\* The host gives operations and records that slots are ready.
LEMMA EventsIssued ==
  ASSUME IInv, Gives, ev' = ev, ev_done' = ev_done,
         \A y \in Slots : ev_ready'[y] \in Events /\ ev_ready'[y].at <= Total'[ev_ready'[y].on]
  PROVE  EventsExist'
  <1>1. WaitsExist'
    BY GivesPlaced
  <1>2. \A s \in Lanes : \A i \in 0 .. Ring - 1 : ev[s][i] \in Events /\ ev[s][i].at <= Total'[ev[s][i].on]
    BY GivesExist DEF IInv, EventsExist
  <1>3. \A x \in Slots : ev_done[x] \in Events /\ ev_done[x].at <= Total'[ev_done[x].on]
    BY GivesExist DEF IInv, EventsExist
  <1>4. QED
    BY <1>1, <1>2, <1>3 DEF EventsExist, Exists

\* Nothing is given to the streams.
LEMMA StandStill ==
  ASSUME IInv, queue' = queue, ran' = ran
  PROVE  /\ Gives
         /\ \A p \in Pending'[Copy] : p \in Pending[Copy]
         /\ \A s \in Lanes : \A p \in Reads(s)' : p \in Pending[s]
  <1>1. StreamsOK
    BY DEF IInv, TypeOK
  <1>2. Gives /\ Pending' = Pending
    BY <1>1, GivesNone, SameFact
  <1>3. QED
    BY <1>2 DEF Reads

\* acquire keeps the invariant.
LEMMA AcquireFact == IInv /\ acquire => IInv'
  <1> SUFFICES ASSUME IInv, acquire PROVE IInv'
    OBVIOUS
  <1>1. /\ eval' = eval /\ made' = made /\ ahead' = ahead /\ curr' = curr /\ m' = m /\ td' = td /\ ev' = ev
        /\ content' = content /\ sorted' = sorted /\ bad' = bad /\ mcache' = mcache /\ pin' = pin
        /\ host = "product" /\ ran' = ran
    BY DEF acquire, tboVars, memVars
  <1>2. InCall
    BY <1>1 DEF InCall
  <1>3. CASE eval.big /\ issue(Entry) /\ host' = "ready"
    <2>1. PICK e \in Nat : e = Entry
      BY EntryFact DEF IInv
    <2>2. /\ Gives /\ SlotsOK' /\ ReadsOwn' /\ WeightsAreOwn'
          /\ slot_entry' \in [Slots -> Int] /\ ev_ready' \in [Slots -> Events] /\ ev_done' = ev_done
          /\ \A y \in Slots : ev_ready'[y] \in Events /\ ev_ready'[y].at <= Total'[ev_ready'[y].on]
          /\ slot_entry'[e % NSlots] = e
      BY <1>1, <1>3, <2>1, IssueFact
    <2>3. TypeOK'
      <3>1. StreamsOK' /\ host' \in Points
        BY <1>3, <2>2, GivesFact DEF Points
      <3>2. QED
        BY <1>1, <2>2, <3>1, TypeKept DEF IInv
    <2>4. HostOK'
      BY <1>1, <1>2, <1>3 DEF IInv, HostOK, InCall
    <2>5. EventsExist'
      BY <1>1, <2>2, EventsIssued
    <2>6. Placed' /\ Order'
      <3>1. InCall'
        BY <1>3 DEF InCall
      <3>2. QED
        BY <1>1, <1>2, <2>2, <3>1, WithinCall
    <2>7. Acquired'
      <3>1. Slot' = e % NSlots /\ Entry' = e
        BY <1>1, <2>1 DEF Slot, Entry
      <3>2. QED
        BY <1>3, <2>2, <3>1 DEF Acquired
    <2>8. QED
      BY <2>2, <2>3, <2>4, <2>5, <2>6, <2>7 DEF IInv, Weights
  <1>4. CASE ~eval.big /\ UNCHANGED <<queue, prefetchVars>> /\ host' = "multiply"
    <2>1. queue' = queue /\ slot_entry' = slot_entry /\ ev_ready' = ev_ready /\ ev_done' = ev_done
      BY <1>4 DEF prefetchVars
    <2>2. /\ Gives
          /\ \A p \in Pending'[Copy] : p \in Pending[Copy]
          /\ \A s \in Lanes : \A p \in Reads(s)' : p \in Pending[s]
      BY <1>1, <2>1, StandStill
    <2>3. TypeOK'
      <3>1. StreamsOK' /\ host' \in Points
        BY <1>4, <2>2, GivesFact DEF Points
      <3>2. QED
        BY <1>1, <1>4, <2>1, <3>1, TypeKept DEF IInv
    <2>4. HostOK'
      BY <1>1, <1>2, <1>4 DEF IInv, HostOK, InCall
    <2>5. EventsExist'
      BY <1>1, <2>1, <2>2, EventsKept
    <2>6. Placed' /\ Order'
      <3>1. InCall'
        BY <1>4 DEF InCall
      <3>2. QED
        BY <1>1, <1>2, <2>2, <3>1, WithinCall
    <2>7. SlotsOK' /\ ReadsOwn' /\ WeightsAreOwn'
      BY <1>1, <2>1, <2>2, GivesSlots
    <2>8. Acquired'
      BY <1>1, <1>4 DEF Acquired
    <2>9. QED
      BY <2>3, <2>4, <2>5, <2>6, <2>7, <2>8 DEF IInv, Weights
  <1>5. QED
    BY <1>3, <1>4 DEF acquire

\* wait_ready keeps the invariant.
LEMMA WaitReadyFact == IInv /\ wait_ready => IInv'
  <1> SUFFICES ASSUME IInv, wait_ready PROVE IInv'
    OBVIOUS
  <1>1. /\ eval' = eval /\ made' = made /\ ahead' = ahead /\ curr' = curr /\ m' = m /\ td' = td /\ ev' = ev
        /\ slot_entry' = slot_entry /\ ev_ready' = ev_ready /\ ev_done' = ev_done
        /\ content' = content /\ sorted' = sorted /\ bad' = bad /\ mcache' = mcache /\ pin' = pin
        /\ host = "ready" /\ host' = "multiply" /\ ran' = ran /\ queue' = Wait(queue, curr, ev_ready[Slot])
    BY DEF wait_ready, tboVars, memVars, prefetchVars
  <1>2. InCall /\ InCall'
    BY <1>1 DEF InCall
  <1>3. PICK x \in Slots : x = Slot
    BY EntryFact DEF IInv
  <1>4. /\ StreamsOK /\ curr \in Lanes /\ curr \in AllStreams /\ ev_ready[x] \in Events /\ Exists(ev_ready[x])
        /\ Total[curr] \in Nat
    <2>1. StreamsOK /\ curr \in Lanes /\ ev_ready[x] \in Events /\ Exists(ev_ready[x])
      BY DEF IInv, TypeOK, EventsExist
    <2>2. QED
      BY <2>1, PendingFact, LanesFact
  <1>5. PICK w : w = [do |-> "wait", event |-> ev_ready[x]]
    OBVIOUS
  <1>6. w \in Operations /\ May(curr, w) /\ w.do = "wait" /\ w.event = ev_ready[x]
    BY <1>4, <1>5, LanesFact DEF Operations, May
  <1>7. queue' = Push(queue, curr, w)
    BY <1>1, <1>3, <1>5 DEF Wait
  <1>8. Gives
    BY <1>1, <1>4, <1>6, <1>7, GivesOne
  <1>9. /\ \A t \in AllStreams : t # curr => Pending'[t] = Pending[t]
        /\ Total'[curr] = Total[curr] + 1
        /\ \A p \in Pending'[curr] : p \in Pending[curr] \/ p = Total[curr] + 1
        /\ Total[curr] + 1 \in Pending'[curr] /\ Op'[curr][Total[curr] + 1] = w
    BY <1>1, <1>4, <1>6, <1>7, PushOne
  <1>10. TypeOK'
    <2>1. StreamsOK' /\ host' \in Points
      BY <1>1, <1>8, GivesFact DEF Points
    <2>2. QED
      BY <1>1, <2>1 DEF IInv, TypeOK
  <1>11. HostOK'
    BY <1>1, <1>2 DEF IInv, HostOK, InCall
  <1>12. EventsExist' /\ Placed' /\ Order'
    BY <1>1, <1>2, <1>8, EventsKept, WithinCall
  <1>13. SlotsOK' /\ ReadsOwn' /\ WeightsAreOwn'
    <2>1. \A p \in Pending'[Copy] : p \in Pending[Copy]
      BY <1>4, <1>9, LanesFact
    <2>2. \A t \in Lanes : \A p \in Reads(t)' : p \in Pending[t]
      BY <1>6, <1>9, LanesFact DEF Reads
    <2>3. QED
      BY <1>1, <1>8, <2>1, <2>2, GivesSlots
  <1>14. Acquired'
    <2>1. Slot' = x /\ Entry' = Entry
      BY <1>1, <1>3 DEF Slot, Entry
    <2>2. eval.big => slot_entry[x] = Entry
      BY <1>1, <1>3 DEF IInv, Weights, Acquired
    <2>3. After(Cuts', Point(curr, Total'[curr]), ev_ready[x])
      BY <1>4, <1>6, <1>9, AfterNewWait
    <2>4. QED
      BY <1>1, <2>1, <2>2, <2>3 DEF Acquired
  <1>15. QED
    BY <1>10, <1>11, <1>12, <1>13, <1>14 DEF IInv, Weights

\* end_eval keeps the invariant.
LEMMA EndFact == IInv /\ end_eval => IInv'
  <1> SUFFICES ASSUME IInv, end_eval PROVE IInv'
    OBVIOUS
  <1>1. /\ eval' = eval /\ made' = made /\ ahead' = ahead /\ curr' = curr /\ m' = m /\ td' = td /\ ev' = ev
        /\ slot_entry' = slot_entry /\ ev_ready' = ev_ready /\ ev_done' = ev_done
        /\ content' = content /\ sorted' = sorted /\ bad' = bad /\ mcache' = mcache /\ pin' = pin
        /\ host = "call" /\ host' = "between" /\ ran' = ran /\ queue' = queue
        /\ made = eval.calls /\ Bounded
    BY DEF end_eval, tboVars, memVars, prefetchVars
  <1>2. /\ Gives
        /\ \A p \in Pending'[Copy] : p \in Pending[Copy]
        /\ \A s \in Lanes : \A p \in Reads(s)' : p \in Pending[s]
    BY <1>1, StandStill
  <1>3. Total' = Total /\ Pending' = Pending /\ Op' = Op /\ Cuts' = Cuts
    BY <1>1, SameFact
  <1>4. TypeOK'
    <2>1. StreamsOK' /\ host' \in Points
      BY <1>1, <1>2, GivesFact DEF Points
    <2>2. QED
      BY <1>1, <2>1, TypeKept DEF IInv
  <1>5. ~InCall /\ ~InCall'
    BY <1>1 DEF InCall
  <1>6. HostOK'
    BY <1>1, <1>5 DEF IInv, HostOK
  <1>7. EventsExist' /\ Placed'
    BY <1>1, <1>2, EventsKept, GivesPlaced
  \* The last event of the eval before has been reached, so all of it has run.
  <1>8. ASSUME eval.tbo, NEW s \in Lanes, s # curr PROVE Works(s) = {}
    <2>1. SUFFICES ASSUME NEW p \in Works(s) PROVE FALSE
      OBVIOUS
    <2>2. /\ TypeOK /\ StreamsOK /\ td.slot \in Lanes /\ td.prev_count \in Nat /\ td.active /\ curr = td.slot
          /\ s = 1 - td.slot
      BY <1>8, SMTT(60) DEF IInv, TypeOK, HostOK, Lanes
    <2>3. /\ Op[s][p].call \in Nat /\ Op[s][p].call < td.prev_count /\ p \in Pending[s] /\ s \in AllStreams
      BY <1>8, <2>2, WorkFact, LanesFact DEF IInv, Order, Depth
    <2>4. PICK j \in 0 .. td.prev_count - 1 : j = td.prev_count - 1 /\ Op[s][p].call <= j
      BY <2>2, <2>3
    <2>5. PICK last : last = td.last_idx[s + 1]
      OBVIOUS
    <2>6. last = Lowest(td.prev_count, Ring) - 1
      BY <1>8, <2>2, <2>5 DEF IInv, Order, Recording
    <2>7. last = Lowest(j, Ring - 1) /\ last >= 0
      BY <2>2, <2>4, <2>6, TwoBatchAssumption DEF Lowest
    <2>8. Reached(ev[s][last])
      BY <1>1, <2>2, <2>5, <2>7 DEF Bounded
    <2>9. After(Cuts, ev[s][last], Point(s, p))
      BY <1>8, <2>4, <2>7 DEF IInv, Order, Recording
    <2>10. QED
      BY <2>2, <2>3, <2>8, <2>9, AfterReached, NotReached
  <1>9. Order'
    <2>1. ASSUME NEW s \in Lanes PROVE Works(s)' = Works(s)
      BY <1>3 DEF Works
    <2>2. Depth'
      <3>1. Depth
        BY DEF IInv, Order
      <3>2. QED
        BY <1>1, <1>3, <1>5, <1>8, <2>1, <3>1 DEF Depth
    <2>3. Ordered'
      BY <1>3, <2>1 DEF IInv, Order, Ordered
    <2>4. Recording'
      BY <1>1, <1>3, <2>1 DEF IInv, Order, Recording
    <2>5. Fence'
      BY <1>5 DEF Fence
    <2>6. QED
      BY <2>2, <2>3, <2>4, <2>5 DEF Order
  <1>10. SlotsOK' /\ ReadsOwn' /\ WeightsAreOwn'
    BY <1>1, <1>2, GivesSlots
  <1>11. Acquired'
    BY <1>1 DEF Acquired
  <1>12. QED
    BY <1>4, <1>6, <1>7, <1>9, <1>10, <1>11 DEF IInv, Weights

Upload == [do |-> "upload", sort |-> SortSlot]

\* The product given is the last operation of the current lane and alone reads a slot.
LEMMA MultiplyGives ==
  ASSUME IInv, host \in {"multiply", "drain"}, ran' = ran,
         NEW q \in {queue, Push(queue, curr, Upload)}, queue' = Push(q, curr, Product)
  PROVE  /\ Gives
         /\ \A p \in Pending'[Copy] : p \in Pending[Copy]
         /\ Total'[curr] \in Nat /\ Total'[curr] > Total[curr]
         /\ Total'[curr] \in Pending'[curr] /\ Op'[curr][Total'[curr]] = Product
         /\ \A s \in Lanes : \A p \in Reads(s)' : p \in Pending[s] \/ (s = curr /\ p = Total'[curr])
         /\ Recorded(curr, queue') = Point(curr, Total'[curr])
  <1>1. /\ TypeOK /\ StreamsOK /\ curr \in Lanes /\ curr \in AllStreams /\ Total[curr] \in Nat
        /\ eval.n \in Nat /\ made \in Nat /\ m \in Nat /\ m < Products /\ Products \in Nat
    <2>1. TypeOK /\ HostOK /\ InCall /\ host # "record"
      BY DEF IInv, InCall
    <2>2. QED
      BY <2>1, PendingFact, LanesFact, TwoBatchAssumption DEF TypeOK, HostOK
  <1>2. PICK o : o = Product
    OBVIOUS
  <1>3. Entry \in Nat /\ Slot \in Slots /\ Entry = made * Products + m
    BY <1>1, EntryFact DEF Entry
  <1>4. o \in Operations
    BY <1>1, <1>2, <1>3 DEF Operations, Product, SortSlot, Lanes
  <1>5. May(curr, o)
    <2>1. made * Products \in Nat
      BY <1>1
    <2>2. made * Products <= Entry /\ Entry < made * Products + Products
      BY <1>1, <1>3, <2>1
    <2>3. QED
      BY <1>1, <1>2, <2>2, LanesFact DEF May, Product, SortSlot
  <1>6. PICK u : u = Upload
    OBVIOUS
  <1>7. u \in Operations /\ May(curr, u) /\ u.do = "upload"
    BY <1>1, <1>6, LanesFact DEF Operations, May, Upload, SortSlot, Lanes
  <1>8. PICK n : n = Total'[curr]
    OBVIOUS
  <1>9. /\ Gives
        /\ \A t \in AllStreams : t # curr => Pending'[t] = Pending[t]
        /\ n \in Nat /\ n > Total[curr] /\ n \in Pending'[curr] /\ Op'[curr][n] = o
        /\ \A p \in Pending'[curr] : p \in Pending[curr] \/ p = n \/ Op'[curr][p].do = "upload"
    <2>1. CASE q = queue
      <3>1. queue' = Push(queue, curr, o)
        BY <1>2, <2>1
      <3>2. Gives
        BY <1>1, <1>4, <1>5, <3>1, GivesOne
      <3>3. /\ \A t \in AllStreams : t # curr => Pending'[t] = Pending[t]
            /\ Total'[curr] = Total[curr] + 1
            /\ \A p \in Pending'[curr] : p \in Pending[curr] \/ p = Total[curr] + 1
            /\ Total[curr] + 1 \in Pending'[curr] /\ Op'[curr][Total[curr] + 1] = o
        BY <1>1, <1>4, <3>1, PushOne
      <3>4. n = Total[curr] + 1
        BY <1>8, <3>3
      <3>5. QED
        BY <1>1, <3>2, <3>3, <3>4
    <2>2. CASE q = Push(queue, curr, Upload)
      <3>1. queue' = Push(Push(queue, curr, u), curr, o)
        BY <1>2, <1>6, <2>2
      <3>2. Gives
        BY <1>1, <1>4, <1>5, <1>7, <3>1, GivesTwo
      <3>3. /\ \A t \in AllStreams : t # curr => Pending'[t] = Pending[t]
            /\ Total'[curr] = Total[curr] + 2
            /\ \A p \in Pending'[curr] : p \in Pending[curr] \/ p = Total[curr] + 1 \/ p = Total[curr] + 2
            /\ Op'[curr][Total[curr] + 1] = u
            /\ Total[curr] + 2 \in Pending'[curr] /\ Op'[curr][Total[curr] + 2] = o
        BY <1>1, <1>4, <1>7, <3>1, PushTwo
      <3>4. n = Total[curr] + 2
        BY <1>8, <3>3
      <3>5. QED
        BY <1>1, <1>7, <3>2, <3>3, <3>4
    <2>3. QED
      BY <2>1, <2>2
  <1>10. ASSUME NEW s \in Lanes, NEW p \in Reads(s)' PROVE p \in Pending[s] \/ (s = curr /\ p = n)
    <2>1. p \in Pending'[s] /\ Op'[s][p].do = "product"
      BY DEF Reads
    <2>2. QED
      BY <1>9, <2>1, LanesFact
  <1>11. Recorded(curr, queue') = Point(curr, n)
    <2>1. Total'[curr] = ran[curr] + Len(queue'[curr])
      BY <1>1 DEF Total
    <2>2. QED
      BY <1>8, <2>1 DEF Recorded, Point
  <1>12. QED
    BY <1>1, <1>2, <1>8, <1>9, <1>10, <1>11, LanesFact

\* A product, of its own or after a sort, keeps every part of the invariant.
LEMMA MultiplyFact ==
  ASSUME IInv, host \in {"multiply", "drain"}, ran' = ran,
         NEW q \in {queue, Push(queue, curr, Upload)}, Multiply(q),
         eval' = eval, made' = made, td' = td, ev' = ev, curr' = curr, content' = content, bad' = bad
  PROVE  /\ host' \in Points /\ m' \in Nat /\ (ahead' = ahead \/ ahead' = 1)
         /\ slot_entry' = slot_entry /\ ev_ready' = ev_ready /\ ev_done' \in [Slots -> Events]
         /\ StreamsOK' /\ HostOK' /\ EventsExist' /\ Placed' /\ Order' /\ Weights'
  <1>1. /\ TypeOK /\ StreamsOK /\ HostOK /\ curr \in Lanes /\ curr \in AllStreams
        /\ ev_done \in [Slots -> Events] /\ m \in Nat /\ InCall /\ made < Layers
    BY LanesFact DEF IInv, TypeOK, HostOK, InCall
  <1>2. queue' = Push(q, curr, Product) /\ slot_entry' = slot_entry /\ ev_ready' = ev_ready
    BY DEF Multiply
  <1>3. /\ Gives /\ StreamsOK'
        /\ \A p \in Pending'[Copy] : p \in Pending[Copy]
    BY <1>2, MultiplyGives, GivesFact
  <1>4. PICK n \in Nat : n = Total'[curr]
    BY <1>2, MultiplyGives
  <1>5. /\ n > Total[curr] /\ n \in Pending'[curr] /\ Op'[curr][n] = Product
        /\ \A s \in Lanes : \A p \in Reads(s)' : p \in Pending[s] \/ (s = curr /\ p = n)
        /\ Recorded(curr, queue') = Point(curr, n)
    BY <1>2, <1>4, MultiplyGives
  <1>6. CASE eval.big
    <2>1. host' = "ahead" /\ ahead' = 1 /\ m' = m
      BY <1>6 DEF Multiply
    <2>2. PICK x \in Slots : x = Slot
      BY <1>1, EntryFact
    <2>3. ev_done' = [ev_done EXCEPT ![x] = Point(curr, n)]
      BY <1>5, <1>6, <2>2 DEF Multiply
    <2>4. SlotsOK' /\ ReadsOwn' /\ WeightsAreOwn'
      BY <1>2, <1>3, <1>4, <1>5, <1>6, <2>2, <2>3, ReadNew
    <2>5. Point(curr, n) \in Events /\ Point(curr, n).at <= Total'[Point(curr, n).on]
      BY <1>1, <1>4, PointFact
    <2>6. ev_done' \in [Slots -> Events]
      BY <1>1, <2>3, <2>5
    <2>7. EventsExist'
      <3>1. WaitsExist'
        BY <1>3, GivesPlaced
      <3>2. \A s \in Lanes : \A i \in 0 .. Ring - 1 : ev[s][i] \in Events /\ ev[s][i].at <= Total'[ev[s][i].on]
        BY <1>3, GivesExist DEF IInv, EventsExist
      <3>3. \A y \in Slots : /\ ev_ready[y] \in Events /\ ev_ready[y].at <= Total'[ev_ready[y].on]
                             /\ ev_done[y] \in Events /\ ev_done[y].at <= Total'[ev_done[y].on]
        BY <1>3, GivesExist DEF IInv, EventsExist
      <3>4. \A y \in Slots : ev_done'[y] = ev_done[y] \/ ev_done'[y] = Point(curr, n)
        BY <1>1, <2>3
      <3>5. QED
        BY <1>2, <2>5, <3>1, <3>2, <3>3, <3>4 DEF EventsExist, Exists
    <2>8. InCall' /\ host' # "record"
      BY <2>1 DEF InCall
    <2>9. Placed' /\ Order'
      BY <1>1, <1>3, <2>8, WithinCall
    <2>10. HostOK'
      BY <1>1, <1>6, <2>1, <2>8 DEF HostOK, InCall
    <2>11. Acquired'
      BY <2>1 DEF Acquired
    <2>12. QED
      BY <1>2, <1>3, <1>1, <2>1, <2>4, <2>6, <2>7, <2>9, <2>10, <2>11 DEF Weights, Points
  <1>7. CASE ~eval.big
    <2>1. /\ m' = m + 1 /\ host' = (IF m' < Products THEN "product" ELSE "record")
          /\ ahead' = ahead /\ ev_done' = ev_done
      BY <1>7 DEF Multiply, Advance
    <2>2. \A s \in Lanes : \A p \in Reads(s)' : p \in Pending[s]
      <3>1. n \notin Reads(curr)'
        BY <1>5, <1>7 DEF Reads, Product
      <3>2. QED
        BY <1>5, <3>1
    <2>3. SlotsOK' /\ ReadsOwn' /\ WeightsAreOwn'
      BY <1>2, <1>3, <2>1, <2>2, GivesSlots
    <2>4. EventsExist'
      BY <1>2, <1>3, <2>1, EventsKept
    <2>5. InCall' /\ host' \in {"product", "record"} /\ (host' # "record" => m' < Products)
      BY <2>1 DEF InCall
    <2>6. Placed' /\ Order'
      BY <1>1, <1>3, <2>5, WithinCall
    <2>7. HostOK'
      BY <1>1, <2>1, <2>5 DEF HostOK, InCall
    <2>8. Acquired'
      BY <1>7 DEF Acquired
    <2>9. QED
      BY <1>1, <1>2, <1>3, <2>1, <2>3, <2>4, <2>5, <2>6, <2>7, <2>8 DEF Weights, Points
  <1>8. QED
    BY <1>6, <1>7

\* mul_mat_id keeps the invariant.
LEMMA MulFact == IInv /\ mul_mat_id => IInv'
  <1> SUFFICES ASSUME IInv, mul_mat_id PROVE IInv'
    OBVIOUS
  <1>1. /\ eval' = eval /\ made' = made /\ curr' = curr /\ td' = td /\ ev' = ev
        /\ content' = content /\ sorted' = sorted /\ bad' = bad /\ mcache' = mcache /\ pin' = pin
        /\ host = "multiply" /\ ran' = ran
    BY DEF mul_mat_id, tboVars, memVars
  <1>2. CASE Multiply(queue)
    <2>1. /\ host' \in Points /\ m' \in Nat /\ (ahead' = ahead \/ ahead' = 1)
          /\ slot_entry' = slot_entry /\ ev_ready' = ev_ready /\ ev_done' \in [Slots -> Events]
          /\ StreamsOK' /\ HostOK' /\ EventsExist' /\ Placed' /\ Order' /\ Weights'
      BY <1>1, <1>2, MultiplyFact
    <2>2. TypeOK'
      BY <1>1, <2>1, TypeKept DEF IInv
    <2>3. QED
      BY <2>1, <2>2 DEF IInv
  <1>3. CASE host' = "drain" /\ UNCHANGED <<m, ahead, queue, prefetchVars>>
    <2>1. /\ host' = "drain" /\ m' = m /\ ahead' = ahead /\ queue' = queue
          /\ slot_entry' = slot_entry /\ ev_ready' = ev_ready /\ ev_done' = ev_done
      BY <1>3 DEF prefetchVars
    <2>2. /\ Gives
          /\ \A p \in Pending'[Copy] : p \in Pending[Copy]
          /\ \A s \in Lanes : \A p \in Reads(s)' : p \in Pending[s]
      BY <1>1, <2>1, StandStill
    <2>3. Total' = Total /\ Cuts' = Cuts
      BY <1>1, <2>1, SameFact
    <2>4. TypeOK'
      <3>1. StreamsOK' /\ host' \in Points
        BY <2>1, <2>2, GivesFact DEF Points
      <3>2. QED
        BY <1>1, <2>1, <3>1, TypeKept DEF IInv
    <2>5. InCall /\ InCall'
      BY <1>1, <2>1 DEF InCall
    <2>6. HostOK'
      BY <1>1, <2>1, <2>5 DEF IInv, HostOK
    <2>7. EventsExist' /\ Placed' /\ Order'
      BY <1>1, <2>1, <2>2, <2>5, EventsKept, WithinCall
    <2>8. SlotsOK' /\ ReadsOwn' /\ WeightsAreOwn'
      BY <1>1, <2>1, <2>2, GivesSlots
    <2>9. Acquired'
      <3>1. Slot' = Slot /\ Entry' = Entry
        BY <1>1, <2>1 DEF Slot, Entry
      <3>2. QED
        BY <1>1, <2>1, <2>3, <3>1 DEF IInv, Weights, Acquired
    <2>10. QED
      BY <2>4, <2>6, <2>7, <2>8, <2>9 DEF IInv, Weights
  <1>4. QED
    BY <1>2, <1>3 DEF mul_mat_id

\* sort keeps the invariant.
LEMMA SortFact == IInv /\ sort => IInv'
  <1> SUFFICES ASSUME IInv, sort PROVE IInv'
    OBVIOUS
  <1>1. /\ eval' = eval /\ made' = made /\ curr' = curr /\ td' = td /\ ev' = ev
        /\ content' = content /\ sorted' = sorted /\ bad' = bad
        /\ host = "drain" /\ ran' = ran
    BY DEF sort, tboVars, memVars
  <1>2. PICK q : q = Push(queue, curr, Upload) /\ Multiply(q)
    BY DEF sort, Upload
  <1>3. /\ host' \in Points /\ m' \in Nat /\ (ahead' = ahead \/ ahead' = 1)
        /\ slot_entry' = slot_entry /\ ev_ready' = ev_ready /\ ev_done' \in [Slots -> Events]
        /\ StreamsOK' /\ HostOK' /\ EventsExist' /\ Placed' /\ Order' /\ Weights'
    BY <1>1, <1>2, MultiplyFact
  <1>4. TypeOK'
    <2>1. TypeOK
      BY DEF IInv
    <2>2. Sort \in Seq(Nat) /\ Wanted \in [ids : Int, big : BOOLEAN]
      BY <2>1 DEF TypeOK, Sort, Wanted
    <2>3. pin' \in [Lanes -> Seq(Nat)] /\ mcache' \in [Lanes -> [ids : Int, big : BOOLEAN]]
      <3>1. pin' = [pin EXCEPT ![SortSlot] = Sort] /\ mcache' = [mcache EXCEPT ![SortSlot] = Wanted]
        BY DEF sort
      <3>2. QED
        BY <2>1, <2>2, <3>1 DEF TypeOK
    <2>4. ahead' \in Nat
      BY <1>3, <2>1, SMTT(60) DEF TypeOK
    <2>5. QED
      BY <1>1, <1>3, <2>1, <2>3, <2>4 DEF TypeOK
  <1>5. QED
    BY <1>3, <1>4 DEF IInv

\* prefetch keeps the invariant.
LEMMA PrefetchFact == IInv /\ prefetch => IInv'
  <1> SUFFICES ASSUME IInv, prefetch PROVE IInv'
    OBVIOUS
  <1>1. /\ eval' = eval /\ made' = made /\ curr' = curr /\ td' = td /\ ev' = ev
        /\ content' = content /\ sorted' = sorted /\ bad' = bad /\ mcache' = mcache /\ pin' = pin
        /\ host = "ahead" /\ ran' = ran
    BY DEF prefetch, tboVars, memVars
  <1>2. /\ TypeOK /\ StreamsOK /\ HostOK /\ m \in Nat /\ ahead \in Nat /\ InCall /\ made < Layers /\ eval.big
    BY <1>1 DEF IInv, TypeOK, HostOK, InCall
  <1>3. CASE issue((Entry + ahead) % Entries) /\ ahead' = ahead + 1 /\ UNCHANGED <<host, m>>
    <2>1. host' = "ahead" /\ m' = m /\ ahead' = ahead + 1
      BY <1>1, <1>3
    <2>2. PICK e \in Nat : e = (Entry + ahead) % Entries
      <3>1. Entry + ahead \in Nat
        BY <1>2, EntryFact
      <3>2. Entries \in Nat /\ Entries > 0
        BY TwoBatchAssumption DEF Entries
      <3>3. QED
        BY <3>1, <3>2
    <2>3. /\ Gives /\ SlotsOK' /\ ReadsOwn' /\ WeightsAreOwn'
          /\ slot_entry' \in [Slots -> Int] /\ ev_ready' \in [Slots -> Events] /\ ev_done' = ev_done
          /\ \A y \in Slots : ev_ready'[y] \in Events /\ ev_ready'[y].at <= Total'[ev_ready'[y].on]
      BY <1>1, <1>3, <2>2, IssueFact
    <2>4. TypeOK'
      <3>1. StreamsOK' /\ host' \in Points
        BY <2>1, <2>3, GivesFact DEF Points
      <3>2. QED
        BY <1>1, <1>2, <2>1, <2>3, <3>1, TypeKept
    <2>5. HostOK'
      BY <1>1, <1>2, <2>1 DEF HostOK, InCall
    <2>6. EventsExist'
      BY <1>1, <2>3, EventsIssued
    <2>7. Placed' /\ Order'
      <3>1. InCall'
        BY <2>1 DEF InCall
      <3>2. QED
        BY <1>1, <1>2, <2>3, <3>1, WithinCall
    <2>8. Acquired'
      BY <2>1 DEF Acquired
    <2>9. QED
      BY <2>3, <2>4, <2>5, <2>6, <2>7, <2>8 DEF IInv, Weights
  <1>4. CASE Advance /\ UNCHANGED <<ahead, queue, prefetchVars>>
    <2>1. /\ m' = m + 1 /\ host' = (IF m' < Products THEN "product" ELSE "record")
          /\ ahead' = ahead /\ queue' = queue
          /\ slot_entry' = slot_entry /\ ev_ready' = ev_ready /\ ev_done' = ev_done
      BY <1>4 DEF prefetchVars, Advance
    <2>2. /\ Gives
          /\ \A p \in Pending'[Copy] : p \in Pending[Copy]
          /\ \A s \in Lanes : \A p \in Reads(s)' : p \in Pending[s]
      BY <1>1, <2>1, StandStill
    <2>3. TypeOK'
      <3>1. StreamsOK' /\ host' \in Points
        BY <2>1, <2>2, GivesFact DEF Points
      <3>2. QED
        BY <1>1, <1>2, <2>1, <3>1, TypeKept
    <2>4. InCall' /\ host' \in {"product", "record"} /\ (host' # "record" => m' < Products)
      BY <2>1 DEF InCall
    <2>5. HostOK'
      BY <1>1, <1>2, <2>1, <2>4 DEF HostOK, InCall
    <2>6. EventsExist' /\ Placed' /\ Order'
      BY <1>1, <1>2, <2>1, <2>2, <2>4, EventsKept, WithinCall
    <2>7. SlotsOK' /\ ReadsOwn' /\ WeightsAreOwn'
      BY <1>1, <2>1, <2>2, GivesSlots
    <2>8. Acquired'
      BY <2>4 DEF Acquired
    <2>9. QED
      BY <2>3, <2>5, <2>6, <2>7, <2>8 DEF IInv, Weights
  <1>5. QED
    BY <1>3, <1>4 DEF prefetch

\* What begin notes when an eval overlaps the one before.
LEMMA OverlappedFact ==
  ASSUME TypeOK
  PROVE  /\ Overlapped \in [active : BOOLEAN, prev_was_tbo : BOOLEAN, slot : Lanes, call_idx : Nat,
                            prev_count : Nat, last_idx : Int \X Int]
         /\ Overlapped.active = TRUE /\ Overlapped.prev_was_tbo = TRUE /\ Overlapped.call_idx = 0
         /\ Overlapped.prev_count = td.call_idx /\ Overlapped.slot = 1 - td.slot
         /\ Overlapped.last_idx[td.slot + 1] = Lowest(td.call_idx, Ring) - 1
  <1>1. /\ td \in [active : BOOLEAN, prev_was_tbo : BOOLEAN, slot : Lanes, call_idx : Nat,
                   prev_count : Nat, last_idx : Int \X Int]
        /\ td.slot \in Lanes /\ td.call_idx \in Nat
    BY DEF TypeOK
  <1>2. PICK k : k = Lowest(td.call_idx, Ring) - 1
    OBVIOUS
  <1>3. k \in Int
    BY <1>1, <1>2, TwoBatchAssumption DEF Lowest
  <1>4. PICK l : l = [td.last_idx EXCEPT ![td.slot + 1] = k]
    OBVIOUS
  <1>5. l \in Int \X Int /\ l[td.slot + 1] = k
    <2>1. PICK a \in Int, b \in Int : td.last_idx = <<a, b>>
      BY <1>1
    <2>2. CASE td.slot = 0
      <3>1. l = <<k, b>>
        BY <1>4, <2>1, <2>2
      <3>2. QED
        BY <1>3, <2>1, <2>2, <3>1
    <2>3. CASE td.slot = 1
      <3>1. l = <<a, k>>
        BY <1>4, <2>1, <2>3
      <3>2. QED
        BY <1>3, <2>1, <2>3, <3>1
    <2>4. QED
      BY <1>1, <2>2, <2>3 DEF Lanes
  <1>6. Overlapped = [td EXCEPT !.active = TRUE, !.prev_was_tbo = TRUE, !.call_idx = 0,
                                !.prev_count = td.call_idx, !.slot = 1 - td.slot, !.last_idx = l]
    BY <1>1, <1>2, <1>4 DEF Overlapped
  <1>7. 1 - td.slot \in Lanes
    BY <1>1 DEF Lanes
  <1>8. QED
    BY <1>1, <1>2, <1>5, <1>6, <1>7

\* What the streams have of the evals so far: all of it is of earlier evals now.
\* An eval with overlap takes the stream that the last one did not; the streams
\* are drained where overlap begins or ends.
LEMMA BeginOrder ==
  ASSUME IInv, begin
  PROVE  Order' /\ HostOK' /\ td' \in [active : BOOLEAN, prev_was_tbo : BOOLEAN, slot : Lanes,
                                       call_idx : Nat, prev_count : Nat, last_idx : Int \X Int]
         /\ curr' \in Lanes
  <1>1. /\ TypeOK /\ HostOK /\ curr \in Lanes /\ eval.n \in Nat /\ made \in Nat /\ td.slot \in Lanes
        /\ td.call_idx \in Nat /\ host = "between" /\ ~InCall
        /\ td \in [active : BOOLEAN, prev_was_tbo : BOOLEAN, slot : Lanes, call_idx : Nat,
                   prev_count : Nat, last_idx : Int \X Int]
    BY DEF begin, IInv, TypeOK, InCall
  <1>2. PICK tbo \in BOOLEAN, big \in BOOLEAN, calls \in Calls :
          /\ eval' = [n |-> eval.n + 1, calls |-> calls, tbo |-> tbo, big |-> big]
          /\ begin_eval(tbo)
    BY DEF begin
  <1>3. /\ eval'.n = eval.n + 1 /\ eval'.tbo = tbo /\ eval'.calls = calls /\ calls > 0
    BY <1>2, TwoBatchAssumption
  <1>4. /\ tbo # td.prev_was_tbo => Quiet
        /\ td' = IF ~tbo THEN Plain ELSE IF td.prev_was_tbo THEN Overlapped ELSE First
        /\ curr' = IF tbo THEN td'.slot ELSE 0
    BY <1>2 DEF begin_eval
  <1>5. /\ made' = 0 /\ host' = "call" /\ queue' = queue /\ ran' = ran /\ ev' = ev
    BY DEF begin
  <1>6. Total' = Total /\ Pending' = Pending /\ Op' = Op /\ Cuts' = Cuts
    BY <1>5, SameFact
  <1>7. ASSUME NEW s \in Lanes PROVE Works(s)' = Works(s)
    BY <1>6 DEF Works
  <1>8. ~InCall' /\ host' # "between"
    BY <1>5 DEF InCall
  <1>9. /\ ~eval.tbo => Pending[1] = {}
        /\ \A s \in Lanes : \A p \in Works(s) :
             /\ Op[s][p].eval \in Nat /\ Op[s][p].eval <= eval.n
             /\ Op[s][p].eval = eval.n => Op[s][p].call < made
             /\ eval.tbo => s = curr /\ Op[s][p].eval = eval.n
        /\ \A s \in Lanes : \A p, q \in Works(s) : p < q => Op[s][p].eval <= Op[s][q].eval
    BY <1>1, WorkFact DEF IInv, Order, Depth
  <1>10. ASSUME NEW s \in Lanes, NEW p \in Works(s)
         PROVE  /\ Op[s][p].eval <= eval.n + 1
                /\ Op[s][p].eval # eval.n + 1
                /\ Op[s][p].eval = (eval.n + 1) - 1 <=> Op[s][p].eval = eval.n
    BY <1>1, <1>9
  <1>11. Quiet => \A s \in Lanes : Pending[s] = {} /\ Works(s) = {}
    <2>1. SUFFICES ASSUME Quiet, NEW s \in Lanes PROVE Pending[s] = {} /\ Works(s) = {}
      OBVIOUS
    <2>2. queue[s] = <<>> /\ StreamsOK /\ s \in AllStreams
      <3>1. queue[0] = <<>> /\ queue[1] = <<>>
        BY <2>1 DEF Quiet, Idle
      <3>2. s = 0 \/ s = 1
        BY DEF Lanes
      <3>3. queue[s] = <<>>
        BY <3>1, <3>2
      <3>4. QED
        BY <1>1, <3>3, LanesFact DEF TypeOK
    <2>3. Len(queue[s]) = 0 /\ ran[s] \in Nat
      BY <2>2, PendingFact
    <2>4. Pending[s] = {}
      BY <2>2, <2>3, PendingFact
    <2>5. QED
      BY <2>4 DEF Works
  <1>12. Fence' /\ Ordered'
    <2>1. Fence'
      BY <1>8 DEF Fence
    <2>2. QED
      BY <1>6, <1>7, <2>1 DEF IInv, Order, Ordered
  <1>13. CASE ~tbo
    <2>1. td' = [td EXCEPT !.active = FALSE, !.prev_was_tbo = FALSE] /\ curr' = 0
      BY <1>4, <1>13 DEF Plain
    <2>2. Pending[1] = {}
      <3>1. CASE td.prev_was_tbo
        <4>1. Quiet
          BY <1>4, <1>13, <3>1
        <4>2. QED
          BY <1>11, <4>1 DEF Lanes
      <3>2. CASE ~td.prev_was_tbo
        BY <1>1, <1>9, <3>2 DEF HostOK
      <3>3. QED
        BY <3>1, <3>2
    <2>3. Depth'
      BY <1>3, <1>6, <1>7, <1>9, <1>10, <1>13, <2>2 DEF Depth
    <2>4. Recording'
      BY <1>3, <1>13 DEF Recording
    <2>5. /\ td' \in [active : BOOLEAN, prev_was_tbo : BOOLEAN, slot : Lanes, call_idx : Nat,
                      prev_count : Nat, last_idx : Int \X Int]
          /\ td'.active = FALSE /\ td'.prev_was_tbo = FALSE
      BY <1>1, <2>1
    <2>6. HostOK'
      BY <1>3, <1>5, <1>8, <1>13, <2>1, <2>5 DEF HostOK
    <2>7. QED
      BY <1>12, <2>1, <2>3, <2>4, <2>5, <2>6 DEF Order, Lanes
  <1>14. CASE tbo /\ td.prev_was_tbo
    <2>1. PICK d : d = Overlapped /\ td' = d
      BY <1>4, <1>14
    <2>2. /\ d \in [active : BOOLEAN, prev_was_tbo : BOOLEAN, slot : Lanes, call_idx : Nat,
                    prev_count : Nat, last_idx : Int \X Int]
          /\ d.active = TRUE /\ d.prev_was_tbo = TRUE /\ d.call_idx = 0
          /\ d.prev_count = td.call_idx /\ d.slot = 1 - td.slot
          /\ d.last_idx[td.slot + 1] = Lowest(td.call_idx, Ring) - 1
      BY <1>1, <2>1, OverlappedFact
    <2>3. /\ eval.tbo /\ curr = td.slot /\ td.call_idx = made /\ curr' = 1 - curr
          /\ d.prev_count = made /\ curr' \in Lanes /\ curr' # curr
      BY <1>1, <1>4, <1>14, <2>1, <2>2 DEF HostOK, Lanes
    <2>4. ASSUME NEW s \in Lanes PROVE s = curr <=> s # curr'
      BY <1>1, <2>3 DEF Lanes
    <2>5. Depth'
      <3>1. ASSUME NEW s \in Lanes, NEW p \in Works(s)
            PROVE  s # curr' /\ Op[s][p].eval = (eval.n + 1) - 1 /\ Op[s][p].call < d.prev_count
        BY <1>9, <1>10, <2>3, <2>4
      <3>2. QED
        BY <1>3, <1>5, <1>6, <1>7, <1>9, <1>10, <1>14, <2>1, <3>1 DEF Depth
    <2>6. Recording'
      <3>1. ASSUME NEW s \in Lanes, NEW p \in Works(s),
                   NEW j \in 0 .. (IF s = curr' THEN 0 ELSE d.prev_count) - 1, Op[s][p].call <= j
            PROVE  After(Cuts, ev[s][Lowest(j, Ring - 1)], Point(s, p))
        <4>1. s = curr
          BY <1>9, <2>3
        <4>2. j \in 0 .. made - 1
          BY <1>1, <2>3, <3>1, <4>1
        <4>3. QED
          BY <2>3, <3>1, <4>1, <4>2 DEF IInv, Order, Recording
      <3>2. d.last_idx[(1 - d.slot) + 1] = Lowest(d.prev_count, Ring) - 1
        <4>1. 1 - d.slot = td.slot
          BY <1>1, <2>2 DEF Lanes
        <4>2. QED
          BY <2>2, <4>1
      <3>3. QED
        BY <1>5, <1>6, <1>7, <2>1, <3>1, <3>2 DEF Recording
    <2>7. HostOK'
      BY <1>3, <1>4, <1>5, <1>8, <1>14, <2>1, <2>2 DEF HostOK
    <2>8. QED
      BY <1>12, <2>1, <2>2, <2>3, <2>5, <2>6, <2>7 DEF Order
  <1>15. CASE tbo /\ ~td.prev_was_tbo
    <2>1. PICK d, l : /\ d = [td EXCEPT !.active = TRUE, !.prev_was_tbo = TRUE, !.call_idx = 0,
                                        !.prev_count = 0, !.slot = 0, !.last_idx = l]
                      /\ td' = d /\ l = <<-1, -1>>
      BY <1>4, <1>15 DEF First
    <2>2. /\ d \in [active : BOOLEAN, prev_was_tbo : BOOLEAN, slot : Lanes, call_idx : Nat,
                    prev_count : Nat, last_idx : Int \X Int]
          /\ d.active = TRUE /\ d.prev_was_tbo = TRUE /\ d.call_idx = 0
          /\ d.prev_count = 0 /\ d.slot = 0 /\ d.last_idx = <<-1, -1>>
      <3>1. l \in Int \X Int /\ 0 \in Lanes
        BY <2>1 DEF Lanes
      <3>2. QED
        BY <1>1, <2>1, <3>1
    <2>3. \A s \in Lanes : Pending[s] = {} /\ Works(s) = {}
      BY <1>4, <1>11, <1>15
    <2>4. Depth'
      BY <1>3, <1>6, <1>7, <1>15, <2>3, LanesFact DEF Depth
    <2>5. Recording'
      <3>1. d.last_idx[(1 - d.slot) + 1] = Lowest(d.prev_count, Ring) - 1
        BY <2>2, TwoBatchAssumption DEF Lowest
      <3>2. QED
        BY <1>7, <2>1, <2>3, <3>1 DEF Recording
    <2>6. HostOK'
      BY <1>3, <1>4, <1>5, <1>8, <1>15, <2>1, <2>2 DEF HostOK
    <2>7. QED
      BY <1>4, <1>12, <1>15, <2>1, <2>2, <2>4, <2>5, <2>6 DEF Order
  <1>16. QED
    BY <1>13, <1>14, <1>15

\* begin keeps the invariant.
LEMMA BeginFact == IInv /\ begin => IInv'
  <1> SUFFICES ASSUME IInv, begin PROVE IInv'
    OBVIOUS
  <1>1. /\ made' = 0 /\ host' = "call" /\ queue' = queue /\ ran' = ran /\ ev' = ev /\ m' = m /\ ahead' = ahead
        /\ slot_entry' = slot_entry /\ ev_ready' = ev_ready /\ ev_done' = ev_done
        /\ content' = content /\ sorted' = sorted /\ bad' = bad /\ mcache' = mcache /\ pin' = pin
    BY DEF begin, prefetchVars, memVars
  <1>2. /\ Gives
        /\ \A p \in Pending'[Copy] : p \in Pending[Copy]
        /\ \A s \in Lanes : \A p \in Reads(s)' : p \in Pending[s]
    BY <1>1, StandStill
  <1>3. /\ Order' /\ HostOK' /\ curr' \in Lanes
        /\ td' \in [active : BOOLEAN, prev_was_tbo : BOOLEAN, slot : Lanes, call_idx : Nat,
                    prev_count : Nat, last_idx : Int \X Int]
    BY BeginOrder
  <1>4. TypeOK'
    <2>1. eval' \in [n : Nat, calls : Nat, tbo : BOOLEAN, big : BOOLEAN]
      <3>1. PICK tbo \in BOOLEAN, big \in BOOLEAN, calls \in Calls :
              eval' = [n |-> eval.n + 1, calls |-> calls, tbo |-> tbo, big |-> big]
        BY DEF begin
      <3>2. eval.n + 1 \in Nat /\ calls \in Nat
        BY TwoBatchAssumption, SMTT(60) DEF IInv, TypeOK
      <3>3. QED
        BY <3>1, <3>2
    <2>2. StreamsOK' /\ host' \in Points /\ made' \in Nat
      BY <1>1, <1>2, GivesFact DEF Points
    <2>3. QED
      BY <1>1, <1>3, <2>1, <2>2 DEF IInv, TypeOK
  <1>5. EventsExist' /\ Placed'
    BY <1>1, <1>2, EventsKept, GivesPlaced
  <1>6. SlotsOK' /\ ReadsOwn' /\ WeightsAreOwn'
    BY <1>1, <1>2, GivesSlots
  <1>7. Acquired'
    BY <1>1 DEF Acquired
  <1>8. QED
    BY <1>3, <1>4, <1>5, <1>6, <1>7 DEF IInv, Weights

\* So does a step that changes nothing, ...
LEMMA InvStutter == IInv /\ UNCHANGED vars => IInv'
  <1> SUFFICES ASSUME IInv, UNCHANGED vars PROVE IInv'
    OBVIOUS
  <1>1. /\ eval' = eval /\ host' = host /\ made' = made /\ m' = m /\ ahead' = ahead /\ td' = td /\ ev' = ev
        /\ curr' = curr /\ slot_entry' = slot_entry /\ ev_ready' = ev_ready /\ ev_done' = ev_done
        /\ content' = content /\ sorted' = sorted /\ bad' = bad /\ mcache' = mcache /\ pin' = pin
        /\ queue' = queue /\ ran' = ran
    BY DEF vars, tboVars, prefetchVars, memVars
  <1>2. Total' = Total /\ Pending' = Pending /\ Op' = Op /\ Cuts' = Cuts
    BY <1>1, SameFact
  <1>3. StreamsOK'
    BY <1>1 DEF IInv, TypeOK, StreamsOK
  <1>4. TypeOK'
    BY <1>1, <1>3 DEF IInv, TypeOK
  <1>5. HostOK'
    BY <1>1 DEF IInv, HostOK, InCall
  <1>6. EventsExist' /\ Placed'
    BY <1>1, <1>2 DEF IInv, EventsExist, WaitsExist, Exists, Placed
  <1>7. Order'
    BY <1>1, <1>2 DEF IInv, Order, Depth, Ordered, Recording, Fence, Works, InCall
  <1>8. Weights'
    BY <1>1, <1>2 DEF IInv, Weights, SlotsOK, ReadsOwn, Acquired, WeightsAreOwn, Carried, Reads, Fills, Slot, Entry
  <1>9. QED
    BY <1>4, <1>5, <1>6, <1>7, <1>8 DEF IInv

-----------------------------------------------------------------------------
(* The theorems.                                                           *)

\* ... and any step at all.
LEMMA NextFact == IInv /\ [Next]_vars => IInv'
  <1> SUFFICES ASSUME IInv, [Next]_vars PROVE IInv'
    OBVIOUS
  <1>1. CASE Host
    BY <1>1, BeginFact, ComputeFact, RecordFact, AcquireFact, WaitReadyFact, MulFact, SortFact,
       PrefetchFact, EndFact DEF Host
  <1>2. CASE \E s \in AllStreams : run(s)
    BY <1>2, RunFact
  <1>3. CASE UNCHANGED vars
    BY <1>3, InvStutter
  <1>4. QED
    BY <1>1, <1>2, <1>3 DEF Next

\* The invariant holds in every state.
LEMMA Invariance == Spec => []IInv
  <1>1. Init => IInv
    BY InitFact
  <1>2. IInv /\ [Next]_vars => IInv'
    BY NextFact
  <1>3. QED
    BY <1>1, <1>2, PTL DEF Spec

\* Every variable has its type: the thread's place and counters, the streams'
\* operations, the events and the slots.
THEOREM TypeCorrect == Spec => []TypeOK
  <1>1. IInv => TypeOK
    BY DEF IInv
  <1>2. QED
    BY <1>1, Invariance, PTL

\* What was given to a stream and not done is pending.
LEMMA GivenFact ==
  ASSUME StreamsOK, NEW s \in AllStreams, NEW o \in Given(s)
  PROVE  \E p \in Pending[s] : Op[s][p] = o
  <1>1. PICK i \in DOMAIN queue[s] : o = queue[s][i]
    BY DEF Given
  <1>2. queue[s] \in Seq(Operations)
    BY DEF StreamsOK
  <1>3. i \in 1 .. Len(queue[s])
    BY <1>1, <1>2
  <1>4. /\ Pending[s] = ran[s] + 1 .. Total[s] /\ Total[s] = ran[s] + Len(queue[s])
        /\ ran[s] \in Nat /\ Len(queue[s]) \in Nat
    BY PendingFact
  <1>5. ran[s] + i \in Pending[s] /\ (ran[s] + i) - ran[s] = i
    BY <1>3, <1>4
  <1>6. Op[s][ran[s] + i] = o
    BY <1>1, <1>5, PendingFact
  <1>7. QED
    BY <1>5, <1>6

\* What an earlier eval still has in the streams does not stand before the next
\* use of the state, but for later calls of the eval before on the other stream.
LEMMA OrderIsKept == IInv => StateInOrder
  <1> SUFFICES ASSUME IInv, NEW t \in {0, 1}, NextState(t),
                      NEW k \in Issued(Head(queue[t]).eval)
               PROVE  eval.tbo /\ k[2] > Head(queue[t]).call
    BY DEF StateInOrder
  <1>1. /\ TypeOK /\ StreamsOK /\ t \in Lanes /\ t \in AllStreams
        /\ queue[t] # <<>> /\ Head(queue[t]).do = "state"
    BY LanesFact DEF IInv, TypeOK, NextState, Idle, Lanes
  <1>2. /\ ran[t] + 1 \in Pending[t] /\ Op[t][ran[t] + 1] = Head(queue[t])
    <2>1. /\ queue[t] \in Seq(Operations) /\ ran[t] \in Nat /\ Len(queue[t]) \in Nat /\ Len(queue[t]) > 0
      BY <1>1 DEF StreamsOK
    <2>2. ran[t] + 1 \in Pending[t] /\ (ran[t] + 1) - ran[t] = 1
      BY <1>1, <2>1, PendingFact
    <2>3. Op[t][ran[t] + 1] = queue[t][1]
      BY <1>1, <2>2, PendingFact
    <2>4. QED
      BY <2>1, <2>2, <2>3
  <1>3. PICK h \in Works(t) : h = ran[t] + 1 /\ Op[t][h] = Head(queue[t]) /\ Op[t][h].do = "state"
    BY <1>1, <1>2 DEF Works
  <1>4. PICK o \in Given(0) \cup Given(1) :
          o.do = "state" /\ o.eval < Op[t][h].eval /\ k = <<o.eval, o.call>>
    BY <1>3 DEF Issued
  <1>5. PICK s \in Lanes : o \in Given(s)
    BY DEF Lanes
  <1>6. PICK p \in Works(s) : Op[s][p] = o
    <2>1. s \in AllStreams
      BY LanesFact
    <2>2. PICK p \in Pending[s] : Op[s][p] = o
      BY <1>1, <1>5, <2>1, GivenFact
    <2>3. QED
      BY <1>4, <2>2 DEF Works
  <1>7. /\ p \in Nat /\ h \in Nat /\ Op[s][p].eval \in Nat /\ Op[t][h].eval \in Nat /\ eval.n \in Nat
        /\ Op[s][p].call \in Nat /\ Op[t][h].call \in Nat /\ p \in Pending[s] /\ p > ran[s]
        /\ ran[t] \in Nat /\ ran[s] \in Nat /\ s \in AllStreams
    BY <1>1, WorkFact, LanesFact, PendingFact DEF TypeOK
  <1>8. s # t
    <2>1. SUFFICES ASSUME s = t PROVE FALSE
      OBVIOUS
    <2>2. p > h
      <3>1. p # h
        BY <1>4, <1>6, <1>7, <2>1
      <3>2. QED
        BY <1>3, <1>7, <2>1, <3>1
    <2>3. h < p
      BY <1>7, <2>2
    <2>4. Op[t][h].eval <= Op[s][p].eval
      BY <2>1, <2>3 DEF IInv, Order, Depth
    <2>5. QED
      BY <1>4, <1>6, <1>7, <2>4
  <1>9. ~After(Cuts, Point(t, h), Point(s, p))
    BY <1>1, <1>2, <1>3, <1>7, <1>8, HeadIsFirst
  <1>10. ~(Op[s][p].call <= Op[t][h].call)
    <2>1. Op[s][p].eval < Op[t][h].eval
      BY <1>4, <1>6
    <2>2. Ordered
      BY DEF IInv, Order
    <2>3. QED
      BY <1>1, <1>8, <1>9, <2>1, <2>2 DEF Ordered
  <1>11. eval.tbo
    <2>1. SUFFICES ASSUME ~eval.tbo PROVE FALSE
      OBVIOUS
    <2>2. Pending[1] = {}
      BY <2>1 DEF IInv, Order, Depth
    <2>3. s = 1 \/ t = 1
      BY <1>8 DEF Lanes
    <2>4. QED
      BY <1>2, <1>7, <2>2, <2>3
  <1>12. k[2] = Op[s][p].call
    BY <1>4, <1>6
  <1>13. QED
    BY <1>3, <1>7, <1>10, <1>11, <1>12

\* The persistent state is used in order: call i of an eval runs after every
\* call of an earlier eval with an index up to i, and a plain eval after all
\* (ggml-cuda.cu:4132-4136, :4201).
THEOREM StateInOrderHolds == Spec => []StateInOrder
  BY Invariance, OrderIsKept, PTL

\* Between evals at most the last one is still in flight (:4211-4217).
THEOREM DepthTwoHolds == Spec => []DepthTwo
  <1>1. IInv => DepthTwo
    <2> SUFFICES ASSUME IInv, host = "between", td.active, NEW k \in Issued(eval.n) PROVE FALSE
      BY DEF DepthTwo
    <2>1. TypeOK /\ StreamsOK /\ eval.tbo /\ eval.n \in Nat
      BY DEF IInv, TypeOK, HostOK
    <2>2. PICK o \in Given(0) \cup Given(1) : o.do = "state" /\ o.eval < eval.n
      BY DEF Issued
    <2>3. PICK s \in Lanes : o \in Given(s)
      BY DEF Lanes
    <2>4. PICK p \in Works(s) : Op[s][p] = o
      BY <2>1, <2>2, <2>3, GivenFact, LanesFact DEF Works
    <2>5. Op[s][p].eval = eval.n
      BY <2>1 DEF IInv, Order, Depth
    <2>6. QED
      BY <2>1, <2>2, <2>4, <2>5
  <1>2. QED
    BY <1>1, Invariance, PTL

\* Every product multiplies by the weights of its own entry, whatever was
\* prefetched, evicted or fetched again in between (:2927-2930).
THEOREM WeightsAreOwnHolds == Spec => []WeightsAreOwn
  <1>1. IInv => WeightsAreOwn
    BY DEF IInv, Weights
  <1>2. QED
    BY <1>1, Invariance, PTL

-----------------------------------------------------------------------------
(* The sorted routes.                                                      *)

\* What the comment at ggml-cuda.cu:3130-3132 relies on: other layers run between
\* two evals of a layer, so the model has several, and an eval is all of them.
SeveralLayers == Layers > 1 /\ 1 \notin Calls

\* At first no product is pending and no sort cached.
LEMMA SortInit ==
  ASSUME Init
  PROVE  SortInv
  <1>1. /\ pin = [s \in Lanes |-> <<>>] /\ sorted = [s \in Lanes |-> <<>>] /\ bad = {}
        /\ mcache = [s \in Lanes |-> NoSort] /\ eval = NoEval /\ host = "between" /\ made = 0 /\ curr = 0
    BY DEF Init, Lanes
  <1>2. \A s \in Lanes : Pending[s] = {}
    BY InitStreams, LanesFact
  <1>3. Sorts
    BY <1>1, <1>2 DEF Sorts
  <1>4. \A s \in Lanes : mcache[s].ids # 0
    BY <1>1 DEF NoSort
  <1>5. Fresh
    BY <1>1, <1>4 DEF Fresh, NoEval
  <1>6. QED
    BY <1>1, <1>3, <1>5 DEF SortInv, SortIsOwn

\* Pending products find their sort whatever the streams do, ...
LEMMA SortRun ==
  ASSUME IInv, SortInv, NEW t \in AllStreams, run(t)
  PROVE  SortInv'
  <1>1. Step(t) /\ StreamsOK
    BY DEF run, TypeOK, IInv
  <1>2. Fewer
    BY <1>1, RunFewer
  <1>3. UNCHANGED <<eval, host, made, m, curr, mcache, pin>>
    BY DEF run, tboVars
  <1>4. PICK h \in Pending[t] : h = ran[t] + 1
    BY <1>1, StepFact
  <1>5. /\ Pending'[t] = Pending[t] \ {h}
        /\ \A s \in AllStreams : s # t => Pending'[s] = Pending[s]
        /\ \A p \in Pending[t] : p \in Nat /\ p >= h
        /\ h \in Nat
    <2>1. /\ \A p \in Pending[t] : p \in Nat /\ p > ran[t]
          /\ ran[t] \in Nat /\ h \in Nat
      BY <1>1, PendingFact
    <2>2. \A p \in Pending[t] : p \in Nat /\ p >= h
      BY <1>4, <2>1
    <2>3. QED
      BY <1>1, <1>4, <2>1, <2>2, StepFact
  <1>6. PICK o \in Operations : o = Op[t][h] /\ o = Head(queue[t])
    BY <1>1, <1>4, StepFact, PendingFact
  <1>7. /\ sorted' = IF o.do = "upload" THEN [sorted EXCEPT ![o.sort] = pin[o.sort]] ELSE sorted
        /\ bad' = bad \cup (IF o.do = "product"
                            THEN (IF o.slot >= 0 /\ content[o.slot] # o.entry THEN {"weights"} ELSE {})
                                 \cup (IF sorted[o.sort] # <<o.eval, o.call>> THEN {"sort"} ELSE {})
                            ELSE {})
    BY <1>6 DEF run
  <1>8. o.do \in {"upload", "product"} => t \in Lanes /\ o.sort = t
    <2>1. t \in Lanes \/ t = Copy
      BY DEF AllStreams, Lanes, Copy
    <2>2. QED
      BY <1>4, <1>6, <2>1 DEF IInv, Placed
  <1>9. sorted \in [Lanes -> Seq(Nat)]
    BY DEF IInv, TypeOK
  <1>10. Sorts'
    <2>1. SUFFICES ASSUME NEW s \in Lanes
                   PROVE  /\ \A p \in Pending'[s] : Op'[s][p].do = "product" =>
                               pin'[s] = <<Op'[s][p].eval, Op'[s][p].call>>
                          /\ \/ sorted'[s] = pin'[s]
                             \/ \E u \in Pending'[s] : /\ Op'[s][u].do = "upload"
                                                       /\ \A p \in Pending'[s] : Op'[s][p].do = "product" => u < p
      BY DEF Sorts
    <2>2. s \in AllStreams /\ \A p \in Pending'[s] : p \in Pending[s] /\ Op'[s][p] = Op[s][p]
      BY <1>2, LanesFact DEF Fewer
    <2>3. \A p \in Pending'[s] : Op'[s][p].do = "product" => pin'[s] = <<Op'[s][p].eval, Op'[s][p].call>>
      BY <1>3, <2>2 DEF SortInv, Sorts
    <2>4. CASE s = t /\ o.do = "upload"
      <3>1. sorted'[s] = pin[s]
        BY <1>7, <1>8, <1>9, <2>4
      <3>2. QED
        BY <1>3, <2>3, <3>1
    <2>5. CASE ~(s = t /\ o.do = "upload")
      <3>1. sorted'[s] = sorted[s]
        BY <1>7, <1>8, <1>9, <2>5
      <3>2. CASE sorted[s] = pin[s]
        BY <1>3, <2>3, <3>1, <3>2
      <3>3. CASE \E u \in Pending[s] : /\ Op[s][u].do = "upload"
                                       /\ \A p \in Pending[s] : Op[s][p].do = "product" => u < p
        <4>1. PICK u \in Pending[s] : /\ Op[s][u].do = "upload"
                                      /\ \A p \in Pending[s] : Op[s][p].do = "product" => u < p
          BY <3>3
        <4>2. u \in Pending'[s]
          <5>1. s = t => u # h
            BY <1>6, <2>5, <4>1
          <5>2. QED
            BY <1>5, <2>2, <4>1, <5>1
        <4>3. /\ Op'[s][u].do = "upload"
              /\ \A p \in Pending'[s] : Op'[s][p].do = "product" => u < p
          BY <2>2, <4>1, <4>2
        <4>4. QED
          BY <2>3, <4>2, <4>3
      <3>4. QED
        BY <3>2, <3>3 DEF SortInv, Sorts
    <2>6. QED
      BY <2>4, <2>5
  <1>11. Fresh'
    BY <1>3 DEF SortInv, Fresh, Wanted, Sort
  <1>12. SortIsOwn'
    <2>1. o.do = "product" => sorted[o.sort] = <<o.eval, o.call>>
      <3>1. SUFFICES ASSUME o.do = "product" PROVE sorted[t] = <<o.eval, o.call>>
        BY <1>8
      <3>2. t \in Lanes /\ pin[t] = <<o.eval, o.call>>
        BY <1>4, <1>6, <1>8, <3>1 DEF SortInv, Sorts
      <3>3. ASSUME NEW u \in Pending[t], \A p \in Pending[t] : Op[t][p].do = "product" => u < p PROVE FALSE
        <4>1. u < h
          BY <1>4, <1>6, <3>1, <3>3
        <4>2. QED
          BY <1>5, <4>1
      <3>4. QED
        BY <3>2, <3>3 DEF SortInv, Sorts
    <2>2. QED
      BY <1>7, <2>1 DEF SortInv, SortIsOwn
  <1>13. QED
    BY <1>10, <1>11, <1>12 DEF SortInv

\* Nothing that reads or replaces a sort is given to a stream.
LEMMA SortsKept ==
  ASSUME IInv, Gives, SortInv, pin' = pin, sorted' = sorted, bad' = bad,
         \A s \in Lanes : \A p \in Pending'[s] : p \in Pending[s] \/ Op'[s][p].do # "product"
  PROVE  Sorts' /\ SortIsOwn'
  <1>1. ASSUME NEW s \in Lanes, NEW p \in Pending[s] PROVE p \in Pending'[s] /\ Op'[s][p] = Op[s][p]
    BY LanesFact DEF Gives, Grown
  <1>2. Sorts'
    <2>1. SUFFICES ASSUME NEW s \in Lanes
                   PROVE  /\ \A p \in Pending'[s] : Op'[s][p].do = "product" =>
                               pin[s] = <<Op'[s][p].eval, Op'[s][p].call>>
                          /\ \/ sorted[s] = pin[s]
                             \/ \E u \in Pending'[s] : /\ Op'[s][u].do = "upload"
                                                       /\ \A p \in Pending'[s] : Op'[s][p].do = "product" => u < p
      BY DEF Sorts
    <2>2. ASSUME NEW p \in Pending'[s], Op'[s][p].do = "product" PROVE p \in Pending[s] /\ Op'[s][p] = Op[s][p]
      BY <1>1, <2>2
    <2>3. \A p \in Pending'[s] : Op'[s][p].do = "product" => pin[s] = <<Op'[s][p].eval, Op'[s][p].call>>
      BY <2>2 DEF SortInv, Sorts
    <2>4. ASSUME NEW u \in Pending[s], Op[s][u].do = "upload",
                 \A p \in Pending[s] : Op[s][p].do = "product" => u < p
          PROVE  \E v \in Pending'[s] : /\ Op'[s][v].do = "upload"
                                        /\ \A p \in Pending'[s] : Op'[s][p].do = "product" => v < p
      BY <1>1, <2>2, <2>4
    <2>5. QED
      BY <2>3, <2>4 DEF SortInv, Sorts
  <1>3. QED
    BY <1>2 DEF SortInv, SortIsOwn

\* A product follows others of its call, or one that was just sorted for it.
LEMMA SortsMultiply ==
  ASSUME IInv, SortInv, host \in {"multiply", "drain"}, ran' = ran, sorted' = sorted, bad' = bad,
         NEW q \in {queue, Push(queue, curr, Upload)}, queue' = Push(q, curr, Product),
         pin' = [pin EXCEPT ![curr] = Sort],
         q = queue => pin[curr] = Sort,
         q # queue => Idle(curr)
  PROVE  Sorts' /\ SortIsOwn'
  <1>1. /\ TypeOK /\ StreamsOK /\ curr \in Lanes /\ curr \in AllStreams /\ pin \in [Lanes -> Seq(Nat)]
        /\ Total[curr] \in Nat
    <2>1. TypeOK
      BY DEF IInv
    <2>2. QED
      BY <2>1, PendingFact, LanesFact DEF TypeOK
  <1>2. /\ Gives
        /\ Total'[curr] \in Nat /\ Total'[curr] > Total[curr]
        /\ Total'[curr] \in Pending'[curr] /\ Op'[curr][Total'[curr]] = Product
    BY MultiplyGives
  <1>3. PICK n \in Nat : n = Total'[curr]
    BY <1>2
  <1>4. /\ Op'[curr][n].do = "product" /\ <<Op'[curr][n].eval, Op'[curr][n].call>> = Sort
        /\ n > Total[curr] /\ n \in Pending'[curr]
    BY <1>2, <1>3 DEF Product, Sort
  <1>5. pin'[curr] = Sort /\ \A s \in Lanes : s # curr => pin'[s] = pin[s]
    BY <1>1
  <1>6. ASSUME NEW s \in Lanes, NEW p \in Pending[s]
        PROVE  p \in Pending'[s] /\ Op'[s][p] = Op[s][p] /\ p \in Nat /\ p <= Total[s]
    BY <1>1, <1>2, PendingFact, LanesFact DEF Gives, Grown
  <1>7. ASSUME NEW s \in Lanes, NEW p \in Pending'[s], Op'[s][p].do = "product"
        PROVE  (p \in Pending[s] /\ Op'[s][p] = Op[s][p]) \/ (s = curr /\ p = n)
    <2>1. CASE p \in Pending[s]
      BY <1>6, <2>1
    <2>2. CASE p \notin Pending[s]
      <3>1. s \in AllStreams /\ s # Copy
        BY LanesFact
      <3>2. May(s, Op'[s][p]) /\ p = Total'[s]
        BY <1>2, <1>7, <2>2, <3>1 DEF Gives
      <3>3. s = curr
        BY <3>1, <3>2 DEF May
      <3>4. QED
        BY <1>3, <3>2, <3>3
    <2>3. QED
      BY <2>1, <2>2
  <1>8. CASE q = queue
    <2>1. pin[curr] = Sort /\ \A s \in Lanes : pin'[s] = pin[s]
      BY <1>5, <1>8
    <2>2. Sorts'
      <3>1. SUFFICES ASSUME NEW s \in Lanes
                     PROVE  /\ \A p \in Pending'[s] : Op'[s][p].do = "product" =>
                                 pin[s] = <<Op'[s][p].eval, Op'[s][p].call>>
                            /\ \/ sorted[s] = pin[s]
                               \/ \E u \in Pending'[s] : /\ Op'[s][u].do = "upload"
                                                         /\ \A p \in Pending'[s] : Op'[s][p].do = "product" => u < p
        BY <2>1 DEF Sorts
      <3>2. ASSUME NEW p \in Pending'[s], Op'[s][p].do = "product"
            PROVE  pin[s] = <<Op'[s][p].eval, Op'[s][p].call>>
        <4>1. CASE p \in Pending[s] /\ Op'[s][p] = Op[s][p]
          BY <3>2, <4>1 DEF SortInv, Sorts
        <4>2. CASE s = curr /\ p = n
          BY <1>4, <2>1, <4>2
        <4>3. QED
          BY <1>7, <3>2, <4>1, <4>2
      <3>3. ASSUME NEW u \in Pending[s], Op[s][u].do = "upload",
                   \A p \in Pending[s] : Op[s][p].do = "product" => u < p
            PROVE  \E v \in Pending'[s] : /\ Op'[s][v].do = "upload"
                                          /\ \A p \in Pending'[s] : Op'[s][p].do = "product" => v < p
        <4>1. u \in Pending'[s] /\ Op'[s][u].do = "upload" /\ u \in Nat /\ u <= Total[s]
          BY <1>6, <3>3
        <4>2. ASSUME NEW p \in Pending'[s], Op'[s][p].do = "product" PROVE u < p
          <5>1. CASE p \in Pending[s] /\ Op'[s][p] = Op[s][p]
            BY <3>3, <4>2, <5>1
          <5>2. CASE s = curr /\ p = n
            BY <1>1, <1>4, <4>1, <5>2
          <5>3. QED
            BY <1>7, <4>2, <5>1, <5>2
        <4>3. QED
          BY <4>1, <4>2
      <3>4. QED
        BY <3>2, <3>3 DEF SortInv, Sorts
    <2>3. QED
      BY <2>2 DEF SortInv, SortIsOwn
  <1>9. CASE q # queue
    <2>1. q = Push(queue, curr, Upload) /\ queue[curr] = <<>>
      BY <1>9 DEF Idle
    <2>2. Pending[curr] = {}
      <3>1. Len(queue[curr]) = 0 /\ ran[curr] \in Nat
        BY <1>1, <2>1, PendingFact
      <3>2. QED
        BY <1>1, <3>1, PendingFact
    <2>3. PICK o \in Operations, u \in Operations :
            o = Product /\ u = Upload /\ u.do = "upload"
      <3>1. Upload \in Operations /\ Upload.do = "upload"
        BY <1>1 DEF Operations, Upload, SortSlot, Lanes
      <3>2. Entry \in Nat /\ Slot \in Slots /\ eval.n \in Nat /\ made \in Nat
        BY <1>1, EntryFact DEF TypeOK
      <3>3. Product \in Operations
        BY <1>1, <3>2 DEF Operations, Product, SortSlot, Lanes
      <3>4. QED
        BY <3>1, <3>3
    <2>4. queue' = Push(Push(queue, curr, u), curr, o)
      BY <2>1, <2>3
    <2>5. /\ Total'[curr] = Total[curr] + 2
          /\ Total[curr] + 1 \in Pending'[curr] /\ Op'[curr][Total[curr] + 1] = u
      BY <1>1, <2>4, PushTwo
    <2>6. n = Total[curr] + 2
      BY <1>3, <2>5
    <2>7. Sorts'
      <3>1. SUFFICES ASSUME NEW s \in Lanes
                     PROVE  /\ \A p \in Pending'[s] : Op'[s][p].do = "product" =>
                                 pin'[s] = <<Op'[s][p].eval, Op'[s][p].call>>
                            /\ \/ sorted[s] = pin'[s]
                               \/ \E v \in Pending'[s] : /\ Op'[s][v].do = "upload"
                                                         /\ \A p \in Pending'[s] : Op'[s][p].do = "product" => v < p
        BY DEF Sorts
      <3>2. CASE s = curr
        <4>1. ASSUME NEW p \in Pending'[s], Op'[s][p].do = "product" PROVE p = n
          BY <1>7, <2>2, <3>2, <4>1
        <4>2. Total[curr] + 1 < n
          BY <1>1, <2>6
        <4>3. QED
          BY <1>4, <1>5, <2>3, <2>5, <3>2, <4>1, <4>2
      <3>3. CASE s # curr
        <4>1. ASSUME NEW p \in Pending'[s], Op'[s][p].do = "product" PROVE p \in Pending[s] /\ Op'[s][p] = Op[s][p]
          BY <1>7, <3>3, <4>1
        <4>2. \A p \in Pending'[s] : Op'[s][p].do = "product" => pin'[s] = <<Op'[s][p].eval, Op'[s][p].call>>
          BY <1>5, <3>3, <4>1 DEF SortInv, Sorts
        <4>3. ASSUME NEW v \in Pending[s], Op[s][v].do = "upload",
                     \A p \in Pending[s] : Op[s][p].do = "product" => v < p
              PROVE  \E w \in Pending'[s] : /\ Op'[s][w].do = "upload"
                                            /\ \A p \in Pending'[s] : Op'[s][p].do = "product" => w < p
          BY <1>6, <4>1, <4>3
        <4>4. QED
          BY <1>5, <3>3, <4>2, <4>3 DEF SortInv, Sorts
      <3>4. QED
        BY <3>2, <3>3
    <2>8. QED
      BY <2>7 DEF SortInv, SortIsOwn
  <1>10. QED
    BY <1>8, <1>9

\* The cache after a product of a sorted call.
LEMMA FreshMultiply ==
  ASSUME IInv, Fresh, host \in {"multiply", "drain"}, NEW q, Multiply(q),
         eval' = eval, made' = made, curr' = curr,
         mcache' = [mcache EXCEPT ![curr] = Wanted], pin' = [pin EXCEPT ![curr] = Sort]
  PROVE  Fresh'
  <1>1. /\ curr \in Lanes /\ mcache \in [Lanes -> [ids : Int, big : BOOLEAN]] /\ pin \in [Lanes -> Seq(Nat)]
        /\ made \in Nat /\ m \in Nat /\ eval.big \in BOOLEAN
    BY DEF IInv, TypeOK
  <1>2. /\ mcache'[curr] = Wanted /\ pin'[curr] = Sort
        /\ \A s \in Lanes : s # curr => mcache'[s] = mcache[s]
    BY <1>1
  <1>3. Wanted' = Wanted /\ Sort' = Sort /\ Wanted.ids = made
    BY DEF Wanted, Sort
  <1>4. \/ host' = "ahead"
        \/ m' = m + 1 /\ host' \in {"product", "record"}
    BY DEF Multiply, Advance
  <1>5. m + 1 > 0 /\ m + 1 # 0 /\ made <= made
    BY <1>1
  <1>6. host' \notin {"call", "between"} /\ eval'.calls # 1
    BY <1>4 DEF Fresh
  <1>7. \A s \in Lanes : s # curr => mcache'[s].ids # 0
    BY <1>2 DEF Fresh
  <1>8. host' = "record" => mcache'[curr].ids <= made /\ (made > 0 => mcache'[curr].ids > 0)
    BY <1>2, <1>3, <1>5
  <1>9. host' = "ahead" \/ m' = m + 1
    BY <1>4
  <1>10. host' \in {"product", "ready", "multiply", "drain"} => m' = m + 1
    BY <1>4
  <1>11. QED
    BY <1>2, <1>3, <1>5, <1>6, <1>7, <1>8, <1>10 DEF Fresh

\* The steps that give the streams nothing to do with a sort.
LEMMA SortBegin ==
  ASSUME SeveralLayers, IInv, SortInv, begin
  PROVE  SortInv'
  <1>1. /\ made' = 0 /\ host' = "call" /\ queue' = queue /\ ran' = ran
        /\ sorted' = sorted /\ bad' = bad /\ mcache' = mcache /\ pin' = pin /\ host = "between"
    BY DEF begin, memVars
  <1>2. Sorts' /\ SortIsOwn'
    <2>1. Gives /\ Pending' = Pending
      BY <1>1, StandStill, SameFact
    <2>2. QED
      BY <1>1, <2>1, SortsKept
  <1>3. eval'.calls # 1
    <2>1. PICK tbo \in BOOLEAN, big \in BOOLEAN, calls \in Calls :
            eval' = [n |-> eval.n + 1, calls |-> calls, tbo |-> tbo, big |-> big]
      BY DEF begin
    <2>2. QED
      BY <2>1 DEF SeveralLayers
  <1>4. \A s \in Lanes : mcache[s].ids # 0
    <2>1. /\ made = eval.calls /\ made \in Nat /\ curr \in Lanes
          /\ mcache \in [Lanes -> [ids : Int, big : BOOLEAN]]
      BY <1>1 DEF IInv, TypeOK, HostOK
    <2>2. made # 1
      BY <2>1 DEF SortInv, Fresh
    <2>3. CASE made = 0
      BY <1>1, <2>3 DEF SortInv, Fresh
    <2>4. CASE made > 1
      <3>1. mcache[curr].ids > 0
        BY <1>1, <2>1, <2>4 DEF SortInv, Fresh
      <3>2. \A s \in Lanes : s # curr => mcache[s].ids # 0
        BY DEF SortInv, Fresh
      <3>3. QED
        BY <3>1, <3>2
    <2>5. QED
      BY <2>1, <2>2, <2>3, <2>4
  <1>5. Fresh'
    BY <1>1, <1>3, <1>4 DEF Fresh
  <1>6. QED
    BY <1>2, <1>5 DEF SortInv

\* ... compute, if there are several layers, ...
LEMMA SortCompute ==
  ASSUME SeveralLayers, IInv, SortInv, compute
  PROVE  SortInv'
  <1>1. /\ eval' = eval /\ made' = made /\ curr' = curr /\ m' = 0
        /\ host = "call" /\ host' = (IF made < Layers THEN "product" ELSE "record")
        /\ sorted' = sorted /\ bad' = bad /\ mcache' = mcache /\ pin' = pin
    BY DEF compute, memVars, tboVars
  <1>2. Sorts' /\ SortIsOwn'
    BY <1>1, ComputeGives, SortsKept
  <1>3. /\ made \in Nat /\ curr \in Lanes /\ mcache \in [Lanes -> [ids : Int, big : BOOLEAN]] /\ Layers \in Nat
    BY TwoBatchAssumption DEF IInv, TypeOK
  <1>4. /\ \A s \in Lanes : s # curr \/ made = 0 => mcache[s].ids # 0
        /\ made > 0 => mcache[curr].ids < made /\ (made > 1 => mcache[curr].ids > 0)
        /\ eval.calls # 1
    BY <1>1 DEF SortInv, Fresh
  <1>5. CASE made < Layers
    <2>1. IF made = 0 THEN mcache[curr].ids # 0 ELSE mcache[curr].ids < made
      BY <1>3, <1>4
    <2>2. host' = "product"
      BY <1>1, <1>5
    <2>3. QED
      BY <1>1, <1>2, <1>4, <2>1, <2>2 DEF SortInv, Fresh
  <1>6. CASE ~(made < Layers)
    <2>1. made > 1 /\ made > 0
      BY <1>3, <1>6 DEF SeveralLayers
    <2>2. mcache[curr].ids <= made /\ mcache[curr].ids > 0
      BY <1>3, <1>4, <2>1
    <2>3. host' = "record"
      BY <1>1, <1>6
    <2>4. QED
      BY <1>1, <1>2, <1>4, <2>2, <2>3 DEF SortInv, Fresh
  <1>7. QED
    BY <1>5, <1>6

\* ... record, ...
LEMMA SortRecord ==
  ASSUME IInv, SortInv, record
  PROVE  SortInv'
  <1>1. /\ eval' = eval /\ made' = made + 1 /\ curr' = curr /\ queue' = queue /\ ran' = ran
        /\ host = "record" /\ host' = "call"
        /\ sorted' = sorted /\ bad' = bad /\ mcache' = mcache /\ pin' = pin
    BY DEF record, memVars
  <1>2. Sorts' /\ SortIsOwn'
    <2>1. Gives /\ Pending' = Pending
      BY <1>1, StandStill, SameFact
    <2>2. QED
      BY <1>1, <2>1, SortsKept
  <1>3. /\ made \in Nat /\ curr \in Lanes /\ mcache \in [Lanes -> [ids : Int, big : BOOLEAN]]
    BY DEF IInv, TypeOK
  <1>4. mcache[curr].ids <= made /\ (made > 0 => mcache[curr].ids > 0)
    BY <1>1 DEF SortInv, Fresh
  <1>5. mcache[curr].ids < made + 1 /\ (made + 1 > 1 => mcache[curr].ids > 0) /\ made + 1 # 0
    BY <1>3, <1>4
  <1>6. Fresh'
    BY <1>1, <1>5 DEF SortInv, Fresh
  <1>7. QED
    BY <1>2, <1>6 DEF SortInv

\* ... acquire, ...
LEMMA SortAcquire ==
  ASSUME IInv, SortInv, acquire
  PROVE  SortInv'
  <1>1. /\ eval' = eval /\ made' = made /\ curr' = curr /\ m' = m /\ ran' = ran
        /\ content' = content /\ sorted' = sorted /\ bad' = bad /\ mcache' = mcache /\ pin' = pin
        /\ host = "product" /\ host' \in {"ready", "multiply"}
    BY DEF acquire, tboVars, memVars
  <1>2. Gives /\ \A s \in Lanes : Pending'[s] = Pending[s]
    <2>1. CASE issue(Entry)
      <3>1. PICK e \in Nat : e = Entry
        BY EntryFact DEF IInv
      <3>2. QED
        BY <1>1, <2>1, <3>1, IssueFact
    <2>2. CASE queue' = queue
      BY <1>1, <2>2, StandStill, SameFact
    <2>3. QED
      BY <2>1, <2>2 DEF acquire
  <1>3. Sorts' /\ SortIsOwn'
    BY <1>1, <1>2, SortsKept
  <1>4. Wanted' = Wanted /\ Sort' = Sort
    BY <1>1 DEF Wanted, Sort
  <1>5. Fresh'
    BY <1>1, <1>4 DEF SortInv, Fresh
  <1>6. QED
    BY <1>3, <1>5 DEF SortInv

\* ... wait_ready, ...
LEMMA SortWaitReady ==
  ASSUME IInv, SortInv, wait_ready
  PROVE  SortInv'
  <1>1. /\ eval' = eval /\ made' = made /\ curr' = curr /\ m' = m /\ ran' = ran
        /\ sorted' = sorted /\ bad' = bad /\ mcache' = mcache /\ pin' = pin
        /\ host = "ready" /\ host' = "multiply" /\ queue' = Wait(queue, curr, ev_ready[Slot])
    BY DEF wait_ready, tboVars, memVars
  <1>2. PICK w : w = [do |-> "wait", event |-> ev_ready[Slot]]
    OBVIOUS
  <1>3. /\ StreamsOK /\ curr \in AllStreams /\ curr \in Lanes /\ Exists(ev_ready[Slot]) /\ Slot \in Slots
    BY EntryFact, LanesFact DEF IInv, TypeOK, EventsExist
  <1>4. w \in Operations /\ May(curr, w) /\ w.do = "wait"
    BY <1>2, <1>3, LanesFact DEF Operations, May, Exists
  <1>5. queue' = Push(queue, curr, w)
    BY <1>1, <1>2 DEF Wait
  <1>6. Gives
    BY <1>1, <1>3, <1>4, <1>5, GivesOne
  <1>7. \A s \in Lanes : \A p \in Pending'[s] : p \in Pending[s] \/ Op'[s][p].do # "product"
    <2>1. /\ \A t \in AllStreams : t # curr => Pending'[t] = Pending[t]
          /\ \A p \in Pending'[curr] : p \in Pending[curr] \/ p = Total[curr] + 1
          /\ Op'[curr][Total[curr] + 1] = w
      BY <1>1, <1>3, <1>4, <1>5, PushOne
    <2>2. QED
      BY <1>4, <2>1, LanesFact
  <1>8. Sorts' /\ SortIsOwn'
    BY <1>1, <1>6, <1>7, SortsKept
  <1>9. Wanted' = Wanted /\ Sort' = Sort
    BY <1>1 DEF Wanted, Sort
  <1>10. Fresh'
    BY <1>1, <1>9 DEF SortInv, Fresh
  <1>11. QED
    BY <1>8, <1>10 DEF SortInv

\* The cache has what the product asks for only if the call has been sorted.
LEMMA SortMul ==
  ASSUME IInv, SortInv, mul_mat_id
  PROVE  SortInv'
  <1>1. /\ eval' = eval /\ made' = made /\ curr' = curr /\ ran' = ran
        /\ sorted' = sorted /\ bad' = bad /\ mcache' = mcache /\ pin' = pin /\ host = "multiply"
    BY DEF mul_mat_id, tboVars, memVars
  <1>2. /\ curr \in Lanes /\ mcache \in [Lanes -> [ids : Int, big : BOOLEAN]] /\ pin \in [Lanes -> Seq(Nat)]
        /\ made \in Nat /\ m \in Nat
    BY DEF IInv, TypeOK
  <1>3. CASE Hit /\ Multiply(queue)
    <2>1. mcache[curr] = Wanted /\ mcache[curr].ids = made
      BY <1>3 DEF Hit, SortSlot, Wanted
    <2>2. m > 0
      <3>1. SUFFICES ASSUME m = 0 PROVE FALSE
        BY <1>2
      <3>2. IF made = 0 THEN mcache[curr].ids # 0 ELSE mcache[curr].ids < made
        BY <1>1, <3>1 DEF SortInv, Fresh
      <3>3. QED
        BY <1>2, <2>1, <3>2
    <2>3. pin[curr] = Sort
      BY <1>1, <2>2 DEF SortInv, Fresh
    <2>4. pin' = [pin EXCEPT ![curr] = Sort] /\ mcache' = [mcache EXCEPT ![curr] = Wanted]
      BY <1>1, <1>2, <2>1, <2>3
    <2>5. queue' = Push(queue, curr, Product)
      BY <1>3 DEF Multiply
    <2>6. Sorts' /\ SortIsOwn'
      BY <1>1, <2>3, <2>4, <2>5, SortsMultiply
    <2>7. Fresh'
      BY <1>1, <1>3, <2>4, FreshMultiply DEF SortInv
    <2>8. QED
      BY <2>6, <2>7 DEF SortInv
  <1>4. CASE host' = "drain" /\ UNCHANGED <<m, ahead, queue, prefetchVars>>
    <2>1. queue' = queue /\ m' = m /\ host' = "drain"
      BY <1>4
    <2>2. Gives /\ Pending' = Pending
      BY <1>1, <2>1, StandStill, SameFact
    <2>3. Sorts' /\ SortIsOwn'
      BY <1>1, <2>2, SortsKept
    <2>4. Wanted' = Wanted /\ Sort' = Sort
      BY <1>1 DEF Wanted, Sort
    <2>5. Fresh'
      BY <1>1, <2>1, <2>4 DEF SortInv, Fresh
    <2>6. QED
      BY <2>3, <2>5 DEF SortInv
  <1>5. QED
    BY <1>3, <1>4 DEF mul_mat_id

\* ... sort, ...
LEMMA SortSort ==
  ASSUME IInv, SortInv, sort
  PROVE  SortInv'
  <1>1. /\ eval' = eval /\ made' = made /\ curr' = curr /\ ran' = ran
        /\ sorted' = sorted /\ bad' = bad /\ host = "drain" /\ Idle(curr)
        /\ pin' = [pin EXCEPT ![curr] = Sort] /\ mcache' = [mcache EXCEPT ![curr] = Wanted]
    BY DEF sort, tboVars, memVars, SortSlot
  <1>2. PICK q : q = Push(queue, curr, Upload) /\ Multiply(q)
    BY DEF sort, Upload
  <1>3. q # queue
    <2>1. queue \in [AllStreams -> Seq(Operations)] /\ curr \in AllStreams
      BY LanesFact DEF IInv, TypeOK, StreamsOK
    <2>2. Len(q[curr]) = Len(queue[curr]) + 1 /\ Len(queue[curr]) \in Nat
      BY <1>2, <2>1 DEF Push
    <2>3. QED
      BY <2>2
  <1>4. queue' = Push(q, curr, Product)
    BY <1>2 DEF Multiply
  <1>5. Sorts' /\ SortIsOwn'
    BY <1>1, <1>2, <1>3, <1>4, SortsMultiply
  <1>6. Fresh'
    BY <1>1, <1>2, FreshMultiply DEF SortInv
  <1>7. QED
    BY <1>5, <1>6 DEF SortInv

\* ... prefetch, ...
LEMMA SortPrefetch ==
  ASSUME IInv, SortInv, prefetch
  PROVE  SortInv'
  <1>1. /\ eval' = eval /\ made' = made /\ curr' = curr /\ ran' = ran
        /\ content' = content /\ sorted' = sorted /\ bad' = bad /\ mcache' = mcache /\ pin' = pin
        /\ host = "ahead"
    BY DEF prefetch, tboVars, memVars
  <1>2. m \in Nat /\ ahead \in Nat /\ made \in Nat
    BY DEF IInv, TypeOK
  <1>3. Wanted' = Wanted /\ Sort' = Sort /\ Wanted.ids = made
    BY <1>1 DEF Wanted, Sort
  <1>4. mcache[curr] = Wanted /\ pin[curr] = Sort
    BY <1>1 DEF SortInv, Fresh
  <1>5. CASE issue((Entry + ahead) % Entries) /\ UNCHANGED <<host, m>>
    <2>1. PICK e \in Nat : e = (Entry + ahead) % Entries
      <3>1. Entry + ahead \in Nat
        BY <1>2, EntryFact DEF IInv
      <3>2. Entries \in Nat /\ Entries > 0
        BY TwoBatchAssumption DEF Entries
      <3>3. QED
        BY <3>1, <3>2
    <2>2. Gives /\ \A s \in Lanes : Pending'[s] = Pending[s]
      BY <1>1, <1>5, <2>1, IssueFact
    <2>3. Sorts' /\ SortIsOwn'
      BY <1>1, <2>2, SortsKept
    <2>4. host' = "ahead"
      BY <1>1, <1>5
    <2>5. Fresh'
      BY <1>1, <1>3, <1>4, <2>4 DEF SortInv, Fresh
    <2>6. QED
      BY <2>3, <2>5 DEF SortInv
  <1>6. CASE Advance /\ UNCHANGED <<ahead, queue, prefetchVars>>
    <2>1. queue' = queue /\ m' = m + 1 /\ host' \in {"product", "record"}
      BY <1>6 DEF Advance
    <2>2. Gives /\ Pending' = Pending
      BY <1>1, <2>1, StandStill, SameFact
    <2>3. Sorts' /\ SortIsOwn'
      BY <1>1, <2>2, SortsKept
    <2>4. m + 1 # 0 /\ mcache[curr].ids <= made /\ (made > 0 => mcache[curr].ids > 0)
      BY <1>2, <1>3, <1>4
    <2>5. Fresh'
      BY <1>1, <1>3, <1>4, <2>1, <2>4 DEF SortInv, Fresh
    <2>6. QED
      BY <2>3, <2>5 DEF SortInv
  <1>7. QED
    BY <1>5, <1>6 DEF prefetch

\* ... end_eval, ...
LEMMA SortEnd ==
  ASSUME IInv, SortInv, end_eval
  PROVE  SortInv'
  <1>1. /\ eval' = eval /\ made' = made /\ curr' = curr /\ queue' = queue /\ ran' = ran
        /\ sorted' = sorted /\ bad' = bad /\ mcache' = mcache /\ pin' = pin
        /\ host = "call" /\ host' = "between"
    BY DEF end_eval, tboVars, memVars
  <1>2. Gives /\ Pending' = Pending
    BY <1>1, StandStill, SameFact
  <1>3. Sorts' /\ SortIsOwn'
    BY <1>1, <1>2, SortsKept
  <1>4. Fresh'
    BY <1>1 DEF SortInv, Fresh
  <1>5. QED
    BY <1>3, <1>4 DEF SortInv

\* ... and any step at all.
LEMMA SortNext ==
  ASSUME SeveralLayers, IInv, SortInv, [Next]_vars
  PROVE  SortInv'
  <1>1. CASE Host
    BY <1>1, SortBegin, SortCompute, SortRecord, SortAcquire, SortWaitReady, SortMul, SortSort,
       SortPrefetch, SortEnd DEF Host
  <1>2. CASE \E s \in AllStreams : run(s)
    BY <1>2, SortRun
  <1>3. CASE UNCHANGED vars
    <2>1. /\ eval' = eval /\ made' = made /\ curr' = curr /\ queue' = queue /\ ran' = ran /\ m' = m
          /\ sorted' = sorted /\ bad' = bad /\ mcache' = mcache /\ pin' = pin /\ host' = host
      BY <1>3 DEF vars, tboVars, memVars
    <2>2. Gives /\ Pending' = Pending
      BY <2>1, StandStill, SameFact
    <2>3. Sorts' /\ SortIsOwn'
      BY <2>1, <2>2, SortsKept
    <2>4. Wanted' = Wanted /\ Sort' = Sort
      BY <2>1 DEF Wanted, Sort
    <2>5. Fresh'
      BY <2>1, <2>4 DEF SortInv, Fresh
    <2>6. QED
      BY <2>3, <2>5 DEF SortInv
  <1>4. QED
    BY <1>1, <1>2, <1>3 DEF Next

\* Every product uses the sort of the routes of its own layer and eval, if other
\* layers run between two evals of a layer: the cache knows an ids tensor, which
\* is the same object in the next eval (:3126-3153, :3359-3362).
THEOREM SortIsOwnHolds ==
  ASSUME SeveralLayers
  PROVE  Spec => []SortIsOwn
  <1>1. Init => SortInv
    BY SortInit
  <1>2. IInv /\ SortInv /\ [Next]_vars => SortInv'
    BY SortNext
  <1>3. SortInv => SortIsOwn
    BY DEF SortInv
  <1>4. QED
    BY <1>1, <1>2, <1>3, Invariance, PTL DEF Spec

=============================================================================
