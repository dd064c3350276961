------------------------------ MODULE Streams ------------------------------
(* CUDA streams, as the backends use them: each runs its operations in the   *)
(* order they were enqueued, and different streams are ordered only by       *)
(* events.  An event that is recorded stands for all that its stream has     *)
(* been given so far: a stream and a position.  A stream that is told to     *)
(* wait for an event waits for what it stands for at that time.              *)
EXTENDS Naturals, Sequences

CONSTANT Streams

VARIABLES queue,  \* stream -> operations it was given and has not run
          ran     \* stream -> how many it has run

streamVars == <<queue, ran>>

StreamsInit == /\ queue = [s \in Streams |-> <<>>]
               /\ ran = [s \in Streams |-> 0]

Never == [on |-> CHOOSE s \in Streams : TRUE, at |-> 0]
Recorded(s, q) == [on |-> s, at |-> ran[s] + Len(q[s])]
Reached(e) == ran[e.on] >= e.at

Push(q, s, op) == [q EXCEPT ![s] = Append(@, op)]
Wait(q, s, e) == Push(q, s, [do |-> "wait", event |-> e])

Idle(s) == queue[s] = <<>>

(* Stream s runs its next operation.                                         *)
Step(s) == /\ queue[s] # <<>>
           /\ Head(queue[s]).do = "wait" => Reached(Head(queue[s]).event)
           /\ queue' = [queue EXCEPT ![s] = Tail(@)]
           /\ ran' = [ran EXCEPT ![s] = @ + 1]
=============================================================================
