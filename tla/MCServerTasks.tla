---------------------------- MODULE MCServerTasks ----------------------------
(* Small mixes of requests for ServerTasks.                                  *)
EXTENDS ServerTasks

CONSTANTS r1, r2, r3, t1, t2, t3, t4

NoneOf == [t \in Tasks |-> 0]

\* A completion, a completion with a second choice, an embedding for slot 1.
Quiet == [
  posted      |-> [r \in Requests |-> CASE r = r1 -> <<t1>> [] r = r2 -> <<t2>> [] OTHER -> <<t4>>],
  children    |-> [t \in Tasks |-> IF t = t2 THEN <<t3>> ELSE <<>>],
  kind        |-> [t \in Tasks |-> IF t = t4 THEN "embedding" ELSE "completion"],
  idSlot      |-> [NoneOf EXCEPT ![t4] = 1],
  actionSlot  |-> NoneOf,
  stream      |-> {r1},
  emptyPrompt |-> {},
  mayFail     |-> FALSE,
  mayGiveUp   |-> FALSE]

\* The last two under failures and closed connections.
Faulty == [Quiet EXCEPT !.posted[r1] = <<>>, !.mayFail = TRUE, !.mayGiveUp = TRUE, !.stream = {r2}]

\* ... with an operation on slot 1 in place of the embedding.
FaultySlotOp == [Faulty EXCEPT !.kind[t4] = "slot_op", !.idSlot[t4] = 0, !.actionSlot[t4] = 1]

\* Three single tasks that may fail, one without a prompt.
FailingSingles == [Quiet EXCEPT !.children = [t \in Tasks |-> <<>>], !.mayFail = TRUE, !.stream = {}, !.emptyPrompt = {t1}]

\* The clients go away, nothing else goes wrong.
Abandoned == [Faulty EXCEPT !.mayFail = FALSE, !.stream = {}]

AbandonedLoads == {Abandoned}
SmallLoads == {Quiet, Faulty, FaultySlotOp, FailingSingles}
=============================================================================
