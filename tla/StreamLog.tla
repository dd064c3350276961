------------------------------ MODULE StreamLog ------------------------------
(***************************************************************************)
(* What a resumable stream promises to its readers, without the ring: the  *)
(* bytes of a generation form a log that only grows until it is finished,  *)
(* and a reader gets consecutive bytes of it from the offset it asked for. *)
(* It is told that the stream is complete only when it has everything.     *)
(* A byte is its position in the log.                                      *)
(***************************************************************************)
EXTENDS Naturals, Sequences

CONSTANTS Readers, Offsets

VARIABLES length, finished, state, from, delivered

logVars == <<length, finished, state, from, delivered>>

Position(r) == from[r] + Len(delivered[r])

Bytes(first, n) == [i \in 1 .. n |-> first + i]

LogInit ==
  /\ length = 0 /\ finished = FALSE
  /\ state = [r \in Readers |-> "off"]
  /\ from = [r \in Readers |-> 0]
  /\ delivered = [r \in Readers |-> <<>>]

Extend ==
  /\ ~finished
  /\ length' \in Nat /\ length' > length
  /\ UNCHANGED <<finished, state, from, delivered>>

Finish ==
  /\ finished' = TRUE
  /\ UNCHANGED <<length, state, from, delivered>>

Open(r) ==
  /\ state[r] = "off"
  /\ \E f \in Offsets :
       /\ from' = [from EXCEPT ![r] = f]
       /\ \E s \in {"open", "refused"} : state' = [state EXCEPT ![r] = s]
  /\ UNCHANGED <<length, finished, delivered>>

Deliver(r) ==
  /\ state[r] = "open"
  /\ \E n \in 1 .. length - Position(r) :
       delivered' = [delivered EXCEPT ![r] = @ \o Bytes(Position(r), n)]
  /\ UNCHANGED <<length, finished, state, from>>

Complete(r) ==
  /\ state[r] = "open"
  /\ finished /\ Position(r) >= length
  /\ state' = [state EXCEPT ![r] = "complete"]
  /\ UNCHANGED <<length, finished, from, delivered>>

Leave(r) ==
  /\ state[r] = "open"
  /\ \E s \in {"lost", "closed"} : state' = [state EXCEPT ![r] = s]
  /\ UNCHANGED <<length, finished, from, delivered>>

LogNext ==
  \/ Extend \/ Finish
  \/ \E r \in Readers : Open(r) \/ Deliver(r) \/ Complete(r) \/ Leave(r)

LogSpec == LogInit /\ [][LogNext]_logVars
=============================================================================
