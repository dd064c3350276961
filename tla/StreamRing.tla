------------------------------ MODULE StreamRing ------------------------------
(***************************************************************************)
(* The ring buffer of a stream_session (tools/server/server-stream.cpp):   *)
(* one producer appends chunks and drops the oldest bytes above the cap,   *)
(* readers drain it from any offset until the session is finalized.  Each  *)
(* action is one critical section of stream_session::mu; finalize() takes  *)
(* no lock.  A byte is represented by its position in the whole stream, so *)
(* that a byte delivered twice, skipped or mixed up is seen.               *)
(***************************************************************************)
EXTENDS Naturals, Sequences

CONSTANTS
  Readers,    \* GET /v1/stream/<conv_id> requests
  Offsets,    \* the values of their ?from= parameter
  Cap,        \* cap_bytes
  MaxChunk,   \* bound: bytes appended at once
  MaxTotal    \* bound: bytes of the whole stream

ASSUME RingAssumption ==
  /\ Offsets \subseteq Nat
  /\ Cap \in Nat \ {0}
  /\ MaxChunk \in Nat
  /\ MaxTotal \in Nat

VARIABLES
  buffer, prefix_dropped, done,  \* stream_session
  total,      \* history: bytes appended so far
  offset,     \* where each reader is
  state,      \* off, open, or how its stream ended
  from,       \* history: where it began
  delivered   \* history: what it was sent

ring == <<buffer, prefix_dropped, total>>
vars == <<buffer, prefix_dropped, done, total, offset, state, from, delivered>>

ReaderStates == {"off", "open", "refused", "lost", "complete", "closed"}

TypeOK ==
  /\ buffer \in Seq(Nat)
  /\ prefix_dropped \in Nat
  /\ done \in BOOLEAN
  /\ total \in Nat
  /\ offset \in [Readers -> Nat]
  /\ state \in [Readers -> ReaderStates]
  /\ from \in [Readers -> Nat]
  /\ delivered \in [Readers -> Seq(Nat)]

Init ==
  /\ buffer = <<>> /\ prefix_dropped = 0 /\ done = FALSE
  /\ total = 0
  /\ offset = [r \in Readers |-> 0]
  /\ state = [r \in Readers |-> "off"]
  /\ from = [r \in Readers |-> 0]
  /\ delivered = [r \in Readers |-> <<>>]

\* The next n bytes of the stream.
Chunk(n) == [i \in 1 .. n |-> total + i]

logical_end == prefix_dropped + Len(buffer)

\* Mutant: the bytes that never entered the buffer are not counted as dropped.
append_large_uncounted(n) ==
  /\ n >= Cap
  /\ prefix_dropped' = prefix_dropped + Len(buffer)
  /\ buffer' = SubSeq(Chunk(n), n - Cap + 1, n)

\* A chunk of the size of the cap or more replaces the buffer.
append_large(n) ==
  /\ n >= Cap
  /\ prefix_dropped' = prefix_dropped + Len(buffer) + (n - Cap)
  /\ buffer' = SubSeq(Chunk(n), n - Cap + 1, n)

Excess(n) == IF Len(buffer) + n > Cap THEN Len(buffer) + n - Cap ELSE 0

append_small(n) ==
  /\ n < Cap
  /\ prefix_dropped' = prefix_dropped + Excess(n)
  /\ buffer' = SubSeq(buffer, Excess(n) + 1, Len(buffer)) \o Chunk(n)

append(n) ==
  /\ ~done /\ total + n <= MaxTotal
  /\ append_large(n) \/ append_small(n)
  /\ total' = total + n
  /\ UNCHANGED <<done, offset, state, from, delivered>>

finalize ==
  /\ ~done
  /\ done' = TRUE
  /\ UNCHANGED <<ring, offset, state, from, delivered>>

\* The GET handler: an offset below the dropped prefix is refused.
open(r) ==
  /\ state[r] = "off"
  /\ \E f \in Offsets :
       /\ from' = [from EXCEPT ![r] = f]
       /\ offset' = [offset EXCEPT ![r] = f]
       /\ state' = [state EXCEPT ![r] = IF f < prefix_dropped THEN "refused" ELSE "open"]
  /\ UNCHANGED <<ring, done, delivered>>

read_lost(r) ==
  /\ state[r] = "open" /\ offset[r] < prefix_dropped
  /\ state' = [state EXCEPT ![r] = "lost"]
  /\ UNCHANGED <<ring, done, offset, from, delivered>>

\* Mutant: the test against the dropped prefix is missing, and the read starts
\* at the oldest byte that is left.
read_bytes_unchecked(r) ==
  /\ state[r] = "open" /\ offset[r] < logical_end
  /\ LET local_off == IF offset[r] < prefix_dropped THEN 0 ELSE offset[r] - prefix_dropped IN
       delivered' = [delivered EXCEPT ![r] = @ \o SubSeq(buffer, local_off + 1, Len(buffer))]
  /\ offset' = [offset EXCEPT ![r] = logical_end]
  /\ UNCHANGED <<ring, done, state, from>>

read_bytes(r) ==
  /\ state[r] = "open" /\ prefix_dropped <= offset[r] /\ offset[r] < logical_end
  /\ delivered' = [delivered EXCEPT ![r] =
                     @ \o SubSeq(buffer, offset[r] - prefix_dropped + 1, Len(buffer))]
  /\ offset' = [offset EXCEPT ![r] = logical_end]
  /\ UNCHANGED <<ring, done, state, from>>

\* Mutant: `done` is looked at before the bytes that are left.
read_end_early(r) ==
  /\ state[r] = "open" /\ done
  /\ state' = [state EXCEPT ![r] = "complete"]
  /\ UNCHANGED <<ring, done, offset, from, delivered>>

\* Mutant: the end is recognized only at the exact end of the buffer.
read_end_exact(r) ==
  /\ state[r] = "open" /\ offset[r] = logical_end /\ done
  /\ state' = [state EXCEPT ![r] = "complete"]
  /\ UNCHANGED <<ring, done, offset, from, delivered>>

read_end(r) ==
  /\ state[r] = "open" /\ offset[r] >= logical_end /\ done
  /\ state' = [state EXCEPT ![r] = "complete"]
  /\ UNCHANGED <<ring, done, offset, from, delivered>>

\* should_stop() holds or the sink refuses the chunk: the reader is gone.
close(r) ==
  /\ state[r] = "open"
  /\ state' = [state EXCEPT ![r] = "closed"]
  /\ UNCHANGED <<ring, done, offset, from, delivered>>

ReadStep(r) == read_lost(r) \/ read_bytes(r) \/ read_end(r)

Next ==
  \/ \E n \in 1 .. MaxChunk : append(n)
  \/ finalize
  \/ \E r \in Readers : open(r) \/ ReadStep(r) \/ close(r)

Spec == Init /\ [][Next]_vars

\* A reader waits at most STREAM_READ_WAKE_INTERVAL_MS before it looks again.
FairSpec == Spec /\ \A r \in Readers : WF_vars(ReadStep(r))

-----------------------------------------------------------------------------
(* Properties.                                                             *)

\* The buffer holds the last bytes of the stream, without gap or repetition,
\* and dropped prefix plus buffer is the whole stream.
RingIsSuffix ==
  /\ prefix_dropped + Len(buffer) = total
  /\ \A i \in 1 .. Len(buffer) : buffer[i] = prefix_dropped + i

\* The cap holds, whatever the size of the chunks.
WithinCap == Len(buffer) <= Cap

\* What a reader was sent is, byte for byte, the piece of the stream between
\* the offset it asked for and the offset it has reached.
ReadsAreContiguous ==
  \A r \in Readers : state[r] # "off" =>
    /\ offset[r] = from[r] + Len(delivered[r])
    /\ \A i \in 1 .. Len(delivered[r]) : delivered[r][i] = from[r] + i

\* A stream that ended because the session was finalized was sent to its end:
\* nothing was appended behind the reader's back.
CompleteMeansAll ==
  \A r \in Readers : state[r] = "complete" => done /\ offset[r] >= total

\* The ring implements the log: readers cannot tell that bytes are dropped.
Log == INSTANCE StreamLog WITH length <- total, finished <- done
ImplementsLog == Log!LogSpec

\* Every open reader of a finalized session ends ("finalize wakes readers").
ReadersEnd == \A r \in Readers : state[r] = "open" /\ done ~> state[r] # "open"
=============================================================================
