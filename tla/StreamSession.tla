---------------------------- MODULE StreamSession ----------------------------
(***************************************************************************)
(* The life of the resumable streams of one conversation id: POST requests *)
(* that attach a session to their response, DELETE requests that cancel    *)
(* it, and the garbage collector (tools/server/server-stream.cpp, the      *)
(* content provider of server-http.cpp, the streaming handler of           *)
(* server-context.cpp).  A POST makes at most one session, so a session    *)
(* has the name of its POST.  The bytes and the readers of a session are   *)
(* in module StreamRing; here a chunk is the number of its result.         *)
(*                                                                         *)
(* cancel() is a chain of steps of the cancelling thread, because it reads *)
(* the hook and the alive flag without keeping the producer from going on. *)
(***************************************************************************)
EXTENDS Naturals, Sequences

CONSTANTS
  Posts,       \* POST requests with the X-Conversation-Id header
  Deletes,     \* DELETE /v1/stream/<conv_id> requests
  None,
  MaxResults   \* bound: results of one generation

Cancellers == Posts \cup Deletes

ASSUME SessionAssumption ==
  /\ Posts \cap Deletes = {}
  /\ None \notin Posts
  /\ MaxResults \in Nat \ {0}

VARIABLES
  sessions,                        \* stream_session_manager: the entry of the conversation
  cancelled, done, hook, ring,     \* the stream_session of each POST
  alive, done_,                    \* its pipe
  ppc, mode,                       \* the HTTP worker of the POST; chunks go to the wire or only to the ring
  got, failed, stopped,            \* its reader: results taken, an error taken, cancelled
  kpc, target                      \* cancel() and finalize(), per thread that calls them

session == <<cancelled, done, hook, ring>>
pipe    == <<alive, done_>>
reader  == <<got, failed, stopped>>
cancels == <<kpc, target>>
vars    == <<sessions, session, pipe, ppc, mode, reader, cancels>>

PostPoints   == {"waiting", "hooking", "next", "reading", "close",
                 "disarm", "unhook", "free", "finalize", "gone"}
CancelPoints == {"idle", "flag", "copy", "test", "call", "finalize", "over"}

\* What a chunk says: a result, an error, or the "[DONE]" of the OpenAI formats.
DoneMark  == MaxResults + 1
ErrorMark == MaxResults + 2
Chunks    == 1 .. MaxResults + 2

TypeOK ==
  /\ sessions \in Posts \cup {None}
  /\ cancelled \in [Posts -> BOOLEAN] /\ done \in [Posts -> BOOLEAN]
  /\ hook \in [Posts -> BOOLEAN] /\ ring \in [Posts -> Seq(Chunks)]
  /\ alive \in [Posts -> BOOLEAN] /\ done_ \in [Posts -> BOOLEAN]
  /\ ppc \in [Posts -> PostPoints] /\ mode \in [Posts -> {"wire", "drain"}]
  /\ got \in [Posts -> 0 .. MaxResults] /\ failed \in [Posts -> BOOLEAN]
  /\ stopped \in [Posts -> BOOLEAN]
  /\ kpc \in [Cancellers -> CancelPoints] /\ target \in [Cancellers -> Posts \cup {None}]

Init ==
  /\ sessions = None
  /\ cancelled = [p \in Posts |-> FALSE] /\ done = [p \in Posts |-> FALSE]
  /\ hook = [p \in Posts |-> FALSE] /\ ring = [p \in Posts |-> <<>>]
  /\ alive = [p \in Posts |-> FALSE] /\ done_ = [p \in Posts |-> FALSE]
  /\ ppc = [p \in Posts |-> "waiting"] /\ mode = [p \in Posts |-> "wire"]
  /\ got = [p \in Posts |-> 0] /\ failed = [p \in Posts |-> FALSE]
  /\ stopped = [p \in Posts |-> FALSE]
  /\ kpc = [c \in Cancellers |-> "idle"] /\ target = [c \in Cancellers |-> None]

Goto(p, point) == ppc' = [ppc EXCEPT ![p] = point]

-----------------------------------------------------------------------------
(* The HTTP worker of a POST.  The slots that work for it are not modelled: *)
(* a result is there whenever the reader takes one.  The peer may be gone  *)
(* whenever the wire looks at it; a worker that found it gone never uses   *)
(* the wire again.                                                         *)

\* The peer left before the first result, or that is an error: there is no stream.
no_stream(p) ==
  /\ ppc[p] = "waiting"
  /\ stopped' = [stopped EXCEPT ![p] = TRUE]
  /\ Goto(p, "gone")
  /\ UNCHANGED <<sessions, session, pipe, mode, got, failed, cancels>>

\* Mutant: the session that was there before is forgotten.
create_or_replace_forgets(p) ==
  /\ ppc[p] = "waiting"
  /\ sessions' = p
  /\ Goto(p, "hooking")
  /\ UNCHANGED <<session, pipe, mode, reader, cancels>>

\* The first result is there: a session takes the place of the previous one,
\* which this thread then has to cancel and finalize.
create_or_replace(p) ==
  /\ ppc[p] = "waiting"
  /\ sessions' = p
  /\ Goto(p, "hooking")
  /\ \/ sessions = None /\ UNCHANGED cancels
     \/ /\ sessions # None
        /\ target' = [target EXCEPT ![p] = sessions]
        /\ kpc' = [kpc EXCEPT ![p] = "flag"]
  /\ UNCHANGED <<session, pipe, mode, reader>>

\* stream_pipe_producer::create, when the previous session is finalized.
set_stop_producer(p) ==
  /\ ppc[p] = "hooking" /\ kpc[p] \in {"idle", "over"}
  /\ hook' = [hook EXCEPT ![p] = TRUE]
  /\ alive' = [alive EXCEPT ![p] = TRUE]
  /\ Goto(p, "next")
  /\ UNCHANGED <<sessions, cancelled, done, ring, done_, mode, reader, cancels>>

\* The response has been written to its end or the peer is gone.
leave(p) == Goto(p, IF mode[p] = "wire" THEN "close" ELSE "disarm")

\* httplib does not ask for the next chunk when the peer is gone.
peer_gone(p) ==
  /\ ppc[p] = "next" /\ mode[p] = "wire"
  /\ Goto(p, "close")
  /\ UNCHANGED <<sessions, session, pipe, mode, reader, cancels>>

\* The generator's first test; with a pipe only cancellation counts.
should_stop(p) ==
  /\ ppc[p] = "next"
  /\ \/ /\ cancelled[p]
        /\ leave(p)
        /\ done_' = [done_ EXCEPT ![p] = @ \/ mode[p] = "wire"]
     \/ /\ ~cancelled[p]
        /\ Goto(p, "reading")
        /\ UNCHANGED done_
  /\ UNCHANGED <<sessions, session, alive, mode, reader, cancels>>

\* One chunk: into the ring unless it is finalized, then to the wire.
deliver(p, chunk, has_next) ==
  /\ ring' = [ring EXCEPT ![p] = IF done[p] THEN @ ELSE Append(@, chunk)]
  /\ \/ /\ mode[p] = "wire"
        /\ Goto(p, "close")
        /\ UNCHANGED done_
     \/ /\ IF has_next THEN Goto(p, "next") ELSE leave(p)
        /\ done_' = [done_ EXCEPT ![p] = @ \/ (mode[p] = "wire" /\ ~has_next)]

HasNext(p) == ~stopped[p] /\ got[p] < MaxResults

\* The first result was taken before there was a session.
flush_first(p) ==
  /\ ppc[p] = "reading" /\ got[p] = 0
  /\ got' = [got EXCEPT ![p] = 1]
  /\ deliver(p, 1, TRUE)
  /\ UNCHANGED <<sessions, cancelled, done, hook, alive, mode, failed, stopped, cancels>>

next_result(p) ==
  /\ ppc[p] = "reading" /\ got[p] > 0 /\ HasNext(p)
  /\ got' = [got EXCEPT ![p] = @ + 1]
  /\ deliver(p, got[p] + 1, TRUE)
  /\ UNCHANGED <<sessions, cancelled, done, hook, alive, mode, failed, stopped, cancels>>

next_error(p) ==
  /\ ppc[p] = "reading" /\ got[p] > 0 /\ HasNext(p)
  /\ failed' = [failed EXCEPT ![p] = TRUE]
  /\ stopped' = [stopped EXCEPT ![p] = TRUE]
  /\ deliver(p, ErrorMark, FALSE)
  /\ UNCHANGED <<sessions, cancelled, done, hook, alive, mode, got, cancels>>

next_done(p) ==
  /\ ppc[p] = "reading" /\ got[p] > 0 /\ ~HasNext(p)
  /\ deliver(p, DoneMark, FALSE)
  /\ UNCHANGED <<sessions, cancelled, done, hook, alive, mode, reader, cancels>>

\* The wait for a result times out and should_stop() holds.
next_stopped(p) ==
  /\ ppc[p] = "reading" /\ got[p] > 0 /\ cancelled[p]
  /\ leave(p)
  /\ done_' = [done_ EXCEPT ![p] = @ \/ mode[p] = "wire"]
  /\ UNCHANGED <<sessions, session, alive, mode, reader, cancels>>

\* Mutant: nothing is drained after the peer left.
close_without_drain(p) ==
  /\ ppc[p] = "close"
  /\ Goto(p, "disarm")
  /\ UNCHANGED <<sessions, session, pipe, mode, reader, cancels>>

close(p) ==
  /\ ppc[p] = "close"
  /\ \/ /\ done_[p] \/ cancelled[p]
        /\ Goto(p, "disarm")
        /\ UNCHANGED mode
     \/ /\ ~done_[p] /\ ~cancelled[p]
        /\ Goto(p, "next")
        /\ mode' = [mode EXCEPT ![p] = "drain"]
  /\ UNCHANGED <<sessions, session, pipe, reader, cancels>>

\* ~server_res_generator: cleanup(), then rd is stopped and destroyed, then the
\* pipe finalizes the session.
cleanup_alive(p) ==
  /\ ppc[p] = "disarm"
  /\ alive' = [alive EXCEPT ![p] = FALSE]
  /\ Goto(p, "unhook")
  /\ UNCHANGED <<sessions, session, done_, mode, reader, cancels>>

cleanup_hook(p) ==
  /\ ppc[p] = "unhook"
  /\ hook' = [hook EXCEPT ![p] = FALSE]
  /\ Goto(p, "free")
  /\ UNCHANGED <<sessions, cancelled, done, ring, pipe, mode, reader, cancels>>

free_reader(p) ==
  /\ ppc[p] = "free"
  /\ stopped' = [stopped EXCEPT ![p] = TRUE]
  /\ Goto(p, "finalize")
  /\ UNCHANGED <<sessions, session, pipe, mode, got, failed, cancels>>

\* Mutant: the pipe does not finalize its session.
destroy_pipe_silent(p) ==
  /\ ppc[p] = "finalize"
  /\ Goto(p, "gone")
  /\ UNCHANGED <<sessions, session, pipe, mode, reader, cancels>>

destroy_pipe(p) ==
  /\ ppc[p] = "finalize"
  /\ done' = [done EXCEPT ![p] = TRUE]
  /\ Goto(p, "gone")
  /\ UNCHANGED <<sessions, cancelled, hook, ring, pipe, mode, reader, cancels>>

-----------------------------------------------------------------------------
(* Cancelling a session.                                                   *)

\* Mutant: the session stays in the map.
evict_and_cancel_keeps(d) ==
  /\ d \in Deletes /\ kpc[d] = "idle"
  /\ target' = [target EXCEPT ![d] = sessions]
  /\ kpc' = [kpc EXCEPT ![d] = IF sessions = None THEN "over" ELSE "flag"]
  /\ UNCHANGED <<sessions, session, pipe, ppc, mode, reader>>

evict_and_cancel(d) ==
  /\ d \in Deletes /\ kpc[d] = "idle"
  /\ sessions' = None
  /\ target' = [target EXCEPT ![d] = sessions]
  /\ kpc' = [kpc EXCEPT ![d] = IF sessions = None THEN "over" ELSE "flag"]
  /\ UNCHANGED <<session, pipe, ppc, mode, reader>>

\* Mutant: only the hook is called, the producer is left to notice by itself.
cancel_flag_unset(c) ==
  /\ kpc[c] = "flag"
  /\ kpc' = [kpc EXCEPT ![c] = "copy"]
  /\ UNCHANGED <<sessions, session, pipe, ppc, mode, reader, target>>

cancel_flag(c) ==
  /\ kpc[c] = "flag"
  /\ cancelled' = [cancelled EXCEPT ![target[c]] = TRUE]
  /\ kpc' = [kpc EXCEPT ![c] = "copy"]
  /\ UNCHANGED <<sessions, done, hook, ring, pipe, ppc, mode, reader, target>>

cancel_copy(c) ==
  /\ kpc[c] = "copy"
  /\ kpc' = [kpc EXCEPT ![c] = IF hook[target[c]] THEN "test" ELSE "finalize"]
  /\ UNCHANGED <<sessions, session, pipe, ppc, mode, reader, target>>

cancel_test(c) ==
  /\ kpc[c] = "test"
  /\ kpc' = [kpc EXCEPT ![c] = IF alive[target[c]] THEN "call" ELSE "finalize"]
  /\ UNCHANGED <<sessions, session, pipe, ppc, mode, reader, target>>

cancel_call(c) ==
  /\ kpc[c] = "call"
  /\ stopped' = [stopped EXCEPT ![target[c]] = TRUE]
  /\ kpc' = [kpc EXCEPT ![c] = "finalize"]
  /\ UNCHANGED <<sessions, session, pipe, ppc, mode, got, failed, target>>

cancel_finalize(c) ==
  /\ kpc[c] = "finalize"
  /\ done' = [done EXCEPT ![target[c]] = TRUE]
  /\ kpc' = [kpc EXCEPT ![c] = "over"]
  /\ UNCHANGED <<sessions, cancelled, hook, ring, pipe, ppc, mode, reader, target>>

\* A completed session whose time is over.
gc(p) ==
  /\ sessions = p /\ done[p]
  /\ sessions' = None
  /\ UNCHANGED <<session, pipe, ppc, mode, reader, cancels>>

-----------------------------------------------------------------------------

\* A step the worker takes by itself, and one that needs the slots.
WorkerStep(p) ==
  \/ set_stop_producer(p) \/ peer_gone(p) \/ should_stop(p)
  \/ flush_first(p) \/ next_done(p) \/ next_stopped(p)
  \/ close(p) \/ cleanup_alive(p) \/ cleanup_hook(p) \/ free_reader(p) \/ destroy_pipe(p)

ResultStep(p) == no_stream(p) \/ create_or_replace(p) \/ next_result(p) \/ next_error(p)

CancelStep(c) ==
  cancel_flag(c) \/ cancel_copy(c) \/ cancel_test(c) \/ cancel_call(c) \/ cancel_finalize(c)

Next ==
  \/ \E p \in Posts : ResultStep(p) \/ WorkerStep(p) \/ gc(p)
  \/ \E d \in Deletes : evict_and_cancel(d)
  \/ \E c \in Cancellers : CancelStep(c)

Spec == Init /\ [][Next]_vars

\* The threads run.  Nothing obliges the slots to send a result, a peer to
\* leave, a request to arrive or the garbage collector to come by.
FairSpec ==
  /\ Spec
  /\ \A p \in Posts : WF_vars(WorkerStep(p))
  /\ \A c \in Cancellers : WF_vars(CancelStep(c))

-----------------------------------------------------------------------------
(* Properties.                                                             *)

Attached(p) == ppc[p] \notin {"waiting", "gone"}

\* A stream that came to its end without being cancelled is in the ring as a
\* whole, whenever its peer left: every result once and in order, then the end
\* or error mark (which the drain may repeat).
RingComplete ==
  \A p \in Posts : done[p] /\ ~cancelled[p] =>
    /\ Len(ring[p]) > got[p]
    /\ \A i \in 1 .. Len(ring[p]) :
         IF i <= got[p] THEN ring[p][i] = i ELSE ring[p][i] > MaxResults
    /\ got[p] = MaxResults \/ failed[p]

\* A generation that still fills a ring can be reached: its session is in the
\* map, where a DELETE or a POST finds it, or somebody is about to finalize it.
LiveIsReachable ==
  \A p \in Posts : Attached(p) /\ ~done[p] =>
    sessions = p \/ \E c \in Cancellers : target[c] = p /\ kpc[c] # "over"

\* The reader of a response is stopped by one foreign thread at most: no two
\* threads cancel the same session.
CancelledByOne ==
  \A c, d \in Cancellers : target[c] = target[d] /\ target[c] # None => c = d

\* A generation that somebody cancels ends and its response is freed, also when
\* no further result arrives and when its hook was not yet installed.
CancelledIsFreed ==
  \A p \in Posts : (\E c \in Cancellers : target[c] = p) ~> ppc[p] = "gone"

\* When the last result or an error was taken, the session is finalized, whether
\* or not the peer is there to read.
AnsweredIsFinalized ==
  \A p \in Posts : Attached(p) /\ (got[p] = MaxResults \/ failed[p]) ~> done[p]

\* "a cancel arriving during teardown can never call stop() on a freed response"
\* (tools/server/README-dev.md:135).
NoStopAfterFree ==
  \A c \in Cancellers : kpc[c] = "call" => ppc[target[c]] \notin {"finalize", "gone"}
=============================================================================
