------------------------ MODULE StreamSessionProofs ------------------------
(***************************************************************************)
(* Theorems about StreamSession for any number of POST and DELETE requests *)
(* and of results: no session is cancelled twice, a live generation can be *)
(* reached, and a stream that was not cancelled is in the ring as a whole. *)
(***************************************************************************)
EXTENDS StreamSession, TLAPS

\* A session that some thread cancels has left the map, and no other thread
\* cancels it; a thread cancels at most once.
Handed ==
  /\ sessions # None => ppc[sessions] # "waiting"
  /\ \A c \in Cancellers : target[c] # None =>
       /\ ppc[target[c]] # "waiting" /\ target[c] # sessions
       /\ kpc[c] # "idle"
  /\ \A c \in Cancellers : kpc[c] \notin {"idle", "over"} => target[c] # None
  /\ \A p \in Posts : ppc[p] = "waiting" => kpc[p] = "idle"

\* finalize() of a cancelling thread comes after the flag.
Flagged ==
  \A c \in Cancellers : kpc[c] \in {"copy", "test", "call", "finalize"} => cancelled[target[c]]

\* The ring has the results that were taken, then marks.
Ordered(p) ==
  /\ Len(ring[p]) >= got[p]
  /\ \A i \in 1 .. Len(ring[p]) :
       IF i <= got[p] THEN ring[p][i] = i ELSE ring[p][i] > MaxResults
  /\ HasNext(p) => Len(ring[p]) = got[p]

Complete(p) == Len(ring[p]) > got[p] /\ (got[p] = MaxResults \/ failed[p])

\* How far the ring of a stream is that nobody cancelled: only its own worker
\* finalizes it, only an error stops its reader, and the worker does not leave
\* before the end is in the ring.
Filled(p) ==
  ~cancelled[p] =>
    /\ done[p] => ppc[p] = "gone"
    /\ Ordered(p)
    /\ failed[p] => got[p] > 0
    /\ stopped[p] /\ ppc[p] \notin {"finalize", "gone"} => failed[p]
    /\ \/ done_[p] \/ done[p]
       \/ ppc[p] \in {"disarm", "unhook", "free", "finalize"}
       => Complete(p)

IInv == /\ TypeOK /\ Handed /\ CancelledByOne /\ Flagged /\ LiveIsReachable
        /\ \A p \in Posts : Filled(p)

-----------------------------------------------------------------------------
\* The invariant holds before the first request.
LEMMA InitIInv == Init => IInv
  <1> SUFFICES ASSUME Init PROVE IInv
    OBVIOUS
  <1> USE DEF Init
  <1>1. TypeOK
    BY SessionAssumption DEF TypeOK, PostPoints, CancelPoints
  <1>2. Handed /\ CancelledByOne /\ Flagged
    BY DEF Cancellers, Handed, CancelledByOne, Flagged
  <1>3. LiveIsReachable
    BY DEF LiveIsReachable, Attached
  <1>4. ASSUME NEW p \in Posts PROVE Filled(p)
    BY SessionAssumption DEF Filled, Ordered, HasNext
  <1>5. QED
    BY <1>1, <1>2, <1>3, <1>4 DEF IInv

-----------------------------------------------------------------------------
(* Types.                                                                  *)

\* What a chunk does to the types of ring, ppc and done_.
LEMMA DeliverType ==
  ASSUME TypeOK, NEW p \in Posts, NEW chunk \in Chunks, NEW has_next \in BOOLEAN,
         deliver(p, chunk, has_next)
  PROVE  /\ ring' \in [Posts -> Seq(Chunks)]
         /\ ppc' \in [Posts -> PostPoints]
         /\ done_' \in [Posts -> BOOLEAN]
  <1> USE DEF TypeOK
  <1>1. ring' \in [Posts -> Seq(Chunks)]
    BY DEF deliver
  <1>2. ppc' \in [Posts -> PostPoints]
    BY DEF deliver, Goto, leave, PostPoints
  <1>3. done_' \in [Posts -> BOOLEAN]
    <2>1. (done_[p] \/ (mode[p] = "wire" /\ ~has_next)) \in BOOLEAN
      OBVIOUS
    <2>2. QED
      BY <2>1 DEF deliver
  <1>4. QED
    BY <1>1, <1>2, <1>3

\* The steps of a worker keep the types, ...
LEMMA WorkerType ==
  ASSUME TypeOK, NEW p \in Posts, WorkerStep(p) \/ ResultStep(p)
  PROVE  TypeOK'
  <1>1. CASE flush_first(p)
    <2>1. 1 \in Chunks /\ 1 \in 0 .. MaxResults
      BY SessionAssumption DEF Chunks
    <2>2. QED
      BY <1>1, <2>1, DeliverType DEF flush_first, TypeOK, cancels
  <1>2. CASE next_result(p)
    <2>1. got[p] + 1 \in Chunks /\ got[p] + 1 \in 0 .. MaxResults
      BY <1>2, SessionAssumption DEF next_result, HasNext, Chunks, TypeOK
    <2>2. QED
      BY <1>2, <2>1, DeliverType DEF next_result, TypeOK, cancels
  <1>3. CASE next_error(p)
    <2>1. ErrorMark \in Chunks
      BY SessionAssumption DEF ErrorMark, Chunks
    <2>2. QED
      BY <1>3, <2>1, DeliverType DEF next_error, TypeOK, cancels
  <1>4. CASE next_done(p)
    <2>1. DoneMark \in Chunks
      BY SessionAssumption DEF DoneMark, Chunks
    <2>2. QED
      BY <1>4, <2>1, DeliverType DEF next_done, TypeOK, cancels, reader
  <1>5. CASE create_or_replace(p)
    BY <1>5 DEF create_or_replace, Goto, TypeOK, PostPoints, CancelPoints, session, pipe, reader, cancels
  <1>6. CASE should_stop(p) \/ next_stopped(p)
    <2>1. (done_[p] \/ mode[p] = "wire") \in BOOLEAN
      OBVIOUS
    <2>2. QED
      BY <1>6, <2>1 DEF should_stop, next_stopped, leave, Goto, TypeOK, PostPoints,
         session, reader, cancels
  <1>7. CASE no_stream(p) \/ set_stop_producer(p) \/ peer_gone(p)
    BY <1>7 DEF no_stream, set_stop_producer, peer_gone, Goto, TypeOK, PostPoints,
       session, pipe, reader, cancels
  <1>8. CASE close(p) \/ cleanup_alive(p) \/ cleanup_hook(p) \/ free_reader(p) \/ destroy_pipe(p)
    BY <1>8 DEF close, cleanup_alive, cleanup_hook, free_reader, destroy_pipe,
       Goto, TypeOK, PostPoints, session, pipe, reader, cancels
  <1>9. QED
    BY <1>1, <1>2, <1>3, <1>4, <1>5, <1>6, <1>7, <1>8 DEF WorkerStep, ResultStep

\* ... and so do those that end a session.
LEMMA CancelType ==
  ASSUME TypeOK,
         \/ \E p \in Posts : gc(p)
         \/ \E d \in Deletes : evict_and_cancel(d)
         \/ \E c \in Cancellers : CancelStep(c)
  PROVE  TypeOK'
  <1>1. ASSUME NEW p \in Posts, gc(p) PROVE TypeOK'
    BY <1>1 DEF gc, TypeOK, session, pipe, reader, cancels
  <1>2. ASSUME NEW d \in Deletes, evict_and_cancel(d) PROVE TypeOK'
    BY <1>2 DEF evict_and_cancel, TypeOK, CancelPoints, Cancellers, session, pipe, reader
  <1>3. ASSUME NEW c \in Cancellers, CancelStep(c) PROVE TypeOK'
    BY <1>3, ZenonT(90) DEF CancelStep, cancel_flag, cancel_copy, cancel_test, cancel_call, cancel_finalize,
       TypeOK, CancelPoints, session, pipe, reader
  <1>4. QED
    BY <1>1, <1>2, <1>3

-----------------------------------------------------------------------------
(* Who cancels what.                                                       *)

Safe == Handed /\ CancelledByOne /\ Flagged /\ LiveIsReachable

\* A worker that goes on and leaves the map and the cancelling threads alone.
LEMMA WorkerSafe ==
  ASSUME IInv, NEW p \in Posts, NEW x, x # "waiting", x = "gone" => done'[p] \/ ppc[p] = "waiting",
         x # "gone" => ppc[p] # "waiting", ppc[p] # "gone",
         ppc' = [ppc EXCEPT ![p] = x],
         done' \in {done, [done EXCEPT ![p] = TRUE]},
         UNCHANGED <<sessions, kpc, target, cancelled>>
  PROVE  Safe'
  <1> USE DEF IInv, TypeOK
  <1>1. Handed'
    BY DEF Handed
  <1>2. CancelledByOne' /\ Flagged'
    BY DEF CancelledByOne, Flagged
  <1>3. LiveIsReachable'
    BY DEF LiveIsReachable, Attached
  <1>4. QED
    BY <1>1, <1>2, <1>3 DEF Safe

\* Creating a session, which may replace another, ...
LEMMA CreateSafe ==
  ASSUME IInv, NEW p \in Posts, create_or_replace(p)
  PROVE  Safe'
  <1> USE DEF IInv, TypeOK, create_or_replace, Goto, session, cancels
  <1>1. p \in Cancellers /\ p # None
    BY SessionAssumption DEF Cancellers
  <1>2. kpc[p] = "idle" /\ target[p] = None /\ sessions # p
    BY <1>1 DEF Handed
  <1>3. \A c \in Cancellers : target[c] # p
    BY <1>1 DEF Handed
  <1>4. /\ sessions' = p /\ ppc' = [ppc EXCEPT ![p] = "hooking"]
        /\ target' = [target EXCEPT ![p] = sessions]
        /\ kpc' = [kpc EXCEPT ![p] = IF sessions = None THEN "idle" ELSE "flag"]
        /\ UNCHANGED <<cancelled, done>>
    <2>1. CASE sessions = None
      BY <2>1, <1>1, <1>2
    <2>2. CASE sessions # None
      BY <2>2
    <2>3. QED
      BY <2>1, <2>2
  <1> HIDE DEF create_or_replace
  <1>5. Handed'
    BY <1>1, <1>2, <1>3, <1>4 DEF Handed
  <1>6. CancelledByOne'
    BY <1>1, <1>2, <1>4 DEF CancelledByOne, Handed
  <1>7. Flagged'
    BY <1>1, <1>4 DEF Flagged
  <1>8. LiveIsReachable'
    <2> SUFFICES ASSUME NEW q \in Posts, Attached(q)', ~done'[q], q # p
                 PROVE  \E c \in Cancellers : target'[c] = q /\ kpc'[c] # "over"
      BY <1>4 DEF LiveIsReachable
    <2>1. Attached(q) /\ ~done[q]
      BY <1>4 DEF Attached
    <2>2. CASE sessions = q
      BY <2>2, <1>1, <1>4
    <2>3. CASE sessions # q
      <3>1. PICK c \in Cancellers : target[c] = q /\ kpc[c] # "over"
        BY <2>1, <2>3 DEF LiveIsReachable
      <3>2. c # p
        BY <3>1, <1>2, SessionAssumption
      <3>3. QED
        BY <3>1, <3>2, <1>4
    <2>4. QED
      BY <2>2, <2>3
  <1>9. QED
    BY <1>5, <1>6, <1>7, <1>8 DEF Safe

\* ... deleting one ...
LEMMA EvictSafe ==
  ASSUME IInv, NEW d \in Deletes, evict_and_cancel(d)
  PROVE  Safe'
  <1> USE DEF IInv, TypeOK
  <1>1. d \in Cancellers /\ d \notin Posts
    BY SessionAssumption DEF Cancellers
  <1>2. kpc[d] = "idle" /\ target[d] = None
    BY <1>1 DEF Handed, evict_and_cancel
  <1>4. /\ sessions' = None
        /\ target' = [target EXCEPT ![d] = sessions]
        /\ kpc' = [kpc EXCEPT ![d] = IF sessions = None THEN "over" ELSE "flag"]
        /\ UNCHANGED <<cancelled, done, ppc>>
    BY DEF evict_and_cancel, session
  <1>5. Handed'
    BY <1>1, <1>2, <1>4 DEF Handed
  <1>6. CancelledByOne'
    BY <1>1, <1>2, <1>4 DEF CancelledByOne, Handed
  <1>7. Flagged'
    BY <1>1, <1>4 DEF Flagged
  <1>8. LiveIsReachable'
    <2> SUFFICES ASSUME NEW q \in Posts, Attached(q)', ~done'[q]
                 PROVE  \E c \in Cancellers : target'[c] = q /\ kpc'[c] # "over"
      BY DEF LiveIsReachable
    <2>1. Attached(q) /\ ~done[q]
      BY <1>4 DEF Attached
    <2>2. CASE sessions = q
      BY <2>2, <1>1, <1>4, SessionAssumption
    <2>3. CASE sessions # q
      <3>1. PICK c \in Cancellers : target[c] = q /\ kpc[c] # "over"
        BY <2>1, <2>3 DEF LiveIsReachable
      <3>2. c # d
        BY <3>1, <1>2, SessionAssumption
      <3>3. QED
        BY <3>1, <3>2, <1>4
    <2>4. QED
      BY <2>2, <2>3
  <1>9. QED
    BY <1>5, <1>6, <1>7, <1>8 DEF Safe

\* ... and cancelling one keep order about who cancels what.
LEMMA CancelSafe ==
  ASSUME IInv, NEW c \in Cancellers, CancelStep(c)
  PROVE  Safe'
  <1> USE DEF IInv, TypeOK
  <1>1. target[c] \in Posts /\ kpc[c] \notin {"idle", "over"}
    BY DEF Handed, CancelStep, cancel_flag, cancel_copy, cancel_test, cancel_call, cancel_finalize
  <1>2. /\ UNCHANGED <<sessions, target, ppc>>
        /\ \E x \in {"copy", "test", "call", "finalize", "over"} : kpc' = [kpc EXCEPT ![c] = x]
        /\ kpc[c] = "flag" => cancelled'[target[c]]
        /\ kpc'[c] = "over" => done'[target[c]]
        /\ \A p \in Posts : cancelled[p] => cancelled'[p]
        /\ \A p \in Posts : done[p] => done'[p]
    BY <1>1 DEF CancelStep, cancel_flag, cancel_copy, cancel_test, cancel_call, cancel_finalize, session
  <1>3. Handed'
    BY <1>1, <1>2 DEF Handed
  <1>4. CancelledByOne'
    BY <1>2 DEF CancelledByOne
  <1>5. Flagged'
    <2> SUFFICES ASSUME NEW d \in Cancellers, kpc'[d] \in {"copy", "test", "call", "finalize"}
                 PROVE  cancelled'[target[d]]
      BY <1>2 DEF Flagged
    <2>1. target[d] \in Posts /\ (d # c => kpc[d] = kpc'[d])
      BY <1>1, <1>2 DEF Handed
    <2>2. QED
      BY <2>1, <1>1, <1>2, SessionAssumption DEF Flagged, CancelPoints
  <1>6. LiveIsReachable'
    <2> SUFFICES ASSUME NEW q \in Posts, Attached(q), ~done'[q], sessions # q
                 PROVE  \E d \in Cancellers : target[d] = q /\ kpc'[d] # "over"
      BY <1>2 DEF LiveIsReachable, Attached
    <2>1. PICK d \in Cancellers : target[d] = q /\ kpc[d] # "over"
      BY <1>2 DEF LiveIsReachable
    <2>2. QED
      BY <2>1, <1>2
  <1>7. QED
    BY <1>3, <1>4, <1>5, <1>6 DEF Safe

-----------------------------------------------------------------------------
(* What is in the rings.                                                   *)

\* A ring that nobody touches.
LEMMA FilledSame ==
  ASSUME NEW p \in Posts, Filled(p), cancelled[p] => cancelled'[p],
         ~cancelled'[p] =>
           /\ ring'[p] = ring[p] /\ got'[p] = got[p] /\ failed'[p] = failed[p]
           /\ stopped'[p] = stopped[p] /\ done'[p] = done[p] /\ done_'[p] = done_[p]
           /\ ppc'[p] = ppc[p]
  PROVE  Filled(p)'
  BY DEF Filled, Ordered, Complete, HasNext

\* A worker that moves on without taking a result: it reaches the end of its
\* response only with everything in the ring.
LEMMA FilledMove ==
  ASSUME NEW p \in Posts, TypeOK, Filled(p), ~cancelled'[p],
         UNCHANGED <<ring, got, failed, stopped, done, cancelled>>,
         ppc[p] \notin {"finalize", "gone"}, ppc'[p] \notin {"finalize", "gone"},
         done_'[p] => done_[p] \/ Complete(p),
         ppc'[p] \in {"disarm", "unhook", "free"} =>
           done_[p] \/ Complete(p) \/ ppc[p] \in {"disarm", "unhook", "free"}
  PROVE  Filled(p)'
  BY DEF Filled, Ordered, Complete, HasNext

\* What appending one chunk does to a ring.
LEMMA AppendFact ==
  ASSUME NEW s \in Seq(Chunks), NEW x \in Chunks
  PROVE  /\ Append(s, x) \in Seq(Chunks)
         /\ Len(Append(s, x)) = Len(s) + 1
         /\ Len(s) \in Nat
         /\ \A i \in 1 .. Len(s) + 1 : Append(s, x)[i] = IF i <= Len(s) THEN s[i] ELSE x
  OBVIOUS

\* What the write of a chunk changes.
Written(p, chunk, has_next) ==
    /\ ring'[p] = Append(ring[p], chunk)
    /\ Len(ring'[p]) = Len(ring[p]) + 1
    /\ \A i \in 1 .. Len(ring[p]) + 1 : ring'[p][i] = IF i <= Len(ring[p]) THEN ring[p][i] ELSE chunk
    /\ done_'[p] => done_[p] \/ ~has_next
    /\ ppc'[p] \in {"close", "next"} \/ (~has_next /\ ppc'[p] = "disarm")
    /\ ~done[p]

\* A chunk of a stream that nobody cancelled goes into the ring.
LEMMA Delivered ==
  ASSUME NEW p \in Posts, TypeOK, Filled(p), ~cancelled[p], ppc[p] = "reading",
         NEW chunk \in Chunks, NEW has_next \in BOOLEAN, deliver(p, chunk, has_next)
  PROVE  Written(p, chunk, has_next)
  <1>1. ~done[p]
    BY DEF Filled
  <1>2. ring'[p] = Append(ring[p], chunk)
    BY <1>1 DEF deliver, TypeOK
  <1>3. done_'[p] => done_[p] \/ ~has_next
    BY DEF deliver, TypeOK
  <1>4. ppc'[p] \in {"close", "next"} \/ (~has_next /\ ppc'[p] = "disarm")
    BY DEF deliver, Goto, leave, TypeOK
  <1>5. ring[p] \in Seq(Chunks)
    BY DEF TypeOK
  <1>6. QED
    BY <1>1, <1>2, <1>3, <1>4, <1>5, AppendFact DEF Written

\* The first flush of a session that nobody cancelled keeps its ring as it should be.
LEMMA FlushFilled ==
  ASSUME NEW p \in Posts, TypeOK, Filled(p), ~cancelled[p], flush_first(p)
  PROVE  Filled(p)'
  <1> USE DEF flush_first, TypeOK
  <1>1. 1 \in Chunks /\ MaxResults \in Nat \ {0}
    BY SessionAssumption DEF Chunks
  <1>2. Ordered(p) /\ ~failed[p] /\ ~done_[p] /\ ~done[p]
    BY <1>1 DEF Filled, Complete
  <1>3. ~stopped[p] /\ HasNext(p) /\ Len(ring[p]) = 0
    BY <1>1, <1>2 DEF Filled, HasNext, Ordered
  <1>4. got'[p] = 1 /\ UNCHANGED <<failed, stopped, done, cancelled>>
    OBVIOUS
  <1>5. /\ Len(ring'[p]) = 1 /\ ring'[p][1] = 1
        /\ ~done_'[p] /\ ppc'[p] \in {"close", "next"}
    <2>1. deliver(p, 1, TRUE) /\ ppc[p] = "reading" /\ TRUE \in BOOLEAN
      OBVIOUS
    <2> HIDE DEF TypeOK, flush_first
    <2>2. /\ Len(ring'[p]) = Len(ring[p]) + 1
          /\ \A i \in 1 .. Len(ring[p]) + 1 : ring'[p][i] = IF i <= Len(ring[p]) THEN ring[p][i] ELSE 1
          /\ done_'[p] => done_[p] \/ ~TRUE
          /\ ppc'[p] \in {"close", "next"} \/ (~TRUE /\ ppc'[p] = "disarm")
      <3>1. Written(p, 1, TRUE)
        BY <1>1, <2>1, Delivered
      <3>2. QED
        BY <3>1 DEF Written
    <2>3. QED
      BY <1>2, <1>3, <2>2
  <1>6. Ordered(p)'
    BY <1>4, <1>5 DEF Ordered
  <1>7. QED
    BY <1>2, <1>3, <1>4, <1>5, <1>6 DEF Filled

\* So does each result after it ...
LEMMA ResultFilled ==
  ASSUME NEW p \in Posts, TypeOK, Filled(p), ~cancelled[p], next_result(p)
  PROVE  Filled(p)'
  <1> USE DEF next_result, TypeOK
  <1>1. /\ got[p] + 1 \in Chunks /\ got[p] \in Nat
        /\ HasNext(p) /\ Ordered(p) /\ Len(ring[p]) = got[p]
    BY SessionAssumption DEF Chunks, HasNext, Filled, Ordered
  <1>2. ~done_[p] /\ ~done[p] /\ ~stopped[p]
    BY <1>1 DEF Filled, Complete, HasNext
  <1>3. got'[p] = got[p] + 1 /\ UNCHANGED <<failed, stopped, done, cancelled>>
    OBVIOUS
  <1>4. /\ Len(ring'[p]) = got[p] + 1 /\ ~done_'[p] /\ ppc'[p] \in {"close", "next"}
        /\ \A i \in 1 .. got[p] + 1 : ring'[p][i] = IF i <= got[p] THEN ring[p][i] ELSE got[p] + 1
    <2>1. deliver(p, got[p] + 1, TRUE) /\ ppc[p] = "reading" /\ TRUE \in BOOLEAN
      OBVIOUS
    <2> HIDE DEF TypeOK, next_result
    <2>2. QED
      <3>1. Written(p, got[p] + 1, TRUE)
        BY <1>1, <1>2, <2>1, Delivered
      <3>2. QED
        BY <1>1, <1>2, <3>1 DEF Written
  <1>5. Ordered(p)'
    BY <1>1, <1>3, <1>4 DEF Ordered
  <1>6. QED
    BY <1>2, <1>3, <1>4, <1>5 DEF Filled

\* An error and the mark of the end come after the results.
LEMMA MarkFilled ==
  ASSUME NEW p \in Posts, TypeOK, Filled(p), ~cancelled[p], next_error(p) \/ next_done(p)
  PROVE  Filled(p)'
  <1> USE DEF TypeOK
  <1>1. PICK mark \in {DoneMark, ErrorMark} : deliver(p, mark, FALSE)
    BY DEF next_error, next_done
  <1>2. mark \in Chunks /\ mark > MaxResults /\ MaxResults \in Nat
    BY SessionAssumption DEF DoneMark, ErrorMark, Chunks
  <1>3. /\ ppc[p] = "reading" /\ got[p] > 0
        /\ UNCHANGED <<got, done, cancelled>>
        /\ stopped'[p] => stopped[p] \/ failed'[p]
        /\ failed[p] => failed'[p]
        /\ ~HasNext(p)'
        /\ got[p] = MaxResults \/ failed'[p] \/ stopped[p]
    <2>1. CASE next_error(p)
      BY <2>1 DEF next_error, HasNext, cancels
    <2>2. CASE next_done(p)
      BY <2>2, <1>2 DEF next_done, HasNext, reader, cancels
    <2>3. QED
      BY <2>1, <2>2
  <1>4. /\ Len(ring'[p]) = Len(ring[p]) + 1 /\ Len(ring[p]) \in Nat
        /\ \A i \in 1 .. Len(ring[p]) + 1 : ring'[p][i] = IF i <= Len(ring[p]) THEN ring[p][i] ELSE mark
        /\ ppc'[p] \in {"close", "next", "disarm"}
        /\ ~done[p]
    <2>1. Len(ring[p]) \in Nat /\ FALSE \in BOOLEAN
      OBVIOUS
    <2> HIDE DEF TypeOK
    <2>2. QED
      <3>1. Written(p, mark, FALSE)
        BY <1>1, <1>2, <1>3, <2>1, Delivered
      <3>2. QED
        BY <1>1, <1>2, <1>3, <2>1, <3>1 DEF Written
  <1>5. Ordered(p) /\ (stopped[p] => failed[p])
    BY <1>3 DEF Filled
  <1>6. Ordered(p)'
    <2>1. got[p] \in Nat /\ Len(ring[p]) >= got[p] /\ got'[p] = got[p]
      BY <1>3, <1>5 DEF Ordered
    <2>2. ASSUME NEW i \in 1 .. Len(ring[p]) + 1
          PROVE  IF i <= got[p] THEN ring'[p][i] = i ELSE ring'[p][i] > MaxResults
      <3> HIDE DEF TypeOK
      <3>1. CASE i <= Len(ring[p])
        <4>1. ring'[p][i] = ring[p][i] /\ i \in 1 .. Len(ring[p])
          BY <3>1, <1>4
        <4>2. QED
          BY <4>1, <1>5 DEF Ordered
      <3>2. CASE i = Len(ring[p]) + 1
        <4>1. ring'[p][i] = mark
          BY <3>2, <1>4
        <4>2. ~(i <= got[p])
          BY <3>2, <2>1, <1>4
        <4>3. QED
          BY <4>1, <4>2, <1>2
      <3>3. QED
        BY <3>1, <3>2, <1>4
    <2>3. QED
      BY <1>3, <1>4, <2>1, <2>2 DEF Ordered
  <1>7. Complete(p)'
    BY <1>3, <1>4, <1>5 DEF Complete, Ordered
  <1>8. QED
    BY <1>3, <1>4, <1>5, <1>6, <1>7 DEF Filled

\* ... and every step of a worker.
LEMMA WorkerFilled ==
  ASSUME NEW p \in Posts, TypeOK, Filled(p), WorkerStep(p) \/ ResultStep(p)
  PROVE  Filled(p)'
  <1> SUFFICES ASSUME ~cancelled[p] PROVE Filled(p)'
    <2>1. UNCHANGED cancelled
      BY DEF WorkerStep, ResultStep, no_stream, create_or_replace, set_stop_producer, peer_gone,
         should_stop, flush_first, next_result, next_error, next_done, next_stopped, close,
         cleanup_alive, cleanup_hook, free_reader, destroy_pipe, session
    <2>2. QED
      BY <2>1 DEF Filled
  <1> USE DEF Goto, session, pipe, reader, cancels
  <1>1. CASE no_stream(p) \/ create_or_replace(p)
    BY <1>1 DEF no_stream, create_or_replace, Filled, Ordered, Complete, HasNext, TypeOK
  <1>2. CASE set_stop_producer(p) \/ peer_gone(p)
    BY <1>2, FilledMove DEF set_stop_producer, peer_gone, TypeOK
  <1>3. CASE should_stop(p)
    BY <1>3, FilledMove DEF should_stop, TypeOK
  <1>4. CASE close(p)
    BY <1>4, FilledMove DEF close, TypeOK
  <1>5. CASE next_stopped(p)
    BY <1>5 DEF next_stopped
  <1>6. CASE cleanup_alive(p) \/ cleanup_hook(p)
    BY <1>6, FilledMove, ZenonT(90) DEF cleanup_alive, cleanup_hook, TypeOK
  <1>7. CASE free_reader(p)
    BY <1>7 DEF free_reader, Filled, Ordered, Complete, HasNext, TypeOK
  <1>8. CASE destroy_pipe(p)
    BY <1>8 DEF destroy_pipe, Filled, Ordered, Complete, HasNext, TypeOK
  <1>9. QED
    BY <1>1, <1>2, <1>3, <1>4, <1>5, <1>6, <1>7, <1>8, FlushFilled, ResultFilled, MarkFilled
    DEF WorkerStep, ResultStep

\* A worker touches the ring, the reader and the pipe of its own stream only.
LEMMA OtherFilled ==
  ASSUME NEW p \in Posts, TypeOK, WorkerStep(p) \/ ResultStep(p), NEW q \in Posts, q # p, Filled(q)
  PROVE  Filled(q)'
  <1>1. /\ ring'[q] = ring[q] /\ got'[q] = got[q] /\ failed'[q] = failed[q]
        /\ stopped'[q] = stopped[q] /\ done'[q] = done[q] /\ done_'[q] = done_[q]
        /\ ppc'[q] = ppc[q] /\ cancelled'[q] = cancelled[q]
    <2> USE DEF TypeOK, Goto, leave, deliver, session, pipe, reader, cancels
    <2>1. CASE WorkerStep(p)
      BY <2>1 DEF WorkerStep, set_stop_producer, peer_gone, should_stop, flush_first, next_done,
         next_stopped, close, cleanup_alive, cleanup_hook, free_reader, destroy_pipe
    <2>2. CASE ResultStep(p)
      BY <2>2 DEF ResultStep, no_stream, create_or_replace, next_result, next_error
    <2>3. QED
      BY <2>1, <2>2
  <1>2. QED
    BY <1>1, FilledSame

\* A cancelling thread keeps the rings of the sessions that nobody cancelled.
LEMMA CancelFilled ==
  ASSUME IInv, NEW c \in Cancellers, CancelStep(c), NEW p \in Posts
  PROVE  Filled(p)'
  <1> USE DEF IInv, TypeOK, session, pipe, reader
  <1>1. target[c] \in Posts /\ Filled(p)
    BY DEF Handed, CancelStep, cancel_flag, cancel_copy, cancel_test, cancel_call, cancel_finalize
  <1>2. CASE cancel_flag(c)
    BY <1>1, <1>2, FilledSame DEF cancel_flag
  <1>3. CASE cancel_copy(c) \/ cancel_test(c)
    BY <1>1, <1>3, FilledSame DEF cancel_copy, cancel_test
  <1>4. CASE cancel_call(c) \/ cancel_finalize(c)
    <2>1. cancelled[target[c]]
      BY <1>4 DEF Flagged, cancel_call, cancel_finalize
    <2>2. QED
      BY <1>1, <1>4, <2>1, FilledSame DEF cancel_call, cancel_finalize
  <1>5. QED
    BY <1>2, <1>3, <1>4 DEF CancelStep

-----------------------------------------------------------------------------
\* No step of a worker confuses who cancels what.
LEMMA WorkerKeepsSafe ==
  ASSUME IInv, NEW p \in Posts, WorkerStep(p) \/ ResultStep(p)
  PROVE  Safe'
  <1> USE DEF Goto, session, pipe, reader, cancels
  <1>1. CASE create_or_replace(p)
    BY <1>1, CreateSafe
  <1>2. CASE no_stream(p) \/ set_stop_producer(p) \/ peer_gone(p) \/ should_stop(p) \/ next_stopped(p)
    <2> USE DEF IInv, TypeOK, leave
    <2>1. PICK x : /\ ppc' = [ppc EXCEPT ![p] = x] /\ x # "waiting"
                   /\ x = "gone" <=> ppc[p] = "waiting"
                   /\ ppc[p] # "gone"
                   /\ UNCHANGED <<done, sessions, kpc, target, cancelled>>
      BY <1>2 DEF no_stream, set_stop_producer, peer_gone, should_stop, next_stopped
    <2> HIDE DEF IInv, TypeOK
    <2>2. QED
      BY <2>1, WorkerSafe
  <1>3. CASE flush_first(p) \/ next_result(p) \/ next_error(p) \/ next_done(p)
    <2> USE DEF leave
    <2>1. PICK x : /\ ppc' = [ppc EXCEPT ![p] = x] /\ x # "waiting" /\ x # "gone"
                   /\ ppc[p] # "waiting" /\ ppc[p] # "gone"
                   /\ UNCHANGED <<done, sessions, kpc, target, cancelled>>
      BY <1>3 DEF flush_first, next_result, next_error, next_done, deliver
    <2>2. QED
      BY <2>1, WorkerSafe
  <1>4. CASE close(p) \/ cleanup_alive(p) \/ cleanup_hook(p) \/ free_reader(p)
    <2>1. PICK x : /\ ppc' = [ppc EXCEPT ![p] = x] /\ x # "waiting" /\ x # "gone"
                   /\ ppc[p] # "waiting" /\ ppc[p] # "gone"
                   /\ UNCHANGED <<done, sessions, kpc, target, cancelled>>
      BY <1>4 DEF close, cleanup_alive, cleanup_hook, free_reader
    <2>2. QED
      BY <2>1, WorkerSafe
  <1>5. CASE destroy_pipe(p)
    <2>1. /\ ppc' = [ppc EXCEPT ![p] = "gone"] /\ ppc[p] = "finalize"
          /\ done' = [done EXCEPT ![p] = TRUE] /\ done'[p]
          /\ UNCHANGED <<sessions, kpc, target, cancelled>>
      BY <1>5 DEF destroy_pipe, IInv, TypeOK
    <2>2. QED
      BY <2>1, WorkerSafe
  <1>6. QED
    BY <1>1, <1>2, <1>3, <1>4, <1>5 DEF WorkerStep, ResultStep

\* A finalized session leaves the map.
LEMMA CollectSafe ==
  ASSUME IInv, NEW p \in Posts, gc(p)
  PROVE  Safe'
  <1> USE DEF IInv
  <1>1. /\ sessions = p /\ done[p] /\ sessions' = None
        /\ UNCHANGED <<ppc, kpc, target, cancelled, done>>
    BY DEF gc, session, cancels
  <1>2. Handed' /\ CancelledByOne' /\ Flagged'
    BY <1>1, SessionAssumption DEF Handed, CancelledByOne, Flagged, TypeOK
  <1>3. LiveIsReachable'
    BY <1>1 DEF LiveIsReachable, Attached
  <1>4. QED
    BY <1>2, <1>3 DEF Safe

\* No step breaks the invariant.
LEMMA NextIInv == IInv /\ [Next]_vars => IInv'
  <1> SUFFICES ASSUME IInv, [Next]_vars PROVE IInv'
    OBVIOUS
  <1>1. CASE \E p \in Posts : WorkerStep(p) \/ ResultStep(p)
    <2>1. PICK p \in Posts : WorkerStep(p) \/ ResultStep(p)
      BY <1>1
    <2>2. TypeOK' /\ Safe'
      BY <2>1, WorkerType, WorkerKeepsSafe DEF IInv
    <2>3. \A q \in Posts : Filled(q)'
      BY <2>1, WorkerFilled, OtherFilled DEF IInv
    <2>4. QED
      BY <2>2, <2>3 DEF IInv, Safe
  <1>2. CASE \E p \in Posts : gc(p)
    <2>1. TypeOK' /\ Safe'
      BY <1>2, CancelType, CollectSafe DEF IInv
    <2>2. \A q \in Posts : Filled(q)'
      BY <1>2, FilledSame DEF gc, IInv, session, pipe, reader
    <2>3. QED
      BY <2>1, <2>2 DEF IInv, Safe
  <1>3. CASE \E d \in Deletes : evict_and_cancel(d)
    <2>1. TypeOK' /\ Safe'
      BY <1>3, CancelType, EvictSafe DEF IInv
    <2>2. \A q \in Posts : Filled(q)'
      BY <1>3, FilledSame DEF evict_and_cancel, IInv, session, pipe, reader
    <2>3. QED
      BY <2>1, <2>2 DEF IInv, Safe
  <1>4. CASE \E c \in Cancellers : CancelStep(c)
    <2>1. TypeOK' /\ Safe'
      BY <1>4, CancelType, CancelSafe DEF IInv
    <2>2. \A q \in Posts : Filled(q)'
      BY <1>4, CancelFilled
    <2>3. QED
      BY <2>1, <2>2 DEF IInv, Safe
  <1>5. CASE UNCHANGED vars
    <2>1. TypeOK' /\ Safe'
      BY <1>5 DEF vars, session, pipe, reader, cancels, IInv, TypeOK, Safe, Handed, CancelledByOne,
         Flagged, LiveIsReachable, Attached
    <2>2. \A q \in Posts : Filled(q)'
      BY <1>5, FilledSame DEF vars, session, pipe, reader, IInv
    <2>3. QED
      BY <2>1, <2>2 DEF IInv, Safe
  <1>6. QED
    BY <1>1, <1>2, <1>3, <1>4, <1>5 DEF Next

\* It holds in every state.
LEMMA Invariance == Spec => []IInv
  BY InitIInv, NextIInv, PTL DEF Spec

\* The types of sessions, pipes, readers and cancelling threads.
THEOREM TypeCorrect == Spec => []TypeOK
  <1>1. IInv => TypeOK
    BY DEF IInv
  <1>2. QED
    BY <1>1, Invariance, PTL

\* No two threads cancel the same session, however POSTs replace it and DELETEs
\* evict it: the hook of a response is called by one foreign thread at most.
THEOREM CancelledByOneHolds == Spec => []CancelledByOne
  <1>1. IInv => CancelledByOne
    BY DEF IInv
  <1>2. QED
    BY <1>1, Invariance, PTL

\* A generation whose session is not finalized is in the map or is being
\* cancelled: none runs on for a client that cannot reach it.
THEOREM LiveIsReachableHolds == Spec => []LiveIsReachable
  <1>1. IInv => LiveIsReachable
    BY DEF IInv
  <1>2. QED
    BY <1>1, Invariance, PTL

\* The ring of a stream that ended without being cancelled has every result
\* once, in order, and its end, whenever the peer left.
THEOREM RingCompleteHolds == Spec => []RingComplete
  <1>1. IInv => RingComplete
    BY DEF IInv, Filled, Ordered, Complete, RingComplete
  <1>2. QED
    BY <1>1, Invariance, PTL
=============================================================================
