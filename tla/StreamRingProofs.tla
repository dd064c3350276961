--------------------------- MODULE StreamRingProofs ---------------------------
(***************************************************************************)
(* Theorems about StreamRing for every cap, chunk size and set of readers: *)
(* the ring holds the last bytes of the stream and never more than its     *)
(* cap, every reader gets consecutive bytes, and the ring implements the   *)
(* append-only log StreamLog.                                              *)
(***************************************************************************)
EXTENDS StreamRing, SequenceTheorems, TLAPS

\* A reader that has not begun was sent nothing.
NothingYet == \A r \in Readers : state[r] = "off" => delivered[r] = <<>>

\* The inductive invariant.  WithinCap needs nothing else; contiguity of what
\* the readers got needs RingIsSuffix; CompleteMeansAll needs that total does
\* not grow after done.
IInv ==
  /\ TypeOK /\ RingIsSuffix /\ WithinCap /\ NothingYet
  /\ ReadsAreContiguous /\ CompleteMeansAll

\* The ring is empty at first.
LEMMA InitIInv == Init => IInv
  <1> SUFFICES ASSUME Init PROVE IInv
    OBVIOUS
  <1>1. TypeOK
    <2>1. <<>> \in Seq(Nat)
      OBVIOUS
    <2>2. delivered \in [Readers -> Seq(Nat)]
      BY <2>1 DEF Init
    <2>3. QED
      BY <2>1, <2>2 DEF Init, TypeOK, ReaderStates
  <1>2. RingIsSuffix /\ WithinCap
    BY RingAssumption DEF Init, RingIsSuffix, WithinCap
  <1>3. NothingYet /\ ReadsAreContiguous /\ CompleteMeansAll
    BY DEF Init, NothingYet, ReadsAreContiguous, CompleteMeansAll
  <1>4. QED
    BY <1>1, <1>2, <1>3 DEF IInv

\* The end of a sequence after its first d elements.
LEMMA SuffixFact ==
  ASSUME NEW s \in Seq(Nat), NEW d \in Nat, d <= Len(s)
  PROVE  /\ SubSeq(s, d + 1, Len(s)) \in Seq(Nat)
         /\ Len(SubSeq(s, d + 1, Len(s))) = Len(s) - d
         /\ \A i \in 1 .. Len(s) - d : SubSeq(s, d + 1, Len(s))[i] = s[d + i]
  <1> DEFINE m == d + 1
             n == Len(s)
             t == SubSeq(s, m, n)
  <1>1. m \in Int /\ n \in Int /\ \A i \in m .. n : s[i] \in Nat
    OBVIOUS
  <1> HIDE DEF m, n
  <1>2. /\ t \in Seq(Nat)
        /\ Len(t) = IF m <= n THEN n - m + 1 ELSE 0
        /\ \A i \in 1 .. n - m + 1 : t[i] = s[m + i - 1]
    <2>1. m \in Int /\ n \in Int /\ \A i \in m .. n : s[i] \in Nat
      BY <1>1
    <2>2. /\ SubSeq(s, m, n) \in Seq(Nat)
          /\ Len(SubSeq(s, m, n)) = IF m <= n THEN n - m + 1 ELSE 0
          /\ \A i \in 1 .. n - m + 1 : SubSeq(s, m, n)[i] = s[m + i - 1]
      BY <2>1, SubSeqProperties, SMTT(90)
    <2>3. QED
      BY <2>2
  <1> HIDE DEF t
  <1>3. Len(t) = Len(s) - d
    BY <1>2 DEF m, n
  <1>4. ASSUME NEW i \in 1 .. Len(s) - d PROVE t[i] = s[d + i]
    <2>1. i \in 1 .. n - m + 1 /\ m + i - 1 = d + i
      BY DEF m, n
    <2>2. QED
      BY <1>2, <2>1
  <1>5. QED
    BY <1>2, <1>3, <1>4 DEF t, m, n

\* Two sequences one after the other, index by index.
LEMMA ConcatFact ==
  ASSUME NEW s \in Seq(Nat), NEW t \in Seq(Nat)
  PROVE  /\ s \o t \in Seq(Nat)
         /\ Len(s \o t) = Len(s) + Len(t)
         /\ \A i \in 1 .. Len(s) + Len(t) :
              (s \o t)[i] = IF i <= Len(s) THEN s[i] ELSE t[i - Len(s)]
  BY ConcatProperties, Zenon

\* A chunk continues the numbering of the bytes.
LEMMA ChunkFact ==
  ASSUME total \in Nat, NEW n \in Nat
  PROVE  /\ Chunk(n) \in Seq(Nat) /\ Len(Chunk(n)) = n
         /\ \A i \in 1 .. n : Chunk(n)[i] = total + i
  BY DEF Chunk

\* append() moves the window to the end of the stream and keeps the cap.
LEMMA AppendRing ==
  ASSUME IInv, NEW n \in 1 .. MaxChunk, append(n)
  PROVE  /\ buffer' \in Seq(Nat) /\ prefix_dropped' \in Nat /\ total' \in Nat
         /\ RingIsSuffix' /\ WithinCap'
  <1> USE RingAssumption DEF IInv, TypeOK
  <1>1. n \in Nat \ {0} /\ total' = total + n
    BY DEF append
  <1>2. Chunk(n) \in Seq(Nat) /\ Len(Chunk(n)) = n
        /\ \A i \in 1 .. n : Chunk(n)[i] = total + i
    BY <1>1, ChunkFact
  <1>3. CASE append_large(n)
    <2> DEFINE d == n - Cap
    <2>1. d \in Nat /\ d <= n
      BY <1>1, <1>3 DEF append_large
    <2>2. buffer' = SubSeq(Chunk(n), d + 1, Len(Chunk(n)))
          /\ prefix_dropped' = total + d
      BY <1>2, <1>3 DEF append_large, RingIsSuffix
    <2>3. Cap = n - d
      BY <1>1
    <2> HIDE DEF d
    <2>4. /\ buffer' \in Seq(Nat) /\ Len(buffer') = n - d
          /\ \A i \in 1 .. n - d : buffer'[i] = Chunk(n)[d + i]
      BY <1>2, <2>1, <2>2, SuffixFact
    <2>5. \A i \in 1 .. n - d : buffer'[i] = total + (d + i)
      BY <1>1, <1>2, <2>1, <2>4
    <2>6. total' = prefix_dropped' + Len(buffer') /\ prefix_dropped' \in Nat
      <3>1. Len(buffer') = n - d /\ prefix_dropped' = total + d
        BY <2>2, <2>4
      <3>2. QED
        BY <1>1, <2>1, <3>1, SMT
    <2>7. \A i \in 1 .. Len(buffer') : buffer'[i] = prefix_dropped' + i
      <3>1. \A i \in 1 .. n - d : total + (d + i) = (total + d) + i
        BY <1>1, <2>1
      <3>2. QED
        BY <2>2, <2>4, <2>5, <3>1
    <2>8. RingIsSuffix'
      BY <2>6, <2>7, Zenon DEF RingIsSuffix
    <2>9. Len(buffer') <= Cap
      BY <2>3, <2>4
    <2>10. QED
      BY <1>1, <2>4, <2>6, <2>8, <2>9 DEF WithinCap
  <1>4. CASE append_small(n)
    <2> DEFINE e == Excess(n)
               b == SubSeq(buffer, e + 1, Len(buffer))
    <2>1. /\ e \in Nat /\ e <= Len(buffer)
          /\ Len(buffer) - e + n <= Cap
      BY <1>1, <1>4 DEF append_small, Excess, WithinCap
    <2>2. prefix_dropped' = prefix_dropped + e /\ buffer' = b \o Chunk(n)
      BY <1>4 DEF append_small
    <2> HIDE DEF e
    <2>3. /\ b \in Seq(Nat) /\ Len(b) = Len(buffer) - e
          /\ \A i \in 1 .. Len(buffer) - e : b[i] = buffer[e + i]
      BY <2>1, SuffixFact
    <2> HIDE DEF b
    <2>4. Len(b) \in Nat
      BY <2>3
    <2>5. /\ buffer' \in Seq(Nat) /\ Len(buffer') = Len(b) + n
          /\ \A i \in 1 .. Len(b) + n :
               buffer'[i] = IF i <= Len(b) THEN b[i] ELSE Chunk(n)[i - Len(b)]
      <3>1. /\ b \o Chunk(n) \in Seq(Nat)
            /\ Len(b \o Chunk(n)) = Len(b) + Len(Chunk(n))
            /\ \A i \in 1 .. Len(b) + Len(Chunk(n)) :
                 (b \o Chunk(n))[i] = IF i <= Len(b) THEN b[i] ELSE Chunk(n)[i - Len(b)]
        BY <1>2, <2>3, ConcatFact, Zenon
      <3>2. QED
        BY <1>2, <2>2, <3>1, Zenon
    <2>6. total = prefix_dropped' + Len(b)
      <3>1. total = prefix_dropped + Len(buffer) /\ Len(buffer) \in Nat
        BY DEF RingIsSuffix
      <3>2. QED
        BY <2>1, <2>2, <2>3, <3>1
    <2>7. ASSUME NEW i \in 1 .. Len(b) PROVE b[i] = prefix_dropped' + i
      <3>1. b[i] = buffer[e + i] /\ e + i \in 1 .. Len(buffer)
        BY <2>1, <2>3, <2>4
      <3>2. buffer[e + i] = prefix_dropped + (e + i)
        BY <3>1 DEF RingIsSuffix
      <3>3. QED
        BY <2>1, <2>2, <2>4, <3>1, <3>2
    <2>8. ASSUME NEW i \in 1 .. Len(b) + n PROVE buffer'[i] = prefix_dropped' + i
      <3>1. CASE i <= Len(b)
        BY <1>1, <2>4, <2>5, <2>7, <3>1, SMTT(60)
      <3>2. CASE ~(i <= Len(b))
        <4>1. i - Len(b) \in 1 .. n
          BY <1>1, <2>4, <3>2
        <4>2. buffer'[i] = total + (i - Len(b))
          BY <1>1, <1>2, <2>4, <2>5, <3>2, <4>1
        <4>3. QED
          BY <1>1, <2>1, <2>2, <2>4, <2>6, <4>2
      <3>3. QED
        BY <3>1, <3>2
    <2>9. QED
      BY <1>1, <2>1, <2>2, <2>3, <2>5, <2>6, <2>8, SMTT(60) DEF RingIsSuffix, WithinCap
  <1>5. QED
    BY <1>3, <1>4 DEF append

\* What one read hands to reader r: the bytes of the stream from the offset it
\* has reached to the end.
LEMMA ReadFact ==
  ASSUME IInv, NEW r \in Readers, read_bytes(r)
  PROVE  /\ delivered' \in [Readers -> Seq(Nat)] /\ offset' \in [Readers -> Nat]
         /\ \A q \in Readers \ {r} : delivered'[q] = delivered[q] /\ offset'[q] = offset[q]
         /\ offset'[r] = total
         /\ Len(delivered'[r]) = Len(delivered[r]) + (total - offset[r])
         /\ \A i \in 1 .. Len(delivered'[r]) : delivered'[r][i] = from[r] + i
  <1> DEFINE d == offset[r] - prefix_dropped
             u == SubSeq(buffer, d + 1, Len(buffer))
             v == delivered[r]
  <1>1. prefix_dropped \in Nat /\ offset[r] \in Nat /\ from[r] \in Nat /\ total \in Nat
        /\ v \in Seq(Nat) /\ buffer \in Seq(Nat)
        /\ delivered \in [Readers -> Seq(Nat)] /\ offset \in [Readers -> Nat]
    BY DEF IInv, TypeOK
  <1>2. total = prefix_dropped + Len(buffer) /\ Len(buffer) \in Nat
    BY <1>1 DEF IInv, RingIsSuffix
  <1>3. d \in Nat /\ d <= Len(buffer) /\ offset[r] = prefix_dropped + d
    <2>1. prefix_dropped <= offset[r] /\ offset[r] < prefix_dropped + Len(buffer)
      BY DEF read_bytes, logical_end
    <2>2. QED
      BY <1>1, <1>2, <2>1
  <1>4. delivered' = [delivered EXCEPT ![r] = v \o u]
    BY DEF read_bytes
  <1>5. offset' = [offset EXCEPT ![r] = total]
    BY <1>2 DEF read_bytes, logical_end
  <1>6. /\ offset[r] = from[r] + Len(v)
        /\ \A i \in 1 .. Len(v) : v[i] = from[r] + i
    <2>1. state[r] # "off"
      BY DEF read_bytes
    <2>2. QED
      BY <2>1, Zenon DEF IInv, ReadsAreContiguous
  <1> HIDE DEF d
  <1>7. /\ u \in Seq(Nat) /\ Len(u) = Len(buffer) - d
        /\ \A i \in 1 .. Len(buffer) - d : u[i] = buffer[d + i]
    BY <1>1, <1>3, SuffixFact
  <1> HIDE DEF u, v
  <1>8. /\ v \o u \in Seq(Nat)
        /\ Len(v \o u) = Len(v) + Len(u)
        /\ \A i \in 1 .. Len(v) + Len(u) : (v \o u)[i] = IF i <= Len(v) THEN v[i] ELSE u[i - Len(v)]
    BY <1>1, <1>7, ConcatFact, Zenon
  <1>9. delivered' \in [Readers -> Seq(Nat)] /\ offset' \in [Readers -> Nat]
    BY <1>1, <1>4, <1>5, <1>8
  <1>10. /\ \A q \in Readers \ {r} : delivered'[q] = delivered[q] /\ offset'[q] = offset[q]
         /\ offset'[r] = total /\ delivered'[r] = v \o u
    BY <1>1, <1>4, <1>5
  <1>11. Len(v) \in Nat /\ Len(u) \in Nat
    BY <1>1, <1>7
  <1>12. Len(v \o u) = Len(v) + (total - offset[r])
    BY <1>1, <1>2, <1>3, <1>7, <1>8
  <1>13. ASSUME NEW i \in 1 .. Len(v) + Len(u) PROVE (v \o u)[i] = from[r] + i
    <2>1. CASE i <= Len(v)
      <3>1. i \in 1 .. Len(v)
        BY <1>11, <2>1
      <3>2. QED
        BY <1>6, <1>8, <2>1, <3>1
    <2>2. CASE ~(i <= Len(v))
      <3> DEFINE j == i - Len(v)
      <3>1. j \in 1 .. Len(u) /\ i = Len(v) + j
        BY <1>11, <2>2
      <3>2. (v \o u)[i] = u[j]
        BY <1>8, <2>2
      <3> HIDE DEF j
      <3>3. u[j] = buffer[d + j] /\ d + j \in 1 .. Len(buffer)
        BY <1>2, <1>3, <1>7, <3>1, SMTT(60)
      <3>4. buffer[d + j] = prefix_dropped + (d + j)
        BY <3>3 DEF IInv, RingIsSuffix
      <3>5. prefix_dropped + (d + j) = from[r] + i
        <4> DEFINE fr == from[r]
                   lv == Len(v)
        <4>1. prefix_dropped + d = fr + lv /\ i = lv + j
          BY <1>3, <1>6, <3>1
        <4>2. prefix_dropped \in Nat /\ d \in Nat /\ j \in Nat /\ fr \in Nat /\ lv \in Nat
          BY <1>1, <1>3, <1>11, <3>1
        <4> HIDE DEF fr, lv
        <4>3. prefix_dropped + (d + j) = fr + i
          BY <4>1, <4>2
        <4>4. QED
          BY <4>3 DEF fr
      <3>6. QED
        BY <3>2, <3>3, <3>4, <3>5
    <2>3. QED
      BY <2>1, <2>2
  <1>14. \A i \in 1 .. Len(delivered'[r]) : delivered'[r][i] = from[r] + i
    BY <1>8, <1>10, <1>13
  <1>15. QED
    BY <1>9, <1>10, <1>12, <1>14 DEF v

\* A step that leaves the ring and what readers were sent alone keeps the parts
\* of the invariant about them.
LEMMA RingUntouched ==
  ASSUME IInv, UNCHANGED ring
  PROVE  RingIsSuffix' /\ WithinCap'
  BY Zenon DEF IInv, ring, RingIsSuffix, WithinCap

\* No step breaks the invariant of the ring.
LEMMA StepIInv == IInv /\ [Next]_vars => IInv'
  <1> SUFFICES ASSUME IInv, [Next]_vars PROVE IInv'
    OBVIOUS
  <1>0. TypeOK /\ NothingYet /\ ReadsAreContiguous /\ CompleteMeansAll /\ RingIsSuffix
    BY DEF IInv
  <1>1. ASSUME NEW n \in 1 .. MaxChunk, append(n) PROVE IInv'
    <2>1. /\ buffer' \in Seq(Nat) /\ prefix_dropped' \in Nat /\ total' \in Nat
          /\ RingIsSuffix' /\ WithinCap'
      BY <1>1, AppendRing
    <2>2. ~done /\ UNCHANGED <<done, offset, state, from, delivered>>
      BY <1>1 DEF append
    <2>3. TypeOK'
      BY <1>0, <2>1, <2>2 DEF TypeOK
    <2>4. NothingYet' /\ ReadsAreContiguous'
      BY <1>0, <2>2 DEF NothingYet, ReadsAreContiguous
    <2>5. CompleteMeansAll'
      BY <1>0, <2>2 DEF CompleteMeansAll
    <2>6. QED
      BY <2>1, <2>3, <2>4, <2>5 DEF IInv
  <1>2. CASE finalize
    <2>1. done' = TRUE /\ UNCHANGED <<ring, offset, state, from, delivered>>
      BY <1>2 DEF finalize
    <2>2. TypeOK'
      BY <1>0, <2>1 DEF TypeOK, ring
    <2>3. NothingYet' /\ ReadsAreContiguous'
      BY <1>0, <2>1 DEF NothingYet, ReadsAreContiguous
    <2>4. CompleteMeansAll'
      BY <1>0, <2>1 DEF CompleteMeansAll, ring
    <2>5. QED
      BY <2>1, <2>2, <2>3, <2>4, RingUntouched DEF IInv
  <1>3. ASSUME NEW r \in Readers, open(r) PROVE IInv'
    <2>1. UNCHANGED <<ring, done, delivered>> /\ state[r] = "off"
      BY <1>3 DEF open
    <2>2. PICK f \in Offsets :
            /\ from' = [from EXCEPT ![r] = f]
            /\ offset' = [offset EXCEPT ![r] = f]
            /\ state' = [state EXCEPT ![r] = IF f < prefix_dropped THEN "refused" ELSE "open"]
      BY <1>3 DEF open
    <2>3. f \in Nat
      BY RingAssumption
    <2>4. TypeOK'
      BY <1>0, <2>1, <2>2, <2>3 DEF TypeOK, ring, ReaderStates
    <2>5. /\ from'[r] = f /\ offset'[r] = f /\ delivered[r] = <<>>
          /\ state'[r] \in {"refused", "open"}
          /\ \A q \in Readers \ {r} : from'[q] = from[q] /\ offset'[q] = offset[q] /\ state'[q] = state[q]
      BY <1>0, <2>1, <2>2 DEF TypeOK, NothingYet
    <2>6. NothingYet'
      BY <1>0, <2>1, <2>5 DEF NothingYet
    <2>7. ReadsAreContiguous'
      BY <1>0, <2>1, <2>3, <2>5 DEF ReadsAreContiguous
    <2>8. CompleteMeansAll'
      BY <1>0, <2>1, <2>5 DEF CompleteMeansAll, ring
    <2>9. QED
      BY <2>1, <2>4, <2>6, <2>7, <2>8, RingUntouched DEF IInv
  <1>4. ASSUME NEW r \in Readers, read_bytes(r) PROVE IInv'
    <2>1. UNCHANGED <<ring, done, state, from>> /\ state[r] = "open"
      BY <1>4 DEF read_bytes
    <2>2. /\ delivered' \in [Readers -> Seq(Nat)] /\ offset' \in [Readers -> Nat]
          /\ \A q \in Readers \ {r} : delivered'[q] = delivered[q] /\ offset'[q] = offset[q]
          /\ offset'[r] = total
          /\ Len(delivered'[r]) = Len(delivered[r]) + (total - offset[r])
          /\ \A i \in 1 .. Len(delivered'[r]) : delivered'[r][i] = from[r] + i
      BY <1>4, ReadFact
    <2>3. TypeOK'
      BY <1>0, <2>1, <2>2 DEF TypeOK, ring
    <2>4. NothingYet'
      BY <1>0, <2>1, <2>2 DEF NothingYet
    <2>5. ReadsAreContiguous'
      <3>1. offset'[r] = from[r] + Len(delivered'[r])
        <4>1. offset[r] = from[r] + Len(delivered[r])
          BY <1>0, <2>1, Zenon DEF ReadsAreContiguous
        <4>2. total \in Nat /\ from[r] \in Nat /\ Len(delivered[r]) \in Nat
          BY <1>0 DEF TypeOK
        <4>3. QED
          BY <2>2, <4>1, <4>2
      <3>2. ASSUME NEW q \in Readers, state'[q] # "off"
            PROVE  /\ offset'[q] = from'[q] + Len(delivered'[q])
                   /\ \A i \in 1 .. Len(delivered'[q]) : delivered'[q][i] = from'[q] + i
        <4>1. from' = from /\ state[q] # "off"
          BY <2>1, <3>2
        <4>2. CASE q = r
          BY <2>2, <3>1, <4>1, <4>2, Zenon
        <4>3. CASE q # r
          <5>1. delivered'[q] = delivered[q] /\ offset'[q] = offset[q]
            BY <2>2, <4>3, Zenon
          <5>2. QED
            BY <1>0, <4>1, <5>1, Zenon DEF ReadsAreContiguous
        <4>4. QED
          BY <4>2, <4>3
      <3>3. QED
        BY <3>2, Zenon DEF ReadsAreContiguous
    <2>6. CompleteMeansAll'
      BY <1>0, <2>1, <2>2 DEF CompleteMeansAll, ring
    <2>7. QED
      BY <2>1, <2>3, <2>4, <2>5, <2>6, RingUntouched DEF IInv
  <1>5. ASSUME NEW r \in Readers, read_lost(r) \/ read_end(r) \/ close(r) PROVE IInv'
    <2>1. UNCHANGED <<ring, done, offset, from, delivered>> /\ state[r] = "open"
      BY <1>5 DEF read_lost, read_end, close
    <2>2. PICK s \in {"lost", "complete", "closed"} :
            /\ state' = [state EXCEPT ![r] = s]
            /\ s = "complete" => done /\ offset[r] >= logical_end
      BY <1>5 DEF read_lost, read_end, close
    <2>3. TypeOK'
      BY <1>0, <2>1, <2>2 DEF TypeOK, ring, ReaderStates
    <2>4. /\ state'[r] = s
          /\ \A q \in Readers \ {r} : state'[q] = state[q]
      BY <1>0, <2>2 DEF TypeOK
    <2>5. NothingYet'
      BY <1>0, <2>1, <2>2, <2>4 DEF NothingYet
    <2>6. ReadsAreContiguous'
      <3>1. \A q \in Readers : state'[q] # "off" => state[q] # "off"
        BY <2>1, <2>4
      <3>2. QED
        BY <1>0, <2>1, <3>1, Zenon DEF ReadsAreContiguous
    <2>7. CompleteMeansAll'
      BY <1>0, <2>1, <2>2, <2>4 DEF CompleteMeansAll, RingIsSuffix, logical_end, ring
    <2>8. QED
      BY <2>1, <2>3, <2>5, <2>6, <2>7, RingUntouched DEF IInv
  <1>6. CASE UNCHANGED vars
    <2>1. UNCHANGED <<ring, done, offset, state, from, delivered>>
      BY <1>6 DEF vars, ring
    <2>2. TypeOK'
      BY <1>0, <2>1 DEF TypeOK, ring
    <2>3. NothingYet' /\ ReadsAreContiguous' /\ CompleteMeansAll'
      BY <1>0, <2>1 DEF NothingYet, ReadsAreContiguous, CompleteMeansAll, ring
    <2>4. QED
      BY <2>1, <2>2, <2>3, RingUntouched DEF IInv
  <1>7. QED
    BY <1>1, <1>2, <1>3, <1>4, <1>5, <1>6 DEF Next, ReadStep

\* Every reachable state satisfies the inductive invariant.
THEOREM Invariance == Spec => []IInv
  BY InitIInv, StepIInv, PTL DEF Spec

\* Every reachable state is well typed.
THEOREM TypeCorrect == Spec => []TypeOK
  <1>1. IInv => TypeOK
    BY DEF IInv
  <1>2. QED
    BY <1>1, Invariance, PTL

\* For every cap and chunk size the ring holds the last bytes of the stream,
\* never more than its cap (append).
THEOREM RingIsCorrect == Spec => [](RingIsSuffix /\ WithinCap)
  <1>1. IInv => RingIsSuffix /\ WithinCap
    BY DEF IInv
  <1>2. QED
    BY <1>1, Invariance, PTL

\* However appends, drops and reads interleave, each reader gets consecutive
\* bytes from the offset it asked for (read_from).
THEOREM ReadersGetConsecutiveBytes == Spec => []ReadsAreContiguous
  <1>1. IInv => ReadsAreContiguous
    BY DEF IInv
  <1>2. QED
    BY <1>1, Invariance, PTL

\* A reader told that the stream is complete has been sent its last byte, and no
\* byte is appended later (read_from, append, finalize).
THEOREM CompleteIsComplete == Spec => []CompleteMeansAll
  <1>1. IInv => CompleteMeansAll
    BY DEF IInv
  <1>2. QED
    BY <1>1, Invariance, PTL

\* What a read copies out of the buffer is the next piece of the log.
LEMMA PieceFact ==
  ASSUME IInv, NEW r \in Readers, read_bytes(r)
  PROVE  /\ SubSeq(buffer, offset[r] - prefix_dropped + 1, Len(buffer))
              = Log!Bytes(offset[r], total - offset[r])
         /\ total - offset[r] \in Nat \ {0}
  <1> DEFINE d == offset[r] - prefix_dropped
             u == SubSeq(buffer, d + 1, Len(buffer))
             w == Log!Bytes(offset[r], total - offset[r])
  <1>1. prefix_dropped \in Nat /\ offset[r] \in Nat /\ total \in Nat /\ buffer \in Seq(Nat)
        /\ Len(buffer) \in Nat
    BY DEF IInv, TypeOK
  <1>2. total = prefix_dropped + Len(buffer)
    BY DEF IInv, RingIsSuffix
  <1>3. d \in Nat /\ d < Len(buffer) /\ offset[r] = prefix_dropped + d
    <2>1. prefix_dropped <= offset[r] /\ offset[r] < prefix_dropped + Len(buffer)
      BY DEF read_bytes, logical_end
    <2>2. QED
      BY <1>1, <2>1
  <1>4. w = [i \in 1 .. total - offset[r] |-> offset[r] + i]
    BY DEF Log!Bytes
  <1> HIDE DEF d
  <1>5. /\ u \in Seq(Nat) /\ Len(u) = Len(buffer) - d
        /\ \A i \in 1 .. Len(buffer) - d : u[i] = buffer[d + i]
    BY <1>1, <1>3, SuffixFact
  <1> HIDE DEF u, w
  <1>6. Len(buffer) - d = total - offset[r] /\ total - offset[r] \in Nat \ {0}
    BY <1>1, <1>2, <1>3
  <1>7. w \in Seq(Nat) /\ Len(w) = total - offset[r]
    <2> DEFINE n == total - offset[r]
               o == offset[r]
    <2>1. n \in Nat /\ o \in Nat
      BY <1>1, <1>6
    <2>2. w = [i \in 1 .. n |-> o + i]
      BY <1>4
    <2> HIDE DEF n, o
    <2>3. w \in Seq(Nat) /\ Len(w) = n
      BY <2>1, <2>2
    <2>4. QED
      BY <2>3 DEF n
  <1>8. ASSUME NEW i \in 1 .. Len(u) PROVE u[i] = w[i]
    <2>1. d + i \in 1 .. Len(buffer) /\ i \in 1 .. Len(buffer) - d
      BY <1>1, <1>3, <1>5, SMTT(60)
    <2>2. u[i] = prefix_dropped + (d + i)
      BY <1>5, <2>1 DEF IInv, RingIsSuffix
    <2>3. w[i] = offset[r] + i
      BY <1>4, <1>6, <2>1
    <2>4. QED
      BY <1>1, <1>3, <2>1, <2>2, <2>3
  <1>9. u = w
    BY <1>5, <1>6, <1>7, <1>8, SeqEqual
  <1>10. QED
    BY <1>6, <1>9 DEF u, w, d

\* The ring starts out as an empty log, ...
LEMMA LogInitially == Init => Log!LogInit
  BY DEF Init, Log!LogInit

\* ... and every step of it is one of the log or none.
LEMMA LogStep == IInv /\ [Next]_vars => [Log!LogNext]_(Log!logVars)
  <1> SUFFICES ASSUME IInv, [Next]_vars PROVE [Log!LogNext]_(Log!logVars)
    OBVIOUS
  <1>0. TypeOK /\ ReadsAreContiguous /\ RingIsSuffix
    BY DEF IInv
  <1>1. ASSUME NEW n \in 1 .. MaxChunk, append(n) PROVE Log!Extend
    <2>1. total' = total + n /\ n > 0 /\ n \in Nat /\ total \in Nat
      BY <1>0, <1>1, RingAssumption DEF append, TypeOK
    <2>2. QED
      BY <1>1, <2>1 DEF append, Log!Extend
  <1>2. ASSUME finalize PROVE Log!Finish
    BY <1>2 DEF finalize, ring, Log!Finish
  <1>3. ASSUME NEW r \in Readers, open(r) PROVE Log!Open(r)
    BY <1>3 DEF open, ring, Log!Open
  <1>4. ASSUME NEW r \in Readers, read_bytes(r) PROVE Log!Deliver(r)
    <2>1. state[r] = "open" /\ UNCHANGED <<total, done, state, from>>
      BY <1>4 DEF read_bytes, ring
    <2>2. Log!Position(r) = offset[r]
      BY <1>0, <2>1, Zenon DEF ReadsAreContiguous, Log!Position
    <2>3. DEFINE n == total - offset[r]
    <2>4. n \in 1 .. total - Log!Position(r)
      BY <1>4, <2>2, PieceFact
    <2>5. delivered' = [delivered EXCEPT ![r] = @ \o Log!Bytes(Log!Position(r), n)]
      <3>1. delivered' = [delivered EXCEPT ![r] =
                            @ \o SubSeq(buffer, offset[r] - prefix_dropped + 1, Len(buffer))]
        BY <1>4 DEF read_bytes
      <3>2. QED
        BY <1>4, <2>2, <3>1, PieceFact, Zenon
    <2> HIDE DEF n
    <2>6. QED
      BY <2>1, <2>4, <2>5 DEF Log!Deliver
  <1>5. ASSUME NEW r \in Readers, read_end(r) PROVE Log!Complete(r)
    <2>1. Log!Position(r) = offset[r]
      BY <1>0, <1>5, Zenon DEF ReadsAreContiguous, Log!Position, read_end
    <2>2. total = logical_end
      BY <1>0 DEF RingIsSuffix, logical_end
    <2>3. QED
      BY <1>5, <2>1, <2>2 DEF read_end, ring, Log!Complete
  <1>6. ASSUME NEW r \in Readers, read_lost(r) \/ close(r) PROVE Log!Leave(r)
    BY <1>6 DEF read_lost, close, ring, Log!Leave
  <1>7. CASE UNCHANGED vars
    BY <1>7 DEF vars, Log!logVars
  <1>8. QED
    BY <1>1, <1>2, <1>3, <1>4, <1>5, <1>6, <1>7 DEF Next, ReadStep, Log!LogNext

\* The ring implements the append-only log: to its readers the dropped bytes are
\* only a reason to be refused or told that their offset is lost.
THEOREM RingImplementsLog == Spec => ImplementsLog
  BY LogInitially, LogStep, Invariance, PTL DEF Spec, ImplementsLog, Log!LogSpec

=============================================================================
