-------------------------- MODULE StreamingProofs --------------------------
(***************************************************************************)
(* Proofs about MediaSource, for every size and every sequence of calls,   *)
(* and about TorrentSessions, for any torrents and any number of engines:  *)
(* the two ends of a torrent stream.                                       *)
(***************************************************************************)
EXTENDS MediaSource, TorrentSessions, WellFoundedInduction, TLAPS

-----------------------------------------------------------------------------
(* Every non-empty set of natural numbers has a least element. *)
LEMMA LeastNat ==
  ASSUME NEW T \in SUBSET Nat, T # {}
  PROVE  \E x \in T : \A y \in T : x <= y
<1>1. PICK x \in T : \A y \in T : <<y, x>> \notin OpToRel(<, Nat)
  BY NatLessThanWellFounded, WFMin
<1>2. \A y \in T : ~(y < x)
  BY <1>1 DEF OpToRel
<1> QED
  BY <1>2

-----------------------------------------------------------------------------
(* The strengthening: every stored byte is at its place, and every result  *)
(* of a read is well formed.                                               *)
BytesInPlace == \A s \in DOMAIN chunks : \A k \in 1..Len(chunks[s]) : chunks[s][k] = s + k - 1

(* The inductive invariant: every call of either thread keeps it. *)
SourceInv ==
  /\ TypeOK
  /\ ChunksDisjoint
  /\ BytesInPlace
  /\ ReadsTrueBytes
  /\ WantedIsBlocked
  /\ ClosedHoldsNothing

(* What a chunk is, in the terms the provers handle best. *)
LEMMA ChunkBounds ==
  ASSUME TypeOK, ChunksDisjoint, NEW s \in DOMAIN chunks
  PROVE  /\ s \in 0..(Size - 1)
         /\ Len(chunks[s]) \in Nat \ {0}
         /\ EndOf(s) \in 1..Size
         /\ s < EndOf(s)
<1>1. s \in 0..(Size - 1) /\ chunks[s] \in Seq(Offsets) /\ chunks[s] # <<>>
  BY DEF TypeOK, Offsets
<1>2. Len(chunks[s]) \in Nat \ {0}
  BY <1>1
<1>3. EndOf(s) <= Size
  BY DEF ChunksDisjoint
<1>4. QED BY <1>1, <1>2, <1>3, SourceAssumption DEF EndOf

(* Buffered is the length of the covered run at `offset`, and the run ends *)
(* at an offset that is not covered.                                       *)
LEMMA BufferedRun ==
  ASSUME TypeOK, ChunksDisjoint, NEW offset \in 0..Size
  PROVE  /\ Buffered(offset) \in 0..(Size - offset)
         /\ (offset + Buffered(offset)) \notin Covered
         /\ \A p \in offset..(offset + Buffered(offset) - 1) : p \in Covered
<1> DEFINE T == {e \in offset..Size : e \notin Covered}
<1> DEFINE IsEnd(e) == e \notin Covered /\ offset..(e - 1) \subseteq Covered
<1> DEFINE end == CHOOSE e \in offset..Size : IsEnd(e)
<1>0. Size \in Nat /\ offset \in Nat
  BY SourceAssumption
<1>1. Size \notin Covered
  <2>1. ASSUME NEW s \in DOMAIN chunks PROVE Size \notin s..(EndOf(s) - 1)
    BY ChunkBounds, <1>0
  <2>2. QED BY <2>1 DEF Covered
<1>2. Size \in T /\ T \in SUBSET Nat
  BY <1>0, <1>1
<1>3. PICK e \in T : \A y \in T : e <= y
  BY <1>2, LeastNat
<1>4. e \in offset..Size /\ e \notin Covered
  OBVIOUS
<1>5. offset..(e - 1) \subseteq Covered
  <2>1. ASSUME NEW p \in offset..(e - 1), p \notin Covered PROVE FALSE
    <3>1. p \in T
      BY <1>0, <1>4, <2>1
    <3>2. QED BY <1>0, <1>3, <1>4, <3>1
  <2>2. QED BY <2>1
<1>6. \E x \in offset..Size : IsEnd(x)
  BY <1>4, <1>5
<1>7. end \in offset..Size /\ IsEnd(end)
  BY <1>6
<1>8. Buffered(offset) = end - offset
  BY DEF Buffered
<1> HIDE DEF end
<1>9. Buffered(offset) \in 0..(Size - offset) /\ offset + Buffered(offset) = end
  BY <1>0, <1>7, <1>8
<1>10. QED BY <1>7, <1>9

(* ... and the byte the decoder gets at a covered offset is the true one.  *)
LEMMA CoveredByte ==
  ASSUME TypeOK, ChunksDisjoint, BytesInPlace, NEW p \in Int, p \in Covered
  PROVE  ByteAt(p) = p
<1> DEFINE Holds(s) == s <= p /\ p < EndOf(s)
<1> DEFINE c == CHOOSE s \in DOMAIN chunks : Holds(s)
<1>1. PICK s \in DOMAIN chunks : p \in s..(EndOf(s) - 1)
  BY DEF Covered
<1>2. Holds(s)
  BY <1>1, ChunkBounds
<1>3. c \in DOMAIN chunks /\ Holds(c)
  BY <1>2
<1>4. ByteAt(p) = chunks[c][p - c + 1]
  BY DEF ByteAt
<1> HIDE DEF c
<1>5. /\ c \in 0..(Size - 1)
      /\ EndOf(c) = c + Len(chunks[c])
      /\ Len(chunks[c]) \in Nat
  BY <1>3, ChunkBounds DEF EndOf
<1>6. p - c + 1 \in 1..Len(chunks[c])
  BY <1>3, <1>5, SourceAssumption
<1>7. chunks[c][p - c + 1] = c + (p - c + 1) - 1
  BY <1>3, <1>6 DEF BytesInPlace
<1>8. QED BY <1>4, <1>5, <1>7, SourceAssumption

(* The part of the invariant that is about the chunks alone. *)
ChunksOK ==
  /\ DOMAIN chunks \subseteq Offsets
  /\ \A s \in DOMAIN chunks : chunks[s] \in Seq(Offsets) /\ chunks[s] # <<>>
  /\ ChunksDisjoint
  /\ BytesInPlace

(* Dropping chunks keeps what is said of each of them. *)
LEMMA DroppingKeeps ==
  ASSUME ChunksOK, NEW Kept \in SUBSET DOMAIN chunks, chunks' = Restrict(chunks, Kept)
  PROVE  ChunksOK' /\ (chunks = <<>> => chunks' = <<>>)
<1>1. DOMAIN chunks' = Kept /\ \A s \in Kept : chunks'[s] = chunks[s]
  BY DEF Restrict
<1>2. ChunksOK'
  BY <1>1 DEF ChunksOK, ChunksDisjoint, BytesInPlace, EndOf, Offsets
<1>3. ASSUME chunks = <<>> PROVE chunks' = <<>>
  BY <1>3 DEF Restrict
<1>4. QED BY <1>2, <1>3

(* Clipped stops at the first chunk ahead. *)
LEMMA ClippedBound ==
  ASSUME TypeOK, ChunksDisjoint, NEW start \in Nat, NEW end \in 0..Size
  PROVE  /\ Clipped(start, end) \in 0..end
         /\ \A t \in DOMAIN chunks : t >= start => t >= Clipped(start, end) \/ t >= end
<1> DEFINE later == {s \in DOMAIN chunks : s >= start /\ s < end}
<1> DEFINE IsFirst(s) == \A t \in later : s <= t
<1> DEFINE first == CHOOSE s \in later : IsFirst(s)
<1>0. \A s \in DOMAIN chunks : s \in Nat
  BY DEF TypeOK, Offsets
<1>1. CASE later = {}
  <2>1. Clipped(start, end) = end
    BY <1>1 DEF Clipped
  <2>2. QED BY <2>1, <1>0, <1>1, SourceAssumption
<1>2. CASE later # {}
  <2>1. Clipped(start, end) = first
    BY <1>2 DEF Clipped
  <2>2. later \in SUBSET Nat
    BY <1>0
  <2>3. \E s \in later : IsFirst(s)
    BY <1>2, <2>2, LeastNat
  <2>4. first \in later /\ IsFirst(first)
    BY <2>3
  <2> HIDE DEF first
  <2>5. \A t \in DOMAIN chunks : t >= start => t >= first \/ t >= end
    BY <2>4, <1>0, SourceAssumption
  <2>6. QED BY <2>1, <2>2, <2>4, <2>5, <1>0, SourceAssumption
<1>3. QED BY <1>1, <1>2

(* Providing a range keeps the chunks apart and every byte at its place.   *)
LEMMA ProvideKeeps ==
  ASSUME SourceInv, NEW offset \in Offsets, NEW len \in 1..MaxProvide, Provide(offset, len)
  PROVE  ChunksOK'
<1> DEFINE start == offset + Buffered(offset)
<1> DEFINE end == Clipped(start, Trimmed(offset, len))
<1> DEFINE new == FromStart(offset, start, end)
<1>0. TypeOK /\ ChunksDisjoint /\ BytesInPlace /\ Size \in Nat /\ offset \in 0..Size /\ len \in Nat
  BY SourceAssumption DEF SourceInv, Offsets
<1>1. /\ start < end
      /\ chunks' = [s \in DOMAIN chunks \cup {start} |-> IF s = start THEN new ELSE chunks[s]]
  BY DEF Provide
<1>2. start \in Nat /\ start \notin Covered
  BY <1>0, BufferedRun
<1>3. Trimmed(offset, len) \in 0..Size
  BY <1>0 DEF Trimmed, LeastOf
<1>4. /\ end \in 0..Size
      /\ \A t \in DOMAIN chunks : t >= start => t >= end
  <2>1. end \in 0..Trimmed(offset, len)
    BY <1>0, <1>2, <1>3, ClippedBound
  <2>2. \A t \in DOMAIN chunks : t >= start => t >= end \/ t >= Trimmed(offset, len)
    BY <1>0, <1>2, <1>3, ClippedBound
  <2>3. \A t \in DOMAIN chunks : t \in Nat
    BY <1>0, ChunkBounds, SourceAssumption
  <2> HIDE DEF start, end
  <2>4. QED BY <2>1, <2>2, <2>3, <1>0, <1>2, <1>3
<1> HIDE DEF start, end
<1>5. /\ new \in Seq(Offsets)
      /\ Len(new) = end - start
      /\ \A k \in 1..Len(new) : new[k] = start + k - 1
      /\ new # <<>>
  <2>1. end - start \in Nat /\ end - start > 0
    BY <1>1, <1>2, <1>4, SourceAssumption
  <2>2. new = [k \in 1..(end - start) |-> start + k - 1]
    BY DEF FromStart
  <2>3. \A k \in 1..(end - start) : start + k - 1 \in 0..(Size - 1)
    BY <1>0, <1>2, <1>4, <2>1
  <2>4. \A k \in 1..(end - start) : start + k - 1 \in Offsets
    BY <2>3 DEF Offsets
  <2> HIDE DEF new
  <2>5. new \in Seq(Offsets) /\ Len(new) = end - start
    BY <2>1, <2>2, <2>4
  <2>6. new # <<>>
    BY <2>1, <2>5
  <2>7. QED BY <2>2, <2>5, <2>6
<1> HIDE DEF new
<1>6. \A t \in DOMAIN chunks : t < start => EndOf(t) <= start
  <2>1. SUFFICES ASSUME NEW t \in DOMAIN chunks, t < start, ~(EndOf(t) <= start) PROVE FALSE
    OBVIOUS
  <2>2. t \in Int /\ EndOf(t) \in Int
    BY <1>0, ChunkBounds, SourceAssumption
  <2>3. start \in t..(EndOf(t) - 1)
    BY <2>1, <2>2, <1>2
  <2>4. QED BY <2>3, <1>2 DEF Covered
<1>7. /\ DOMAIN chunks' = DOMAIN chunks \cup {start}
      /\ chunks'[start] = new
      /\ start + Len(chunks'[start]) = end
  <2>1. DOMAIN chunks' = DOMAIN chunks \cup {start} /\ chunks'[start] = new
    BY <1>1
  <2>2. start + Len(new) = end
    BY <1>2, <1>4, <1>5, SourceAssumption
  <2>3. QED BY <2>1, <2>2
<1>8. \A s \in DOMAIN chunks : s # start /\ chunks'[s] = chunks[s] /\ EndOf(s)' = EndOf(s)
  <2>1. ASSUME NEW s \in DOMAIN chunks PROVE s # start
    <3>1. s \in s..(EndOf(s) - 1)
      BY <1>0, ChunkBounds, SourceAssumption
    <3>2. QED BY <3>1, <1>2 DEF Covered
  <2>2. QED BY <1>1, <2>1 DEF EndOf
<1>9. start \in Offsets
  BY <1>0, <1>1, <1>2, <1>4 DEF Offsets
<1>10. ChunksDisjoint'
  <2>1. \A s \in DOMAIN chunks' : EndOf(s)' = IF s = start THEN end ELSE EndOf(s)
    BY <1>7, <1>8 DEF EndOf
  <2>2. \A s, t \in DOMAIN chunks : s < t => EndOf(s) <= t
    BY <1>0 DEF ChunksDisjoint
  <2>3. \A s \in DOMAIN chunks : s \in Nat /\ EndOf(s) \in 1..Size
    BY <1>0, ChunkBounds, SourceAssumption
  <2>4. ASSUME NEW s \in DOMAIN chunks' PROVE EndOf(s)' <= Size
    BY <1>0, <1>4, <1>7, <2>1, <2>3
  <2>5. ASSUME NEW s \in DOMAIN chunks', NEW t \in DOMAIN chunks', s < t PROVE EndOf(s)' <= t
    BY <1>0, <1>2, <1>4, <1>6, <1>7, <2>1, <2>2, <2>3, <2>5
  <2>6. QED BY <2>4, <2>5 DEF ChunksDisjoint
<1>11. BytesInPlace'
  BY <1>0, <1>5, <1>7, <1>8 DEF BytesInPlace
<1>12. QED BY <1>0, <1>5, <1>7, <1>8, <1>9, <1>10, <1>11 DEF ChunksOK, TypeOK, Offsets

(* One pass of the read loop returns true bytes, and publishes the offset  *)
(* it waits for exactly when it waits.                                     *)
LEMMA PassKeeps ==
  ASSUME SourceInv, NEW offset \in Offsets, NEW n \in 1..MaxRead, Pass(offset, n),
         position' = offset, UNCHANGED <<chunks, closed>>
  PROVE  SourceInv'
<1>0. TypeOK /\ ChunksDisjoint /\ BytesInPlace /\ Size \in Nat /\ offset \in 0..Size /\ offset \in Nat
  BY SourceAssumption DEF SourceInv, Offsets
<1> USE DEF SourceInv, TypeOK, ChunksDisjoint, BytesInPlace, ClosedHoldsNothing, EndOf
<1>1. CASE closed /\ reader' = Idle /\ result' = [kind |-> "closed"] /\ UNCHANGED wanted
  <2>1. result'.kind = "closed"
    BY <1>1
  <2>2. QED BY <1>1, <2>1 DEF ReadsTrueBytes, WantedIsBlocked
<1>2. CASE /\ ~closed /\ Buffered(offset) > 0 /\ wanted' = -1 /\ reader' = Idle
           /\ result' = [kind |-> "bytes", offset |-> offset, n |-> n,
                   bytes |-> [k \in 1..LeastOf(n, Buffered(offset)) |-> ByteAt(offset + k - 1)]]
  <2> DEFINE count == LeastOf(n, Buffered(offset))
  <2> DEFINE b == [k \in 1..count |-> ByteAt(offset + k - 1)]
  <2>1. Buffered(offset) \in Nat /\ \A p \in offset..(offset + Buffered(offset) - 1) : p \in Covered
    BY <1>0, BufferedRun
  <2>2. count \in 1..n /\ count \in 1..Buffered(offset)
    BY <1>2, <2>1, SourceAssumption DEF LeastOf
  <2>3. \A k \in 1..count : offset + k - 1 \in Int /\ offset + k - 1 \in Covered
    BY <1>0, <2>1, <2>2
  <2>4. \A k \in 1..count : ByteAt(offset + k - 1) = offset + k - 1
    BY <1>0, <2>3, CoveredByte
  <2> HIDE DEF count
  <2>5. DOMAIN b = 1..count /\ Len(b) = count /\ \A k \in 1..count : b[k] = offset + k - 1
    BY <2>2, <2>4
  <2>6. result'.kind = "bytes" /\ result'.offset = offset /\ result'.n = n /\ result'.bytes = b
    BY <1>2 DEF count
  <2> HIDE DEF b
  <2>7. ReadsTrueBytes'
    BY <2>2, <2>5, <2>6 DEF ReadsTrueBytes
  <2>8. QED BY <1>2, <2>6, <2>7 DEF WantedIsBlocked, Offsets
<1>3. CASE ~closed /\ Buffered(offset) = 0 /\ wanted' = offset /\ reader' = Blocked(offset, n) /\ UNCHANGED result
  BY <1>3 DEF ReadsTrueBytes, WantedIsBlocked, Offsets, Blocked, Idle
<1>4. QED BY <1>1, <1>2, <1>3 DEF Pass

(* An empty source satisfies the invariant. *)
THEOREM SourceInvInit == Init => SourceInv
<1> SUFFICES ASSUME Init PROVE SourceInv
  OBVIOUS
<1>1. DOMAIN chunks = {}
  BY DEF Init
<1>2. position \in Offsets
  BY SourceAssumption DEF Init, Offsets
<1>3. result.kind = "none"
  BY DEF Init
<1>4. QED BY <1>1, <1>2, <1>3 DEF Init, SourceInv, TypeOK, ChunksDisjoint, BytesInPlace, ReadsTrueBytes,
      WantedIsBlocked, ClosedHoldsNothing

(* One case for each call: provide, the three ways to drop chunks, and a   *)
(* pass of the read loop.                                                  *)
THEOREM SourceInvStep == SourceInv /\ [Next]_vars => SourceInv'
<1> SUFFICES ASSUME SourceInv, [Next]_vars PROVE SourceInv'
  OBVIOUS
<1>0. ChunksOK
  BY DEF SourceInv, TypeOK, ChunksOK
<1>1. ASSUME NEW offset \in Offsets, NEW len \in 1..MaxProvide, Provide(offset, len) PROVE SourceInv'
  <2>1. ChunksOK'
    BY <1>1, ProvideKeeps
  <2>2. QED BY <1>1, <2>1 DEF Provide, ChunksOK, SourceInv, TypeOK, ReadsTrueBytes, WantedIsBlocked, ClosedHoldsNothing
<1>2. ASSUME NEW Kept \in SUBSET DOMAIN chunks, chunks' = Restrict(chunks, Kept),
             UNCHANGED <<closed, wanted, position, reader, result>>
      PROVE  SourceInv'
  <2>1. ChunksOK' /\ (chunks = <<>> => chunks' = <<>>)
    BY <1>0, <1>2, DroppingKeeps
  <2>2. QED BY <1>2, <2>1 DEF ChunksOK, SourceInv, TypeOK, ReadsTrueBytes, WantedIsBlocked, ClosedHoldsNothing
<1>3. ASSUME NEW offset \in 0..Size, DiscardBefore(offset) PROVE SourceInv'
  BY <1>2, <1>3 DEF DiscardBefore
<1>4. ASSUME NEW start \in 0..Size, NEW end \in 0..Size, NEW prefixEnd \in 0..Size, Retain(start, end, prefixEnd)
      PROVE  SourceInv'
  BY <1>2, <1>4 DEF Retain
<1>5. ASSUME Close PROVE SourceInv'
  <2>1. DOMAIN chunks' = {}
    BY <1>5 DEF Close
  <2>2. QED BY <1>5, <2>1 DEF Close, SourceInv, TypeOK, ChunksDisjoint, BytesInPlace, ReadsTrueBytes, WantedIsBlocked,
        ClosedHoldsNothing
<1>6. ASSUME NEW offset \in Offsets, NEW n \in 1..MaxRead, Read(offset, n) PROVE SourceInv'
  BY <1>6, PassKeeps DEF Read
<1>7. ASSUME ReadPastEnd PROVE SourceInv'
  BY <1>7 DEF ReadPastEnd, SourceInv, TypeOK, ChunksDisjoint, BytesInPlace, ReadsTrueBytes, WantedIsBlocked,
     ClosedHoldsNothing, EndOf
<1>8. ASSUME Wake PROVE SourceInv'
  <2>1. PICK offset \in Offsets, n \in 1..MaxRead : reader = Blocked(offset, n)
    BY <1>8 DEF Wake, SourceInv, TypeOK, Idle
  <2>2. reader.offset = offset /\ reader.n = n /\ reader # Idle
    BY <2>1 DEF Blocked, Idle
  <2>3. CASE closed
    BY <1>8, <2>2, <2>3 DEF Wake, Pass, SourceInv, TypeOK, ChunksDisjoint, BytesInPlace, ReadsTrueBytes,
       WantedIsBlocked, ClosedHoldsNothing, EndOf
  <2>4. CASE ~closed
    <3>1. position = offset
      BY <2>2, <2>4 DEF SourceInv, WantedIsBlocked
    <3>2. QED BY <1>8, <2>2, <3>1, PassKeeps DEF Wake
  <2>5. QED BY <2>3, <2>4
<1>9. CASE UNCHANGED vars
  BY <1>9 DEF vars, SourceInv, TypeOK, ChunksDisjoint, BytesInPlace, ReadsTrueBytes, WantedIsBlocked,
     ClosedHoldsNothing, EndOf
<1>10. QED BY <1>1, <1>3, <1>4, <1>5, <1>6, <1>7, <1>8, <1>9 DEF Next, Feeder, Decoder

-----------------------------------------------------------------------------
(* The types of all variables are kept by every call of either thread.     *)
THEOREM SourceTypeCorrect == Spec => []TypeOK
<1>1. SourceInv => TypeOK
  BY DEF SourceInv
<1>2. QED BY SourceInvInit, SourceInvStep, <1>1, PTL DEF Spec

(* provide keeps chunks apart and inside the resource, whatever ranges     *)
(* arrive in whatever order.                                               *)
THEOREM NeverOverlap == Spec => []ChunksDisjoint
<1>1. SourceInv => ChunksDisjoint
  BY DEF SourceInv
<1>2. QED BY SourceInvInit, SourceInvStep, <1>1, PTL DEF Spec

(* read returns at least one and at most `n` bytes, the true ones of the   *)
(* offset asked for, across any number of chunks.                          *)
THEOREM DecoderGetsTrueBytes == Spec => []ReadsTrueBytes
<1>1. SourceInv => ReadsTrueBytes
  BY DEF SourceInv
<1>2. QED BY SourceInvInit, SourceInvStep, <1>1, PTL DEF Spec

(* While the source is open, wanted() is the offset of the blocked read,   *)
(* or -1 when none is blocked.                                             *)
THEOREM WantedTellsTheTruth == Spec => []WantedIsBlocked
<1>1. SourceInv => WantedIsBlocked
  BY DEF SourceInv
<1>2. QED BY SourceInvInit, SourceInvStep, <1>1, PTL DEF Spec

(* After close no provide that was under way leaves bytes behind.          *)
THEOREM ClosedStaysEmpty == Spec => []ClosedHoldsNothing
<1>1. SourceInv => ClosedHoldsNothing
  BY DEF SourceInv
<1>2. QED BY SourceInvInit, SourceInvStep, <1>1, PTL DEF Spec

(* Chunks, reads and what the app is told of them agree, for every size,   *)
(* every range that is provided and every interleaving with the decoder.   *)
THEOREM SourceStaysConsistent == Spec => []SourceConsistent
<1>1. SourceInv => SourceConsistent
  BY DEF SourceInv, SourceConsistent
<1>2. QED BY SourceInvInit, SourceInvStep, <1>1, PTL DEF Spec

(* The window a retain keeps is what the decoder is about to read: no      *)
(* chunk that holds a byte of it is dropped (retain).                      *)
LEMMA RetainKeeps ==
  ASSUME TypeOK, NEW start \in 0..Size, NEW end \in 0..Size, NEW prefixEnd \in 0..Size,
         Retain(start, end, prefixEnd),
         NEW p \in Covered, p \in (start..(end - 1)) \cup (0..(prefixEnd - 1))
  PROVE  p \in Covered'
<1>1. PICK s \in DOMAIN chunks : p \in s..(EndOf(s) - 1)
  BY DEF Covered
<1>2. s \in 0..(Size - 1) /\ Len(chunks[s]) \in Nat
  BY DEF TypeOK, Offsets
<1>3. s <= p /\ p < EndOf(s) /\ EndOf(s) \in Int
  BY <1>1, <1>2 DEF EndOf
<1>4. Survives(s, start, end, prefixEnd)
  BY <1>2, <1>3, SourceAssumption DEF Survives
<1>5. s \in DOMAIN chunks' /\ chunks'[s] = chunks[s]
  BY <1>4 DEF Retain, Restrict
<1>6. EndOf(s)' = EndOf(s)
  BY <1>5 DEF EndOf
<1> QED
  BY <1>1, <1>5, <1>6 DEF Covered

(* No retain loses a byte of the window it is given or of the prefix, for  *)
(* every window, every prefix and every way the bytes are cut into chunks. *)
THEOREM WindowIsKept == Spec => RetainKeepsWindow
<1>1. ASSUME TypeOK
      PROVE  \A start, end, prefixEnd \in 0..Size :
               Retain(start, end, prefixEnd) =>
                 Covered \cap (start..(end - 1) \cup 0..(prefixEnd - 1)) \subseteq Covered'
  BY <1>1, RetainKeeps
<1> QED
  BY <1>1, SourceTypeCorrect, PTL DEF RetainKeepsWindow

-----------------------------------------------------------------------------
(* The registry of engines. *)

(* A session play can be given is one it can wait for, or one whose file   *)
(* is chosen.                                                              *)
Settled ==
  \A h \in DOMAIN sessions : sessions[h] \in waiting \/ engine[sessions[h]].file \in Files

(* The inductive invariant. *)
SessionsInv == SessionsTypeOK /\ RunningAreRegistered /\ StreamsWhatIsReady /\ Settled

-----------------------------------------------------------------------------
(* What stop(key) does to the registry. *)
LEMMA StopKeyKeeps ==
  ASSUME SessionsInv, NEW h \in Hashes, StopKey(h)
  PROVE  /\ DOMAIN engine' = DOMAIN engine
         /\ engine' \in [DOMAIN engine -> Engine]
         /\ \A e \in DOMAIN engine : engine'[e].hash = engine[e].hash /\ engine'[e].file = engine[e].file
         /\ DOMAIN sessions' = DOMAIN sessions \ {h}
         /\ \A g \in DOMAIN sessions' : sessions'[g] = sessions[g]
         /\ RunningAreRegistered'
<1>1. /\ sessions' = [g \in DOMAIN sessions \ {h} |-> sessions[g]]
      /\ engine' = Halted(h)
  BY DEF StopKey, Without, Restrict
<1>2. DOMAIN sessions' = DOMAIN sessions \ {h} /\ \A g \in DOMAIN sessions' : sessions'[g] = sessions[g]
  BY <1>1
<1>3. /\ DOMAIN engine' = DOMAIN engine
      /\ engine' \in [DOMAIN engine -> Engine]
      /\ \A e \in DOMAIN engine : engine'[e].hash = engine[e].hash /\ engine'[e].file = engine[e].file
      /\ \A e \in DOMAIN engine :
           ~(h \in DOMAIN sessions /\ sessions[h] = e) => engine'[e].running = engine[e].running
      /\ h \in DOMAIN sessions => engine'[sessions[h]].running = FALSE
  <2>1. CASE h \notin DOMAIN sessions
    BY <1>1, <2>1 DEF Halted, SessionsInv, SessionsTypeOK
  <2>2. CASE h \in DOMAIN sessions
    <3>1. sessions[h] \in DOMAIN engine /\ engine[sessions[h]] \in Engine
      BY <2>2 DEF SessionsInv, SessionsTypeOK
    <3>2. engine' = [engine EXCEPT ![sessions[h]] = [engine[sessions[h]] EXCEPT !.running = FALSE]]
      BY <1>1, <2>2, <3>1 DEF Halted
    <3>3. DOMAIN engine' = DOMAIN engine /\ engine' \in [DOMAIN engine -> Engine]
      BY <3>1, <3>2 DEF SessionsInv, SessionsTypeOK, Engine
    <3>4. \A e \in DOMAIN engine : engine'[e].hash = engine[e].hash /\ engine'[e].file = engine[e].file
      BY <3>1, <3>2 DEF Engine
    <3>5. \A e \in DOMAIN engine : e # sessions[h] => engine'[e] = engine[e]
      BY <3>2
    <3>6. engine'[sessions[h]].running = FALSE
      BY <3>1, <3>2 DEF Engine
    <3>7. QED BY <2>2, <3>3, <3>4, <3>5, <3>6
  <2>3. QED BY <2>1, <2>2
<1>4. RunningAreRegistered'
  <2>1. \A e \in DOMAIN engine' :
          engine'[e].running => engine'[e].hash \in DOMAIN sessions' /\ sessions'[engine'[e].hash] = e
    BY <1>2, <1>3 DEF SessionsInv, RunningAreRegistered
  <2>2. \A g \in DOMAIN sessions' : engine'[sessions'[g]].running /\ engine'[sessions'[g]].hash = g
    <3>1. SUFFICES ASSUME NEW g \in DOMAIN sessions'
                   PROVE  engine'[sessions[g]].running /\ engine'[sessions[g]].hash = g
      BY <1>2
    <3>2. /\ g \in DOMAIN sessions /\ g # h /\ sessions[g] \in DOMAIN engine
          /\ engine[sessions[g]].running /\ engine[sessions[g]].hash = g
      BY <1>2 DEF SessionsInv, RunningAreRegistered, SessionsTypeOK
    <3>3. ~(h \in DOMAIN sessions /\ sessions[h] = sessions[g])
      BY <3>2 DEF SessionsInv, RunningAreRegistered
    <3>4. QED BY <1>3, <3>2, <3>3
  <2>3. QED BY <2>1, <2>2 DEF RunningAreRegistered
<1>5. QED BY <1>2, <1>3, <1>4

(* getOrCreate returns a running session of the torrent, and changes no    *)
(* engine there is.                                                        *)
LEMMA GetOrCreateKeeps ==
  ASSUME SessionsInv, NEW h \in Hashes, NEW idx \in Requests, NEW e \in Ids, GetOrCreate(h, idx, e)
  PROVE  /\ DOMAIN engine' \subseteq Ids /\ engine' \in [DOMAIN engine' -> Engine]
         /\ DOMAIN engine \subseteq DOMAIN engine' /\ e \in DOMAIN engine'
         /\ \A x \in DOMAIN engine : engine'[x] = engine[x]
         /\ waiting \subseteq waiting' /\ waiting' \subseteq DOMAIN engine'
         /\ DOMAIN sessions' \subseteq Hashes /\ sessions' \in [DOMAIN sessions' -> DOMAIN engine']
         /\ h \in DOMAIN sessions' /\ sessions'[h] = e
         /\ RunningAreRegistered' /\ Settled'
<1>1. CASE h \in DOMAIN sessions
  BY <1>1 DEF GetOrCreate, SessionsInv, SessionsTypeOK, RunningAreRegistered, Settled
<1>2. CASE h \notin DOMAIN sessions
  <2>1. /\ e \notin DOMAIN engine
        /\ engine' = [x \in DOMAIN engine \cup {e} |-> IF x = e THEN Prepared(h, idx) ELSE engine[x]]
        /\ waiting' = waiting \cup {e}
        /\ sessions' = [x \in DOMAIN sessions \cup {h} |-> IF x = h THEN e ELSE sessions[x]]
    BY <1>2 DEF GetOrCreate, Start, Fresh
  <2>2. Prepared(h, idx) \in Engine /\ Prepared(h, idx).running /\ Prepared(h, idx).hash = h
    BY DEF Prepared, Engine, Requests
  <2>3. /\ DOMAIN engine' = DOMAIN engine \cup {e}
        /\ engine'[e] = Prepared(h, idx)
        /\ \A x \in DOMAIN engine : engine'[x] = engine[x]
    BY <2>1
  <2>4. engine' \in [DOMAIN engine' -> Engine] /\ DOMAIN engine' \subseteq Ids
    BY <2>1, <2>2 DEF SessionsInv, SessionsTypeOK
  <2>5. /\ DOMAIN sessions' = DOMAIN sessions \cup {h}
        /\ sessions'[h] = e
        /\ \A g \in DOMAIN sessions : sessions'[g] = sessions[g] /\ sessions[g] \in DOMAIN engine
    BY <2>1, <1>2 DEF SessionsInv, SessionsTypeOK
  <2>6. DOMAIN sessions' \subseteq Hashes /\ sessions' \in [DOMAIN sessions' -> DOMAIN engine']
    BY <2>1, <2>3 DEF SessionsInv, SessionsTypeOK
  <2>7. RunningAreRegistered'
    <3>1. \A x \in DOMAIN engine' :
            engine'[x].running => engine'[x].hash \in DOMAIN sessions' /\ sessions'[engine'[x].hash] = x
      BY <2>2, <2>3, <2>5 DEF SessionsInv, RunningAreRegistered
    <3>2. \A g \in DOMAIN sessions' : engine'[sessions'[g]].running /\ engine'[sessions'[g]].hash = g
      BY <2>2, <2>3, <2>5 DEF SessionsInv, RunningAreRegistered
    <3>3. QED BY <3>1, <3>2 DEF RunningAreRegistered
  <2>8. Settled'
    BY <2>1, <2>3, <2>5 DEF SessionsInv, Settled
  <2>9. QED BY <2>1, <2>3, <2>4, <2>5, <2>6, <2>7, <2>8 DEF SessionsInv, SessionsTypeOK
<1>3. QED BY <1>1, <1>2

-----------------------------------------------------------------------------
(* No engine, no session, an idle player.                                  *)
LEMMA SessionsInvInit == SessionsInit => SessionsInv
  BY DEF SessionsInit, SessionsInv, SessionsTypeOK, RunningAreRegistered, StreamsWhatIsReady, Settled, Requests

(* A rejected promise takes its own session, or its successor, away. *)
LEMMA RejectsInv ==
  ASSUME SessionsInv, NEW e \in waiting, Rejects(e)
  PROVE  SessionsInv'
<1>0. e \in DOMAIN engine /\ engine[e] \in Engine /\ engine[e].hash \in Hashes
  BY DEF SessionsInv, SessionsTypeOK, Engine
<1>1. /\ DOMAIN engine' = DOMAIN engine
      /\ engine' \in [DOMAIN engine -> Engine]
      /\ \A x \in DOMAIN engine : engine'[x].hash = engine[x].hash /\ engine'[x].file = engine[x].file
      /\ DOMAIN sessions' = DOMAIN sessions \ {engine[e].hash}
      /\ \A g \in DOMAIN sessions' : sessions'[g] = sessions[g]
      /\ RunningAreRegistered'
  BY <1>0, StopKeyKeeps DEF Rejects
<1>2. waiting' = waiting \ {e} /\ PlayFails(e)
  BY DEF Rejects
<1>3. sessions' = [g \in DOMAIN sessions' |-> sessions'[g]]
  BY DEF Rejects, StopKey, Without, Restrict
<1>4. SessionsTypeOK'
  <2>1. DOMAIN sessions' \subseteq Hashes /\ sessions' \in [DOMAIN sessions' -> DOMAIN engine']
    BY <1>1, <1>3 DEF SessionsInv, SessionsTypeOK
  <2>2. /\ phase' \in {"idle", "connecting", "streaming"}
        /\ input' \in DOMAIN engine \cup {0}
        /\ (input' = 0) <=> (phase' = "idle")
        /\ wants' \in Requests
    BY <1>2 DEF SessionsInv, SessionsTypeOK, PlayFails, Requests
  <2>3. QED BY <1>1, <1>2, <2>1, <2>2 DEF SessionsInv, SessionsTypeOK
<1>5. StreamsWhatIsReady'
  <2>1. CASE phase = "connecting" /\ input = e
    BY <1>2, <2>1 DEF PlayFails, StreamsWhatIsReady
  <2>2. CASE ~(phase = "connecting" /\ input = e)
    BY <1>1, <1>2, <2>2 DEF PlayFails, StreamsWhatIsReady, SessionsInv, SessionsTypeOK
  <2>3. QED BY <2>1, <2>2
<1>6. Settled'
  <2>1. SUFFICES ASSUME NEW g \in DOMAIN sessions'
                 PROVE  sessions[g] \in waiting' \/ engine'[sessions[g]].file \in Files
    BY <1>1 DEF Settled
  <2>2. g \in DOMAIN sessions /\ g # engine[e].hash /\ sessions[g] \in DOMAIN engine
    BY <1>1 DEF SessionsInv, SessionsTypeOK
  <2>3. sessions[g] # e
    BY <2>2 DEF SessionsInv, RunningAreRegistered
  <2>4. QED BY <1>1, <1>2, <2>2, <2>3 DEF SessionsInv, Settled
<1>7. QED BY <1>1, <1>4, <1>5, <1>6 DEF SessionsInv

(* One case for each call of the registry and each outcome of waitForInfo. *)
LEMMA SessionsInvNext == SessionsInv /\ [SessionsNext]_sessionsVars => SessionsInv'
<1> SUFFICES ASSUME SessionsInv, [SessionsNext]_sessionsVars PROVE SessionsInv'
  OBVIOUS
<1>1. ASSUME NEW e \in Ids, MetadataReady(e) PROVE SessionsInv'
  <2>1. /\ e \in DOMAIN engine /\ engine[e] \in Engine
        /\ engine' = [engine EXCEPT ![e] = [engine[e] EXCEPT !.info = TRUE]]
        /\ UNCHANGED <<waiting, sessions, phase, input, wants>>
    BY <1>1 DEF MetadataReady, SessionsInv, SessionsTypeOK
  <2>2. DOMAIN engine' = DOMAIN engine /\ engine' \in [DOMAIN engine -> Engine]
    BY <2>1 DEF SessionsInv, SessionsTypeOK, Engine
  <2>3. \A x \in DOMAIN engine : /\ engine'[x].hash = engine[x].hash /\ engine'[x].file = engine[x].file
                                 /\ engine'[x].running = engine[x].running
    BY <2>1 DEF Engine
  <2>4. SessionsTypeOK'
    BY <2>1, <2>2 DEF SessionsInv, SessionsTypeOK
  <2>5. RunningAreRegistered'
    BY <2>1, <2>2, <2>3 DEF SessionsInv, SessionsTypeOK, RunningAreRegistered
  <2>6. StreamsWhatIsReady' /\ Settled'
    BY <2>1, <2>2, <2>3 DEF SessionsInv, SessionsTypeOK, StreamsWhatIsReady, Settled
  <2>7. QED BY <2>4, <2>5, <2>6 DEF SessionsInv
<1>2. ASSUME NEW e \in Ids, FindsInfo(e) PROVE SessionsInv'
  <2>0. PickFile(engine[e].fileIdx) \in Files
    BY <1>2, SessionsAssumption DEF FindsInfo, InRange, PickFile
  <2>1. /\ e \in DOMAIN engine /\ engine[e] \in Engine
        /\ engine' = [engine EXCEPT ![e] = [engine[e] EXCEPT !.file = PickFile(engine[e].fileIdx)]]
        /\ waiting' = waiting \ {e} /\ phase' = Resumed(e)
        /\ UNCHANGED <<sessions, input, wants>>
    BY <1>2 DEF FindsInfo, SessionsInv, SessionsTypeOK
  <2>2. DOMAIN engine' = DOMAIN engine /\ engine' \in [DOMAIN engine -> Engine]
    BY <2>0, <2>1, SessionsAssumption DEF SessionsInv, SessionsTypeOK, Engine, Requests
  <2>3. \A x \in DOMAIN engine : engine'[x].hash = engine[x].hash /\ engine'[x].running = engine[x].running
    BY <2>1 DEF Engine
  <2>4. engine'[e].file \in Files /\ \A x \in DOMAIN engine \ {e} : engine'[x].file = engine[x].file
    BY <2>0, <2>1 DEF Engine
  <2>5. SessionsTypeOK'
    BY <2>1, <2>2 DEF SessionsInv, SessionsTypeOK, Resumed
  <2>6. RunningAreRegistered'
    BY <2>1, <2>2, <2>3 DEF SessionsInv, SessionsTypeOK, RunningAreRegistered
  <2>7. StreamsWhatIsReady'
    BY <2>1, <2>2, <2>4 DEF SessionsInv, SessionsTypeOK, StreamsWhatIsReady, Resumed
  <2>8. Settled'
    BY <2>1, <2>2, <2>4 DEF SessionsInv, SessionsTypeOK, Settled
  <2>9. QED BY <2>5, <2>6, <2>7, <2>8 DEF SessionsInv
<1>3. ASSUME NEW e \in Ids, FindsNoFile(e) \/ FindsItselfStopped(e) \/ TimesOut(e) PROVE SessionsInv'
  <2>1. e \in waiting /\ Rejects(e)
    BY <1>3 DEF FindsNoFile, FindsItselfStopped, TimesOut
  <2>2. QED BY <2>1, RejectsInv
<1>4. ASSUME NEW h \in Hashes, CoreCreates(h) PROVE SessionsInv'
  <2>1. PICK e \in Ids : GetOrCreate(h, Null, e)
    BY <1>4 DEF CoreCreates
  <2>2. /\ DOMAIN engine' \subseteq Ids /\ engine' \in [DOMAIN engine' -> Engine]
        /\ DOMAIN engine \subseteq DOMAIN engine'
        /\ \A x \in DOMAIN engine : engine'[x] = engine[x]
        /\ waiting \subseteq waiting' /\ waiting' \subseteq DOMAIN engine'
        /\ DOMAIN sessions' \subseteq Hashes /\ sessions' \in [DOMAIN sessions' -> DOMAIN engine']
        /\ RunningAreRegistered' /\ Settled'
    BY <2>1, GetOrCreateKeeps DEF Requests
  <2>3. UNCHANGED <<phase, input, wants>>
    BY <1>4 DEF CoreCreates
  <2>4. SessionsTypeOK' /\ StreamsWhatIsReady'
    BY <2>2, <2>3 DEF SessionsInv, SessionsTypeOK, StreamsWhatIsReady
  <2>5. QED BY <2>2, <2>4 DEF SessionsInv
<1>5. ASSUME NEW h \in Hashes, NEW idx \in Requests, Play(h, idx) PROVE SessionsInv'
  <2>1. PICK e \in Ids : /\ GetOrCreate(h, idx, e)
                         /\ phase' = IF e \in waiting' THEN "connecting" ELSE "streaming"
                         /\ input' = e
    BY <1>5 DEF Play
  <2>2. /\ DOMAIN engine' \subseteq Ids /\ engine' \in [DOMAIN engine' -> Engine] /\ e \in DOMAIN engine'
        /\ waiting' \subseteq DOMAIN engine'
        /\ DOMAIN sessions' \subseteq Hashes /\ sessions' \in [DOMAIN sessions' -> DOMAIN engine']
        /\ h \in DOMAIN sessions' /\ sessions'[h] = e
        /\ RunningAreRegistered' /\ Settled'
    BY <2>1, GetOrCreateKeeps
  <2>3. wants' = idx /\ e # 0
    BY <1>5, SessionsAssumption DEF Play, Ids
  <2>4. SessionsTypeOK'
    BY <2>1, <2>2, <2>3 DEF SessionsTypeOK
  <2>5. StreamsWhatIsReady'
    BY <2>1, <2>2 DEF StreamsWhatIsReady, Settled
  <2>6. QED BY <2>2, <2>4, <2>5 DEF SessionsInv
<1>6. ASSUME Stop PROVE SessionsInv'
  <2>1. input \in DOMAIN engine /\ engine[input].hash \in Hashes
    BY <1>6 DEF Stop, SessionsInv, SessionsTypeOK, Engine
  <2>2. /\ DOMAIN engine' = DOMAIN engine
        /\ engine' \in [DOMAIN engine -> Engine]
        /\ \A x \in DOMAIN engine : engine'[x].hash = engine[x].hash /\ engine'[x].file = engine[x].file
        /\ DOMAIN sessions' = DOMAIN sessions \ {engine[input].hash}
        /\ \A g \in DOMAIN sessions' : sessions'[g] = sessions[g]
        /\ RunningAreRegistered'
    BY <1>6, <2>1, StopKeyKeeps DEF Stop
  <2>3. sessions' = [g \in DOMAIN sessions' |-> sessions'[g]]
    BY <1>6 DEF Stop, StopKey, Without, Restrict
  <2>4. waiting' = waiting /\ phase' = "idle" /\ input' = 0 /\ wants' = Null
    BY <1>6 DEF Stop
  <2>5. DOMAIN sessions' \subseteq Hashes /\ sessions' \in [DOMAIN sessions' -> DOMAIN engine']
    BY <2>2, <2>3 DEF SessionsInv, SessionsTypeOK
  <2>6. SessionsTypeOK'
    BY <2>2, <2>4, <2>5 DEF SessionsInv, SessionsTypeOK, Requests
  <2>7. StreamsWhatIsReady' /\ Settled'
    BY <2>2, <2>4 DEF SessionsInv, SessionsTypeOK, StreamsWhatIsReady, Settled
  <2>8. QED BY <2>2, <2>6, <2>7 DEF SessionsInv
<1>7. CASE UNCHANGED sessionsVars
  BY <1>7 DEF sessionsVars, SessionsInv, SessionsTypeOK, RunningAreRegistered, StreamsWhatIsReady, Settled
<1>8. QED BY <1>1, <1>2, <1>3, <1>4, <1>5, <1>6, <1>7 DEF SessionsNext

(* The invariant holds throughout.                                         *)
LEMMA SessionsInvariance == SessionsSpec => []SessionsInv
<1>1. QED BY SessionsInvInit, SessionsInvNext, PTL DEF SessionsSpec

(* Types are kept, whatever the registry and the player do.                *)
THEOREM SessionsTypeCorrect == SessionsSpec => []SessionsTypeOK
<1>1. SessionsInv => SessionsTypeOK
  BY DEF SessionsInv
<1>2. QED BY SessionsInvariance, <1>1, PTL

(* #sessions holds exactly the running engines, one for each torrent: no   *)
(* engine can leak, not even when an old engine stops its successor.       *)
THEOREM NoEngineLeaks == SessionsSpec => []RunningAreRegistered
<1>1. SessionsInv => RunningAreRegistered
  BY DEF SessionsInv
<1>2. QED BY SessionsInvariance, <1>1, PTL

(* play starts only on an engine whose file is chosen, and waits only for  *)
(* a promise still to be settled.                                          *)
THEOREM PlayStartsReady == SessionsSpec => []StreamsWhatIsReady
<1>1. SessionsInv => StreamsWhatIsReady
  BY DEF SessionsInv
<1>2. QED BY SessionsInvariance, <1>1, PTL

(* The registry, the engines and the player agree, for every set of        *)
(* torrents and files and every order of plays, stops and metadata.        *)
THEOREM RegistryStaysConsistent == SessionsSpec => []RegistryConsistent
<1>1. SessionsInv => RegistryConsistent
  BY DEF SessionsInv, RegistryConsistent
<1>2. QED BY SessionsInvariance, <1>1, PTL
=============================================================================
