------------------------- MODULE PieceManagerProofs -------------------------
(***************************************************************************)
(* Proofs about PieceManager for every torrent layout, every choice of     *)
(* offsets and every number of buffers: type correctness, the safety       *)
(* invariants of the runs, and the implementation of PieceStore.           *)
(***************************************************************************)
EXTENDS PieceManager, WellFoundedInduction, TLAPS

-----------------------------------------------------------------------------
(* The inductive invariant: the invariants of the runs, and the facts they *)
(* rest on.                                                                *)

(* The verified flags say exactly which pieces have bytes (retainRange).   *)
CompleteIffCached == \A i \in Pieces : complete[i] <=> i \in DOMAIN cache

(* Only intact pieces are cached (the hash comparison of onBlock).         *)
CachedIntact == \A i \in DOMAIN cache : Intact(cache[i])

(* Buffers have an identity: no two pieces share one, and a hash that runs *)
(* over the buffer of a piece is the hash of that piece, of all its blocks.*)
BufferIdentity ==
  /\ \A i, j \in DOMAIN partial : partial[i].id = partial[j].id => i = j
  /\ \A h \in hashing : \A i \in DOMAIN partial :
       partial[i].id = h.id => h.index = i /\ h.got = partial[i].got

(* The inductive invariant. *)
IInv ==
  /\ TypeOK
  /\ CompleteIffCached
  /\ CachedIntact
  /\ MemoryInWindow
  /\ FullPieceIsHashed
  /\ NoDoubleWork
  /\ BufferIdentity

-----------------------------------------------------------------------------
(* The layout of the torrent. *)

(* Rounding up (numPieces, blockCount) gives a natural number.             *)
LEMMA CeilDivNat ==
  ASSUME NEW a \in Nat, NEW b \in Nat \ {0}
  PROVE  CeilDiv(a, b) \in Nat
BY DEF CeilDiv

(* The number of pieces and the piece of an offset are natural numbers.    *)
LEMMA LayoutTypes ==
  /\ NumPieces \in Nat
  /\ \A o \in Nat : PieceOf(o) \in Nat
  /\ \A o \in 0..TotalLength : PieceOf(o) \in 0..NumPieces /\ CeilDiv(o, PieceLength) \in 0..NumPieces
BY LayoutAssumption DEF NumPieces, PieceOf, CeilDiv

(* No piece is empty and none is without a block (pieceSize, blockCount).   *)
LEMMA BlockFacts == NumPieces \in Nat \ {0} /\ \A i \in Pieces : PieceSize(i) \in Nat \ {0} /\ BlockCount(i) \in Nat \ {0}
BY LayoutAssumption DEF NumPieces, Pieces, PieceSize, BlockCount, CeilDiv

(* The key of a request names a piece and a block of it.                   *)
LEMMA KeyTypes ==
  \A x \in Keys : x[1] \in Pieces /\ x[2] \in Blocks(x[1]) /\ x = <<x[1], x[2]>>
BY DEF Keys

-----------------------------------------------------------------------------
(* The invariant holds initially and is preserved by every action. *)

(* A new piece manager holds nothing, which satisfies the invariant.       *)
LEMMA InitEstablishes == Init => IInv
<1> SUFFICES ASSUME Init PROVE IInv
  OBVIOUS
<1>1. TypeOK
  BY LayoutTypes, BlockFacts, LayoutAssumption DEF Init, TypeOK
<1>2. CompleteIffCached /\ CachedIntact /\ MemoryInWindow /\ FullPieceIsHashed /\ NoDoubleWork /\ BufferIdentity
  BY DEF Init, CompleteIffCached, CachedIntact, MemoryInWindow, FullPieceIsHashed, NoDoubleWork, BufferIdentity
<1> QED
  BY <1>1, <1>2 DEF IInv

(* Moving the head can only widen the window. *)
LEMMA SetReadHeadPreserves ==
  ASSUME IInv, NEW offset \in Offsets, SetReadHead(offset)
  PROVE  IInv'
<1> USE DEF IInv
<1>1. offset \in 0..TotalLength /\ readHead' \in 0..(TotalLength - 1)
  BY LayoutAssumption DEF SetReadHead
<1>2. /\ keepFrom' \in 0..NumPieces
      /\ keepTo' \in 0..NumPieces
      /\ \A i \in Pieces : InKeep(i) => InKeep(i)'
  <2>1. CASE UNCHANGED <<keepFrom, keepTo>>
    BY <2>1 DEF TypeOK, InKeep
  <2>2. CASE keepFrom' = 0 /\ keepTo' = NumPieces
    BY <2>2, LayoutTypes DEF InKeep, Pieces
  <2> QED
    BY <2>1, <2>2 DEF SetReadHead
<1>3. TypeOK'
  BY <1>1, <1>2 DEF SetReadHead, TypeOK
<1>4. MemoryInWindow'
  BY <1>2 DEF SetReadHead, TypeOK, MemoryInWindow
<1>5. CompleteIffCached' /\ CachedIntact' /\ FullPieceIsHashed' /\ NoDoubleWork' /\ BufferIdentity'
  BY DEF SetReadHead, CompleteIffCached, CachedIntact, FullPieceIsHashed, IsCurrent, NoDoubleWork, BufferIdentity
<1> QED
  BY <1>3, <1>4, <1>5

(* Evicting restricts the cache and the assembly to the new window. *)
LEMMA RetainRangePreserves ==
  ASSUME IInv, NEW start \in 0..TotalLength, NEW end \in 0..TotalLength, RetainRange(start, end)
  PROVE  IInv'
<1> USE DEF IInv
<1> DEFINE kept == {i \in Pieces : keepFrom' <= i /\ i < keepTo'}
<1>1. /\ keepFrom' \in 0..NumPieces
      /\ keepTo' \in 0..NumPieces
  BY LayoutTypes DEF RetainRange
<1>2. /\ cache' = [i \in DOMAIN cache \cap kept |-> cache[i]]
      /\ complete' = [i \in Pieces |-> complete[i] /\ (i \in DOMAIN cache => i \in kept)]
      /\ partial' = [i \in DOMAIN partial \cap kept |-> partial[i]]
      /\ inflight' = [x \in {y \in DOMAIN inflight : y[1] \in kept} |-> inflight[x]]
      /\ UNCHANGED <<hashing, readHead>>
  BY DEF RetainRange, Restrict, Forgetting
<1> HIDE DEF kept
<1>3. TypeOK'
  BY <1>1, <1>2 DEF TypeOK
<1>4. CompleteIffCached' /\ CachedIntact'
  BY <1>2 DEF CompleteIffCached, CachedIntact, TypeOK
<1>5. MemoryInWindow'
  BY <1>2 DEF MemoryInWindow, InKeep, kept
<1>6. FullPieceIsHashed'
  BY <1>2 DEF FullPieceIsHashed, IsCurrent
<1>7. NoDoubleWork' /\ BufferIdentity'
  BY <1>2 DEF NoDoubleWork, BufferIdentity, TypeOK
<1> QED
  BY <1>3, <1>4, <1>5, <1>6, <1>7

(* Requests touch nothing but the in-flight entries. *)
LEMMA RequestsPreserve ==
  ASSUME IInv,
         \/ \E has \in SUBSET Pieces, max \in 1..MaxPick : PickRequests(has, max)
         \/ \E x \in Keys : RequestTimesOut(x)
  PROVE  IInv'
<1> USE DEF IInv
<1>1. UNCHANGED <<complete, cache, partial, hashing, readHead, keepFrom, keepTo>>
  BY DEF PickRequests, RequestTimesOut
<1> DEFINE InflightTyped == DOMAIN inflight \subseteq Keys /\ \A x \in DOMAIN inflight : inflight[x] \in [count : 1..MaxDupCritical, fresh : BOOLEAN]
<1>2. InflightTyped'
  <2>1. ASSUME NEW has \in SUBSET Pieces, NEW max \in 1..MaxPick, PickRequests(has, max)
        PROVE  InflightTyped'
    <3> DEFINE picked == Picked(has, max)
    <3>1. picked \subseteq Keys /\ \A x \in picked : Outstanding(x) < Allowed(x[1])
      BY DEF Picked, FirstOf, Eligible
    <3>2. \A x \in Keys : Outstanding(x) \in Nat /\ Allowed(x[1]) \in 1..MaxDupCritical
      BY PickerAssumption DEF TypeOK, Outstanding, Allowed
    <3>3. inflight' = [x \in DOMAIN inflight \cup picked |->
                        IF x \in picked THEN [count |-> Outstanding(x) + 1, fresh |-> TRUE] ELSE inflight[x]]
      BY <2>1 DEF PickRequests
    <3> HIDE DEF picked
    <3>4. \A x \in picked : Outstanding(x) + 1 \in 1..MaxDupCritical
      BY <3>1, <3>2, PickerAssumption
    <3> QED
      BY <3>1, <3>3, <3>4 DEF TypeOK
  <2>2. ASSUME NEW x \in Keys, RequestTimesOut(x)
        PROVE  InflightTyped'
    BY <2>2 DEF RequestTimesOut, TypeOK
  <2> QED
    BY <2>1, <2>2
<1>3. TypeOK'
  BY <1>1, <1>2 DEF TypeOK
<1> QED
  BY <1>1, <1>3 DEF CompleteIffCached, CachedIntact, MemoryInWindow, InKeep, FullPieceIsHashed, IsCurrent, NoDoubleWork, BufferIdentity

(* An answered request leaves a well-formed entry or none. *)
LEMMA AnsweredTyped ==
  ASSUME TypeOK, NEW x
  PROVE  /\ DOMAIN Answered(x) \subseteq Keys
         /\ \A y \in DOMAIN Answered(x) : Answered(x)[y] \in [count : 1..MaxDupCritical, fresh : BOOLEAN]
<1>1. CASE x \notin DOMAIN inflight
  BY <1>1 DEF Answered, TypeOK
<1>2. CASE x \in DOMAIN inflight /\ inflight[x].count > 1
  <2>1. inflight[x] \in [count : 1..MaxDupCritical, fresh : BOOLEAN] /\ inflight[x].count - 1 \in 1..MaxDupCritical
    BY <1>2, PickerAssumption DEF TypeOK
  <2>2. Answered(x) = [inflight EXCEPT ![x] = [count |-> inflight[x].count - 1, fresh |-> inflight[x].fresh]]
    BY <1>2, <2>1 DEF Answered
  <2> QED
    BY <2>1, <2>2 DEF TypeOK
<1>3. CASE x \in DOMAIN inflight /\ ~(inflight[x].count > 1)
  BY <1>3 DEF Answered, Restrict, TypeOK
<1> QED
  BY <1>1, <1>2, <1>3

(* What storing a block does to the assembly of its piece. *)
LEMMA AssemblyFacts ==
  ASSUME IInv, NEW i \in Pieces, NEW b \in Blocks(i) \ Received(i), NEW data \in {"good", "bad"},
         i \in DOMAIN partial \/ \E id \in Buffers : id \notin LiveBuffers
  PROVE  LET asm == WithBlock(Assembly(i), b, data)
         IN  /\ asm.id \in Buffers
             /\ DOMAIN asm.got = Received(i) \cup {b}
             /\ DOMAIN asm.got \subseteq Blocks(i)
             /\ \A x \in DOMAIN asm.got : asm.got[x] \in {"good", "bad"}
             /\ \A j \in DOMAIN partial : partial[j].id = asm.id => j = i
             /\ \A h \in hashing : h.id # asm.id
<1> USE DEF IInv
<1>1. CASE i \in DOMAIN partial
  <2>1. Assembly(i) = partial[i] /\ Received(i) = DOMAIN partial[i].got
    BY <1>1 DEF Assembly, Received
  <2>2. ASSUME NEW h \in hashing, h.id = partial[i].id PROVE FALSE
    <3>1. h.index = i /\ h.got = partial[i].got
      BY <1>1, <2>2 DEF BufferIdentity
    <3>2. DOMAIN h.got = Blocks(i)
      BY <3>1 DEF TypeOK
    <3> QED
      BY <2>1, <3>1, <3>2
  <2> QED
    BY <1>1, <2>1, <2>2 DEF WithBlock, BufferIdentity, TypeOK
<1>2. CASE i \notin DOMAIN partial
  <2>1. NewBuffer \in Buffers /\ NewBuffer \notin LiveBuffers
    BY <1>2 DEF NewBuffer
  <2>2. Assembly(i) = [id |-> NewBuffer, got |-> <<>>] /\ Received(i) = {}
    BY <1>2 DEF Assembly, Received
  <2> QED
    BY <1>2, <2>1, <2>2 DEF WithBlock, LiveBuffers
<1> QED
  BY <1>1, <1>2

(* onBlock: a block starts or extends a piece, the last one has it hashed. *)
LEMMA OnBlockPreserves ==
  ASSUME IInv, NEW i \in 0..NumPieces, NEW b \in Nat, NEW data \in BlockData, OnBlock(i, b, data)
  PROVE  IInv'
<1> USE DEF IInv
<1>1. /\ DOMAIN inflight' \subseteq Keys
      /\ \A y \in DOMAIN inflight' : inflight'[y] \in [count : 1..MaxDupCritical, fresh : BOOLEAN]
      /\ UNCHANGED <<complete, cache, readHead, keepFrom, keepTo>>
  BY AnsweredTyped DEF OnBlock
<1>2. CASE ~Accepts(i, b, data) \/ b \in Received(i)
  <2>1. UNCHANGED <<partial, hashing>>
    BY <1>2 DEF OnBlock
  <2>2. TypeOK'
    BY <1>1, <2>1 DEF TypeOK
  <2> QED
    BY <1>1, <2>1, <2>2 DEF CompleteIffCached, CachedIntact, MemoryInWindow, InKeep, FullPieceIsHashed, IsCurrent, NoDoubleWork, BufferIdentity
<1>3. CASE Accepts(i, b, data) /\ b \notin Received(i)
  <2> DEFINE asm == WithBlock(Assembly(i), b, data)
             full == [index |-> i, id |-> asm.id, got |-> asm.got]
  <2>1. /\ i \in Pieces /\ b \in Blocks(i) \ Received(i) /\ data \in {"good", "bad"}
        /\ InKeep(i) /\ ~complete[i]
    BY <1>3 DEF Accepts, BlockData
  <2>2. /\ i \in DOMAIN partial \/ \E id \in Buffers : id \notin LiveBuffers
        /\ partial' = [j \in DOMAIN partial \cup {i} |-> IF j = i THEN asm ELSE partial[j]]
        /\ hashing' = IF DOMAIN asm.got = Blocks(i) THEN hashing \cup {full} ELSE hashing
    BY <1>3 DEF OnBlock
  <2>3. /\ asm.id \in Buffers
        /\ DOMAIN asm.got = Received(i) \cup {b}
        /\ DOMAIN asm.got \subseteq Blocks(i)
        /\ \A x \in DOMAIN asm.got : asm.got[x] \in {"good", "bad"}
        /\ \A j \in DOMAIN partial : partial[j].id = asm.id => j = i
        /\ \A h \in hashing : h.id # asm.id
    BY <2>1, <2>2, AssemblyFacts
  <2>4. asm.got = [x \in DOMAIN asm.got |-> asm.got[x]]
    BY DEF WithBlock
  <2> HIDE DEF asm
  <2>5. DOMAIN asm.got = Blocks(i) => full.got \in [Blocks(i) -> {"good", "bad"}]
    BY <2>3, <2>4
  <2>6. TypeOK'
    <3>1. \A j \in DOMAIN partial' :
            /\ partial'[j].id \in Buffers
            /\ DOMAIN partial'[j].got \subseteq Blocks(j)
            /\ \A x \in DOMAIN partial'[j].got : partial'[j].got[x] \in {"good", "bad"}
      BY <2>2, <2>3 DEF TypeOK
    <3>2. \A h \in hashing' : h.index \in Pieces /\ h.id \in Buffers /\ h.got \in [Blocks(h.index) -> {"good", "bad"}]
      BY <2>1, <2>2, <2>3, <2>5 DEF TypeOK
    <3> QED
      BY <1>1, <2>1, <2>2, <3>1, <3>2 DEF TypeOK
  <2>7. CompleteIffCached' /\ CachedIntact'
    BY <1>1 DEF CompleteIffCached, CachedIntact
  <2>8. MemoryInWindow'
    BY <1>1, <2>1, <2>2 DEF MemoryInWindow, InKeep
  <2>9. FullPieceIsHashed'
    <3> SUFFICES ASSUME NEW j \in DOMAIN partial', DOMAIN partial'[j].got = Blocks(j)
                 PROVE  \E h \in hashing' : h.index = j /\ IsCurrent(h)'
      BY DEF FullPieceIsHashed
    <3>1. CASE j = i
      <4>1. full \in hashing' /\ full.index = i /\ full.id = asm.id /\ partial'[i] = asm /\ i \in DOMAIN partial'
        BY <2>2, <3>1
      <4> QED
        BY <3>1, <4>1 DEF IsCurrent
    <3>2. CASE j # i
      <4>1. j \in DOMAIN partial /\ partial'[j] = partial[j]
        BY <2>2, <3>2
      <4>2. PICK h \in hashing : h.index = j /\ IsCurrent(h)
        BY <4>1 DEF FullPieceIsHashed
      <4> QED
        BY <2>2, <4>1, <4>2 DEF IsCurrent
    <3> QED
      BY <3>1, <3>2
  <2>10. NoDoubleWork'
    BY <1>1, <2>1, <2>2, <2>3 DEF NoDoubleWork
  <2>11. BufferIdentity'
    BY <2>2, <2>3 DEF BufferIdentity
  <2> QED
    BY <2>6, <2>7, <2>8, <2>9, <2>10, <2>11
<1> QED
  BY <1>2, <1>3

(* The end of a hash: stored when intact and current, else thrown away.    *)
LEMMA Sha1DonePreserves ==
  ASSUME IInv, NEW h \in hashing, Sha1Done(h)
  PROVE  IInv'
<1> USE DEF IInv
<1>1. /\ hashing' = hashing \ {h}
      /\ UNCHANGED <<inflight, readHead, keepFrom, keepTo>>
      /\ h.index \in Pieces /\ h.got \in [Blocks(h.index) -> {"good", "bad"}]
  BY DEF Sha1Done, TypeOK
<1>2. CASE ~IsCurrent(h)
  <2>1. UNCHANGED <<complete, cache, partial>>
    BY <1>2 DEF Sha1Done
  <2>2. TypeOK'
    BY <1>1, <2>1 DEF TypeOK
  <2>3. FullPieceIsHashed'
    BY <1>1, <1>2, <2>1 DEF FullPieceIsHashed, IsCurrent
  <2> QED
    BY <1>1, <2>1, <2>2, <2>3 DEF CompleteIffCached, CachedIntact, MemoryInWindow, InKeep, NoDoubleWork, BufferIdentity
<1>3. CASE IsCurrent(h)
  <2>1. /\ partial' = [j \in DOMAIN partial \ {h.index} |-> partial[j]]
        /\ h.index \in DOMAIN partial
    BY <1>3 DEF Sha1Done, Released, Restrict, IsCurrent
  <2>2. \/ UNCHANGED <<complete, cache>>
        \/ /\ Intact(h.got)
           /\ cache' = [j \in DOMAIN cache \cup {h.index} |-> IF j = h.index THEN h.got ELSE cache[j]]
           /\ complete' = [complete EXCEPT ![h.index] = TRUE]
    BY <1>3 DEF Sha1Done
  <2>3. TypeOK'
    BY <1>1, <2>1, <2>2 DEF TypeOK
  <2>4. CompleteIffCached'
    BY <1>1, <2>2 DEF CompleteIffCached, TypeOK
  <2>5. CachedIntact'
    BY <2>2 DEF CachedIntact
  <2>6. MemoryInWindow'
    BY <1>1, <2>1, <2>2 DEF MemoryInWindow, InKeep
  <2>7. FullPieceIsHashed'
    BY <1>1, <2>1 DEF FullPieceIsHashed, IsCurrent
  <2>8. NoDoubleWork'
    BY <1>1, <2>1, <2>2 DEF NoDoubleWork, TypeOK
  <2>9. BufferIdentity'
    BY <1>1, <2>1 DEF BufferIdentity
  <2> QED
    BY <2>3, <2>4, <2>5, <2>6, <2>7, <2>8, <2>9
<1> QED
  BY <1>2, <1>3

(* One case for each method of PieceManager and for the end of a hash.     *)
LEMMA NextPreserves == IInv /\ [Next]_vars => IInv'
<1> SUFFICES ASSUME IInv, [Next]_vars PROVE IInv'
  OBVIOUS
<1>1. ASSUME NEW offset \in Offsets, SetReadHead(offset) PROVE IInv'
  BY <1>1, SetReadHeadPreserves
<1>2. ASSUME NEW start \in Offsets, NEW end \in Offsets, RetainRange(start, end) PROVE IInv'
  BY <1>2, RetainRangePreserves, LayoutAssumption
<1>3. ASSUME NEW offset \in Offsets, EvictBefore(offset) PROVE IInv'
  BY <1>3, RetainRangePreserves, LayoutAssumption DEF EvictBefore
<1>4. ASSUME \/ \E has \in SUBSET Pieces, max \in 1..MaxPick : PickRequests(has, max)
             \/ \E x \in Keys : RequestTimesOut(x)
      PROVE IInv'
  BY <1>4, RequestsPreserve
<1>5. ASSUME NEW i \in 0..NumPieces, NEW b \in 0..BlockCount(0), NEW data \in BlockData, OnBlock(i, b, data)
      PROVE IInv'
  <2>1. b \in Nat
    BY BlockFacts DEF Pieces
  <2> QED
    BY <1>5, <2>1, OnBlockPreserves
<1>6. ASSUME NEW h \in hashing, Sha1Done(h) PROVE IInv'
  BY <1>6, Sha1DonePreserves
<1>7. CASE UNCHANGED vars
  BY <1>7 DEF vars, IInv, TypeOK, CompleteIffCached, CachedIntact, MemoryInWindow, InKeep, FullPieceIsHashed, IsCurrent,
              NoDoubleWork, BufferIdentity
<1> QED
  BY <1>1, <1>2, <1>3, <1>4, <1>5, <1>6, <1>7 DEF Next

-----------------------------------------------------------------------------
(* The theorems. *)

(* The invariant holds throughout.                                         *)
LEMMA Invariance == Spec => []IInv
  BY InitEstablishes, NextPreserves, PTL DEF Spec

(* Every variable keeps its type, in every run of the piece manager.       *)
THEOREM TypeCorrect == Spec => []TypeOK
<1>1. IInv => TypeOK
  BY DEF IInv
<1> QED
  BY <1>1, Invariance, PTL

(* Evictions bound memory: nothing outside the keep window is held, even   *)
(* when it was evicted while its hash was running.                         *)
THEOREM MemoryBounded == Spec => []MemoryInWindow
<1>1. IInv => MemoryInWindow
  BY DEF IInv
<1> QED
  BY <1>1, Invariance, PTL

(* No piece can sit full and unverified without a hash under way.          *)
THEOREM NoPieceStuck == Spec => []FullPieceIsHashed
<1>1. IInv => FullPieceIsHashed
  BY DEF IInv
<1> QED
  BY <1>1, Invariance, PTL

(* No verified piece is assembled again; no buffer is hashed twice.        *)
THEOREM WorkDoneOnce == Spec => []NoDoubleWork
<1>1. IInv => NoDoubleWork
  BY DEF IInv
<1> QED
  BY <1>1, Invariance, PTL

(* Verified pieces, pieces under assembly and hashes agree, for every      *)
(* layout of a torrent and every order of blocks, hashes and evictions.    *)
THEOREM PiecesStayConsistent == Spec => []PiecesConsistent
<1> QED
  BY TypeCorrect, MemoryBounded, NoPieceStuck, WorkDoneOnce, PTL DEF PiecesConsistent

-----------------------------------------------------------------------------
(* What the player reads: the invariant makes every read whole and true.   *)

(* Every non-empty set of natural numbers has a least element.             *)
LEMMA LeastNat ==
  ASSUME NEW T \in SUBSET Nat, T # {}
  PROVE  \E x \in T : \A y \in T : x <= y
<1>1. PICK x \in T : \A y \in T : <<y, x>> \notin OpToRel(<, Nat)
  BY NatLessThanWellFounded, WFMin
<1>2. \A y \in T : ~(y < x)
  BY <1>1 DEF OpToRel
<1> QED
  BY <1>2

(* A bounded set of natural numbers has a greatest element.                *)
LEMMA GreatestNat ==
  ASSUME NEW n \in Nat, NEW T \in SUBSET (0..n), T # {}
  PROVE  \E x \in T : \A y \in T : y <= x
<1> DEFINE Mirror == {m \in 0..n : n - m \in T}
<1>1. ASSUME NEW t \in T PROVE n - t \in Mirror
  <2>1. n - t \in 0..n /\ n - (n - t) = t
    OBVIOUS
  <2> QED
    BY <2>1
<1>2. Mirror \in SUBSET Nat /\ Mirror # {}
  <2>1. \E t \in T : n - t \in Mirror
    BY <1>1
  <2>2. \A m \in Mirror : m \in Nat
    OBVIOUS
  <2> HIDE DEF Mirror
  <2> QED
    BY <2>1, <2>2
<1> HIDE DEF Mirror
<1>3. PICK m \in Mirror : \A y \in Mirror : m <= y
  BY <1>2, LeastNat
<1>4. m \in 0..n /\ n - m \in T
  BY DEF Mirror
<1>5. ASSUME NEW y \in T PROVE y <= n - m
  <2>1. m <= n - y
    BY <1>1, <1>3
  <2> QED
    BY <2>1, <1>4
<1> QED
  BY <1>4, <1>5

(* Rounding down a position inside a range stays below the rounded-up size. *)
LEMMA UnitInRange ==
  ASSUME NEW s \in Nat, NEW q \in 0..(s - 1), NEW b \in Nat \ {0}
  PROVE  q \div b \in 0..(CeilDiv(s, b) - 1)
BY DEF CeilDiv

(* A piece ends inside the torrent, after the pieces before it, and no     *)
(* byte before its end is in a later piece (pieceSize).                    *)
LEMMA PieceEndFacts ==
  ASSUME NEW i \in Pieces
  PROVE  /\ PieceEnd(i) \in 1..TotalLength
         /\ \A p \in 0..(PieceEnd(i) - 1) : PieceOf(p) \in 0..i
         /\ \A j \in 0..i : PieceEnd(j) <= PieceEnd(i)
<1>1. /\ NumPieces \in Nat \ {0} /\ i \in 0..(NumPieces - 1)
      /\ PieceLength \in Nat \ {0} /\ TotalLength \in Nat \ {0}
  BY BlockFacts, LayoutAssumption DEF Pieces
<1>2. (NumPieces - 1) * PieceLength < TotalLength /\ TotalLength <= NumPieces * PieceLength
  BY LayoutAssumption DEF NumPieces, CeilDiv
<1>3. ASSUME NEW j \in 0..i, j < NumPieces - 1
      PROVE  PieceEnd(j) = (j + 1) * PieceLength /\ PieceEnd(j) \in 1..TotalLength
  <2>1. PieceEnd(j) = j * PieceLength + PieceLength
    BY <1>3 DEF PieceSize, PieceEnd
  <2>2. j * PieceLength + PieceLength = (j + 1) * PieceLength
    BY <1>1
  <2>3. (j + 1) * PieceLength <= (NumPieces - 1) * PieceLength /\ (j + 1) * PieceLength \in Nat \ {0}
    BY <1>1, <1>3
  <2>4. (NumPieces - 1) * PieceLength \in Nat
    BY <1>1
  <2> QED
    BY <1>1, <1>2, <2>1, <2>2, <2>3, <2>4
<1>4. CASE i = NumPieces - 1
  <2>1. PieceEnd(i) = TotalLength
    BY <1>1, <1>4 DEF PieceSize, PieceEnd
  <2>2. \A p \in 0..(TotalLength - 1) : PieceOf(p) \in 0..i
    BY <1>1, <1>2, <1>4 DEF PieceOf
  <2>3. ASSUME NEW j \in 0..i PROVE PieceEnd(j) <= TotalLength
    <3>1. CASE j = i
      BY <1>1, <2>1, <3>1
    <3>2. CASE j < NumPieces - 1
      BY <1>1, <1>3, <3>2
    <3> QED
      BY <1>1, <1>4, <3>1, <3>2
  <2> QED
    BY <1>1, <2>1, <2>2, <2>3
<1>5. CASE i < NumPieces - 1
  <2>1. PieceEnd(i) = (i + 1) * PieceLength /\ PieceEnd(i) \in 1..TotalLength
    BY <1>1, <1>3, <1>5
  <2>2. \A p \in 0..((i + 1) * PieceLength - 1) : PieceOf(p) \in 0..i
    BY <1>1 DEF PieceOf
  <2>3. ASSUME NEW j \in 0..i PROVE PieceEnd(j) <= PieceEnd(i)
    <3>1. (j + 1) * PieceLength <= (i + 1) * PieceLength
      BY <1>1
    <3>2. PieceEnd(j) = (j + 1) * PieceLength
      BY <1>1, <1>3, <1>5
    <3> QED
      BY <2>1, <3>1, <3>2
  <2> QED
    BY <2>1, <2>2, <2>3
<1> QED
  BY <1>1, <1>4, <1>5

(* Every byte of the torrent lies in its piece and in a block of it.       *)
LEMMA ByteInPiece ==
  ASSUME NEW p \in 0..(TotalLength - 1)
  PROVE  /\ PieceOf(p) \in Pieces
         /\ p < PieceEnd(PieceOf(p))
         /\ (p % PieceLength) \div BlockSize \in Blocks(PieceOf(p))
<1> DEFINE i == PieceOf(p)
           r == p % PieceLength
<1>1. i \in Pieces
  BY LayoutAssumption DEF PieceOf, Pieces, NumPieces, CeilDiv
<1>2. i \in Nat /\ r \in 0..(PieceLength - 1) /\ p = i * PieceLength + r
  BY LayoutAssumption DEF PieceOf
<1>3. PieceSize(i) \in Nat /\ r < PieceSize(i)
  BY <1>1, <1>2, BlockFacts, LayoutAssumption DEF PieceSize, Pieces
<1> HIDE DEF i, r
<1>4. i * PieceLength \in Nat
  BY <1>2, LayoutAssumption
<1>5. r \div BlockSize \in Blocks(i)
  <2>1. r \in 0..(PieceSize(i) - 1)
    BY <1>2, <1>3
  <2> QED
    BY <1>3, <2>1, UnitInRange, LayoutAssumption DEF Blocks, BlockCount
<1> QED
  BY <1>1, <1>2, <1>3, <1>4, <1>5, LayoutAssumption DEF i, r, PieceEnd

(* What bufferedFrom returns for a byte of a verified piece: the bytes up  *)
(* to the end of a run of verified pieces.                                 *)
LEMMA BufferedRun ==
  ASSUME NEW offset \in 0..(TotalLength - 1), complete[PieceOf(offset)]
  PROVE  \E last \in Pieces :
           /\ PieceOf(offset) <= last
           /\ \A i \in PieceOf(offset)..last : complete[i]
           /\ BufferedFrom(offset) = PieceEnd(last) - offset
<1> DEFINE run == VerifiedRun(offset)
           last == LastOf(run)
<1>1. NumPieces - 1 \in Nat /\ run \in SUBSET (0..(NumPieces - 1))
  BY BlockFacts DEF Pieces, VerifiedRun
<1>2. PieceOf(offset) \in run
  <2>1. PieceOf(offset) \in Pieces
    BY ByteInPiece
  <2>2. PieceOf(offset)..PieceOf(offset) = {PieceOf(offset)}
    BY <2>1, BlockFacts DEF Pieces
  <2> QED
    BY <2>1, <2>2 DEF VerifiedRun
<1>3. \E j \in run : \A i \in run : i <= j
  <2> HIDE DEF run
  <2> QED
    BY <1>1, <1>2, GreatestNat
<1>4. last \in run /\ PieceOf(offset) <= last
  BY <1>2, <1>3 DEF LastOf
<1>5. BufferedFrom(offset) = PieceEnd(last) - offset
  <2>1. ~(offset >= TotalLength)
    BY LayoutAssumption
  <2> QED
    BY <2>1 DEF BufferedFrom
<1> QED
  BY <1>4, <1>5 DEF VerifiedRun

(* Every byte that bufferedFrom counts is in a verified piece, so in the   *)
(* cache, and it is one of the torrent's.                                  *)
LEMMA BufferedIsCached ==
  ASSUME IInv, NEW offset \in 0..(TotalLength - 1)
  PROVE  /\ BufferedFrom(offset) \in Nat
         /\ offset + BufferedFrom(offset) <= TotalLength
         /\ \A p \in offset..(offset + BufferedFrom(offset) - 1) :
               /\ p \in 0..(TotalLength - 1)
               /\ PieceOf(p) \in DOMAIN cache
<1>1. CASE ~complete[PieceOf(offset)]
  <2>1. BufferedFrom(offset) = 0
    BY <1>1 DEF BufferedFrom
  <2> QED
    BY <2>1, LayoutAssumption
<1>2. CASE complete[PieceOf(offset)]
  <2>1. PICK last \in Pieces :
          /\ PieceOf(offset) <= last
          /\ \A i \in PieceOf(offset)..last : complete[i]
          /\ BufferedFrom(offset) = PieceEnd(last) - offset
    BY <1>2, BufferedRun
  <2> DEFINE end == PieceEnd(last)
  <2>2. /\ end \in 1..TotalLength /\ BufferedFrom(offset) = end - offset
        /\ \A p \in 0..(end - 1) : PieceOf(p) \in 0..last
        /\ \A j \in 0..last : PieceEnd(j) <= end
    BY <2>1, PieceEndFacts
  <2> HIDE DEF end
  <2>3. PieceOf(offset) \in Pieces /\ PieceOf(offset) \in 0..last
    BY <2>1, ByteInPiece, BlockFacts DEF Pieces
  <2>4. offset < end
    <3>1. offset < PieceEnd(PieceOf(offset)) /\ PieceEnd(PieceOf(offset)) \in Nat
      BY <2>3, ByteInPiece, PieceEndFacts
    <3> QED
      BY <2>2, <2>3, <3>1
  <2>5. ASSUME NEW p \in offset..(end - 1)
        PROVE  p \in 0..(TotalLength - 1) /\ PieceOf(p) \in DOMAIN cache
    <3>1. p \in 0..(TotalLength - 1) /\ p \in 0..(end - 1)
      BY <2>2, LayoutAssumption
    <3>2. PieceOf(p) \in PieceOf(offset)..last
      <4>1. PieceOf(p) \in 0..last /\ PieceOf(offset) \in Nat
        BY <2>2, <3>1, LayoutTypes
      <4>2. PieceOf(offset) <= PieceOf(p)
        BY <3>1, LayoutAssumption DEF PieceOf
      <4> QED
        BY <4>1, <4>2, BlockFacts DEF Pieces
    <3>3. PieceOf(p) \in Pieces
      BY <3>1, ByteInPiece
    <3> QED
      BY <2>1, <3>1, <3>2, <3>3 DEF IInv, CompleteIffCached
  <2> QED
    BY <2>2, <2>4, <2>5, LayoutAssumption
<1> QED
  BY <1>1, <1>2

(* The invariant makes a read return exactly the buffered bytes asked for, *)
(* all of them true.                                                       *)
LEMMA InvReads == IInv => VerifiedReads
<1> SUFFICES ASSUME IInv, NEW offset \in 0..(TotalLength - 1), NEW length \in 1..TotalLength
             PROVE  /\ DOMAIN Read(offset, length) = offset..(offset + LeastOf(length, BufferedFrom(offset)) - 1)
                    /\ Intact(Read(offset, length))
  BY DEF VerifiedReads
<1> DEFINE buffered == BufferedFrom(offset)
           end == LeastOf(LeastOf(offset + buffered, offset + length), TotalLength)
           served == {p \in offset..(end - 1) : \A q \in offset..p : PieceOf(q) \in DOMAIN cache}
<1>1. /\ buffered \in Nat /\ offset + buffered <= TotalLength
      /\ \A p \in offset..(offset + buffered - 1) : p \in 0..(TotalLength - 1) /\ PieceOf(p) \in DOMAIN cache
  BY BufferedIsCached
<1>2. Read(offset, length) = [p \in served |-> cache[PieceOf(p)][(p % PieceLength) \div BlockSize]]
  BY DEF Read
<1> HIDE DEF buffered
<1>3. /\ end = offset + LeastOf(length, buffered) /\ LeastOf(length, buffered) \in Nat
      /\ end <= offset + buffered
  BY <1>1, LayoutAssumption DEF LeastOf
<1> HIDE DEF end
<1>4. served = offset..(end - 1)
  BY <1>1, <1>3
<1> HIDE DEF served
<1>5. ASSUME NEW p \in served PROVE cache[PieceOf(p)][(p % PieceLength) \div BlockSize] = "good"
  <2>1. p \in 0..(TotalLength - 1) /\ PieceOf(p) \in DOMAIN cache
    BY <1>1, <1>3, <1>4
  <2>2. (p % PieceLength) \div BlockSize \in Blocks(PieceOf(p))
    BY <2>1, ByteInPiece
  <2>3. cache[PieceOf(p)] \in [Blocks(PieceOf(p)) -> {"good", "bad"}] /\ Intact(cache[PieceOf(p)])
    BY <2>1 DEF IInv, TypeOK, CachedIntact
  <2> QED
    BY <2>2, <2>3 DEF Intact
<1>6. DOMAIN Read(offset, length) = served /\ \A p \in served : Read(offset, length)[p] = "good"
  BY <1>2, <1>5
<1>7. served = offset..(offset + LeastOf(length, BufferedFrom(offset)) - 1)
  BY <1>3, <1>4 DEF buffered
<1> QED
  BY <1>6, <1>7 DEF Intact

(* The player reads every buffered byte it asks for and no byte that was   *)
(* not verified, whatever arrives, fails or is evicted in between.         *)
THEOREM ReadsAreVerified == Spec => []VerifiedReads
  BY InvReads, Invariance, PTL

-----------------------------------------------------------------------------
(* The refinement: every step of the piece manager is a step of PieceStore *)
(* or leaves what PieceStore sees alone.                                   *)

(* The read head is on a piece of the torrent (setReadHead).               *)
LEMMA HeadInTorrent == \A o \in 0..(TotalLength - 1) : PieceOf(o) \in Pieces
  BY LayoutAssumption DEF PieceOf, Pieces, NumPieces, CeilDiv

(* The open keep window of the store is the one of the piece manager.      *)
LEMMA WholeTorrent == Store!AllTo = NumPieces
<1>1. NumPieces \in Nat \ {0} /\ NumPieces - 1 \in Pieces
  BY BlockFacts DEF Pieces
<1>2. \A n \in Pieces : (\A i \in Pieces : i <= n) <=> n = NumPieces - 1
  BY <1>1 DEF Pieces
<1> DEFINE last == CHOOSE n \in Pieces : \A i \in Pieces : i <= n
<1>3. last = NumPieces - 1
  BY <1>1, <1>2
<1>4. Store!AllTo = IF Pieces = {} THEN 0 ELSE 1 + last
  BY DEF Store!AllTo
<1> HIDE DEF last
<1> QED
  BY <1>1, <1>3, <1>4

(* A new piece manager is an empty store.                                  *)
LEMMA StoreInit == Init => Store!Init
<1> SUFFICES ASSUME Init PROVE Store!Init
  OBVIOUS
<1>1. Head = 0
  BY LayoutAssumption DEF Init, Head, PieceOf
<1> QED
  BY <1>1, WholeTorrent DEF Init, Store!Init

(* Every step is a step of the store or leaves it alone: eviction moves    *)
(* the window, a hash that succeeds gains a piece, blocks do not show.     *)
LEMMA StoreStep == IInv /\ IInv' /\ [Next]_vars => [Store!Next]_(Store!vars)
<1> SUFFICES ASSUME IInv, IInv', [Next]_vars
             PROVE  Store!Next \/ UNCHANGED <<cache, Head, keepFrom, keepTo>>
  BY DEF Store!vars
<1> USE DEF IInv
<1>1. ASSUME NEW offset \in Offsets, SetReadHead(offset)
      PROVE  Store!MoveHead
  <2>1. readHead' \in 0..(TotalLength - 1)
    BY DEF TypeOK
  <2>2. Head' \in Pieces /\ Head' = PieceOf(readHead')
    BY <2>1, HeadInTorrent DEF Head, PieceOf
  <2>3. UNCHANGED cache
    BY <1>1 DEF SetReadHead
  <2>4. IF keepFrom <= Head' /\ Head' < keepTo
          THEN UNCHANGED <<keepFrom, keepTo>>
          ELSE keepFrom' = 0 /\ keepTo' = Store!AllTo
    BY <1>1, <2>2, WholeTorrent DEF SetReadHead, InKeep
  <2> QED
    BY <2>2, <2>3, <2>4 DEF Store!MoveHead
<1>2. ASSUME NEW start \in 0..TotalLength, NEW end \in 0..TotalLength, RetainRange(start, end)
      PROVE  Store!MoveWindow
  <2>1. keepFrom' \in Nat /\ keepTo' \in Nat
    BY LayoutTypes DEF TypeOK
  <2>2. Head' = Head
    BY <1>2 DEF RetainRange, Head, PieceOf
  <2>3. DOMAIN cache \cap {i \in Pieces : keepFrom' <= i /\ i < keepTo'}
          = {i \in DOMAIN cache : keepFrom' <= i /\ i < keepTo'}
    BY DEF TypeOK
  <2>4. cache' = Restrict(cache, {i \in DOMAIN cache : keepFrom' <= i /\ i < keepTo'})
    BY <1>2, <2>3 DEF RetainRange
  <2> QED
    BY <2>1, <2>2, <2>4 DEF Store!MoveWindow, Store!Restrict, Restrict
<1>3. ASSUME UNCHANGED <<cache, readHead, keepFrom, keepTo>>
      PROVE  UNCHANGED <<cache, Head, keepFrom, keepTo>>
  BY <1>3 DEF Head, PieceOf
<1>4. ASSUME NEW h \in hashing, Sha1Done(h), IsCurrent(h), Intact(h.got)
      PROVE  Store!Gain(h.index)
  <2> DEFINE bytes == [i \in Pieces |-> [b \in Blocks(i) |-> "good"]]
  <2>1. /\ h.index \in Pieces /\ h.index \in DOMAIN partial
        /\ h.got \in [Blocks(h.index) -> {"good", "bad"}]
    BY <1>4 DEF IsCurrent, TypeOK
  <2>2. h.got = bytes[h.index]
    BY <1>4, <2>1 DEF Intact
  <2>3. h.index \notin DOMAIN cache /\ InKeep(h.index)
    BY <2>1 DEF NoDoubleWork, CompleteIffCached, MemoryInWindow
  <2>4. /\ cache' = [j \in DOMAIN cache \cup {h.index} |-> IF j = h.index THEN h.got ELSE cache[j]]
        /\ UNCHANGED <<readHead, keepFrom, keepTo>>
    BY <1>4 DEF Sha1Done
  <2>5. UNCHANGED <<Head, keepFrom, keepTo>>
    BY <2>4 DEF Head, PieceOf
  <2> QED
    BY <2>1, <2>2, <2>3, <2>4, <2>5 DEF Store!Gain, InKeep
<1>5. ASSUME NEW h \in hashing, Sha1Done(h)
      PROVE  Store!Next \/ UNCHANGED <<cache, readHead, keepFrom, keepTo>>
  <2>1. CASE IsCurrent(h) /\ Intact(h.got)
    <3>1. Store!Gain(h.index) /\ h.index \in Pieces
      BY <1>4, <1>5, <2>1 DEF TypeOK
    <3> QED
      BY <3>1 DEF Store!Next
  <2>2. CASE ~(IsCurrent(h) /\ Intact(h.got))
    BY <1>5, <2>2 DEF Sha1Done
  <2> QED
    BY <2>1, <2>2
<1>6. ASSUME NEW start \in Offsets, NEW end \in Offsets, RetainRange(start, end) PROVE Store!Next
  BY <1>2, <1>6, LayoutAssumption DEF Store!Next
<1>7. ASSUME NEW offset \in Offsets, EvictBefore(offset) PROVE Store!Next
  BY <1>2, <1>7, LayoutAssumption DEF EvictBefore, Store!Next
<1>8. ASSUME \/ \E has \in SUBSET Pieces, max \in 1..MaxPick : PickRequests(has, max)
             \/ \E x \in Keys : RequestTimesOut(x)
             \/ \E i \in 0..NumPieces, b \in 0..BlockCount(0), data \in BlockData : OnBlock(i, b, data)
             \/ UNCHANGED vars
      PROVE  UNCHANGED <<cache, readHead, keepFrom, keepTo>>
  BY <1>8 DEF PickRequests, RequestTimesOut, OnBlock, vars
<1>9. ASSUME NEW offset \in Offsets, SetReadHead(offset) PROVE Store!Next
  BY <1>1, <1>9 DEF Store!Next
<1> QED
  BY <1>3, <1>5, <1>6, <1>7, <1>8, <1>9 DEF Next

(* The piece manager implements the abstract store: pieces are gained one  *)
(* at a time, whole, with the right bytes, inside the window, and lost     *)
(* only to a move of the window.                                           *)
THEOREM ImplementsStore == Spec => StoreSpec
  BY StoreInit, StoreStep, Invariance, PTL DEF Spec, StoreSpec, Store!Spec
=============================================================================
