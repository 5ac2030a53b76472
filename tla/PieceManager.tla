---------------------------- MODULE PieceManager ----------------------------
(***************************************************************************)
(* The piece store of the torrent engine, src/src/torrent/pieces.ts:       *)
(* blocks arrive from peers in any order, are assembled into a buffer per  *)
(* piece, and a full buffer is hashed asynchronously before the piece      *)
(* counts as verified.  The player moves a read head and a keep window     *)
(* meanwhile, so a buffer can be evicted, and its piece started again,     *)
(* between the start of a hash and its result.                             *)
(*                                                                         *)
(* Data is abstract: a block is "good" (the bytes the torrent names) or    *)
(* "bad", and a piece has the right SHA-1 exactly when all its blocks are  *)
(* good.  Time is abstract: an in-flight request is fresh until it ages    *)
(* past INFLIGHT_TIMEOUT_MS.                                               *)
(***************************************************************************)
EXTENDS Integers, FiniteSets, Functions

CONSTANTS
  TotalLength,     \* bytes of the torrent
  PieceLength,     \* bytes of every piece but the last
  BlockSize,       \* BLOCK_SIZE
  MaxDupCritical,  \* MAX_DUP_CRITICAL
  CriticalPieces,  \* criticalPieces, as the engine passes it
  WindowPieces,    \* windowPieces, as the engine passes it
  Offsets,         \* bound: the byte offsets the player moves and evicts to
  MaxPick,         \* bound: the most blocks one call of pickRequests asks for
  Buffers          \* bound: identities of the piece buffers alive at one time

ASSUME LayoutAssumption ==
  /\ TotalLength \in Nat \ {0}
  /\ PieceLength \in Nat \ {0}
  /\ BlockSize \in Nat \ {0}
  /\ Offsets \subseteq 0..TotalLength

ASSUME PickerAssumption ==
  /\ MaxDupCritical \in Nat \ {0}
  /\ CriticalPieces \in Nat
  /\ WindowPieces \in Nat
  /\ MaxPick \in Nat

VARIABLES
  complete,   \* #complete: the verified flag of every piece
  cache,      \* #cache: the buffers of verified pieces, block by block
  partial,    \* #partial: the buffers being assembled, with their identity
  hashing,    \* onBlock calls waiting for sha1: piece and buffer hashed
  inflight,   \* #inflight: for a requested block, how many requests, how old
  readHead,   \* #readHead
  keepFrom,   \* #keepFrom
  keepTo      \* #keepTo

vars == <<complete, cache, partial, hashing, inflight, readHead, keepFrom, keepTo>>

-----------------------------------------------------------------------------
(* The layout of the torrent. *)

CeilDiv(a, b) == (a + b - 1) \div b

NumPieces == CeilDiv(TotalLength, PieceLength)
Pieces == 0..(NumPieces - 1)

PieceOf(offset) == offset \div PieceLength

PieceSize(i) ==
  IF i < NumPieces - 1 THEN PieceLength ELSE TotalLength - (NumPieces - 1) * PieceLength

PieceEnd(i) == i * PieceLength + PieceSize(i)

BlockCount(i) == CeilDiv(PieceSize(i), BlockSize)
Blocks(i) == 0..(BlockCount(i) - 1)

Keys == UNION {{i} \X Blocks(i) : i \in Pieces}

Head == PieceOf(readHead)
InKeep(i) == keepFrom <= i /\ i < keepTo

Received(i) == IF i \in DOMAIN partial THEN DOMAIN partial[i].got ELSE {}
Unchecked(got) == TRUE
Intact(got) == \A b \in DOMAIN got : got[b] = "good"

-----------------------------------------------------------------------------
Init ==
  /\ complete = [i \in Pieces |-> FALSE]
  /\ cache = <<>>
  /\ partial = <<>>
  /\ hashing = {}
  /\ inflight = <<>>
  /\ readHead = 0
  /\ keepFrom = 0
  /\ keepTo = NumPieces    \* POSITIVE_INFINITY: every piece is kept

(* A head outside the keep window opens the window to the whole torrent.   *)
SetReadHead(offset) ==
  /\ readHead' = IF offset < TotalLength THEN offset ELSE TotalLength - 1
  /\ IF InKeep(PieceOf(readHead'))
       THEN UNCHANGED <<keepFrom, keepTo>>
       ELSE keepFrom' = 0 /\ keepTo' = NumPieces
  /\ UNCHANGED <<complete, cache, partial, hashing, inflight>>

(* An evicted piece is no longer complete; the mutant keeps its flag.      *)
StillComplete(kept) == complete
Forgetting(kept) == [i \in Pieces |-> complete[i] /\ (i \in DOMAIN cache => i \in kept)]

(* Hashes already running are not cancelled: their buffers are orphaned.   *)
RetainRange(start, end) ==
  /\ keepFrom' = PieceOf(start)
  /\ keepTo' = CeilDiv(end, PieceLength)
  /\ LET kept == {i \in Pieces : keepFrom' <= i /\ i < keepTo'}
     IN  /\ cache' = Restrict(cache, DOMAIN cache \cap kept)
         /\ complete' = Forgetting(kept)
         /\ partial' = Restrict(partial, DOMAIN partial \cap kept)
         /\ inflight' = Restrict(inflight, {x \in DOMAIN inflight : x[1] \in kept})
  /\ UNCHANGED <<hashing, readHead>>

EvictBefore(offset) == RetainRange(offset, TotalLength)

-----------------------------------------------------------------------------
(* Picking the next blocks to request from one peer. *)

NeverExpiring(x) == IF x \in DOMAIN inflight THEN inflight[x].count ELSE 0
Outstanding(x) ==
  IF x \in DOMAIN inflight /\ inflight[x].fresh THEN inflight[x].count ELSE 0

Allowed(i) ==
  IF Head <= i /\ i < Head + CriticalPieces THEN MaxDupCritical ELSE 1

Eligible(has) ==
  {x \in Keys : /\ Head <= x[1] /\ x[1] < Head + WindowPieces
                /\ x[1] \in has
                /\ ~complete[x[1]]
                /\ x[2] \notin Received(x[1])
                /\ Outstanding(x) < Allowed(x[1])}

(* Lexicographic: the loops run over pieces from the head, then blocks.    *)
Before(x, y) == x[1] < y[1] \/ (x[1] = y[1] /\ x[2] < y[2])

EarlierIn(S, x) == {y \in S : Before(y, x)}
FirstOf(S, n) == {x \in S : Cardinality(EarlierIn(S, x)) < n}

Picked(has, max) == FirstOf(Eligible(has), max)

PickRequests(has, max) ==
  /\ LET picked == Picked(has, max)
     IN  inflight' = [x \in DOMAIN inflight \cup picked |->
                        IF x \in picked
                          THEN [count |-> Outstanding(x) + 1, fresh |-> TRUE]
                          ELSE inflight[x]]
  /\ UNCHANGED <<complete, cache, partial, hashing, readHead, keepFrom, keepTo>>

(* A request grows older than INFLIGHT_TIMEOUT_MS.                         *)
RequestTimesOut(x) ==
  /\ x \in DOMAIN inflight
  /\ inflight[x].fresh
  /\ inflight' = [inflight EXCEPT ![x].fresh = FALSE]
  /\ UNCHANGED <<complete, cache, partial, hashing, readHead, keepFrom, keepTo>>

-----------------------------------------------------------------------------
(* A block arrives.  "short" stands for a block whose length is not the    *)
(* one its position calls for.                                             *)

BlockData == {"good", "bad", "short"}

Answered(x) ==
  IF x \notin DOMAIN inflight THEN inflight
  ELSE IF inflight[x].count > 1 THEN [inflight EXCEPT ![x] = [count |-> @.count - 1, fresh |-> @.fresh]]
  ELSE Restrict(inflight, DOMAIN inflight \ {x})

AcceptsVerified(i, b, data) == i \in Pieces /\ InKeep(i) /\ b \in Blocks(i) /\ data # "short"
Accepts(i, b, data) ==
  /\ i \in Pieces
  /\ InKeep(i)
  /\ ~complete[i]
  /\ b \in Blocks(i)
  /\ data # "short"

LiveBuffers == {partial[i].id : i \in DOMAIN partial} \cup {h.id : h \in hashing}
NewBuffer == CHOOSE id \in Buffers : id \notin LiveBuffers

Assembly(i) ==
  IF i \in DOMAIN partial THEN partial[i] ELSE [id |-> NewBuffer, got |-> <<>>]

WithBlock(asm, b, data) ==
  [id |-> asm.id, got |-> [x \in DOMAIN asm.got \cup {b} |-> IF x = b THEN data ELSE asm.got[x]]]

(* onBlock up to its await: the in-flight entry is settled first, whatever *)
(* becomes of the block; the block that fills the buffer starts the hash.  *)
OnBlock(i, b, data) ==
  /\ inflight' = Answered(<<i, b>>)
  /\ IF ~Accepts(i, b, data) \/ b \in Received(i)
       THEN UNCHANGED <<partial, hashing>>
       ELSE LET asm == WithBlock(Assembly(i), b, data)
            IN  /\ i \in DOMAIN partial \/ \E id \in Buffers : id \notin LiveBuffers
                /\ partial' = [j \in DOMAIN partial \cup {i} |-> IF j = i THEN asm ELSE partial[j]]
                /\ hashing' = IF DOMAIN asm.got = Blocks(i)
                                THEN hashing \cup {[index |-> i, id |-> asm.id, got |-> asm.got]}
                                ELSE hashing
  /\ UNCHANGED <<complete, cache, readHead, keepFrom, keepTo>>

(* Is the buffer a hash was computed over still the one of its piece?      *)
AnyBuffer(h) == TRUE
IsCurrent(h) == h.index \in DOMAIN partial /\ partial[h.index].id = h.id

ReleasedIfIntact(h) == IF Intact(h.got) THEN Restrict(partial, DOMAIN partial \ {h.index}) ELSE partial
Released(h) == Restrict(partial, DOMAIN partial \ {h.index})

(* onBlock after its await. *)
Sha1Done(h) ==
  /\ h \in hashing
  /\ hashing' = hashing \ {h}
  /\ IF ~IsCurrent(h)
       THEN UNCHANGED <<complete, cache, partial>>
       ELSE /\ partial' = Released(h)
            /\ IF Intact(h.got)
                 THEN /\ cache' = [j \in DOMAIN cache \cup {h.index} |->
                                     IF j = h.index THEN h.got ELSE cache[j]]
                      /\ complete' = [complete EXCEPT ![h.index] = TRUE]
                 ELSE UNCHANGED <<complete, cache>>
  /\ UNCHANGED <<inflight, readHead, keepFrom, keepTo>>

-----------------------------------------------------------------------------
(* What the player reads. *)

(* The run of verified pieces that starts in the piece of `offset`, as the *)
(* loop of bufferedFrom walks it.                                          *)
VerifiedRun(offset) == {j \in Pieces : \A i \in PieceOf(offset)..j : complete[i]}
LastOf(run) == CHOOSE j \in run : \A i \in run : i <= j

BufferedFrom(offset) ==
  IF offset >= TotalLength \/ ~complete[PieceOf(offset)] THEN 0
  ELSE PieceEnd(LastOf(VerifiedRun(offset))) - offset

LeastOf(a, b) == IF a <= b THEN a ELSE b

(* The bytes read() returns, as the function from their offsets to the     *)
(* quality of the block they come from; the copy stops at a piece that has *)
(* no cached buffer.                                                       *)
Read(offset, length) ==
  LET end == LeastOf(LeastOf(offset + BufferedFrom(offset), offset + length), TotalLength)
      served == {p \in offset..(end - 1) : \A q \in offset..p : PieceOf(q) \in DOMAIN cache}
  IN  [p \in served |-> cache[PieceOf(p)][(p % PieceLength) \div BlockSize]]

-----------------------------------------------------------------------------
Next ==
  \/ \E offset \in Offsets : SetReadHead(offset)
  \/ \E start, end \in Offsets : start <= end /\ RetainRange(start, end)
  \/ \E offset \in Offsets : EvictBefore(offset)
  \/ \E has \in SUBSET Pieces, max \in 1..MaxPick : PickRequests(has, max)
  \/ \E x \in Keys : RequestTimesOut(x)
  \/ \E i \in 0..NumPieces, b \in 0..BlockCount(0), data \in BlockData : OnBlock(i, b, data)
  \/ \E h \in hashing : Sha1Done(h)

Spec == Init /\ [][Next]_vars

(* Scheduling: the tick of the engine keeps asking for blocks while some   *)
(* peer has every piece, requests age, a request asked again and again is  *)
(* answered in time at last, and every hash ends.  A request that aged may *)
(* never be answered: its peer is gone.                                    *)
Delivery(x) ==
  x \in DOMAIN inflight /\ inflight[x].fresh /\ OnBlock(x[1], x[2], "good")

Fairness ==
  /\ WF_vars(\E max \in 1..MaxPick : PickRequests(Pieces, max))
  /\ \A x \in Keys : WF_vars(RequestTimesOut(x))
  /\ \A x \in Keys : SF_vars(Delivery(x))
  /\ \A i \in Pieces : WF_vars(\E h \in hashing : h.index = i /\ Sha1Done(h))

FairSpec == Spec /\ Fairness

-----------------------------------------------------------------------------
(* Properties. *)

(* The type of every variable. *)
TypeOK ==
  /\ complete \in [Pieces -> BOOLEAN]
  /\ DOMAIN cache \subseteq Pieces
  /\ \A i \in DOMAIN cache : cache[i] \in [Blocks(i) -> {"good", "bad"}]
  /\ DOMAIN partial \subseteq Pieces
  /\ \A i \in DOMAIN partial :
       /\ partial[i].id \in Buffers
       /\ DOMAIN partial[i].got \subseteq Blocks(i)
       /\ \A b \in DOMAIN partial[i].got : partial[i].got[b] \in {"good", "bad"}
  /\ \A h \in hashing :
       /\ h.index \in Pieces
       /\ h.id \in Buffers
       /\ h.got \in [Blocks(h.index) -> {"good", "bad"}]
  /\ DOMAIN inflight \subseteq Keys
  /\ \A x \in DOMAIN inflight : inflight[x] \in [count : 1..MaxDupCritical, fresh : BOOLEAN]
  /\ readHead \in 0..(TotalLength - 1)
  /\ keepFrom \in 0..NumPieces
  /\ keepTo \in 0..NumPieces

(* Whatever the order of blocks, evictions and hash results, a read        *)
(* returns every buffered byte asked for and only bytes of verified blocks *)
(* (read, bufferedFrom: the verified flags and the cache never disagree).  *)
VerifiedReads ==
  \A offset \in 0..(TotalLength - 1), length \in 1..TotalLength :
    LET bytes == Read(offset, length)
    IN  /\ DOMAIN bytes = offset..(offset + LeastOf(length, BufferedFrom(offset)) - 1)
        /\ Intact(bytes)

(* Memory is bounded by the keep window: no verified piece and no piece    *)
(* being assembled lies outside it, even when the piece was evicted while  *)
(* its hash was running (retainRange, and the identity check of onBlock).  *)
MemoryInWindow == \A i \in DOMAIN cache \cup DOMAIN partial : InKeep(i)

(* A piece whose blocks have all arrived is being hashed: it can never sit *)
(* full and unverified, refusing every further block as a duplicate.       *)
FullPieceIsHashed ==
  \A i \in DOMAIN partial :
    DOMAIN partial[i].got = Blocks(i) => \E h \in hashing : h.index = i /\ IsCurrent(h)

(* No work is done twice: a verified piece is not assembled again, and one *)
(* buffer is hashed at most once.                                          *)
NoDoubleWork ==
  /\ \A i \in DOMAIN partial : ~complete[i]
  /\ \A g, h \in hashing : g.id = h.id => g = h

(* The store keeps the promises of its abstract specification.             *)
Store == INSTANCE PieceStore WITH
           Pieces <- Pieces,
           Bytes <- [i \in Pieces |-> [b \in Blocks(i) |-> "good"]],
           store <- cache,
           head <- Head
StoreSpec == Store!Spec

(* Verified, assembled and hashed pieces agree through blocks that come    *)
(* twice or late, failed hashes and evictions (onBlock, retainRange):      *)
(* memory stays in the window, no piece is stuck and no work is doubled.   *)
PiecesConsistent == TypeOK /\ MemoryInWindow /\ FullPieceIsHashed /\ NoDoubleWork

NewlyBad ==
  \E i \in DOMAIN partial' : \E b \in DOMAIN partial'[i].got :
    /\ partial'[i].got[b] = "bad"
    /\ ~(b \in Received(i) /\ partial[i].got[b] = "bad")

Undisturbed == UNCHANGED <<readHead, keepFrom, keepTo>> /\ ~NewlyBad

(* Once the player stays put and peers stop sending bad data, the piece    *)
(* under the read head gets verified, unless the keep window leaves it out:*)
(* no block is lost to a stale in-flight entry, a failed or an orphaned    *)
(* hash.                                                                   *)
HeadServed == (<>[][Undisturbed]_vars) => <>[](InKeep(Head) => complete[Head])
=============================================================================
