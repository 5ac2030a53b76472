------------------------ MODULE TorrentDownloadProofs ------------------------
(***************************************************************************)
(* Proofs about TorrentDownload for every torrent, every number of peers   *)
(* and every pipeline: the engine's books on requests agree with those of  *)
(* its piece manager, and the piece manager it drives is the one of        *)
(* PieceManager.                                                           *)
(***************************************************************************)
EXTENDS TorrentDownload, FiniteSetTheorems, TLAPS

PP == INSTANCE PieceManagerProofs

-----------------------------------------------------------------------------
(* The inductive invariant: the books agree, and the facts that rests on.  *)

(* A peer that driveDownload has still to serve can be asked.              *)
TurnHasRoom == \A p \in turn : CanAsk(p)

(* A hash over the buffer of a piece runs over all its blocks, so none of  *)
(* them can still be on request when the piece becomes complete (onBlock). *)
CurrentIsFull ==
  \A h \in hashing : P!IsCurrent(h) => DOMAIN partial[h.index].got = P!Blocks(h.index)

(* What a peer owes can be counted. *)
OwedFinite == \A p \in Peers : IsFiniteSet(asked[p])

(* The inductive invariant. *)
IInv ==
  /\ BooksAgree
  /\ OwedFinite
  /\ TurnHasRoom
  /\ complete \in [P!Pieces -> BOOLEAN]
  /\ CurrentIsFull

-----------------------------------------------------------------------------
(* The layout of the torrent and the blocks picked. *)

(* What PieceManager assumes of its constants holds of the engine's.       *)
LEMMA PieceAssumptions == PP!LayoutAssumption /\ PP!PickerAssumption
BY TorrentAssumption, DownloadAssumption DEF PP!LayoutAssumption, PP!PickerAssumption

(* The piece manager counts as the engine does.                            *)
LEMMA SameCount == \A S : P!Cardinality(S) = Cardinality(S)
BY DEF P!Cardinality, Cardinality

(* A longer piece has at least as many blocks.                             *)
LEMMA CeilDivGrows ==
  ASSUME NEW a \in Nat, NEW b \in Nat \ {0}, NEW c \in Nat, a <= c
  PROVE  P!CeilDiv(a, b) \in Nat /\ P!CeilDiv(a, b) <= P!CeilDiv(c, b)
BY DEF P!CeilDiv

(* The torrent has a piece, and no piece is longer than the first.         *)
LEMMA LayoutFacts ==
  /\ P!NumPieces \in Nat \ {0}
  /\ \A i \in P!Pieces : P!PieceSize(i) \in 1..P!PieceSize(0)
<1>1. P!NumPieces \in Nat \ {0}
  BY TorrentAssumption DEF P!NumPieces, P!CeilDiv
<1>2. (P!NumPieces - 1) * PieceLength < TotalLength /\ TotalLength <= P!NumPieces * PieceLength
  BY TorrentAssumption DEF P!NumPieces, P!CeilDiv
<1>3. /\ (P!NumPieces - 1) * PieceLength \in Nat
      /\ P!NumPieces * PieceLength = (P!NumPieces - 1) * PieceLength + PieceLength
  BY <1>1, TorrentAssumption
<1>4. TotalLength - (P!NumPieces - 1) * PieceLength \in 1..PieceLength
  BY <1>2, <1>3, TorrentAssumption
<1>5. \A i \in P!Pieces : P!PieceSize(i) \in 1..P!PieceSize(0)
  BY <1>1, <1>4, TorrentAssumption DEF P!Pieces, P!PieceSize
<1> QED
  BY <1>1, <1>5

(* No piece has more blocks than the first.                                *)
LEMMA BlockFacts == \A i \in P!Pieces : P!BlockCount(i) \in Nat /\ P!BlockCount(i) <= P!BlockCount(0)
<1> SUFFICES ASSUME NEW i \in P!Pieces
             PROVE  P!BlockCount(i) \in Nat /\ P!BlockCount(i) <= P!BlockCount(0)
  OBVIOUS
<1>1. P!PieceSize(i) \in Nat /\ P!PieceSize(0) \in Nat /\ P!PieceSize(i) <= P!PieceSize(0)
  BY LayoutFacts DEF P!Pieces
<1> QED
  BY <1>1, CeilDivGrows, TorrentAssumption DEF P!BlockCount

(* The key of a request names a piece and a block of it.                   *)
LEMMA KeyTypes ==
  \A x \in P!Keys :
    /\ x[1] \in P!Pieces /\ x[2] \in P!Blocks(x[1]) /\ x = <<x[1], x[2]>>
    /\ x[1] \in 0..(P!NumPieces - 1) /\ x[2] \in 0..(P!BlockCount(0) - 1)
<1>1. \A x \in P!Keys : x[1] \in P!Pieces /\ x[2] \in P!Blocks(x[1]) /\ x = <<x[1], x[2]>>
  BY DEF P!Keys
<1>2. \A i \in P!Pieces : P!Blocks(i) \subseteq 0..(P!BlockCount(0) - 1)
  BY BlockFacts, LayoutFacts DEF P!Blocks, P!Pieces
<1> QED
  BY <1>1, <1>2 DEF P!Pieces

(* The torrent has finitely many blocks.                                   *)
LEMMA KeysFinite == IsFiniteSet(P!Keys)
<1> DEFINE grid == (0..(P!NumPieces - 1)) \X (0..(P!BlockCount(0) - 1))
<1>1. P!NumPieces - 1 \in Int /\ P!BlockCount(0) - 1 \in Int
  BY LayoutFacts, BlockFacts DEF P!Pieces
<1>2. IsFiniteSet(grid)
  <2>1. IsFiniteSet(0..(P!NumPieces - 1)) /\ IsFiniteSet(0..(P!BlockCount(0) - 1))
    BY <1>1, FS_Interval
  <2> QED
    BY <2>1, FS_Product
<1>3. P!Keys \subseteq grid
  BY KeyTypes
<1> QED
  BY <1>2, <1>3, FS_Subset

(* A non-empty set of blocks has one that all others come before.          *)
LEMMA LastBlock ==
  ASSUME NEW S \in SUBSET P!Keys, S # {}
  PROVE  \E x \in S : \A y \in S : y = x \/ P!Before(y, x)
<1> DEFINE firsts == {i \in 0..(P!NumPieces - 1) : \E y \in S : y[1] = i}
<1>1. \A y \in S : /\ y = <<y[1], y[2]>>
                   /\ y[1] \in 0..(P!NumPieces - 1) /\ y[2] \in 0..(P!BlockCount(0) - 1)
  BY KeyTypes
<1>2. P!NumPieces - 1 \in Nat /\ firsts \in SUBSET (0..(P!NumPieces - 1)) /\ firsts # {}
  BY <1>1, LayoutFacts
<1>3. \A y \in S : y[1] \in firsts
  BY <1>1
<1>4. \A i \in firsts : \E y \in S : y[1] = i
  OBVIOUS
<1> HIDE DEF firsts
<1>5. PICK i \in firsts : \A j \in firsts : j <= i
  BY <1>2, PP!GreatestNat, PieceAssumptions
<1> DEFINE seconds == {b \in 0..(P!BlockCount(0) - 1) : \E y \in S : y[1] = i /\ y[2] = b}
<1>6. \A y \in S : y[1] = i => y[2] \in seconds
  BY <1>1
<1>7. \A b \in seconds : b \in 0..(P!BlockCount(0) - 1) /\ \E y \in S : y[1] = i /\ y[2] = b
  OBVIOUS
<1> HIDE DEF seconds
<1>8. P!BlockCount(0) - 1 \in Nat /\ seconds \in SUBSET (0..(P!BlockCount(0) - 1)) /\ seconds # {}
  <2>1. PICK y \in S : y[1] = i
    BY <1>4
  <2>2. y[2] \in seconds /\ y[2] \in 0..(P!BlockCount(0) - 1)
    BY <1>1, <1>6, <2>1
  <2> QED
    BY <1>7, <2>2, BlockFacts, LayoutFacts DEF P!Pieces
<1>9. PICK b \in seconds : \A c \in seconds : c <= b
  BY <1>8, PP!GreatestNat, PieceAssumptions
<1>10. PICK x \in S : x[1] = i /\ x[2] = b
  BY <1>7
<1>11. ASSUME NEW y \in S PROVE y = x \/ P!Before(y, x)
  <2>1. y[1] <= i /\ (y[1] = i => y[2] <= b)
    BY <1>3, <1>5, <1>6, <1>9
  <2> QED
    BY <1>1, <1>10, <2>1 DEF P!Before
<1> QED
  BY <1>11

(* The first n blocks of a set are at most n.                              *)
LEMMA FirstBound ==
  ASSUME NEW S \in SUBSET P!Keys, NEW n \in Nat
  PROVE  P!FirstOf(S, n) \subseteq S /\ Cardinality(P!FirstOf(S, n)) \in 0..n
<1> DEFINE first == P!FirstOf(S, n)
<1>1. first \subseteq S /\ \A x \in first : Cardinality(P!EarlierIn(S, x)) < n
  <2>1. first \subseteq S /\ \A x \in first : P!Cardinality(P!EarlierIn(S, x)) < n
    BY DEF P!FirstOf
  <2> QED
    BY <2>1, SameCount
<1> HIDE DEF first
<1>2. CASE first = {}
  BY <1>1, <1>2, FS_EmptySet DEF first
<1>3. CASE first # {}
  <2>1. PICK x \in first : \A y \in first : y = x \/ P!Before(y, x)
    BY <1>1, <1>3, LastBlock
  <2> DEFINE below == P!EarlierIn(S, x)
  <2>2. below \subseteq P!Keys /\ first \subseteq below \cup {x}
    BY <1>1, <2>1 DEF P!EarlierIn
  <2>3. Cardinality(below) < n
    BY <1>1
  <2> HIDE DEF below
  <2>4. IsFiniteSet(below) /\ Cardinality(below) \in Nat
    BY <2>2, KeysFinite, FS_Subset, FS_CardinalityType
  <2>5. IsFiniteSet(below \cup {x}) /\ Cardinality(below \cup {x}) <= Cardinality(below) + 1
    <3>1. /\ IsFiniteSet(below \cup {x})
          /\ Cardinality(below \cup {x}) = IF x \in below THEN Cardinality(below) ELSE Cardinality(below) + 1
      BY <2>4, FS_AddElement
    <3> QED
      BY <2>4, <3>1
  <2>6. IsFiniteSet(first) /\ Cardinality(first) <= Cardinality(below \cup {x})
    BY <2>2, <2>5, FS_Subset
  <2>7. Cardinality(first) \in Nat /\ Cardinality(below \cup {x}) \in Nat
    BY <2>5, <2>6, FS_CardinalityType
  <2> QED
    BY <1>1, <2>3, <2>4, <2>5, <2>6, <2>7 DEF first
<1> QED
  BY <1>2, <1>3

(* pickRequests returns at most as many blocks as it is asked for, blocks  *)
(* that are not there yet.                                                 *)
LEMMA PickedFacts ==
  ASSUME NEW max \in Nat
  PROVE  /\ P!Picked(P!Pieces, max) \subseteq P!Keys
         /\ \A x \in P!Picked(P!Pieces, max) : ~complete[x[1]] /\ x[2] \notin P!Received(x[1])
         /\ Cardinality(P!Picked(P!Pieces, max)) \in 0..max
<1>1. /\ P!Eligible(P!Pieces) \in SUBSET P!Keys
      /\ \A x \in P!Eligible(P!Pieces) : ~complete[x[1]] /\ x[2] \notin P!Received(x[1])
  BY DEF P!Eligible
<1>2. /\ P!Picked(P!Pieces, max) \subseteq P!Eligible(P!Pieces)
      /\ Cardinality(P!Picked(P!Pieces, max)) \in 0..max
  BY <1>1, FirstBound DEF P!Picked
<1> QED
  BY <1>1, <1>2

-----------------------------------------------------------------------------
(* Counting what a peer owes. *)

(* Asking for some blocks adds no more requests than blocks.               *)
LEMMA AskedMore ==
  ASSUME NEW p \in Peers, NEW S \in SUBSET P!Keys, IsFiniteSet(asked[p])
  PROVE  /\ IsFiniteSet(asked[p] \cup {Again(p, x) : x \in S})
         /\ Cardinality(asked[p] \cup {Again(p, x) : x \in S}) <= Cardinality(asked[p]) + Cardinality(S)
<1> DEFINE T == {Again(p, x) : x \in S}
           f == [x \in S |-> Again(p, x)]
<1>1. f \in Surjection(S, T)
  BY DEF Surjection
<1>2. IsFiniteSet(S)
  BY KeysFinite, FS_Subset
<1> HIDE DEF f, T
<1>3. IsFiniteSet(T) /\ Cardinality(T) <= Cardinality(S)
  BY <1>1, <1>2, FS_Surjection
<1>4. /\ IsFiniteSet(asked[p] \cup T) /\ IsFiniteSet(asked[p] \cap T)
      /\ Cardinality(asked[p] \cup T) = Cardinality(asked[p]) + Cardinality(T) - Cardinality(asked[p] \cap T)
  <2>1. IsFiniteSet(asked[p] \cap T)
    BY <1>3, FS_Subset
  <2>2. /\ IsFiniteSet(asked[p] \cup T)
        /\ Cardinality(asked[p] \cup T) = Cardinality(asked[p]) + Cardinality(T) - Cardinality(asked[p] \cap T)
    BY <1>3, FS_Union
  <2> QED
    BY <2>1, <2>2
<1>5. /\ Cardinality(asked[p]) \in Nat /\ Cardinality(T) \in Nat /\ Cardinality(S) \in Nat
      /\ Cardinality(asked[p] \cap T) \in Nat
  BY <1>2, <1>3, <1>4, FS_CardinalityType
<1>6. Cardinality(asked[p] \cup T) <= Cardinality(asked[p]) + Cardinality(S)
  BY <1>3, <1>4, <1>5
<1> QED
  BY <1>4, <1>6 DEF T

(* Cancelling blocks that a peer owes relieves it of at least one request  *)
(* for each of them.                                                       *)
LEMMA AskedLess ==
  ASSUME NEW p \in Peers, NEW G \in SUBSET P!Keys, IsFiniteSet(asked[p])
  PROVE  /\ IsFiniteSet(asked[p] \ ForBlocks(p, G))
         /\ (\A x \in G : Owes(p, x)) => Cardinality(asked[p] \ ForBlocks(p, G)) + Cardinality(G) <= Cardinality(asked[p])
<1> DEFINE R == ForBlocks(p, G)
<1>1. R \in SUBSET asked[p] /\ \A r \in R : r[1] \in G
  BY DEF ForBlocks
<1>2. \A x \in G : Owes(p, x) => \E r \in R : r[1] = x
  BY DEF ForBlocks, Owes
<1> HIDE DEF R
<1>3. IsFiniteSet(R) /\ IsFiniteSet(asked[p] \ R) /\ IsFiniteSet(G)
  BY <1>1, KeysFinite, FS_Subset
<1>4. Cardinality(asked[p] \ R) = Cardinality(asked[p]) - Cardinality(R)
  <2>1. asked[p] \cap R = R
    BY <1>1
  <2> QED
    BY <2>1, FS_Difference
<1>5. Cardinality(asked[p]) \in Nat /\ Cardinality(R) \in Nat /\ Cardinality(asked[p] \ R) \in Nat /\ Cardinality(G) \in Nat
  BY <1>3, FS_CardinalityType
<1>6. ASSUME \A x \in G : Owes(p, x) PROVE Cardinality(G) <= Cardinality(R)
  <2> DEFINE f == [r \in R |-> r[1]]
  <2>1. f \in Surjection(R, G)
    BY <1>1, <1>2, <1>6 DEF Surjection
  <2> HIDE DEF f
  <2> QED
    BY <1>3, <2>1, FS_Surjection
<1>7. (\A x \in G : Owes(p, x)) => Cardinality(asked[p] \ R) + Cardinality(G) <= Cardinality(asked[p])
  BY <1>4, <1>5, <1>6
<1> QED
  BY <1>3, <1>7 DEF R

(* A peer that counts nothing owes nothing, unless it is astray.           *)
LEMMA NothingOwed ==
  ASSUME IInv, NEW p \in Peers, ~astray[p], outstanding[p] = 0
  PROVE  asked[p] = {}
<1>1. Cardinality(asked[p]) <= 0 /\ IsFiniteSet(asked[p])
  BY DEF IInv, BooksAgree, OwedIsCounted, OwedFinite, Load
<1>2. Cardinality(asked[p]) \in Nat
  BY <1>1, FS_CardinalityType
<1> QED
  BY <1>1, <1>2, FS_EmptySet

-----------------------------------------------------------------------------
(* The invariant holds initially and is preserved by every action. *)

(* A new engine has no peer and has asked for nothing.                     *)
LEMMA InitEstablishes == DownloadInit => IInv
<1> SUFFICES ASSUME DownloadInit PROVE IInv
  OBVIOUS
<1>1. DownloadTypeOK
  BY DownloadAssumption DEF DownloadInit, DownloadTypeOK
<1>2. complete \in [P!Pieces -> BOOLEAN]
  BY DEF DownloadInit, P!Init
<1>3. OwedFinite /\ OwedIsCounted
  BY FS_EmptySet DEF DownloadInit, OwedFinite, OwedIsCounted, Load
<1> QED
  BY <1>1, <1>2, <1>3 DEF DownloadInit, P!Init, IInv, BooksAgree, HoldersConnected, HeldIsWanted, TurnHasRoom, CurrentIsFull

(* A tick serves the peers that can be asked.                              *)
LEMMA TickPreserves == ASSUME IInv, TickStarts PROVE IInv'
<1> USE DEF IInv, BooksAgree
<1>1. /\ turn' = {p \in Peers : CanAsk(p)}
      /\ UNCHANGED <<complete, cache, partial, hashing, inflight>>
      /\ UNCHANGED <<blockPeers, connected, dead, choking, outstanding, asked, astray>>
  BY DEF TickStarts, pieceVars, peerVars
<1>2. DownloadTypeOK' /\ OwedFinite' /\ OwedIsCounted'
  BY <1>1 DEF DownloadTypeOK, OwedFinite, OwedIsCounted, Load
<1>3. HoldersConnected' /\ HeldIsWanted' /\ CurrentIsFull' /\ complete' \in [P!Pieces -> BOOLEAN]
  BY <1>1 DEF HoldersConnected, HeldIsWanted, P!Received, CurrentIsFull, P!IsCurrent
<1>4. TurnHasRoom'
  BY <1>1 DEF TurnHasRoom, CanAsk, Slots
<1> QED
  BY <1>2, <1>3, <1>4

(* Asking a peer adds it to the holders of blocks that are not there yet,  *)
(* and fills its pipeline at most.                                         *)
LEMMA AskPreserves == ASSUME IInv, NEW p \in Peers, Ask(p) PROVE IInv'
<1> USE DEF IInv, BooksAgree
<1> DEFINE picked == P!Picked(P!Pieces, Slots(p))
<1>1. /\ p \in turn /\ turn' = turn \ {p}
      /\ blockPeers' = [x \in DOMAIN blockPeers \cup picked |->
                          (IF x \in DOMAIN blockPeers THEN blockPeers[x] ELSE {})
                            \cup (IF x \in picked THEN {p} ELSE {})]
      /\ outstanding' = [outstanding EXCEPT ![p] = @ + Cardinality(picked)]
      /\ asked' = [asked EXCEPT ![p] = IF p \in dead THEN @ ELSE @ \cup {Again(p, x) : x \in picked}]
      /\ UNCHANGED <<connected, dead, choking, astray, complete, partial, hashing>>
      /\ DOMAIN inflight' = DOMAIN inflight \cup picked
  BY DEF Ask, P!PickRequests
<1>2. p \in connected /\ Slots(p) \in Nat /\ Slots(p) = PipelineDepth - outstanding[p]
  BY <1>1, DownloadAssumption DEF TurnHasRoom, CanAsk, DownloadTypeOK, Slots
<1>3. /\ picked \subseteq P!Keys
      /\ \A x \in picked : ~complete[x[1]] /\ x[2] \notin P!Received(x[1])
      /\ Cardinality(picked) \in 0..Slots(p)
  BY <1>2, PickedFacts
<1> HIDE DEF picked
<1>4. outstanding' \in [Peers -> 0..PipelineDepth]
  <2>1. outstanding[p] \in 0..PipelineDepth /\ outstanding[p] + Cardinality(picked) \in 0..PipelineDepth
    BY <1>2, <1>3, DownloadAssumption DEF DownloadTypeOK
  <2> QED
    BY <1>1, <2>1 DEF DownloadTypeOK
<1> DEFINE more == asked[p] \cup {Again(p, x) : x \in picked}
<1>5. asked' \in [Peers -> SUBSET Requests]
  <2>1. \A x \in picked : Again(p, x) \in Requests
    <3> SUFFICES ASSUME NEW x \in picked PROVE Cardinality(ForBlocks(p, {x})) \in Nat
      BY <1>3 DEF Again, Requests
    <3>1. IsFiniteSet(ForBlocks(p, {x}))
      BY FS_Subset DEF OwedFinite, ForBlocks
    <3> QED
      BY <3>1, FS_CardinalityType
  <2> QED
    BY <1>1, <2>1 DEF DownloadTypeOK
<1>11. OwedFinite' /\ OwedIsCounted'
  <2>1. /\ IsFiniteSet(more)
        /\ Cardinality(more) <= Cardinality(asked[p]) + Cardinality(picked)
        /\ Cardinality(asked[p]) \in Nat /\ Cardinality(more) \in Nat
    <3>1. IsFiniteSet(more) /\ Cardinality(more) <= Cardinality(asked[p]) + Cardinality(picked)
      BY <1>3, AskedMore DEF OwedFinite
    <3> HIDE DEF more
    <3> QED
      BY <3>1, FS_CardinalityType DEF OwedFinite
  <2> HIDE DEF more
  <2>2. outstanding'[p] = outstanding[p] + Cardinality(picked) /\ outstanding[p] \in Nat /\ Cardinality(picked) \in Nat
    BY <1>1, <1>3, <1>2, DownloadAssumption DEF DownloadTypeOK
  <2>3. asked'[p] = asked[p] \/ asked'[p] = more
    BY <1>1 DEF DownloadTypeOK, more
  <2>4. IsFiniteSet(asked'[p]) /\ (~astray[p] => Cardinality(asked'[p]) <= outstanding'[p])
    BY <2>1, <2>2, <2>3 DEF OwedFinite, OwedIsCounted, Load
  <2>5. \A q \in Peers : q # p => asked'[q] = asked[q] /\ outstanding'[q] = outstanding[q]
    BY <1>1 DEF DownloadTypeOK
  <2>6. OwedFinite'
    BY <2>4, <2>5 DEF OwedFinite
  <2>7. OwedIsCounted'
    BY <1>1, <2>4, <2>5 DEF OwedIsCounted, Load
  <2> QED
    BY <2>6, <2>7
<1>6. DownloadTypeOK'
  <2>1. DOMAIN blockPeers' \subseteq P!Keys /\ \A x \in DOMAIN blockPeers' : blockPeers'[x] \subseteq Peers
    BY <1>1, <1>3 DEF DownloadTypeOK
  <2>2. turn' \subseteq Peers
    BY <1>1 DEF DownloadTypeOK
  <2> QED
    BY <1>1, <1>4, <1>5, <2>1, <2>2 DEF DownloadTypeOK
<1>7. HoldersConnected'
  BY <1>1, <1>2 DEF HoldersConnected
<1>8. HeldIsWanted'
  BY <1>1, <1>3 DEF HeldIsWanted, P!Received
<1>9. TurnHasRoom'
  BY <1>1 DEF TurnHasRoom, CanAsk, Slots, DownloadTypeOK
<1>10. CurrentIsFull' /\ complete' \in [P!Pieces -> BOOLEAN]
  BY <1>1 DEF CurrentIsFull, P!IsCurrent
<1> QED
  BY <1>6, <1>7, <1>8, <1>9, <1>10, <1>11

(* A block that arrives is forgotten by both books, and may complete the   *)
(* buffer of its piece.                                                    *)
LEMMA ArrivesPreserves ==
  ASSUME IInv, NEW p \in Peers, NEW x \in P!Keys, NEW data, NEW n \in Nat, Arrives(p, x, data, n)
  PROVE  IInv'
<1> USE DEF IInv, BooksAgree
<1> DEFINE others == HoldersOf(x) \ {p}
           lowered == {q \in others \cup {p} : outstanding[q] > 0}
<1>1. /\ turn = {} /\ turn' = {}
      /\ n = 0 \/ <<x, n>> \in asked[p]
      /\ blockPeers' = [y \in DOMAIN blockPeers \ {x} |-> blockPeers[y]]
      /\ outstanding' = [q \in Peers |-> IF q \in lowered THEN LessOne(outstanding[q]) ELSE outstanding[q]]
      /\ asked' = [q \in Peers |-> IF q \in others THEN asked[q] \ ForBlocks(q, {x})
                                   ELSE IF q = p THEN asked[q] \ {<<x, n>>} ELSE asked[q]]
      /\ astray' = [q \in Peers |->
                      /\ asked'[q] # {}
                      /\ astray[q] \/ (q \in lowered /\ IF q = p THEN n = 0 ELSE ~Owes(q, x))]
      /\ P!OnBlock(x[1], x[2], data)
      /\ UNCHANGED <<connected, dead, choking>>
  BY DEF Arrives, DropHolders, Restrict
<1>2. x = <<x[1], x[2]>> /\ x[1] \in P!Pieces /\ x[2] \in P!Blocks(x[1])
  BY KeyTypes
<1>3. DownloadTypeOK'
  <2> HIDE DEF others, lowered
  <2>1. asked' \in [Peers -> SUBSET Requests]
    BY <1>1 DEF DownloadTypeOK
  <2>2. astray' \in [Peers -> BOOLEAN]
    <3>1. \A q \in Peers : astray'[q] \in BOOLEAN
      BY <1>1
    <3>2. DOMAIN astray' = Peers /\ astray' = [q \in Peers |-> astray'[q]]
      BY <1>1
    <3> QED
      BY <3>1, <3>2
  <2>3. outstanding' \in [Peers -> 0..PipelineDepth]
    BY <1>1, DownloadAssumption DEF DownloadTypeOK, LessOne
  <2> QED
    BY <1>1, <2>1, <2>2, <2>3 DEF DownloadTypeOK
<1>10. OwedFinite' /\ OwedIsCounted'
  <2> SUFFICES ASSUME NEW q \in Peers
               PROVE  IsFiniteSet(asked'[q]) /\ (~astray'[q] => Cardinality(asked'[q]) <= outstanding'[q])
    BY DEF OwedFinite, OwedIsCounted, Load
  <2>1. /\ IsFiniteSet(asked[q]) /\ Cardinality(asked[q]) \in Nat
        /\ outstanding[q] \in Nat /\ outstanding'[q] \in Nat
        /\ ~astray[q] => Cardinality(asked[q]) <= outstanding[q]
    <3>1. IsFiniteSet(asked[q]) /\ outstanding[q] \in Nat /\ outstanding'[q] \in Nat
      BY <1>3, DownloadAssumption DEF DownloadTypeOK, OwedFinite
    <3> QED
      BY <3>1, FS_CardinalityType DEF OwedIsCounted, Load
  <2>2. ASSUME outstanding[q] = 0, ~astray[q] PROVE asked[q] = {}
    BY <2>2, NothingOwed
  <2>3. asked'[q] \subseteq asked[q] /\ IsFiniteSet(asked'[q])
    <3>1. asked'[q] \subseteq asked[q]
      BY <1>1
    <3> QED
      BY <2>1, <3>1, FS_Subset
  <2>4. ASSUME asked'[q] = {} PROVE Cardinality(asked'[q]) <= outstanding'[q]
    BY <2>1, <2>4, FS_EmptySet
  <2> SUFFICES ASSUME ~astray[q], asked'[q] # {}, ~(q \in lowered /\ IF q = p THEN n = 0 ELSE ~Owes(q, x))
               PROVE  Cardinality(asked'[q]) <= outstanding'[q]
    BY <1>1, <2>3, <2>4
  <2>5. outstanding[q] > 0
    BY <2>1, <2>2, <2>3
  <2>6. CASE q = p
    <3>1. q \notin others /\ q \in lowered
      BY <2>5, <2>6
    <3> HIDE DEF others, lowered
    <3>2. n # 0 /\ <<x, n>> \in asked[q]
      BY <1>1, <2>6, <3>1
    <3>3. asked'[q] = asked[q] \ {<<x, n>>} /\ outstanding'[q] = outstanding[q] - 1
      BY <1>1, <2>1, <2>5, <2>6, <3>1 DEF LessOne
    <3>4. Cardinality(asked'[q]) = Cardinality(asked[q]) - 1
      BY <2>1, <3>2, <3>3, FS_RemoveElement
    <3> QED
      BY <2>1, <3>3, <3>4
  <2>7. CASE q # p /\ q \in others
    <3>1. q \in lowered
      BY <2>5, <2>7
    <3>2. Owes(q, x)
      BY <2>7, <3>1
    <3> HIDE DEF others, lowered
    <3>3. asked'[q] = asked[q] \ ForBlocks(q, {x}) /\ outstanding'[q] = outstanding[q] - 1
      BY <1>1, <2>1, <2>5, <2>7, <3>1 DEF LessOne
    <3>4. Cardinality(asked'[q]) + Cardinality({x}) <= Cardinality(asked[q])
      <4>1. {x} \in SUBSET P!Keys /\ \A y \in {x} : Owes(q, y)
        BY <3>2
      <4> QED
        BY <2>1, <3>3, <4>1, AskedLess
    <3>5. Cardinality({x}) = 1 /\ Cardinality(asked'[q]) \in Nat
      BY <2>3, FS_Singleton, FS_CardinalityType
    <3> QED
      BY <2>1, <3>3, <3>4, <3>5
  <2>8. CASE q # p /\ q \notin others
    BY <1>1, <2>1, <2>8
  <2> QED
    BY <2>6, <2>7, <2>8
<1>4. DOMAIN inflight \ {x} \subseteq DOMAIN inflight' /\ UNCHANGED complete
  BY <1>1, <1>2 DEF P!OnBlock, P!Answered, P!Restrict
<1>5. \A i \in P!Pieces : P!Received(i)' \subseteq P!Received(i) \cup (IF i = x[1] THEN {x[2]} ELSE {})
  <2>1. CASE UNCHANGED partial
    BY <2>1 DEF P!Received
  <2>2. CASE ~UNCHANGED partial
    <3> DEFINE asm == P!WithBlock(P!Assembly(x[1]), x[2], data)
    <3>1. partial' = [j \in DOMAIN partial \cup {x[1]} |-> IF j = x[1] THEN asm ELSE partial[j]]
      BY <1>1, <2>2 DEF P!OnBlock
    <3>2. DOMAIN asm.got = P!Received(x[1]) \cup {x[2]}
      BY DEF P!WithBlock, P!Assembly, P!Received
    <3> HIDE DEF asm
    <3> QED
      BY <3>1, <3>2 DEF P!Received
  <2> QED
    BY <2>1, <2>2
<1>6. HoldersConnected'
  BY <1>1 DEF HoldersConnected
<1>7. HeldIsWanted'
  <2> SUFFICES ASSUME NEW y \in DOMAIN blockPeers'
               PROVE  y \in DOMAIN inflight' /\ ~complete'[y[1]] /\ y[2] \notin P!Received(y[1])'
    BY DEF HeldIsWanted
  <2>1. y \in DOMAIN blockPeers /\ y # x /\ y \in P!Keys
    BY <1>1 DEF DownloadTypeOK
  <2>2. y = <<y[1], y[2]>> /\ y[1] \in P!Pieces
    BY <2>1, KeyTypes
  <2>3. ~(y[1] = x[1] /\ y[2] = x[2])
    BY <1>2, <2>1, <2>2
  <2> QED
    BY <1>4, <1>5, <2>1, <2>2, <2>3 DEF HeldIsWanted
<1>8. TurnHasRoom'
  BY <1>1 DEF TurnHasRoom
<1>9. CurrentIsFull'
  <2>1. CASE UNCHANGED <<partial, hashing>>
    BY <2>1 DEF CurrentIsFull, P!IsCurrent
  <2>2. CASE ~UNCHANGED <<partial, hashing>>
    <3> DEFINE old == P!Assembly(x[1])
               asm == P!WithBlock(old, x[2], data)
               new == [index |-> x[1], id |-> asm.id, got |-> asm.got]
    <3>1. /\ x[2] \notin P!Received(x[1])
          /\ x[1] \in DOMAIN partial \/ \E id \in Buffers : id \notin P!LiveBuffers
          /\ partial' = [j \in DOMAIN partial \cup {x[1]} |-> IF j = x[1] THEN asm ELSE partial[j]]
          /\ hashing' = IF DOMAIN asm.got = P!Blocks(x[1]) THEN hashing \cup {new} ELSE hashing
      BY <1>1, <2>2 DEF P!OnBlock
    <3>2. asm.id = old.id
      BY DEF P!WithBlock
    <3>3. IF x[1] \in DOMAIN partial THEN old = partial[x[1]] ELSE old.id = P!NewBuffer
      BY DEF P!Assembly
    <3>4. x[1] \notin DOMAIN partial => \A h \in hashing : h.id # old.id
      BY <3>1, <3>3 DEF P!NewBuffer, P!LiveBuffers
    <3> HIDE DEF asm, old
    <3> SUFFICES ASSUME NEW h \in hashing', P!IsCurrent(h)'
                 PROVE  DOMAIN partial'[h.index].got = P!Blocks(h.index)
      BY DEF CurrentIsFull
    <3>5. h.index \in DOMAIN partial' /\ partial'[h.index].id = h.id
      BY DEF P!IsCurrent
    <3>6. CASE h \in hashing /\ h.index # x[1]
      BY <3>1, <3>5, <3>6 DEF CurrentIsFull, P!IsCurrent
    <3>7. CASE h \in hashing /\ h.index = x[1]
      <4>1. h.id = old.id
        BY <3>1, <3>2, <3>5, <3>7
      <4>2. x[1] \in DOMAIN partial /\ old = partial[x[1]]
        BY <3>3, <3>4, <3>7, <4>1
      <4>3. DOMAIN partial[x[1]].got = P!Blocks(x[1])
        BY <3>7, <4>1, <4>2 DEF CurrentIsFull, P!IsCurrent
      <4> QED
        BY <1>2, <3>1, <4>2, <4>3 DEF P!Received
    <3>8. CASE h \notin hashing
      <4>1. h = new /\ DOMAIN asm.got = P!Blocks(x[1])
        BY <3>1, <3>8
      <4>2. partial'[x[1]] = asm
        BY <3>1
      <4> QED
        BY <4>1, <4>2
    <3> QED
      BY <3>6, <3>7, <3>8
  <2> QED
    BY <2>1, <2>2
<1> QED
  BY <1>3, <1>4, <1>6, <1>7, <1>8, <1>9, <1>10

(* A piece becomes complete only when none of its blocks is on request.    *)
LEMMA HashPreserves == ASSUME IInv, NEW h \in hashing, HashDone(h) PROVE IInv'
<1> USE DEF IInv, BooksAgree
<1>1. /\ turn = {} /\ turn' = {} /\ hashing' = hashing \ {h}
      /\ UNCHANGED <<inflight, blockPeers, connected, dead, choking, outstanding, asked, astray>>
  BY DEF HashDone, P!Sha1Done, peerVars
<1>2. DownloadTypeOK' /\ HoldersConnected' /\ TurnHasRoom' /\ OwedFinite' /\ OwedIsCounted'
  BY <1>1 DEF DownloadTypeOK, HoldersConnected, TurnHasRoom, OwedFinite, OwedIsCounted, Load
<1>3. CASE ~P!IsCurrent(h)
  <2>1. UNCHANGED <<complete, partial>>
    BY <1>3 DEF HashDone, P!Sha1Done
  <2> QED
    BY <1>1, <1>2, <2>1 DEF HeldIsWanted, P!Received, CurrentIsFull, P!IsCurrent
<1>4. CASE P!IsCurrent(h)
  <2>1. /\ partial' = [j \in DOMAIN partial \cap (DOMAIN partial \ {h.index}) |-> partial[j]]
        /\ complete' = complete \/ complete' = [complete EXCEPT ![h.index] = TRUE]
    BY <1>4 DEF HashDone, P!Sha1Done, P!Released, P!Restrict
  <2>2. CurrentIsFull'
    BY <1>1, <2>1 DEF CurrentIsFull, P!IsCurrent
  <2>3. \A i : P!Received(i)' \subseteq P!Received(i)
    BY <2>1 DEF P!Received
  <2>4. DOMAIN partial[h.index].got = P!Blocks(h.index) /\ h.index \in DOMAIN partial
    BY <1>4 DEF CurrentIsFull, P!IsCurrent
  <2>5. HeldIsWanted'
    <3> SUFFICES ASSUME NEW y \in DOMAIN blockPeers
                 PROVE  y \in DOMAIN inflight /\ ~complete'[y[1]] /\ y[2] \notin P!Received(y[1])'
      BY <1>1 DEF HeldIsWanted
    <3>1. y[1] \in P!Pieces /\ y[2] \in P!Blocks(y[1])
      BY KeyTypes DEF DownloadTypeOK
    <3>2. y \in DOMAIN inflight /\ ~complete[y[1]] /\ y[2] \notin P!Received(y[1])
      BY DEF HeldIsWanted
    <3>3. y[1] # h.index
      BY <2>4, <3>1, <3>2 DEF P!Received
    <3> QED
      BY <2>1, <2>3, <3>1, <3>2, <3>3
  <2>6. complete' \in [P!Pieces -> BOOLEAN]
    BY <2>1
  <2> QED
    BY <1>2, <2>2, <2>5, <2>6
<1> QED
  BY <1>3, <1>4

(* What a peer does alone leaves the pieces alone.                         *)
LEMMA PeerPreserves ==
  ASSUME IInv, NEW p \in Peers,
         \/ Chokes(p) \/ Unchokes(p) \/ Closes(p)
         \/ \E chokes, closed \in BOOLEAN : Connects(p, chokes, closed)
  PROVE  IInv'
<1> USE DEF IInv, BooksAgree
<1>1. turn = {} /\ turn' = {} /\ UNCHANGED <<complete, partial, hashing, inflight>>
  BY DEF Chokes, Unchokes, Connects, Closes, pieceVars
<1>2. TurnHasRoom' /\ CurrentIsFull' /\ complete' \in [P!Pieces -> BOOLEAN]
  BY <1>1 DEF TurnHasRoom, CurrentIsFull, P!IsCurrent
<1>3. 0 \in 0..PipelineDepth
  BY DownloadAssumption
<1>4. CASE Unchokes(p) \/ \E chokes, closed \in BOOLEAN : Connects(p, chokes, closed)
  <2>1. /\ UNCHANGED <<blockPeers, outstanding, asked, astray>>
        /\ connected \subseteq connected' /\ connected' \subseteq Peers /\ dead' \subseteq connected'
        /\ choking' \in [Peers -> BOOLEAN]
    BY <1>4 DEF Unchokes, Connects, DownloadTypeOK
  <2>2. DownloadTypeOK' /\ OwedFinite' /\ OwedIsCounted'
    BY <1>1, <2>1 DEF DownloadTypeOK, OwedFinite, OwedIsCounted, Load
  <2>3. HoldersConnected' /\ HeldIsWanted'
    BY <1>1, <2>1 DEF HoldersConnected, HeldIsWanted, P!Received
  <2> QED
    BY <1>2, <2>2, <2>3
<1>5. CASE Chokes(p) \/ Closes(p)
  <2>1. /\ outstanding' = [outstanding EXCEPT ![p] = 0]
        /\ asked' = [asked EXCEPT ![p] = {}]
        /\ astray' = [astray EXCEPT ![p] = FALSE]
        /\ choking' = [choking EXCEPT ![p] = TRUE]
    BY <1>5 DEF Chokes, Closes
  <2>2. OwedFinite' /\ OwedIsCounted'
    <3> SUFFICES ASSUME NEW q \in Peers
                 PROVE  IsFiniteSet(asked'[q]) /\ (~astray'[q] => Cardinality(asked'[q]) <= outstanding'[q])
      BY DEF OwedFinite, OwedIsCounted, Load
    <3>1. CASE q = p
      BY <2>1, <3>1, FS_EmptySet DEF DownloadTypeOK
    <3>2. CASE q # p
      BY <2>1, <3>2 DEF DownloadTypeOK, OwedFinite, OwedIsCounted, Load
    <3> QED
      BY <3>1, <3>2
  <2>3. asked' \in [Peers -> SUBSET Requests] /\ astray' \in [Peers -> BOOLEAN]
    BY <2>1 DEF DownloadTypeOK
  <2>4. outstanding' \in [Peers -> 0..PipelineDepth] /\ choking' \in [Peers -> BOOLEAN]
    BY <1>3, <2>1 DEF DownloadTypeOK
  <2>5. CASE Chokes(p)
    <3>1. UNCHANGED <<blockPeers, connected, dead>>
      BY <2>5 DEF Chokes
    <3>2. DownloadTypeOK'
      BY <1>1, <2>3, <2>4, <3>1 DEF DownloadTypeOK
    <3>3. HoldersConnected' /\ HeldIsWanted'
      BY <1>1, <3>1 DEF HoldersConnected, HeldIsWanted, P!Received
    <3> QED
      BY <1>2, <2>2, <3>2, <3>3
  <2>6. CASE Closes(p)
    <3>1. /\ \A x \in DOMAIN blockPeers' : /\ x \in DOMAIN blockPeers
                                           /\ blockPeers'[x] = blockPeers[x] \ {p}
                                           /\ blockPeers'[x] # {}
          /\ connected' = connected \ {p} /\ dead' = dead \ {p}
      BY <2>6 DEF Closes, Forgetting, Restrict
    <3>2. DownloadTypeOK'
      BY <1>1, <2>3, <2>4, <3>1 DEF DownloadTypeOK
    <3>3. HoldersConnected' /\ HeldIsWanted'
      BY <1>1, <3>1 DEF HoldersConnected, HeldIsWanted, P!Received
    <3> QED
      BY <1>2, <2>2, <3>2, <3>3
  <2> QED
    BY <1>5, <2>5, <2>6
<1> QED
  BY <1>4, <1>5

(* A block that retainRange does not cancel lies in a piece that it keeps. *)
LEMMA OutsideCoversEvicted ==
  ASSUME NEW from \in 0..TotalLength, NEW to \in 0..TotalLength,
         NEW x \in DOMAIN blockPeers, x[1] \in P!Pieces, x \notin Outside(from, to)
  PROVE  P!PieceOf(from) <= x[1] /\ x[1] < P!CeilDiv(to, PieceLength)
<1>1. x[1] \in Nat /\ from \in Nat /\ to \in Nat /\ PieceLength \in Nat \ {0}
  BY LayoutFacts, TorrentAssumption DEF P!Pieces
<1>2. ~((x[1] + 1) * PieceLength <= from) /\ ~(x[1] * PieceLength >= to)
  BY DEF Outside
<1>3. from \div PieceLength <= x[1]
  BY <1>1, <1>2
<1>4. x[1] < (to + PieceLength - 1) \div PieceLength
  BY <1>1, <1>2
<1> QED
  BY <1>3, <1>4 DEF P!PieceOf, P!CeilDiv

(* Moving the window cancels exactly the requests the piece manager drops. *)
LEMMA RetainRangePreserves ==
  ASSUME IInv, NEW from \in 0..TotalLength, NEW to \in 0..TotalLength, RetainRange(from, to)
  PROVE  IInv'
<1> USE DEF IInv, BooksAgree
<1> DEFINE gone == [p \in Peers |-> {x \in Outside(from, to) : p \in blockPeers[x]}]
           kept == {i \in P!Pieces : keepFrom' <= i /\ i < keepTo'}
<1>1. /\ turn = {} /\ turn' = {}
      /\ P!RetainRange(from, to)
      /\ blockPeers' = [x \in DOMAIN blockPeers \ Outside(from, to) |-> blockPeers[x]]
      /\ outstanding' = [p \in Peers |->
                           IF outstanding[p] > Cardinality(gone[p])
                             THEN outstanding[p] - Cardinality(gone[p]) ELSE 0]
      /\ asked' = [p \in Peers |-> asked[p] \ ForBlocks(p, gone[p])]
      /\ astray' = [p \in Peers |->
                      /\ asked'[p] # {}
                      /\ astray[p] \/ (outstanding[p] > 0 /\ \E x \in gone[p] : ~Owes(p, x))]
      /\ UNCHANGED <<connected, dead, choking>>
  BY DEF RetainRange, Restrict
<1>2. /\ keepFrom' = P!PieceOf(from) /\ keepTo' = P!CeilDiv(to, PieceLength)
      /\ complete' = [i \in P!Pieces |-> complete[i] /\ (i \in DOMAIN cache => i \in kept)]
      /\ partial' = [i \in DOMAIN partial \cap kept |-> partial[i]]
      /\ DOMAIN inflight' = {x \in DOMAIN inflight : x[1] \in kept}
      /\ UNCHANGED hashing
  BY <1>1 DEF P!RetainRange, P!Forgetting, P!Restrict
<1>3. \A p \in Peers : gone[p] \subseteq P!Keys /\ Cardinality(gone[p]) \in Nat
  <2> SUFFICES ASSUME NEW p \in Peers PROVE gone[p] \subseteq P!Keys /\ Cardinality(gone[p]) \in Nat
    OBVIOUS
  <2>1. gone[p] \subseteq P!Keys
    BY DEF Outside, DownloadTypeOK
  <2> HIDE DEF gone
  <2> QED
    BY <2>1, KeysFinite, FS_Subset, FS_CardinalityType
<1> HIDE DEF gone
<1>4. DownloadTypeOK'
  <2>1. outstanding' \in [Peers -> 0..PipelineDepth]
    BY <1>1, <1>3, DownloadAssumption DEF DownloadTypeOK
  <2>2. asked' \in [Peers -> SUBSET Requests]
    BY <1>1 DEF DownloadTypeOK
  <2>3. astray' \in [Peers -> BOOLEAN]
    <3>1. \A q \in Peers : astray'[q] \in BOOLEAN
      BY <1>1
    <3>2. DOMAIN astray' = Peers /\ astray' = [q \in Peers |-> astray'[q]]
      BY <1>1
    <3> QED
      BY <3>1, <3>2
  <2> QED
    BY <1>1, <2>1, <2>2, <2>3 DEF DownloadTypeOK
<1>9. OwedFinite' /\ OwedIsCounted'
  <2> SUFFICES ASSUME NEW q \in Peers
               PROVE  IsFiniteSet(asked'[q]) /\ (~astray'[q] => Cardinality(asked'[q]) <= outstanding'[q])
    BY DEF OwedFinite, OwedIsCounted, Load
  <2> DEFINE g == gone[q]
  <2>1. /\ g \in SUBSET P!Keys /\ Cardinality(g) \in Nat
        /\ asked'[q] = asked[q] \ ForBlocks(q, g)
        /\ outstanding'[q] = IF outstanding[q] > Cardinality(g) THEN outstanding[q] - Cardinality(g) ELSE 0
        /\ astray'[q] = (asked'[q] # {} /\ (astray[q] \/ (outstanding[q] > 0 /\ \E x \in g : ~Owes(q, x))))
    BY <1>1, <1>3
  <2> HIDE DEF g
  <2>2. /\ IsFiniteSet(asked[q]) /\ outstanding[q] \in Nat
        /\ ~astray[q] => Cardinality(asked[q]) <= outstanding[q]
    BY DownloadAssumption DEF DownloadTypeOK, OwedFinite, OwedIsCounted, Load
  <2>3. /\ IsFiniteSet(asked'[q])
        /\ (\A x \in g : Owes(q, x)) => Cardinality(asked'[q]) + Cardinality(g) <= Cardinality(asked[q])
    BY <2>1, <2>2, AskedLess
  <2>4. Cardinality(asked'[q]) \in Nat /\ Cardinality(asked[q]) \in Nat /\ outstanding'[q] \in Nat
    BY <2>1, <2>2, <2>3, FS_CardinalityType
  <2>5. CASE asked'[q] = {}
    BY <2>3, <2>4, <2>5, FS_EmptySet
  <2>6. CASE asked'[q] # {} /\ ~astray[q] /\ \A x \in g : Owes(q, x)
    BY <2>1, <2>2, <2>3, <2>4, <2>6
  <2>7. CASE ~astray[q] /\ outstanding[q] = 0
    <3>1. asked[q] = {}
      BY <2>7, NothingOwed
    <3> QED
      BY <2>1, <2>5, <3>1
  <2>8. astray'[q] \/ asked'[q] = {} \/ (~astray[q] /\ (~(outstanding[q] > 0) \/ \A x \in g : Owes(q, x)))
    BY <2>1, Zenon
  <2>9. ASSUME ~(outstanding[q] > 0) PROVE outstanding[q] = 0
    BY <2>2, <2>9
  <2>10. IsFiniteSet(asked'[q])
    BY <2>3
  <2>11. CASE ~astray'[q]
    BY <2>5, <2>6, <2>7, <2>8, <2>9, <2>11, Zenon
  <2> QED
    BY <2>10, <2>11, Zenon
<1>5. ASSUME NEW x \in DOMAIN blockPeers' PROVE x \in DOMAIN blockPeers /\ x[1] \in kept
  <2>1. x \in DOMAIN blockPeers /\ x \notin Outside(from, to)
    BY <1>1
  <2>2. x[1] \in P!Pieces
    BY <2>1, KeyTypes DEF DownloadTypeOK
  <2> QED
    BY <1>2, <2>1, <2>2, OutsideCoversEvicted
<1> HIDE DEF kept
<1>6. HoldersConnected'
  BY <1>1 DEF HoldersConnected
<1>7. HeldIsWanted'
  <2> SUFFICES ASSUME NEW x \in DOMAIN blockPeers'
               PROVE  x \in DOMAIN inflight' /\ ~complete'[x[1]] /\ x[2] \notin P!Received(x[1])'
    BY DEF HeldIsWanted
  <2>1. x \in DOMAIN inflight /\ ~complete[x[1]] /\ x[2] \notin P!Received(x[1]) /\ x[1] \in P!Pieces
    BY <1>5, KeyTypes DEF HeldIsWanted, DownloadTypeOK
  <2> QED
    BY <1>2, <1>5, <2>1 DEF P!Received
<1>8. CurrentIsFull' /\ TurnHasRoom' /\ complete' \in [P!Pieces -> BOOLEAN]
  BY <1>1, <1>2 DEF CurrentIsFull, P!IsCurrent, TurnHasRoom
<1> QED
  BY <1>4, <1>6, <1>7, <1>8, <1>9

(* The read head and the age of a request are in neither book.             *)
LEMMA OthersPreserve ==
  ASSUME IInv, \/ \E offset \in Offsets : SetReadHead(offset)
               \/ \E x \in P!Keys : RequestTimesOut(x)
               \/ UNCHANGED downloadVars
  PROVE  IInv'
<1> USE DEF IInv, BooksAgree
<1>1. /\ UNCHANGED <<turn, blockPeers, connected, dead, choking, outstanding, asked, astray>>
      /\ UNCHANGED <<complete, partial, hashing>>
      /\ DOMAIN inflight' = DOMAIN inflight
  BY DEF SetReadHead, RequestTimesOut, P!SetReadHead, P!RequestTimesOut, peerVars, pieceVars, downloadVars
<1>2. /\ DownloadTypeOK' /\ HoldersConnected' /\ complete' \in [P!Pieces -> BOOLEAN]
      /\ OwedFinite' /\ OwedIsCounted'
  BY <1>1 DEF DownloadTypeOK, HoldersConnected, OwedFinite, OwedIsCounted, Load
<1>3. HeldIsWanted' /\ CurrentIsFull' /\ TurnHasRoom'
  BY <1>1 DEF HeldIsWanted, P!Received, CurrentIsFull, P!IsCurrent, TurnHasRoom, CanAsk, Slots
<1> QED
  BY <1>2, <1>3

(* One case for each action.                                               *)
LEMMA NextPreserves == IInv /\ [DownloadNext]_downloadVars => IInv'
<1> SUFFICES ASSUME IInv, [DownloadNext]_downloadVars PROVE IInv'
  OBVIOUS
<1>1. ASSUME NEW p \in Peers, NEW x \in P!Keys, NEW data \in {"good", "bad"}, NEW n \in 0..MaxPending, Arrives(p, x, data, n)
      PROVE  IInv'
  BY <1>1, ArrivesPreserves, DownloadAssumption
<1>2. ASSUME NEW h \in hashing, HashDone(h) PROVE IInv'
  BY <1>2, HashPreserves
<1>3. ASSUME NEW p \in Peers, \/ Chokes(p) \/ Unchokes(p) \/ Closes(p)
                              \/ \E chokes, closed \in BOOLEAN : Connects(p, chokes, closed)
      PROVE  IInv'
  BY <1>3, PeerPreserves
<1>4. ASSUME NEW p \in Peers, Ask(p) PROVE IInv'
  BY <1>4, AskPreserves
<1>5. ASSUME NEW from \in Offsets, NEW to \in Offsets, RetainRange(from, to) PROVE IInv'
  BY <1>5, RetainRangePreserves, TorrentAssumption
<1>6. ASSUME \/ \E offset \in Offsets : SetReadHead(offset)
             \/ \E x \in P!Keys : RequestTimesOut(x)
             \/ UNCHANGED downloadVars
      PROVE  IInv'
  BY <1>6, OthersPreserve
<1>7. CASE TickStarts
  BY <1>7, TickPreserves
<1> QED
  BY <1>1, <1>2, <1>3, <1>4, <1>5, <1>6, <1>7 DEF DownloadNext

-----------------------------------------------------------------------------
(* The theorems. *)

(* The invariant holds throughout.                                         *)
LEMMA Invariance == DownloadSpec => []IInv
  BY InitEstablishes, NextPreserves, PTL DEF DownloadSpec

(* The engine's books on requests agree with its piece manager's: a block  *)
(* on request is one that is wanted, at peers that are in #peers; and a    *)
(* peer that is not astray owes no more answers than its pipeline holds.   *)
THEOREM BooksStayInAgreement == DownloadSpec => []BooksAgree
<1>1. IInv => BooksAgree
  BY DEF IInv
<1> QED
  BY <1>1, Invariance, PTL

-----------------------------------------------------------------------------
(* The piece manager inside the engine behaves as PieceManager says. *)

(* Every step of the engine is a step of its piece manager or leaves it    *)
(* alone: above all, the engine never asks for more blocks than one call   *)
(* of pickRequests may return.                                             *)
LEMMA PiecesStep == IInv /\ [DownloadNext]_downloadVars => [P!Next]_(P!vars)
<1> SUFFICES ASSUME IInv, [DownloadNext]_downloadVars PROVE P!Next \/ UNCHANGED pieceVars
  BY DEF P!vars, pieceVars
<1>1. ASSUME NEW p \in Peers, NEW x \in P!Keys, NEW data \in {"good", "bad"}, NEW n \in 0..MaxPending, Arrives(p, x, data, n)
      PROVE  P!Next
  <2>1. x[1] \in 0..P!NumPieces /\ x[2] \in 0..P!BlockCount(0) /\ data \in P!BlockData
    BY KeyTypes, LayoutFacts, BlockFacts DEF P!BlockData, P!Pieces
  <2>2. P!OnBlock(x[1], x[2], data)
    BY <1>1 DEF Arrives
  <2> QED
    BY <2>1, <2>2 DEF P!Next
<1>2. ASSUME NEW p \in Peers, Ask(p) PROVE P!Next
  <2>1. Slots(p) \in 1..MaxPick
    BY <1>2, DownloadAssumption DEF Ask, IInv, BooksAgree, DownloadTypeOK, TurnHasRoom, CanAsk, Slots
  <2>2. P!PickRequests(P!Pieces, Slots(p))
    BY <1>2 DEF Ask
  <2> QED
    BY <2>1, <2>2 DEF P!Next
<1>3. ASSUME NEW h \in hashing, HashDone(h) PROVE P!Next
  BY <1>3 DEF HashDone, P!Next
<1>4. ASSUME NEW offset \in Offsets, SetReadHead(offset) PROVE P!Next
  BY <1>4 DEF SetReadHead, P!Next
<1>5. ASSUME NEW from \in Offsets, NEW to \in Offsets, from <= to, RetainRange(from, to) PROVE P!Next
  BY <1>5 DEF RetainRange, P!Next
<1>6. ASSUME NEW x \in P!Keys, RequestTimesOut(x) PROVE P!Next
  BY <1>6 DEF RequestTimesOut, P!Next
<1>7. ASSUME \/ TickStarts \/ UNCHANGED downloadVars
             \/ \E p \in Peers : Chokes(p) \/ Unchokes(p) \/ Closes(p)
             \/ \E p \in Peers, chokes, closed \in BOOLEAN : Connects(p, chokes, closed)
      PROVE  UNCHANGED pieceVars
  BY <1>7 DEF TickStarts, Chokes, Unchokes, Connects, Closes, downloadVars
<1> QED
  BY <1>1, <1>2, <1>3, <1>4, <1>5, <1>6, <1>7 DEF DownloadNext

(* The engine drives its piece manager as PieceManager assumes.            *)
THEOREM DrivesPieces == DownloadSpec => P!Spec
<1>1. DownloadInit => P!Init
  BY DEF DownloadInit
<1> QED
  BY <1>1, PiecesStep, Invariance, PTL DEF DownloadSpec, P!Spec

(* PieceManagerProofs speaks of the same piece manager, definition by       *)
(* definition.                                                             *)
LEMMA SamePieces ==
  /\ P!Init => PP!Init
  /\ [P!Next]_(P!vars) => [PP!Next]_(PP!vars)
  /\ PP!PiecesConsistent => P!PiecesConsistent
  /\ PP!VerifiedReads => P!VerifiedReads
<1>1. P!Init => PP!Init
  BY DEF P!Init, PP!Init, P!Pieces, PP!Pieces, P!NumPieces, PP!NumPieces, P!CeilDiv, PP!CeilDiv
<1>2. P!Next => PP!Next
  BY DEF P!Next, PP!Next,
         P!CeilDiv, PP!CeilDiv, P!NumPieces, PP!NumPieces, P!Pieces, PP!Pieces,
         P!PieceOf, PP!PieceOf, P!PieceSize, PP!PieceSize, P!BlockCount, PP!BlockCount,
         P!Blocks, PP!Blocks, P!Keys, PP!Keys, P!Head, PP!Head, P!InKeep, PP!InKeep,
         P!Received, PP!Received, P!Intact, PP!Intact, P!SetReadHead, PP!SetReadHead,
         P!Forgetting, PP!Forgetting, P!RetainRange, PP!RetainRange, P!EvictBefore, PP!EvictBefore,
         P!Outstanding, PP!Outstanding, P!Allowed, PP!Allowed, P!Eligible, PP!Eligible,
         P!Before, PP!Before, P!EarlierIn, PP!EarlierIn, P!FirstOf, PP!FirstOf,
         P!Picked, PP!Picked, P!PickRequests, PP!PickRequests,
         P!RequestTimesOut, PP!RequestTimesOut, P!BlockData, PP!BlockData, P!Answered, PP!Answered,
         P!Accepts, PP!Accepts, P!LiveBuffers, PP!LiveBuffers, P!NewBuffer, PP!NewBuffer,
         P!Assembly, PP!Assembly, P!WithBlock, PP!WithBlock, P!OnBlock, PP!OnBlock,
         P!IsCurrent, PP!IsCurrent, P!Released, PP!Released, P!Sha1Done, PP!Sha1Done,
         P!Restrict, PP!Restrict, P!Cardinality, PP!Cardinality
<1>3. UNCHANGED P!vars => UNCHANGED PP!vars
  BY DEF P!vars, PP!vars
<1>4. PP!PiecesConsistent => P!PiecesConsistent
  BY DEF P!CeilDiv, PP!CeilDiv, P!NumPieces, PP!NumPieces, P!Pieces, PP!Pieces,
         P!PieceOf, PP!PieceOf, P!PieceSize, PP!PieceSize, P!BlockCount, PP!BlockCount,
         P!Blocks, PP!Blocks, P!Keys, PP!Keys, P!IsCurrent, PP!IsCurrent, P!Received, PP!Received,
         P!InKeep, PP!InKeep, P!TypeOK, PP!TypeOK, P!MemoryInWindow, PP!MemoryInWindow,
         P!FullPieceIsHashed, PP!FullPieceIsHashed, P!NoDoubleWork, PP!NoDoubleWork,
         P!PiecesConsistent, PP!PiecesConsistent
<1>5. PP!VerifiedReads => P!VerifiedReads
  BY DEF P!CeilDiv, PP!CeilDiv, P!NumPieces, PP!NumPieces, P!Pieces, PP!Pieces,
         P!PieceOf, PP!PieceOf, P!PieceSize, PP!PieceSize, P!BlockCount, PP!BlockCount,
         P!Blocks, PP!Blocks, P!Keys, PP!Keys, P!LeastOf, PP!LeastOf, P!PieceEnd, PP!PieceEnd,
         P!VerifiedRun, PP!VerifiedRun, P!LastOf, PP!LastOf, P!BufferedFrom, PP!BufferedFrom,
         P!Read, PP!Read, P!Intact, PP!Intact, P!VerifiedReads, PP!VerifiedReads
<1> QED
  BY <1>1, <1>2, <1>3, <1>4, <1>5

(* So whatever peers send, drop, choke or repeat, and however the player   *)
(* seeks, the player of a running engine reads every buffered byte it asks *)
(* for, no byte that was not verified, and no piece is stuck or doubled.   *)
THEOREM EngineReadsAreVerified == DownloadSpec => [](P!PiecesConsistent /\ P!VerifiedReads)
<1>1. PP!Spec => []PP!PiecesConsistent
  BY PP!PiecesStayConsistent, PieceAssumptions
<1>2. PP!Spec => []PP!VerifiedReads
  BY PP!ReadsAreVerified, PieceAssumptions
<1> QED
  BY <1>1, <1>2, DrivesPieces, SamePieces, PTL DEF P!Spec, PP!Spec
=============================================================================
