--------------------------- MODULE TorrentDownload ---------------------------
(***************************************************************************)
(* The download loop of the torrent engine: src/src/torrent/engine.ts and  *)
(* wire/peer.ts on top of the piece manager (PieceManager).  Every tick    *)
(* tops up the pipeline of each peer that does not choke us; a block that  *)
(* arrives is cancelled at the peers it was also requested from.           *)
(*                                                                         *)
(* The network is what a peer still owes: a request is answered, dropped   *)
(* by a choke or a close, or cancelled.  A peer may also send a block that *)
(* it does not owe: a cancel crossed the answer, or nobody asked.          *)
(***************************************************************************)
EXTENDS Integers, FiniteSets, Functions

CONSTANTS
  TotalLength, PieceLength, BlockSize,
  MaxDupCritical, CriticalPieces, WindowPieces,
  Offsets, MaxPick, Buffers,
  FileEnd,         \* the end of the streamed file in the torrent
  Peers,           \* the peers
  PipelineDepth,   \* pipelineDepth
  MaxPending       \* bound: no tick while a peer owes so many answers

VARIABLES complete, cache, partial, hashing, inflight, readHead, keepFrom, keepTo

P == INSTANCE PieceManager

VARIABLES
  turn,         \* the peers driveDownload has still to top up, {} outside of a tick
  blockPeers,   \* #blockPeers: for each block, the peers asked for it
  connected,    \* the peers in #peers
  dead,         \* those of them that closed before they were entered there
  choking,      \* peerChoking
  outstanding,  \* outstanding
  asked,        \* the requests each peer owes an answer to
  astray        \* history: whether `outstanding` was lowered for a request not owed

pieceVars == <<complete, cache, partial, hashing, inflight, readHead, keepFrom, keepTo>>
peerVars == <<blockPeers, connected, dead, choking, outstanding, asked, astray>>
downloadVars == <<pieceVars, turn, peerVars>>

ASSUME TorrentAssumption ==
  /\ TotalLength \in Nat \ {0}
  /\ PieceLength \in Nat \ {0}
  /\ BlockSize \in Nat \ {0}
  /\ Offsets \subseteq 0..TotalLength
  /\ FileEnd \in 1..TotalLength

ASSUME DownloadAssumption ==
  /\ IsFiniteSet(Peers)
  /\ PipelineDepth \in 1..MaxPick
  /\ MaxDupCritical \in Nat \ {0}
  /\ CriticalPieces \in Nat
  /\ WindowPieces \in Nat
  /\ MaxPick \in Nat
  /\ MaxPending \in Nat \ {0}

(* A peer can be asked for a block again before it answers, so a request   *)
(* is a block and a number.                                                *)
Requests == P!Keys \X Nat
ForBlocks(p, blocks) == {r \in asked[p] : r[1] \in blocks}
Again(p, x) == <<x, Cardinality(ForBlocks(p, {x})) + 1>>
Owes(p, x) == ForBlocks(p, {x}) # {}
Load(p) == Cardinality(asked[p])

LessOne(n) == IF n > 0 THEN n - 1 ELSE 0

DownloadInit ==
  /\ P!Init
  /\ turn = {}
  /\ blockPeers = <<>>
  /\ connected = {}
  /\ dead = {}
  /\ choking = [p \in Peers |-> TRUE]
  /\ outstanding = [p \in Peers |-> 0]
  /\ asked = [p \in Peers |-> {}]
  /\ astray = [p \in Peers |-> FALSE]

-----------------------------------------------------------------------------
(* driveDownload: one peer after the other, in the order of the map they   *)
(* connected in (any order, here), with nothing else in between.           *)

WholePipeline(p) == PipelineDepth
Slots(p) == PipelineDepth - outstanding[p]

CanAsk(p) == p \in connected /\ ~choking[p] /\ Slots(p) > 0

TickStarts ==
  /\ turn = {}
  /\ \A p \in Peers : Load(p) < MaxPending
  /\ turn' = {p \in Peers : CanAsk(p)}
  /\ UNCHANGED <<pieceVars, peerVars>>

(* A peer that is dead is asked as well: send() returns as if it had sent. *)
Ask(p) ==
  LET picked == P!Picked(P!Pieces, Slots(p))
  IN  /\ p \in turn
      /\ turn' = turn \ {p}
      /\ P!PickRequests(P!Pieces, Slots(p))
      /\ blockPeers' = [x \in DOMAIN blockPeers \cup picked |->
                          (IF x \in DOMAIN blockPeers THEN blockPeers[x] ELSE {})
                            \cup (IF x \in picked THEN {p} ELSE {})]
      /\ outstanding' = [outstanding EXCEPT ![p] = @ + Cardinality(picked)]
      /\ asked' = [asked EXCEPT ![p] = IF p \in dead THEN @ ELSE @ \cup {Again(p, x) : x \in picked}]
      /\ UNCHANGED <<connected, dead, choking, astray>>

-----------------------------------------------------------------------------
HoldersOf(x) == IF x \in DOMAIN blockPeers THEN blockPeers[x] ELSE {}
KeepHolders(x) == blockPeers
DropHolders(x) == Restrict(blockPeers, DOMAIN blockPeers \ {x})

(* A piece message arrives from p, in #peers or still being greeted: in    *)
(* answer to its n-th request for the block, or to none that it owes (0).  *)
(* #dispatch counts it; onPiece cancels the block at the other holders and *)
(* hands it to the piece manager.                                          *)
Arrives(p, x, data, n) ==
  LET others == HoldersOf(x) \ {p}
      lowered == {q \in others \cup {p} : outstanding[q] > 0}
  IN  /\ turn = {}
      /\ p \notin dead
      /\ n = 0 \/ (<<x, n>> \in asked[p] /\ <<x, n + 1>> \notin asked[p])
      /\ blockPeers' = DropHolders(x)
      /\ outstanding' = [q \in Peers |-> IF q \in lowered THEN LessOne(outstanding[q]) ELSE outstanding[q]]
      /\ asked' = [q \in Peers |-> IF q \in others THEN asked[q] \ ForBlocks(q, {x})
                                   ELSE IF q = p THEN asked[q] \ {<<x, n>>} ELSE asked[q]]
      /\ astray' = [q \in Peers |->
                      /\ asked'[q] # {}
                      /\ astray[q] \/ (q \in lowered /\ IF q = p THEN n = 0 ELSE ~Owes(q, x))]
      /\ P!OnBlock(x[1], x[2], data)
      /\ UNCHANGED <<turn, connected, dead, choking>>

HashDone(h) ==
  /\ turn = {}
  /\ P!Sha1Done(h)
  /\ UNCHANGED <<turn, peerVars>>

-----------------------------------------------------------------------------
(* The peers. *)

(* choke: the peer drops our requests; #blockPeers is not told.            *)
Chokes(p) ==
  /\ turn = {}
  /\ p \in connected \ dead /\ ~choking[p]
  /\ choking' = [choking EXCEPT ![p] = TRUE]
  /\ outstanding' = [outstanding EXCEPT ![p] = 0]
  /\ asked' = [asked EXCEPT ![p] = {}]
  /\ astray' = [astray EXCEPT ![p] = FALSE]
  /\ UNCHANGED <<pieceVars, turn, blockPeers, connected, dead>>

Unchokes(p) ==
  /\ turn = {}
  /\ p \in connected \ dead /\ choking[p]
  /\ choking' = [choking EXCEPT ![p] = FALSE]
  /\ UNCHANGED <<pieceVars, turn, blockPeers, connected, dead, outstanding, asked, astray>>

(* A new Peer takes the slot.  It may have unchoked us while it was being  *)
(* greeted, and it may have closed: connectPeer does not look.             *)
Connects(p, chokes, closed) ==
  /\ turn = {}
  /\ p \notin connected
  /\ connected' = connected \cup {p}
  /\ dead' = IF closed THEN dead \cup {p} ELSE dead
  /\ choking' = [choking EXCEPT ![p] = chokes]
  /\ UNCHANGED <<pieceVars, turn, blockPeers, outstanding, asked, astray>>

(* forgetPeer: the keys the peer alone was asked for leave #blockPeers.    *)
Remembering(p) == blockPeers
Forgetting(p) ==
  LET others == [x \in DOMAIN blockPeers |-> blockPeers[x] \ {p}]
  IN  Restrict(others, {x \in DOMAIN blockPeers : others[x] # {}})

(* onClose or the recycler, which alone can remove a dead peer, and only   *)
(* if that was choking us.                                                 *)
Closes(p) ==
  /\ turn = {}
  /\ p \in connected
  /\ p \in dead => choking[p]
  /\ connected' = connected \ {p}
  /\ dead' = dead \ {p}
  /\ blockPeers' = Forgetting(p)
  /\ choking' = [choking EXCEPT ![p] = TRUE]
  /\ outstanding' = [outstanding EXCEPT ![p] = 0]
  /\ asked' = [asked EXCEPT ![p] = {}]
  /\ astray' = [astray EXCEPT ![p] = FALSE]
  /\ UNCHANGED <<pieceVars, turn>>

-----------------------------------------------------------------------------
(* The player. *)

SetReadHead(offset) ==
  /\ turn = {}
  /\ P!SetReadHead(offset)
  /\ UNCHANGED <<turn, peerVars>>

(* retainRange: the requests outside of the range are cancelled.           *)
OutsideFrom(from, to) == {x \in DOMAIN blockPeers : (x[1] + 1) * PieceLength <= from}
Outside(from, to) ==
  {x \in DOMAIN blockPeers : (x[1] + 1) * PieceLength <= from \/ x[1] * PieceLength >= to}

RetainRange(from, to) ==
  LET gone == [p \in Peers |-> {x \in Outside(from, to) : p \in blockPeers[x]}]
  IN  /\ turn = {}
      /\ P!RetainRange(from, to)
      /\ blockPeers' = Restrict(blockPeers, DOMAIN blockPeers \ Outside(from, to))
      /\ outstanding' = [p \in Peers |->
                           IF outstanding[p] > Cardinality(gone[p])
                             THEN outstanding[p] - Cardinality(gone[p]) ELSE 0]
      /\ asked' = [p \in Peers |-> asked[p] \ ForBlocks(p, gone[p])]
      /\ astray' = [p \in Peers |->
                      /\ asked'[p] # {}
                      /\ astray[p] \/ (outstanding[p] > 0 /\ \E x \in gone[p] : ~Owes(p, x))]
      /\ UNCHANGED <<turn, connected, dead, choking>>

RequestTimesOut(x) ==
  /\ turn = {}
  /\ P!RequestTimesOut(x)
  /\ UNCHANGED <<turn, peerVars>>

-----------------------------------------------------------------------------
DownloadNext ==
  \/ TickStarts
  \/ \E p \in Peers, x \in P!Keys, data \in {"good", "bad"}, n \in 0..MaxPending : Arrives(p, x, data, n)
  \/ \E h \in hashing : HashDone(h)
  \/ \E p \in Peers : Ask(p) \/ Chokes(p) \/ Unchokes(p) \/ Closes(p)
  \/ \E p \in Peers, chokes, closed \in BOOLEAN : Connects(p, chokes, closed)
  \/ \E offset \in Offsets : SetReadHead(offset)
  \/ \E from, to \in Offsets : from <= to /\ to <= FileEnd /\ RetainRange(from, to)
  \/ \E x \in P!Keys : RequestTimesOut(x)

DownloadSpec == DownloadInit /\ [][DownloadNext]_downloadVars

-----------------------------------------------------------------------------
(* Properties. *)

(* The type of every variable; above all, `outstanding` never leaves       *)
(* 0..PipelineDepth, as the engine counts.                                 *)
DownloadTypeOK ==
  /\ turn \subseteq Peers
  /\ DOMAIN blockPeers \subseteq P!Keys
  /\ \A x \in DOMAIN blockPeers : blockPeers[x] \subseteq Peers
  /\ dead \subseteq connected /\ connected \subseteq Peers
  /\ choking \in [Peers -> BOOLEAN]
  /\ outstanding \in [Peers -> 0..PipelineDepth]
  /\ asked \in [Peers -> SUBSET Requests]
  /\ astray \in [Peers -> BOOLEAN]

(* #blockPeers names only peers in #peers, and no block without one: a     *)
(* cancel never goes to a peer that was removed (forgetPeer).              *)
HoldersConnected ==
  \A x \in DOMAIN blockPeers : blockPeers[x] # {} /\ blockPeers[x] \subseteq connected

(* A block that is asked for is one we do not have, and the piece manager  *)
(* knows of the request: #blockPeers and #inflight follow each other       *)
(* through arrivals, seeks and closes.                                     *)
HeldIsWanted ==
  \A x \in DOMAIN blockPeers :
    /\ x \in DOMAIN inflight
    /\ ~complete[x[1]]
    /\ x[2] \notin P!Received(x[1])

(* A peer owes no more answers than `outstanding` counts, which is at most *)
(* the depth; unless, since it last owed none, `outstanding` was lowered   *)
(* for a block that it did not owe: it answered a request that we had      *)
(* cancelled, it sent what nobody asked for, or we cancelled a request     *)
(* that a choke had dropped.                                               *)
OwedIsCounted == \A p \in Peers : ~astray[p] => Load(p) <= outstanding[p]

(* The engine's books on requests agree with the piece manager's and, as   *)
(* long as nothing was counted twice, with the queues of the peers,        *)
(* through arrivals, seeks, chokes and peers that leave (requestBlock,     *)
(* onPiece, retainRange, forgetPeer).                                      *)
BooksAgree == DownloadTypeOK /\ HoldersConnected /\ HeldIsWanted /\ OwedIsCounted

(* What driveDownload says: "keep a bounded pipeline per peer: top it up   *)
(* to the depth, never past it".  It does go past it once a peer is astray.*)
PipelineKept == \A p \in Peers : Load(p) <= PipelineDepth
=============================================================================
