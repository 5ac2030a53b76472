----------------------------- MODULE PieceStore -----------------------------
(***************************************************************************)
(* What the piece manager (src/src/torrent/pieces.ts) promises its users,  *)
(* with no blocks, requests, buffers or hashes: a store of verified pieces *)
(* behind a keep window.  A piece enters the store alone, whole, with the  *)
(* bytes the torrent names and inside the window; it leaves the store only *)
(* when the window moves off it.  A read head outside the window reopens   *)
(* the window to the whole torrent.                                        *)
(***************************************************************************)
EXTENDS Integers, Functions

CONSTANTS
  Pieces,   \* the piece indices, 0 .. n - 1
  Bytes     \* the bytes of every piece of the torrent

VARIABLES
  store,            \* the bytes of the pieces held
  head,             \* the piece under the read head
  keepFrom, keepTo  \* the keep window

vars == <<store, head, keepFrom, keepTo>>

AllTo == IF Pieces = {} THEN 0 ELSE 1 + CHOOSE n \in Pieces : \A i \in Pieces : i <= n

Init ==
  /\ store = <<>>
  /\ head = 0
  /\ keepFrom = 0
  /\ keepTo = AllTo

MoveHead ==
  /\ head' \in Pieces
  /\ IF keepFrom <= head' /\ head' < keepTo
       THEN UNCHANGED <<keepFrom, keepTo>>
       ELSE keepFrom' = 0 /\ keepTo' = AllTo
  /\ UNCHANGED store

MoveWindow ==
  /\ keepFrom' \in Nat /\ keepTo' \in Nat
  /\ store' = Restrict(store, {i \in DOMAIN store : keepFrom' <= i /\ i < keepTo'})
  /\ UNCHANGED head

Gain(i) ==
  /\ i \in Pieces \ DOMAIN store
  /\ keepFrom <= i /\ i < keepTo
  /\ store' = [j \in DOMAIN store \cup {i} |-> IF j = i THEN Bytes[i] ELSE store[j]]
  /\ UNCHANGED <<head, keepFrom, keepTo>>

Next == MoveHead \/ MoveWindow \/ \E i \in Pieces : Gain(i)

Spec == Init /\ [][Next]_vars
=============================================================================
