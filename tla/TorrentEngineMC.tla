---------------------------- MODULE TorrentEngineMC ----------------------------
(***************************************************************************)
(* The engine of one torrent, checked in one run: the slots of its swarm   *)
(* and the requests its peers are sent.  Neither reads the state of the    *)
(* other in the model, so the run explores each by itself: `subject`,      *)
(* chosen first, is the one that moves.                                    *)
(***************************************************************************)
EXTENDS PeerSlots, TorrentDownload, TLC

VARIABLE subject

\* Addresses are interchangeable, and so are peers.
Symmetry == Permutations(Addrs) \cup Permutations(Peers)

EngineInit ==
  /\ subject \in {"slots", "requests"}
  /\ Init /\ DownloadInit
  /\ subject # "slots" => haveInfo

EngineNext ==
  /\ UNCHANGED subject
  /\ \/ subject = "slots" /\ Next /\ UNCHANGED downloadVars
     \/ subject = "requests" /\ DownloadNext /\ UNCHANGED vars

EngineSpec == EngineInit /\ [][EngineNext]_<<subject, vars, downloadVars>>
=============================================================================
