----------------------------- MODULE StreamingMC -----------------------------
(***************************************************************************)
(* Three parts of a torrent stream, checked in one run: the sessions that  *)
(* own the engines, the slots of one engine's peers under the fairness of  *)
(* its timers, and the media source its bytes end up in.  None reads the   *)
(* state of another, so the run explores each of them by itself:           *)
(* `subject`, chosen first, is the one that moves.                         *)
(***************************************************************************)
EXTENDS MediaSource, TorrentSessions

CONSTANT Addrs

VARIABLES
  subject,
  running, haveInfo, known, connecting, peers, lastUseful, link, searching, age

\* One slot, for addresses that answer, choke or vanish.
Slots == INSTANCE PeerSlots WITH MaxPeers <- 1, MaxConnecting <- 1, MaxKnown <- 2,
                                 LowPeers <- 1, MaxFound <- 1

source == <<chunks, closed, wanted, position, reader, result>>
session == <<engine, waiting, sessions, phase, input, wants>>
slots == <<running, haveInfo, known, connecting, peers, lastUseful, link, searching, age>>

StreamingInit ==
  /\ subject \in {"source", "session", "slots"}
  /\ Init /\ SessionsInit /\ Slots!Init
  /\ subject # "slots" => haveInfo

StreamingNext ==
  /\ UNCHANGED subject
  /\ \/ subject = "source" /\ Next /\ UNCHANGED <<session, slots>>
     \/ subject = "session" /\ SessionsNext /\ UNCHANGED <<source, slots>>
     \/ subject = "slots" /\ Slots!Next /\ UNCHANGED <<source, session>>

\* The fairness of MediaSource, TorrentSessions and PeerSlots.
StreamingFairness ==
  /\ WF_source(subject = "source" /\ Wake)
  /\ \A e \in Ids : WF_session(subject = "session" /\ Look(e))
  /\ WF_slots(subject = "slots" /\ Slots!Tick)
  /\ \A a \in Addrs :
       /\ WF_slots(subject = "slots" /\ (Slots!DialFails(a) \/ Slots!DialSucceeds(a)))
       /\ WF_slots(subject = "slots" /\ (Slots!Greets(a) \/ Slots!GreetFails(a)))
       /\ WF_slots(subject = "slots" /\ Slots!Idles(a))
  /\ \A s \in Slots!Sources : WF_slots(subject = "slots" /\ Slots!SearchEnds(s))

StreamingSpec ==
  StreamingInit /\ [][StreamingNext]_<<subject, source, session, slots>> /\ StreamingFairness

-----------------------------------------------------------------------------
(* The liveness of PeerSlots: once the engine stops, its connections drain *)
(* away, and a known address is tried unless choking peers go on sending   *)
(* blocks for ever (engine.ts).                                            *)
StopDrains == Slots!StopDrains
AddressTried == subject = "slots" => Slots!AddressTried
=============================================================================
