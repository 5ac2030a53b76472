------------------------------ MODULE PeerSlots ------------------------------
(***************************************************************************)
(* The swarm bookkeeping of the torrent engine, src/src/torrent/engine.ts: *)
(* addresses from trackers, DHT and peer exchange queue up, the engine     *)
(* dials them into a bounded number of slots, and peers leave by closing,  *)
(* by choking too long, or when the engine stops.  Dialling and greeting   *)
(* are awaits, so a peer may close, and the engine may stop, in between.   *)
(*                                                                         *)
(* Time is abstract: a peer is recent until it idles for chokedIdleMs; a   *)
(* search is fresh, stale after a minute, and overdue after the regular    *)
(* announce interval.                                                      *)
(***************************************************************************)
EXTENDS Integers, Sequences, FiniteSets

CONSTANTS
  Addrs,          \* addresses of peers
  MaxPeers,       \* maxPeers
  MaxConnecting,  \* MAX_CONNECTING
  MaxKnown,       \* MAX_KNOWN
  LowPeers,       \* LOW_PEERS
  MaxFound        \* bound: the addresses one answer brings

ASSUME SlotsAssumption ==
  /\ IsFiniteSet(Addrs)
  /\ MaxPeers \in Nat \ {0}
  /\ MaxConnecting \in Nat \ {0}
  /\ MaxKnown \in Nat \ {0}
  /\ LowPeers \in Nat
  /\ MaxFound \in Nat

VARIABLES
  running,     \* #running
  haveInfo,    \* info: the metadata is known
  known,       \* #knownAddrs: the queue of addresses to try
  connecting,  \* #connecting
  peers,       \* the keys of #peers
  lastUseful,  \* #lastUseful, as far as the Peer goes that an address has now: recent or idle
  link,        \* for each address, how far its Peer has come
  searching,   \* #announcing and #dhtBusy: the searches under way
  age          \* #lastAnnounce and #lastDht: how long ago each search began

vars == <<running, haveInfo, known, connecting, peers, lastUseful, link, searching, age>>

Sources == {"trackers", "dht"}
Ages == {"fresh", "stale", "overdue"}

Gone == [stage |-> "none", open |-> FALSE, choking |-> TRUE]
Dialling == [stage |-> "dialling", open |-> FALSE, choking |-> TRUE]
Connected == [stage |-> "greeting", open |-> TRUE, choking |-> TRUE]

LeastOf(a, b) == IF a <= b THEN a ELSE b
Elements(q) == {q[j] : j \in 1..Len(q)}
UpTo(q, n) == SubSeq(q, 1, LeastOf(n, Len(q)))

(* The engine right after prepare(): both searches have just begun. *)
Init ==
  /\ running = TRUE
  /\ haveInfo \in BOOLEAN
  /\ known = <<>>
  /\ connecting = {}
  /\ peers = {}
  /\ lastUseful = [a \in {} |-> "recent"]
  /\ link = [a \in Addrs |-> Gone]
  /\ searching = Sources
  /\ age = [s \in Sources |-> "fresh"]

-----------------------------------------------------------------------------
(* connectMore: dial from the front of the queue while there is room,      *)
(* passing over the addresses that are in use.                             *)

NotYetPeers == peers
InUse == connecting \cup peers

RoomForPeers == MaxPeers - Cardinality(peers)
Room == LeastOf(MaxPeers - Cardinality(peers) - Cardinality(connecting),
                MaxConnecting - Cardinality(connecting))

Tried(q, k) == {q[j] : j \in 1..k} \ InUse
Full(q, k) == Cardinality(Tried(q, k)) >= Room

(* How many addresses the loop consumes: it stops when full or out of them. *)
Consumed(q) ==
  CHOOSE k \in 0..Len(q) : (k = Len(q) \/ Full(q, k)) /\ \A j \in 0..(k - 1) : ~Full(q, j)

Dialled(q) == Tried(q, Consumed(q))

Left(q) == SubSeq(q, Consumed(q) + 1, Len(q))

ConnectMore(q) ==
  /\ known' = Left(q)
  /\ connecting' = connecting \cup Dialled(q)

(* mergeAddrs, given the addresses of an answer that are not queued yet:   *)
(* it passes over the others.  One that repeats in an answer is kept twice. *)
MergedFreely(fresh) == known \o fresh
Merged(fresh) == UpTo(known \o fresh, MaxKnown)

AddPeers(fresh) ==
  /\ Elements(fresh) \cap Elements(known) = {}
  /\ ConnectMore(Merged(fresh))
  /\ link' = [a \in Addrs |-> IF a \in Dialled(Merged(fresh)) THEN Dialling ELSE link[a]]
  /\ UNCHANGED <<running, haveInfo, peers, lastUseful, searching, age>>

(* A tracker or the DHT answers; nothing asks whether the engine runs.     *)
SearchAnswers(s, fresh) == s \in searching /\ AddPeers(fresh)

SearchEnds(s) ==
  /\ s \in searching
  /\ searching' = searching \ {s}
  /\ UNCHANGED <<running, haveInfo, known, connecting, peers, lastUseful, link, age>>

PeerExchange(a, fresh) == link[a].open /\ running /\ AddPeers(fresh)

-----------------------------------------------------------------------------
(* connectPeer. *)

Freed(a) == link' = [link EXCEPT ![a] = Gone]

DialFails(a) ==
  /\ link[a].stage = "dialling"
  /\ Freed(a)
  /\ connecting' = connecting \ {a}
  /\ UNCHANGED <<running, haveInfo, known, peers, lastUseful, searching, age>>

(* Peer.connect is done: close again if the engine stopped, else greet.    *)
DialSucceeds(a) ==
  /\ link[a].stage = "dialling"
  /\ IF running
       THEN link' = [link EXCEPT ![a] = Connected] /\ UNCHANGED connecting
       ELSE Freed(a) /\ connecting' = connecting \ {a}
  /\ UNCHANGED <<running, haveInfo, known, peers, lastUseful, searching, age>>

Forget(gone) == lastUseful' = [p \in DOMAIN lastUseful \ gone |-> lastUseful[p]]

(* sendInterested is done.  A peer that closed meanwhile is not noticed:   *)
(* send() on a closed peer returns as if it had sent.                      *)
Occupy(a) ==
  /\ link' = [link EXCEPT ![a] = [stage |-> "live", open |-> link[a].open, choking |-> link[a].choking]]
  /\ peers' = peers \cup {a}
  /\ lastUseful' = [p \in DOMAIN lastUseful \cup {a} |-> IF p = a THEN "recent" ELSE lastUseful[p]]

GreetsUnchecked(a) ==
  /\ link[a].stage = "greeting"
  /\ Occupy(a)
  /\ connecting' = connecting \ {a}
  /\ UNCHANGED <<running, haveInfo, known, searching, age>>

Greets(a) ==
  /\ link[a].stage = "greeting"
  /\ IF running THEN Occupy(a) ELSE Freed(a) /\ Forget({a}) /\ UNCHANGED peers
  /\ connecting' = connecting \ {a}
  /\ UNCHANGED <<running, haveInfo, known, searching, age>>

(* Sending fails: the catch closes the peer; the mutant leaves it open.    *)
(* What #lastUseful had of that Peer stays, but no address leads to it.    *)
GreetLeaks(a) ==
  /\ link[a].stage = "greeting"
  /\ connecting' = connecting \ {a}
  /\ UNCHANGED <<running, haveInfo, known, peers, lastUseful, link, searching, age>>

GreetFails(a) ==
  /\ link[a].stage = "greeting"
  /\ Freed(a)
  /\ connecting' = connecting \ {a}
  /\ Forget({a})
  /\ UNCHANGED <<running, haveInfo, known, peers, searching, age>>

-----------------------------------------------------------------------------
(* What peers do once connected. *)

(* onClose: the key leaves #peers and the peer is forgotten; while it is   *)
(* still being greeted, there is no key to remove.                         *)
RemoteCloses(a) ==
  /\ link[a].open
  /\ link' = [link EXCEPT ![a] = IF @.stage = "live" THEN Gone
                                 ELSE [stage |-> @.stage, open |-> FALSE, choking |-> @.choking]]
  /\ peers' = peers \ {a}
  /\ Forget({a})
  /\ UNCHANGED <<running, haveInfo, known, connecting, searching, age>>

SetChoking(a, choking) ==
  /\ link[a].open
  /\ link' = [link EXCEPT ![a] = [stage |-> @.stage, open |-> TRUE, choking |-> choking]]
  /\ UNCHANGED <<running, haveInfo, known, connecting, peers, lastUseful, searching, age>>

Unchoke(a) == link[a].choking /\ SetChoking(a, FALSE)
Choke(a) == ~link[a].choking /\ SetChoking(a, TRUE)

(* onPiece: any piece message counts, asked for or not, from a peer that   *)
(* chokes us as well, and from one that is still being greeted.            *)
DeliversBlock(a) ==
  /\ running /\ haveInfo
  /\ link[a].open
  /\ lastUseful' = [p \in DOMAIN lastUseful \cup {a} |-> IF p = a THEN "recent" ELSE lastUseful[p]]
  /\ UNCHANGED <<running, haveInfo, known, connecting, peers, link, searching, age>>

MetadataReady ==
  /\ running /\ ~haveInfo
  /\ haveInfo' = TRUE
  /\ UNCHANGED <<running, known, connecting, peers, lastUseful, link, searching, age>>

-----------------------------------------------------------------------------
(* Time, the tick, and stop(). *)

Idles(a) ==
  /\ a \in DOMAIN lastUseful
  /\ lastUseful[a] = "recent"
  /\ lastUseful' = [lastUseful EXCEPT ![a] = "idle"]
  /\ UNCHANGED <<running, haveInfo, known, connecting, peers, link, searching, age>>

(* The searches a tick starts, once it has dialled. *)
Due ==
  LET dry == Cardinality(peers) < LowPeers /\ Left(known) = <<>>
  IN  {s \in Sources \ searching :
         \/ s = "trackers" /\ age[s] = "overdue"
         \/ dry /\ age[s] # "fresh"}

(* Time goes on.  Ticks are 200 ms apart, so no search that one is about   *)
(* to start waits the rest of the regular interval for it.                 *)
Older(s) ==
  /\ \/ age[s] = "fresh" /\ age' = [age EXCEPT ![s] = "stale"]
     \/ /\ s = "trackers" /\ age[s] = "stale"
        /\ ~(running /\ s \in Due)
        /\ age' = [age EXCEPT ![s] = "overdue"]
  /\ UNCHANGED <<running, haveInfo, known, connecting, peers, lastUseful, link, searching>>

IdleAlone(a) == lastUseful[a] = "idle" /\ ~link[a].open
Recyclable(a) == lastUseful[a] = "idle" /\ link[a].choking

(* One tick, as far as slots go: dial, search again, recycle the peers     *)
(* that choke us while there are addresses left to try.                    *)
Tick ==
  /\ running
  /\ ConnectMore(known)
  /\ searching' = searching \cup Due
  /\ age' = [s \in Sources |-> IF s \in Due THEN "fresh" ELSE age[s]]
  /\ LET dropped == IF haveInfo /\ known' # <<>> THEN {a \in peers : Recyclable(a)} ELSE {}
     IN  /\ peers' = peers \ dropped
         /\ Forget(dropped)
         /\ link' = [a \in Addrs |-> IF a \in dropped THEN Gone
                                     ELSE IF a \in Dialled(known) THEN Dialling ELSE link[a]]
  /\ UNCHANGED <<running, haveInfo>>

(* Pending dials are left to find out for themselves. *)
Stop ==
  /\ running
  /\ running' = FALSE
  /\ known' = <<>>
  /\ peers' = {}
  /\ lastUseful' = [a \in {} |-> "recent"]
  /\ link' = [a \in Addrs |-> IF a \in peers THEN Gone ELSE link[a]]
  /\ UNCHANGED <<haveInfo, connecting, searching, age>>

-----------------------------------------------------------------------------
Findings == UNION {[1..n -> Addrs] : n \in 0..MaxFound}

Next ==
  \/ \E s \in Sources, fresh \in Findings : SearchAnswers(s, fresh)
  \/ \E s \in Sources : SearchEnds(s) \/ Older(s)
  \/ \E a \in Addrs, fresh \in Findings : PeerExchange(a, fresh)
  \/ \E a \in Addrs :
       \/ DialFails(a) \/ DialSucceeds(a)
       \/ Greets(a) \/ GreetFails(a)
       \/ RemoteCloses(a) \/ Unchoke(a) \/ Choke(a) \/ DeliversBlock(a) \/ Idles(a)
  \/ MetadataReady
  \/ Tick
  \/ Stop

Spec == Init /\ [][Next]_vars

(* The timer ticks while the engine runs, a dial and a handshake time out, *)
(* five bytes are sent or fail, every search has a timeout, and time goes  *)
(* on.  Nothing is assumed of the peers here; AddressTried says what it    *)
(* needs of them.                                                          *)
Fairness ==
  /\ WF_vars(Tick)
  /\ \A a \in Addrs : WF_vars(DialFails(a) \/ DialSucceeds(a))
  /\ \A a \in Addrs : WF_vars(Greets(a) \/ GreetFails(a))
  /\ \A a \in Addrs : WF_vars(Idles(a))
  /\ \A s \in Sources : WF_vars(SearchEnds(s))

FairSpec == Spec /\ Fairness

-----------------------------------------------------------------------------
(* Properties. *)

(* The type of every variable. *)
TypeOK ==
  /\ running \in BOOLEAN /\ haveInfo \in BOOLEAN
  /\ known \in Seq(Addrs) /\ Len(known) <= MaxKnown
  /\ connecting \subseteq Addrs /\ peers \subseteq Addrs
  /\ DOMAIN lastUseful \subseteq Addrs
  /\ \A a \in DOMAIN lastUseful : lastUseful[a] \in {"recent", "idle"}
  /\ link \in [Addrs -> [stage : {"none", "dialling", "greeting", "live"},
                         open : BOOLEAN, choking : BOOLEAN]]
  /\ searching \subseteq Sources
  /\ age \in [Sources -> Ages]

(* Sockets are bounded, whoever calls connectMore and whatever is pending. *)
SlotsBounded ==
  /\ Cardinality(connecting) <= MaxConnecting
  /\ Cardinality(connecting) + Cardinality(peers) <= MaxPeers

(* Every socket has its slot and every slot its peer: none leaks on any of *)
(* the ways out of connectPeer.  Every peer is in #lastUseful (one that is *)
(* not would never be recycled, `?? now`), which else knows only peers     *)
(* that are being greeted and are open.                                    *)
SlotsAccounted ==
  /\ connecting = {a \in Addrs : link[a].stage \in {"dialling", "greeting"}}
  /\ peers = {a \in Addrs : link[a].stage = "live"}
  /\ peers \subseteq DOMAIN lastUseful
  /\ \A a \in DOMAIN lastUseful \ peers : link[a].stage = "greeting" /\ link[a].open
  /\ \A a \in Addrs : link[a].open => link[a].stage \in {"greeting", "live"}

(* An address is never dialled while a socket to it is open. *)
OneSocketPerAddress ==
  [][\A a \in Addrs : link[a].open => link'[a].stage # "dialling"]_vars

(* No interleaving of dials, greetings, goodbyes and late answers leaks a  *)
(* slot or a socket, or opens a second socket to an address (connectMore,  *)
(* connectPeer).                                                           *)
SlotsConsistent == [](TypeOK /\ SlotsBounded /\ SlotsAccounted) /\ OneSocketPerAddress

SocketHeld(a) == link[a].stage = "dialling" \/ link[a].open

(* After stop() every socket is closed for good, those still being dialled *)
(* and those a late tracker or DHT answer makes it dial included.          *)
StopDrains == ~running ~> [](\A a \in Addrs : ~SocketHeld(a))

(* Once the metadata is known, an address in the queue is tried sooner or  *)
(* later, as long as only choking peers hold the slots and none of them    *)
(* goes on for ever sending blocks: one that does is never idle for        *)
(* chokedIdleMs, though it chokes, and keeps its slot.                     *)
ChokersFallSilent == <>[][\A a \in Addrs : link[a].choking => ~DeliversBlock(a)]_vars

AddressTried ==
  ChokersFallSilent => \A x \in Addrs :
    (running /\ haveInfo /\ x \in Elements(known)) ~>
      (~running \/ x \notin Elements(known) \/ \E a \in Addrs : ~link[a].choking)
=============================================================================
