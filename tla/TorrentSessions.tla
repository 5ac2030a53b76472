--------------------------- MODULE TorrentSessions ---------------------------
(***************************************************************************)
(* The registry of torrent engines, src/src/app/sessions.ts, used by the   *)
(* control server (createFromHash) and by play and stop of                 *)
(* src/src/app/main.ts, with the life of each engine up to the choice of   *)
(* its file (prepare, waitForInfo and stop of src/src/torrent/engine.ts).  *)
(*                                                                         *)
(* An engine looks every 100 ms whether it has the metadata, was stopped   *)
(* or has waited for 120 s: it learns of a stop only at its next look.     *)
(***************************************************************************)
EXTENDS Naturals, Functions

CONSTANTS
  Hashes,       \* the info hashes
  Files,        \* the indexes of the files of a torrent
  Largest,      \* the largest of them
  Indexes,      \* the indexes a stream may carry, out of range ones included
  Null,         \* no index: play the largest file
  MaxEngines    \* bound: engines ever made

ASSUME SessionsAssumption ==
  /\ Largest \in Files
  /\ Files \subseteq Indexes
  /\ Null \notin Indexes
  /\ MaxEngines \in Nat \ {0}

Ids == 1..MaxEngines
Requests == Indexes \cup {Null}

VARIABLES
  engine,     \* the engines made: [hash, fileIdx, running, info, file]
  waiting,    \* the engines still in waitForInfo
  sessions,   \* #sessions: the engine of each info hash
  phase,      \* the player: "idle", "connecting" or "streaming"
  input,      \* the engine play has got, 0 when idle
  wants       \* the file index play was asked for

sessionsVars == <<engine, waiting, sessions, phase, input, wants>>

SessionsInit ==
  /\ engine = <<>>
  /\ waiting = {}
  /\ sessions = <<>>
  /\ phase = "idle"
  /\ input = 0
  /\ wants = Null

-----------------------------------------------------------------------------
(* The registry. *)

Fresh == {e \in Ids \ DOMAIN engine : e = 1 \/ e - 1 \in DOMAIN engine}
Prepared(h, idx) == [hash |-> h, fileIdx |-> idx, running |-> TRUE, info |-> FALSE, file |-> Null]

Start(e, h, idx) ==
  /\ engine' = [x \in DOMAIN engine \cup {e} |-> IF x = e THEN Prepared(h, idx) ELSE engine[x]]
  /\ waiting' = waiting \cup {e}
  /\ sessions' = [x \in DOMAIN sessions \cup {h} |-> IF x = h THEN e ELSE sessions[x]]

(* getOrCreate returns the session e. *)
GetOrCreateAlways(h, idx, e) == e \in Fresh /\ Start(e, h, idx)
GetOrCreate(h, idx, e) ==
  IF h \in DOMAIN sessions
    THEN e = sessions[h] /\ UNCHANGED <<engine, waiting, sessions>>
    ELSE e \in Fresh /\ Start(e, h, idx)

(* stop(key). *)
Halted(h) ==
  IF h \in DOMAIN sessions
    THEN [engine EXCEPT ![sessions[h]] = [@ EXCEPT !.running = FALSE]]
    ELSE engine
Without(h) == Restrict(sessions, DOMAIN sessions \ {h})

StopKey(h) == engine' = Halted(h) /\ sessions' = Without(h)

-----------------------------------------------------------------------------
(* An engine on its way to the metadata. *)

MetadataReady(e) ==
  /\ e \in DOMAIN engine
  /\ engine[e].running /\ ~engine[e].info
  /\ engine' = [engine EXCEPT ![e] = [@ EXCEPT !.info = TRUE]]
  /\ UNCHANGED <<waiting, sessions, phase, input, wants>>

InRange(idx) == idx \in Files \cup {Null}
PickFile(idx) == IF idx = Null THEN Largest ELSE idx

(* The promise resolves: play goes on with the engine if it waits for it.  *)
ResumedByAny(e) == IF phase = "connecting" THEN "streaming" ELSE phase
Resumed(e) == IF phase = "connecting" /\ input = e THEN "streaming" ELSE phase

FindsInfo(e) ==
  /\ e \in waiting
  /\ engine[e].info /\ InRange(engine[e].fileIdx)
  /\ waiting' = waiting \ {e}
  /\ engine' = [engine EXCEPT ![e] = [@ EXCEPT !.file = PickFile(engine[e].fileIdx)]]
  /\ phase' = Resumed(e)
  /\ UNCHANGED <<sessions, input, wants>>

(* The promise rejects: the registry stops the session of the key, whoever *)
(* that is by now, and play fails if it waits for this engine.             *)
FailsQuietly(e) == UNCHANGED <<phase, input, wants>>
FailsWithoutStop(e) ==
  /\ phase' = IF phase = "connecting" /\ input = e THEN "idle" ELSE phase
  /\ UNCHANGED <<input, wants>>
PlayFails(e) ==
  IF phase = "connecting" /\ input = e
    THEN phase' = "idle" /\ input' = 0 /\ wants' = Null
    ELSE UNCHANGED <<phase, input, wants>>

Rejects(e) ==
  /\ waiting' = waiting \ {e}
  /\ StopKey(engine[e].hash)
  /\ PlayFails(e)

FindsNoFile(e) ==
  /\ e \in waiting
  /\ engine[e].info /\ ~InRange(engine[e].fileIdx)
  /\ Rejects(e)

FindsItselfStopped(e) ==
  /\ e \in waiting
  /\ ~engine[e].info /\ ~engine[e].running
  /\ Rejects(e)

TimesOut(e) ==
  /\ e \in waiting
  /\ ~engine[e].info /\ engine[e].running
  /\ Rejects(e)

-----------------------------------------------------------------------------
(* The control server, and play and stop. *)

CoreCreates(h) ==
  /\ \E e \in Ids : GetOrCreate(h, Null, e)
  /\ UNCHANGED <<phase, input, wants>>

(* The session of a torrent that is ready lets play go on at once.         *)
Play(h, idx) ==
  /\ phase = "idle"
  /\ \E e \in Ids :
       /\ GetOrCreate(h, idx, e)
       /\ phase' = IF e \in waiting' THEN "connecting" ELSE "streaming"
       /\ input' = e
  /\ wants' = idx

(* B, the end of the video, a failure of the player or 180 s without data. *)
Stop ==
  /\ phase # "idle"
  /\ StopKey(engine[input].hash)
  /\ phase' = "idle" /\ input' = 0 /\ wants' = Null
  /\ UNCHANGED waiting

-----------------------------------------------------------------------------
Look(e) == FindsInfo(e) \/ FindsNoFile(e) \/ FindsItselfStopped(e) \/ TimesOut(e)

SessionsNext ==
  \/ \E e \in Ids : MetadataReady(e) \/ FindsInfo(e) \/ FindsNoFile(e) \/ FindsItselfStopped(e) \/ TimesOut(e)
  \/ \E h \in Hashes : CoreCreates(h)
  \/ \E h \in Hashes, idx \in Requests : Play(h, idx)
  \/ Stop

SessionsSpec == SessionsInit /\ [][SessionsNext]_sessionsVars

(* waitForInfo looks every 100 ms and gives up after 120 s. *)
SessionsFairness == \A e \in Ids : WF_sessionsVars(Look(e))

SessionsFairSpec == SessionsSpec /\ SessionsFairness

-----------------------------------------------------------------------------
(* Properties. *)

Engine == [hash : Hashes, fileIdx : Requests, running : BOOLEAN, info : BOOLEAN, file : Requests]

(* The type of every variable. *)
SessionsTypeOK ==
  /\ DOMAIN engine \subseteq Ids
  /\ engine \in [DOMAIN engine -> Engine]
  /\ waiting \subseteq DOMAIN engine
  /\ DOMAIN sessions \subseteq Hashes
  /\ sessions \in [DOMAIN sessions -> DOMAIN engine]
  /\ phase \in {"idle", "connecting", "streaming"}
  /\ input \in DOMAIN engine \cup {0}
  /\ (input = 0) <=> (phase = "idle")
  /\ wants \in Requests

(* No engine runs unknown to the registry, which could never be stopped,   *)
(* and no engine is found there that was stopped: #sessions holds the      *)
(* running engines, one for each torrent.                                  *)
RunningAreRegistered ==
  /\ \A e \in DOMAIN engine :
       engine[e].running => engine[e].hash \in DOMAIN sessions /\ sessions[engine[e].hash] = e
  /\ \A h \in DOMAIN sessions : engine[sessions[h]].running /\ engine[sessions[h]].hash = h

(* What the player streams has its file chosen, and what it still connects *)
(* to has not: play neither starts on an engine without a file nor misses  *)
(* the moment it is ready (main.ts:367).                                   *)
StreamsWhatIsReady ==
  /\ phase = "streaming" => engine[input].file \in Files
  /\ phase = "connecting" => input \in waiting

(* The registry, the engines and the player agree, whichever engine stops, *)
(* gets its metadata or is asked for again first (sessions.ts, main.ts).   *)
RegistryConsistent == SessionsTypeOK /\ RunningAreRegistered /\ StreamsWhatIsReady

(* Every play gets past the connecting stage, to the video or to an error. *)
ConnectingEnds == (phase = "connecting") ~> (phase # "connecting")

(* sessions.ts:40: getOrCreate returns "the running one".  An engine that  *)
(* was stopped before it had the metadata takes down the session that has  *)
(* followed it.                                                            *)
PlayedEngineRuns == phase # "idle" => engine[input].running
=============================================================================
