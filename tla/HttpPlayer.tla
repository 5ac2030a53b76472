----------------------------- MODULE HttpPlayer -----------------------------
(***************************************************************************)
(* Playback of an HTTP file: the lanes of src/src/app/player.ts, each of   *)
(* which fetches one range after the other through src/src/app/            *)
(* http-stream.ts and hands it to the media source around the decoder's    *)
(* cursor.                                                                 *)
(*                                                                         *)
(* The unit of data is the delivery block (HTTP_FEED_CHUNK): what arrives  *)
(* of an unfinished block is lost with its connection.  The awaits of a    *)
(* read are stages of its range; an abort takes effect at its next one.    *)
(***************************************************************************)
EXTENDS Integers, FiniteSets, Functions

CONSTANTS
  Length,       \* blocks of the file
  Chunk,        \* HTTP_CHUNK
  Late,         \* how far a delivery may trail the blocked decoder (1 MiB)
  Lanes,        \* HTTP_LANES
  MaxRetries,   \* retries of one read
  Ahead, Behind, Startup, Resume, Low,  \* the goals of bufferTargets
  Seeks         \* bound: the blocks the decoder may jump to

ASSUME PlayerAssumption ==
  /\ {Length, Chunk, Late, Lanes, Startup, Resume, Low} \subseteq Nat \ {0}
  /\ {MaxRetries, Behind, Ahead} \subseteq Nat
  /\ Resume <= Ahead - Chunk   \* bufferTargets
  /\ Seeks \subseteq 0..(Length - 1)

VARIABLES
  mode,         \* the player: "running", "stopped", "failed" or "refused" (#stopped)
  playback,     \* #started, #rebuffering: "starting", "playing", "rebuffering"
  cursor,       \* cursorNow: the block of the decoder's latest read
  blocked,      \* whether that read still waits (wanted >= 0)
  held,         \* the blocks in the media source
  ranges,       \* pending, with the state of its read, by first block
  starting,     \* lanes the running tick has still to start
  laneTarget, laneMax

laneVars == <<laneTarget, laneMax>>
decoderVars == <<cursor, blocked>>
vars == <<mode, playback, decoderVars, held, ranges, starting, laneVars>>

Blocks == 0..(Length - 1)
LeastOf(a, b) == IF a <= b THEN a ELSE b

Init ==
  /\ mode = "running"
  /\ playback = "starting"
  /\ cursor = 0
  /\ blocked = FALSE
  /\ held = {}
  /\ ranges = <<>>
  /\ starting = 0
  /\ laneTarget = 1
  /\ laneMax = Lanes

-----------------------------------------------------------------------------
(* The window around the cursor. *)

Window == (cursor - Behind)..(cursor + Ahead - 1)
Retained == held \cap (Window \cup 0..(Startup - 1))

(* source.buffered(cursor). *)
FilledFrom(blocks) ==
  (CHOOSE e \in cursor..Length : e \notin blocks /\ cursor..(e - 1) \subseteq blocks) - cursor

(* updatePlayback, which readyState, a pause of the user, a seek under way *)
(* and the end of the video may each keep from changing anything.          *)
NextPlayback(blocks) ==
  LET ahead == FilledFrom(blocks)
      remaining == Length - cursor
  IN  CASE playback = "starting" /\ ahead >= LeastOf(Startup, remaining) -> "playing"
        [] playback = "playing" /\ ahead < Low /\ ahead < remaining -> "rebuffering"
        [] playback = "rebuffering" /\ ahead >= LeastOf(Resume, remaining) -> "playing"
        [] OTHER -> playback

UpdatePlayback(blocks) == playback' \in {playback, NextPlayback(blocks)}

-----------------------------------------------------------------------------
(* Ranges. *)

Request(from) ==
  [to |-> LeastOf(Length, from + Chunk), next |-> from, attempt |-> 0, stage |-> "fetch", aborted |-> FALSE]

Without(f) == Restrict(ranges, DOMAIN ranges \ {f})
Covers(pending, b) == \E f \in DOMAIN pending : f <= b /\ b < pending[f].to

(* nextRange: the first block that is neither held nor on its way, unless  *)
(* it is too far ahead.                                                    *)
WantingLess(pending, blocks) ==
  {from \in cursor..(Length - 1) :
     /\ from \notin blocks /\ ~Covers(pending, from)
     /\ \A b \in cursor..(from - 1) : b \in blocks \/ Covers(pending, b)
     /\ from - cursor <= Ahead - 2 * Chunk}
Wanting(pending, blocks) ==
  {from \in cursor..(Length - 1) :
     /\ from \notin blocks /\ ~Covers(pending, from)
     /\ \A b \in cursor..(from - 1) : b \in blocks \/ Covers(pending, b)
     /\ from - cursor <= Ahead - Chunk}

KeepAll(pending) == pending
AbortAll(pending) == [f \in DOMAIN pending |-> [pending[f] EXCEPT !.aborted = TRUE]]
AbortSome(gone) == [f \in DOMAIN ranges |-> IF f \in gone THEN [ranges[f] EXCEPT !.aborted = TRUE] ELSE ranges[f]]

(* stop(): the source is closed and every read aborted. *)
Ends(how, pending) ==
  /\ mode' = how
  /\ held' = {}
  /\ ranges' = AbortAll(pending)
  /\ starting' = 0
  /\ UNCHANGED <<playback, decoderVars, laneVars>>

(* One turn of the loop of a lane, with the ranges of the other lanes: it  *)
(* takes the next range, is refused by read(), or finds nothing to do.     *)
Takes(pending, from) == [f \in DOMAIN pending \cup {from} |->
  IF f = from THEN Request(from) ELSE pending[f]]

LaneTurn(pending, left) ==
  LET wanting == Wanting(pending, held)
  IN  IF wanting # {} /\ Cardinality(DOMAIN pending) >= Lanes
        THEN Ends("refused", pending)
        ELSE /\ ranges' = IF wanting = {} THEN pending ELSE Takes(pending, CHOOSE from \in wanting : TRUE)
             /\ starting' = left
             /\ UpdatePlayback(held)
             /\ UNCHANGED <<mode, held, decoderVars, laneVars>>

-----------------------------------------------------------------------------
(* The feed tick. *)

StaleEarly(f) == ranges[f].to <= cursor + 1 \/ f >= cursor + Ahead
Stale(f) == ranges[f].to <= cursor \/ f >= cursor + Ahead
TrailsFar(f) == blocked /\ cursor < ranges[f].to /\ cursor - ranges[f].next >= Late
Dropped(f) == Stale(f) \/ TrailsFar(f)

(* After a shrink the ranges with the lowest offsets stay. *)
Surplus(f) ==
  /\ Cardinality(DOMAIN ranges) > laneTarget
  /\ Cardinality({g \in DOMAIN ranges : g < f}) >= laneTarget

AllLanes == laneTarget
MissingLanes == laneTarget - Cardinality(DOMAIN ranges)

Tick ==
  /\ mode = "running" /\ starting = 0
  /\ held' = Retained
  /\ UpdatePlayback(Retained)
  /\ ranges' = AbortSome({f \in DOMAIN ranges : Dropped(f) \/ Surplus(f)})
  /\ starting' = IF MissingLanes > 0 /\ Wanting(ranges, Retained) # {} THEN MissingLanes ELSE 0
  /\ UNCHANGED <<mode, decoderVars, laneVars>>

RunLane ==
  /\ starting > 0
  /\ LaneTurn(ranges, starting - 1)

(* Once a second, after an answer of 429 or a low rate of delivery.        *)
Shrinks == laneTarget' = 1 /\ laneMax' = 1
Grows == laneTarget < laneMax /\ laneTarget' = laneTarget + 1 /\ UNCHANGED laneMax

StatsTick ==
  /\ mode = "running" /\ starting = 0
  /\ Shrinks \/ Grows
  /\ UNCHANGED <<mode, playback, decoderVars, held, ranges, starting>>

-----------------------------------------------------------------------------
(* A read, from await to await. *)

At(f, stage) == starting = 0 /\ f \in DOMAIN ranges /\ ranges[f].stage = stage
Live(f, stage) == At(f, stage) /\ ~ranges[f].aborted
Enters(f, stage) == [ranges EXCEPT ![f] = [@ EXCEPT !.stage = stage]]
OthersStay == UNCHANGED <<mode, playback, decoderVars, held, starting, laneVars>>

(* Where a RetryableReadError leads: the read waits to try again (or to    *)
(* return, with nothing left to fetch), or fails.                          *)
TriesForEver(f) == "wait"
Tries(f) ==
  IF ranges[f].next < ranges[f].to /\ ranges[f].attempt >= MaxRetries THEN "error" ELSE "wait"

(* The response: a range, nothing of use, or nothing for the moment.       *)
Responds(f) ==
  /\ Live(f, "fetch")
  /\ ranges' \in {Enters(f, "body"), Enters(f, "error"), Enters(f, Tries(f))}
  /\ OthersStay

(* A block arrives and is provided, unless a seek has left it behind.      *)
Provided(b) == Retained \cup {b}
LeftBehind(f) == ranges[f].to <= cursor \/ ranges[f].next \notin Window

Delivers(f) ==
  LET b == ranges[f].next
  IN  /\ Live(f, "body") /\ b < ranges[f].to
      /\ IF LeftBehind(f)
           THEN ranges' = AbortSome({f}) /\ UNCHANGED <<held, playback>>
           ELSE /\ ranges' = [ranges EXCEPT ![f] = [@ EXCEPT !.next = b + 1]]
                /\ held' = Provided(b)
                /\ UpdatePlayback(Provided(b))
      /\ UNCHANGED <<mode, decoderVars, starting, laneVars>>

(* The connection ends, breaks, times out or sends more than it should.    *)
BodyEnds(f) ==
  /\ Live(f, "body")
  /\ \/ ranges[f].next = ranges[f].to /\ ranges' = Enters(f, "done")
     \/ ranges' \in {Enters(f, "error"), Enters(f, Tries(f))}
  /\ OthersStay

WaitEnds(f) ==
  /\ Live(f, "wait") /\ ranges[f].next < ranges[f].to
  /\ ranges' = [ranges EXCEPT ![f] = [@ EXCEPT !.attempt = ranges[f].attempt + 1, !.stage = "fetch"]]
  /\ OthersStay

(* The range is complete and its lane goes on, also when it was aborted    *)
(* while the end of the connection was awaited.                            *)
Completes(f) ==
  /\ At(f, "done") \/ (Live(f, "wait") /\ ranges[f].next = ranges[f].to)
  /\ IF mode = "running"
       THEN LaneTurn(Without(f), 0)
       ELSE ranges' = Without(f) /\ OthersStay

Fails(f) ==
  /\ Live(f, "error")
  /\ Ends("failed", Without(f))

(* An abort, of the tick, of stop or of a delivery, ends the lane.         *)
GivesUp(f) ==
  /\ \E stage \in {"fetch", "body", "wait", "error"} : At(f, stage)
  /\ ranges[f].aborted
  /\ ranges' = Without(f)
  /\ OthersStay

-----------------------------------------------------------------------------
(* The decoder thread and the user. *)

Reads(b) ==
  /\ mode = "running" /\ ~blocked
  /\ cursor' = b
  /\ blocked' = (b \notin held)
  /\ UNCHANGED <<mode, playback, held, ranges, starting, laneVars>>

Wakes ==
  /\ blocked /\ (cursor \in held \/ mode # "running")
  /\ blocked' = FALSE
  /\ UNCHANGED <<mode, playback, cursor, held, ranges, starting, laneVars>>

Stop ==
  /\ mode = "running" /\ starting = 0
  /\ Ends("stopped", ranges)

-----------------------------------------------------------------------------
Await(f) ==
  \/ Responds(f) \/ Delivers(f) \/ BodyEnds(f) \/ WaitEnds(f)
  \/ Completes(f) \/ Fails(f) \/ GivesUp(f)

Next ==
  \/ Tick \/ RunLane \/ StatsTick
  \/ \E f \in Blocks : Await(f)
  \/ \E b \in Seeks \cup {LeastOf(cursor + 1, Length - 1)} : Reads(b)
  \/ Wakes
  \/ Stop

Spec == Init /\ [][Next]_vars

(* The tick runs, and some of its ticks find the video neither paused by   *)
(* the user nor seeking.  No await of a read is for ever: the connection   *)
(* has timeouts, the pause between two tries a timer.  The server may fail *)
(* every request, and one lane may be slower than all others.              *)
Fairness ==
  /\ WF_vars(Tick /\ playback' = NextPlayback(Retained))
  /\ WF_vars(RunLane \/ \E f \in Blocks : Await(f))

FairSpec == Spec /\ Fairness

-----------------------------------------------------------------------------
(* Properties. *)

PendingRange ==
  [to : 1..Length, next : 0..Length, attempt : 0..MaxRetries, aborted : BOOLEAN,
   stage : {"fetch", "body", "wait", "done", "error"}]

(* The type of every variable. *)
TypeOK ==
  /\ mode \in {"running", "stopped", "failed", "refused"}
  /\ playback \in {"starting", "playing", "rebuffering"}
  /\ cursor \in Blocks /\ blocked \in BOOLEAN
  /\ held \subseteq Blocks
  /\ DOMAIN ranges \subseteq Blocks
  /\ ranges \in [DOMAIN ranges -> PendingRange]
  /\ starting \in 0..Lanes
  /\ laneTarget \in 1..laneMax /\ laneMax \in 1..Lanes

(* The lanes never ask for more reads than read() lets run at once, which  *)
(* would fail the player: a lane counts until its aborted read has ended,  *)
(* through seeks, throttling and shrinking (player.ts:291).                *)
NeverRefused == mode # "refused"

(* Once the player has stopped no read sends another request or delivers   *)
(* another block, not even one that waited to try again.                   *)
QuietAfterStop ==
  [][mode # "running" =>
       \A f \in DOMAIN ranges' :
         /\ f \in DOMAIN ranges
         /\ ranges'[f].next = ranges[f].next
         /\ ranges'[f].stage = "fetch" => ranges[f].stage = "fetch"]_vars

(* The lanes neither ask for a read too many nor outlive the player,       *)
(* through seeks, retries, throttling and shrinking (player.ts:291).       *)
LanesConsistent == [](TypeOK /\ NeverRefused) /\ QuietAfterStop

(* A decoder that waits for a block gets it, or the player reports a       *)
(* failure: no seek, abort, late answer or shrink leaves the block to a    *)
(* lane that does not bring it.                                            *)
Starved == mode = "running" /\ blocked /\ cursor \notin held
BlockedIsServed == Starved ~> ~Starved

(* Playback that stopped to rebuffer resumes once the decoder stays put:   *)
(* the lanes fetch far enough ahead for the resume goal.                   *)
RebufferingEnds ==
  (<>[][UNCHANGED cursor]_vars) => []<>(playback # "rebuffering" \/ mode # "running")
=============================================================================
