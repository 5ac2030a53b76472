-------------------------- MODULE HttpPlayerProofs --------------------------
(***************************************************************************)
(* Proofs about HttpPlayer, for every file, every goal and every number of *)
(* lanes and retries.                                                      *)
(***************************************************************************)
EXTENDS HttpPlayer, FiniteSetTheorems, SequenceTheorems, TLAPS

-----------------------------------------------------------------------------
(* What the type of the ranges rests on: a read waits to try again only    *)
(* while it has a retry left.                                              *)
RangesOK(pending) ==
  /\ DOMAIN pending \subseteq Blocks
  /\ pending \in [DOMAIN pending -> PendingRange]
  /\ \A f \in DOMAIN pending :
       pending[f].stage = "wait" /\ pending[f].next < pending[f].to => pending[f].attempt < MaxRetries

(* What keeps read() from refusing a lane: the lanes still to be started   *)
(* have room next to those that run.                                       *)
LanesBounded == Cardinality(DOMAIN ranges) + starting <= Lanes

(* What keeps a stopped player quiet: stop aborts every read there is, and *)
(* no lane starts another one.                                             *)
Silenced ==
  mode # "running" => starting = 0 /\ \A f \in DOMAIN ranges : ranges[f].aborted

(* The inductive invariant. *)
IInv == TypeOK /\ RangesOK(ranges) /\ LanesBounded /\ Silenced /\ NeverRefused

(* The limits are natural numbers. *)
LEMMA Limits ==
  /\ Length \in Nat /\ Length > 0 /\ Chunk \in Nat /\ Chunk > 0 /\ Lanes \in Nat /\ Lanes > 0
  /\ MaxRetries \in Nat
BY PlayerAssumption

(* The blocks of a file, and so the ranges that start at them, are         *)
(* finitely many.                                                          *)
LEMMA FewRanges ==
  ASSUME NEW S, S \subseteq Blocks
  PROVE  IsFiniteSet(S) /\ Cardinality(S) \in Nat
<1>1. IsFiniteSet(Blocks)
  BY Limits, FS_Interval DEF Blocks
<1>2. IsFiniteSet(S)
  BY <1>1, FS_Subset
<1>3. QED BY <1>2, FS_CardinalityType

(* The fields of a range.                                                  *)
LEMMA RangeFields ==
  ASSUME NEW r \in PendingRange
  PROVE  /\ r.to \in 1..Length /\ r.next \in 0..Length /\ r.attempt \in 0..MaxRetries
         /\ r.aborted \in BOOLEAN /\ r.stage \in {"fetch", "body", "wait", "done", "error"}
BY DEF PendingRange

(* A range that goes on to another stage, tries again, moves on by a block *)
(* or is aborted is still a range.                                         *)
LEMMA RangeUpdates ==
  ASSUME NEW r \in PendingRange
  PROVE  /\ \A s \in {"fetch", "body", "wait", "done", "error"} : [r EXCEPT !.stage = s] \in PendingRange
         /\ \A n \in 0..Length : [r EXCEPT !.next = n] \in PendingRange
         /\ \A n \in 0..MaxRetries : [r EXCEPT !.attempt = n, !.stage = "fetch"] \in PendingRange
         /\ [r EXCEPT !.aborted = TRUE] \in PendingRange
BY DEF PendingRange

(* The range nextRange makes at a block of the file.                       *)
LEMMA RequestIsRange ==
  ASSUME NEW from \in Blocks
  PROVE  Request(from) \in PendingRange /\ Request(from).stage = "fetch"
<1>1. LeastOf(Length, from + Chunk) \in 1..Length
  BY Limits DEF LeastOf, Blocks
<1>2. from \in 0..Length /\ 0 \in 0..MaxRetries
  BY Limits DEF Blocks
<1>3. QED BY <1>1, <1>2 DEF Request, PendingRange

(* A range is wanted at a block of the file, one that is not on its way.   *)
LEMMA WantedBlock ==
  ASSUME cursor \in Blocks, NEW pending, NEW blocks, NEW from \in Wanting(pending, blocks)
  PROVE  from \in Blocks
BY Limits DEF Wanting, Blocks

(* Aborting ranges, all or some, leaves them what they are.                *)
LEMMA AbortAllKeeps ==
  ASSUME NEW pending, RangesOK(pending)
  PROVE  /\ RangesOK(AbortAll(pending)) /\ DOMAIN AbortAll(pending) = DOMAIN pending
         /\ \A f \in DOMAIN pending : AbortAll(pending)[f].aborted
<1> DEFINE q == AbortAll(pending)
<1>1. DOMAIN q = DOMAIN pending
  BY DEF AbortAll
<1>2. \A f \in DOMAIN pending : q[f] = [pending[f] EXCEPT !.aborted = TRUE] /\ pending[f] \in PendingRange
  BY DEF AbortAll, RangesOK
<1>3. \A f \in DOMAIN pending : q[f] \in PendingRange
  BY <1>2, RangeUpdates
<1>4. \A f \in DOMAIN pending :
        /\ q[f].stage = pending[f].stage /\ q[f].next = pending[f].next
        /\ q[f].to = pending[f].to /\ q[f].attempt = pending[f].attempt /\ q[f].aborted
  BY <1>2 DEF PendingRange
<1>5. q \in [DOMAIN q -> PendingRange]
  BY <1>1, <1>3 DEF AbortAll
<1>6. QED BY <1>1, <1>4, <1>5 DEF RangesOK

(* Likewise for the reads that the tick or a delivery aborts.              *)
LEMMA AbortSomeKeeps ==
  ASSUME RangesOK(ranges), NEW gone
  PROVE  RangesOK(AbortSome(gone)) /\ DOMAIN AbortSome(gone) = DOMAIN ranges
<1> DEFINE q == AbortSome(gone)
<1>1. DOMAIN q = DOMAIN ranges
  BY DEF AbortSome
<1>2. \A f \in DOMAIN ranges : /\ ranges[f] \in PendingRange
                               /\ q[f] = ranges[f] \/ q[f] = [ranges[f] EXCEPT !.aborted = TRUE]
  BY DEF AbortSome, RangesOK
<1>3. \A f \in DOMAIN ranges : q[f] \in PendingRange
  BY <1>2, RangeUpdates
<1>4. \A f \in DOMAIN ranges :
        /\ q[f].stage = ranges[f].stage /\ q[f].next = ranges[f].next
        /\ q[f].to = ranges[f].to /\ q[f].attempt = ranges[f].attempt
  BY <1>2 DEF PendingRange
<1>5. q \in [DOMAIN q -> PendingRange]
  BY <1>1, <1>3 DEF AbortSome
<1>6. QED BY <1>1, <1>4, <1>5 DEF RangesOK

(* A lane that ends leaves the ranges of the others, one fewer.            *)
LEMMA WithoutKeeps ==
  ASSUME RangesOK(ranges), NEW f \in DOMAIN ranges
  PROVE  /\ RangesOK(Without(f)) /\ DOMAIN Without(f) = DOMAIN ranges \ {f}
         /\ \A g \in DOMAIN Without(f) : Without(f)[g] = ranges[g]
         /\ Cardinality(DOMAIN Without(f)) = Cardinality(DOMAIN ranges) - 1
<1> DEFINE q == Without(f)
<1>1. DOMAIN q = DOMAIN ranges \ {f} /\ \A g \in DOMAIN q : q[g] = ranges[g]
  BY DEF Without, Restrict
<1>2. q \in [DOMAIN q -> PendingRange]
  BY <1>1 DEF Without, Restrict, RangesOK
<1>3. Cardinality(DOMAIN ranges \ {f}) = Cardinality(DOMAIN ranges) - 1
  BY FewRanges, FS_RemoveElement DEF RangesOK
<1> HIDE DEF q
<1>4. RangesOK(q)
  BY <1>1, <1>2 DEF RangesOK
<1>5. QED BY <1>1, <1>3, <1>4 DEF q

(* A range replaced by a further state of its own read.                    *)
LEMMA GoesOn ==
  ASSUME RangesOK(ranges), NEW f \in DOMAIN ranges, NEW r \in PendingRange,
         r.stage = "wait" /\ r.next < r.to => r.attempt < MaxRetries
  PROVE  RangesOK([ranges EXCEPT ![f] = r]) /\ DOMAIN [ranges EXCEPT ![f] = r] = DOMAIN ranges
<1> DEFINE q == [ranges EXCEPT ![f] = r]
<1>1. DOMAIN q = DOMAIN ranges
  OBVIOUS
<1>2. q[f] = r /\ \A g \in DOMAIN ranges \ {f} : q[g] = ranges[g]
  BY DEF RangesOK
<1>3. q \in [DOMAIN q -> PendingRange]
  BY <1>1, <1>2 DEF RangesOK
<1> HIDE DEF q
<1>4. RangesOK(q)
  BY <1>1, <1>2, <1>3 DEF RangesOK
<1>5. QED BY <1>1, <1>4 DEF q

(* A range that enters another stage.                                      *)
LEMMA EntersKeeps ==
  ASSUME RangesOK(ranges), NEW f \in DOMAIN ranges,
         NEW s \in {"fetch", "body", "wait", "done", "error"},
         s = "wait" /\ ranges[f].next < ranges[f].to => ranges[f].attempt < MaxRetries
  PROVE  RangesOK(Enters(f, s)) /\ DOMAIN Enters(f, s) = DOMAIN ranges
<1> DEFINE r == [ranges[f] EXCEPT !.stage = s]
<1>1. ranges[f] \in PendingRange
  BY DEF RangesOK
<1>2. r \in PendingRange
  BY <1>1, RangeUpdates
<1>3. /\ r.stage = s /\ r.next = ranges[f].next /\ r.to = ranges[f].to
      /\ r.attempt = ranges[f].attempt
  BY <1>1 DEF PendingRange
<1>4. Enters(f, s) = [ranges EXCEPT ![f] = r]
  BY DEF Enters
<1> HIDE DEF r
<1>5. QED BY <1>2, <1>3, <1>4, GoesOn

(* A failure that may be retried leads on only while a retry is left.      *)
LEMMA TriesKeeps ==
  ASSUME RangesOK(ranges), NEW f \in DOMAIN ranges
  PROVE  /\ Tries(f) \in {"wait", "error"}
         /\ RangesOK(Enters(f, Tries(f))) /\ DOMAIN Enters(f, Tries(f)) = DOMAIN ranges
<1>1. ranges[f] \in PendingRange
  BY DEF RangesOK
<1>2. Tries(f) \in {"wait", "error"}
  BY DEF Tries
<1>3. Tries(f) = "wait" /\ ranges[f].next < ranges[f].to => ranges[f].attempt < MaxRetries
  BY <1>1, Limits, RangeFields DEF Tries
<1>4. QED BY <1>2, <1>3, EntersKeeps

(* updatePlayback only moves between the states of playback.               *)
LEMMA PlaybackMoves ==
  ASSUME TypeOK, NEW blocks, UpdatePlayback(blocks)
  PROVE  playback' \in {"starting", "playing", "rebuffering"}
BY DEF TypeOK, UpdatePlayback, NextPlayback

(* stop() leaves a quiet player behind.                                    *)
LEMMA EndsKeeps ==
  ASSUME TypeOK, NEW pending, RangesOK(pending), Cardinality(DOMAIN pending) <= Lanes,
         NEW how \in {"stopped", "failed"}, Ends(how, pending)
  PROVE  IInv'
<1>1. /\ mode' = how /\ held' = {} /\ ranges' = AbortAll(pending) /\ starting' = 0
      /\ UNCHANGED <<playback, cursor, blocked, laneTarget, laneMax>>
  BY DEF Ends, decoderVars, laneVars
<1>2. /\ RangesOK(AbortAll(pending)) /\ DOMAIN AbortAll(pending) = DOMAIN pending
      /\ \A f \in DOMAIN pending : AbortAll(pending)[f].aborted
  BY AbortAllKeeps
<1>3. RangesOK(ranges') /\ DOMAIN ranges' = DOMAIN pending /\ \A f \in DOMAIN ranges' : ranges'[f].aborted
  BY <1>1, <1>2
<1>4. RangesOK(ranges)'
  BY <1>3 DEF RangesOK
<1>5. TypeOK'
  BY <1>1, <1>3, Limits DEF TypeOK, RangesOK
<1>6. LanesBounded'
  <2>1. Cardinality(DOMAIN ranges') \in Nat
    BY <1>3, FewRanges DEF RangesOK
  <2>2. QED BY <1>1, <1>3, <2>1 DEF LanesBounded
<1>7. Silenced' /\ NeverRefused'
  BY <1>1, <1>3 DEF Silenced, NeverRefused
<1>8. QED BY <1>4, <1>5, <1>6, <1>7 DEF IInv

(* A lane that has room is not refused: it takes at most one range.        *)
LEMMA LaneTurnKeeps ==
  ASSUME TypeOK, mode = "running", NEW pending, RangesOK(pending), NEW left \in Nat,
         Cardinality(DOMAIN pending) + left < Lanes, LaneTurn(pending, left)
  PROVE  IInv'
<1>0. Cardinality(DOMAIN pending) \in Nat /\ IsFiniteSet(DOMAIN pending) /\ Lanes \in Nat
  BY FewRanges, Limits DEF RangesOK
<1> DEFINE w == Wanting(pending, held)
<1> DEFINE next == IF w = {} THEN pending ELSE Takes(pending, CHOOSE from \in w : TRUE)
<1>1. /\ ranges' = next /\ starting' = left /\ UpdatePlayback(held)
      /\ UNCHANGED <<mode, held, cursor, blocked, laneTarget, laneMax>>
  BY <1>0 DEF LaneTurn, decoderVars, laneVars
<1>2. /\ RangesOK(next) /\ Cardinality(DOMAIN next) + left <= Lanes
  <2>1. CASE w = {}
    BY <1>0, <2>1
  <2>2. CASE w # {}
    <3> DEFINE from == CHOOSE b \in w : TRUE
    <3>1. from \in w
      BY <2>2
    <3>2. from \in Blocks
      BY <3>1, WantedBlock DEF TypeOK
    <3>3. next = Takes(pending, from)
      BY <2>2
    <3> HIDE DEF from, next, w
    <3>4. Request(from) \in PendingRange /\ Request(from).stage = "fetch"
      BY <3>2, RequestIsRange
    <3>5. DOMAIN next = DOMAIN pending \cup {from}
      BY <3>3 DEF Takes
    <3>6. \A f \in DOMAIN next : next[f] = IF f = from THEN Request(from) ELSE pending[f]
      BY <3>3, <3>5 DEF Takes
    <3>7. RangesOK(next)
      <4>1. \A f \in DOMAIN next : next[f] \in PendingRange
        BY <3>4, <3>5, <3>6 DEF RangesOK
      <4>2. next \in [DOMAIN next -> PendingRange]
        BY <3>3, <3>5, <4>1 DEF Takes
      <4>3. QED BY <3>2, <3>4, <3>5, <3>6, <4>2 DEF RangesOK
    <3>8. Cardinality(DOMAIN next) <= Cardinality(DOMAIN pending) + 1
      <4>1. Cardinality(DOMAIN pending \cup {from}) =
              IF from \in DOMAIN pending THEN Cardinality(DOMAIN pending) ELSE Cardinality(DOMAIN pending) + 1
        BY <1>0, FS_AddElement
      <4>2. QED BY <1>0, <3>5, <4>1
    <3>9. Cardinality(DOMAIN next) \in Nat
      BY <3>7, FewRanges DEF RangesOK
    <3>10. QED BY <1>0, <3>7, <3>8, <3>9
  <2>3. QED BY <2>1, <2>2
<1> HIDE DEF next, w
<1>3. RangesOK(ranges)'
  BY <1>1, <1>2 DEF RangesOK
<1>4. LanesBounded'
  BY <1>1, <1>2 DEF LanesBounded
<1>5. TypeOK'
  <2>1. starting' \in 0..Lanes
    <3>1. Cardinality(DOMAIN ranges') \in Nat
      BY <1>1, <1>2, FewRanges DEF RangesOK
    <3>2. QED BY <1>0, <1>1, <1>2, <3>1
  <2>2. DOMAIN ranges' \subseteq Blocks /\ ranges' \in [DOMAIN ranges' -> PendingRange]
    BY <1>1, <1>2 DEF RangesOK
  <2>3. playback' \in {"starting", "playing", "rebuffering"}
    BY <1>1, PlaybackMoves
  <2>4. QED BY <1>1, <2>1, <2>2, <2>3 DEF TypeOK
<1>6. Silenced' /\ NeverRefused'
  BY <1>1 DEF Silenced, NeverRefused
<1>7. QED BY <1>3, <1>4, <1>5, <1>6 DEF IInv

(* A step of a read that leaves the rest of the player alone.              *)
LEMMA OthersStayKeeps ==
  ASSUME IInv, OthersStay, RangesOK(ranges)', starting = 0,
         Cardinality(DOMAIN ranges') <= Lanes,
         mode # "running" => \A f \in DOMAIN ranges' : ranges'[f].aborted
  PROVE  IInv'
<1>1. UNCHANGED <<mode, playback, cursor, blocked, held, starting, laneTarget, laneMax>>
  BY DEF OthersStay, decoderVars, laneVars
<1>2. TypeOK'
  BY <1>1 DEF IInv, TypeOK, RangesOK
<1>3. LanesBounded'
  <2>1. Cardinality(DOMAIN ranges') \in Nat
    BY FewRanges DEF RangesOK
  <2>2. QED BY <1>1, <2>1, Limits DEF LanesBounded
<1>4. Silenced' /\ NeverRefused'
  BY <1>1 DEF IInv, Silenced, NeverRefused
<1>5. QED BY <1>2, <1>3, <1>4 DEF IInv

(* A read that is under way and not aborted belongs to a running player.   *)
LEMMA LiveRuns ==
  ASSUME IInv, NEW f, NEW stage, Live(f, stage)
  PROVE  /\ mode = "running" /\ starting = 0 /\ f \in DOMAIN ranges
         /\ ranges[f] \in PendingRange /\ ranges[f].stage = stage
         /\ Cardinality(DOMAIN ranges) \in Nat /\ Cardinality(DOMAIN ranges) <= Lanes
<1>1. starting = 0 /\ f \in DOMAIN ranges /\ ranges[f].stage = stage /\ ~ranges[f].aborted
  BY DEF Live, At
<1>2. mode = "running"
  BY <1>1 DEF IInv, Silenced
<1>3. ranges[f] \in PendingRange /\ Cardinality(DOMAIN ranges) \in Nat
  BY <1>1, FewRanges DEF IInv, RangesOK
<1>4. Cardinality(DOMAIN ranges) <= Lanes
  BY <1>1, <1>3, Limits DEF IInv, LanesBounded
<1>5. QED BY <1>1, <1>2, <1>3, <1>4

(* The initial state.                                                      *)
LEMMA InitIInv == Init => IInv
<1>1. SUFFICES ASSUME Init PROVE IInv
  OBVIOUS
<1>2. DOMAIN ranges = {} /\ ranges \in [DOMAIN ranges -> PendingRange]
  <2>1. ranges \in Seq(PendingRange) /\ Len(ranges) = 0
    BY <1>1, EmptySeq DEF Init
  <2>2. DOMAIN ranges = 1..0 /\ ranges \in [1..0 -> PendingRange]
    BY <2>1
  <2>3. QED BY <2>2
<1>3. TypeOK
  <2>1. 0 \in Blocks /\ 1 \in 1..Lanes /\ Lanes \in 1..Lanes /\ 0 \in 0..Lanes
    BY Limits DEF Blocks
  <2>2. QED BY <1>1, <1>2, <2>1 DEF Init, TypeOK
<1>4. RangesOK(ranges)
  BY <1>2 DEF RangesOK
<1>5. LanesBounded
  <2>1. Cardinality(DOMAIN ranges) = 0
    BY <1>2, FS_EmptySet
  <2>2. QED BY <1>1, <2>1, Limits DEF Init, LanesBounded
<1>6. QED BY <1>1, <1>3, <1>4, <1>5 DEF Init, IInv, Silenced, NeverRefused

(* The tick starts as many lanes as are missing, and no more.              *)
LEMMA TickKeeps == ASSUME IInv, Tick PROVE IInv'
<1> DEFINE gone == {f \in DOMAIN ranges : Dropped(f) \/ Surplus(f)}
<1>1. /\ mode = "running" /\ starting = 0 /\ held' = Retained /\ UpdatePlayback(Retained)
      /\ ranges' = AbortSome(gone)
      /\ starting' = (IF MissingLanes > 0 /\ Wanting(ranges, Retained) # {} THEN MissingLanes ELSE 0)
      /\ UNCHANGED <<mode, cursor, blocked, laneTarget, laneMax>>
  BY DEF Tick, decoderVars, laneVars
<1> HIDE DEF gone
<1>2. RangesOK(AbortSome(gone)) /\ DOMAIN AbortSome(gone) = DOMAIN ranges
  BY AbortSomeKeeps DEF IInv
<1>3. RangesOK(ranges)' /\ DOMAIN ranges' = DOMAIN ranges
  BY <1>1, <1>2 DEF RangesOK
<1>4. Cardinality(DOMAIN ranges) \in Nat
  BY FewRanges DEF IInv, RangesOK
<1>5. /\ starting' \in 0..Lanes /\ Cardinality(DOMAIN ranges) + starting' <= Lanes
  <2>1. laneTarget \in Nat /\ laneTarget <= Lanes
    BY Limits DEF IInv, TypeOK
  <2>2. MissingLanes = laneTarget - Cardinality(DOMAIN ranges)
    BY DEF MissingLanes
  <2>3. Cardinality(DOMAIN ranges) <= Lanes
    BY <1>1, <1>4, Limits DEF IInv, LanesBounded
  <2>4. (starting' = MissingLanes /\ MissingLanes > 0) \/ starting' = 0
    BY <1>1
  <2>5. QED BY <1>4, <2>1, <2>2, <2>3, <2>4, Limits
<1>6. TypeOK'
  <2>1. held' \subseteq Blocks
    BY <1>1 DEF IInv, TypeOK, Retained
  <2>2. playback' \in {"starting", "playing", "rebuffering"}
    BY <1>1, PlaybackMoves DEF IInv
  <2>3. QED BY <1>1, <1>3, <1>5, <2>1, <2>2 DEF IInv, TypeOK, RangesOK
<1>7. LanesBounded' /\ Silenced' /\ NeverRefused'
  BY <1>1, <1>3, <1>5 DEF LanesBounded, Silenced, NeverRefused
<1>8. QED BY <1>3, <1>6, <1>7 DEF IInv

(* Each lane the tick starts has room.                                      *)
LEMMA RunLaneKeeps == ASSUME IInv, RunLane PROVE IInv'
<1>1. starting > 0 /\ LaneTurn(ranges, starting - 1)
  BY DEF RunLane
<1>2. starting \in Nat /\ Cardinality(DOMAIN ranges) \in Nat /\ Cardinality(DOMAIN ranges) + starting <= Lanes
  BY Limits, FewRanges DEF IInv, TypeOK, RangesOK, LanesBounded
<1>3. mode = "running"
  BY <1>1 DEF IInv, Silenced
<1>4. starting - 1 \in Nat /\ Cardinality(DOMAIN ranges) + (starting - 1) < Lanes
  BY <1>1, <1>2, Limits
<1>5. QED BY <1>1, <1>3, <1>4, LaneTurnKeeps DEF IInv

(* Growing and shrinking keep the lanes wanted within HTTP_LANES.          *)
LEMMA StatsTickKeeps == ASSUME IInv, StatsTick PROVE IInv'
<1>1. /\ mode = "running" /\ (Shrinks \/ Grows)
      /\ UNCHANGED <<mode, playback, cursor, blocked, held, ranges, starting>>
  BY DEF StatsTick, decoderVars
<1>2. laneTarget' \in 1..laneMax' /\ laneMax' \in 1..Lanes
  BY <1>1, Limits DEF Shrinks, Grows, IInv, TypeOK
<1>3. TypeOK'
  BY <1>1, <1>2 DEF IInv, TypeOK
<1>4. QED BY <1>1, <1>3 DEF IInv, RangesOK, LanesBounded, Silenced, NeverRefused

(* The decoder moves only its cursor.                                      *)
LEMMA DecoderKeeps ==
  ASSUME IInv, \/ \E b \in Seeks \cup {LeastOf(cursor + 1, Length - 1)} : Reads(b)
               \/ Wakes
  PROVE  IInv'
<1>1. /\ cursor' \in Blocks /\ blocked' \in BOOLEAN
      /\ UNCHANGED <<mode, playback, held, ranges, starting, laneTarget, laneMax>>
  <2>1. ASSUME NEW b \in Seeks \cup {LeastOf(cursor + 1, Length - 1)}, Reads(b)
        PROVE  <1>1
    <3>1. b \in Blocks
      BY Limits, PlayerAssumption DEF LeastOf, Blocks, IInv, TypeOK
    <3>2. QED BY <2>1, <3>1 DEF Reads, laneVars
  <2>2. ASSUME Wakes PROVE <1>1
    BY <2>2 DEF Wakes, laneVars, IInv, TypeOK
  <2>3. QED BY <2>1, <2>2
<1>2. TypeOK'
  BY <1>1 DEF IInv, TypeOK
<1>3. QED BY <1>1, <1>2 DEF IInv, RangesOK, LanesBounded, Silenced, NeverRefused

(* A stop by the user.                                                     *)
LEMMA StopKeeps == ASSUME IInv, Stop PROVE IInv'
<1>1. starting = 0 /\ Ends("stopped", ranges)
  BY DEF Stop
<1>2. Cardinality(DOMAIN ranges) \in Nat
  BY FewRanges DEF IInv, RangesOK
<1>3. Cardinality(DOMAIN ranges) <= Lanes
  BY <1>1, <1>2, Limits DEF IInv, LanesBounded
<1>4. QED BY <1>1, <1>3, EndsKeeps DEF IInv

-----------------------------------------------------------------------------
(* The awaits of a read. *)

(* A response leads to its body, to a failure or to another try.           *)
LEMMA RespondsKeeps == ASSUME IInv, NEW f, Responds(f) PROVE IInv'
<1>1. /\ Live(f, "fetch") /\ OthersStay
      /\ ranges' \in {Enters(f, "body"), Enters(f, "error"), Enters(f, Tries(f))}
  BY DEF Responds
<1>2. /\ mode = "running" /\ starting = 0 /\ f \in DOMAIN ranges
      /\ Cardinality(DOMAIN ranges) <= Lanes /\ RangesOK(ranges)
  BY <1>1, LiveRuns DEF IInv
<1>3. /\ RangesOK(Enters(f, "body")) /\ DOMAIN Enters(f, "body") = DOMAIN ranges
      /\ RangesOK(Enters(f, "error")) /\ DOMAIN Enters(f, "error") = DOMAIN ranges
  BY <1>2, EntersKeeps
<1>4. RangesOK(Enters(f, Tries(f))) /\ DOMAIN Enters(f, Tries(f)) = DOMAIN ranges
  BY <1>2, TriesKeeps
<1>5. RangesOK(ranges') /\ DOMAIN ranges' = DOMAIN ranges
  BY <1>1, <1>3, <1>4
<1>6. RangesOK(ranges)'
  BY <1>5 DEF RangesOK
<1>7. QED BY <1>1, <1>2, <1>5, <1>6, OthersStayKeeps

(* The end of a body leads to the end of the read, to a failure or to      *)
(* another try.                                                            *)
LEMMA BodyEndsKeeps == ASSUME IInv, NEW f, BodyEnds(f) PROVE IInv'
<1>1. /\ Live(f, "body") /\ OthersStay
      /\ ranges' \in {Enters(f, "done"), Enters(f, "error"), Enters(f, Tries(f))}
  BY DEF BodyEnds
<1>2. /\ mode = "running" /\ starting = 0 /\ f \in DOMAIN ranges
      /\ Cardinality(DOMAIN ranges) <= Lanes /\ RangesOK(ranges)
  BY <1>1, LiveRuns DEF IInv
<1>3. /\ RangesOK(Enters(f, "done")) /\ DOMAIN Enters(f, "done") = DOMAIN ranges
      /\ RangesOK(Enters(f, "error")) /\ DOMAIN Enters(f, "error") = DOMAIN ranges
  BY <1>2, EntersKeeps
<1>4. RangesOK(Enters(f, Tries(f))) /\ DOMAIN Enters(f, Tries(f)) = DOMAIN ranges
  BY <1>2, TriesKeeps
<1>5. RangesOK(ranges') /\ DOMAIN ranges' = DOMAIN ranges
  BY <1>1, <1>3, <1>4
<1>6. RangesOK(ranges)'
  BY <1>5 DEF RangesOK
<1>7. QED BY <1>1, <1>2, <1>5, <1>6, OthersStayKeeps

(* A read that waited has a retry left, and takes it.                      *)
LEMMA WaitEndsKeeps == ASSUME IInv, NEW f, WaitEnds(f) PROVE IInv'
<1> DEFINE r == [ranges[f] EXCEPT !.attempt = ranges[f].attempt + 1, !.stage = "fetch"]
<1>1. /\ Live(f, "wait") /\ OthersStay /\ ranges[f].next < ranges[f].to
      /\ ranges' = [ranges EXCEPT ![f] = r]
  BY DEF WaitEnds
<1>2. /\ mode = "running" /\ starting = 0 /\ f \in DOMAIN ranges
      /\ Cardinality(DOMAIN ranges) <= Lanes /\ RangesOK(ranges)
      /\ ranges[f] \in PendingRange /\ ranges[f].stage = "wait"
  BY <1>1, LiveRuns DEF IInv
<1>3. ranges[f].attempt + 1 \in 0..MaxRetries
  BY <1>1, <1>2, Limits, RangeFields DEF RangesOK
<1>4. r \in PendingRange /\ r.stage = "fetch"
  <2>1. r \in PendingRange
    BY <1>2, <1>3, RangeUpdates
  <2>2. QED BY <1>2, <2>1 DEF PendingRange
<1> HIDE DEF r
<1>5. RangesOK([ranges EXCEPT ![f] = r]) /\ DOMAIN [ranges EXCEPT ![f] = r] = DOMAIN ranges
  BY <1>2, <1>4, GoesOn
<1>6. RangesOK(ranges') /\ DOMAIN ranges' = DOMAIN ranges
  BY <1>1, <1>5
<1>7. RangesOK(ranges)'
  BY <1>6 DEF RangesOK
<1>8. QED BY <1>1, <1>2, <1>6, <1>7, OthersStayKeeps

(* A block that is delivered lies in its range, or aborts it.              *)
LEMMA DeliversKeeps == ASSUME IInv, NEW f, Delivers(f) PROVE IInv'
<1> DEFINE b == ranges[f].next
<1> DEFINE r == [ranges[f] EXCEPT !.next = b + 1]
<1>1. /\ Live(f, "body") /\ b < ranges[f].to
      /\ \/ ranges' = AbortSome({f}) /\ UNCHANGED <<held, playback>>
         \/ /\ ranges' = [ranges EXCEPT ![f] = r]
            /\ held' = Provided(b) /\ UpdatePlayback(Provided(b))
      /\ UNCHANGED <<mode, cursor, blocked, starting, laneTarget, laneMax>>
  BY DEF Delivers, decoderVars, laneVars
<1>2. /\ mode = "running" /\ starting = 0 /\ f \in DOMAIN ranges
      /\ Cardinality(DOMAIN ranges) <= Lanes /\ RangesOK(ranges)
      /\ ranges[f] \in PendingRange /\ ranges[f].stage = "body"
      /\ Cardinality(DOMAIN ranges) \in Nat
  BY <1>1, LiveRuns DEF IInv
<1>3. b \in Blocks /\ b + 1 \in 0..Length
  BY <1>1, <1>2, Limits, RangeFields DEF Blocks
<1>4. r \in PendingRange /\ r.stage = "body"
  <2>1. r \in PendingRange
    BY <1>2, <1>3, RangeUpdates
  <2>2. QED BY <1>2, <2>1 DEF PendingRange
<1>5. held' \subseteq Blocks /\ playback' \in {"starting", "playing", "rebuffering"}
  <2>1. CASE UNCHANGED <<held, playback>>
    BY <2>1 DEF IInv, TypeOK
  <2>2. CASE held' = Provided(b) /\ UpdatePlayback(Provided(b))
    <3>1. held' \subseteq Blocks
      BY <1>3, <2>2 DEF IInv, TypeOK, Provided, Retained
    <3>2. QED BY <2>2, <3>1, PlaybackMoves DEF IInv
  <2>3. QED BY <1>1, <2>1, <2>2
<1> HIDE DEF r
<1>6. RangesOK([ranges EXCEPT ![f] = r]) /\ DOMAIN [ranges EXCEPT ![f] = r] = DOMAIN ranges
  BY <1>2, <1>4, GoesOn
<1>7. RangesOK(AbortSome({f})) /\ DOMAIN AbortSome({f}) = DOMAIN ranges
  BY <1>2, AbortSomeKeeps
<1>8. RangesOK(ranges') /\ DOMAIN ranges' = DOMAIN ranges
  BY <1>1, <1>6, <1>7
<1>9. RangesOK(ranges)'
  BY <1>8 DEF RangesOK
<1>10. TypeOK'
  BY <1>1, <1>5, <1>8 DEF IInv, TypeOK, RangesOK
<1>11. LanesBounded'
  BY <1>1, <1>2, <1>8 DEF LanesBounded
<1>12. Silenced' /\ NeverRefused'
  BY <1>1, <1>2 DEF Silenced, NeverRefused
<1>13. QED BY <1>9, <1>10, <1>11, <1>12 DEF IInv

(* A lane that has finished its range goes on in its own place.            *)
LEMMA CompletesKeeps == ASSUME IInv, NEW f, Completes(f) PROVE IInv'
<1>1. /\ starting = 0 /\ f \in DOMAIN ranges
      /\ mode = "running" => LaneTurn(Without(f), 0)
      /\ mode # "running" => ranges' = Without(f) /\ OthersStay
  BY DEF Completes, Live, At
<1>2. /\ RangesOK(Without(f)) /\ DOMAIN Without(f) = DOMAIN ranges \ {f}
      /\ \A g \in DOMAIN Without(f) : Without(f)[g] = ranges[g]
      /\ Cardinality(DOMAIN Without(f)) = Cardinality(DOMAIN ranges) - 1
  BY <1>1, WithoutKeeps DEF IInv
<1>3. /\ Cardinality(DOMAIN ranges) \in Nat /\ Cardinality(DOMAIN ranges) <= Lanes /\ Lanes \in Nat
  BY <1>1, FewRanges, Limits DEF IInv, RangesOK, LanesBounded
<1>4. CASE mode = "running"
  <2>1. Cardinality(DOMAIN Without(f)) + 0 < Lanes
    BY <1>2, <1>3
  <2>2. QED BY <1>1, <1>2, <1>4, <2>1, LaneTurnKeeps DEF IInv
<1>5. CASE mode # "running"
  <2>1. RangesOK(ranges)'
    BY <1>1, <1>2, <1>5 DEF RangesOK
  <2>2. \A g \in DOMAIN ranges' : ranges'[g].aborted
    BY <1>1, <1>2, <1>5 DEF IInv, Silenced
  <2>3. Cardinality(DOMAIN ranges') <= Lanes
    BY <1>1, <1>2, <1>3, <1>5
  <2>4. QED BY <1>1, <1>5, <2>1, <2>2, <2>3, OthersStayKeeps
<1>6. QED BY <1>4, <1>5

(* A read that fails for good stops the player.                            *)
LEMMA FailsKeeps == ASSUME IInv, NEW f, Fails(f) PROVE IInv'
<1>1. Live(f, "error") /\ Ends("failed", Without(f))
  BY DEF Fails
<1>2. f \in DOMAIN ranges /\ Cardinality(DOMAIN ranges) \in Nat /\ Cardinality(DOMAIN ranges) <= Lanes
  BY <1>1, LiveRuns
<1>3. RangesOK(Without(f)) /\ Cardinality(DOMAIN Without(f)) = Cardinality(DOMAIN ranges) - 1
  BY <1>2, WithoutKeeps DEF IInv
<1>4. Cardinality(DOMAIN Without(f)) <= Lanes
  BY <1>2, <1>3, Limits
<1>5. QED BY <1>1, <1>3, <1>4, EndsKeeps DEF IInv

(* An aborted read leaves.                                                 *)
LEMMA GivesUpKeeps == ASSUME IInv, NEW f, GivesUp(f) PROVE IInv'
<1>1. starting = 0 /\ f \in DOMAIN ranges /\ ranges' = Without(f) /\ OthersStay
  BY DEF GivesUp, At
<1>2. /\ RangesOK(Without(f)) /\ DOMAIN Without(f) = DOMAIN ranges \ {f}
      /\ \A g \in DOMAIN Without(f) : Without(f)[g] = ranges[g]
      /\ Cardinality(DOMAIN Without(f)) = Cardinality(DOMAIN ranges) - 1
  BY <1>1, WithoutKeeps DEF IInv
<1>3. Cardinality(DOMAIN ranges) \in Nat /\ Cardinality(DOMAIN ranges) <= Lanes /\ Lanes \in Nat
  BY <1>1, FewRanges, Limits DEF IInv, RangesOK, LanesBounded
<1>4. RangesOK(ranges)'
  BY <1>1, <1>2 DEF RangesOK
<1>5. mode # "running" => \A g \in DOMAIN ranges' : ranges'[g].aborted
  BY <1>1, <1>2 DEF IInv, Silenced
<1>6. Cardinality(DOMAIN ranges') <= Lanes
  BY <1>1, <1>2, <1>3
<1>7. QED BY <1>1, <1>4, <1>5, <1>6, OthersStayKeeps

-----------------------------------------------------------------------------
(* Every step preserves the invariant. *)
LEMMA NextIInv == ASSUME IInv, [Next]_vars PROVE IInv'
<1>1. CASE Tick
  BY <1>1, TickKeeps
<1>2. CASE RunLane
  BY <1>2, RunLaneKeeps
<1>3. CASE StatsTick
  BY <1>3, StatsTickKeeps
<1>4. ASSUME NEW f \in Blocks, Await(f) PROVE IInv'
  BY <1>4, RespondsKeeps, DeliversKeeps, BodyEndsKeeps, WaitEndsKeeps, CompletesKeeps, FailsKeeps, GivesUpKeeps
     DEF Await
<1>5. CASE (\E b \in Seeks \cup {LeastOf(cursor + 1, Length - 1)} : Reads(b)) \/ Wakes
  BY <1>5, DecoderKeeps
<1>6. CASE Stop
  BY <1>6, StopKeeps
<1>7. CASE UNCHANGED vars
  BY <1>7 DEF vars, decoderVars, laneVars, IInv, TypeOK, RangesOK, LanesBounded, Silenced, NeverRefused
<1>8. QED BY <1>1, <1>2, <1>3, <1>4, <1>5, <1>6, <1>7 DEF Next

(* The invariant holds in every reachable state. *)
LEMMA Invariance == Spec => []IInv
BY InitIInv, NextIInv, PTL DEF Spec

(* Every variable keeps its type: attempts within the retries, ranges and  *)
(* what is held within the file, lanes within HTTP_LANES.                  *)
THEOREM TypeCorrect == Spec => []TypeOK
<1>1. IInv => TypeOK
  BY DEF IInv
<1>2. QED BY <1>1, Invariance, PTL

(* No lane is ever refused by the limit of HttpStream.read.                *)
THEOREM LanesHaveRoom == Spec => []NeverRefused
<1>1. IInv => NeverRefused
  BY DEF IInv
<1>2. QED BY <1>1, Invariance, PTL

(* A player that has stopped makes no further requests and takes no        *)
(* further blocks.                                                         *)
THEOREM StopSilences == Spec => QuietAfterStop
<1> DEFINE Quiet == mode # "running" =>
                      \A f \in DOMAIN ranges' :
                        /\ f \in DOMAIN ranges
                        /\ ranges'[f].next = ranges[f].next
                        /\ ranges'[f].stage = "fetch" => ranges[f].stage = "fetch"
<1>1. ASSUME IInv, [Next]_vars PROVE [Quiet]_vars
  <2>1. SUFFICES ASSUME mode # "running", Next
                 PROVE  UNCHANGED ranges \/ \E f \in DOMAIN ranges : ranges' = Without(f)
    <3>1. ASSUME NEW f \in DOMAIN ranges, ranges' = Without(f)
          PROVE  DOMAIN ranges' \subseteq DOMAIN ranges /\ \A g \in DOMAIN ranges' : ranges'[g] = ranges[g]
      BY <3>1, WithoutKeeps, <1>1 DEF IInv
    <3>2. QED BY <1>1, <3>1
  <2>2. starting = 0 /\ \A f, s : ~Live(f, s)
    BY <1>1, <2>1, LiveRuns DEF IInv, Silenced
  <2>3. ASSUME NEW f \in Blocks, Await(f) PROVE f \in DOMAIN ranges /\ ranges' = Without(f)
    <3>1. Completes(f) \/ GivesUp(f)
      BY <2>2, <2>3 DEF Await, Responds, Delivers, BodyEnds, WaitEnds, Fails
    <3>2. QED BY <2>1, <2>2, <3>1 DEF Completes, GivesUp, At
  <2>4. CASE Wakes
    BY <2>4 DEF Wakes
  <2>5. QED BY <2>1, <2>2, <2>3, <2>4 DEF Next, Tick, RunLane, StatsTick, Reads, Stop
<1>2. QED BY <1>1, Invariance, PTL DEF Spec, QuietAfterStop

(* The lanes keep within their limit and end with the player, for every    *)
(* file, number of lanes and number of retries.                            *)
THEOREM LanesStayConsistent == Spec => LanesConsistent
<1> QED
  BY TypeCorrect, LanesHaveRoom, StopSilences, PTL DEF LanesConsistent
=============================================================================
