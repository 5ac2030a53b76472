-------------------------- MODULE MediaDecoderProofs --------------------------
(***************************************************************************)
(* Proofs about MediaDecoder: for every film, every size of the ring and   *)
(* of the audio stream, and any seeks, the ring that two threads share     *)
(* without a lock is bounded; and until a seek is given before the thread  *)
(* was done with the last one, its ends do not cross and a seek that       *)
(* resets both of them has it to itself.                                   *)
(***************************************************************************)
EXTENDS MediaDecoder, WellFoundedInduction, TLAPS

-----------------------------------------------------------------------------
(* What each variable can be. *)
CtlOK ==
  ctl \in [quit : BOOLEAN, closed : BOOLEAN, playing : BOOLEAN, looping : BOOLEAN, seekRequested : BOOLEAN,
           target : 0..Duration, seeking : BOOLEAN, force : BOOLEAN, eof : BOOLEAN, fatal : BOOLEAN]
RingOK == ring \in [read : Nat, write : Nat, pts : [0..(RingSlots - 1) -> 0..MaxClock]]
AudioOK == audio \in [queued : 0..AudioCap, valid : BOOLEAN]
SubsOK ==
  subs \in [requested : Subtitles \cup {NoRequest}, selected : Subtitles, cues : SUBSET Subtitles]
DemuxOK ==
  demux \in [pos : 1..(Duration + 1), delayed : {0} \cup VideoPackets, drop : -1..Duration,
             offset : 0..(Duration * MaxTurns)]
ClockOK == clock \in 0..MaxClock /\ shown \in -1..MaxClock /\ turns \in 0..MaxTurns

(* Where the threads can be, and what they hold there.                     *)
Places == {"top", "seek", "reset", "reading", "blocked", "video", "audio", "settle",
           "enqueued", "drained", "exited"}
WellPlaced(th) ==
  /\ th \in [pc : Places, pts : -1..MaxClock, draining : BOOLEAN]
  /\ th.pc = "video" => th.pts >= 0
  /\ th.pc = "reset" => th.pts \in 0..Duration
ThreadOK == WellPlaced(thread)
MainOK ==
  /\ main.pc \in {"opening", "idle", "seek", "select", "present", "join", "gone"}
  /\ main.pc \in {"seek", "select"} => main.to \in 0..Duration

(* Each pass over the film has been counted.                               *)
PassesCounted == demux.offset <= Duration * turns

(* A frame that is about to be taken is not behind the ring's reading end, *)
(* which only a reset moves back.                                          *)
TakenIsAhead == main.pc = "present" => main.take \in Nat /\ ring.read <= main.take

(* It is still in the ring, if no reset came between.                      *)
TakenIsQueued == main.pc = "present" => main.take < ring.write

(* A seek is with the main thread, ordered, or with the decode thread, and *)
(* with one of them only.  Until it is carried out nothing converges, and  *)
(* the main thread leaves the ring alone.                                  *)
Ordering == main.pc \in {"seek", "select"}
CarryingOut == thread.pc \in {"seek", "reset"}
OneSeek ==
  /\ ~(ctl.seekRequested /\ Ordering)
  /\ ~(ctl.seekRequested /\ CarryingOut)
  /\ ~(Ordering /\ CarryingOut)
  /\ ctl.seekRequested \/ CarryingOut \/ main.pc = "seek" => ctl.seeking
  /\ ctl.seekRequested \/ CarryingOut \/ Ordering => demux.drop < 0
  /\ main.pc = "present" => ~ctl.seekRequested /\ ~CarryingOut

(* All of this until a seek overlaps another.                              *)
OneByOne == overlapped \in BOOLEAN /\ (~overlapped => RingOrdered /\ TakenIsQueued /\ OneSeek)

(* The inductive invariant. *)
IInv ==
  /\ CtlOK /\ RingOK /\ AudioOK /\ SubsOK /\ DemuxOK /\ ClockOK /\ ThreadOK /\ MainOK
  /\ PassesCounted /\ RingBounded /\ TakenIsAhead /\ OneByOne

-----------------------------------------------------------------------------
(* Arithmetic of films and passes.                                         *)
LEMMA FilmFacts ==
  /\ Duration \in Nat \ {0} /\ RingSlots \in Nat \ {0} /\ MaxTurns \in Nat /\ AudioCap \in Nat
  /\ MaxClock \in Nat /\ MaxClock = Duration * MaxTurns + Duration
  /\ Duration * MaxTurns \in Nat
  /\ VideoPackets \subseteq 1..Duration /\ Targets \subseteq 1..Duration
  /\ Keyframes \subseteq 1..Duration
  /\ Duration <= MaxClock
<1>1. Duration \in Nat /\ 1 \in 1..Duration /\ MaxTurns \in Nat
  BY DecoderAssumption DEF Duration
<1>2. /\ Duration * MaxTurns \in Nat
      /\ Duration * (MaxTurns + 1) = Duration * MaxTurns + Duration
  BY <1>1
<1>3. Targets \subseteq 1..Duration /\ Keyframes \subseteq 1..Duration
  BY DecoderAssumption DEF Duration
<1>4. QED BY <1>1, <1>2, <1>3, DecoderAssumption DEF MaxClock, VideoPackets

(* The passes before the last one end before the last one does.            *)
LEMMA PassFacts ==
  ASSUME NEW t \in 0..MaxTurns
  PROVE  /\ Duration * t \in Nat /\ Duration * t <= Duration * MaxTurns
         /\ Duration * (t + 1) = Duration * t + Duration
<1>1. Duration \in Nat /\ MaxTurns \in Nat /\ t \in Nat /\ t <= MaxTurns
  BY FilmFacts
<1>2. Duration * t <= Duration * MaxTurns
  BY <1>1
<1>3. QED BY <1>1, <1>2

(* A place without a frame, and one with a frame.                          *)
LEMMA GotoIsPlaced ==
  ASSUME NEW pc \in Places \ {"video", "reset"}
  PROVE  WellPlaced(At(pc)) /\ At(pc).pc = pc
BY FilmFacts DEF WellPlaced, At

LEMMA HeldIsPlaced ==
  ASSUME NEW pc \in Places, NEW pts \in 0..MaxClock, NEW draining \in BOOLEAN,
         pc = "reset" => pts <= Duration
  PROVE  WellPlaced(Held(pc, pts, draining)) /\ Held(pc, pts, draining).pc = pc
BY FilmFacts DEF WellPlaced, Held

(* Every non-empty set of natural numbers has a least element. *)
LEMMA LeastNat ==
  ASSUME NEW T \in SUBSET Nat, T # {}
  PROVE  \E x \in T : \A y \in T : x <= y
<1>1. PICK x \in T : \A y \in T : <<y, x>> \notin OpToRel(<, Nat)
  BY NatLessThanWellFounded, WFMin
<1>2. \A y \in T : ~(y < x)
  BY <1>1 DEF OpToRel
<1> QED
  BY <1>2

(* The newest frame that is due is one of those in the ring.               *)
LEMMA NewestIsQueued ==
  ASSUME RingOK, Due # {}
  PROVE  NewestDue \in ring.read..(ring.write - 1)
<1> DEFINE gap(i) == ring.write - i
           T == {gap(i) : i \in Due}
<1>1. ring.read \in Nat /\ ring.write \in Nat /\ Due \subseteq ring.read..(ring.write - 1)
  BY DEF RingOK, Due
<1>2. T \in SUBSET Nat /\ T # {}
  BY <1>1
<1>3. PICK x \in T : \A y \in T : x <= y
  BY <1>2, LeastNat
<1>4. PICK i \in Due : x = gap(i)
  BY <1>3
<1>5. \A j \in Due : gap(i) <= gap(j)
  BY <1>3, <1>4
<1>6. \A j \in Due : j <= i
  BY <1>1, <1>5
<1>7. NewestDue \in Due
  BY <1>6 DEF NewestDue
<1>8. QED BY <1>1, <1>7

(* The time a track change seeks to lies in the film.                      *)
LEMMA CurrentTimeInFilm ==
  ASSUME CtlOK, ClockOK
  PROVE  CurrentTime \in 0..Duration
<1>1. clock \in Nat /\ ctl.target \in 0..Duration
  BY FilmFacts DEF CtlOK, ClockOK
<1>2. clock % Duration \in 0..Duration
  BY <1>1, FilmFacts
<1>3. QED BY <1>1, <1>2, FilmFacts DEF CurrentTime

(* A frame received from the codec is dropped or held for the ring.        *)
LEMMA ReceivePlaces ==
  ASSUME DemuxOK, NEW k \in {0} \cup VideoPackets, NEW draining \in BOOLEAN, Receive(k, draining)
  PROVE  WellPlaced(thread') /\ thread'.pc \in {"drained", "settle", "video"}
<1>1. k + demux.offset \in 0..MaxClock
  BY FilmFacts DEF DemuxOK
<1>2. CASE thread' = At("drained") \/ thread' = At("settle")
  BY <1>2, GotoIsPlaced DEF Places
<1>3. CASE thread' = Held("video", k + demux.offset, draining)
  BY <1>1, <1>3, HeldIsPlaced DEF Places
<1>4. QED BY <1>2, <1>3 DEF Receive

(* A container seek lands on a packet of the film.                         *)
LEMMA SeekLands ==
  ASSUME NEW to, NEW next \in [pos : 1..(Duration + 1), delayed : {0} \cup VideoPackets,
                               drop : -1..Duration, offset : 0..(Duration * MaxTurns)],
         SeekContainer(to, next)
  PROVE  DemuxOK' /\ demux'.drop = next.drop /\ demux'.offset = next.offset
<1>1. PICK k \in Keyframes : demux' = [next EXCEPT !.pos = k, !.delayed = 0]
  BY DEF SeekContainer
<1>2. k \in 1..(Duration + 1)
  BY FilmFacts
<1>3. QED BY <1>1, <1>2 DEF DemuxOK

-----------------------------------------------------------------------------
(* The thread starts, or all is given back.                                *)
LEMMA OpenKeeps ==
  ASSUME IInv, Open
  PROVE  IInv'
<1>1. CtlOK'
  BY DEF IInv, CtlOK, Open, Idle
<1>2. ThreadOK'
  BY FilmFacts, GotoIsPlaced, HeldIsPlaced DEF IInv, ThreadOK, Places, Open, Idle
<1>3. MainOK'
  BY FilmFacts DEF IInv, MainOK, Open, Idle
<1>4. TakenIsAhead'
  BY DEF IInv, RingOK, TakenIsAhead, Open, Idle
<1>5. OneByOne'
  <2>1. main'.pc \in {"idle", "gone"} /\ (thread' = thread \/ thread'.pc = "top")
    BY DEF Open, Idle, At
  <2>2. /\ ctl'.seeking = ctl.seeking /\ ctl'.seekRequested = ctl.seekRequested
        /\ demux' = demux /\ ring' = ring /\ overlapped' = overlapped
    BY DEF IInv, CtlOK, Open
  <2>3. QED BY <2>1, <2>2
      DEF IInv, OneByOne, RingOrdered, TakenIsQueued, OneSeek, Ordering, CarryingOut
<1>6. /\ RingOK' /\ AudioOK' /\ SubsOK' /\ DemuxOK' /\ ClockOK' /\ PassesCounted'
      /\ RingBounded'
  BY DEF IInv, RingOK, AudioOK, SubsOK, DemuxOK, ClockOK, PassesCounted, RingBounded,
      Fill, Open, Idle
<1>7. QED BY <1>1, <1>2, <1>3, <1>4, <1>5, <1>6 DEF IInv

(* Playing, pausing and looping touch no ring and no seek.                 *)
LEMMA PlayKeeps ==
  ASSUME IInv, Play
  PROVE  IInv'
<1>1. CtlOK'
  BY DEF IInv, CtlOK, Play, Idle
<1>2. OneByOne'
  BY DEF IInv, CtlOK, DemuxOK, OneByOne, RingOrdered, TakenIsQueued, OneSeek, Ordering,
      CarryingOut, Play, Idle
<1>3. /\ RingOK' /\ AudioOK' /\ SubsOK' /\ DemuxOK' /\ ClockOK' /\ ThreadOK' /\ MainOK'
      /\ PassesCounted' /\ RingBounded' /\ TakenIsAhead'
  BY DEF IInv, RingOK, AudioOK, SubsOK, DemuxOK, ClockOK, ThreadOK, MainOK,
      PassesCounted, RingBounded, TakenIsAhead, Fill, Play, Idle
<1>4. QED BY <1>1, <1>2, <1>3 DEF IInv

(* Pausing is as little.                                                   *)
LEMMA PauseKeeps ==
  ASSUME IInv, Pause
  PROVE  IInv'
<1>1. CtlOK'
  BY DEF IInv, CtlOK, Pause, Idle
<1>2. OneByOne'
  BY DEF IInv, CtlOK, DemuxOK, OneByOne, RingOrdered, TakenIsQueued, OneSeek, Ordering,
      CarryingOut, Pause, Idle
<1>3. /\ RingOK' /\ AudioOK' /\ SubsOK' /\ DemuxOK' /\ ClockOK' /\ ThreadOK' /\ MainOK'
      /\ PassesCounted' /\ RingBounded' /\ TakenIsAhead'
  BY DEF IInv, RingOK, AudioOK, SubsOK, DemuxOK, ClockOK, ThreadOK, MainOK,
      PassesCounted, RingBounded, TakenIsAhead, Fill, Pause, Idle
<1>4. QED BY <1>1, <1>2, <1>3 DEF IInv

(* So is a loop.                                                           *)
LEMMA SetLoopKeeps ==
  ASSUME IInv, NEW loop \in BOOLEAN, SetLoop(loop)
  PROVE  IInv'
<1>1. CtlOK'
  BY DEF IInv, CtlOK, SetLoop, Idle
<1>2. OneByOne'
  BY DEF IInv, CtlOK, DemuxOK, OneByOne, RingOrdered, TakenIsQueued, OneSeek, Ordering,
      CarryingOut, SetLoop, Idle
<1>3. /\ RingOK' /\ AudioOK' /\ SubsOK' /\ DemuxOK' /\ ClockOK' /\ ThreadOK' /\ MainOK'
      /\ PassesCounted' /\ RingBounded' /\ TakenIsAhead'
  BY DEF IInv, RingOK, AudioOK, SubsOK, DemuxOK, ClockOK, ThreadOK, MainOK,
      PassesCounted, RingBounded, TakenIsAhead, Fill, SetLoop, Idle
<1>4. QED BY <1>1, <1>2, <1>3 DEF IInv

(* A seek is raised when no other is on its way.                           *)
LEMMA SeekKeeps ==
  ASSUME IInv, NEW to \in Targets, Seek(to)
  PROVE  IInv'
<1>1. CtlOK'
  BY DEF IInv, CtlOK, Seek, MaySeek, Settled, RaiseSeeking, Idle
<1>2. ClockOK'
  <2>1. clock' = to /\ shown' = -1 /\ turns' = turns + 1 /\ turns < MaxTurns
    BY DEF Seek, MaySeek, RaiseSeeking
  <2>2. to \in 0..MaxClock
    BY FilmFacts
  <2>3. QED BY <2>1, <2>2, FilmFacts DEF IInv, ClockOK
<1>3. MainOK'
  <2>1. main' = [pc |-> "seek", to |-> to] /\ to \in 0..Duration
    BY FilmFacts DEF Seek, RaiseSeeking
  <2>2. QED BY <2>1 DEF MainOK
<1>4. PassesCounted'
  BY FilmFacts, PassFacts DEF IInv, DemuxOK, ClockOK, PassesCounted, Seek, MaySeek,
      Settled, RaiseSeeking, Idle
<1>5. TakenIsAhead'
  BY DEF IInv, RingOK, TakenIsAhead, Seek, MaySeek, Settled, RaiseSeeking, Idle
<1>6. OneByOne'
  BY DEF IInv, CtlOK, DemuxOK, OneByOne, RingOrdered, TakenIsQueued, OneSeek, Ordering,
      CarryingOut, Seek, MaySeek, Settled,
      RaiseSeeking, Idle
<1>7. RingOK' /\ AudioOK' /\ SubsOK' /\ DemuxOK' /\ ThreadOK' /\ RingBounded'
  BY DEF IInv, RingOK, AudioOK, SubsOK, DemuxOK, ThreadOK, RingBounded, Fill, Seek,
      MaySeek, Settled, RaiseSeeking, Idle
<1>8. QED BY <1>1, <1>2, <1>3, <1>4, <1>5, <1>6, <1>7 DEF IInv

(* The raised seek becomes the command.                                    *)
LEMMA OrderSeekKeeps ==
  ASSUME IInv, OrderSeek
  PROVE  IInv'
<1>1. CtlOK'
  BY DEF IInv, CtlOK, MainOK, OrderSeek
<1>2. MainOK'
  BY FilmFacts DEF IInv, MainOK, OrderSeek, Idle
<1>3. TakenIsAhead'
  BY DEF IInv, RingOK, TakenIsAhead, OrderSeek, Idle
<1>4. OneByOne'
  BY DEF IInv, CtlOK, DemuxOK, OneByOne, RingOrdered, TakenIsQueued, OneSeek, Ordering,
      CarryingOut, OrderSeek, Idle
<1>5. /\ RingOK' /\ AudioOK' /\ SubsOK' /\ DemuxOK' /\ ClockOK' /\ ThreadOK'
      /\ PassesCounted' /\ RingBounded'
  BY DEF IInv, RingOK, AudioOK, SubsOK, DemuxOK, ClockOK, ThreadOK, PassesCounted,
      RingBounded, Fill, OrderSeek, Idle
<1>6. QED BY <1>1, <1>2, <1>3, <1>4, <1>5 DEF IInv

(* A track change starts like a seek.                                      *)
LEMMA SelectSubtitleKeeps ==
  ASSUME IInv, NEW id \in Subtitles, SelectSubtitle(id)
  PROVE  IInv'
<1>1. SubsOK'
  BY DEF IInv, SubsOK, SelectSubtitle, MaySeek, Settled, Idle
<1>2. ClockOK'
  BY FilmFacts DEF IInv, ClockOK, SelectSubtitle, MaySeek, Settled, Idle
<1>3. MainOK'
  <2>1. main' = [pc |-> "select", to |-> CurrentTime]
    BY DEF SelectSubtitle
  <2>2. CurrentTime \in 0..Duration
    BY CurrentTimeInFilm DEF IInv
  <2>3. QED BY <2>1, <2>2 DEF MainOK
<1>4. PassesCounted'
  BY FilmFacts, PassFacts DEF IInv, DemuxOK, ClockOK, PassesCounted, SelectSubtitle,
      MaySeek, Settled, Idle
<1>5. TakenIsAhead'
  BY DEF IInv, RingOK, TakenIsAhead, SelectSubtitle, MaySeek, Settled, Idle
<1>6. OneByOne'
  BY DEF IInv, CtlOK, DemuxOK, OneByOne, RingOrdered, TakenIsQueued, OneSeek, Ordering,
      CarryingOut, SelectSubtitle, MaySeek,
      Settled, Idle
<1>7. CtlOK' /\ RingOK' /\ AudioOK' /\ DemuxOK' /\ ThreadOK' /\ RingBounded'
  BY DEF IInv, CtlOK, RingOK, AudioOK, DemuxOK, ThreadOK, RingBounded, Fill,
      SelectSubtitle, MaySeek, Settled, Idle
<1>8. QED BY <1>1, <1>2, <1>3, <1>4, <1>5, <1>6, <1>7 DEF IInv

(* A track change goes on as a seek to where playback is.                  *)
LEMMA SeekInPlaceKeeps ==
  ASSUME IInv, SeekInPlace
  PROVE  IInv'
<1>1. CtlOK'
  BY DEF IInv, CtlOK, SeekInPlace, RaiseSeeking
<1>2. ClockOK'
  <2>1. clock' = main.to /\ shown' = -1 /\ turns' = turns /\ main.to \in 0..Duration
    BY DEF IInv, MainOK, SeekInPlace, RaiseSeeking
  <2>2. QED BY <2>1, FilmFacts DEF IInv, ClockOK
<1>3. MainOK'
  BY FilmFacts DEF IInv, MainOK, SeekInPlace, RaiseSeeking
<1>4. PassesCounted'
  BY FilmFacts, PassFacts DEF IInv, DemuxOK, ClockOK, PassesCounted, SeekInPlace,
      RaiseSeeking
<1>5. TakenIsAhead'
  BY DEF IInv, RingOK, TakenIsAhead, SeekInPlace, RaiseSeeking
<1>6. OneByOne'
  BY DEF IInv, CtlOK, DemuxOK, OneByOne, RingOrdered, TakenIsQueued, OneSeek, Ordering,
      CarryingOut, SeekInPlace, RaiseSeeking
<1>7. RingOK' /\ AudioOK' /\ SubsOK' /\ DemuxOK' /\ ThreadOK' /\ RingBounded'
  BY DEF IInv, RingOK, AudioOK, SubsOK, DemuxOK, ThreadOK, RingBounded, Fill,
      SeekInPlace, RaiseSeeking
<1>8. QED BY <1>1, <1>2, <1>3, <1>4, <1>5, <1>6, <1>7 DEF IInv

(* The frame looked at is in the ring.                                     *)
LEMMA LookAtRingKeeps ==
  ASSUME IInv, LookAtRing
  PROVE  IInv'
<1>1. MainOK'
  BY FilmFacts DEF IInv, MainOK, LookAtRing, Idle
<1>2. TakenIsAhead' /\ TakenIsQueued'
  <2>1. RingOK /\ ring' = ring /\ ring.read \in Nat /\ ring.write \in Nat
    BY DEF IInv, RingOK, LookAtRing
  <2>2. \/ Due # {} /\ main'.take = NewestDue
        \/ main'.take = ring.read /\ ring.read < ring.write
    BY DEF LookAtRing
  <2>3. main'.take \in ring.read..(ring.write - 1)
    BY <2>1, <2>2, NewestIsQueued
  <2>4. QED BY <2>1, <2>3 DEF TakenIsAhead, TakenIsQueued
<1>3. OneByOne'
  <2>1. /\ ~ctl.seeking /\ main.pc = "idle" /\ main'.pc = "present"
        /\ UNCHANGED <<ctl, ring, thread, demux, overlapped>>
    BY DEF LookAtRing, Idle
  <2>2. QED BY <1>2, <2>1 DEF IInv, OneByOne, RingOrdered, OneSeek, Ordering, CarryingOut
<1>4. /\ CtlOK' /\ RingOK' /\ AudioOK' /\ SubsOK' /\ DemuxOK' /\ ClockOK' /\ ThreadOK'
      /\ PassesCounted' /\ RingBounded'
  BY DEF IInv, CtlOK, RingOK, AudioOK, SubsOK, DemuxOK, ClockOK, ThreadOK,
      PassesCounted, RingBounded, Fill, LookAtRing, Idle
<1>5. QED BY <1>1, <1>2, <1>3, <1>4 DEF IInv

(* Taking a frame moves the reading end up to the writing end at most.     *)
LEMMA TakeFrameKeeps ==
  ASSUME IInv, TakeFrame
  PROVE  IInv'
<1>1. CtlOK'
  BY DEF IInv, CtlOK, TakeFrame, Idle
<1>2. RingOK'
  BY DEF IInv, RingOK, TakenIsAhead, TakeFrame
<1>3. ClockOK'
  <2>1. main.take \in Nat /\ ring.pts \in [0..(RingSlots - 1) -> 0..MaxClock]
    BY DEF IInv, RingOK, TakenIsAhead, TakeFrame
  <2>2. main.take % RingSlots \in 0..(RingSlots - 1)
    BY <2>1, FilmFacts
  <2>3. ring.pts[main.take % RingSlots] \in 0..MaxClock
    BY <2>1, <2>2
  <2>4. QED BY <2>3, FilmFacts DEF IInv, ClockOK, TakeFrame
<1>4. MainOK'
  BY FilmFacts DEF IInv, MainOK, TakeFrame, Idle
<1>5. PassesCounted'
  BY FilmFacts, PassFacts DEF IInv, DemuxOK, ClockOK, PassesCounted, TakeFrame, Idle
<1>6. RingBounded'
  <2>1. ring'.read = main.take + 1 /\ ring'.write = ring.write
    BY DEF IInv, RingOK, TakeFrame
  <2>2. main.take \in Nat /\ ring.read <= main.take
    BY DEF IInv, TakenIsAhead, TakeFrame
  <2>3. QED BY <2>1, <2>2, FilmFacts DEF IInv, RingOK, RingBounded, Fill
<1>7. TakenIsAhead'
  BY DEF IInv, RingOK, TakenIsAhead, TakeFrame, Idle
<1>8. OneByOne'
  <2>1. /\ main.pc = "present" /\ main'.pc = "idle"
        /\ ring'.read = main.take + 1 /\ ring'.write = ring.write
        /\ ctl'.seeking = ctl.seeking /\ ctl'.seekRequested = ctl.seekRequested
        /\ UNCHANGED <<thread, demux, overlapped>>
    BY DEF IInv, CtlOK, RingOK, TakeFrame, Idle
  <2>2. main.take \in Nat /\ ring.write \in Nat
    BY <2>1 DEF IInv, TakenIsAhead, RingOK
  <2>3. QED BY <2>1, <2>2
      DEF IInv, OneByOne, RingOrdered, TakenIsQueued, OneSeek, Ordering, CarryingOut
<1>9. AudioOK' /\ SubsOK' /\ DemuxOK' /\ ThreadOK'
  BY DEF IInv, AudioOK, SubsOK, DemuxOK, ThreadOK, TakeFrame, Idle
<1>10. QED BY <1>1, <1>2, <1>3, <1>4, <1>5, <1>6, <1>7, <1>8, <1>9 DEF IInv

(* Quitting asks the thread to stop.                                       *)
LEMMA DestroyKeeps ==
  ASSUME IInv, Destroy
  PROVE  IInv'
<1>1. CtlOK'
  BY DEF IInv, CtlOK, Destroy, Quit, Idle
<1>2. MainOK'
  BY FilmFacts DEF IInv, MainOK, Destroy, Quit, Idle
<1>3. TakenIsAhead'
  BY DEF IInv, RingOK, TakenIsAhead, Destroy, Quit, Idle
<1>4. OneByOne'
  BY DEF IInv, CtlOK, DemuxOK, OneByOne, RingOrdered, TakenIsQueued, OneSeek, Ordering,
      CarryingOut, Destroy, Quit, Idle
<1>5. /\ RingOK' /\ AudioOK' /\ SubsOK' /\ DemuxOK' /\ ClockOK' /\ ThreadOK'
      /\ PassesCounted' /\ RingBounded'
  BY DEF IInv, RingOK, AudioOK, SubsOK, DemuxOK, ClockOK, ThreadOK, PassesCounted,
      RingBounded, Fill, Destroy, Quit, Idle
<1>6. QED BY <1>1, <1>2, <1>3, <1>4, <1>5 DEF IInv

(* Once it has stopped, the decoder is gone.                               *)
LEMMA JoinKeeps ==
  ASSUME IInv, Join
  PROVE  IInv'
<1>1. MainOK'
  BY FilmFacts DEF IInv, MainOK, Join
<1>2. TakenIsAhead'
  BY DEF IInv, RingOK, TakenIsAhead, Join
<1>3. OneByOne'
  BY DEF IInv, CtlOK, DemuxOK, OneByOne, RingOrdered, TakenIsQueued, OneSeek, Ordering,
      CarryingOut, Join
<1>4. /\ CtlOK' /\ RingOK' /\ AudioOK' /\ SubsOK' /\ DemuxOK' /\ ClockOK' /\ ThreadOK'
      /\ PassesCounted' /\ RingBounded'
  BY DEF IInv, CtlOK, RingOK, AudioOK, SubsOK, DemuxOK, ClockOK, ThreadOK,
      PassesCounted, RingBounded, Fill, Join
<1>5. QED BY <1>1, <1>2, <1>3, <1>4 DEF IInv

(* The thread ends.                                                        *)
LEMMA ExitKeeps ==
  ASSUME IInv, Exit
  PROVE  IInv'
<1>1. ThreadOK'
  BY FilmFacts, GotoIsPlaced, HeldIsPlaced DEF IInv, ThreadOK, Places, Exit, Goto
<1>2. OneByOne'
  BY DEF IInv, CtlOK, DemuxOK, OneByOne, RingOrdered, TakenIsQueued, OneSeek, Ordering,
      CarryingOut, At, Exit, Goto
<1>3. /\ CtlOK' /\ RingOK' /\ AudioOK' /\ SubsOK' /\ DemuxOK' /\ ClockOK' /\ MainOK'
      /\ PassesCounted' /\ RingBounded' /\ TakenIsAhead'
  BY DEF IInv, CtlOK, RingOK, AudioOK, SubsOK, DemuxOK, ClockOK, MainOK, PassesCounted,
      RingBounded, TakenIsAhead, Fill, Exit, Goto
<1>4. QED BY <1>1, <1>2, <1>3 DEF IInv

(* The thread takes the command over.                                      *)
LEMMA TakeSeekKeeps ==
  ASSUME IInv, TakeSeek
  PROVE  IInv'
<1>1. CtlOK'
  BY DEF IInv, CtlOK, TakeSeek, Goto
<1>2. ThreadOK'
  BY FilmFacts, GotoIsPlaced, HeldIsPlaced DEF IInv, ThreadOK, Places, TakeSeek, Goto
<1>3. OneByOne'
  BY DEF IInv, CtlOK, DemuxOK, OneByOne, RingOrdered, TakenIsQueued, OneSeek, Ordering,
      CarryingOut, At, TakeSeek, Goto
<1>4. /\ RingOK' /\ AudioOK' /\ SubsOK' /\ DemuxOK' /\ ClockOK' /\ MainOK'
      /\ PassesCounted' /\ RingBounded' /\ TakenIsAhead'
  BY DEF IInv, RingOK, AudioOK, SubsOK, DemuxOK, ClockOK, MainOK, PassesCounted,
      RingBounded, TakenIsAhead, Fill, TakeSeek, Goto
<1>5. QED BY <1>1, <1>2, <1>3, <1>4 DEF IInv

(* The thread begins to read.                                              *)
LEMMA StartReadKeeps ==
  ASSUME IInv, StartRead
  PROVE  IInv'
<1>1. ThreadOK'
  BY FilmFacts, GotoIsPlaced, HeldIsPlaced DEF IInv, ThreadOK, Places, StartRead, Goto
<1>2. OneByOne'
  BY DEF IInv, CtlOK, DemuxOK, OneByOne, RingOrdered, TakenIsQueued, OneSeek, Ordering,
      CarryingOut, At, StartRead, Goto
<1>3. /\ CtlOK' /\ RingOK' /\ AudioOK' /\ SubsOK' /\ DemuxOK' /\ ClockOK' /\ MainOK'
      /\ PassesCounted' /\ RingBounded' /\ TakenIsAhead'
  BY DEF IInv, CtlOK, RingOK, AudioOK, SubsOK, DemuxOK, ClockOK, MainOK, PassesCounted,
      RingBounded, TakenIsAhead, Fill, StartRead, Goto
<1>4. QED BY <1>1, <1>2, <1>3 DEF IInv

(* The target that is read is in the film.                                 *)
LEMMA TakeTargetKeeps ==
  ASSUME IInv, TakeTarget
  PROVE  IInv'
<1>1. SubsOK'
  BY DEF IInv, SubsOK, TakeTarget
<1>2. ThreadOK'
  <2>1. thread' = Held("reset", ctl.target, FALSE)
    BY Zenon DEF TakeTarget
  <2>2. ctl.target \in 0..Duration
    BY DEF IInv, CtlOK
  <2>3. PICK draining \in BOOLEAN : thread' = Held("reset", ctl.target, draining)
    BY <2>1, Zenon
  <2>4. QED BY <2>2, <2>3, FilmFacts, HeldIsPlaced DEF ThreadOK, Places
<1>3. OneByOne'
  BY DEF IInv, CtlOK, DemuxOK, OneByOne, RingOrdered, TakenIsQueued, OneSeek, Ordering,
      CarryingOut, Held, TakeTarget
<1>4. /\ CtlOK' /\ RingOK' /\ AudioOK' /\ DemuxOK' /\ ClockOK' /\ MainOK'
      /\ PassesCounted' /\ RingBounded' /\ TakenIsAhead'
  BY DEF IInv, CtlOK, RingOK, AudioOK, DemuxOK, ClockOK, MainOK, PassesCounted,
      RingBounded, TakenIsAhead, Fill, TakeTarget
<1>5. QED BY <1>1, <1>2, <1>3, <1>4 DEF IInv

(* The reset meets no frame about to be taken, and no other seek.          *)
LEMMA ResetKeeps ==
  ASSUME IInv, Reset
  PROVE  IInv'
<1>1. CtlOK'
  BY DEF IInv, CtlOK, Reset, Emptied, Goto, SeekContainer
<1>2. RingOK'
  BY FilmFacts DEF IInv, RingOK, Reset, Emptied, Goto, SeekContainer
<1>3. AudioOK'
  BY FilmFacts DEF AudioOK, Reset
<1>4. SubsOK'
  BY DEF IInv, SubsOK, Reset, Emptied, Goto, SeekContainer
<1>5. DemuxOK'
  <2>1. CASE SeekContainer(thread.pts, [demux EXCEPT !.drop = thread.pts, !.offset = 0])
    <3>1. thread.pts \in 0..Duration
      BY DEF IInv, ThreadOK, WellPlaced, Reset
    <3>2. [demux EXCEPT !.drop = thread.pts, !.offset = 0]
            \in [pos : 1..(Duration + 1), delayed : {0} \cup VideoPackets,
                 drop : -1..Duration, offset : 0..(Duration * MaxTurns)]
      <4>1. thread.pts \in -1..Duration /\ 0 \in 0..(Duration * MaxTurns)
        BY <3>1, FilmFacts
      <4>2. QED BY <4>1 DEF IInv, DemuxOK
    <3>3. QED BY <2>1, <3>2, SeekLands
  <2>2. CASE demux' = [demux EXCEPT !.offset = 0, !.delayed = 0]
    <3>1. 0 \in 0..(Duration * MaxTurns) /\ 0 \in {0} \cup VideoPackets
      BY FilmFacts
    <3>2. QED BY <2>2, <3>1 DEF IInv, DemuxOK
  <2>3. QED BY <2>1, <2>2 DEF Reset
<1>6. ThreadOK'
  BY FilmFacts, GotoIsPlaced, HeldIsPlaced DEF IInv, ThreadOK, Places, Reset, Emptied,
      Goto, SeekContainer
<1>7. PassesCounted'
  <2>1. demux'.offset = 0 /\ turns' = turns
    BY DEF IInv, DemuxOK, Reset, SeekContainer
  <2>2. Duration * turns \in Nat
    BY PassFacts DEF IInv, ClockOK
  <2>3. QED BY <2>1, <2>2 DEF PassesCounted
<1>8. RingBounded'
  BY FilmFacts DEF IInv, RingOK, RingBounded, Fill, Reset, Emptied
<1>9. TakenIsAhead'
  <2>1. main' = main /\ ring'.read = 0
    BY DEF IInv, RingOK, Reset, Emptied
  <2>2. QED BY <2>1 DEF IInv, TakenIsAhead
<1>10. OneByOne'
  <2>1. /\ thread.pc = "reset" /\ thread'.pc = "top"
        /\ ring'.read = 0 /\ ring'.write = 0
        /\ ctl'.seekRequested = ctl.seekRequested
        /\ UNCHANGED <<main, overlapped>>
    BY DEF IInv, CtlOK, RingOK, At, Reset, Emptied, Goto
  <2>2. QED BY <2>1 DEF IInv, OneByOne, RingOrdered, TakenIsQueued, OneSeek, Ordering, CarryingOut
<1>11. ClockOK' /\ MainOK'
  BY DEF IInv, ClockOK, MainOK, Reset, Emptied, Goto, SeekContainer
<1>12. QED BY <1>1, <1>2, <1>3, <1>4, <1>5, <1>6, <1>7, <1>8, <1>9, <1>10, <1>11 DEF IInv

(* A packet of pictures.                                                   *)
LEMMA ReadVideoKeeps ==
  ASSUME IInv, ReadVideo
  PROVE  IInv'
<1>1. DemuxOK'
  <2>1. demux.pos \in 1..Duration /\ demux.pos \in VideoPackets
    BY FilmFacts DEF IInv, DemuxOK, ReadVideo, Reads, Packet, VideoPackets
  <2>2. demux.pos + 1 \in 1..(Duration + 1)
    BY <2>1, FilmFacts
  <2>3. QED BY <2>1, <2>2 DEF IInv, DemuxOK, ReadVideo
<1>2. ThreadOK'
  <2>1. DemuxOK /\ demux.delayed \in {0} \cup VideoPackets /\ Receive(demux.delayed, FALSE)
    BY DEF IInv, DemuxOK, ReadVideo
  <2>2. QED BY <2>1, ReceivePlaces DEF ThreadOK
<1>3. PassesCounted'
  BY FilmFacts, PassFacts DEF IInv, DemuxOK, ClockOK, PassesCounted, ReadVideo, Reads,
      Packet, Advance, Receive
<1>4. OneByOne'
  BY DEF IInv, CtlOK, DemuxOK, OneByOne, RingOrdered, TakenIsQueued, OneSeek, Ordering,
      CarryingOut, At, Held, ReadVideo,
      Reads, Packet, Advance, Receive
<1>5. /\ CtlOK' /\ RingOK' /\ AudioOK' /\ SubsOK' /\ ClockOK' /\ MainOK' /\ RingBounded'
      /\ TakenIsAhead'
  BY DEF IInv, CtlOK, RingOK, AudioOK, SubsOK, ClockOK, MainOK, RingBounded,
      TakenIsAhead, Fill, ReadVideo, Reads, Packet, Advance, Receive
<1>6. QED BY <1>1, <1>2, <1>3, <1>4, <1>5 DEF IInv

(* A packet of sound.                                                      *)
LEMMA ReadAudioKeeps ==
  ASSUME IInv, ReadAudio
  PROVE  IInv'
<1>1. DemuxOK'
  BY FilmFacts DEF IInv, DemuxOK, ReadAudio, Reads, Packet, Advance
<1>2. ThreadOK'
  <2>1. demux.pos + demux.offset \in 0..MaxClock
    BY FilmFacts DEF IInv, DemuxOK, ReadAudio, Reads
  <2>2. thread' = At("top") \/ thread' = Held("audio", demux.pos + demux.offset, FALSE)
    BY Zenon DEF ReadAudio
  <2>3. \E draining \in BOOLEAN :
          thread' = At("top") \/ thread' = Held("audio", demux.pos + demux.offset, draining)
    BY <2>2, Zenon
  <2>4. QED BY <2>1, <2>3, GotoIsPlaced, HeldIsPlaced DEF ThreadOK, Places
<1>3. PassesCounted'
  BY FilmFacts, PassFacts DEF IInv, DemuxOK, ClockOK, PassesCounted, ReadAudio, Reads,
      Packet, Advance
<1>4. OneByOne'
  BY DEF IInv, CtlOK, DemuxOK, OneByOne, RingOrdered, TakenIsQueued, OneSeek, Ordering,
      CarryingOut, At, Held, ReadAudio,
      Reads, Packet, Advance
<1>5. /\ CtlOK' /\ RingOK' /\ AudioOK' /\ SubsOK' /\ ClockOK' /\ MainOK' /\ RingBounded'
      /\ TakenIsAhead'
  BY DEF IInv, CtlOK, RingOK, AudioOK, SubsOK, ClockOK, MainOK, RingBounded,
      TakenIsAhead, Fill, ReadAudio, Reads, Packet, Advance
<1>6. QED BY <1>1, <1>2, <1>3, <1>4, <1>5 DEF IInv

(* A cue.                                                                  *)
LEMMA ReadSubtitleKeeps ==
  ASSUME IInv, ReadSubtitle
  PROVE  IInv'
<1>1. SubsOK'
  BY DEF IInv, SubsOK, ReadSubtitle, Reads, Packet, Advance, Goto
<1>2. DemuxOK'
  BY FilmFacts DEF IInv, DemuxOK, ReadSubtitle, Reads, Packet, Advance, Goto
<1>3. ThreadOK'
  BY FilmFacts, GotoIsPlaced, HeldIsPlaced DEF IInv, ThreadOK, Places, ReadSubtitle,
      Reads, Packet, Advance, Goto
<1>4. PassesCounted'
  BY FilmFacts, PassFacts DEF IInv, DemuxOK, ClockOK, PassesCounted, ReadSubtitle,
      Reads, Packet, Advance, Goto
<1>5. OneByOne'
  BY DEF IInv, CtlOK, DemuxOK, OneByOne, RingOrdered, TakenIsQueued, OneSeek, Ordering,
      CarryingOut, At, ReadSubtitle, Reads,
      Packet, Advance, Goto
<1>6. CtlOK' /\ RingOK' /\ AudioOK' /\ ClockOK' /\ MainOK' /\ RingBounded' /\ TakenIsAhead'
  BY DEF IInv, CtlOK, RingOK, AudioOK, ClockOK, MainOK, RingBounded, TakenIsAhead,
      Fill, ReadSubtitle, Reads, Packet, Advance, Goto
<1>7. QED BY <1>1, <1>2, <1>3, <1>4, <1>5, <1>6 DEF IInv

(* The end of the film.                                                    *)
LEMMA ReadEndKeeps ==
  ASSUME IInv, ReadEnd
  PROVE  IInv'
<1>1. DemuxOK'
  BY FilmFacts DEF IInv, DemuxOK, ReadEnd, Reads, Advance, Receive
<1>2. ThreadOK'
  <2>1. DemuxOK /\ demux.delayed \in {0} \cup VideoPackets /\ Receive(demux.delayed, TRUE)
    BY DEF IInv, DemuxOK, ReadEnd
  <2>2. QED BY <2>1, ReceivePlaces DEF ThreadOK
<1>3. PassesCounted'
  BY FilmFacts, PassFacts DEF IInv, DemuxOK, ClockOK, PassesCounted, ReadEnd, Reads,
      Advance, Receive
<1>4. OneByOne'
  BY DEF IInv, CtlOK, DemuxOK, OneByOne, RingOrdered, TakenIsQueued, OneSeek, Ordering,
      CarryingOut, At, Held, ReadEnd, Reads,
      Advance, Receive
<1>5. /\ CtlOK' /\ RingOK' /\ AudioOK' /\ SubsOK' /\ ClockOK' /\ MainOK' /\ RingBounded'
      /\ TakenIsAhead'
  BY DEF IInv, CtlOK, RingOK, AudioOK, SubsOK, ClockOK, MainOK, RingBounded,
      TakenIsAhead, Fill, ReadEnd, Reads, Advance, Receive
<1>6. QED BY <1>1, <1>2, <1>3, <1>4, <1>5 DEF IInv

(* A read that fails.                                                      *)
LEMMA ReadFailsKeeps ==
  ASSUME IInv, ReadFails
  PROVE  IInv'
<1>1. CtlOK'
  BY DEF IInv, CtlOK, ReadFails, Fatal, Goto
<1>2. ThreadOK'
  BY FilmFacts, GotoIsPlaced, HeldIsPlaced DEF IInv, ThreadOK, Places, ReadFails, Fatal,
      Goto
<1>3. OneByOne'
  BY DEF IInv, CtlOK, DemuxOK, OneByOne, RingOrdered, TakenIsQueued, OneSeek, Ordering,
      CarryingOut, At, ReadFails, Fatal, Goto
<1>4. /\ RingOK' /\ AudioOK' /\ SubsOK' /\ DemuxOK' /\ ClockOK' /\ MainOK'
      /\ PassesCounted' /\ RingBounded' /\ TakenIsAhead'
  BY DEF IInv, RingOK, AudioOK, SubsOK, DemuxOK, ClockOK, MainOK, PassesCounted,
      RingBounded, TakenIsAhead, Fill, ReadFails, Fatal, Goto
<1>5. QED BY <1>1, <1>2, <1>3, <1>4 DEF IInv

(* A frame goes into a slot that is free.                                  *)
LEMMA WriteFrameKeeps ==
  ASSUME IInv, WriteFrame
  PROVE  IInv'
<1>1. RingOK'
  <2>1. thread.pts \in 0..MaxClock
    BY FilmFacts DEF IInv, ThreadOK, WellPlaced, WriteFrame
  <2>2. [ring.pts EXCEPT ![ring.write % RingSlots] = thread.pts] \in [0..(RingSlots - 1) -> 0..MaxClock]
    BY <2>1 DEF IInv, RingOK
  <2>3. ring.write + 1 \in Nat
    BY DEF IInv, RingOK
  <2>4. QED BY <2>2, <2>3 DEF IInv, RingOK, WriteFrame
<1>2. ThreadOK'
  <2>1. /\ thread' = Held("enqueued", thread.pts, thread.draining)
        /\ thread.pts \in 0..MaxClock /\ thread.draining \in BOOLEAN
    BY FilmFacts DEF IInv, ThreadOK, WellPlaced, WriteFrame
  <2>2. QED BY <2>1, HeldIsPlaced DEF ThreadOK, Places
<1>3. RingBounded'
  <2>1. ring'.read = ring.read /\ ring'.write = ring.write + 1
    BY DEF IInv, RingOK, WriteFrame
  <2>2. ring.write - ring.read \in 0..(RingSlots - 1)
    BY DEF WriteFrame, SlotFree, Fill
  <2>3. QED BY <2>1, <2>2, FilmFacts DEF IInv, RingOK, RingBounded, Fill
<1>4. TakenIsAhead'
  BY DEF IInv, RingOK, TakenIsAhead, WriteFrame, SlotFree
<1>5. OneByOne'
  <2>1. /\ thread.pc = "video" /\ thread'.pc = "enqueued"
        /\ ring'.read = ring.read /\ ring'.write = ring.write + 1
        /\ UNCHANGED <<ctl, demux, main, overlapped>>
    BY DEF IInv, RingOK, Held, WriteFrame
  <2>2. /\ ring.read \in Nat /\ ring.write \in Nat
        /\ main.pc = "present" => main.take \in Nat
    BY DEF IInv, RingOK, TakenIsAhead
  <2>3. QED BY <2>1, <2>2
      DEF IInv, OneByOne, RingOrdered, TakenIsQueued, OneSeek, Ordering, CarryingOut
<1>6. CtlOK' /\ AudioOK' /\ SubsOK' /\ DemuxOK' /\ ClockOK' /\ MainOK' /\ PassesCounted'
  BY DEF IInv, CtlOK, AudioOK, SubsOK, DemuxOK, ClockOK, MainOK, PassesCounted,
      WriteFrame, SlotFree
<1>7. QED BY <1>1, <1>2, <1>3, <1>4, <1>5, <1>6 DEF IInv

(* Scaling fails.                                                          *)
LEMMA ScaleFailsKeeps ==
  ASSUME IInv, ScaleFails
  PROVE  IInv'
<1>1. CtlOK'
  BY DEF IInv, CtlOK, ScaleFails, Fatal, Goto
<1>2. ThreadOK'
  BY FilmFacts, GotoIsPlaced, HeldIsPlaced DEF IInv, ThreadOK, Places, ScaleFails,
      Fatal, Goto
<1>3. OneByOne'
  BY DEF IInv, CtlOK, DemuxOK, OneByOne, RingOrdered, TakenIsQueued, OneSeek, Ordering,
      CarryingOut, At, ScaleFails, Fatal, Goto
<1>4. /\ RingOK' /\ AudioOK' /\ SubsOK' /\ DemuxOK' /\ ClockOK' /\ MainOK'
      /\ PassesCounted' /\ RingBounded' /\ TakenIsAhead'
  BY DEF IInv, RingOK, AudioOK, SubsOK, DemuxOK, ClockOK, MainOK, PassesCounted,
      RingBounded, TakenIsAhead, Fill, ScaleFails, Fatal, Goto
<1>5. QED BY <1>1, <1>2, <1>3, <1>4 DEF IInv

(* The seek that converges is the one that was carried out.                *)
LEMMA EndSeekKeeps ==
  ASSUME IInv, EndSeek
  PROVE  IInv'
<1>1. CtlOK'
  BY DEF IInv, CtlOK, EndSeek, Goto
<1>2. ThreadOK'
  BY FilmFacts, GotoIsPlaced, HeldIsPlaced DEF IInv, ThreadOK, Places, EndSeek, Goto
<1>3. OneByOne'
  BY DEF IInv, CtlOK, DemuxOK, OneByOne, RingOrdered, TakenIsQueued, OneSeek, Ordering,
      CarryingOut, At, EndSeek, Goto
<1>4. /\ RingOK' /\ AudioOK' /\ SubsOK' /\ DemuxOK' /\ ClockOK' /\ MainOK'
      /\ PassesCounted' /\ RingBounded' /\ TakenIsAhead'
  BY DEF IInv, RingOK, AudioOK, SubsOK, DemuxOK, ClockOK, MainOK, PassesCounted,
      RingBounded, TakenIsAhead, Fill, EndSeek, Goto
<1>5. QED BY <1>1, <1>2, <1>3, <1>4 DEF IInv

(* What was sought is forgotten once it was found.                         *)
LEMMA SettleKeeps ==
  ASSUME IInv, Settle
  PROVE  IInv'
<1>1. DemuxOK'
  BY FilmFacts DEF IInv, DemuxOK, Settle, Goto
<1>2. ThreadOK'
  BY FilmFacts, GotoIsPlaced, HeldIsPlaced DEF IInv, ThreadOK, Places, Settle, Goto
<1>3. PassesCounted'
  BY FilmFacts, PassFacts DEF IInv, DemuxOK, ClockOK, PassesCounted, Settle, Goto
<1>4. OneByOne'
  BY DEF IInv, CtlOK, DemuxOK, OneByOne, RingOrdered, TakenIsQueued, OneSeek, Ordering,
      CarryingOut, At, Settle, Goto
<1>5. /\ CtlOK' /\ RingOK' /\ AudioOK' /\ SubsOK' /\ ClockOK' /\ MainOK' /\ RingBounded'
      /\ TakenIsAhead'
  BY DEF IInv, CtlOK, RingOK, AudioOK, SubsOK, ClockOK, MainOK, RingBounded,
      TakenIsAhead, Fill, Settle, Goto
<1>6. QED BY <1>1, <1>2, <1>3, <1>4, <1>5 DEF IInv

(* A packet of sound goes where there is room.                             *)
LEMMA WriteAudioKeeps ==
  ASSUME IInv, WriteAudio
  PROVE  IInv'
<1>1. AudioOK'
  <2>1. audio.queued + 1 \in 0..AudioCap
    BY FilmFacts DEF IInv, AudioOK, WriteAudio, AudioRoom
  <2>2. QED BY <2>1 DEF AudioOK, WriteAudio
<1>2. ThreadOK'
  BY FilmFacts, GotoIsPlaced, HeldIsPlaced DEF IInv, ThreadOK, Places, WriteAudio,
      AudioRoom, Goto
<1>3. OneByOne'
  BY DEF IInv, CtlOK, DemuxOK, OneByOne, RingOrdered, TakenIsQueued, OneSeek, Ordering,
      CarryingOut, At, WriteAudio,
      AudioRoom, Goto
<1>4. /\ CtlOK' /\ RingOK' /\ SubsOK' /\ DemuxOK' /\ ClockOK' /\ MainOK'
      /\ PassesCounted' /\ RingBounded' /\ TakenIsAhead'
  BY DEF IInv, CtlOK, RingOK, SubsOK, DemuxOK, ClockOK, MainOK, PassesCounted,
      RingBounded, TakenIsAhead, Fill, WriteAudio, AudioRoom, Goto
<1>5. QED BY <1>1, <1>2, <1>3, <1>4 DEF IInv

(* Waiting is given up.                                                    *)
LEMMA GiveUpKeeps ==
  ASSUME IInv, GiveUp
  PROVE  IInv'
<1>1. ThreadOK'
  BY FilmFacts, GotoIsPlaced, HeldIsPlaced DEF IInv, ThreadOK, Places, GiveUp, Goto
<1>2. OneByOne'
  BY DEF IInv, CtlOK, DemuxOK, OneByOne, RingOrdered, TakenIsQueued, OneSeek, Ordering,
      CarryingOut, At, GiveUp, Goto
<1>3. /\ CtlOK' /\ RingOK' /\ AudioOK' /\ SubsOK' /\ DemuxOK' /\ ClockOK' /\ MainOK'
      /\ PassesCounted' /\ RingBounded' /\ TakenIsAhead'
  BY DEF IInv, CtlOK, RingOK, AudioOK, SubsOK, DemuxOK, ClockOK, MainOK, PassesCounted,
      RingBounded, TakenIsAhead, Fill, GiveUp, Goto
<1>4. QED BY <1>1, <1>2, <1>3 DEF IInv

(* The end of the last pass.                                               *)
LEMMA FinishKeeps ==
  ASSUME IInv, Finish
  PROVE  IInv'
<1>1. CtlOK'
  BY DEF IInv, CtlOK, Finish, Goto
<1>2. DemuxOK'
  BY FilmFacts DEF IInv, DemuxOK, Finish, Goto
<1>3. ThreadOK'
  BY FilmFacts, GotoIsPlaced, HeldIsPlaced DEF IInv, ThreadOK, Places, Finish, Goto
<1>4. PassesCounted'
  BY FilmFacts, PassFacts DEF IInv, DemuxOK, ClockOK, PassesCounted, Finish, Goto
<1>5. OneByOne'
  BY DEF IInv, CtlOK, DemuxOK, OneByOne, RingOrdered, TakenIsQueued, OneSeek, Ordering,
      CarryingOut, At, Finish, Goto
<1>6. /\ RingOK' /\ AudioOK' /\ SubsOK' /\ ClockOK' /\ MainOK' /\ RingBounded'
      /\ TakenIsAhead'
  BY DEF IInv, RingOK, AudioOK, SubsOK, ClockOK, MainOK, RingBounded, TakenIsAhead,
      Fill, Finish, Goto
<1>7. QED BY <1>1, <1>2, <1>3, <1>4, <1>5, <1>6 DEF IInv

(* Another pass over the film, counted.                                    *)
LEMMA WrapKeeps ==
  ASSUME IInv, Wrap
  PROVE  IInv'
<1>1. /\ thread.pc = "drained" /\ thread' = At("top")
      /\ UNCHANGED <<ring, audio, main, clock, shown, overlapped>>
  BY DEF Wrap, Fatal, Goto
<1>2. CtlOK' /\ SubsOK'
  BY DEF IInv, CtlOK, SubsOK, Wrap, Fatal, SeekContainer
<1>3. /\ ctl'.seekRequested = ctl.seekRequested /\ ctl'.seeking = ctl.seeking
  BY DEF IInv, CtlOK, Wrap, Fatal
<1>4. /\ turns \in 0..MaxTurns /\ demux.offset <= Duration * turns
      /\ Duration * turns <= Duration * MaxTurns /\ Duration * turns \in Nat
      /\ Duration * (turns + 1) = Duration * turns + Duration
  BY PassFacts DEF IInv, ClockOK, PassesCounted
<1>5. DemuxOK' /\ turns' \in 0..MaxTurns /\ PassesCounted' /\ demux'.drop = -1
  <2>1. CASE turns < MaxTurns /\ turns' = turns + 1
             /\ SeekContainer(0, [demux EXCEPT !.drop = -1, !.offset = NextPass])
    <3>1. turns' \in 0..MaxTurns
      BY <1>4, <2>1, FilmFacts
    <3>2. NextPass \in 0..(Duration * MaxTurns) /\ NextPass <= Duration * turns'
      <4>1. NextPass <= Duration * turns'
        BY <1>4, <2>1, FilmFacts DEF IInv, DemuxOK, NextPass
      <4>2. Duration * turns' <= Duration * MaxTurns /\ Duration * turns' \in Nat
        BY <3>1, PassFacts
      <4>3. NextPass \in Nat
        BY FilmFacts DEF IInv, DemuxOK, NextPass
      <4>4. QED BY <4>1, <4>2, <4>3, FilmFacts
    <3>3. [demux EXCEPT !.drop = -1, !.offset = NextPass]
            \in [pos : 1..(Duration + 1), delayed : {0} \cup VideoPackets,
                 drop : -1..Duration, offset : 0..(Duration * MaxTurns)]
      <4>1. -1 \in -1..Duration
        BY FilmFacts
      <4>2. QED BY <3>2, <4>1 DEF IInv, DemuxOK
    <3>4. /\ [demux EXCEPT !.drop = -1, !.offset = NextPass].drop = -1
          /\ [demux EXCEPT !.drop = -1, !.offset = NextPass].offset = NextPass
      BY DEF IInv, DemuxOK
    <3>5. DemuxOK' /\ demux'.drop = -1 /\ demux'.offset = NextPass
      BY <2>1, <3>3, <3>4, SeekLands
    <3>6. QED BY <3>1, <3>2, <3>5 DEF PassesCounted
  <2>2. CASE turns' = turns /\ demux' = [demux EXCEPT !.drop = -1, !.delayed = 0]
    <3>1. DemuxOK' /\ demux'.drop = -1 /\ demux'.offset = demux.offset
      <4>1. -1 \in -1..Duration /\ 0 \in {0} \cup VideoPackets
        BY FilmFacts
      <4>2. QED BY <2>2, <4>1 DEF IInv, DemuxOK
    <3>2. QED BY <1>4, <2>2, <3>1 DEF PassesCounted
  <2>3. QED BY <2>1, <2>2 DEF Wrap
<1>6. ClockOK'
  BY <1>1, <1>5 DEF IInv, ClockOK
<1>7. ThreadOK' /\ thread'.pc = "top"
  BY <1>1, GotoIsPlaced DEF ThreadOK, Places
<1>8. OneByOne'
  BY <1>1, <1>3, <1>5, <1>7 DEF IInv, OneByOne, RingOrdered, TakenIsQueued, OneSeek,
      Ordering, CarryingOut
<1>9. RingOK' /\ AudioOK' /\ MainOK' /\ RingBounded' /\ TakenIsAhead'
  BY <1>1 DEF IInv, RingOK, AudioOK, MainOK, RingBounded, Fill, TakenIsAhead
<1>10. QED BY <1>2, <1>5, <1>6, <1>7, <1>8, <1>9 DEF IInv

(* The clock moves on to the next frame.                                   *)
LEMMA TickKeeps ==
  ASSUME IInv, Tick
  PROVE  IInv'
<1>1. ClockOK'
  <2>1. PICK k \in VideoPackets, pass \in 0..MaxTurns : clock' = k + Duration * pass
    BY DEF Tick, FrameTimes
  <2>2. clock' \in 0..MaxClock
    BY <2>1, FilmFacts, PassFacts
  <2>3. QED BY <2>2 DEF IInv, ClockOK, Tick
<1>2. PassesCounted'
  BY FilmFacts, PassFacts DEF IInv, DemuxOK, ClockOK, PassesCounted, Tick
<1>3. /\ CtlOK' /\ RingOK' /\ AudioOK' /\ SubsOK' /\ DemuxOK' /\ ThreadOK' /\ MainOK'
      /\ RingBounded' /\ TakenIsAhead' /\ OneByOne'
  BY DEF IInv, CtlOK, RingOK, AudioOK, SubsOK, DemuxOK, ThreadOK, MainOK, RingBounded,
      TakenIsAhead, OneByOne, RingOrdered, TakenIsQueued, OneSeek, Ordering, CarryingOut, Fill, Tick
<1>4. QED BY <1>1, <1>2, <1>3 DEF IInv

(* Sound is played.                                                        *)
LEMMA RenderKeeps ==
  ASSUME IInv, Render
  PROVE  IInv'
<1>1. AudioOK'
  <2>1. audio.queued - 1 \in 0..AudioCap
    BY FilmFacts DEF IInv, AudioOK, Render
  <2>2. QED BY <2>1 DEF IInv, AudioOK, Render
<1>2. /\ CtlOK' /\ RingOK' /\ SubsOK' /\ DemuxOK' /\ ClockOK' /\ ThreadOK' /\ MainOK'
      /\ PassesCounted' /\ RingBounded' /\ TakenIsAhead' /\ OneByOne'
  BY DEF IInv, CtlOK, RingOK, SubsOK, DemuxOK, ClockOK, ThreadOK, MainOK, PassesCounted,
      RingBounded, TakenIsAhead, OneByOne, RingOrdered, TakenIsQueued, OneSeek, Ordering,
      CarryingOut, Fill, Render
<1>3. QED BY <1>1, <1>2 DEF IInv

(* Bytes arrive.                                                           *)
LEMMA FeedKeeps ==
  ASSUME IInv, Feed
  PROVE  IInv'
<1>1. ThreadOK'
  BY FilmFacts, GotoIsPlaced, HeldIsPlaced DEF IInv, ThreadOK, Places, Feed, Goto, Idle
<1>2. OneByOne'
  BY DEF IInv, CtlOK, DemuxOK, OneByOne, RingOrdered, TakenIsQueued, OneSeek, Ordering,
      CarryingOut, At, Feed, Goto, Idle
<1>3. /\ CtlOK' /\ RingOK' /\ AudioOK' /\ SubsOK' /\ DemuxOK' /\ ClockOK' /\ MainOK'
      /\ PassesCounted' /\ RingBounded' /\ TakenIsAhead'
  BY DEF IInv, CtlOK, RingOK, AudioOK, SubsOK, DemuxOK, ClockOK, MainOK, PassesCounted,
      RingBounded, TakenIsAhead, Fill, Feed, Goto, Idle
<1>4. QED BY <1>1, <1>2, <1>3 DEF IInv

-----------------------------------------------------------------------------
(* Every step keeps the invariant.                                         *)
LEMMA InvStep == IInv /\ [Next]_vars => IInv'
<1>1. SUFFICES ASSUME IInv, [Next]_vars PROVE IInv'
  OBVIOUS
<1>2. ASSUME MainThread PROVE IInv'
  <2>1. CASE Open
    BY <1>1, <2>1, OpenKeeps
  <2>2. CASE Play
    BY <1>1, <2>2, PlayKeeps
  <2>3. CASE Pause
    BY <1>1, <2>3, PauseKeeps
  <2>4. CASE SeekInPlace
    BY <1>1, <2>4, SeekInPlaceKeeps
  <2>5. CASE OrderSeek
    BY <1>1, <2>5, OrderSeekKeeps
  <2>6. CASE LookAtRing
    BY <1>1, <2>6, LookAtRingKeeps
  <2>7. CASE TakeFrame
    BY <1>1, <2>7, TakeFrameKeeps
  <2>8. CASE Destroy
    BY <1>1, <2>8, DestroyKeeps
  <2>9. CASE Join
    BY <1>1, <2>9, JoinKeeps
  <2>10. ASSUME NEW loop \in BOOLEAN, SetLoop(loop) PROVE IInv'
    BY <1>1, <2>10, SetLoopKeeps
  <2>11. ASSUME NEW to \in Targets, Seek(to) PROVE IInv'
    BY <1>1, <2>11, SeekKeeps
  <2>12. ASSUME NEW id \in Subtitles, SelectSubtitle(id) PROVE IInv'
    BY <1>1, <2>12, SelectSubtitleKeeps
  <2>13. QED BY <1>2, <2>1, <2>2, <2>3, <2>4, <2>5, <2>6, <2>7, <2>8, <2>9, <2>10,
      <2>11, <2>12 DEF MainThread
<1>3. ASSUME DecodeThread PROVE IInv'
  <2>1. CASE Exit
    BY <1>1, <2>1, ExitKeeps
  <2>2. CASE TakeSeek
    BY <1>1, <2>2, TakeSeekKeeps
  <2>3. CASE StartRead
    BY <1>1, <2>3, StartReadKeeps
  <2>4. CASE TakeTarget
    BY <1>1, <2>4, TakeTargetKeeps
  <2>5. CASE Reset
    BY <1>1, <2>5, ResetKeeps
  <2>6. CASE ReadVideo
    BY <1>1, <2>6, ReadVideoKeeps
  <2>7. CASE ReadAudio
    BY <1>1, <2>7, ReadAudioKeeps
  <2>8. CASE ReadSubtitle
    BY <1>1, <2>8, ReadSubtitleKeeps
  <2>9. CASE ReadEnd
    BY <1>1, <2>9, ReadEndKeeps
  <2>10. CASE ReadFails
    BY <1>1, <2>10, ReadFailsKeeps
  <2>11. CASE WriteFrame
    BY <1>1, <2>11, WriteFrameKeeps
  <2>12. CASE ScaleFails
    BY <1>1, <2>12, ScaleFailsKeeps
  <2>13. CASE EndSeek
    BY <1>1, <2>13, EndSeekKeeps
  <2>14. CASE Settle
    BY <1>1, <2>14, SettleKeeps
  <2>15. CASE WriteAudio
    BY <1>1, <2>15, WriteAudioKeeps
  <2>16. CASE GiveUp
    BY <1>1, <2>16, GiveUpKeeps
  <2>17. CASE Finish
    BY <1>1, <2>17, FinishKeeps
  <2>18. CASE Wrap
    BY <1>1, <2>18, WrapKeeps
  <2>19. QED BY <1>3, <2>1, <2>2, <2>3, <2>4, <2>5, <2>6, <2>7, <2>8, <2>9, <2>10,
      <2>11, <2>12, <2>13, <2>14, <2>15, <2>16, <2>17, <2>18 DEF DecodeThread
<1>4. CASE Tick \/ Render \/ Feed
  BY <1>1, <1>4, TickKeeps, RenderKeeps, FeedKeeps
<1>5. CASE UNCHANGED vars
  BY <1>1, <1>5 DEF vars, IInv, CtlOK, RingOK, AudioOK, SubsOK, DemuxOK, ClockOK, ThreadOK,
    WellPlaced, MainOK, PassesCounted, RingBounded, Fill, TakenIsAhead, OneByOne, RingOrdered,
    TakenIsQueued, OneSeek, Ordering,
    CarryingOut
<1>6. QED BY <1>1, <1>2, <1>3, <1>4, <1>5 DEF Next

(* A decoder starts with an empty ring, no seek and the thread not there.  *)
LEMMA InvInit == Init => IInv
<1>1. SUFFICES ASSUME Init PROVE IInv
  OBVIOUS
<1>2. CtlOK /\ AudioOK /\ SubsOK
  BY <1>1, FilmFacts, DecoderAssumption DEF Init, CtlOK, AudioOK, SubsOK
<1>3. RingOK /\ RingBounded
  BY <1>1, FilmFacts DEF Init, RingOK, RingBounded, Fill
<1>4. DemuxOK /\ ClockOK
  BY <1>1, FilmFacts DEF Init, DemuxOK, ClockOK
<1>5. ThreadOK /\ thread.pc = "exited"
  BY <1>1, GotoIsPlaced DEF Init, ThreadOK, Places
<1>6. PassesCounted
  BY <1>1, FilmFacts DEF Init, PassesCounted
<1>7. MainOK /\ TakenIsAhead /\ main.pc = "opening"
  BY <1>1 DEF Init, MainOK, TakenIsAhead
<1>8. OneByOne
  <2>1. ring.read = 0 /\ ring.write = 0 /\ ~ctl.seekRequested /\ overlapped = FALSE
    BY <1>1 DEF Init
  <2>2. RingOrdered /\ TakenIsQueued
    BY <1>7, <2>1 DEF RingOrdered, TakenIsQueued
  <2>3. OneSeek
    BY <1>5, <1>7, <2>1 DEF OneSeek, Ordering, CarryingOut
  <2>4. QED BY <2>1, <2>2, <2>3, Zenon DEF OneByOne
<1>9. QED BY <1>2, <1>3, <1>4, <1>5, <1>6, <1>7, <1>8 DEF IInv

(* Under any seeks, the ring that two threads share without a lock never   *)
(* holds more than its slots; and as long as no seek was given before the  *)
(* thread was done with the last one, its ends do not cross and a seek     *)
(* that resets both ends has it to itself (media-decoder.cc:336-341,       *)
(* 546-549), for every film, every size of the ring and of the audio       *)
(* stream, and every number of seeks, track changes and wraps.             *)
THEOREM RingStaysConsistent == Spec => []RingConsistent
<1>1. IInv => RingConsistent
  <2>1. IInv => DecoderTypeOK
    BY DEF IInv, DecoderTypeOK, CtlOK, RingOK, AudioOK, SubsOK, DemuxOK, ClockOK
  <2>2. IInv => (~overlapped => RingOrdered /\ SeekOwnsRing)
    BY DEF IInv, OneByOne, OneSeek, CarryingOut, SeekOwnsRing
  <2>3. QED BY <2>1, <2>2 DEF IInv, RingConsistent
<1>2. QED BY <1>1, InvInit, InvStep, PTL DEF Spec
===============================================================================
