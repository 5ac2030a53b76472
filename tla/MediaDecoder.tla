----------------------------- MODULE MediaDecoder -----------------------------
(***************************************************************************)
(* The playback pipeline of src/runtime/nxjs/source/media-decoder.cc: the  *)
(* main thread gives commands through atomics and takes frames out of a    *)
(* ring; the decode thread demuxes, decodes into the ring and into the     *)
(* audio stream, and carries the commands out when it gets to them.  Every *)
(* step between two looks at shared state is an action.                    *)
(*                                                                         *)
(* A resource is a sequence of packets, each at the time of its index; the *)
(* video codec returns a frame one packet late, so that there is something *)
(* to drain at the end.  Pixels, samples and codecs are left out.          *)
(***************************************************************************)
EXTENDS Integers, Sequences

CONSTANTS
  Packets,    \* the kinds of the packets: "v", "a" or "s"
  Keyframes,  \* the packets a container seek can land on
  RingSlots,  \* RING_SLOTS
  AudioCap,   \* capacity of the audio stream, in packets
  Slack,      \* half a frame: how far before a target a frame still counts
  Subtitles,  \* the supported subtitle tracks, Off among them
  Off,        \* no subtitle track
  Targets,    \* the times sought
  MaxTurns    \* bound: seeks, those of track changes included, and wraps

ASSUME DecoderAssumption ==
  /\ Packets \in Seq({"v", "a", "s"})
  /\ Keyframes \subseteq 1..Len(Packets) /\ 1 \in Keyframes
  /\ RingSlots \in Nat \ {0} /\ AudioCap \in Nat \ {0} /\ Slack \in Nat
  /\ Off \in Subtitles
  /\ Targets \subseteq 1..Len(Packets)
  /\ MaxTurns \in Nat

Duration == Len(Packets)
VideoPackets == {k \in 1..Duration : Packets[k] = "v"}
NoRequest == "none" \* requested_subtitle is -2

VARIABLES
  ctl,      \* the atomics both threads use
  ring,     \* the video ring: vread, vwrite and the time in each slot
  audio,    \* the audio stream: packets queued, and audio_clock_valid
  subs,     \* requested and selected subtitle track, and the cues kept
  thread,   \* the decode thread: where it is, and the frame it holds
  demux,    \* its position, codec delay, seek_drop_until and loop_offset
  main,     \* the main thread: idle, or inside a call
  clock,    \* the media clock
  shown,    \* time of the frame presented last since the last seek, or -1
  turns,    \* seeks given and wraps taken
  overlapped  \* history: was a seek given before the thread was done with the last?

vars == <<ctl, ring, audio, subs, thread, demux, main, clock, shown, turns, overlapped>>

Idle == [pc |-> "idle"]
At(pc) == [pc |-> pc, pts |-> -1, draining |-> FALSE]
Held(pc, pts, draining) == [pc |-> pc, pts |-> pts, draining |-> draining]

EmptyRing == [read |-> 0, write |-> 0]
Fill == ring.write - ring.read
MaxClock == Duration * (MaxTurns + 1)

-----------------------------------------------------------------------------
(* The main thread. *)

(* nx_media_open probes the resource and starts the thread, or gives       *)
(* everything back, its source closed.                                     *)
Open ==
  /\ main.pc = "opening"
  /\ \/ /\ main' = Idle
        /\ thread' = At("top")
        /\ UNCHANGED ctl
     \/ /\ main' = [pc |-> "gone"]
        /\ ctl' = [ctl EXCEPT !.quit = TRUE, !.closed = TRUE]
        /\ UNCHANGED thread
  /\ UNCHANGED <<ring, audio, subs, demux, clock, shown, turns, overlapped>>

Play ==
  /\ main = Idle /\ ~ctl.playing
  /\ ctl' = [ctl EXCEPT !.playing = TRUE]
  /\ UNCHANGED <<ring, audio, subs, thread, demux, main, clock, shown, turns, overlapped>>

Pause ==
  /\ main = Idle /\ ctl.playing
  /\ ctl' = [ctl EXCEPT !.playing = FALSE]
  /\ UNCHANGED <<ring, audio, subs, thread, demux, main, clock, shown, turns, overlapped>>

SetLoop(loop) ==
  /\ main = Idle
  /\ ctl' = [ctl EXCEPT !.looping = loop]
  /\ UNCHANGED <<ring, audio, subs, thread, demux, main, clock, shown, turns, overlapped>>

(* A seek may be given at any time.  It overlaps the last one if the       *)
(* thread has not noticed yet that that one converged, or came to the end. *)
Settled == ~ctl.seekRequested /\ demux.drop < 0 /\ thread.pc \notin {"seek", "reset"}
MaySeek ==
  /\ main = Idle /\ turns < MaxTurns
  /\ turns' = turns + 1
  /\ overlapped' = (overlapped \/ ~Settled)

(* nx_media_seek: `seeking` is raised first, the command itself last.      *)
RaiseNothing(to) == \* mutant: the ring is left open until the command is given
  /\ clock' = to
  /\ main' = [pc |-> "seek", to |-> to]
  /\ shown' = -1
  /\ UNCHANGED ctl
RaiseSeeking(to) ==
  /\ ctl' = [ctl EXCEPT !.seeking = TRUE]
  /\ clock' = to
  /\ main' = [pc |-> "seek", to |-> to]
  /\ shown' = -1

Seek(to) ==
  /\ MaySeek
  /\ RaiseSeeking(to)
  /\ UNCHANGED <<ring, audio, subs, thread, demux>>

OrderSeek ==
  /\ main.pc = "seek"
  /\ ctl' = [ctl EXCEPT !.target = main.to, !.seekRequested = TRUE]
  /\ main' = Idle
  /\ UNCHANGED <<ring, audio, subs, thread, demux, clock, shown, turns, overlapped>>

CurrentTime == IF ctl.seeking THEN ctl.target
               ELSE IF ctl.looping THEN clock % Duration
               ELSE IF clock > Duration THEN Duration ELSE clock

(* nx_media_select_track: the request, then a seek to where playback is.   *)
SelectSubtitle(id) ==
  /\ MaySeek
  /\ subs' = [subs EXCEPT !.requested = id, !.cues = {}]
  /\ main' = [pc |-> "select", to |-> CurrentTime]
  /\ UNCHANGED <<ctl, ring, audio, thread, demux, clock, shown>>
SeekInPlace ==
  /\ main.pc = "select"
  /\ RaiseSeeking(main.to)
  /\ UNCHANGED <<ring, audio, subs, thread, demux, turns, overlapped>>

(* nx_media_present reads the ring's ends, then takes the newest frame     *)
(* that is due, or after a seek the first one at all.                      *)
Due == {i \in ring.read..(ring.write - 1) :
          \A j \in ring.read..i : ring.pts[j % RingSlots] <= clock}
NewestDue == CHOOSE i \in Due : \A j \in Due : j <= i
LookAtRing ==
  /\ main = Idle /\ ~ctl.quit
  /\ ~ctl.seeking /\ ~ctl.fatal
  /\ ring.read < ring.write
  /\ \/ /\ Due # {}
        /\ main' = [pc |-> "present", take |-> NewestDue]
     \/ /\ Due = {} /\ ctl.force
        /\ main' = [pc |-> "present", take |-> ring.read]
  /\ UNCHANGED <<ctl, ring, audio, subs, thread, demux, clock, shown, turns, overlapped>>
TakeFrame ==
  /\ main.pc = "present"
  /\ ring' = [ring EXCEPT !.read = main.take + 1]
  /\ shown' = ring.pts[main.take % RingSlots]
  /\ ctl' = [ctl EXCEPT !.force = FALSE]
  /\ main' = Idle
  /\ UNCHANGED <<audio, subs, thread, demux, clock, turns, overlapped>>

(* nx_media_destroy: the thread is told to quit, a read blocked in the     *)
(* source is woken, and all is freed once the thread has ended.            *)
QuitUnwoken == ctl' = [ctl EXCEPT !.quit = TRUE] \* mutant: the source is not closed
Quit == ctl' = [ctl EXCEPT !.quit = TRUE, !.closed = TRUE]
Destroy ==
  /\ main = Idle /\ ~ctl.quit
  /\ Quit
  /\ main' = [pc |-> "join"]
  /\ UNCHANGED <<ring, audio, subs, thread, demux, clock, shown, turns, overlapped>>
Join ==
  /\ main.pc = "join" /\ thread.pc = "exited"
  /\ main' = [pc |-> "gone"]
  /\ UNCHANGED <<ctl, ring, audio, subs, thread, demux, clock, shown, turns, overlapped>>

(* nx_media_ended, a query. *)
EndedAtEof == ctl.eof /\ ~ctl.looping \* mutant: what is queued is forgotten
Ended ==
  /\ ctl.eof /\ ~ctl.looping
  /\ ring.read = ring.write
  /\ audio.valid => audio.queued = 0

MainThread ==
  \/ Open \/ Play \/ Pause \/ \E loop \in BOOLEAN : SetLoop(loop)
  \/ \E to \in Targets : Seek(to)
  \/ \E id \in Subtitles : SelectSubtitle(id)
  \/ SeekInPlace \/ OrderSeek
  \/ LookAtRing \/ TakeFrame
  \/ Destroy \/ Join

-----------------------------------------------------------------------------
(* The decode thread. *)

InterruptedToQuit == ctl.quit \* mutant: waiting for room ignores a seek
Interrupted == ctl.quit \/ ctl.seekRequested \* what decode_wait looks at

Goto(pc) == thread' = At(pc)

Fatal ==
  /\ ctl' = [ctl EXCEPT !.fatal = TRUE]
  /\ Goto("top")

(* The head of the loop; with `fatal` or `eof` the thread stays parked.    *)
Exit ==
  /\ thread.pc = "top" /\ ctl.quit
  /\ Goto("exited")
  /\ UNCHANGED <<ctl, ring, audio, subs, demux, main, clock, shown, turns, overlapped>>
TakeSeek ==
  /\ thread.pc = "top" /\ ~ctl.quit /\ ctl.seekRequested
  /\ ctl' = [ctl EXCEPT !.seekRequested = FALSE]
  /\ Goto("seek")
  /\ UNCHANGED <<ring, audio, subs, demux, main, clock, shown, turns, overlapped>>
StartRead ==
  /\ thread.pc = "top" /\ ~Interrupted /\ ~ctl.fatal /\ ~ctl.eof
  /\ \E pc \in {"reading", "blocked"} : Goto(pc)
  /\ UNCHANGED <<ctl, ring, audio, subs, demux, main, clock, shown, turns, overlapped>>

(* do_seek, first half: the target and the track requests are read.  A     *)
(* track that cannot be opened leaves the old one.                         *)
TakeTarget ==
  /\ thread.pc = "seek"
  /\ \E opened \in BOOLEAN :
       subs' = [subs EXCEPT !.requested = NoRequest,
                            !.selected = IF subs.requested # NoRequest /\ (opened \/ subs.requested = Off)
                                         THEN subs.requested ELSE subs.selected]
  /\ thread' = Held("reset", ctl.target, FALSE)
  /\ UNCHANGED <<ctl, ring, audio, demux, main, clock, shown, turns, overlapped>>

(* container_seek flushes the codecs and drops the cues, whether or not    *)
(* the container can then be repositioned.                                 *)
SeekContainerKeepingFrames(to, next) == \* mutant: the codec is not flushed
  /\ subs' = [subs EXCEPT !.cues = {}]
  /\ \E k \in Keyframes : (k <= to \/ k = 1) /\ demux' = [next EXCEPT !.pos = k]
SeekContainerKeepingCues(to, next) == \* mutant: the cues are kept
  /\ \E k \in Keyframes : (k <= to \/ k = 1) /\ demux' = [next EXCEPT !.pos = k, !.delayed = 0]
  /\ UNCHANGED subs
SeekContainer(to, next) ==
  /\ subs' = [subs EXCEPT !.cues = {}]
  /\ \E k \in Keyframes : (k <= to \/ k = 1) /\ demux' = [next EXCEPT !.pos = k, !.delayed = 0]

(* do_seek, second half: what is queued is thrown away.                    *)
NotEmptied == ring \* mutant: frames from before the seek stay queued
Emptied == [ring EXCEPT !.read = 0, !.write = 0]
Reset ==
  /\ thread.pc = "reset"
  /\ ring' = Emptied
  /\ audio' = [queued |-> 0, valid |-> FALSE]
  /\ Goto("top")
  /\ \/ /\ SeekContainer(thread.pts, [demux EXCEPT !.drop = thread.pts, !.offset = 0])
        /\ ctl' = [ctl EXCEPT !.eof = FALSE, !.force = TRUE]
     \/ /\ ctl' = [ctl EXCEPT !.eof = FALSE, !.fatal = TRUE, !.seeking = FALSE]
        /\ subs' = [subs EXCEPT !.cues = {}]
        /\ demux' = [demux EXCEPT !.offset = 0, !.delayed = 0]
  /\ UNCHANGED <<main, clock, shown, turns, overlapped>>

(* A frame came out of the codec: receive_frames drops it while it lies    *)
(* before the target of a seek, or holds it for the ring.                  *)
DroppedNever(pts) == FALSE \* mutant
Dropped(pts) == demux.drop >= 0 /\ pts < demux.drop - Slack
Receive(k, draining) ==
  LET pts == k + demux.offset
  IN  thread' = IF k = 0 \/ Dropped(pts)
                THEN At(IF draining THEN "drained" ELSE "settle")
                ELSE Held("video", pts, draining)

(* av_read_frame returned packet `pos`; it fails when the source is closed *)
(* and may fail at any time.                                               *)
Packet == Packets[demux.pos]
Reads(kind) ==
  /\ thread.pc = "reading"
  /\ IF kind = "end" THEN demux.pos > Duration ELSE demux.pos <= Duration /\ Packet = kind
Advance == /\ UNCHANGED <<ctl, ring, audio, main, clock, shown, turns, overlapped>>
ReadVideo ==
  /\ Reads("v")
  /\ Receive(demux.delayed, FALSE)
  /\ demux' = [demux EXCEPT !.pos = demux.pos + 1, !.delayed = demux.pos]
  /\ Advance /\ UNCHANGED subs
ReadAudio ==
  /\ Reads("a")
  /\ thread' = IF demux.drop >= 0 /\ demux.pos + demux.offset < demux.drop THEN At("top")
               ELSE Held("audio", demux.pos + demux.offset, FALSE)
  /\ demux' = [demux EXCEPT !.pos = demux.pos + 1]
  /\ Advance /\ UNCHANGED subs
ReadSubtitle ==
  /\ Reads("s")
  /\ Goto("top")
  /\ demux' = [demux EXCEPT !.pos = demux.pos + 1]
  /\ subs' = IF subs.selected = Off \/ demux.pos + demux.offset < demux.drop THEN subs
             ELSE [subs EXCEPT !.cues = subs.cues \cup {subs.selected}]
  /\ Advance
ReadEnd ==
  /\ Reads("end")
  /\ Receive(demux.delayed, TRUE)
  /\ demux' = [demux EXCEPT !.delayed = 0]
  /\ Advance /\ UNCHANGED subs
ReadFails ==
  /\ thread.pc = "reading" \/ (thread.pc = "blocked" /\ ctl.closed)
  /\ Fatal
  /\ UNCHANGED <<ring, audio, subs, demux, main, clock, shown, turns, overlapped>>

(* enqueue_video waits for a slot (the counters are unsigned: a negative   *)
(* fill is as good as full), then fills it; scaling may fail.              *)
SlotFreeLate == Fill \in 0..RingSlots \* mutant: one frame too many
SlotFree == Fill \in 0..(RingSlots - 1)
WriteFrame ==
  /\ thread.pc = "video" /\ SlotFree
  /\ ring' = [ring EXCEPT !.write = ring.write + 1,
                          !.pts = [ring.pts EXCEPT ![ring.write % RingSlots] = thread.pts]]
  /\ thread' = Held("enqueued", thread.pts, thread.draining)
  /\ UNCHANGED <<ctl, audio, subs, demux, main, clock, shown, turns, overlapped>>
ScaleFails ==
  /\ thread.pc = "video" /\ SlotFree
  /\ Fatal
  /\ UNCHANGED <<ring, audio, subs, demux, main, clock, shown, turns, overlapped>>
(* The first frame on target ends the seek.                                *)
EndSeek ==
  /\ thread.pc = "enqueued"
  /\ ctl' = IF demux.drop >= 0 THEN [ctl EXCEPT !.seeking = FALSE] ELSE ctl
  /\ Goto(IF thread.draining THEN "drained" ELSE "settle")
  /\ UNCHANGED <<ring, audio, subs, demux, main, clock, shown, turns, overlapped>>
Settle ==
  /\ thread.pc = "settle"
  /\ demux' = IF ctl.seeking THEN demux ELSE [demux EXCEPT !.drop = -1]
  /\ Goto("top")
  /\ UNCHANGED <<ctl, ring, audio, subs, main, clock, shown, turns, overlapped>>

AudioRoomLate == audio.queued <= AudioCap \* mutant: one packet too many
AudioRoom == audio.queued < AudioCap
(* enqueue_audio: the first packet after a seek anchors the audio clock.   *)
WriteAudio ==
  /\ thread.pc = "audio" /\ AudioRoom
  /\ audio' = [queued |-> audio.queued + 1, valid |-> TRUE]
  /\ Goto("top")
  /\ UNCHANGED <<ctl, ring, subs, demux, main, clock, shown, turns, overlapped>>

(* Waiting for a slot or for room is given up for a command.               *)
GiveUp ==
  /\ \/ thread.pc = "video" /\ ~SlotFree
     \/ thread.pc = "audio" /\ ~AudioRoom
  /\ Interrupted
  /\ Goto("top")
  /\ UNCHANGED <<ctl, ring, audio, subs, demux, main, clock, shown, turns, overlapped>>

(* Both codecs are drained: stop, or start over with later times.          *)
Finish ==
  /\ thread.pc = "drained" /\ ~ctl.looping
  /\ ctl' = [ctl EXCEPT !.eof = TRUE]
  /\ demux' = [demux EXCEPT !.drop = -1]
  /\ Goto("top")
  /\ UNCHANGED <<ring, audio, subs, main, clock, shown, turns, overlapped>>
SamePass == demux.offset \* mutant: times start over with the pass
NextPass == demux.offset + Duration
Wrap ==
  /\ thread.pc = "drained" /\ ctl.looping
  /\ \/ /\ turns < MaxTurns
        /\ turns' = turns + 1
        /\ SeekContainer(0, [demux EXCEPT !.drop = -1, !.offset = NextPass])
        /\ Goto("top")
        /\ UNCHANGED ctl
     \/ /\ Fatal
        /\ demux' = [demux EXCEPT !.drop = -1, !.delayed = 0]
        /\ subs' = [subs EXCEPT !.cues = {}]
        /\ UNCHANGED turns
  /\ UNCHANGED <<ring, audio, main, clock, shown, overlapped>>

DecodeThread ==
  \/ Exit \/ TakeSeek \/ StartRead
  \/ TakeTarget \/ Reset
  \/ ReadVideo \/ ReadAudio \/ ReadSubtitle \/ ReadEnd \/ ReadFails
  \/ WriteFrame \/ ScaleFails \/ EndSeek \/ Settle
  \/ WriteAudio \/ GiveUp
  \/ Finish \/ Wrap

-----------------------------------------------------------------------------
(* Time passes, from one frame's time to the next, and the audio renderer  *)
(* consumes while playing; the feed provides the bytes a read waits for.   *)
FrameTimes == {k + Duration * pass : k \in VideoPackets, pass \in 0..MaxTurns}
Tick ==
  /\ ctl.playing
  /\ \E t \in FrameTimes :
       /\ clock < t /\ \A s \in FrameTimes : clock < s => t <= s
       /\ clock' = t
  /\ UNCHANGED <<ctl, ring, audio, subs, thread, demux, main, shown, turns, overlapped>>
Render ==
  /\ ctl.playing /\ audio.queued > 0
  /\ audio' = [audio EXCEPT !.queued = audio.queued - 1]
  /\ UNCHANGED <<ctl, ring, subs, thread, demux, main, clock, shown, turns, overlapped>>
Feed ==
  /\ thread.pc = "blocked" /\ main = Idle
  /\ Goto("reading")
  /\ UNCHANGED <<ctl, ring, audio, subs, demux, main, clock, shown, turns, overlapped>>

Init ==
  /\ ctl = [quit |-> FALSE, closed |-> FALSE, playing |-> FALSE, looping |-> FALSE, seekRequested |-> FALSE,
            target |-> 0, seeking |-> FALSE, force |-> FALSE, eof |-> FALSE, fatal |-> FALSE]
  /\ ring = [read |-> 0, write |-> 0, pts |-> [i \in 0..(RingSlots - 1) |-> 0]]
  /\ audio = [queued |-> 0, valid |-> FALSE]
  /\ subs = [requested |-> NoRequest, selected |-> Off, cues |-> {}]
  /\ thread = At("exited")
  /\ demux = [pos |-> 1, delayed |-> 0, drop |-> -1, offset |-> 0]
  /\ main = [pc |-> "opening"]
  /\ clock = 0
  /\ shown = -1
  /\ turns = 0
  /\ overlapped = FALSE

Next == (main.pc # "gone" /\ MainThread) \/ DecodeThread \/ (main.pc # "gone" /\ (Tick \/ Render \/ Feed))

Spec == Init /\ [][Next]_vars

(* The decode thread runs, a call of the main thread comes to its end, and *)
(* the feed answers what the source waits for.                             *)
Fairness ==
  /\ WF_vars(DecodeThread)
  /\ WF_vars(Open \/ OrderSeek \/ SeekInPlace \/ TakeFrame \/ Join)
  /\ WF_vars(Feed)

-----------------------------------------------------------------------------
DecoderTypeOK ==
  /\ ctl \in [quit : BOOLEAN, closed : BOOLEAN, playing : BOOLEAN, looping : BOOLEAN, seekRequested : BOOLEAN,
              target : 0..Duration, seeking : BOOLEAN, force : BOOLEAN, eof : BOOLEAN, fatal : BOOLEAN]
  /\ ring.read \in Nat /\ ring.write \in Nat /\ ring.pts \in [0..(RingSlots - 1) -> 0..MaxClock]
  /\ audio \in [queued : 0..AudioCap, valid : BOOLEAN]
  /\ subs \in [requested : Subtitles \cup {NoRequest}, selected : Subtitles, cues : SUBSET Subtitles]
  /\ demux \in [pos : 1..(Duration + 1), delayed : {0} \cup VideoPackets, drop : -1..Duration,
                offset : 0..(Duration * MaxTurns)]
  /\ clock \in 0..MaxClock /\ shown \in -1..MaxClock /\ turns \in 0..MaxTurns

(* The ring never holds more than its slots, whatever seeks are given,     *)
(* although one side resets the counters of both; that they do not cross   *)
(* either holds as long as seeks are not given on top of each other        *)
(* (media-decoder.cc:336-341, 546-549).                                    *)
RingBounded == Fill <= RingSlots
RingOrdered == ring.read <= ring.write

(* The comment in do_seek: "the main thread is guaranteed not to touch the *)
(* video ring while `seeking` is true", and it is true when the ring is    *)
(* reset (media-decoder.cc:546-547).  Seeks given on top of each other     *)
(* break it.                                                               *)
SeekOwnsRing == thread.pc = "reset" => ctl.seeking /\ main.pc # "present"

(* No frame is being taken while the ring is reset, whenever seeks are     *)
(* given.  The code does not keep it: the frame a first seek converges     *)
(* with lowers `seeking` although a second one has raised it               *)
(* (media-decoder.cc:460-463, 546-547, 976).                               *)
ResetHasTheRing == thread.pc = "reset" => main.pc # "present"

(* What the main thread may present was decoded after the last seek: no    *)
(* frame from before the seek, or from its convergence, is still queued    *)
(* once `seeking` falls (media-decoder.cc:451-465, 546-549).               *)
NoStaleFrame ==
  ~ctl.seeking /\ ~ctl.seekRequested =>
    \A i \in ring.read..(ring.write - 1) : ring.pts[i % RingSlots] >= ctl.target - Slack

(* Frames are presented in order: between two seeks, neither given before  *)
(* the thread was done with the last, the picture never jumps back, over   *)
(* the wraps of a loop too (media-decoder.cc:137-139).                     *)
PictureMovesOn == [][shown' >= shown \/ shown' = -1 \/ overlapped]_shown

(* nx_media_ended is true only once the last frame was on the screen,      *)
(* unless the seek went past it (media-decoder.cc:1045-1058).              *)
EndedShowsLast ==
  Ended /\ ~ctl.seeking /\ main.pc # "seek" =>
    \A k \in VideoPackets : shown >= k + demux.offset

(* Cues of a track that is no longer selected are never shown              *)
(* (media-decoder.cc:496-499, 927-928).                                    *)
NoStaleCue == ~ctl.seeking /\ main.pc = "idle" => subs.cues \subseteq {subs.selected}

(* A seek ends: a frame on target arrives, or the resource or the decoder  *)
(* does.  (In a loop a seek past the last frame never ends: the pass it    *)
(* waits for is not compared with the target any more.)                    *)
SeekEnds == ctl.seeking ~> (~ctl.seeking \/ ctl.eof \/ ctl.fatal \/ ctl.quit \/ ctl.looping)

(* nx_media_destroy returns: the thread leaves whatever it waits for       *)
(* (media-decoder.cc:1286-1291).                                           *)
DestroyEnds == ctl.quit ~> main.pc = "gone"

(* The ring between the decode thread and the main thread is bounded under *)
(* any seeks.  As long as none was given before the thread was done with   *)
(* the last one, its ends do not cross either, and a seek that resets it   *)
(* has it to itself (media-decoder.cc:336-341, 546-549).                   *)
RingConsistent ==
  /\ DecoderTypeOK /\ RingBounded
  /\ ~overlapped => RingOrdered /\ SeekOwnsRing

(* Picture and cues belong to where the film is.  As long as no seek was   *)
(* given before the thread was done with the last one, nothing from before *)
(* a seek or of another track is shown and nothing goes back; and under    *)
(* any seeks the end is told only when it was seen                         *)
(* (media-decoder.cc:451-499, 1045-1058).                                  *)
PictureIsTrue ==
  /\ [](EndedShowsLast /\ (~overlapped => NoStaleFrame /\ NoStaleCue))
  /\ PictureMovesOn

(* Neither a seek, overlapping another or not, nor the destruction of the  *)
(* decoder hangs (media-decoder.cc:546-567, 1286-1291).                    *)
CallsEnd == SeekEnds /\ DestroyEnds
=============================================================================
