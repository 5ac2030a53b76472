------------------------------- MODULE AudioSink -------------------------------
(***************************************************************************)
(* The audio output, src/runtime/nxjs/source/audio-sink-audren.cc: one     *)
(* driver and one render thread for the process, a voice and two buffers   *)
(* per attached graph.  Everything is under g.mutex but the join of the    *)
(* thread when the last sink goes, during which it is released.            *)
(***************************************************************************)
EXTENDS Integers

CONSTANTS
  Graphs,  \* graphs a sink can be attached for
  Voices,  \* SINK_NUM_VOICES of them, from 0
  Buffers  \* SINK_NUM_BUFS of them

\* Graphs come and go, but each is attached once at a time.
ASSUME SinkAssumption == Voices \subseteq Nat

VARIABLES
  up,        \* g.initialized: the driver is open
  stop,      \* g.stop
  thread,    \* the render thread
  sinks,     \* g.sinks, by graph
  voice,     \* voice_id of each sink
  voiceUsed, \* the voices set in g.voice_used
  buffer,    \* state of each sink's wavebufs
  caller     \* the script's thread, the one that attaches and detaches

sinkVars == <<up, stop, thread, sinks, voice, voiceUsed, buffer, caller>>

NoVoice == -1
LeastVoice(S) == CHOOSE v \in S : \A w \in S : v <= w
AllFree == [b \in Buffers |-> "free"]

-----------------------------------------------------------------------------
(* The render thread: a pass under the mutex, then a wait for the frame.   *)

Filled(bs) == [b \in Buffers |-> IF bs[b] \in {"free", "done"} THEN "queued" ELSE bs[b]]

Pass ==
  /\ thread = "looping"
  /\ IF stop THEN thread' = "ended" /\ UNCHANGED buffer
     ELSE /\ thread' = "waiting"
          /\ buffer' = [g \in Graphs |-> IF g \in sinks THEN Filled(buffer[g]) ELSE buffer[g]]
  /\ UNCHANGED <<up, stop, sinks, voice, voiceUsed, caller>>

WaitFrame ==
  /\ thread = "waiting"
  /\ thread' = "looping"
  /\ UNCHANGED <<up, stop, sinks, voice, voiceUsed, buffer, caller>>

(* The service plays a queued buffer to its end (external).                *)
PlayBuffer(g, b) ==
  /\ up /\ g \in sinks /\ buffer[g][b] = "queued"
  /\ buffer' = [buffer EXCEPT ![g] = [buffer[g] EXCEPT ![b] = "done"]]
  /\ UNCHANGED <<up, stop, thread, sinks, voice, voiceUsed, caller>>

-----------------------------------------------------------------------------
InitDriverStopped == \* mutant: the stop of the last exit stays set
  IF up THEN UNCHANGED <<up, stop, thread>> ELSE up' = TRUE /\ UNCHANGED stop /\ thread' = "looping"
(* global_init, when it succeeds; it fails without a trace.                *)
InitDriver ==
  IF up THEN UNCHANGED <<up, stop, thread>>
  ELSE up' = TRUE /\ stop' = FALSE /\ thread' = "looping"

UsedVoices == IF up THEN voiceUsed ELSE {}

(* global_exit, up to the join: the driver is told to stop.                *)
ExitDriver == up' = TRUE /\ stop' = TRUE

(* nx_audio_sink_attach.  A failure leaves nothing behind, and the last    *)
(* failure takes the driver down.                                          *)
AttachFailed ==
  \/ /\ ~up \* global_init
     /\ UNCHANGED <<up, stop, thread, voiceUsed, caller>>
  \/ /\ sinks # {} \* no voice, no memory
     /\ UNCHANGED <<up, stop, thread, voiceUsed, caller>>
  \/ /\ sinks = {}
     /\ ExitDriver
     /\ thread' = IF up THEN thread ELSE "looping"
     /\ voiceUsed' = UsedVoices
     /\ caller' = "joining"

Attach(g) ==
  /\ caller = "idle" /\ g \notin sinks
  /\ \/ /\ AttachFailed
        /\ UNCHANGED <<sinks, voice, buffer>>
     \/ /\ Voices \ UsedVoices # {}
        /\ InitDriver
        /\ sinks' = sinks \cup {g}
        /\ LET v == LeastVoice(Voices \ UsedVoices)
           IN  voice' = [voice EXCEPT ![g] = v] /\ voiceUsed' = UsedVoices \cup {v}
        /\ buffer' = [buffer EXCEPT ![g] = AllFree]
        /\ UNCHANGED caller

KeptVoices(g) == voiceUsed \* mutant: the voice is not given back
VoicesLeft(g) == voiceUsed \ {voice[g]}

(* nx_audio_sink_detach, to the end or to the join.                        *)
Detach(g) ==
  /\ caller = "idle" /\ g \in sinks
  /\ sinks' = sinks \ {g}
  /\ voiceUsed' = VoicesLeft(g)
  /\ voice' = [voice EXCEPT ![g] = NoVoice]
  /\ buffer' = [buffer EXCEPT ![g] = AllFree]
  /\ IF sinks = {g} /\ up
     THEN /\ ExitDriver
          /\ caller' = "joining"
     ELSE UNCHANGED <<up, stop, caller>>
  /\ UNCHANGED thread

JoinNothing == \* mutant: the driver is closed under the thread
  /\ caller = "joining"
  /\ up' = FALSE
  /\ caller' = "idle"
  /\ UNCHANGED <<stop, thread, sinks, voice, voiceUsed, buffer>>
(* The rest of global_exit: the thread has ended, the driver is closed.    *)
Join ==
  /\ caller = "joining" /\ thread = "ended"
  /\ thread' = "none"
  /\ up' = FALSE
  /\ caller' = "idle"
  /\ UNCHANGED <<stop, sinks, voice, voiceUsed, buffer>>

-----------------------------------------------------------------------------
SinkInit ==
  /\ up = FALSE /\ stop = FALSE /\ thread = "none"
  /\ sinks = {}
  /\ voice = [g \in Graphs |-> NoVoice]
  /\ voiceUsed = {}
  /\ buffer = [g \in Graphs |-> AllFree]
  /\ caller = "idle"

SinkNext ==
  \/ Pass \/ WaitFrame \/ Join
  \/ \E g \in Graphs, b \in Buffers : PlayBuffer(g, b)
  \/ \E g \in Graphs : Attach(g) \/ Detach(g)

SinkSpec == SinkInit /\ [][SinkNext]_sinkVars

-----------------------------------------------------------------------------
(* A sink always has a driver that is not on its way down: the render      *)
(* thread will come for its buffers (audio-sink-audren.cc:86-136).         *)
SinksHaveDriver == sinks # {} => up /\ ~stop

(* Two sinks never share a voice, a voice is never lost to a failed attach *)
(* or a detach, and a graph beyond the last voice is refused               *)
(* (audio-sink-audren.cc:149-182, 229).                                    *)
VoicesAccounted ==
  /\ up => voiceUsed = {voice[g] : g \in sinks}
  /\ \A g, h \in sinks : voice[g] = voice[h] => g = h
  /\ \A g \in Graphs : g \in sinks <=> voice[g] # NoVoice

(* The thread exists exactly while the driver is open, so that it never    *)
(* calls into a closed one and two of them never run                       *)
(* (audio-sink-audren.cc:124-136).                                         *)
ThreadNeedsDriver == up <=> thread # "none"

(* Sinks, voices, driver and thread belong together, although attaching    *)
(* and detaching give the lock away halfway (audio-sink-audren.cc:86-229). *)
SinksConsistent == SinksHaveDriver /\ VoicesAccounted /\ ThreadNeedsDriver
=============================================================================
