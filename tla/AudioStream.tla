------------------------------ MODULE AudioStream ------------------------------
(***************************************************************************)
(* The ring between the decode thread and the render thread,               *)
(* nx_audio_stream_* and process_stream_source in audio-graph.cc: one      *)
(* producer, one consumer, two absolute counters and no lock.  A thread's  *)
(* steps are its loads of the counters, the frames it copies one by one,   *)
(* and its store.  The producer also flushes, under the graph mutex, which *)
(* the consumer holds while it renders.                                    *)
(***************************************************************************)
EXTENDS Integers, Sequences

CONSTANTS
  Capacity,  \* stream_capacity, in frames
  Quantum,   \* NX_AUDIO_RENDER_QUANTUM
  MaxWrite,  \* bound: frames given to one write
  MaxFrames  \* bound: frames written in all

\* What the model asks of its constants.
StreamAssumption ==
  /\ Capacity \in Nat \ {0} /\ Quantum \in Nat \ {0}
  /\ MaxWrite \in Nat \ {0} /\ MaxFrames \in Nat

VARIABLES
  ring,     \* stream_ring: the frame in each slot
  writePos, \* stream_write_pos
  readPos,  \* stream_read_pos
  playing,  \* stream_playing
  producer, \* nx_audio_stream_write in progress: its loads and how far it copied
  consumer  \* process_stream_source in progress; it holds the graph mutex

vars == <<ring, writePos, readPos, playing, producer, consumer>>

Idle == [at |-> "idle", from |-> 0, frames |-> 0, done |-> 0]
Copying(from, frames) == [at |-> "copying", from |-> from, frames |-> frames, done |-> 0]
NoFrame == -1
LeastOf(a, b) == IF a <= b THEN a ELSE b

-----------------------------------------------------------------------------
WritableUnchecked(read) == Capacity \* mutant: what is unread is not subtracted
Writable(read) == Capacity - (writePos - read)

(* The producer loads both counters and clips what it was given.           *)
BeginWrite(frames) ==
  /\ producer = Idle
  /\ writePos + frames <= MaxFrames
  /\ producer' = Copying(writePos, LeastOf(frames, Writable(readPos)))
  /\ UNCHANGED <<ring, writePos, readPos, playing, consumer>>

WriteFrame ==
  /\ producer.at = "copying" /\ producer.done < producer.frames
  /\ ring' = [ring EXCEPT ![(producer.from + producer.done) % Capacity] =
                producer.from + producer.done]
  /\ producer' = [producer EXCEPT !.done = producer.done + 1]
  /\ UNCHANGED <<writePos, readPos, playing, consumer>>

EndWriteEarly == \* mutant: the counter is published before the frames
  /\ producer.at = "copying"
  /\ writePos' = producer.from + producer.frames
  /\ producer' = IF producer.done = producer.frames THEN Idle ELSE producer
  /\ UNCHANGED <<ring, readPos, playing, consumer>>
EndWrite ==
  /\ producer.at = "copying" /\ producer.done = producer.frames
  /\ writePos' = producer.from + producer.frames
  /\ producer' = Idle
  /\ UNCHANGED <<ring, readPos, playing, consumer>>

(* Flushing belongs to the producer, between two writes.                   *)
FlushUnlocked == \* mutant: not under the mutex
  /\ producer = Idle
  /\ readPos' = writePos
  /\ UNCHANGED <<ring, writePos, playing, producer, consumer>>
Flush ==
  /\ producer = Idle /\ consumer = Idle
  /\ readPos' = writePos
  /\ UNCHANGED <<ring, writePos, playing, producer, consumer>>

SetPlaying(on) ==
  /\ playing # on
  /\ playing' = on
  /\ UNCHANGED <<ring, writePos, readPos, producer, consumer>>

-----------------------------------------------------------------------------
AvailableAll(write) == write - readPos \* mutant: more than the bus holds
AvailableQuantum(write) == Quantum \* mutant: an underrun counts as played
Available(write) == LeastOf(write - readPos, Quantum)

BeginQuantum ==
  /\ consumer = Idle /\ playing
  /\ consumer' = Copying(readPos, Available(writePos))
  /\ UNCHANGED <<ring, writePos, readPos, playing, producer>>

ReadFrame ==
  /\ consumer.at = "copying" /\ consumer.done < consumer.frames
  /\ consumer' = [consumer EXCEPT !.done = consumer.done + 1]
  /\ UNCHANGED <<ring, writePos, readPos, playing, producer>>

EndQuantum ==
  /\ consumer.at = "copying" /\ consumer.done = consumer.frames
  /\ readPos' = consumer.from + consumer.frames
  /\ consumer' = Idle
  /\ UNCHANGED <<ring, writePos, playing, producer>>

-----------------------------------------------------------------------------
Init ==
  /\ ring = [i \in 0..(Capacity - 1) |-> NoFrame]
  /\ writePos = 0 /\ readPos = 0
  /\ playing = FALSE
  /\ producer = Idle /\ consumer = Idle

Producer ==
  \/ \E frames \in 1..MaxWrite : BeginWrite(frames)
  \/ WriteFrame \/ EndWrite \/ Flush
Consumer == BeginQuantum \/ ReadFrame \/ EndQuantum

Next == Producer \/ Consumer \/ SetPlaying(TRUE) \/ SetPlaying(FALSE)

Spec == Init /\ [][Next]_vars

-----------------------------------------------------------------------------
CopyStates(most) == [at : {"idle", "copying"}, from : Nat, frames : 0..most, done : 0..most]

(* Types; a quantum never holds more frames than its bus.                  *)
StreamTypeOK ==
  /\ ring \in [0..(Capacity - 1) -> Nat \cup {NoFrame}]
  /\ writePos \in Nat /\ readPos \in Nat
  /\ playing \in BOOLEAN
  /\ producer \in CopyStates(MaxWrite) /\ consumer \in CopyStates(Quantum)

(* Every frame between the counters is in its slot, and every frame the    *)
(* render thread has yet to copy is still there when it copies it: the     *)
(* producer never writes over a slot that is being read, whatever the      *)
(* interleaving, and a flush never lets it (audio-graph.cc:264-283,        *)
(* 635-670).                                                               *)
FramesInPlace ==
  /\ readPos <= writePos /\ writePos <= readPos + Capacity
  /\ \A p \in readPos..(writePos - 1) : ring[p % Capacity] = p
  /\ \A i \in consumer.done..(consumer.frames - 1) :
       ring[(consumer.from + i) % Capacity] = consumer.from + i

(* The two threads share the ring without a lock: no frame is lost, torn   *)
(* or heard twice (audio-graph.cc:264-283, 635-670).                       *)
StreamConsistent == StreamTypeOK /\ FramesInPlace

(* The counter that drives the picture is the count of frames that left    *)
(* the queue, and only a quantum and a flush take frames out: the ring is  *)
(* a FIFO (audio-graph.cc:279-281, 658-660).                               *)
Frames == INSTANCE FrameQueue WITH
  queue <- [i \in 1..(writePos - readPos) |-> ring[(readPos + i - 1) % Capacity]],
  clock <- readPos
StreamIsQueue == Frames!QueueSpec
=============================================================================
