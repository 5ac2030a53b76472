------------------------------ MODULE FrameQueue ------------------------------
(***************************************************************************)
(* What a stream source promises the media element: a bounded first-in     *)
(* first-out queue of audio frames with a clock that counts the frames     *)
(* that left it.  A frame is the number of frames written before it.       *)
(***************************************************************************)
EXTENDS Integers, Sequences

CONSTANT Capacity

VARIABLES queue, clock

Push(k) ==
  /\ Len(queue) + k <= Capacity
  /\ queue' = queue \o [i \in 1..k |-> clock + Len(queue) + i - 1]
  /\ UNCHANGED clock

(* Frames leave at the head: to the mixer, or all of them at a flush.      *)
Pop(k) ==
  /\ k <= Len(queue)
  /\ queue' = SubSeq(queue, k + 1, Len(queue))
  /\ clock' = clock + k

QueueInit == queue = <<>> /\ clock = 0
QueueNext == \E k \in 1..Capacity : Push(k) \/ Pop(k)
QueueSpec == QueueInit /\ [][QueueNext]_<<queue, clock>>
=============================================================================
