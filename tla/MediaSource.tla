----------------------------- MODULE MediaSource -----------------------------
(***************************************************************************)
(* The byte source between the app and the media decoder,                  *)
(* src/runtime/nxjs/source/media-source.cc.  The JS thread provides and    *)
(* drops byte ranges; the decoder thread reads, blocking until a byte is   *)
(* there or the source is closed.  Each critical section is one step; a    *)
(* blocked read is a state of its own.                                     *)
(*                                                                         *)
(* The true byte at offset p of the resource is p itself, so bytes that    *)
(* are stored or returned at the wrong place are seen.                     *)
(***************************************************************************)
EXTENDS Integers, Sequences, Functions

CONSTANTS
  Size,       \* bytes of the resource
  MaxProvide, \* bound: the longest range of one provide
  MaxRead     \* bound: the longest read

ASSUME SourceAssumption ==
  /\ Size \in Nat \ {0}
  /\ MaxProvide \in Nat \ {0}
  /\ MaxRead \in Nat \ {0}

VARIABLES
  chunks,    \* chunks: the buffered ranges, start offset -> bytes
  closed,    \* closed
  wanted,    \* wanted: the offset a read is blocked on, or -1
  position,  \* position: the offset of the latest read
  reader,    \* the decoder thread: idle, or blocked in a read
  result     \* what the latest finished read returned

vars == <<chunks, closed, wanted, position, reader, result>>

Idle == [state |-> "idle"]
Blocked(offset, n) == [state |-> "blocked", offset |-> offset, n |-> n]

-----------------------------------------------------------------------------
EndOf(s) == s + Len(chunks[s])
Covered == UNION {s..(EndOf(s) - 1) : s \in DOMAIN chunks}

(* buffered_locked: the run of adjacent chunks that holds `offset`.  The   *)
(* chunks are disjoint, so it ends at the first offset nothing covers.     *)
Buffered(offset) ==
  (CHOOSE e \in offset..Size : e \notin Covered /\ offset..(e - 1) \subseteq Covered) - offset

ByteAt(p) == LET s == CHOOSE s \in DOMAIN chunks : s <= p /\ p < EndOf(s)
             IN  chunks[s][p - s + 1]

LeastOf(a, b) == IF a <= b THEN a ELSE b

Init ==
  /\ chunks = <<>>
  /\ closed = FALSE
  /\ wanted = -1
  /\ position = 0
  /\ reader = Idle
  /\ result = [kind |-> "none"]

-----------------------------------------------------------------------------
(* The JS thread. *)

(* Where a provided range ends up once it is clipped at the next chunk.    *)
Unclipped(start, end) == end
Clipped(start, end) ==
  LET later == {s \in DOMAIN chunks : s >= start /\ s < end}
  IN  IF later = {} THEN end ELSE CHOOSE s \in later : \A t \in later : s <= t

(* ... and at the end of the resource.                                     *)
Untrimmed(offset, len) == offset + len
Trimmed(offset, len) == LeastOf(offset + len, Size)

(* The bytes to store at `start`, of data that begins at `offset`.         *)
FromTheFirst(offset, start, end) == [k \in 1..(end - start) |-> offset + k - 1]
FromStart(offset, start, end) == [k \in 1..(end - start) |-> start + k - 1]

(* provide() of the true bytes of [offset, offset + len): what is buffered *)
(* already is skipped.                                                     *)
Provide(offset, len) ==
  LET start == offset + Buffered(offset)
      end   == Clipped(start, Trimmed(offset, len))
  IN  /\ ~closed
      /\ start < end
      /\ chunks' = [s \in DOMAIN chunks \cup {start} |->
                      IF s = start THEN FromStart(offset, start, end) ELSE chunks[s]]
      /\ UNCHANGED <<closed, wanted, position, reader, result>>

DiscardBefore(offset) ==
  /\ chunks' = Restrict(chunks, {s \in DOMAIN chunks : EndOf(s) > offset})
  /\ UNCHANGED <<closed, wanted, position, reader, result>>

(* A chunk survives when it starts in the prefix or meets the window.      *)
SurvivesByStart(s, start, end, prefixEnd) == s < prefixEnd \/ (s < end /\ s >= start)
Survives(s, start, end, prefixEnd) == s < prefixEnd \/ (s < end /\ EndOf(s) > start)

Retain(start, end, prefixEnd) ==
  /\ chunks' = Restrict(chunks, {s \in DOMAIN chunks : Survives(s, start, end, prefixEnd)})
  /\ UNCHANGED <<closed, wanted, position, reader, result>>

CloseOnly == closed' = TRUE /\ UNCHANGED <<chunks, wanted, position, reader, result>>
Close ==
  /\ closed' = TRUE
  /\ chunks' = <<>>
  /\ UNCHANGED <<wanted, position, reader, result>>

-----------------------------------------------------------------------------
(* The decoder thread. *)

(* One pass of the loop of read(), under the lock: fail, deliver or wait.  *)
Pass(offset, n) ==
  \/ /\ closed
     /\ reader' = Idle
     /\ result' = [kind |-> "closed"]
     /\ UNCHANGED wanted
  \/ /\ ~closed
     /\ Buffered(offset) > 0
     /\ wanted' = -1
     /\ reader' = Idle
     /\ result' = [kind |-> "bytes", offset |-> offset, n |-> n,
                   bytes |-> [k \in 1..LeastOf(n, Buffered(offset)) |-> ByteAt(offset + k - 1)]]
  \/ /\ ~closed
     /\ Buffered(offset) = 0
     /\ wanted' = offset
     /\ reader' = Blocked(offset, n)
     /\ UNCHANGED result

ReadInPlace(offset, n) == reader = Idle /\ Pass(offset, n) /\ UNCHANGED <<chunks, closed, position>>
Read(offset, n) ==
  /\ reader = Idle
  /\ position' = offset
  /\ Pass(offset, n)
  /\ UNCHANGED <<chunks, closed>>

ReadPastEnd ==
  /\ reader = Idle
  /\ result' = [kind |-> "eof"]
  /\ UNCHANGED <<chunks, closed, wanted, position, reader>>

(* The wait ends by a notification or after WAIT_STEP_MS; either way the   *)
(* loop takes another pass.                                                *)
WakeOnBytes ==
  /\ reader.state = "blocked"
  /\ Buffered(reader.offset) > 0
  /\ Pass(reader.offset, reader.n)
  /\ UNCHANGED <<chunks, closed, position>>

Wake ==
  /\ reader.state = "blocked"
  /\ Pass(reader.offset, reader.n)
  /\ UNCHANGED <<chunks, closed, position>>

-----------------------------------------------------------------------------
Offsets == 0..(Size - 1)

Feeder ==
  \/ \E offset \in Offsets, len \in 1..MaxProvide : Provide(offset, len)
  \/ \E offset \in 0..Size : DiscardBefore(offset)
  \/ \E start, end, prefixEnd \in 0..Size : start <= end /\ Retain(start, end, prefixEnd)
  \/ Close

Decoder ==
  \/ \E offset \in Offsets, n \in 1..MaxRead : Read(offset, n)
  \/ ReadPastEnd
  \/ Wake

Next == Feeder \/ Decoder

Spec == Init /\ [][Next]_vars

(* Only the timed wait is sure to end: neither thread has to call again.   *)
FairSpec == Spec /\ WF_vars(Wake)

-----------------------------------------------------------------------------
(* Properties. *)

(* The type of every variable. *)
TypeOK ==
  /\ DOMAIN chunks \subseteq Offsets
  /\ \A s \in DOMAIN chunks : chunks[s] \in Seq(Offsets) /\ chunks[s] # <<>>
  /\ closed \in BOOLEAN
  /\ wanted \in Offsets \cup {-1}
  /\ position \in Offsets
  /\ reader = Idle \/ \E offset \in Offsets, n \in 1..MaxRead : reader = Blocked(offset, n)
  /\ result.kind \in {"none", "eof", "closed", "bytes"}

(* Chunks never overlap and stay within the resource, whatever ranges are  *)
(* provided in whatever order (provide: trimming and clipping).            *)
ChunksDisjoint ==
  /\ \A s \in DOMAIN chunks : EndOf(s) <= Size
  /\ \A s, t \in DOMAIN chunks : s < t => EndOf(s) <= t

(* The decoder gets the true bytes of the offset it asked for: at least    *)
(* one, never more than asked, across as many chunks as it takes.          *)
ReadsTrueBytes ==
  result.kind = "bytes" =>
    /\ Len(result.bytes) \in 1..result.n
    /\ \A k \in DOMAIN result.bytes : result.bytes[k] = result.offset + k - 1

(* While the source is open, `wanted` tells the app exactly whether and    *)
(* where the decoder is blocked, and the read cursor agrees with it.       *)
WantedIsBlocked ==
  ~closed => IF reader = Idle THEN wanted = -1 ELSE wanted = reader.offset /\ position = wanted

(* A closed source holds no bytes and no late provide revives it.          *)
ClosedHoldsNothing == closed => chunks = <<>>

(* Whatever ranges are provided, kept and read in whatever order, and also *)
(* after the close: the chunks, what the decoder got of them and what the  *)
(* app sees of the decoder agree (provide, read, retain, close).           *)
SourceConsistent ==
  TypeOK /\ ChunksDisjoint /\ ReadsTrueBytes /\ WantedIsBlocked /\ ClosedHoldsNothing

(* Retain never drops a byte of its window or of the prefix.               *)
RetainKeepsWindow ==
  [][DOMAIN chunks' # DOMAIN chunks =>
       \A start, end, prefixEnd \in 0..Size :
         Retain(start, end, prefixEnd) =>
           Covered \cap (start..(end - 1) \cup 0..(prefixEnd - 1)) \subseteq Covered']_vars

(* A blocked read ends once bytes are there to stay or the source closes.  *)
BlockedReadEnds ==
  /\ closed ~> reader = Idle
  /\ \A offset \in Offsets :
       (reader # Idle /\ wanted = offset /\ Buffered(offset) > 0) ~> (reader = Idle \/ Buffered(offset) = 0)
=============================================================================
