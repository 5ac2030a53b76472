------------------------------ MODULE HttpReader ------------------------------
(***************************************************************************)
(* The blocking range reader under the media decoder,                      *)
(* src/runtime/nxjs/source/http-reader.cc.  All calls come from one        *)
(* thread, so a call is one step; what varies is the server: it may answer *)
(* with any range, ignore the range, refuse, grow or shrink the resource   *)
(* between two connections, and break off anywhere.                        *)
(*                                                                         *)
(* A byte is its offset.  `wire` is the offset of the byte the socket      *)
(* yields next, which the reader cannot see.                               *)
(***************************************************************************)
EXTENDS Integers

CONSTANTS
  Lengths,        \* the lengths the resource can have
  MaxRead,        \* bound: the largest n of a read
  SkipForwardMax, \* SKIP_FORWARD_MAX
  Targets,        \* the offsets a seek can ask for
  MaxExtra        \* bound: bytes sent past the announced body

\* Lengths are sizes of files; a seek can be asked for anything.
ASSUME ReaderAssumption ==
  /\ Lengths \subseteq Nat
  /\ Targets \subseteq Int
  /\ {MaxRead, SkipForwardMax, MaxExtra} \subseteq Nat

VARIABLES
  r,      \* the nx_http_reader, or NoReader
  length, \* length of the resource on the server
  last    \* the latest call and what it returned

readerVars == <<r, length, last>>

NoReader == [fd |-> FALSE]
NewReader == [fd |-> FALSE, size |-> -1, pos |-> 0, remaining |-> 0,
              pending |-> 0, wire |-> 0]
Called(op, arg, ret) == [op |-> op, arg |-> arg, ret |-> ret]

AtMost(a, b) == IF a <= b THEN a ELSE b

-----------------------------------------------------------------------------
(* A connection. *)

Closed(s) == [s EXCEPT !.fd = FALSE, !.remaining = 0, !.pending = 0, !.wire = 0]

(* What a server says to "Range: bytes=<pos>-".                            *)
Heads(pos) ==
  [status : {206}, first : 0..(length - 1), end : 0..(length - 1)]
    \cup [status : {200, 503} \cup (IF pos >= length THEN {416} ELSE {})]

(* apply_head: the answers taken. *)
AcceptedAnyStart(s, h) == \* mutant: content-range is not compared with pos
  \/ h.status = 206 /\ h.end >= h.first
  \/ h.status = 200 /\ s.pos = 0
  \/ h.status = 416 /\ s.size >= 0
AcceptedFull(s, h) == \* mutant: a 416 passes for an answer to an early read
  \/ h.status = 206 /\ h.first = s.pos /\ h.end >= h.first
  \/ h.status = 200 /\ s.pos = 0
  \/ h.status \in {416, 503} /\ s.size >= 0
Accepted(s, h) ==
  \/ h.status = 206 /\ h.first = s.pos /\ h.end >= h.first
  \/ h.status = 200 /\ s.pos = 0
  \/ h.status = 416 /\ s.size >= 0

Applied(s, h) ==
  CASE h.status = 206 -> [s EXCEPT !.size = length, !.remaining = h.end - h.first + 1,
                                   !.wire = h.first]
    [] h.status = 200 -> [s EXCEPT !.size = length, !.remaining = length, !.wire = 0]
    [] OTHER          -> [s EXCEPT !.remaining = 0]

(* `extra` body bytes came with the head; what exceeds the body is cut.    *)
WithAllPending(s, extra) == \* mutant
  [s EXCEPT !.pending = extra, !.wire = s.wire + extra]
WithPending(s, extra) ==
  [s EXCEPT !.pending = AtMost(extra, s.remaining), !.wire = s.wire + extra]

LeftOpen(s) == s \* mutant
ClosedIfDone(s) == IF s.remaining <= 0 THEN Closed(s) ELSE s

(* open_range: connect_host, send_all, read_head or apply_head fails, or   *)
(* the body begins.                                                        *)
Opened(s) ==
  {[ok |-> FALSE, s |-> Closed(s)]} \cup
  {[ok |-> TRUE, s |-> ClosedIfDone(WithPending([Applied(s, h) EXCEPT !.fd = TRUE], extra))] :
     h \in {x \in Heads(s.pos) : Accepted(s, x)}, extra \in 0..(MaxRead + MaxExtra)}

-----------------------------------------------------------------------------
(* The calls. *)

(* Of the bytes got, `held` were pending and the rest is off the wire.     *)
Advanced(s, got, held) ==
  ClosedIfDone([s EXCEPT !.pos = s.pos + got, !.remaining = s.remaining - got,
                         !.pending = s.pending - held, !.wire = s.wire + (got - held)])

Result(ret, s) == [ret |-> ret, s |-> s]

(* The outcomes of nx_http_reader_read once there is a body: pending bytes *)
(* first, else whatever recv_some yields, which may be an error.           *)
Body(s, n) ==
  IF s.remaining <= 0 THEN {Result(0, s)}
  ELSE IF s.pending > 0
       THEN LET got == AtMost(n, s.pending) IN {Result(got, Advanced(s, got, got))}
       ELSE {Result(-1, Closed(s))} \cup
            {Result(got, Advanced(s, got, 0)) : got \in 1..AtMost(n, s.remaining)}

Reads(s, n) ==
  IF s.size >= 0 /\ s.pos >= s.size THEN {Result(0, s)}
  ELSE IF s.fd THEN Body(s, n)
  ELSE UNION {IF o.ok THEN Body(o.s, n) ELSE {Result(-1, o.s)} : o \in Opened(s)}

(* nx_http_reader_open *)
Open ==
  /\ r = NoReader
  /\ \E o \in Opened(NewReader) :
       /\ r' = IF o.ok /\ o.s.size >= 0 THEN o.s ELSE NoReader
       /\ last' = Called("open", 0, IF o.ok /\ o.s.size >= 0 THEN 1 ELSE -1)
  /\ UNCHANGED length

Read(n) ==
  /\ r # NoReader
  /\ \E o \in Reads(r, n) :
       /\ r' = o.s
       /\ last' = Called("read", n, o.ret)
  /\ UNCHANGED length

(* Small forward skips are read through, in scratch-sized reads that all   *)
(* fall inside the body; the first that fails ends the loop.               *)
ReadThrough(to) == r.fd /\ to > r.pos /\ to - r.pos <= SkipForwardMax /\ to - r.pos <= r.remaining
SkippedTo(p) == Advanced(r, p - r.pos, AtMost(p - r.pos, r.pending))
LandedAnyway(to, s) == s \* mutant: a skip cut short counts as a seek
Landed(to, s) == IF s.pos = to THEN s ELSE [Closed(s) EXCEPT !.pos = to]
RepositionInPlace(to) == {[r EXCEPT !.pos = to]} \* mutant: the connection is kept
Reposition(to) ==
  IF ReadThrough(to)
  THEN {Landed(to, SkippedTo(to))} \cup
       {Landed(to, Closed(SkippedTo(p))) : p \in (r.pos + AtMost(r.pending, to - r.pos))..(to - 1)}
  ELSE {[Closed(r) EXCEPT !.pos = to]}

Seek(to) ==
  /\ r # NoReader
  /\ IF to < 0 \/ (r.size >= 0 /\ to > r.size)
     THEN r' = r /\ last' = Called("seek", to, -1)
     ELSE /\ \E s \in IF to = r.pos THEN {r} ELSE Reposition(to) : r' = s
          /\ last' = Called("seek", to, 1)
  /\ UNCHANGED length

Close ==
  /\ r # NoReader
  /\ r' = NoReader
  /\ last' = Called("close", 0, 1)
  /\ UNCHANGED length

(* The resource is replaced by one of another length.                      *)
Replace ==
  /\ length' \in Lengths \ {length}
  /\ UNCHANGED <<r, last>>

ReaderInit ==
  /\ r = NoReader
  /\ length \in Lengths
  /\ last = Called("close", 0, 1)

ReaderNext ==
  \/ Open \/ Close \/ Replace
  \/ \E n \in 1..MaxRead : Read(n)
  \/ \E to \in Targets : Seek(to)

ReaderSpec == ReaderInit /\ [][ReaderNext]_readerVars

-----------------------------------------------------------------------------
ReaderTypeOK ==
  /\ length \in Lengths
  /\ last \in [op : {"open", "read", "seek", "close"}, arg : Int, ret : -1..MaxRead]
  /\ r = NoReader \/ r \in [fd : BOOLEAN, size : Nat, pos : Nat, remaining : Nat,
                            pending : Nat, wire : Nat]

(* The bytes that will be handed out next are those at `pos`: through      *)
(* reconnects at other offsets, ranges the server shortens, body bytes     *)
(* that come with a head and skips cut short, the socket and the pending   *)
(* bytes line up with the position (http-reader.cc:366-386).               *)
StreamAligned ==
  r.fd /\ r.pending < r.remaining => r.wire = r.pos + r.pending

(* A connection is held only while it has body bytes left, and never more  *)
(* of them, pending ones included, than the resource has past `pos`        *)
(* (http-reader.cc:66-69, 318-323).                                        *)
BodyInBounds ==
  r.fd => r.remaining \in 1..(r.size - r.pos) /\ r.pending <= r.remaining

(* 0 means the end: a read returns 0 only at or past the end of the        *)
(* resource, as the reader or the server knows it, and never because a     *)
(* connection broke off or a range came short (http-reader.h:31-33).       *)
NoFalseEnd ==
  [][length' = length /\ last'.op = "read" /\ last'.ret = 0
       => r'.pos >= r'.size \/ r'.pos >= length]_readerVars

(* Whatever a seek does to the connection, it leaves the position where    *)
(* it said, and one it refuses changes nothing; a read moves it by what it *)
(* returned (http-reader.cc:388-413).                                      *)
PositionFollowsCalls ==
  [][length' = length =>
       /\ last'.op = "seek" => IF last'.ret = 1 THEN r'.pos = last'.arg ELSE r' = r
       /\ last'.op = "read" => r'.pos = r.pos + (IF last'.ret > 0 THEN last'.ret ELSE 0)]_readerVars

(* The reader hands out the bytes at its position, and the end only there, *)
(* through reconnects, skips, short ranges and a resource that is replaced *)
(* (http-reader.cc:318-413).                                               *)
StreamFollowsPosition ==
  [](StreamAligned /\ BodyInBounds) /\ NoFalseEnd /\ PositionFollowsCalls
=============================================================================
