----------------------------- MODULE FileStream -----------------------------
(***************************************************************************)
(* A file read as a stream (FsFile.stream of fs.ts): pull opens the file,  *)
(* reads a chunk and closes the file at its end, cancel closes it early,   *)
(* and each of the three is work for the thread pool that native code      *)
(* hands over (fs.cc).  A FILE that is left open is closed when its handle *)
(* is collected.  A byte of the file is its offset.                        *)
(*                                                                         *)
(* A cancel can come while the pool is reading: what that read returns is  *)
(* undefined, and may be anything here.                                    *)
(***************************************************************************)
EXTENDS Integers, Sequences, SequencesExt

CONSTANTS
  Length,   \* bytes in the file
  Start,    \* the slice of it that is read
  End,      \* 0: to the end of the file
  Chunk     \* size of a chunk

\* What the model asks of its constants.
FileStreamAssumption ==
  /\ Length \in Nat /\ Start \in Nat /\ End \in Nat
  /\ Chunk \in Nat \ {0}

VARIABLES
  stream,   \* of the ReadableStream: open, closed, cancelled or errored
  pull,     \* where the pending pull is
  handle,   \* h: null, held by the script, or dropped by it
  pointer,  \* file->file is set
  file,     \* the FILE: none, open, closed
  closes,   \* how often the FILE was closed, or is to be
  offset,
  taken,    \* bytes enqueued
  closing   \* an fclose is queued

streamVars == <<stream, pull, handle, pointer, file, closes, offset, taken, closing>>
fileSame == UNCHANGED <<handle, pointer, file, closes, closing>>

LeastOf(m, n) == IF m < n THEN m ELSE n
Remaining == IF End = 0 THEN Length ELSE End - offset

FileStreamInit ==
  /\ stream = "open" /\ pull = "none" /\ handle = "null" /\ pointer = FALSE
  /\ file = "none" /\ closes = 0 /\ closing = FALSE
  /\ offset = Start /\ taken = <<>>

-----------------------------------------------------------------------------
(* nx_fclose: the FILE goes to the pool, out of the finalizer's reach.     *)
\* A mutant: the handle keeps it.
HandsOverACopy == closes' = closes + 1 /\ closing' = TRUE /\ UNCHANGED <<pointer, file>>
HandsOver ==
  /\ pointer' = FALSE /\ closes' = closes + 1 /\ closing' = TRUE
  /\ UNCHANGED file

CloseRuns == \* fclose_do
  /\ closing /\ closing' = FALSE /\ file' = "closed"
  /\ UNCHANGED <<stream, pull, handle, pointer, closes, offset, taken>>

\* The script has dropped the handle, and the finalizer runs.
Collect ==
  /\ handle = "dropped" /\ pull = "none"
  /\ handle' = "null"
  /\ IF pointer THEN pointer' = FALSE /\ closes' = closes + 1 /\ file' = "closed"
     ELSE UNCHANGED <<pointer, closes, file>>
  /\ UNCHANGED <<stream, pull, offset, taken, closing>>

-----------------------------------------------------------------------------
(* pull.  The stream calls it again only once it has settled.              *)
Pull ==
  /\ stream = "open" /\ pull = "none"
  /\ pull' = IF handle = "null" THEN "fopen" ELSE "have"
  /\ UNCHANGED <<stream, offset, taken>> /\ fileSame

\* fopen_do and fopen_cb, and the file that is not there.
Opened ==
  /\ pull = "fopen"
  /\ handle' = "held" /\ pointer' = TRUE /\ file' = "open" /\ pull' = "have"
  /\ UNCHANGED <<stream, closes, offset, taken, closing>>

\* A pull that rejects takes the stream down; a cancelled one it does not.
Rejects ==
  /\ pull' = "none"
  /\ stream' = IF stream = "open" THEN "errored" ELSE stream
  /\ handle' = IF handle = "held" THEN "dropped" ELSE handle

OpenFails ==
  /\ pull = "fopen" /\ Rejects
  /\ UNCHANGED <<pointer, file, closes, offset, taken, closing>>

\* A mutant: the file is left to the finalizer.
EndsOpen ==
  /\ pull' = "none" /\ stream' = "closed" /\ handle' = "held"
  /\ UNCHANGED <<pointer, file, closes, closing>>
\* controller.close() and fclose, or the exception of a stream that is closed already.
Ends ==
  IF stream = "open"
  THEN /\ stream' = "closed" /\ pull' = "fclose" /\ UNCHANGED handle /\ HandsOver
  ELSE Rejects /\ UNCHANGED <<pointer, file, closes, closing>>

NothingRemains ==
  /\ pull = "have" /\ Remaining <= 0 /\ Ends
  /\ UNCHANGED <<offset, taken>>

StartRead ==
  /\ pull = "have" /\ Remaining > 0
  /\ pull' = "fread"
  /\ UNCHANGED <<stream, offset, taken>> /\ fileSame

\* A mutant: the offset of the next chunk counts the buffer, not the bytes.
AdvancedByBuffer(n) == offset + LeastOf(Chunk, Remaining)
Advanced(n) == offset + n

\* fread_do and fread_cb: some bytes, and a null at the end of the file.
Bytes(n) == [k \in 1 .. n |-> offset + k - 1]

ReadSome ==
  /\ pull = "fread" /\ file = "open"
  /\ \E n \in 1 .. LeastOf(Chunk, LeastOf(Remaining, Length - offset)) :
       /\ offset' = Advanced(n)
       /\ IF stream = "open"
          THEN /\ taken' = taken \o Bytes(n) /\ pull' = "none"
               /\ UNCHANGED stream /\ fileSame
          ELSE Rejects /\ UNCHANGED <<taken, pointer, file, closes, closing>>

ReadEnd ==
  /\ pull = "fread" /\ file = "open" /\ offset >= Length /\ Ends
  /\ UNCHANGED <<offset, taken>>

ReadFails ==
  /\ pull = "fread" /\ Rejects
  /\ UNCHANGED <<pointer, file, closes, offset, taken, closing>>

Closed ==
  /\ pull = "fclose" /\ ~closing
  /\ pull' = "none" /\ handle' = "null"
  /\ UNCHANGED <<stream, pointer, file, closes, offset, taken, closing>>

\* cancel closes the file it knows of; the handle then goes with the stream.
Cancel ==
  /\ stream = "open"
  /\ stream' = "cancelled"
  /\ IF handle = "held" THEN HandsOver ELSE UNCHANGED <<pointer, file, closes, closing>>
  /\ handle' = IF handle = "held" THEN "dropped" ELSE handle
  /\ UNCHANGED <<pull, offset, taken>>

FileStreamNext ==
  \/ Pull \/ Opened \/ OpenFails \/ NothingRemains \/ StartRead
  \/ ReadSome \/ ReadEnd \/ ReadFails \/ Closed \/ Cancel \/ CloseRuns \/ Collect

\* The pool does its work; when handles are collected, nobody knows.
Works == Opened \/ OpenFails \/ ReadSome \/ ReadEnd \/ ReadFails \/ NothingRemains \/ StartRead
FileStreamSpec == FileStreamInit /\ [][FileStreamNext]_streamVars
FileStreamFairSpec ==
  FileStreamSpec /\ WF_streamVars(Works) /\ WF_streamVars(Closed) /\ WF_streamVars(CloseRuns)

-----------------------------------------------------------------------------
(* A FILE is closed once, by the script or by the finalizer: fclose of a   *)
(* FILE that is gone would close another one (fs.cc 229-238, 273-277).     *)
ClosedOnce == closes <= 1

(* What the reader gets are the bytes of the slice, in order and with none *)
(* left out or given twice (fs.ts).                                        *)
BytesInOrder ==
  /\ taken = [k \in 1 .. Len(taken) |-> Start + k - 1]
  /\ stream = "closed" => Len(taken) >= LeastOf(Length, IF End = 0 THEN Length ELSE End) - Start

(* A stream that is read to its end, or cancelled while it has its file,   *)
(* closes the file without waiting for a collection (fs.ts).               *)
EndedIsClosed ==
  /\ (stream = "closed") ~> (file = "closed")
  /\ (stream = "cancelled" /\ closing) ~> (file = "closed")

(* A file read as a stream gives its bytes in order and is closed once,    *)
(* however pulls, the end, errors and a cancel overlap (fs.ts).            *)
FileReadOnce == [](ClosedOnce /\ BytesInOrder) /\ EndedIsClosed
=============================================================================
