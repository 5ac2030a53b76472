----------------------------- MODULE Compression -----------------------------
(***************************************************************************)
(* Packing and unpacking on the thread pool,                               *)
(* src/runtime/nxjs/source/compression.cc, for one stream that is packed   *)
(* ("pack"), unpacked chunk by chunk ("stream"), or unpacked straight from *)
(* its file by the fused read and decompress ("fused").                    *)
(*                                                                         *)
(* A step is one call of zlib or zstd in one of the loops of a work item.  *)
(* Data is counted: unit k of the input stands for gain[k] units of        *)
(* output, and `ends` are the units that end a member or a frame.  An      *)
(* unpacker takes in a unit once the output of the earlier ones is out,    *)
(* and can hold its output until there is room; zstd leaves the last unit  *)
(* of a frame until its output is out.                                     *)
(***************************************************************************)
EXTENDS Integers, Sequences, Functions, FiniteSetsExt

CONSTANTS
  Inputs,  \* the inputs: records of `gain`, a sequence, and `ends`, a set
  InChunk, \* NX_FUSED_IN_CHUNK, and the largest chunk written
  OutCap,  \* output of a pull
  OutSize  \* CHUNK, ZSTD_DStreamOutSize() and ZSTD_CStreamOutSize()

\* What the model asks of its constants; no unit holds more than a flush takes.
CompressionAssumption ==
  /\ InChunk \in Nat \ {0} /\ OutCap \in Nat \ {0} /\ OutSize \in Nat \ {0}
  /\ \A i \in Inputs :
       /\ i.ends \subseteq 1 .. Len(i.gain)
       /\ \A k \in 1 .. Len(i.gain) : i.gain[k] \in 0 .. OutSize

VARIABLES
  way, codec, input,
  pos,      \* units read from the file or written by the script
  eof,      \* eof_in
  finished, \* finished
  fed,      \* units the codec has taken in
  given,    \* units of output the codec has given out
  work,     \* the work item on the pool: "none", "write", "flush" or "pull"
  produced, \* output of the work item so far
  got,      \* output the script has been given
  status    \* of the stream: "open", "ended", "errored", or "failed" by a fault

streamVars == <<way, codec, input>>
fileVars == <<pos, eof, finished>>
codecVars == <<fed, given>>
compressionVars == <<streamVars, fileVars, codecVars, work, produced, got, status>>

LeastOf(a, b) == IF a <= b THEN a ELSE b
Units == Len(input.gain)
Output(k) == SumFunctionOnSet(input.gain, 1 .. k)
Trailer == 1

-----------------------------------------------------------------------------
(* The codecs. *)

\* inflate stops after the first member, zstd after each frame.
LastUnit ==
  LET ends == {e \in input.ends : codec = "zlib" \/ e > fed} IN
  IF ends = {} THEN Units ELSE Min(ends)

(* One call of inflate or ZSTD_decompressStream with the input up to       *)
(* `limit` and room for `room`.                                            *)
Unpacked(limit, room) ==
  LET stop == LeastOf(limit, LastUnit)
      out == LeastOf(given + room, Output(stop))
      took == Max({fed} \union
                  {k \in fed + 1 .. stop :
                     /\ Output(k - 1) <= out
                     /\ codec = "zstd" /\ k \in input.ends => Output(k) <= out}) IN
  [fed |-> took, given |-> out,
   answer |-> IF took \in input.ends /\ took = LastUnit /\ out = Output(took) THEN "end"
              ELSE IF took = fed /\ out = given THEN "buf" ELSE "ok"]

(* deflate and ZSTD_compressStream leave input only when the room is used  *)
(* up, and hold output back as they like until they are told to finish.    *)
Packed(limit, room) ==
  {c \in [fed : fed .. limit, given : given .. given + room] :
     /\ c.given <= Output(c.fed)
     /\ c.fed = limit \/ c.given = given + room}

Codec(c) == fed' = c.fed /\ given' = c.given /\ produced' = produced + c.given - given

-----------------------------------------------------------------------------
(* What the completion of a work item does in the script.                  *)
Deliver(n, after) ==
  /\ work' = "none" /\ produced' = 0
  /\ got' = got + n /\ status' = after

Idle == status = "open" /\ work = "none"
Running(what) == status = "open" /\ work = what

(* The script writes the next chunk, or it is done and flushes.            *)
Write ==
  /\ Idle /\ way # "fused" /\ pos < Units
  /\ \E n \in 1 .. LeastOf(InChunk, Units - pos) : pos' = pos + n
  /\ work' = "write"
  /\ UNCHANGED <<streamVars, eof, finished, codecVars, produced, got, status>>

Flush ==
  /\ Idle /\ way # "fused" /\ pos = Units
  /\ work' = "flush"
  /\ UNCHANGED <<streamVars, fileVars, codecVars, produced, got, status>>

(* decompress_write_do: inflate until it has no more to do or its member   *)
(* is over; zstd until the chunk is taken in.                              *)
UnpackChunk ==
  /\ way = "stream" /\ Running("write")
  /\ \/ /\ codec = "zstd" /\ fed = pos
        /\ Deliver(produced, "open") /\ UNCHANGED codecVars
     \/ /\ codec = "zlib" \/ fed < pos
        /\ LET c == Unpacked(pos, OutSize) IN
           IF codec = "zlib" /\ c.answer # "ok"
           THEN fed' = c.fed /\ given' = c.given /\ Deliver(produced + c.given - given, "open")
           ELSE Codec(c) /\ UNCHANGED <<work, got, status>>
  /\ UNCHANGED <<streamVars, fileVars>>

(* decompress_flush_do: with Z_FINISH, an unfinished member is an error;   *)
(* zstd gives what it holds.                                               *)
UnpackFlushPatiently == \* mutant: Z_BUF_ERROR is not an error of the flush
  /\ way = "stream" /\ Running("flush")
  /\ LET c == Unpacked(pos, OutSize) IN
     /\ fed' = c.fed /\ given' = c.given
     /\ codec = "zstd" \/ c.answer = "end"
     /\ Deliver(c.given - given, "ended")
  /\ UNCHANGED <<streamVars, fileVars>>
UnpackFlush ==
  /\ way = "stream" /\ Running("flush")
  /\ LET c == Unpacked(pos, OutSize) IN
     /\ fed' = c.fed /\ given' = c.given
     /\ IF codec = "zstd" \/ c.answer = "end" THEN Deliver(c.given - given, "ended")
        ELSE Deliver(0, "errored")
  /\ UNCHANGED <<streamVars, fileVars>>

-----------------------------------------------------------------------------
(* decompress_file_pull_do.  A pull after the end reports it.              *)
Pull ==
  /\ Idle /\ way = "fused"
  /\ IF finished THEN Deliver(0, "ended")
     ELSE work' = "pull" /\ UNCHANGED <<produced, got, status>>
  /\ UNCHANGED <<streamVars, fileVars, codecVars>>

\* Output is an array, none is the end, and a byte stream refuses an empty array.
Pulled(n, over) ==
  /\ finished' = over
  /\ Deliver(n, IF n > 0 THEN "open" ELSE IF over THEN "ended" ELSE "errored")

AtShortReadOnly(n) == n < InChunk /\ n # 0 \* mutant: nothing left is not the end
AtEnd(n) == n < InChunk

(* fused_refill: reads when the input buffer is used up.  The range asked  *)
(* for may end where the file does, or later.                              *)
Refill ==
  IF fed < pos \/ eof THEN UNCHANGED <<pos, eof>>
  ELSE LET n == LeastOf(InChunk, Units - pos) IN
       /\ pos' = pos + n
       /\ \/ eof' = AtEnd(n)
          \/ n > 0 /\ pos + n = Units /\ eof' = TRUE

(* One turn of the zstd loop, and one of the zlib loop, which calls        *)
(* inflate for what it holds although the input is used up.                *)
PullZstd(c, n) ==
  IF fed = pos' THEN UNCHANGED codecVars /\ Pulled(produced, eof')
  ELSE /\ fed' = c.fed /\ given' = c.given
       /\ IF eof' /\ c.fed = pos' /\ c.answer = "end" THEN Pulled(n, TRUE)
          ELSE produced' = n /\ UNCHANGED <<finished, work, got, status>>

PullZlibLikeZstd(c, n) == PullZstd(c, n) \* mutant: used-up input ends the stream
PullZlib(c, n) ==
  /\ fed' = c.fed /\ given' = c.given
  /\ IF c.answer = "end" THEN Pulled(n, TRUE)
     ELSE IF c.answer = "buf" THEN Pulled(n, eof' /\ c.fed = pos')
     ELSE produced' = n /\ UNCHANGED <<finished, work, got, status>>

PullTurn ==
  /\ Running("pull")
  /\ UNCHANGED streamVars
  /\ \/ /\ produced = OutCap /\ Pulled(produced, FALSE)
        /\ UNCHANGED <<pos, eof, codecVars>>
     \/ /\ produced < OutCap
        /\ Refill
        /\ LET c == Unpacked(pos', OutCap - produced)
               n == produced + c.given - given IN
           IF codec = "zstd" THEN PullZstd(c, n) ELSE PullZlib(c, n)

-----------------------------------------------------------------------------
(* compress_write_do and compress_flush_do.                                *)
PackChunk ==
  /\ way = "pack" /\ Running("write")
  /\ \/ fed = pos /\ Deliver(produced, "open") /\ UNCHANGED codecVars
     \/ /\ fed < pos
        /\ \E c \in Packed(pos, OutSize) : Codec(c)
        /\ UNCHANGED <<work, got, status>>
  /\ UNCHANGED <<streamVars, fileVars>>

PackFlushOnce(over) == TRUE \* mutant: one call, as the unpacking of zstd makes
FlushOver(over) == over

PackFlush ==
  /\ way = "pack" /\ Running("flush")
  /\ LET whole == Output(Units) + Trailer
         out == LeastOf(given + OutSize, whole) IN
     /\ given' = out /\ UNCHANGED fed
     /\ IF FlushOver(out = whole) THEN Deliver(produced + out - given, "ended")
        ELSE produced' = produced + out - given /\ UNCHANGED <<work, got, status>>
  /\ UNCHANGED <<streamVars, fileVars>>

(* A read error, corrupt input or no memory: what the work item had is     *)
(* dropped and its promise rejects.                                        *)
Fails ==
  /\ status = "open" /\ work # "none"
  /\ Deliver(0, "failed")
  /\ UNCHANGED <<streamVars, fileVars, codecVars>>

-----------------------------------------------------------------------------
StreamInit == way \in {"pack", "stream", "fused"} /\ codec \in {"zlib", "zstd"} /\ input \in Inputs
FileInit == pos = 0 /\ eof = FALSE /\ finished = FALSE
CodecInit == fed = 0 /\ given = 0

CompressionInit ==
  /\ StreamInit /\ FileInit /\ CodecInit
  /\ work = "none" /\ produced = 0 /\ got = 0 /\ status = "open"

Works ==
  \/ Write \/ Flush \/ UnpackChunk \/ UnpackFlush
  \/ Pull \/ PullTurn
  \/ PackChunk \/ PackFlush

CompressionNext == Works \/ Fails

CompressionSpec == CompressionInit /\ [][CompressionNext]_compressionVars

\* The pool runs work items, and the script writes or reads to the end.
CompressionFairSpec == CompressionSpec /\ WF_compressionVars(Works)

-----------------------------------------------------------------------------
Truncated == Units \notin input.ends
WholeOutput ==
  IF way = "pack" THEN Output(Units) + Trailer
  ELSE IF codec = "zlib" /\ input.ends # {} THEN Output(Min(input.ends))
  ELSE Output(Units)

(* A stream that ends has given all its output, across full output         *)
(* buffers, used-up input and the last flush; a truncated zstd frame on    *)
(* the fused way may lack what zstd held (compression.cc:604).             *)
NothingLost ==
  /\ got <= WholeOutput
  /\ status = "ended" /\ (way = "fused" /\ codec = "zstd" => ~Truncated) => got = WholeOutput

(* Without a fault, only a zlib member cut short makes a stream fail: no   *)
(* pull comes back empty before the end (compression.cc:678).              *)
SoundInputEnds ==
  status = "errored" => way = "stream" /\ codec = "zlib" /\ input.ends = {}

(* The loops end, and with them every stream, fault or not.                *)
EveryStreamEnds == <>(status # "open")

(* The fused way is "transparent" (compression-streams.ts:57): input that  *)
(* the stream way refuses as cut short is refused by it as well.           *)
CutShortIsRefused ==
  status = "ended" /\ way # "pack" /\ codec = "zlib" => input.ends # {}

(* Every byte of a stream's output is there, and every stream ends, at any *)
(* size of the chunks it is given in and taken out of (compression.cc).    *)
PackingWhole == [](NothingLost /\ SoundInputEnds) /\ EveryStreamEnds
=============================================================================
