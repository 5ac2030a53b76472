------------------------------ MODULE NativeIoMC ------------------------------
(***************************************************************************)
(* The modules on what the native runtime reads, writes and maps, checked  *)
(* in one run: the range reader under the decoder, the sockets of the      *)
(* script, the loading of a video, the memory V8 is given, the streams     *)
(* that pack and unpack, the calls on the file system and a file read as a *)
(* stream.  They share no state, so the run explores each of them by       *)
(* itself: `subject`, chosen first, is the one that moves.                 *)
(***************************************************************************)
EXTENDS HttpReader, MemoryMap

CONSTANTS Sockets, Secure, Videos, Tasks

VARIABLES
  subject,
  owner, js, ops, handles, ctx, server,
  source, video, queue, open,
  way, codec, input, pos, eof, finished, fed, given, work, produced, got, status,
  tree, task,
  stream, pull, handle, pointer, file, closes, offset, taken, closing

\* Members: none, one that is sound, one cut short, two in a row, output at the end.
MCInputs == {
  [gain |-> <<>>, ends |-> {}],
  [gain |-> <<0, 3, 2>>, ends |-> {3}], [gain |-> <<0, 3, 2>>, ends |-> {}],
  [gain |-> <<3, 1, 0, 2>>, ends |-> {2, 4}], [gain |-> <<1, 0, 3, 3, 1>>, ends |-> {5}]}

MCTargets == -1..5

MCPaths == {<<"d">>, <<"d", "f">>, <<"d", "g">>, <<"d", "g", "h">>}

Net == INSTANCE NetSocket WITH Fds <- {1, 2}
Loader == INSTANCE VideoLoader WITH Sources <- {1, 2}, Workers <- 1, MaxLoads <- 3
Packing == INSTANCE Compression WITH Inputs <- MCInputs, InChunk <- 2, OutCap <- 2, OutSize <- 3
Disk == INSTANCE Files WITH Paths <- MCPaths, Units <- 2
Reading == INSTANCE FileStream WITH Length <- 5, Start <- 1, End <- 4, Chunk <- 2

ASSUME Net!NetAssumption /\ Loader!VideoAssumption /\ MemoryAssumption
ASSUME Packing!CompressionAssumption /\ Disk!FilesAssumption /\ Reading!FileStreamAssumption

net == <<owner, js, ops, handles, ctx, server>>
loader == <<source, video, queue, open>>
packing == <<way, codec, input, pos, eof, finished, fed, given, work, produced, got, status>>
disk == <<tree, task>>
reading == <<stream, pull, handle, pointer, file, closes, offset, taken, closing>>
ioVars == <<subject, readerVars, net, loader, memoryVars, packing, disk, reading>>

\* What does not move starts in one state.
Pinned ==
  /\ subject # "reader" => length = 4
  /\ subject # "packing" =>
       way = "pack" /\ codec = "zlib" /\ input = CHOOSE i \in MCInputs : i.gain = <<>>
  /\ subject # "disk" => tree = [p \in MCPaths |-> Disk!Absent]

IoInit ==
  /\ subject \in {"reader", "net", "loader", "memory", "packing", "disk", "reading"}
  /\ ReaderInit /\ Net!NetInit /\ Loader!VideoInit /\ MemoryMapInit
  /\ Packing!CompressionInit /\ Disk!FilesInit /\ Reading!FileStreamInit
  /\ Pinned

Streams == <<packing, disk, reading>>
Others == <<readerVars, net, loader, memoryVars>>

IoNext ==
  /\ UNCHANGED subject
  /\ \/ subject = "reader" /\ ReaderNext /\ UNCHANGED <<net, loader, memoryVars, Streams>>
     \/ subject = "net" /\ Net!NetNext /\ UNCHANGED <<readerVars, loader, memoryVars, Streams>>
     \/ subject = "loader" /\ Loader!VideoNext /\ UNCHANGED <<readerVars, net, memoryVars, Streams>>
     \/ subject = "memory" /\ MemoryMapNext /\ UNCHANGED <<readerVars, net, loader, Streams>>
     \/ subject = "packing" /\ Packing!CompressionNext /\ UNCHANGED <<Others, disk, reading>>
     \/ subject = "disk" /\ Disk!FilesNext /\ UNCHANGED <<Others, packing, reading>>
     \/ subject = "reading" /\ Reading!FileStreamNext /\ UNCHANGED <<Others, packing, disk>>

\* The workers of the pool run and their completions are delivered; a script owes nothing.
IoFairness ==
  /\ WF_loader(subject = "loader" /\ Loader!Pool)
  /\ WF_packing(subject = "packing" /\ Packing!Works)
  /\ WF_reading(subject = "reading" /\ Reading!Works)
  /\ WF_reading(subject = "reading" /\ Reading!Closed)
  /\ WF_reading(subject = "reading" /\ Reading!CloseRuns)

IoSpec == IoInit /\ [][IoNext]_ioVars /\ IoFairness

-----------------------------------------------------------------------------
(* NetSocket: who owns a descriptor and when it is closed (tcp.cc, tls.cc) *)
DescriptorsAccounted == Net!DescriptorsAccounted

(* VideoLoader: references to sources, which load a handle ends up         *)
(* playing, and that each has its turn (video.cc).                         *)
LoadsAccounted == Loader!LoadsAccounted

(* Compression: what goes in comes out, and ends (compression.cc).         *)
PackingWhole ==
  /\ [](Packing!NothingLost /\ Packing!SoundInputEnds)
  /\ subject = "packing" => Packing!EveryStreamEnds

(* Files: calls that overlap (fs.cc).                                      *)
TreeKept == Disk!TreeKept

(* FileStream: its bytes and its one close (fs.ts).                        *)
FileReadOnce == Reading!FileReadOnce
=============================================================================
