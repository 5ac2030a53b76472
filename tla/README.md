# stremio-nx: verification project

stremio-nx is a Stremio client for a game console. Its application is
TypeScript in one JavaScript thread; it streams torrents and HTTP files without
a server in between. Below it lies a native runtime in C++ (a modified nx.js)
that embeds V8 and gives the script sockets, files, sound, a canvas, WebGL and a
media decoder, on a thread pool and on threads of its own. This directory holds
TLA+ modules that model the streaming core and the native runtime, TLC
configurations that check them on small instances, and proofs that TLAPS checks
for every value of the constants.

Paths below are relative to the repository's root: the application is in `src/`,
the native runtime in `runtime/nxjs/source/`.

1. [Inventory](#1-inventory)
2. [Modules](#2-modules)
3. [Runs](#3-runs)
4. [Properties](#4-properties)
5. [Bounds](#5-bounds)
6. [Fairness](#6-fairness)
7. [Proofs](#7-proofs)
8. [Where code and comments disagree](#8-where-code-and-comments-disagree)
9. [What is not modelled](#9-what-is-not-modelled)
10. [Plan](#10-plan)

## 1. Inventory

### How the parts work together

    ui ── play/stop ──> main.ts ──> TorrentSessions ──> TorrentEngine ──> PieceManager
                          │                                │  │  └──> Peer (one socket each)
                          │                                │  └──> DhtClient, trackers
                          └──> Player: torrent feed ───────┘read
                                     │ or lanes over HttpStream
                                     │ provide, retain, close
                                     v
                               MediaSource (native, mutex)  <── read ── decode thread ──> frame ring ──> canvas
                                                                             └──> audio stream ──> audio graph ──> sink

A play request names a torrent (info hash, file index) or a URL. For a torrent,
`TorrentSessions` starts an engine or returns the running one; the engine finds
peers, fetches the metadata from them, and keeps asking for the blocks near the
read head. Blocks become pieces in the `PieceManager`, which hashes them and
keeps the verified ones inside a window in memory. Every 50 ms the feed copies
bytes around the decoder's cursor from the engine into the native
`MediaSource`, on which the decoder thread blocks. The decoder fills a ring of
frames, which the main thread presents once per pass of the main loop, and the
ring of an audio stream, from which a render thread mixes.

There is one JavaScript thread, so script code between two awaits is atomic.
What makes the system hard is what may happen across an await, a timer or a
network callback; at the mutexes and lock-free rings between native threads;
where a job of the thread pool works on what the script has since changed; and
in native objects whose last user may be a script, a job, another object or the
garbage collector.

### Components of the application

| component | state it keeps | operations | what makes it hard | what makes it correct |
|---|---|---|---|---|
| Piece manager (`src/torrent/pieces.ts`) | verified flags, cache, partial pieces, in-flight requests, read head, keep window | pick requests, take a block, hash a full piece, read, move the head, evict | hashes end asynchronously while pieces are evicted and fetched again; requests race, time out and are answered late | only verified bytes are read; memory stays in the window; no piece is stuck; the head is served |
| Engine: swarm (`src/torrent/engine.ts`, `wire/peer.ts`) | address queue, dialling set, peers, last use, search timers | merge addresses, dial, greet, close, recycle, search, tick, stop | three awaits per dial, answers after stop, the same address from several sources | sockets bounded, no slot leaks, one socket per address, stop drains, untried addresses get a turn |
| Engine: block requests (same files) | who was asked for which block, per-peer pipeline count | top up, take a block and cancel it elsewhere, forget a peer, evict | late and duplicate answers, chokes, closes and seeks against counters on both sides | the books of engine, peer and piece manager agree |
| Torrent sessions (`src/app/sessions.ts`, play and stop of `src/app/main.ts`) | session per info hash | get or create, stop, failure of prepare | an engine learns of its stop up to 100 ms late; three callers share a session | no running engine is lost; play starts when ready and always gets an answer |
| HTTP player (`src/app/player.ts`, `http-stream.ts`, `buffering.ts`) | up to three ranges under way, lanes wanted, playback state | tick, fetch, deliver, retry, abort, throttle, stop | reads are aborted in any await, seeks leave ranges behind, lanes end out of order | no lane is refused; silence after stop; the blocked decoder is served; rebuffering ends |
| Torrent feed (`src/app/player.ts`) | window, cursor, buffering state | tick, seek, stop | goals, window and cursor move against each other | the cursor is fed; rebuffering ends |
| DHT (`src/torrent/dht/`) | pending transactions, candidates, socket | lookup, query, time out | transaction ids collide, two lookups share a socket | every query ends once, the socket is closed |
| Trackers (`src/torrent/tracker/`) | one attempt at a time | announce, retry | late answers to earlier attempts | an announce ends, with the answer of its transaction |
| Metadata (`src/torrent/metadata.ts`) | pieces of the info dictionary | request, assemble, verify | several peers with different sizes, one bad piece | only the dictionary with the right hash is used |
| Core client (`src/stremio/client.ts`) | waiters for core state, one per field | dispatch, await a field, time out | two waits for one field | each wait ends with its own answer |
| Add-on setup server (`src/server/`) | pairing code, failure count, lockout, change lock | pair, install, remove | concurrent requests across awaits | no change without pairing, one change at a time |
| Poster cache (`src/app/posters.ts`) | bounded cache, load queue | get, load, evict | an image evicted while it loads | the bound holds, an image loads once |
| User interface, control server, parsers, platform layer | | | | see [section 9](#9-what-is-not-modelled) |

### Components of the native runtime

| component | state it keeps | operations | what makes it hard | what makes it correct |
|---|---|---|---|---|
| Media source (`media-source.cc`) | disjoint chunks, cursor, wanted offset, closed | provide, discard, retain, close; read from the decode thread | two threads; overlapping and out-of-order ranges | reads return true bytes, nothing is lost that was to be kept, no read stays blocked |
| Media decoder (`media-decoder.cc`) | control flags, frame ring, audio and subtitle outputs, clock | play, pause, seek, loop, select track, present, destroy; the decode thread | a seek empties a lock-free ring both sides use; waits on four conditions | no stale frame or cue, the picture moves on, seeks and destruction end |
| Audio graph (`audio-graph.cc`) | nodes, edges, references, timelines, stream ring | connect, disconnect, schedule, render, stream write | finalizers in any order, cycles, a ring without a lock | no node outlives or dies under its holders; every source is mixed as often as it is connected; the ring is a queue |
| Audio sink (`audio-sink-audren.cc`) | driver, voices, render thread | attach, detach | the lock is given up while the driver goes down | a sink always has a driver, a voice has one sink |
| HTTP reader (`http-reader.cc`) | connection, position, pending bytes | open, read, seek, close | the server answers with another range, or less; a seek reuses a connection | the bytes handed out are those at the position |
| Sockets (`tcp.cc`, `tls.cc`, `tcp.ts`) | descriptors, polls, TLS contexts | connect, accept, read, write, close | a close in any step; libuv closes later; descriptors are numbers used again | one owner per descriptor, none closed under a poll |
| Video element (`video.cc`) | sources by reference, loads on the pool | load, reset, close, finalize | loads overtake each other | the latest load plays, a source lives as long as its users |
| Memory map (`mman-horizon.cc`) | page bitmap, committed slabs, code region | mmap, munmap, mprotect | commits fail half way; pages are used again | pages are zero when mapped, what is writable is backed |
| Compression (`compression.cc`) | codec state, buffers | pack, unpack, fused read | output or input ends exactly at a buffer's end | nothing is lost, every stream ends |
| Files (`fs.cc`, `fs.ts`) | the tree, a FILE per stream | mkdir, read, write, remove, rename, streams | calls overlap on the pool; a stream is cancelled while it reads | a write that came up short is rejected, makers do not fail each other, a FILE is closed once |
| Main program (`main.cc`) | services held, display owner, error state | start, loop, errors, teardown | V8 may die at any stage; four renderers want the window | everything is released once, errors leave a way out |
| Canvas (`canvas.cc`) | surface, pixels, state stack, path | draw, resize, attach to GPU, save, restore, encode | a call replaces what another still uses | calls draw on pixels that exist with the state they should |
| Images (`image.cc`, `canvas.cc`) | pixels, copies by address | decode, draw, close | pixels change under caches | a video, a sensor and a bitmap are drawn as they are now |
| WebGL (`webgl.cc`) | wrappers, names, pixel store, draw framebuffer | create, delete, bind, upload, read back, present | GL gives names out again; sums of offsets wrap | wrappers name their own object; of sizes that do not wrap GL gets bytes of the view |
| Crypto, console services, URLs, geometry | | | | see [section 9](#9-what-is-not-modelled) |

`PROJECT.json` lists every component with its state of modelling, and every
hazard at the line where it bites with the properties that watch it.

## 2. Modules

Names follow the source: `#blockPeers` is `blockPeers`, `connectMore` is
`ConnectMore`. A definition that is there to be compared with the code's
(`AnyBuffer` next to `IsCurrent`, `RoomForPeers` next to `Room`) is a plausible
mistake: with it in place of the code's definition, a run fails.


### The streaming core

#### PieceManager, PieceStore

`PieceManager` is `pieces.ts`. A block is identified by piece and index and is
`good` or `bad`; the hash of a piece succeeds when all its blocks are good.
`onBlock` is two steps, because the digest is awaited: `OnBlock` up to the
await, which adds `[index, id, got]` to `hashing`, and `Sha1Done` after it. The
code recognises its own buffer by object identity (`#partial.get(index) !==
partial`); `id` models it. Age is abstract: a request is `fresh` until
`RequestTimesOut`. Who has which piece is an argument of `PickRequests`.

`PieceStore` says what its users rely on: pieces enter the store whole,
verified and inside the window, and leave only when the window moves.
`PieceManager` implements it under `store <- cache`.

#### PeerSlots

The part of `engine.ts` that owns addresses and sockets. A dial is two actions
or three, one for each await of `#connectPeer`: `DialSucceeds` or `DialFails`,
then `Greets` or `GreetFails`; `RemoteCloses` may come at any time after the
handshake, and `Stop` anywhere. `link` is the state of each address's `Peer`.
Any open peer may send a piece message, choking us or still being greeted, and
is useful for it (`DeliversBlock`). One that closes during its greeting gets its
slot all the same. `lastUseful` is followed as far as an address leads to the
`Peer`: of one whose greeting fails after it sent a piece, `#lastUseful` keeps an
entry that nobody finds again.
`connectMore` takes addresses from the queue until the slots are full;
`Consumed` is the length its loop takes off. A tick dials, starts the searches
that are due, and recycles a choking or idle peer when addresses wait.

#### TorrentDownload

The other half of the tick, composed with an instance of `PieceManager`:
`driveDownload` (`TickStarts`, then `Ask` for each peer, with no other action in
between), `onPiece` with `#cancelElsewhere` (`Arrives`), `#forgetPeer`,
`retainRange` and the choke accounting of `wire/peer.ts`. The network is
explicit: `asked` is what each remote peer owes an answer to. An arrival answers
one of these requests or none (`n = 0`): a cancel crossed the answer, a choke had
dropped the request, or nobody asked. `dead` are the peers that closed before
they were entered into `#peers`; they are asked like the others and answer
nothing. The player's calls may come at any time with any offset; the real player
calls `setReadHead` and `retainRange` together, so the model allows more.
`blockPeers` and `outstanding` are the engine's books; the properties compare
them with the remote queues and the piece manager's `inflight`. The history
variable `astray` marks a peer whose `outstanding` was lowered for a block it did
not owe; it is cleared when the peer owes nothing.

#### TorrentSessions

The registry of `sessions.ts` with its three users: the control server
(`CoreCreates`), play and stop. An engine's life is cut to what the registry
sees: `prepare` with `#waitForInfo`, which looks every 100 ms for metadata, a
stop or the 120 s limit (`FindsInfo`, `FindsNoFile`, `FindsItselfStopped`,
`TimesOut`). A rejection runs the registry's handler, which stops whatever
session the key has at that time.

#### MediaSource

`media-source.cc`. The JavaScript thread's calls and the passes of the
decoder's `read` are the critical sections of one mutex. The true byte at
offset *p* is *p*, so that a byte stored or returned at a wrong place shows. A
blocked read is a state of its own and leaves it by `Wake`, the timed wait of
`WAIT_STEP_MS` or a notification.

#### HttpPlayer

The HTTP branch of the player's feed with `http-stream.ts`. `Tick` is the 50 ms
interval: it trims the source, aborts ranges that are stale, late or surplus,
and counts the lanes that are missing, which `RunLane` starts one by one before
anything else of the JavaScript thread runs (the decoder may move in between).
A range under way is a member of `ranges`, by its first block, with the await
its read is in: `fetch`, `body`, `wait` (the pause before another try) or the
end of its connection, `done` or `error`. An abort only marks it; its lane ends
at the next await, and counts until then. `LaneTurn` is one turn of the lane's
loop, `Ends` is `stop()`. The unit is the delivery block of 256 KiB, since what
arrives of an unfinished block is lost with its connection. `updatePlayback`
may also change nothing, which stands for `readyState`, the user's pause, a
seek under way and the end of the video. `StatsTick` may grow or shrink the
lanes at any time: measured rates are left out. `Stop` also stands for the
errors of the video element. Redirects, the cached link, the validator and the
checks of a response are one choice in `Responds`: the body follows, the read
fails, or it may be tried again.

### The native runtime

#### MediaDecoder

The decode thread and the calls of the main thread. `thread.pc` is where the
decode thread is between two looks at shared state: reading a packet, blocked in
the source, waiting for room in the ring (`video`) or in the stream (`audio`),
in a seek, drained at the end. The main thread is idle or in the call `main.pc`
names. A seek is an order, `seekRequested` and then `seeking`, that the decode
thread carries out when it comes to it, emptying the ring the main thread reads; a
change of the subtitle track is a request and then a seek. Packets are at
the times of their indexes; the codec gives a frame one packet late, so that
there is something to drain at the end.

A seek may be given at any time, also before the decode thread is done with the
last one. The history variable `overlapped` says that this has happened: parts of
the properties are claimed up to then only, since they fail afterwards (section 8).

#### AudioGraph, AudioParam, AudioStream, FrameQueue, AudioSink

`AudioGraph` is a context with its nodes, edges and counted references; a holder
is whoever took one, so that the count can be compared with the set of them.
Sources have a schedule and a position in frames; rendering a quantum processes
each node once and adds up, per source, how often it is in the mix. Every entry
point holds the graph mutex and is one action.

`AudioParam` is one parameter's timeline. Values are symbolic: a value on a ramp
is the ramp and how far along it is, so two timelines can be compared without
arithmetic.

`AudioStream` is the ring between the decode thread and the render thread, which
has no lock: a load of a counter, a copy of a frame and the store that publishes
it are steps of their own. `FrameQueue` is what it promises, a bounded
first-in-first-out queue with a clock; `AudioStream` implements it by mapping
the queue to the frames between the counters.

`AudioSink` is the driver with its voices and the one render thread of the
process. One thread, the script's, attaches and detaches (`caller`). All is
under `g.mutex` but the join of the render thread, for which both let go of it:
`Attach` when a voice cannot be opened, `Detach` when the last sink goes.

#### HttpReader

The range reader under the decoder. A call is one step, since one thread makes
them all; the server varies. It answers with the range asked, another one, the
whole, a refusal, or a resource of another length, and breaks off anywhere. A
byte is its offset; `wire` is the offset of the byte the socket yields next,
which the reader cannot see and the properties compare with its position.

#### NetSocket

The script's `Socket` and `Server`, the polls of `tcp.cc` and the TLS contexts
of `tls.cc`. Descriptors are numbers that the system hands out again once
closed; each has an owner, and everything that remembers one (a socket, a
promise resolved with it, a context, a poll, a close callback) is a part of the
state. Each action is one callback of the loop. A write that the socket takes in
parts is several: `write()` of `tcp.ts` keeps the number over the await
(`resume`) and goes on with it (`WritesOn`), closed or not. What it does to a
number that is another's by then is left out: the properties speak of the
behaviour up to such a write (`Strays`, section 8).

#### VideoLoader

What a video handle owns. A load is three steps: the request, the worker that
opens the media, which blocks until the script feeds it or closes the source,
and the completion on the script's thread. Each load has a number (`seq`), by
which a completion that was overtaken is told from the latest.

#### MemoryMap, AnonymousMemory

`mman-horizon.cc`: V8's arena, page by page, and the executable region. A page
is free or in use, usable once its slab is backed, and `stained` once written to
until it is cleared. `AnonymousMemory` is what mmap, munmap and mprotect
promise (pages nobody has, zero at first, kept until unmapped), and `MemoryMap`
implements it; sizes, placement, slabs and the code region are its own.

#### Compression, Files, FileStream

`Compression` is one stream that is packed, unpacked chunk by chunk, or unpacked
straight from its file. A step is one call of the codec in one of the loops;
data is counted in units, of which each stands for a number of units of output.

`Files` lets calls of the thread pool interleave system call by system call on
a small tree. Writes are buffered, and the flush of the last buffer by `fclose`
may fail unseen (`CloseLoses`). `FileStream` is a file read as a stream with `pull`, `cancel`
and the finalizer. What a read returns that a cancel ran into is undefined, and
the model takes any value.

#### MainLoop

`main.cc` from launch to either end: services are acquired, the heap is sized
for the memory there is, the scripts run, the loop goes round, and everything is
given back, orderly or by the emergency road after V8 died. A script is the calls
it makes, in any order and number, at every stage that runs JavaScript; V8 may
die at any of them. `display` holds the renderers that have the window and what
main believes of it.

#### CanvasSurface, CanvasState, CanvasImages, CanvasPixels

`CanvasSurface` is the surface a context draws on: pixels, GPU attachment, the
`SkCanvas` the context keeps, the two stacks behind save and restore, the path
and a picture that is encoded in the pool. A picture is the last mark made on
it, a path the owners of its segments. `CanvasState` is the style with its
setters' guards, the gradients it points to and the font face whose size
contexts share. `CanvasImages` follows one image through the caches of
`drawImage`, by version. `CanvasPixels` is the clipping of `putImageData` and
`getImageData` along one axis: which pixel goes where, also where it is the wrong
one.

#### WebglObjects, WebglData

`WebglObjects` is the wrappers and the names GL gives them, with the deletions GL
delays, and the copy of the draw framebuffer by which a frame is presented.
`WebglData` is which bytes of a script's arrays GL gets; offsets are those in the
view. Sizes may be zero or negative: the code computes with them as `size_t`,
which wraps at `Word` (`RequiredUpload`), and GL as they are (`Required`). `store`
is the pixel store the context keeps, `gl` the one GL has, with the parameters
that `pixelStorei` passes on and nobody keeps. GL is external in both.

### Modules for checking and proving

`MediaDecoderMC` holds the film and a bound of its run, `PlayedOut` (section 5).

`TorrentEngineMC`, `StreamingMC`, `NativeRuntimeMC`, `NativeIoMC` and
`NativeGraphicsMC` check several modules in one run. The modules in each share no
state that a property tells apart, so a product of them would say no more than each alone: `subject`, chosen
in the initial state, is the one that moves, and what does not move starts in one
state. Liveness is asked of the subject only. `TorrentEngineMC` also says that
addresses, and peers, are interchangeable.

Eight modules hold the proofs. Those of the application each extend the module
they are about: `PieceManagerProofs`, `PeerSlotsProofs`, `TorrentDownloadProofs`
(which instantiates the first), `HttpPlayerProofs`. `StreamingProofs` is about
`MediaSource` and `TorrentSessions`, `MediaDecoderProofs` about the decoder.
`NativeServicesProofs` has a section for each of `MemoryMap`, `HttpReader`,
`AudioStream` and `AudioSink`; `NativeProgramProofs` for `MainLoop`, the four
canvas modules and the two of WebGL.

## 3. Runs

| run | module | question | result |
|---|---|---|---|
| `pieces_store` | PieceManager | Do blocks, hashes, evictions and seeks in any order keep the store consistent, and is it a `PieceStore`? | holds |
| `pieces_requests` | PieceManager | Do racing, timed-out and lost requests ever keep the head from being served? | they do not |
| `engine_safety` | TorrentEngineMC | Are sockets bounded and accounted for, and no open address dialled? Do the books of engine, peers and piece manager agree? | holds |
| `pipeline_overrun` | TorrentDownload | Is a peer never asked past the depth of its pipeline? | violated |
| `streaming` | StreamingMC | Does the decoder get true bytes, is the window kept, does a blocked read end? Is every running engine registered, does connecting end? Does stop close every socket, and does every address get a turn? | holds |
| `sessions_killed` | TorrentSessions | Does the engine of the current play run? | violated |
| `http_safety` | HttpPlayer | Are lanes never refused and silent after stop, is the blocked decoder served, does rebuffering end? | holds |
| `decoder_seeks` | MediaDecoderMC | Who owns the ring, is the picture the right one, do seeks and destruction end? | holds |
| `decoder_scrubs` | MediaDecoderMC | Is the ring left alone while it is reset, whenever seeks are given? | violated |
| `native_io` | NativeIoMC | Do positions, descriptors, references, pages, packed data and files survive what servers, pool and system do? | holds |
| `native_runtime` | NativeRuntimeMC | Is everything given back once, on either road, and is there always a way out of an error? Are graphs, timelines, streams and voices consistent, and is a stream a queue? | holds |
| `native_graphics` | NativeGraphicsMC | Do calls draw on pixels and with objects and bytes that are theirs? | holds |

Deadlock is checked in `pieces_store` and `pieces_requests`. The other
configurations switch it off and say why: a stopped engine or player, a download
in which all is read, a destroyed decoder, a program that ended or a stream at
its end have nothing left to do.

## 4. Properties

A property of a run is a conjunction of named parts, each with a comment at its
definition that cites the code.

The application:

* `PiecesConsistent`. `MemoryInWindow`: nothing outside the keep window is held,
  even if evicted while its hash ran. `FullPieceIsHashed`: no piece sits full
  and unverified, refusing every block as a duplicate. `NoDoubleWork`: a
  verified piece is not assembled again, a buffer is hashed once.
* `VerifiedReads`: a read returns every buffered byte asked for, and only bytes
  of verified pieces. `StoreSpec`: refinement of `PieceStore`. `HeadServed`: if
  the player stays put and peers stop sending bad data, the head piece gets
  verified.
* `SlotsConsistent`. `SlotsBounded`: `MAX_CONNECTING` and `maxPeers` hold
  whoever calls `connectMore` (the socket pool of the console has 59 entries).
  `SlotsAccounted`: slots and sockets match on every way out of `connectPeer`,
  and every peer is in `#lastUseful`, which else knows only open peers that are
  being greeted. `OneSocketPerAddress`.
* `StopDrains`: after stop every socket closes for good, those still being
  dialled included. `AddressTried`: choking peers do not keep an untried address
  waiting for ever, provided that each of them stops sending blocks at some time
  (`ChokersFallSilent`; section 8).
* `BooksAgree`. `HoldersConnected`: `#blockPeers` names peers in `#peers` only.
  `HeldIsWanted`: every block it lists is one we lack and `#inflight` knows. The
  type invariant in it bounds `outstanding` by the depth, as the engine counts.
  `OwedIsCounted`: a peer owes no more answers than `outstanding` says, unless a
  block it did not owe was counted (`astray`). `PipelineKept`, which does not
  hold, says that no peer ever owes more answers than the depth.
* `RegistryConsistent`. `RunningAreRegistered`: `#sessions` holds exactly the
  running engines. `StreamsWhatIsReady`: the player streams from an engine whose
  file is chosen and waits only for one that will still settle; which file was
  chosen it does not say. `ConnectingEnds`:
  a play gets an answer.
* `LanesConsistent`. `NeverRefused`: the lanes started never meet the limit of
  `HttpStream.read`, which would fail the player. `QuietAfterStop`: after stop or
  a failure no read sends a request or delivers a block.
* `BlockedIsServed`: a decoder that waits for a block gets it or the player
  reports a failure, whatever seeks, aborts, late answers and shrinks come in
  between. `RebufferingEnds`: a decoder that stays put sees playback resume.

The media path:

* `SourceConsistent`: `ChunksDisjoint`, `ReadsTrueBytes`, `WantedIsBlocked` (the
  app sees exactly whether and where the decoder waits), `ClosedHoldsNothing` (a
  late provide does not revive a closed source). `RetainKeepsWindow`,
  `BlockedReadEnds`.
* `RingConsistent`. `RingBounded`: the ring never holds more than its slots,
  whatever seeks are given. As long as none was given on top of another
  (`overlapped`): `RingOrdered`, the counters never cross, although one side resets
  both; `SeekOwnsRing`, `seeking` is true when the ring is reset, which keeps the
  main thread away. `ResetHasTheRing` is what fails otherwise.
* `PictureIsTrue`. `NoStaleFrame`: nothing decoded before a seek is presented
  after it. `EndedShowsLast`: `ended` only once the last frame was shown.
  `NoStaleCue`: no cue of a deselected track. `PictureMovesOn`: between seeks the
  picture never jumps back. All but `EndedShowsLast` are claimed until a seek
  overlaps another.
* `CallsEnd`. `SeekEnds`, `DestroyEnds`: the thread leaves whatever it waits for,
  under any seeks.
* `GraphConsistent`. `RefsCountHolders`: the count is the number of holders, so
  the graph goes with the last of them. `EdgesMirrored`: both ends of an edge
  know it and exist. `SourcesInTime`: a scheduled source has played exactly the
  frames since its start. `MixedOncePerWay`: a quantum mixes a source once per
  way to the destination, and advances it once, cycles included.
* `StreamConsistent` (`FramesInPlace`): every frame between the counters, and
  every frame the render thread has yet to copy, is in its slot. `StreamIsQueue`:
  refinement of `FrameQueue`.
* `TimelineKept`: `TimelineSorted`; `SetIsHeard` (a value set is read back);
  `EventsTakeEffectInTime`; `CancelKeepsThePast`.
* `SinksConsistent`: `SinksHaveDriver`, `VoicesAccounted`, `ThreadNeedsDriver`.
* `StreamFollowsPosition`. `StreamAligned`: the byte handed out next is the one
  at the position. `BodyInBounds`. `NoFalseEnd`: 0 means the end, never a broken
  connection. `PositionFollowsCalls`: a refused seek changes nothing.
* `LoadsAccounted`: `RefsMatchUsers`, `LatestLoadPlays`, `NodeHasMedia` (a node
  never goes before the thread that writes to it), `GetsItsTurn` (a queued load
  is worked on).

Files, sockets, memory and the program:

* `DescriptorsAccounted`: `HoldersOwn` (whoever remembers a descriptor owns it,
  but for a write that has yet to notice the close of its socket), `OneCloser`,
  `OnePollPerFd`, `ContextsSettle`, `PlainIsClosed`, `NotClosedUnderPoll`; all but
  the last up to the moment such a write goes on.
* `ArenaAccounted`: `FreePagesFound` (the hint hides no free page, the count is
  right), `UsableIsBacked`, `CodeFits`. `ArenaIsMemory`: refinement of
  `AnonymousMemory`.
* `PackingWhole`: `NothingLost`, `SoundInputEnds` (no false failure),
  `EveryStreamEnds`.
* `TreeKept`: `WholeOrRejected` (a write that came up short is rejected, unless it
  lost its tail in the flush of `fclose`, section 8), `MakersDontCollide` (makers
  of the same directories do not fail for it), `RemovedIsGone`. What a read
  returns is left to the file system.
* `FileReadOnce`: `ClosedOnce`, `BytesInOrder`, `EndedIsClosed`.
* `ResourcesReturned`: `HeapWithinReach`, `ScreenHasOneRenderer`,
  `ReleasedOnce` (also when V8 dies during teardown), `TeardownOrder`,
  `NothingLeftBehind` (but the screen a console took from EGL, section 8).
* `ErrorsLeaveAWayOut`: `ReportedIsUnhandled`, `AlwaysAWayOut`.

Graphics:

* `CanvasDrawsOnItsOwn`: `DrawsOnTheSurface` (never on a freed `SkCanvas`),
  `PixelsCoverCanvas`, `StackMatchesSkia`, `PathHasStart`, `PathIsItsOwn`,
  `EncodesWhatWasAsked` (whatever happens to the canvas after the encode was asked
  for; a canvas that was resized before it and not drawn on since is left out).
* `StyleDrawsAsSet`: `StateStaysValid` (of a dash list: an even number of entries,
  not all of them zero; they may be negative), `TextAtItsSize` (contexts share a
  face), `FillReadsBack` (of a fill that was set and not restored or reset since).
* `DrawsCurrentPixels`: a video, a sensor and a bitmap are drawn as they are now.
  An `Image` is left out: its copies outlive a second decode.
* `PixelsAsAsked`: `PutsWhatWasAsked`; `GetsWhatWasAsked`, of the part of a
  rectangle that is on the canvas, if there is one.
* `ObjectsAsNamed`: `NamesItsOwn` (a wrapper never names an object that got its
  name later, until a shader is deleted that `getAttachedShaders` gave a second
  wrapper), `DrawnIsDirty` (unless the framebuffer drawn to was deleted).
* `BytesInView`: `ImageInView` and `RowsAsAsked`, for sizes that are not negative
  and do not wrap, a pixel store that is GL's too, and rows that do not overlap in
  a copy (`Exact`, `Agree`, `Apart`); `RangeInView`; `ListInArray`, but for sums of
  a plain array that wrap and lists of `clearBuffer` that are too short.

Where a part is claimed under a condition, the condition is one the code does not
ensure, and section 8 tells what happens outside of it.

## 5. Bounds

| bound | run | why it is enough |
|---|---|---|
| three pieces of 2, 2 and 1 blocks | `pieces_store` | a middle piece, a short last piece, and a piece to evict while another is hashed |
| `Buffers`, three | `pieces_store` | at most one buffer in assembly and two orphaned by eviction; more hashes under way repeat the pattern |
| `MaxPick = 1`, two pieces of 2 and 1 blocks, two buffers | `pieces_requests` | liveness; asking for several blocks at once is asking one at a time without interleaving, which `TorrentDownload` restricts |
| `MaxPick = 0` | `pieces_store` | `onBlock` stores a block whether or not it was requested, so requests add nothing to these invariants |
| three addresses, two slots, two dials, queue of two, answers of up to two addresses | `engine_safety` | more addresses than slots, dials and slots both limiting, the queue overflowing, repeated addresses in one answer |
| two addresses, one slot | `streaming` | one waits, one occupies |
| two peers, two pieces of a block, depth 1, `MaxPending = 2` | `engine_safety` | two peers race one block while another block competes for the slot; a late answer and a live request for the same block may coexist at one peer |
| `Buffers = {1}` | `engine_safety` | one hash under way; `pieces_store` varies that |
| two torrents, two files, an index out of range, `MaxEngines = 3` | `streaming`, `sessions_killed` | a stopped engine, its successor and an unrelated one |
| `Size = 4`, `MaxProvide = 3`, `MaxRead = 2` | `streaming` | ranges that overlap on either side, contain or are contained in a chunk, reads across chunks |
| a file of 3 blocks, ranges of 2, two lanes, one retry, no seek-back cache, seeks to either end | `http_safety` | a full and a short range under way at once, partial deliveries, ranges left behind by a seek, one lane after a shrink. A range lies beyond the window only in files of 4 blocks, which hold as well but take too long for a routine run |
| packets v, a, v, s; a ring of two, a stream of one packet; two turns | `decoder_seeks`, `decoder_scrubs` | a full ring and a full stream, two keyframes, a second seek, on top of the first one or after it, or a wrap |
| `PlayedOut`: once a seek has overlapped another, the film is not looped or destroyed, nor paused or resumed | `decoder_seeks` | what is claimed from then on does not depend on them one by one: the ring's bound looks at no flag, and a pause or a loop before the overlap is explored |
| two peers, two pieces of a block, depth 1 | `pipeline_overrun` | one block counted off another's request is enough |
| a source and a gain beside the destination, four edges, six frames | `native_runtime` | a cycle, a fan-out, an edge that is there twice, a source that ends inside a quantum |
| a ring of three frames, quanta of two, writes of up to two, seven frames | `native_runtime` | the ring wraps and is full and short of a quantum; counters go round twice |
| three events, two values | `native_runtime` | a ramp between two events, one cancelled before and behind the present |
| three graphs for two voices | `native_runtime` | one is refused; one comes while the last goes |
| resources of two and four bytes, reads and skips of up to two, a byte more than asked | `native_io` | a skip inside the pending bytes, one that reads on and one that reconnects |
| three sockets, one of them secure, two descriptors | `native_io` | a number is handed out again while a third socket remembers it |
| one video, two sources, one worker, three loads | `native_io` | a load overtaken while it waits, while it opens and after it |
| arenas of three and four pages, slabs of two, a last slab cut short | `native_io` | a hole between mappings, a mapping over two slabs of which one fails |
| inputs of up to five units, output of up to three for each, buffers of two and three | `native_io` | output that ends exactly at a buffer's end and output held back; two members, a cut, and none |
| two calls on a directory, two files in it and one below | `native_io` | each pair of calls on the same path, on parent and child |
| a slice of three bytes out of five, chunks of two | `native_io` | a full and a short chunk |
| two promises; grants, arenas and limits on both sides of each threshold of `main` | `native_runtime` | one rejection is handled late while the other is pending |
| widths -1, 0, 2, 22 and heights -1, 3 of three bytes a pixel; views of 0, 12, 22 and 31 bytes | `native_graphics` | sizes that are negative, that wrap at 64 and that fit, with and without padding of rows |
| dash lists with a zero, a negative and an infinite number | `native_graphics` | lists the setter drops, doubles, and lets pass though Skia refuses them |
| two contexts with one gradient, stacks of two, paths of two | `native_graphics` | what one context shares the other changes |
| sizes of canvas and image up to three, positions from -4 to 4 | `native_graphics` | every overlap of image, rectangle and canvas, and none |
| three versions of a picture | `native_graphics` | a decode that ends after a later one began |
| three wrappers, two names | `native_graphics` | a name is given out again while a wrapper of its former object is left |
| `Word = 64`; offsets 0, 11 and 63 | `native_graphics` | sums that wrap and a few on both sides of it; a view or a list with one component left |

The proofs need none of these values.

Bounds of a module that is checked in a run with others are constants of its
configuration where a theorem is about the module, and part of the `INSTANCE`
otherwise.

## 6. Fairness

* `PieceManager`: the engine's timer keeps asking while some peer has
  everything; requests age; every hash ends. A request asked again and again is
  answered in time at last (strong fairness of `Delivery`): without it no
  download can be expected to end. An aged request need not be answered at all.
* `PeerSlots` (in `StreamingMC`): the timer ticks while the engine runs; a dial
  and a handshake have timeouts; a greeting is sent or fails; a search has
  timeouts; time goes on. No fairness is assumed of the peers: they may choke for
  ever. `AddressTried` supposes of them that one which chokes us does not go on
  for ever sending blocks.
* `TorrentSessions`: `#waitForInfo` looks every 100 ms and gives up after
  120 s, so a look that finds something happens. Metadata need not arrive.
* `MediaSource`: only the timed wait of a blocked read ends by itself; neither
  thread has to call again.
* `HttpPlayer`: the tick runs, and again and again finds the video neither paused
  by the user nor seeking; no await of a read lasts for ever, since connections
  have timeouts (10 and 20 s) and the pause between tries is a timer. The
  fairness is that of all lanes together: one may be slower than the others for
  ever, and the server may fail every request.
* `MediaDecoder`: the decode thread runs, a call the main thread is in comes to
  its end, and a read that blocks is answered (by bytes or an error), which
  `BlockedIsServed` and `BlockedReadEnds` justify. The main thread need not
  present anything: a seek ends without it.
* `VideoLoader`, `Compression`, `FileStream`: a worker of the pool carries out
  the job it has and its completion is delivered. The script owes nothing: it
  need not feed a source, which is why `GetsItsTurn` excepts a worker another
  load occupies. In `FileStream` the close asked for is carried out.
* `MainLoop`: every script returns and the loop goes on; V8 need not die and
  nobody has to press a key.
* `TorrentDownload`, the audio and graphics modules, and the runs of safety
  properties: none.

## 7. Proofs

Every theorem holds for every value of the constants under the named assumptions
on them, which TLC evaluates in the runs. Those of the components that share a
module of proofs (`MemoryAssumption`, `StreamAssumption`, and the six of canvas
and WebGL) are hypotheses of the theorems, and assumed in the modules of the
runs; the others are assumed where the constants are declared. They ask for no
more than the types of the constants, and sizes that are positive where the code
makes them so: numbers a script gives are integers, negative ones included
(`DashLists`, `Widths`, `Heights`, `RowLengths`, `Positions`).

23 properties of the runs are stated by a theorem. In the order of the modules:

* **PieceManagerProofs**: `PiecesStayConsistent`, of the parts `TypeCorrect`,
  `MemoryBounded`, `NoPieceStuck`, `WorkDoneOnce`; `ImplementsStore` (the
  refinement of `PieceStore`); `ReadsAreVerified`. The invariants are not
  inductive alone: a verdict that arrives late must be about the buffer it names.
  `BufferIdentity` says that a buffer with the id of a running hash is that
  piece's, with the same blocks; `CompleteIffCached` and `CachedIntact` tie the
  flags to the cache. Refinement then needs, per step, that only a successful
  `Sha1Done` gains a piece and only eviction loses one. For the reads, the number
  `bufferedFrom` counts is the length of the longest run of verified pieces from
  the offset, and a read copies one piece's share of it after the other.
* **PeerSlotsProofs**: `SlotsStayConsistent`, of `TypeCorrect`, `SocketsBounded`,
  `NoSlotLeaks`, `DialsOnce`. The core is `DialledFits`: the addresses
  `connectMore` dials are not in use and fit into the room, by reasoning about
  the first position at which the loop stops.
* **TorrentDownloadProofs**: `BooksStayInAgreement`, `DrivesPieces`,
  `EngineReadsAreVerified`. Three parts strengthen. `TurnHasRoom`: a peer that the
  tick has still to serve can be asked, which is what bounds `outstanding`.
  `OwedFinite`: what a peer owes can be counted; `AskedMore` and `AskedLess` say
  how the count moves when requests are added and taken away, from which a peer
  that is not `astray` owes no more than `outstanding`.
  `CurrentIsFull`: a running hash over the buffer a piece has now is over all its
  blocks, so that no block of a piece that becomes complete is still on request.
  `DrivesPieces` maps each step of the engine to a step of `PieceManager` or a
  stutter, and with it what is proved of `PieceManager` carries over.
* **StreamingProofs**: `SourceStaysConsistent`, of `SourceTypeCorrect`,
  `NeverOverlap`, `DecoderGetsTrueBytes`, `WantedTellsTheTruth`,
  `ClosedStaysEmpty`; and `WindowIsKept`. `BytesInPlace` strengthens: every
  stored byte is at its place. `BufferedRun` shows that `buffered_locked` counts
  a covered run up to an uncovered offset, from which `Provide` keeps chunks
  disjoint. `RegistryStaysConsistent`, of `SessionsTypeCorrect`, `NoEngineLeaks`,
  `PlayStartsReady`: `Settled` strengthens, the engine of a session still waits
  for its metadata or has its file, so play can decide by `waiting` alone.
* **HttpPlayerProofs**: `LanesStayConsistent`, of `TypeCorrect`, `LanesHaveRoom`,
  `StopSilences`. Three parts strengthen: a read that waits to try again has a
  retry left (`RangesOK`), running lanes and those still to be started fit
  together (`LanesBounded`), and all ranges of a stopped player are aborted
  (`Silenced`).
* **MediaDecoderProofs**: `RingStaysConsistent`, of any seeks. The ring is bounded
  because the frame the main thread is about to present is never behind the
  reading end (`TakenIsAhead`), so storing it frees slots and takes none. What
  holds until a seek overlaps another rests on `OneByOne`: a seek is ordered, or
  with the main thread, or with the decode thread, and with one of them only
  (`OneSeek`); until it is carried out the main thread leaves the ring alone; and
  the frame it is about to present is still in the ring (`TakenIsQueued`).
* **NativeServicesProofs**, `MemoryMap`: `ArenaStaysAccounted` and
  `ArenaImplementsMemory`. `PagesInArena` strengthens: what is in use is in the
  range. `SkipsUsed` shows that the hint, moved on to the first page that is
  free, skips pages in use only; counts are those of finite sets. Each call is
  then a map, an extension of the range, an unmap, a protection or a write of
  `AnonymousMemory`, or it fails and stutters. `HttpReader`:
  `ReaderFollowsPosition`. `InStep` strengthens: with a connection open, what
  remains ends where the resource ends, and until the last announced byte the
  socket yields the byte at the position behind what is pending. `AudioStream`:
  `StreamStaysConsistent` and `ImplementsQueue`. The property says where frames
  are; the invariant adds where the threads are. `WriteInPlace` says that the
  copy under way lies behind the published frames and in room the producer's old
  view of the reader proves free; `QuantumPublished` that the render thread
  copies published frames only; `CountersOK` that a view is never ahead of its
  counter. `SlotsDiffer` is the arithmetic of the ring: two frames less than a
  capacity apart have different slots. For the refinement, every step that is not
  a store of a counter is a stutter. `AudioSink`: `SinksStayConsistent`.
  `JoiningStops` and `UpGoesOn` strengthen: a driver is told to stop exactly
  while the script's thread waits for the render thread, with no sink left.
* **NativeProgramProofs**, `MainLoop`: `EverythingReturned` and
  `OnlyUnhandledIsReported`. `RoadsKept` is the account of the two roads out:
  what a road has passed is no longer held, what it has not come to is held if
  it was acquired at all. `GivenBackOnce` ties the counts to it. `ScreenKept`
  says for each stage who may have the window and that main's pointers and flags
  show it, so that either road closes it. Of a screen that a console took while
  EGL had the window it says nothing, and neither does the property.
* The canvas. `CanvasKeepsItsSurface`: a canvas in memory has pixels of its size
  or the mark to make them (`Linked`), so `ensure_surface` comes before any
  drawing with a freed `SkCanvas`; `GoodStack` and `GoodPath` carry the other
  parts. `StylesStayAsSet`, for dash lists of any integers: every style on a stack
  has the widths, alphas and lists the setters let pass (`GoodStyles`), and a fill
  that was set and not restored since is what its wrapper holds (`FillIsHeld`).
  `CurrentPixelsAreDrawn`, of videos, sensors and bitmaps: each copy is of the
  pixels there are, or marked as old (`CopiesFresh`); that a bitmap is decoded
  once (`BitmapOnce`) is what keeps a late decode from breaking it.
  `CopiesAreAsAsked` is arithmetic of intervals: a step determines its result.
* WebGL. `NamesAreNotReused`: until `getAttachedShaders` has made a second
  wrapper (`forked`), the wrappers of a name agree with GL's object of that name
  (`WrappersAgree`), and what is attached is a shader, what is used a program
  (`RolesApart`), so the deletions GL delays free no name a wrapper still has.
  `GlStaysInView`, for any integers as sizes, row lengths and alignments and any
  `Word`: sizes that are exact come to the same in `size_t` and as GL counts
  them; then the arithmetic of strides, of rows in order and flipped, and of
  offsets that wrap at `Word`.

Model-checked only:

* All liveness properties (`HeadServed`, `StopDrains`, `AddressTried`,
  `ConnectingEnds`, `BlockedReadEnds`, `BlockedIsServed`, `RebufferingEnds`,
  `CallsEnd`), which the provers cannot reason about under fairness. Some
  properties have a part of this kind, which keeps the whole from being stated by
  a theorem: `LoadsAccounted` (`GetsItsTurn`), `PackingWhole`
  (`EveryStreamEnds`), `FileReadOnce` (`EndedIsClosed`) and `ErrorsLeaveAWayOut`
  (`AlwaysAWayOut`; its other part, `ReportedIsUnhandled`, is what
  `OnlyUnhandledIsReported` states).
* `PictureIsTrue`, `GraphConsistent`, `TimelineKept`, `DescriptorsAccounted`,
  `TreeKept`: safety, within reach and not proved yet (section 10).
* `PlayedEngineRuns`, `ResetHasTheRing` and `PipelineKept`, which do not hold.

Induction over data is out of reach of the provers as well, so definitions in
modules with proofs are written without recursion.

## 8. Where code and comments disagree

Three runs show one each.

`sessions_killed`: `PlayedEngineRuns`. Cancel a play
before the metadata is there, play the torrent again within 100 ms: the first
engine's rejection stops the second engine, because `sessions.ts:50` looks it up
by key.

`decoder_scrubs`: `ResetHasTheRing`. Seek, and seek again while the decode thread
decodes or converts the frame the first seek converges with. The second seek
raises `seeking` (`media-decoder.cc:976`), the delivery of that frame lowers it
(`:460-463`), and `do_seek`, for the second seek, empties the ring (`:546-549`)
with `seeking` false while `nx_media_present` may be taking a frame. If `present`
stores its read end last, that end is ahead of the write end: the fill, an
unsigned difference, is as good as full, `enqueue_video` waits, and only a third
seek gets the picture going again. `RingOrdered` and `SeekOwnsRing` fail with it,
and `NoStaleFrame` and `NoStaleCue`, since `seeking` no longer covers the second
seek.

`pipeline_overrun`: `PipelineKept`. "Keep a bounded pipeline per peer: top it up to
the depth, never past it" (`engine.ts:427`). `#dispatch` lowers `outstanding` for
every piece message (`wire/peer.ts:133`), and `#cancelElsewhere` and `retainRange`
lower it for every block they cancel. A block that was cancelled and arrives all the
same, one that nobody asked for, or the cancel of a request a choke had dropped
already, is counted off a request that is still open: the next tick asks the peer
for a block more than the depth.

Others came up while modelling. No run checks them. Where a module states the
promise, the definition is named, and TLC refutes it when it is added to a
configuration (or, where a condition is named, when that is taken out of it):

* A peer that closes during `sendInterested` is entered into `#peers` after its
  `onClose` ran (`dead` in `TorrentDownload`). Nothing removes it before the
  recycler, and only if addresses wait and it was choking us when it closed: one
  that had unchoked us keeps its slot until the engine stops. Meanwhile it is
  asked for blocks, which the others get only once they time out, and keeps the
  early announce of `engine.ts:295` from happening.
* The recycler is to give the slot of a peer that is "still choking us" to an
  untried address (`engine.ts:316`). One that chokes us and yet sends a block within
  every `chokedIdleMs`, asked for or not, is useful (`engine.ts:446`) and never gone:
  addresses can wait for ever behind it (`AddressTried` without
  `ChokersFallSilent`).
* A session the core created has picked the largest file, and `getOrCreate`
  ignores the index of a later play.
* A secure socket that is closed during its handshake keeps its connection
  (`ClosedIsClosed`, `NetSocket`; `tcp.ts:245`). If `tlsHandshake` throws before
  there is a context (`tls.cc:432`), nothing closes the descriptor any more.
* A plain write that the socket took a part of goes on after the socket was closed
  (`tcp.ts:58-69`): the rest is written to a number that is about to be closed, or
  that another connection has by then (`HoldersOwn` without `Strays`).
* `writeFile` resolves although `fclose` found the card full: its result is
  ignored (`fs.cc:593`), while `fs.ts:213` promises a file that was written
  (`WholeOrRejected` without `lost`, `Files`).
* A style keeps a raw pointer to its gradient over save and restore; the wrapper
  that is to keep the gradient alive drops it when another style is set
  (`GradientsAlive`, `CanvasState`; "kept alive by the wrapper" in `canvas.h`).
  Font faces are kept the same way. A stop that is added to a gradient after it
  was painted with is not always painted (`StopsArePainted`).
* `setLineDash` takes negative and infinite numbers (`canvas.cc:1417-1437`), which
  `SkDashPathEffect::Make` refuses: the line is drawn without dashes, and
  `getLineDash` returns the list.
* A second `src` of an image whose first is still being decoded may end up as
  the first one's picture, after its load was reported (`LoadedImageIsDrawn`,
  `CanvasImages`; `image.ts:19`). The second decode also leaks the first pixels,
  and sets width and height before the pixels.
* A picture's copies, an `SkImage` and a texture, are not released when a second
  decode ends (`image.cc:132-178`): an `Image` that was drawn once goes on being
  drawn as its first picture (`DrawsCurrentPixels` of images;
  only the frames of videos and sensors, and its own end, release them).
* "The pixels outside the canvas are transparent black in the returned ImageData"
  (`canvas-rendering-context-2d.ts:694-696`). For a rectangle that is partly outside
  `getImageData` returns a shorter buffer than the wrapper takes it for, with the
  pixels from its beginning, wherever they were to be (`canvas.cc:2231-2241`;
  `OutsideIsReturned`, `CanvasPixels`). For one right of the canvas or below it the
  buffer has a pixel read past the row, and after the last row past the pixels.
* A canvas that was resized and is encoded before anything is drawn on it is
  copied from the old pixels at the new size, past their end if it is larger
  (`snapshot_pixels`, `canvas.cc:2661`; `SnapshotWithinPixels`, `CanvasSurface`).
* `required_upload_bytes` computes in `size_t` what scripts give as signed numbers
  (`webgl.cc:368-384`): the size of an image of negative sizes may wrap to a few
  bytes and pass the check, and with `UNPACK_FLIP_Y_WEBGL` the copy of its rows
  then goes past the view and the copy (`:402-410`; `ImageInView` without `Exact`).
  So does that of rows longer than `UNPACK_ROW_LENGTH` says, past the copy (without
  `Apart`).
* `pixelStorei` passes to GL what the context does not keep (`webgl.cc:517`), such as
  `PACK_ROW_LENGTH`, the skips and `UNPACK_IMAGE_HEIGHT`; `readPixels` and the
  uploads size the view without it (`:1493`), so GL reads and writes outside of it
  (`ImageInView` without `Agree`). An alignment GL refuses is kept all the same.
* `clearBufferfv`, `clearBufferiv` and `clearBufferuiv` ask for one component
  (`webgl.cc:1537-1578`), and GL takes four of a colour (`ListInArray` of clears).
* A framebuffer that is deleted while it is bound leaves `draw_fbo` on it, so
  what is drawn to the back buffer then is not marked (`DirtyWhenDrawn`,
  `WebglObjects`; `webgl.cc:85`).
* A console printed while EGL has the window keeps the screen past the end
  (`ScreenReturned`, `MainLoop`).
* The fused way of unpacking takes input that is cut short, though "transparent"
  (`CutShortIsRefused`, `Compression`; `compression-streams.ts:57`).

Some observations carry no definition. In the core: the same peer can be asked
twice for a critical block instead of two peers racing; near the end of a file
the swarm is asked for blocks of the next file; a range provided across a chunk
loses the bytes behind that chunk, although `media-source.h:22` calls overlapping
ranges safe; a shrink of the lanes may keep a stale range and abort the one at
the cursor. Each costs traffic or a delay, since whoever needs the data asks
again. In the canvas: what `fillStyle` reads back is wrong after a restore or a
resize; `fill('evenodd')` changes the rule of later calls. In WebGL:
`getAttachedShaders` makes second wrappers, whose names go stale; collected
wrappers leave their objects to GL; `getParameter` is null for bound objects;
ranges of plain arrays wrap. In the program: a WebGL start that fails leaves the
mode at console with no console there; a second error with a handler that
prevents the default clears the first; of the rejections of a turn only the last
is reported; `nx_framebuffer_init` frees `framebuffer` without clearing the
pointer when what follows fails; resizing `screen` frees the pixels that
`js_framebuffer` points to. In the decoder: a seek past the last frame of a loop
does not end.

## 9. What is not modelled

`PROJECT.json` gives the reason for each component. In short:

* Codecs and parsers (wire messages, bencode, URLs, subtitles, ranges), geometry
  and text shaping: pure functions of bytes and numbers, which unit tests cover
  better than a model. FFmpeg, zlib, zstd, Skia, GL, libuv and V8 are external
  and modelled by what the code relies on.
* Web crypto: each call computes on the pool from copies and settles one
  promise. Console services (pads, Bluetooth, accounts, saves): bindings that
  pass a call on; their start and release are in `MainLoop`.
* The user interface: one thread of screen state. Its busy gate is the guard of
  `Play`. The control server: stateless routing; its create call is
  `CoreCreates`. Platform wrappers and runtime packages: modelled where a
  component uses them (`tcp.ts`, `fs.ts`).
* The choice of a hardware decoder, `nx_media_decode_audio` and
  `decodeAudioData` (one sequential call each), directory handles, the
  synchronous file calls, datagram sockets and name lookups, GL calls that pass
  numbers on, sync objects, the geometry of curves.
* In the HTTP player: redirects, the cached link and the validator; rates.
* In modelled components: statistics, logging, keep-alives, and which peer has
  which piece in `TorrentDownload`.
* Not yet: DHT, trackers, metadata, the torrent feed, the core client, the add-on
  server and the poster cache, with their hazards: transaction ids of two bytes
  that collide and two lookups that each open a socket (`dht/client.ts:171`,
  `:201`), late answers to earlier attempts of a tracker (`tracker/udp.ts:97`), a
  `metadata_size` that makes a constructor throw out of every tick
  (`engine.ts:383`), two waits for one field of the core
  (`stremio/client.ts:185`), an image evicted while it loads (`posters.ts:92`),
  and a digest that rejects (`pieces.ts:163`).

`TypeOK` definitions that no run checks (`CanvasState`, `CanvasImages`,
`CanvasSurface`, `WebglObjects`, `MainLoop`, `HttpReader`) tell the reader what
the variables hold.

## 10. Plan

Done: the streaming core (`PieceManager` with `PieceStore`, `MediaSource`,
`PeerSlots`, `TorrentDownload`, `TorrentSessions`, `HttpPlayer`) and the native
runtime. Left, in order of weight:

1. `TorrentFeed`, composing `PieceStore` with `MediaSource`: the 50 ms feed,
   start and rebuffering. The cursor's bytes reach the decoder; rebuffering
   ends when the store can supply.
2. Proofs of the safety properties left: `DescriptorsAccounted`,
   `GraphConsistent`, `TimelineKept`, `PictureIsTrue`, `TreeKept`, and the safety
   parts of `LoadsAccounted`, `PackingWhole` and `FileReadOnce`. They belong into
   `NativeServicesProofs` and `MediaDecoderProofs`, and their modules are to be
   extended, no longer instantiated, by those of the runs.
3. `DhtClient` and the tracker retries: every query ends once, limits hold.
4. `Metadata`: assembly from several peers; only the right dictionary is used.
5. `CoreWaiters`, the add-on handler and the poster cache.
6. The link cache and redirects of an HTTP read; `buffering.ts` as functions,
   against a reference definition.
