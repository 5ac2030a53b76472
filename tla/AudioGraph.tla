------------------------------ MODULE AudioGraph ------------------------------
(***************************************************************************)
(* The Web Audio graph, src/runtime/nxjs/source/audio-graph.cc, and the    *)
(* handles over it in audio.cc: one context, its nodes and their edges,    *)
(* the counted references that keep the graph, the buffer sources'         *)
(* schedule, and the rendering of a quantum.                               *)
(*                                                                         *)
(* Every entry point holds the graph mutex, so each is one step; the       *)
(* render thread, a render job on the thread pool and the script's calls   *)
(* and finalizers come in any order.  A source's samples are abstracted to *)
(* their number, the sum at a node to how often it holds each source.      *)
(***************************************************************************)
EXTENDS Integers, FiniteSetsExt

CONSTANTS
  Sources,      \* AudioBufferSourceNodes
  Gains,        \* nodes with an input: gains and panners
  Dest,         \* g->destination
  Quantum,      \* NX_AUDIO_RENDER_QUANTUM, in frames
  BufferLength, \* frames of a source's buffer
  Times,        \* the times given to start() and stop()
  MaxEdges,     \* bound: edges at a time
  MaxFrames     \* bound: frames rendered

\* What the model asks of its constants.
AudioGraphAssumption ==
  /\ Sources \cap Gains = {} /\ Dest \notin Sources \cup Gains
  /\ Quantum \in Nat \ {0} /\ BufferLength \in Nat \ {0}
  /\ Times \subseteq Nat
  /\ MaxEdges \in Nat /\ MaxFrames \in Nat

VARIABLES
  refs,     \* g->refs
  holders,  \* who holds one of them: "ctx", "sink", "job", or a node's handle
  nodes,    \* g->nodes
  inputs,   \* nx_audio_node::inputs
  outputs,  \* nx_audio_node::outputs
  source,   \* the schedule of each source
  paused,   \* g->suspended
  closed,   \* g->closed
  rendered, \* g->frames_rendered
  heard     \* the destination's bus: how often it holds each source

vars == <<refs, holders, nodes, inputs, outputs, source, paused, closed, rendered, heard>>

Processors == Gains \cup {Dest}
Nodes == Sources \cup Processors
Never == -1
Fresh == [state |-> "unscheduled", start |-> 0, stop |-> Never, buffer |-> FALSE,
          position |-> 0, since |-> 0, emitted |-> 0]
Silence == [s \in Sources |-> 0]
LeastOf(a, b) == IF a <= b THEN a ELSE b
MostOf(a, b) == IF a >= b THEN a ELSE b

-----------------------------------------------------------------------------
(* process_buffer_source: what a source does in the quantum from t0. *)

EndOfQuantum(s, t0) ==
  IF s.stop = Never THEN t0 + Quantum ELSE LeastOf(t0 + Quantum, s.stop)
FramesLeft(s) == BufferLength - s.position
Emits(s, t0) ==
  IF s.buffer
  THEN MostOf(0, LeastOf(EndOfQuantum(s, t0) - MostOf(t0, s.start), FramesLeft(s)))
  ELSE 0
FinishesLate(s, t0) == \* mutant: the frame at stop_time is still played
  \/ s.stop # Never /\ s.stop + 1 < t0 + Quantum
  \/ s.buffer /\ MostOf(t0, s.start) + FramesLeft(s) < EndOfQuantum(s, t0)
Finishes(s, t0) ==
  \/ s.stop # Never /\ s.stop < t0 + Quantum
  \/ s.buffer /\ MostOf(t0, s.start) + FramesLeft(s) < EndOfQuantum(s, t0)

Advanced(s, t0) ==
  IF s.state # "scheduled" THEN [s EXCEPT !.emitted = 0]
  ELSE [s EXCEPT !.emitted = Emits(s, t0),
                 !.position = s.position + Emits(s, t0),
                 !.state = IF Finishes(s, t0) THEN "finished" ELSE "scheduled"]

(***************************************************************************)
(* process_node.  `b` threads what is marked on the nodes: those being     *)
(* processed, those done in this quantum, their buses, the sources.        *)
(***************************************************************************)
Started(b, n) == [b EXCEPT !.busy = b.busy \cup {n}]
Done(b, n) == [b EXCEPT !.busy = b.busy \ {n}, !.done = b.done \cup {n}]
Mixed(a, c) == [s \in Sources |-> a[s] + c[s]]

RECURSIVE Processed(_, _)
(* sum_inputs, for a gain, a panner or the destination. *)
Summed(b, n) ==
  LET Add(src, acc) == LET p == Processed(acc.b, src)
                       IN  [b |-> p, in |-> Mixed(acc.in, p.bus[src])]
      all == FoldSet(Add, [b |-> b, in |-> Silence], inputs[n])
  IN  [all.b EXCEPT !.bus = [all.b.bus EXCEPT ![n] = all.in]]
Played(b, n) ==
  LET s == Advanced(b.source[n], rendered)
  IN  [b EXCEPT !.source = [b.source EXCEPT ![n] = s],
                !.bus = [b.bus EXCEPT ![n] = [Silence EXCEPT ![n] = s.emitted]]]
ProcessedAnew(b, n) == \* mutant: no memo of the quantum
  IF n \in b.busy THEN [b EXCEPT !.bus = [b.bus EXCEPT ![n] = Silence]]
  ELSE Done(IF n \in Sources THEN Played(Started(b, n), n) ELSE Summed(Started(b, n), n), n)
Processed(b, n) ==
  IF n \in b.done THEN b
  ELSE IF n \in b.busy THEN [b EXCEPT !.bus = [b.bus EXCEPT ![n] = Silence]]
  ELSE Done(IF n \in Sources THEN Played(Started(b, n), n) ELSE Summed(Started(b, n), n), n)

OnlyReached(b) == b \* mutant: sources that nothing plays do not progress
AlsoUnreached(b) ==
  FoldSet(LAMBDA n, acc : Processed(acc, n), b, nodes \cap Sources)

RenderQuantum ==
  LET b == AlsoUnreached(Processed(
             [busy |-> {}, done |-> {}, bus |-> [n \in Nodes |-> Silence], source |-> source],
             Dest))
  IN  /\ source' = b.source
      /\ heard' = b.bus[Dest]
      /\ rendered' = rendered + Quantum

-----------------------------------------------------------------------------
(* References. *)

RefBy(h) == refs' = refs + 1 /\ holders' = holders \cup {h}
UnrefBy(h) == refs' = refs - 1 /\ holders' = holders \ {h}

GraphSame == UNCHANGED <<nodes, inputs, outputs, source, paused, closed, rendered, heard>>
ClockSame == UNCHANGED <<paused, closed, rendered, heard>>
RefsSame == UNCHANGED <<refs, holders>>

-----------------------------------------------------------------------------
(* The script's calls. *)

NewNode(n) ==
  /\ "ctx" \in holders /\ n \notin nodes
  /\ RefBy(n)
  /\ nodes' = nodes \cup {n}
  /\ source' = IF n \in Sources THEN [source EXCEPT ![n] = Fresh] ELSE source
  /\ ClockSame /\ UNCHANGED <<inputs, outputs>>

DestinationHandle ==
  /\ "ctx" \in holders /\ Dest \notin holders
  /\ RefBy(Dest)
  /\ GraphSame

Without(f, n) == [m \in Nodes |-> f[m] \ {n}]
CutOutputsOnly(n) == \* mutant: nodes that feed n keep it as an output
  /\ inputs' = [Without(inputs, n) EXCEPT ![n] = {}]
  /\ outputs' = [outputs EXCEPT ![n] = {}]
CutBothWays(n) ==
  /\ inputs' = [Without(inputs, n) EXCEPT ![n] = {}]
  /\ outputs' = [Without(outputs, n) EXCEPT ![n] = {}]

(* nx_audio_node_release, from a finalizer.  The destination stays.        *)
Release(n) ==
  /\ n \in holders
  /\ UnrefBy(n)
  /\ IF n = Dest THEN UNCHANGED <<nodes, inputs, outputs, source>>
     ELSE /\ CutBothWays(n)
          /\ nodes' = nodes \ {n}
          /\ source' = IF n \in Sources THEN [source EXCEPT ![n] = Fresh] ELSE source
  /\ ClockSame

EdgeCount == FoldSet(LAMBDA n, k : k + Cardinality(inputs[n]), 0, Nodes)

Connect(a, c) ==
  /\ a \in holders /\ c \in holders
  /\ a \notin inputs[c] => EdgeCount < MaxEdges
  /\ inputs' = [inputs EXCEPT ![c] = inputs[c] \cup {a}]
  /\ outputs' = [outputs EXCEPT ![a] = outputs[a] \cup {c}]
  /\ RefsSame /\ ClockSame /\ UNCHANGED <<nodes, source>>

Disconnect(a, c) ==
  /\ a \in holders /\ c \in holders /\ c \in outputs[a]
  /\ inputs' = [inputs EXCEPT ![c] = inputs[c] \ {a}]
  /\ outputs' = [outputs EXCEPT ![a] = outputs[a] \ {c}]
  /\ RefsSame /\ ClockSame /\ UNCHANGED <<nodes, source>>

DisconnectAll(a) ==
  /\ a \in holders /\ outputs[a] # {}
  /\ inputs' = [m \in Nodes |-> IF m \in outputs[a] THEN inputs[m] \ {a} ELSE inputs[m]]
  /\ outputs' = [outputs EXCEPT ![a] = {}]
  /\ RefsSame /\ ClockSame /\ UNCHANGED <<nodes, source>>

(* A buffer is set once, before start() or after.                          *)
SetBuffer(s) ==
  /\ s \in holders /\ ~source[s].buffer
  /\ source' = [source EXCEPT ![s] = [source[s] EXCEPT !.buffer = TRUE, !.since = rendered]]
  /\ RefsSame /\ ClockSame /\ UNCHANGED <<nodes, inputs, outputs>>

Start(s, when) ==
  /\ s \in holders /\ source[s].state = "unscheduled"
  /\ source' = [source EXCEPT ![s] =
       [source[s] EXCEPT !.state = "scheduled", !.start = when, !.since = rendered]]
  /\ RefsSame /\ ClockSame /\ UNCHANGED <<nodes, inputs, outputs>>

StopTimeAsGiven(when) == when \* mutant: a time in the past is kept
StopTime(when) == MostOf(when, rendered)
Stop(s, when) ==
  /\ s \in holders /\ source[s].state # "unscheduled"
  /\ source' = [source EXCEPT ![s] = [source[s] EXCEPT !.stop = StopTime(when)]]
  /\ RefsSame /\ ClockSame /\ UNCHANGED <<nodes, inputs, outputs>>

SetSuspended(on) ==
  /\ "ctx" \in holders /\ "sink" \in holders /\ paused # on
  /\ paused' = on
  /\ RefsSame /\ UNCHANGED <<nodes, inputs, outputs, source, closed, rendered, heard>>

(* audioContextClose: the sink is detached, which drops its reference.     *)
CloseContext ==
  /\ "ctx" \in holders /\ ~closed
  /\ IF "sink" \in holders THEN UnrefBy("sink") ELSE RefsSame
  /\ closed' = TRUE
  /\ UNCHANGED <<nodes, inputs, outputs, source, paused, rendered, heard>>

(* free_audio_ctx, from a finalizer; a job pins the context.               *)
FreeContextKeepingSink == \* mutant: the sink is left attached, its reference dropped
  /\ "ctx" \in holders /\ "job" \notin holders
  /\ refs' = refs - Cardinality(holders \cap {"ctx", "sink"})
  /\ holders' = holders \ {"ctx"}
  /\ GraphSame
FreeContext ==
  /\ "ctx" \in holders /\ "job" \notin holders
  /\ refs' = refs - Cardinality(holders \cap {"ctx", "sink"})
  /\ holders' = holders \ {"ctx", "sink"}
  /\ GraphSame

(* nx_audio_graph_render_s16, from the sink's thread.                      *)
RenderOutput ==
  /\ "sink" \in holders /\ rendered + Quantum <= MaxFrames
  /\ ~paused /\ ~closed
  /\ RenderQuantum
  /\ RefsSame /\ UNCHANGED <<nodes, inputs, outputs, paused, closed>>

(* audioOfflineRender, its quanta on the thread pool, and its callback.    *)
QueueJob ==
  /\ "ctx" \in holders /\ holders \cap {"sink", "job"} = {}
  /\ RefBy("job")
  /\ GraphSame
RenderJob ==
  /\ "job" \in holders /\ rendered + Quantum <= MaxFrames
  /\ RenderQuantum
  /\ RefsSame /\ UNCHANGED <<nodes, inputs, outputs, paused, closed>>
EndJob ==
  /\ "job" \in holders
  /\ UnrefBy("job")
  /\ GraphSame

-----------------------------------------------------------------------------
Init ==
  /\ holders \in {{"ctx"}, {"ctx", "sink"}}
  /\ refs = Cardinality(holders)
  /\ nodes = {Dest}
  /\ inputs = [n \in Nodes |-> {}] /\ outputs = [n \in Nodes |-> {}]
  /\ source = [s \in Sources |-> Fresh]
  /\ paused = FALSE /\ closed = FALSE
  /\ rendered = 0 /\ heard = Silence

Next ==
  \/ \E n \in Sources \cup Gains : NewNode(n)
  \/ DestinationHandle
  \/ \E n \in Nodes : Release(n)
  \/ \E a \in Sources \cup Gains, c \in Processors : Connect(a, c) \/ Disconnect(a, c)
  \/ \E a \in Sources \cup Gains : DisconnectAll(a)
  \/ \E s \in Sources : SetBuffer(s)
  \/ \E s \in Sources, when \in Times : Start(s, when) \/ Stop(s, when)
  \/ SetSuspended(TRUE) \/ SetSuspended(FALSE)
  \/ CloseContext \/ FreeContext
  \/ RenderOutput \/ QueueJob \/ RenderJob \/ EndJob

Spec == Init /\ [][Next]_vars

-----------------------------------------------------------------------------
(* The count of references is the number of holders, so the graph, with    *)
(* every node in it, is freed with its last holder and never under the     *)
(* render thread, a job or a node's handle (audio-graph.cc:448-492,        *)
(* audio.cc:36-43).                                                        *)
RefsCountHolders == refs = Cardinality(holders)

(* An edge is known at both of its ends, and both ends are nodes of the    *)
(* graph: no node is reached after its finalizer deleted it                *)
(* (audio-graph.cc:472-520).                                               *)
EdgesMirrored ==
  /\ \A a, c \in Nodes : a \in inputs[c] <=> c \in outputs[a]
  /\ \A a, c \in Nodes : a \in inputs[c] => {a, c} \subseteq nodes

(* The reference for a mix: the number of ways from a source to a node     *)
(* that has them within `n` steps.                                         *)
RECURSIVE Ways(_, _, _)
Ways(s, n, steps) ==
  IF s = n THEN 1
  ELSE IF steps = 0 THEN 0
  ELSE FoldSet(LAMBDA m, k : k + Ways(s, m, steps - 1), 0, inputs[n])

RECURSIVE Above(_, _)
Above(n, steps) ==
  IF steps = 0 THEN {n} ELSE {n} \cup UNION {Above(m, steps - 1) : m \in inputs[n]}
Acyclic == \A n \in Nodes : \A m \in inputs[n] : n \notin Above(m, Cardinality(Nodes))

(* A quantum mixes each source into the destination once per way through   *)
(* the graph, though every node is processed once; and a source with a     *)
(* fan-out, or in a graph with a cycle, advances by one quantum only       *)
(* (audio-graph.cc:339-384).                                               *)
MixedOncePerWay ==
  [][rendered' # rendered =>
       /\ Acyclic => \A s \in Sources :
            heard'[s] = Ways(s, Dest, Cardinality(Nodes)) * source'[s].emitted
       /\ \A s \in Sources :
            source'[s].position - source[s].position \in 0..Quantum]_vars

(* Where a scheduled source ends: its stop time, or its buffer's end       *)
(* counted from when it could begin.                                       *)
Begins(s) == MostOf(source[s].start, source[s].since)
Due(s) ==
  {e \in {source[s].stop} : e # Never} \cup
  {e \in {Begins(s) + BufferLength} : source[s].buffer}

(* A source is in time: while it is scheduled it has played exactly the    *)
(* frames since its start, and by the frame where it is due to end it is   *)
(* finished, connected or not ("so `ended` fires even for unconnected      *)
(* sources", audio-graph.cc:376-377, 614-620).                             *)
SourcesInTime ==
  \A s \in nodes \cap Sources : source[s].state = "scheduled" =>
    /\ \A e \in Due(s) : rendered <= e
    /\ source[s].buffer => source[s].position = MostOf(0, rendered - Begins(s))

(* References, edges, schedules and mixes of a graph that is rewired while *)
(* it plays: no node is freed under a holder, every source is heard as     *)
(* often as it is connected and ends when it should (audio-graph.cc).      *)
GraphConsistent == [](RefsCountHolders /\ EdgesMirrored /\ SourcesInTime) /\ MixedOncePerWay
=============================================================================
