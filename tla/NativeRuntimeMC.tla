---------------------------- MODULE NativeRuntimeMC ----------------------------
(***************************************************************************)
(* The main loop and the audio modules, checked in one run.  They share no *)
(* state that their properties tell apart: the main loop brings audio up   *)
(* and down with the other services, the graph counts a stream's frames    *)
(* and a parameter's value as silence, and the sink asks the graph for a   *)
(* quantum and nothing else.  So the run explores each of them by itself:  *)
(* `subject`, chosen first, is the one that moves.                         *)
(***************************************************************************)
EXTENDS MainLoop, AudioStream, AudioSink

CONSTANTS Sources, Gains, Dest

VARIABLES
  subject,
  refs, holders, nodes, inputs, outputs, source, paused, graphClosed, rendered, heard,
  base, events, now, latest

Graph == INSTANCE AudioGraph WITH BufferLength <- 3, Times <- {0, 3}, closed <- graphClosed,
                                  MaxEdges <- 4, MaxFrames <- 6
Param == INSTANCE AudioParam WITH Values <- {1, 2}, MaxTime <- 2, CurveTime <- 2, MaxEvents <- 3

ASSUME Graph!AudioGraphAssumption /\ StreamAssumption
ASSUME Param!ParamAssumption

(* Launches with little and with much memory, as an applet and not, with   *)
(* each renderer, with and without a terminal.                             *)
MCRegimes == {
    [tight |-> FALSE, renderer |-> "auto", terminal |-> TRUE],
    [tight |-> FALSE, renderer |-> "auto", terminal |-> FALSE],
    [tight |-> TRUE, renderer |-> "auto", terminal |-> TRUE],
    [tight |-> TRUE, renderer |-> "gpu", terminal |-> FALSE]}

graph == <<refs, holders, nodes, inputs, outputs, source, paused, graphClosed, rendered, heard>>
param == <<base, events, now, latest>>
audioVars == <<graph, vars, param, sinkVars>>
runtimeVars == <<subject, loopVars, audioVars>>

RuntimeInit ==
  /\ subject \in {"main", "graph", "stream", "param", "sink"}
  /\ MainLoopInit /\ Graph!Init /\ Init /\ Param!Init /\ SinkInit
  /\ subject # "graph" => "sink" \in holders
  /\ subject # "main" => regime.tight /\ regime.terminal

RuntimeNext ==
  /\ UNCHANGED subject
  /\ \/ subject = "main" /\ MainLoopNext /\ UNCHANGED audioVars
     \/ subject = "graph" /\ Graph!Next /\ UNCHANGED <<loopVars, vars, param, sinkVars>>
     \/ subject = "stream" /\ Next /\ UNCHANGED <<loopVars, graph, param, sinkVars>>
     \/ subject = "param" /\ Param!Next /\ UNCHANGED <<loopVars, graph, vars, sinkVars>>
     \/ subject = "sink" /\ SinkNext /\ UNCHANGED <<loopVars, graph, vars, param>>

(* MainLoop's fairness: every script returns, and main goes on.            *)
RuntimeSpec ==
  /\ RuntimeInit /\ [][RuntimeNext]_runtimeVars
  /\ WF_runtimeVars(subject = "main" /\ MainSteps /\ UNCHANGED <<subject, audioVars>>)

-----------------------------------------------------------------------------
(* AudioGraph: references, edges, schedules and mixes (audio-graph.cc).    *)
GraphConsistent == Graph!GraphConsistent

(* AudioParam: the timeline of a parameter (audio-graph.cc).               *)
TimelineKept == Param!TimelineKept
================================================================================
