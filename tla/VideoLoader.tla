---------------------------- MODULE VideoLoader ----------------------------
(***************************************************************************)
(* What a video handle owns, and when it lets go of it (video.cc): media   *)
(* with its decode thread, opened on the thread pool, and the sources the  *)
(* script feeds, which a registry counts.                                  *)
(*                                                                         *)
(* A load is a request to the pool.  Its worker opens the media, which     *)
(* reads the source and blocks until the script provides bytes or the      *)
(* source is closed; its completion runs on the script's thread, where     *)
(* loads, resets and closes may have happened since.  What the media       *)
(* itself does is in MediaDecoder, what the source does in MediaSource.    *)
(***************************************************************************)
EXTENDS Integers, FiniteSets, Sequences

CONSTANTS
  Videos,    \* handles
  Sources,   \* identifiers of sources, 1 .. n
  Workers,   \* threads of the pool
  MaxLoads   \* bound: loads and resets of a handle

\* What the model asks of its constants.
VideoAssumption ==
  /\ Sources \subseteq Nat \ {0} /\ IsFiniteSet(Sources) /\ IsFiniteSet(Videos)
  /\ Workers \in Nat \ {0} /\ MaxLoads \in Nat

VARIABLES
  source,  \* the registry, and whether the script still holds each source
  video,   \* the handles
  queue,   \* loads no worker has taken, first come first served
  open     \* loads a worker has taken, until their completion has run

videoVars == <<source, video, queue, open>>

File == 0   \* a load from a path or a buffer
None == 0

NewVideo == [closed |-> FALSE, gone |-> FALSE, seq |-> 0, loading |-> None,
             media |-> FALSE, mediaSeq |-> 0, source |-> None, node |-> FALSE]
NoSource == [life |-> "none", refs |-> 0, held |-> FALSE]

Loads == {queue[i] : i \in DOMAIN queue} \union {[o EXCEPT !.at = "queued"] : o \in open}
Busy == Cardinality({o \in open : o.at = "opening"})

-----------------------------------------------------------------------------
(* The registry: the last reference frees a source, and closing one wakes  *)
(* whoever reads it.                                                       *)
Woken(src, i) == IF i = None THEN src ELSE [src EXCEPT ![i].life = "closed"]
AddRef(src, i) == IF i = None THEN src ELSE [src EXCEPT ![i].refs = @ + 1]
Release(src, i) ==
  IF i = None \/ src[i].refs = 0 THEN src
  ELSE [src EXCEPT ![i] = IF @.refs = 1 THEN [@ EXCEPT !.life = "freed", !.refs = 0]
                          ELSE [@ EXCEPT !.refs = @ - 1]]

Alive(i) == source[i].life \in {"open", "closed"}
Known(i) == i # None /\ Alive(i)

(* reset_media: the load under way is outdated and its source closed, so   *)
(* that its worker is not left waiting; then the media goes, with its      *)
(* thread, and after it what the thread used.                              *)
ResetKeepingNode(v) ==
  [video[v] EXCEPT !.seq = @ + 1, !.loading = None, !.media = FALSE, !.source = None]
ResetVideo(v) ==
  [video[v] EXCEPT !.seq = @ + 1, !.loading = None, !.media = FALSE, !.source = None,
                   !.node = FALSE]
ResetSourcesWaiting(v) == Release(source, video[v].source)
ResetSources(v) ==
  Release(IF Known(video[v].loading) THEN Woken(source, video[v].loading) ELSE source,
          video[v].source)

-----------------------------------------------------------------------------
(* nx_video_load resets the handle and queues the load, which takes a      *)
(* reference of its own.  A source that is not in the registry is refused  *)
(* after the reset.                                                        *)
Load(v, i) ==
  LET src == ResetSources(v)
      known == i = File \/ src[i].life \in {"open", "closed"} IN
  /\ ~video[v].closed /\ ~video[v].gone /\ video[v].seq < MaxLoads
  /\ i \in Sources => source[i].life # "none"
  /\ source' = IF known THEN AddRef(src, i) ELSE src
  /\ video' = [video EXCEPT ![v] =
       [ResetVideo(v) EXCEPT !.loading = IF known THEN i ELSE None]]
  /\ queue' = IF known THEN Append(queue, [video |-> v, seq |-> video[v].seq + 1,
                                           source |-> i, at |-> "queued"])
              ELSE queue
  /\ UNCHANGED <<open>>

Reset(v) ==
  /\ ~video[v].gone /\ video[v].seq < MaxLoads
  /\ source' = ResetSources(v)
  /\ video' = [video EXCEPT ![v] = ResetVideo(v)]
  /\ UNCHANGED <<queue, open>>

(* close_video, and with it the finalizer: a load that is under way pins   *)
(* the handle.                                                             *)
Close(v) ==
  /\ ~video[v].closed /\ ~video[v].gone
  /\ source' = ResetSources(v)
  /\ video' = [video EXCEPT ![v] = [ResetVideo(v) EXCEPT !.closed = TRUE]]
  /\ UNCHANGED <<queue, open>>

Finalize(v) ==
  /\ ~video[v].gone /\ \A l \in Loads : l.video # v
  /\ source' = IF video[v].closed THEN source ELSE ResetSources(v)
  /\ video' = [video EXCEPT ![v] = [ResetVideo(v) EXCEPT !.closed = TRUE, !.gone = TRUE]]
  /\ UNCHANGED <<queue, open>>

(* A node for the sound of the media, in the graph of an audio context.    *)
CreateNode(v) ==
  /\ video[v].media /\ ~video[v].node
  /\ video' = [video EXCEPT ![v].node = TRUE]
  /\ UNCHANGED <<source, queue, open>>

-----------------------------------------------------------------------------
(* The pool.  Opening a file ends; opening a source ends when the script   *)
(* feeds it or when it is closed.                                          *)
Take ==
  /\ queue # <<>> /\ Busy < Workers
  /\ open' = open \union {[Head(queue) EXCEPT !.at = "opening"]}
  /\ queue' = Tail(queue)
  /\ UNCHANGED <<source, video>>

Opens(o, outcome) ==
  /\ o \in open /\ o.at = "opening"
  /\ open' = (open \ {o}) \union {[o EXCEPT !.at = outcome]}
  /\ UNCHANGED <<source, video, queue>>

OpenEnds(o) ==
  \/ o.source = File /\ \E outcome \in {"opened", "failed"} : Opens(o, outcome)
  \/ o.source # File /\ source[o.source].life = "closed" /\ Opens(o, "failed")
Fed(o) ==
  /\ o.source # File /\ source[o.source].life = "open"
  /\ \E outcome \in {"opened", "failed"} : Opens(o, outcome)

(* video_load_after: only the load asked for last installs its media; any  *)
(* other media is destroyed and its reference given back.                  *)
CurrentIfOpen(o) == ~video[o.video].closed
Current(o) == ~video[o.video].closed /\ video[o.video].seq = o.seq

\* The reference taken by the load passes to the handle.
Installed(v, o) == [v EXCEPT !.media = TRUE, !.mediaSeq = o.seq, !.source = o.source]
SourcesIfLost(o) == source
SourcesLost(o) == Release(source, o.source)

After(o) ==
  /\ o \in open /\ o.at \in {"opened", "failed"}
  /\ open' = open \ {o}
  /\ LET v == IF video[o.video].seq = o.seq
              THEN [video[o.video] EXCEPT !.loading = None] ELSE video[o.video] IN
     IF o.at = "opened" /\ Current(o)
     THEN \E memory \in BOOLEAN :   \* for the frame that is drawn
            /\ video' = [video EXCEPT ![o.video] =
                 [Installed(v, o) EXCEPT !.media = memory]]
            /\ UNCHANGED source
     ELSE /\ video' = [video EXCEPT ![o.video] = v]
          /\ source' = SourcesLost(o)
  /\ UNCHANGED queue

-----------------------------------------------------------------------------
(* The script makes a source and closes it once.                           *)
NewSource(i) ==
  /\ source[i].life = "none" /\ \A j \in Sources : j < i => source[j].life # "none"
  /\ source' = [source EXCEPT ![i] = [life |-> "open", refs |-> 1, held |-> TRUE]]
  /\ UNCHANGED <<video, queue, open>>

CloseSource(i) ==
  /\ source[i].held
  /\ source' = [Release(IF Alive(i) THEN Woken(source, i) ELSE source, i) EXCEPT ![i].held = FALSE]
  /\ UNCHANGED <<video, queue, open>>

VideoInit ==
  /\ source = [i \in Sources |-> NoSource]
  /\ video = [v \in Videos |-> NewVideo]
  /\ queue = <<>>
  /\ open = {}

Pool == Take \/ \E o \in open : OpenEnds(o) \/ After(o)

VideoNext ==
  \/ Pool
  \/ \E o \in open : Fed(o)
  \/ \E i \in Sources : NewSource(i) \/ CloseSource(i)
  \/ \E v \in Videos :
       \/ \E i \in Sources \union {File} : Load(v, i)
       \/ Reset(v) \/ Close(v) \/ Finalize(v) \/ CreateNode(v)

VideoSpec == VideoInit /\ [][VideoNext]_videoVars

\* Workers run, and the loop runs completions; nobody has to feed a source.
VideoFairness == WF_videoVars(Pool)
VideoFairSpec == VideoSpec /\ VideoFairness

-----------------------------------------------------------------------------
(* A source has one reference for the script, one for each load under way  *)
(* and one for each handle that plays it, and is freed with the last of    *)
(* them: no thread reads a freed source (video.cc:117, 274).               *)
Users(i) ==
  Cardinality({l \in Loads : l.source = i}) + Cardinality({v \in Videos : video[v].source = i})
RefsMatchUsers ==
  \A i \in Sources :
    /\ source[i].refs = Users(i) + (IF source[i].held THEN 1 ELSE 0)
    /\ (source[i].life = "freed") = (source[i].refs = 0 /\ source[i].life # "none")

(* The media of a handle is that of the last load asked for, and a handle  *)
(* that was reset or closed since has none (video.cc:180).                 *)
LatestLoadPlays ==
  \A v \in Videos : video[v].media => ~video[v].closed /\ video[v].mediaSeq = video[v].seq

(* The sound's node goes with the media whose thread writes to it, never   *)
(* before it (video.cc:75).                                                *)
NodeHasMedia == \A v \in Videos : video[v].node => video[v].media

(* A load does not wait for a worker behind loads nobody wants any more:   *)
(* they end although nobody feeds their sources (video.cc:54).             *)
Waits(v) == \E i \in DOMAIN queue : queue[i].video = v /\ queue[i].seq = video[v].seq
Starved(v) == \E o \in open : o.video # v /\ Current(o) /\ o.at = "opening"
GetsItsTurn == \A v \in Videos : Waits(v) ~> (~Waits(v) \/ Starved(v))

(* Loads that overtake each other, handles that are reset or closed and    *)
(* sources that are closed meanwhile: each source lives as long as it is   *)
(* used, each handle plays its latest load, and each load has its turn     *)
(* (video.cc:54-274).                                                      *)
LoadsAccounted == [](RefsMatchUsers /\ LatestLoadPlays /\ NodeHasMedia) /\ GetsItsTurn
=============================================================================
