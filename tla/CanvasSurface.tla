---------------------------- MODULE CanvasSurface ----------------------------
(***************************************************************************)
(* What a 2D context draws on (canvas.cc): the pixels of a canvas, the     *)
(* Skia surface over them and the SkCanvas the context keeps of it, its    *)
(* stack of states, its path, and a picture being encoded in the pool.     *)
(* The surface is made again, by the first call of the context after the   *)
(* size was set; the screen's may be the GPU's, and be taken away again    *)
(* (skia_gpu.cc, main.cc).                                                 *)
(*                                                                         *)
(* A picture is the last mark made on it.  A path is its segments: whether *)
(* each starts a contour, and whose it is.  The arguments of a call are    *)
(* numbers: their conversion does not call back into the canvas.           *)
(***************************************************************************)
EXTENDS Naturals, Sequences

CONSTANTS Sizes,        \* sizes of a canvas, in pixels
          TooLarge,     \* the least size that is refused
          Marks,        \* what can be drawn
          MaxStates,    \* bound: states on a stack
          MaxPath       \* bound: segments of a path

\* What the model asks of its constants.
CanvasSurfaceAssumption ==
    /\ Sizes \subseteq Nat /\ TooLarge \in Nat \ {0}
    /\ MaxStates \in Nat \ {0} /\ MaxPath \in Nat

VARIABLES canvas,       \* nx_canvas_t, with the picture its surface holds
          ctx,          \* SkCanvas of the context: null, of the live surface, or freed
          saves,        \* save() calls the SkCanvas has not seen restored
          states,       \* fill rules of the stack of states, the current one last
          path,         \* the context's path
          used,         \* the SkCanvas the last call drew on
          encoding      \* canvasToBuffer in the pool

canvasVars == <<canvas, ctx, saves, states, path, used, encoding>>

Rules == {"winding", "evenodd"}
Blank == "blank"
NoEncoding == [pixels |-> Blank, asked |-> Blank, answer |-> "none"]

\* make_raster_surface over pixels just allocated
OnPixels(c) == [c EXCEPT !.data = c.size, !.surface = c.size, !.picture = Blank,
                         !.dirty = FALSE]
WithoutPixels(c) == [c EXCEPT !.data = 0, !.surface = 0, !.picture = Blank]

-----------------------------------------------------------------------------
(* ensure_surface, run by every call of a context before anything else:    *)
(* what can become of the canvas, and whether the context is reset.        *)
MayMake(c) == c.size \in 1 .. (TooLarge - 1)

Ensured(c) ==
    LET kept == [canvas |-> c, ctx |-> ctx, reset |-> FALSE, thrown |-> FALSE]
        none == [kept EXCEPT !.canvas = WithoutPixels(c), !.ctx = "null"] IN
    CASE c.gpu -> {[kept EXCEPT !.canvas.dirty = FALSE,
                                !.ctx = IF c.surface > 0 THEN "live" ELSE @]}
      [] ~c.gpu /\ ~c.dirty -> {kept}
      [] ~c.gpu /\ c.dirty /\ c.size = 0 ->
           {[none EXCEPT !.canvas.dirty = FALSE, !.reset = TRUE]}
      [] OTHER ->
           {[none EXCEPT !.thrown = TRUE]} \cup        \* too large, or no memory
           {[none EXCEPT !.canvas = OnPixels(c), !.ctx = "live", !.reset = TRUE]
              : fits \in {MayMake(c)} \cap {TRUE}}

\* mutant: a surface made again leaves the stack as it was
StatesAfterLeft(e) == states
StatesAfter(e) == IF e.reset THEN <<"winding">> ELSE states
SavesAfter(e) == IF e.reset THEN 0 ELSE saves
PathAfter(e) == IF e.reset THEN <<>> ELSE path

\* A call that reaches its body draws with the SkCanvas it entered with; one
\* that does not throws, or returns from a canvas of no size.
Entered(e) == canvas' = e.canvas /\ ctx' = e.ctx
Body(e) == ~e.thrown /\ e.ctx # "null"
Turned(e) ==
    /\ Entered(e) /\ ~Body(e)
    /\ states' = StatesAfter(e) /\ saves' = SavesAfter(e) /\ path' = PathAfter(e)
    /\ used' = "none" /\ UNCHANGED encoding

TurnedAway == \E e \in Ensured(canvas) : Turned(e)

\* A body that leaves the stack alone.
InBody(e, newPath) ==
    /\ Body(e)
    /\ ctx' = e.ctx /\ used' = e.ctx /\ path' = newPath
    /\ states' = StatesAfter(e) /\ saves' = SavesAfter(e) /\ UNCHANGED encoding

-----------------------------------------------------------------------------
(* Paths.  A segment that continues a contour needs one to continue: the   *)
(* calls that draw lines and curves start it where there is none.          *)
Start(who) == [starts |-> TRUE, of |-> who]
Go(who) == [starts |-> FALSE, of |-> who]

Grows(p, segments) == IF Len(p) + Len(segments) > MaxPath THEN p ELSE p \o segments

\* lineTo, bezierCurveTo and quadraticCurveTo, arc, arcTo and ellipse
\* mutant: a line is drawn from wherever the path is, or is not
ContinuedAlways(p) == <<Go("context")>>
Continued(p) == IF p = <<>> THEN <<Start("context")>> ELSE <<Go("context")>>

MoveTo == \E e \in Ensured(canvas) :
    InBody(e, Grows(PathAfter(e), <<Start("context")>>)) /\ canvas' = e.canvas
LineTo == \E e \in Ensured(canvas) :
    InBody(e, Grows(PathAfter(e), Continued(PathAfter(e)))) /\ canvas' = e.canvas
CurveTo == \E e \in Ensured(canvas) :
    LET p == PathAfter(e)
        from == IF p = <<>> THEN <<Start("context")>> ELSE <<>> IN
    InBody(e, Grows(p, from \o <<Go("context")>>)) /\ canvas' = e.canvas
\* rect and roundRect start a contour of their own; an arc of a negative
\* radius throws, an ellipse of none and roundRect of bad radii return.
Shape == \E e \in Ensured(canvas) :
    InBody(e, Grows(PathAfter(e), <<Start("context"), Go("context")>>))
    /\ canvas' = e.canvas
NoShape == \E e \in Ensured(canvas) : InBody(e, PathAfter(e)) /\ canvas' = e.canvas
BeginPath == \E e \in Ensured(canvas) : InBody(e, <<>>) /\ canvas' = e.canvas

\* apply_path: the Path2D is put in place of the context's own path for the
\* length of one call.
Borrowed == <<Start("path2d")>>
\* mutant: the path drawn is left in place
GivenBackNot(own) == Borrowed
GivenBack(own) == own

\* fill, clip and isPointInPath, of the context's path or a Path2D.  A rule that
\* is given stays the rule of the state.
RuleOf(given, stack) == IF given = "none" THEN stack
                        ELSE [stack EXCEPT ![Len(stack)] = given]
DrawsPath(e, of, mark) ==
    /\ Body(e) /\ ctx' = e.ctx /\ used' = e.ctx
    /\ path' = IF of = "path2d" THEN GivenBack(PathAfter(e)) ELSE PathAfter(e)
    /\ canvas' = IF of = "context" /\ PathAfter(e) = <<>> THEN e.canvas
                 ELSE [e.canvas EXCEPT !.picture = mark]
Fill == \E e \in Ensured(canvas), of \in {"context", "path2d"},
           rule \in Rules \cup {"none"}, mark \in Marks :
    /\ DrawsPath(e, of, mark)
    /\ states' = RuleOf(rule, StatesAfter(e))
    /\ saves' = SavesAfter(e) /\ UNCHANGED encoding
Stroke == \E e \in Ensured(canvas), of \in {"context", "path2d"}, mark \in Marks :
    /\ DrawsPath(e, of, mark)
    /\ states' = StatesAfter(e) /\ saves' = SavesAfter(e) /\ UNCHANGED encoding
\* clip and isPointInPath change the rule, and no pixel
Tests == \E e \in Ensured(canvas), of \in {"context", "path2d"},
            rule \in Rules \cup {"none"} :
    /\ DrawsPath(e, of, e.canvas.picture) /\ canvas' = e.canvas
    /\ states' = RuleOf(rule, StatesAfter(e))
    /\ saves' = SavesAfter(e) /\ UNCHANGED encoding
\* fillRect, strokeRect, clearRect, the text calls, drawImage, putImageData
Paint == \E e \in Ensured(canvas), mark \in Marks \cup {Blank} :
    InBody(e, PathAfter(e)) /\ canvas' = [e.canvas EXCEPT !.picture = mark]

-----------------------------------------------------------------------------
(* save and restore: the state on our stack, the matrix and the clip on    *)
(* Skia's.                                                                 *)
Save == \E e \in Ensured(canvas) :
    LET stack == StatesAfter(e) IN
    /\ Body(e) /\ Len(stack) < MaxStates /\ Entered(e)
    /\ saves' = SavesAfter(e) + 1
    /\ states' = Append(stack, stack[Len(stack)])
    /\ path' = PathAfter(e) /\ used' = e.ctx /\ UNCHANGED encoding
Restore == \E e \in Ensured(canvas) :
    LET stack == StatesAfter(e) IN
    /\ Body(e) /\ Len(stack) > 1 /\ Entered(e)
    /\ saves' = SavesAfter(e) - 1
    /\ states' = SubSeq(stack, 1, Len(stack) - 1)
    /\ path' = PathAfter(e) /\ used' = e.ctx /\ UNCHANGED encoding

-----------------------------------------------------------------------------
(* The size, and the surface of the screen.                                *)
\* nx_canvas_set_width, nx_canvas_set_height: even to the size it has
\* mutant: the pixels of a larger canvas are kept for a smaller one
ResizedIfLarger(c, n) == [c EXCEPT !.size = n, !.dirty = c.size < n]
Resized(c, n) == [c EXCEPT !.size = n, !.dirty = TRUE]
SetSize == \E n \in Sizes :
    /\ canvas' = Resized(canvas, n) /\ used' = "none"
    /\ UNCHANGED <<ctx, saves, states, path, encoding>>

\* An SkCanvas goes with its surface.
Freed == IF ctx = "null" THEN "null" ELSE "freed"

\* nx_canvas_set_gpu_surface: framebufferInit, right after the context was
\* made (screen.ts), with its one state.
SetGpuSurface ==
    /\ ~canvas.gpu /\ canvas.size > 0 /\ Len(states) = 1 /\ path = <<>>
    /\ canvas' = [canvas EXCEPT !.gpu = TRUE, !.dirty = TRUE, !.data = 0,
                                !.surface = canvas.size, !.picture = Blank]
    /\ ctx' = Freed /\ saves' = 0 /\ used' = "none"
    /\ UNCHANGED <<states, path, encoding>>
\* nx_canvas_release_gpu_surface: a WebGL context takes the screen
\* mutant: the next draw uses the surface as it was
ReleasedClean(c) == [WithoutPixels(c) EXCEPT !.gpu = FALSE, !.dirty = FALSE]
Released(c) == [WithoutPixels(c) EXCEPT !.gpu = FALSE, !.dirty = TRUE]
ReleaseGpuSurface ==
    /\ canvas.gpu
    /\ canvas' = Released(canvas) /\ ctx' = Freed /\ used' = "none"
    /\ UNCHANGED <<saves, states, path, encoding>>

-----------------------------------------------------------------------------
(* canvasToBuffer: a copy of the pixels is taken on the main thread, and   *)
(* encoded in the pool.  The copy has the canvas's size: from a raster     *)
(* canvas that many pixels are read of `data`, from a GPU canvas what the  *)
(* surface has of them.                                                    *)
Snapshot(c) ==
    LET stored == IF c.gpu THEN c.surface ELSE c.data IN
    IF c.size = 0 \/ stored = 0 THEN Blank
    ELSE IF stored = c.size THEN c.picture ELSE "garbled"

ToBuffer ==
    /\ encoding = NoEncoding
    /\ encoding' = [NoEncoding EXCEPT !.pixels = Snapshot(canvas),
                      !.asked = IF canvas.dirty /\ ~canvas.gpu THEN "unsettled"
                                ELSE IF canvas.gpu /\ canvas.surface # canvas.size
                                     THEN "unsettled"
                                ELSE IF canvas.size = 0 THEN Blank ELSE canvas.picture]
    /\ used' = "none" /\ UNCHANGED <<canvas, ctx, saves, states, path>>
\* nx_canvas_encode_do, of the copy
\* mutant: the pixels are shared with the canvas
EncodedShared == Snapshot(canvas)
Encoded == encoding.pixels
EncodeDo ==
    /\ encoding # NoEncoding /\ encoding.answer = "none"
    /\ encoding' = [encoding EXCEPT !.answer = Encoded]
    /\ used' = "none" /\ UNCHANGED <<canvas, ctx, saves, states, path>>
\* nx_canvas_encode_cb
EncodeEnds ==
    /\ encoding.answer # "none"
    /\ encoding' = NoEncoding
    /\ used' = "none" /\ UNCHANGED <<canvas, ctx, saves, states, path>>

\* nx_canvas_new and nx_canvas_context_2d_new
CanvasSurfaceInit ==
    /\ \E n \in Sizes \cap 1 .. (TooLarge - 1) :
         canvas = [size |-> n, data |-> n, surface |-> n, gpu |-> FALSE,
                   dirty |-> FALSE, picture |-> Blank]
    /\ ctx = "live" /\ saves = 0 /\ states = <<"winding">> /\ path = <<>>
    /\ used = "none" /\ encoding = NoEncoding

CanvasSurfaceNext ==
    \/ TurnedAway \/ MoveTo \/ LineTo \/ CurveTo \/ Shape \/ NoShape \/ BeginPath
    \/ Fill \/ Stroke \/ Tests \/ Paint \/ Save \/ Restore
    \/ SetSize \/ SetGpuSurface \/ ReleaseGpuSurface
    \/ ToBuffer \/ EncodeDo \/ EncodeEnds

CanvasSurfaceSpec == CanvasSurfaceInit /\ [][CanvasSurfaceNext]_canvasVars

-----------------------------------------------------------------------------
(* Canvas, context and path are of their types.                            *)
CanvasSurfaceTypeOK ==
    /\ canvas \in [size : Nat, data : Nat, surface : Nat, gpu : BOOLEAN, dirty : BOOLEAN,
                   picture : Marks \cup {Blank}]
    /\ ctx \in {"null", "live", "freed"} /\ used \in {"none", "live", "freed"}
    /\ saves \in Nat /\ states \in Seq(Rules) /\ states # <<>>
    /\ path \in Seq([starts : BOOLEAN, of : {"context", "path2d"}])

(* No call draws with the SkCanvas of a surface that is gone: whoever takes *)
(* a surface away leaves the mark by which the next call makes another      *)
(* (nx_canvas_set_gpu_surface, nx_canvas_release_gpu_surface).              *)
DrawsOnTheSurface == used # "freed"

(* A context that draws into memory has a pixel there for each of the      *)
(* canvas, whatever sizes were set since: putImageData writes to it with   *)
(* no check of its own (nx_canvas_set_width, ensure_surface).              *)
PixelsCoverCanvas ==
    (used = "live" /\ ~canvas.gpu) => canvas.data = canvas.size

(* Our stack of states and Skia's of matrices have the same depth whenever *)
(* a call is made, so that a restore brings back a state with the matrix   *)
(* and the clip it was saved with.                                         *)
StackMatchesSkia == used = "live" => Len(states) = saves + 1

(* A path starts with the start of a contour: Skia would draw a line from  *)
(* the origin (path_has_current).                                          *)
PathHasStart == path # <<>> => path[1].starts

(* Filling, stroking, clipping to or testing a Path2D leaves the context   *)
(* its own path (nx_canvas_context_2d_fill, _clip, point_in_common).       *)
PathIsItsOwn == \A i \in DOMAIN path : path[i].of = "context"

(* The file encoded in the pool shows the canvas as it was when the script *)
(* asked, whatever is drawn or resized from then on.  Of a canvas that was *)
(* resized before, and on which nothing was drawn or tested since, it says *)
(* nothing (`unsettled`; the surface of the GPU may also be of another     *)
(* size): that copy is made of the old pixels at the new size, and reads   *)
(* past them where the new size is larger (snapshot_pixels).               *)
EncodesWhatWasAsked ==
    (encoding.answer # "none" /\ encoding.asked # "unsettled")
      => encoding.answer = encoding.asked

(* A canvas that is resized, moved between memory and screen, saved,       *)
(* restored and encoded draws on pixels that are there, with the state and *)
(* the path it was given (canvas.cc).                                      *)
CanvasDrawsOnItsOwn ==
    /\ DrawsOnTheSurface /\ PixelsCoverCanvas /\ StackMatchesSkia
    /\ PathHasStart /\ PathIsItsOwn /\ EncodesWhatWasAsked

(* A picture is copied from pixels of its own size; a resize right before  *)
(* an encoding breaks this.                                                *)
SnapshotWithinPixels == encoding.pixels # "garbled"
=============================================================================
