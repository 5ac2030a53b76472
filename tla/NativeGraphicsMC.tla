--------------------------- MODULE NativeGraphicsMC ---------------------------
(***************************************************************************)
(* What a script draws with, checked in one run: the surface of a canvas   *)
(* and its state, pictures, the pixels of an ImageData, and the objects    *)
(* and arrays of WebGL.  They share no state in the model, so the run      *)
(* explores each by itself: `subject`, chosen first, is the one that moves.*)
(***************************************************************************)
EXTENDS CanvasSurface, CanvasState, CanvasImages, CanvasPixels, WebglObjects, WebglData

VARIABLE subject

MCNumbers == {-1, 0, 1, 1000}
MCDashLists == {<<>>, <<0>>, <<3>>, <<-1, 0>>, <<1, 2, 1000>>}
MCPositions == -4 .. 4
MCWidths == {-1, 0, 2, 22}
MCHeights == {-1, 3}

ASSUME CanvasSurfaceAssumption /\ CanvasStateAssumption /\ CanvasImagesAssumption
ASSUME CanvasPixelsAssumption /\ WebglObjectsAssumption /\ WebglDataAssumption

canvases == <<canvasVars, stateVars, imageVars, pixelsVars>>
webgl == <<webglVars, dataVars>>
vars == <<subject, canvases, webgl>>

\* What does not move starts in one state.
OthersStill ==
  /\ subject # "surface" => canvas.size = 1
  /\ subject # "state" => family = CHOOSE f \in Families : TRUE
  /\ subject # "images" => kind = CHOOSE k \in Kinds : TRUE
  /\ subject # "pixels" =>
       /\ copy.op = "get" /\ copy.canvas = 1
       /\ copy.at = 0 /\ copy.length = 1

Init ==
  /\ subject \in {"surface", "state", "images", "pixels", "objects", "data"}
  /\ CanvasSurfaceInit /\ CanvasStateInit /\ CanvasImagesInit
  /\ CanvasPixelsInit /\ WebglObjectsInit /\ WebglDataInit
  /\ OthersStill

Next ==
  /\ UNCHANGED subject
  /\ \/ /\ subject = "surface" /\ CanvasSurfaceNext
        /\ UNCHANGED <<stateVars, imageVars, pixelsVars, webgl>>
     \/ /\ subject = "state" /\ CanvasStateNext
        /\ UNCHANGED <<canvasVars, imageVars, pixelsVars, webgl>>
     \/ /\ subject = "images" /\ CanvasImagesNext
        /\ UNCHANGED <<canvasVars, stateVars, pixelsVars, webgl>>
     \/ /\ subject = "pixels" /\ CanvasPixelsNext
        /\ UNCHANGED <<canvasVars, stateVars, imageVars, webgl>>
     \/ /\ subject = "objects" /\ WebglObjectsNext
        /\ UNCHANGED <<canvases, dataVars>>
     \/ /\ subject = "data" /\ WebglDataNext
        /\ UNCHANGED <<canvases, webglVars>>

Spec == Init /\ [][Next]_vars
=============================================================================
