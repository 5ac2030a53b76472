---------------------------- MODULE CanvasPixels ----------------------------
(***************************************************************************)
(* Which pixels putImageData and getImageData move (canvas.cc), along one  *)
(* axis: both treat the two alike.  A move is the set of pairs of a pixel  *)
(* read and a pixel written; for getImageData the pixels written are those *)
(* of the buffer it returns, whose length the wrapper in                   *)
(* canvas-rendering-context-2d.ts takes to be the one asked for.           *)
(***************************************************************************)
EXTENDS Integers, FiniteSets, FiniteSetsExt

CONSTANTS Extents,      \* sizes of a canvas and of an ImageData
          Positions     \* numbers a script gives

\* What the model asks of its constants.
CanvasPixelsAssumption == Extents \subseteq Nat \ {0} /\ Positions \subseteq Int

VARIABLES copy,         \* the call, as the script makes it
          moved         \* pairs <<read, written>>, and the length of a buffer returned

pixelsVars == <<copy, moved>>

NotMoved == [pairs |-> {}, length |-> 0]

-----------------------------------------------------------------------------
(* nx_canvas_context_2d_put_image_data: the dirty rectangle is normalized  *)
(* and clipped to the image, then to the canvas.                           *)
Smaller(m, n) == IF m < n THEN m ELSE n
Span(at, length) == [at |-> at, length |-> length]
\* mutant: a negative extent is taken for none
NormalizedToNone(s) == IF s.length < 0 THEN Span(s.at, 0) ELSE s
Normalized(s) == IF s.length < 0 THEN Span(s.at + s.length, -s.length) ELSE s
NotNegative(s) == IF s.at < 0 THEN Span(0, s.length + s.at) ELSE s
Within(s, extent) ==
    IF s.at + s.length > extent THEN Span(s.at, extent - s.at) ELSE s

Dirty(c) == IF ~c.dirty THEN Span(0, c.image)
            ELSE Within(NotNegative(Normalized(Span(c.at, c.length))), c.image)

\* Columns left of the canvas are skipped in the source too.
\* mutant: they are skipped on the canvas only
ShiftedLate(s, to) == IF to < 0 THEN Span(s.at, s.length + to) ELSE s
Shifted(s, to) == IF to < 0 THEN Span(s.at - to, s.length + to) ELSE s

Put(c) ==
    LET dirty == Dirty(c)
        to == c.to + (IF c.dirty THEN dirty.at ELSE 0)
        from == Shifted(dirty, to)
        first == IF to < 0 THEN 0 ELSE to
        count == Smaller(from.length, c.canvas - first) IN
    {<<from.at + i, first + i>> : i \in 0 .. (count - 1)}

PutImageData ==
    /\ copy.op = "put" /\ moved = NotMoved
    /\ moved' = [NotMoved EXCEPT !.pairs = Put(copy)] /\ UNCHANGED copy

-----------------------------------------------------------------------------
(* nx_canvas_context_2d_get_image_data: clipped to the right edge of the   *)
(* canvas, at least one pixel, and then to its left edge.                  *)
AtLeastOne(s) == IF s.length <= 0 THEN Span(s.at, 1) ELSE s
Read(c) == NotNegative(AtLeastOne(Within(Normalized(Span(c.at, c.length)), c.canvas)))

GetImageData ==
    /\ copy.op = "get" /\ moved = NotMoved
    /\ LET s == Read(copy) IN
       moved' = [pairs |-> {<<s.at + i, i>> : i \in 0 .. (s.length - 1)},
                 length |-> s.length]
    /\ UNCHANGED copy

CanvasPixelsInit ==
    /\ moved = NotMoved
    /\ copy \in [op : {"put"}, canvas : Extents, image : Extents, to : Positions,
                 dirty : BOOLEAN, at : Positions, length : Positions]
         \cup [op : {"get"}, canvas : Extents, at : Positions, length : Positions \ {0}]
    /\ (copy.op = "put" /\ ~copy.dirty) => copy.at = 0 /\ copy.length = 0

CanvasPixelsNext == PutImageData \/ GetImageData
CanvasPixelsSpec == CanvasPixelsInit /\ [][CanvasPixelsNext]_pixelsVars

-----------------------------------------------------------------------------
(* The pixels asked for, from either end.                                  *)
Asked == IF copy.length >= 0 THEN copy.at .. (copy.at + copy.length - 1)
         ELSE (copy.at + copy.length) .. (copy.at - 1)
OnCanvas == 0 .. (copy.canvas - 1)

(* putImageData writes each pixel of the dirty rectangle that lies in the  *)
(* image and falls on the canvas, to the place it belongs to, and no       *)
(* other.                                                                  *)
PutsWhatWasAsked ==
    (copy.op = "put" /\ moved # NotMoved) =>
        moved.pairs = {<<i, copy.to + i>> :
                         i \in {j \in 0 .. (copy.image - 1) :
                                  /\ copy.dirty => j \in Asked
                                  /\ copy.to + j \in OnCanvas}}

(* getImageData of a rectangle that meets the canvas reads the pixels of   *)
(* it that are on the canvas, whichever corner it was given by, and no     *)
(* others, into a buffer of just as many: the whole rectangle where it is  *)
(* on the canvas.  Elsewhere the buffer is shorter than the one asked for, *)
(* and begins with the first pixel on the canvas, wherever that was to be. *)
(* Of a rectangle right of the canvas a pixel past the row is read, of     *)
(* which this says nothing.                                                *)
Seen == Asked \cap OnCanvas
GetsWhatWasAsked ==
    (copy.op = "get" /\ moved # NotMoved /\ Seen # {}) =>
        /\ moved.length = Cardinality(Seen)
        /\ moved.pairs = {<<i, i - Min(Seen)>> : i \in Seen}

(* Pixels are copied from and to where the call says, with rectangles of   *)
(* either sign: for putImageData however they meet the image and the       *)
(* canvas, for getImageData the part on the canvas, if there is one.       *)
PixelsAsAsked == PutsWhatWasAsked /\ GetsWhatWasAsked

(* A rectangle that extends past the canvas is returned whole: "the pixels *)
(* outside the canvas are transparent black in the returned ImageData      *)
(* object" (canvas-rendering-context-2d.ts).                               *)
OutsideIsReturned ==
    (copy.op = "get" /\ moved # NotMoved) => moved.length = Cardinality(Asked)
=============================================================================
