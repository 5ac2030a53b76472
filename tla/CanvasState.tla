----------------------------- MODULE CanvasState -----------------------------
(***************************************************************************)
(* The drawing state of 2D contexts (canvas.cc) and what it refers to: the *)
(* styles with the guards of their setters, the stack that save and        *)
(* restore keep of them, the gradients a style points to, and the FontFace *)
(* whose FreeType size every context that uses it shares (font.cc).  Of    *)
(* canvas-rendering-context-2d.ts: the gradient the wrapper holds.         *)
(*                                                                         *)
(* The fill stands for fill and stroke; `join` for the keywords whose      *)
(* setter takes an unknown word for the default (lineCap), `align` for     *)
(* those that ignore one (textBaseline, imageSmoothingQuality,             *)
(* globalCompositeOperation).  `family` is what a script is about: text,    *)
(* paint, or one of the other properties of a style.                       *)
(***************************************************************************)
EXTENDS Integers, Sequences, SequencesExt

CONSTANTS Contexts,     \* 2D contexts, of canvases of their own
          Gradients,    \* gradients a script makes
          Numbers,      \* numbers given to setters; Infinite is one
          FontSizes,    \* font sizes; those of the script
          DashLists,    \* lists given to setLineDash
          MaxStyles,    \* bound: states on a stack
          MaxStops,     \* bound: stops of a gradient
          NoGradient    \* for a style that is no gradient

Infinite == 1000
DefaultSize == 10

\* What the model asks of its constants.
CanvasStateAssumption ==
    /\ Numbers \subseteq Int /\ FontSizes \subseteq Nat \ {0}
    /\ DashLists \subseteq Seq(Int)
    /\ MaxStyles \in Nat \ {0} /\ MaxStops \in Nat /\ NoGradient \notin Gradients

VARIABLES styles,       \* context -> stack of nx_canvas_context_2d_state_t, current last
          holds,        \* context -> the gradient its wrapper holds: fillGradient
          direct,       \* context -> no restore or reset since its last fillStyle
          gradient,     \* gradient -> whether it is there, its stops and its shader
          script,       \* gradients the script has a variable for
          face,         \* size the shared FontFace is set to
          text,         \* last text call: size laid out at, drawn at, asked for
          family

stateVars == <<styles, holds, direct, gradient, script, face, text, family>>

\* init_state_defaults, with the default font
Default == [source |-> "rgba", fill |-> NoGradient, colour |-> 0, size |-> DefaultSize,
            width |-> 1, miter |-> 10, dash |-> <<>>, alpha |-> 100, blur |-> 0,
            join |-> "miter", align |-> "start"]
Unused == [there |-> FALSE, stops |-> 0, shader |-> FALSE]
NoText == [laid |-> 0, drawn |-> 0, asked |-> 0]

Families == {"width", "miter", "alpha", "blur", "join", "align", "dash", "text", "paint"}

Current(c) == Last(styles[c])
With(c, style) == [styles EXCEPT ![c] = Append(Front(@), style)]

Sets(c, style) ==
    /\ styles' = With(c, style)
    /\ text' = NoText /\ UNCHANGED <<holds, direct, gradient, script, face, family>>

-----------------------------------------------------------------------------
(* Setters: a value out of range leaves the style as it was.               *)
\* mutant: any number is a width
WidthKeptAny(n) == TRUE
WidthKept(n) == n > 0 /\ n # Infinite
MiterKept(n) == n > 0
AlphaKept(n) == n \in 0 .. 100
BlurKept(n) == n >= 0

\* lineWidth, miterLimit, globalAlpha and shadowBlur
SetNumber(c, n) ==
    \/ family = "width" /\ WidthKept(n) /\ Sets(c, [Current(c) EXCEPT !.width = n])
    \/ family = "miter" /\ MiterKept(n) /\ Sets(c, [Current(c) EXCEPT !.miter = n])
    \/ family = "alpha" /\ AlphaKept(n) /\ Sets(c, [Current(c) EXCEPT !.alpha = n])
    \/ family = "blur" /\ BlurKept(n) /\ Sets(c, [Current(c) EXCEPT !.blur = n])

Joins == {"miter", "round"}
Aligns == {"start", "right"}
Words == Joins \cup Aligns \cup {"unknown"}
SetWord(c, w) ==
    \/ /\ family = "join"
       /\ Sets(c, [Current(c) EXCEPT !.join = IF w \in Joins THEN w ELSE "miter"])
    \/ family = "align" /\ w \in Aligns /\ Sets(c, [Current(c) EXCEPT !.align = w])

\* setLineDash: a list of odd length is taken twice, one of zeros as none; no
\* number is refused
\* mutant: a list is taken as it is
TwiceNever(list) == list
Twice(list) == IF Len(list) % 2 = 1 THEN list \o list ELSE list
Dashes(list) == IF \A i \in DOMAIN list : list[i] = 0 THEN <<>> ELSE Twice(list)
SetLineDash(c, list) ==
    family = "dash" /\ Sets(c, [Current(c) EXCEPT !.dash = Dashes(list)])

-----------------------------------------------------------------------------
(* Text.  FT_Set_Char_Size and hb_font_set_scale act on the face, which    *)
(* the contexts share (set_font_size).                                     *)
SetFont(c, size) ==
    /\ family = "text"
    /\ styles' = With(c, [Current(c) EXCEPT !.size = size]) /\ face' = size
    /\ text' = NoText /\ UNCHANGED <<holds, direct, gradient, script, family>>

\* mutant: text is laid out at the size the face happens to have
PinnedNot(size) == face
Pinned(size) == size

\* fillText and strokeText: pinned to the size of the state, laid out at a
\* smaller one where the text is wider than asked, and pinned again.
DrawText(c, narrow) ==
    LET size == Current(c).size
        laid == IF narrow THEN size \div 2 ELSE Pinned(size) IN
    /\ family = "text"
    /\ text' = [laid |-> laid, asked |-> size,
                drawn |-> IF narrow THEN size \div 2 ELSE size]
    /\ face' = Pinned(size)
    /\ UNCHANGED <<styles, holds, direct, gradient, script, family>>
\* measureText
MeasureText(c) ==
    LET size == Current(c).size IN
    /\ family = "text"
    /\ text' = [laid |-> Pinned(size), drawn |-> size, asked |-> size]
    /\ face' = Pinned(size)
    /\ UNCHANGED <<styles, holds, direct, gradient, script, family>>

-----------------------------------------------------------------------------
(* Gradients.  A style has a plain pointer to one; its wrapper in          *)
(* JavaScript keeps it, and the context's wrapper keeps the one last given *)
(* to fillStyle.                                                           *)
KeptGradients == script \cup {holds[c] : c \in Contexts}

NewGradient(g) ==
    /\ family = "paint" /\ ~gradient[g].there /\ g \notin KeptGradients
    /\ \A c \in Contexts : \A i \in DOMAIN styles[c] : styles[c][i].fill # g
    /\ gradient' = [gradient EXCEPT ![g] = [Unused EXCEPT !.there = TRUE]]
    /\ script' = script \cup {g} /\ text' = NoText
    /\ UNCHANGED <<styles, holds, direct, face, family>>
\* addColorStop: the shader is dropped
AddColorStop(g) ==
    /\ g \in script /\ gradient[g].stops < MaxStops
    /\ gradient' = [gradient EXCEPT ![g].stops = @ + 1, ![g].shader = FALSE]
    /\ text' = NoText /\ UNCHANGED <<styles, holds, direct, script, face, family>>
\* fillStyle = gradient: its shader is built of the stops it has
SetFillGradient(c, g) ==
    /\ g \in script
    /\ gradient' = [gradient EXCEPT ![g].shader = gradient[g].stops > 0]
    /\ styles' = With(c, [Current(c) EXCEPT !.source = "gradient", !.fill = g])
    /\ holds' = [holds EXCEPT ![c] = g] /\ direct' = [direct EXCEPT ![c] = TRUE]
    /\ text' = NoText /\ UNCHANGED <<script, face, family>>
\* fillStyle = colour
\* mutant: the gradient stays the source
ColouredUnder(style, n) == [style EXCEPT !.colour = n]
Coloured(style, n) == [style EXCEPT !.colour = n, !.source = "rgba", !.fill = NoGradient]
SetFillColour(c, n) ==
    /\ family = "paint" /\ n \in {0, 1}
    /\ styles' = With(c, Coloured(Current(c), n))
    /\ holds' = [holds EXCEPT ![c] = NoGradient] /\ direct' = [direct EXCEPT ![c] = TRUE]
    /\ text' = NoText /\ UNCHANGED <<gradient, script, face, family>>
\* The script drops its variable; what nothing keeps is collected, and
\* free_gradient deletes it.
Drop(g) ==
    /\ g \in script /\ script' = script \ {g} /\ text' = NoText
    /\ UNCHANGED <<styles, holds, direct, gradient, face, family>>
CollectGradient(g) ==
    /\ gradient[g].there /\ g \notin KeptGradients
    /\ gradient' = [gradient EXCEPT ![g] = Unused]
    /\ text' = NoText /\ UNCHANGED <<styles, holds, direct, script, face, family>>

\* make_fill_paint: the shader where there is one, or the colour under it
Paints(c) ==
    LET style == Current(c) IN
    IF style.source = "gradient" /\ gradient[style.fill].shader THEN style.fill
    ELSE NoGradient

-----------------------------------------------------------------------------
(* The stack.                                                              *)
SaveStyle(c) ==
    /\ Len(styles[c]) < MaxStyles
    /\ styles' = [styles EXCEPT ![c] = Append(@, Last(@))]
    /\ text' = NoText /\ UNCHANGED <<holds, direct, gradient, script, face, family>>
RestoreStyle(c) ==
    /\ Len(styles[c]) > 1
    /\ styles' = [styles EXCEPT ![c] = Front(@)]
    /\ face' = Last(Front(styles[c])).size
    /\ direct' = [direct EXCEPT ![c] = FALSE]
    /\ text' = NoText /\ UNCHANGED <<holds, gradient, script, family>>
\* ensure_surface, after the size of the canvas was set: one default state
Reset(c) ==
    /\ styles' = [styles EXCEPT ![c] = <<Default>>] /\ face' = DefaultSize
    /\ direct' = [direct EXCEPT ![c] = FALSE]
    /\ text' = NoText /\ UNCHANGED <<holds, gradient, script, family>>

CanvasStateInit ==
    /\ styles = [c \in Contexts |-> <<Default>>] /\ face = DefaultSize
    /\ holds = [c \in Contexts |-> NoGradient] /\ direct = [c \in Contexts |-> TRUE]
    /\ gradient = [g \in Gradients |-> Unused] /\ script = {}
    /\ text = NoText /\ family \in Families

CanvasStateNext ==
    \/ \E c \in Contexts :
         \/ \E n \in Numbers : SetNumber(c, n)
         \/ \E w \in Words : SetWord(c, w)
         \/ \E list \in DashLists : SetLineDash(c, list)
         \/ SaveStyle(c) \/ RestoreStyle(c) \/ Reset(c)
         \/ \E size \in FontSizes : SetFont(c, size)
         \/ \E narrow \in BOOLEAN : DrawText(c, narrow)
         \/ MeasureText(c)
         \/ \E g \in Gradients : SetFillGradient(c, g)
         \/ \E n \in Numbers : SetFillColour(c, n)
    \/ \E g \in Gradients : NewGradient(g) \/ AddColorStop(g) \/ Drop(g) \/ CollectGradient(g)

CanvasStateSpec == CanvasStateInit /\ [][CanvasStateNext]_stateVars

-----------------------------------------------------------------------------
(* Styles, gradients and the face are of their types.                      *)
CanvasStateTypeOK ==
    /\ \A c \in Contexts : styles[c] # <<>> /\ holds[c] \in Gradients \cup {NoGradient}
    /\ gradient \in [Gradients -> [there : BOOLEAN, stops : 0 .. MaxStops, shader : BOOLEAN]]
    /\ script \subseteq Gradients /\ face \in Nat

(* Whatever is set, saved and restored, the style is one Skia draws with:  *)
(* a width above zero, an alpha within range, and a dash list of even      *)
(* length that is not all zeros.  Its numbers may be negative or infinite: *)
(* the setter does not refuse them, SkDashPathEffect::Make then does, and  *)
(* the line is drawn without dashes while getLineDash returns the list.    *)
StateStaysValid ==
    \A c \in Contexts : \A i \in DOMAIN styles[c] :
        LET style == styles[c][i] IN
        /\ style.width > 0 /\ style.width # Infinite /\ style.miter > 0
        /\ style.alpha \in 0 .. 100 /\ style.blur >= 0
        /\ style.join \in Joins /\ style.align \in Aligns
        /\ style.dash # <<>> => /\ Len(style.dash) % 2 = 0
                                /\ \E j \in DOMAIN style.dash : style.dash[j] # 0

(* Text is laid out at the size it is drawn at, whichever context set the  *)
(* shared face last ("Re-pin per call", fill_text).                        *)
TextAtItsSize == text.laid = text.drawn

(* What fillStyle says is what a fill paints with, and a gradient that is  *)
(* the fill is there, from the time it was set until a restore or a new    *)
(* size; after those the wrapper may say another, and a gradient of the    *)
(* state may be gone (set_fill_style, make_fill_paint).                    *)
FillReadsBack ==
    \A c \in Contexts : direct[c] =>
        /\ (Current(c).source = "gradient") = (holds[c] # NoGradient)
        /\ holds[c] # NoGradient => Current(c).fill = holds[c] /\ gradient[holds[c]].there

(* What a script may set, save, restore and share between contexts leaves  *)
(* a style that can be drawn, but for the numbers of a dash list, and a    *)
(* fill that is the one set as long as nothing was restored (canvas.cc).   *)
StyleDrawsAsSet == StateStaysValid /\ TextAtItsSize /\ FillReadsBack

(* The gradient a context paints with is there: "kept alive by the         *)
(* wrapper" (canvas.h).                                                    *)
GradientsAlive ==
    \A c \in Contexts :
        Current(c).source = "gradient" => gradient[Current(c).fill].there

(* A gradient that is the fill and has stops paints with them: a stop      *)
(* added later is there too, "rebuilt on next use" (canvas.cc).            *)
StopsArePainted ==
    \A c \in Contexts : LET g == holds[c] IN
        (direct[c] /\ g # NoGradient /\ gradient[g].stops > 0) => Paints(c) = g
=============================================================================
