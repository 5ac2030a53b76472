------------------------- MODULE NativeProgramProofs -------------------------
(***************************************************************************)
(* Proofs about the native program and what it draws with: MainLoop, the   *)
(* canvas modules (CanvasSurface, CanvasState, CanvasImages, CanvasPixels) *)
(* and the WebGL ones (WebglObjects, WebglData).  Each part has its own    *)
(* section: the types it needs, its inductive invariant, one lemma for     *)
(* each action, its theorem.                                               *)
(***************************************************************************)
EXTENDS MainLoop, CanvasSurface, CanvasState, CanvasImages, CanvasPixels,
        WebglObjects, WebglData, FiniteSetTheorems, SequenceTheorems, TLAPS

-----------------------------------------------------------------------------
(***************************************************************************)
(* The program, from launch to exit (MainLoop).                            *)
(***************************************************************************)
Owners == {"console", "framebuffer", "gpu", "webgl"}
Displays == [owners : SUBSET Owners, framebuffer : BOOLEAN, gpu : BOOLEAN,
             mode : {"init", "console", "canvas"}]
Roads == {"teardown", "emergency"}
Ends == {"done", "killed"}
Stages == ScriptStages \cup {"launch", "memory", "runtime", "top", "pads", "present"}
            \cup Roads \cup Ends

(* The variables are of their types.                                       *)
MainTypes ==
  /\ at \in Stages /\ regime \in Regimes
  /\ held \in SUBSET Holdable /\ closed \in [Holdable -> Nat]
  /\ display \in Displays /\ context \in {"none", "console", "app", "webgl"}
  /\ hooks \in SUBSET {Hooks[i] : i \in 1..4}
  /\ pending \in Promises \cup {None} /\ step \in 1..14

(* What is held was not given back.  Before the way out only the memory    *)
(* set aside for the screen is given back, and that after runtime.js ran.  *)
GivenBackOnce ==
  /\ \A r \in Holdable : closed[r] <= 1
  /\ \A r \in held : closed[r] = 0
  /\ at \notin Roads \cup Ends => \A r \in Holdable \ {"parachute"} : closed[r] = 0
  /\ at \in {"launch", "memory", "runtime"} => closed["parachute"] = 0

(* On a road out what it passed is gone and what it has not come to is     *)
(* there; before, every service is.                                        *)
RoadKept(road) ==
  /\ step <= Len(road)
  /\ \A i \in 1..(step - 1) : road[i] \notin held
  /\ \A i \in step..Len(road) : road[i] \in Services => road[i] \in held
RoadsKept ==
  /\ at = "teardown" => RoadKept(Teardown)
  /\ at = "emergency" => RoadKept(Emergency)
  /\ at \notin Roads => step = 1
  /\ at \in {"launch", "done"} => held = {}
  /\ at \notin Roads \cup {"launch", "done"} => Services \subseteq held

(* One renderer has the window, and what has it is closed by the pointer   *)
(* and the flag.                                                           *)
OneRenderer(d) ==
  /\ "gpu" \in d.owners => "webgl" \notin d.owners
  /\ "framebuffer" \in d.owners => "webgl" \notin d.owners /\ "gpu" \notin d.owners
Closable(d) ==
  /\ OneRenderer(d)
  /\ "gpu" \in d.owners => d.gpu
  /\ "framebuffer" \in d.owners => d.framebuffer /\ ~d.gpu
Believed(d) ==
  /\ d.gpu => "gpu" \in d.owners
  /\ d.framebuffer => "framebuffer" \in d.owners

(* A console takes the window from a framebuffer, a canvas from the        *)
(* console; with a terminal no console is printed over EGL.                *)
ModeTells(d, terminal) ==
  /\ d.mode = "init" => d.owners = {}
  /\ d.mode = "canvas" => "console" \notin d.owners
  /\ d.mode # "canvas" => "framebuffer" \notin d.owners
  /\ terminal /\ d.mode # "canvas" => d.owners \subseteq {"console"}
Screen(d, terminal) == Closable(d) /\ Believed(d) /\ ModeTells(d, terminal)
Left(d, terminal) == d.owners # {} => ~terminal /\ d.mode = "console"

ScreenKept ==
  /\ at \in {"launch", "memory"} => display = Dark
  /\ at \notin Roads \cup Ends =>
       /\ Screen(display, regime.terminal)
       /\ context = "none" => display.owners \subseteq {"console"}
       /\ "webgl" \in display.owners => context = "webgl"
  /\ at \in Roads => Closable(display)
  /\ at = "teardown" /\ step = 1 => Screen(display, regime.terminal)
  /\ at = "teardown" /\ step > 1 => Left(display, regime.terminal)
  /\ at = "emergency" /\ step > 1 => display.owners = {}
  /\ at = "done" => Left(display, regime.terminal)

(* The inductive invariant. *)
MainInv == MainTypes /\ HeapWithinReach /\ GivenBackOnce /\ RoadsKept /\ ScreenKept

-----------------------------------------------------------------------------
(* The steps that only move main on, and leave alone what it holds.        *)
Running == ScriptStages \cup {"top", "pads", "present"}
Quiet ==
  /\ at \in Running /\ at' \in Running \cup {"unload"}
  /\ pending' \in Promises \cup {None}
  /\ UNCHANGED <<regime, budget, held, closed, display, context, hooks, step>>

(* A step of Next leaves the program's resources and screen alone, or is   *)
(* one of the actions with a lemma of its own.                             *)
LEMMA QuietSteps ==
  ASSUME MainTypes, MainLoopNext
  PROVE  \/ Quiet \/ Launch \/ StartIsolate \/ RuntimeReady \/ RuntimeThrows
         \/ Opens \/ Logs \/ GetContext2D \/ GetWebgl \/ Unloaded \/ TearsDown \/ Fatal
<1> USE DEF MainTypes, Quiet, Running, ScriptStages, mainFrame, scriptFrame, InScript
<1>1. ASSUME EntryEnds PROVE Quiet BY <1>1 DEF EntryEnds
<1>2. ASSUME TurnBegins PROVE Quiet BY <1>2 DEF TurnBegins
<1>3. ASSUME CallbacksEnd PROVE Quiet BY <1>3 DEF CallbacksEnd
<1>4. ASSUME RejectionEnds PROVE Quiet BY <1>4 DEF RejectionEnds
<1>5. ASSUME ReadPads PROVE Quiet BY <1>5 DEF ReadPads
<1>6. ASSUME FrameEnds PROVE Quiet BY <1>6 DEF FrameEnds
<1>7. ASSUME Present PROVE Quiet BY <1>7 DEF Present
<1>8. ASSUME Exit PROVE Quiet BY <1>8 DEF Exit
<1>9. ASSUME Rejects PROVE Quiet BY <1>9 DEF Rejects
<1>10. ASSUME Handles PROVE Quiet BY <1>10 DEF Handles, HandledLeaves
<1>11. ASSUME CallbackThrows PROVE Quiet BY <1>11 DEF CallbackThrows
<1>12. ASSUME Press PROVE Quiet BY <1>12 DEF Press, Stages, Roads, Ends
<1>13. QED
  BY <1>1, <1>2, <1>3, <1>4, <1>5, <1>6, <1>7, <1>8, <1>9, <1>10, <1>11, <1>12
  DEF MainLoopNext, MainSteps, Script

-----------------------------------------------------------------------------
(* What the operations on the window leave of it.                          *)
LEMMA DisplayFields ==
  ASSUME NEW d \in Displays
  PROVE  /\ d.owners \in SUBSET Owners /\ d.framebuffer \in BOOLEAN /\ d.gpu \in BOOLEAN
         /\ d.mode \in {"init", "console", "canvas"}
BY DEF Displays

(* A display that loses an owner is a display.                             *)
LEMMA WithoutIsDisplay ==
  ASSUME NEW d \in Displays, NEW owner
  PROVE  Without(d, owner) \in Displays
BY DEF Without, Displays

(* The console opened on a dark screen owns it alone.                      *)
LEMMA ConsoleOpened ==
  ASSUME NEW d \in Displays, NEW terminal, d = Dark
  PROVE  /\ ConsoleInit(d) \in Displays
         /\ Screen(ConsoleInit(d), terminal)
         /\ ConsoleInit(d).owners = {"console"}
BY DEF ConsoleInit, Dark, Displays, Owners, Screen, Closable, OneRenderer, Believed, ModeTells

(* Closing the framebuffer takes its ownership and nothing else.           *)
LEMMA FramebufferClosed ==
  ASSUME NEW d \in Displays
  PROVE  /\ FramebufferExit(d) \in Displays
         /\ FramebufferExit(d).mode = d.mode /\ FramebufferExit(d).gpu = d.gpu
         /\ ~FramebufferExit(d).framebuffer
         /\ d.framebuffer => FramebufferExit(d).owners = d.owners \ {"framebuffer"}
         /\ ~d.framebuffer => FramebufferExit(d).owners = d.owners
BY DEF FramebufferExit, Without, Displays, Owners

(* Whatever drew before, nobody owns the screen when WebGL asks for it.    *)
LEMMA ReleasedForWebgl ==
  ASSUME NEW d \in Displays, NEW terminal, Screen(d, terminal), "webgl" \notin d.owners
  PROVE  /\ ReleaseForWebgl(d) \in Displays
         /\ ReleaseForWebgl(d).owners = {}
         /\ ~ReleaseForWebgl(d).gpu /\ ~ReleaseForWebgl(d).framebuffer
         /\ ReleaseForWebgl(d).mode = d.mode
<1> DEFINE c == ConsoleExit(d)
<1>1. /\ c \in Displays /\ c.owners = d.owners \ {"console"} /\ c.gpu = d.gpu
      /\ c.framebuffer = d.framebuffer /\ c.mode = d.mode
  BY WithoutIsDisplay DEF ConsoleExit, Without, Displays
<1>2. d.owners \subseteq {"console", "framebuffer", "gpu"}
  BY DisplayFields DEF Owners
<1>3. ("gpu" \in d.owners <=> d.gpu) /\ ("framebuffer" \in d.owners <=> d.framebuffer)
      /\ ("framebuffer" \in d.owners => "gpu" \notin d.owners)
  BY DEF Screen, Closable, Believed, OneRenderer
<1>4. ReleaseForWebgl(d) = IF c.gpu THEN [Without(c, "gpu") EXCEPT !.gpu = FALSE] ELSE FramebufferExit(c)
  BY DEF ReleaseForWebgl
<1> HIDE DEF c
<1>5. CASE c.gpu
  <2>1. ReleaseForWebgl(d) = [Without(c, "gpu") EXCEPT !.gpu = FALSE]
    BY <1>4, <1>5
  <2>2. (d.owners \ {"console"}) \ {"gpu"} = {} /\ ~d.framebuffer
    <3>1. "gpu" \in d.owners BY <1>1, <1>3, <1>5
    <3>2. "framebuffer" \notin d.owners BY <1>3, <3>1
    <3>3. ~d.framebuffer BY <3>2, <1>3
    <3>4. \A x \in d.owners : x = "console" \/ x = "gpu" BY <3>2, <1>2
    <3>5. (d.owners \ {"console"}) \ {"gpu"} = {} BY <3>4
    <3>6. QED BY <3>3, <3>5
  <2>3. c.owners \ {"gpu"} = {} /\ ~c.framebuffer
    BY <2>2, <1>1
  <2>4. /\ ReleaseForWebgl(d) \in Displays /\ ReleaseForWebgl(d).owners = c.owners \ {"gpu"}
        /\ ~ReleaseForWebgl(d).gpu /\ ReleaseForWebgl(d).framebuffer = c.framebuffer
        /\ ReleaseForWebgl(d).mode = c.mode
    BY <2>1, <1>1 DEF Without, Displays
  <2>5. QED BY <2>3, <2>4, <1>1
<1>6. CASE ~c.gpu
  <2>1. ReleaseForWebgl(d) = FramebufferExit(c)
    BY <1>4, <1>6
  <2>2. FramebufferExit(c).owners = {}
    <3>1. CASE c.framebuffer BY <3>1, <1>1, <1>2, <1>3, <1>6, FramebufferClosed
    <3>2. CASE ~c.framebuffer BY <3>2, <1>1, <1>2, <1>3, <1>6, FramebufferClosed
    <3>3. QED BY <3>1, <3>2
  <2>3. QED BY <2>1, <2>2, <1>1, <1>6, FramebufferClosed, DisplayFields
<1>7. QED BY <1>5, <1>6

(* A canvas gets the GPU, else the framebuffer, else nothing, and the      *)
(* display records which.                                                  *)
LEMMA FramebufferMade ==
  ASSUME NEW d \in Displays, NEW r, NEW egl \in BOOLEAN, NEW raster \in BOOLEAN,
         d.owners \subseteq {"console"}, Screen(d, r.terminal)
  PROVE  LET opened == FramebufferInit(d, r, egl, raster) IN
         /\ opened \in Displays /\ Screen(opened, r.terminal) /\ "webgl" \notin opened.owners
<1> DEFINE c == ConsoleExit(d)
           f == IF c.framebuffer THEN Without(c, "framebuffer") ELSE c
           opened == FramebufferInit(d, r, egl, raster)
<1>1. c \in Displays /\ c.owners = {} /\ ~c.framebuffer
  <2>1. ~d.framebuffer
    BY DEF Screen, Believed
  <2>2. QED BY <2>1, WithoutIsDisplay DEF ConsoleExit, Without, Displays
<1>2. f = c
  BY <1>1
<1>3. opened = IF WantsGpu(r) /\ egl
             THEN [f EXCEPT !.owners = @ \cup {"gpu"}, !.gpu = TRUE, !.mode = "canvas"]
             ELSE [f EXCEPT !.owners = @ \cup (IF raster THEN {"framebuffer"} ELSE {}),
                            !.framebuffer = raster, !.gpu = FALSE, !.mode = "canvas"]
  BY DEF FramebufferInit
<1> HIDE DEF c, f, opened
<1> SUFFICES opened \in Displays /\ Screen(opened, r.terminal) /\ "webgl" \notin opened.owners
  BY DEF opened
<1>4. CASE WantsGpu(r) /\ egl
  <2>1. opened = [f EXCEPT !.owners = @ \cup {"gpu"}, !.gpu = TRUE, !.mode = "canvas"]
    BY <1>3, <1>4
  <2>2. /\ opened \in Displays /\ opened.owners = {"gpu"} /\ opened.gpu
        /\ ~opened.framebuffer /\ opened.mode = "canvas"
    BY <2>1, <1>1, <1>2 DEF Displays, Owners
  <2>3. QED BY <2>2 DEF Screen, Closable, OneRenderer, Believed, ModeTells
<1>5. CASE ~(WantsGpu(r) /\ egl)
  <2>1. opened = [c EXCEPT !.owners = @ \cup (IF raster THEN {"framebuffer"} ELSE {}),
                         !.framebuffer = raster, !.gpu = FALSE, !.mode = "canvas"]
    BY <1>2, <1>3, <1>5
  <2>2. /\ opened \in Displays /\ opened.owners = (IF raster THEN {"framebuffer"} ELSE {})
        /\ ~opened.gpu /\ opened.framebuffer = raster /\ opened.mode = "canvas"
    BY <2>1, <1>1 DEF Displays, Owners
  <2>3. QED BY <2>2 DEF Screen, Closable, OneRenderer, Believed, ModeTells
<1>6. QED BY <1>4, <1>5

(* A WebGL context owns the screen alone, or the screen is left closed.    *)
LEMMA WebglMade ==
  ASSUME NEW d \in Displays, NEW r, NEW egl \in BOOLEAN,
         Screen(d, r.terminal), "webgl" \notin d.owners
  PROVE  /\ WebglContextNew(d, r, egl) \in Displays
         /\ Screen(WebglContextNew(d, r, egl), r.terminal)
         /\ WebglContextNew(d, r, egl).owners \subseteq d.owners \cup {"webgl"}
<1> DEFINE opened == WebglContextNew(d, r, egl)
           freed == ReleaseForWebgl(d)
<1>1. opened = IF r.tight /\ r.renderer # "gpu" THEN d
             ELSE IF egl THEN [freed EXCEPT !.owners = @ \cup {"webgl"}, !.mode = "canvas"]
             ELSE freed
  BY DEF WebglContextNew
<1>2. /\ freed \in Displays /\ freed.owners = {} /\ ~freed.gpu /\ ~freed.framebuffer
      /\ freed.mode = d.mode
  BY ReleasedForWebgl
<1> SUFFICES opened \in Displays /\ Screen(opened, r.terminal) /\ opened.owners \subseteq d.owners \cup {"webgl"}
  OBVIOUS
<1> HIDE DEF opened, freed
<1>3. CASE r.tight /\ r.renderer # "gpu"
  BY <1>1, <1>3
<1>4. CASE ~(r.tight /\ r.renderer # "gpu") /\ egl
  <2>1. opened = [freed EXCEPT !.owners = @ \cup {"webgl"}, !.mode = "canvas"]
    BY <1>1, <1>4
  <2>2. /\ opened \in Displays /\ opened.owners = {"webgl"} /\ ~opened.gpu /\ ~opened.framebuffer
        /\ opened.mode = "canvas"
    BY <2>1, <1>2 DEF Displays, Owners
  <2>3. QED BY <2>2 DEF Screen, Closable, OneRenderer, Believed, ModeTells
<1>5. CASE ~(r.tight /\ r.renderer # "gpu") /\ ~egl
  <2>1. opened = freed
    BY <1>1, <1>5
  <2>2. QED BY <2>1, <1>2 DEF Screen, Closable, OneRenderer, Believed, ModeTells
<1>6. QED BY <1>3, <1>4, <1>5

(* Text printed without a terminal.                                        *)
LEMMA PrintedOver ==
  ASSUME NEW d \in Displays, NEW terminal, ~terminal, Screen(d, terminal)
  PROVE  /\ Printed(d) \in Displays /\ Screen(Printed(d), terminal)
         /\ Printed(d).owners \subseteq d.owners \cup {"console"}
<1>1. CASE d.mode = "console"
  BY <1>1 DEF Printed
<1>2. CASE d.mode # "console"
  <2> DEFINE c == FramebufferExit(d)
  <2>1. c \in Displays /\ c.gpu = d.gpu /\ ~c.framebuffer
    BY FramebufferClosed
  <2>2. c.owners = d.owners \ {"framebuffer"}
    BY FramebufferClosed DEF Screen, Closable
  <2>3. Printed(d) = [c EXCEPT !.mode = "console", !.owners = @ \cup {"console"}]
    BY <1>2 DEF Printed, ConsoleInit
  <2> HIDE DEF c
  <2>4. /\ Printed(d) \in Displays /\ Printed(d).owners = (d.owners \ {"framebuffer"}) \cup {"console"}
        /\ Printed(d).gpu = d.gpu /\ ~Printed(d).framebuffer /\ Printed(d).mode = "console"
    <3>1. c.owners \cup {"console"} \in SUBSET Owners
      BY <2>1, DisplayFields DEF Owners
    <3>2. Printed(d) \in Displays
      BY <2>1, <2>3, <3>1 DEF Displays
    <3>3. QED BY <2>1, <2>2, <2>3, <3>2 DEF Displays
  <2>5. QED BY <2>4 DEF Screen, Closable, OneRenderer, Believed, ModeTells
<1>3. QED BY <1>1, <1>2

(* The end of main.                                                        *)
LEMMA ClosedAtTheEnd ==
  ASSUME NEW d \in Displays, NEW terminal, Screen(d, terminal)
  PROVE  /\ ClosedByMode(d) \in Displays /\ Closable(ClosedByMode(d))
         /\ Left(ClosedByMode(d), terminal)
<1> DEFINE c == ClosedByMode(d)
<1>1. d.owners \subseteq Owners
  BY DisplayFields
<1>2. CASE d.mode = "console"
  <2>1. c = [d EXCEPT !.owners = @ \ {"console"}]
    BY <1>2 DEF ClosedByMode, ConsoleExit, Without
  <2> HIDE DEF c
  <2>2. c \in Displays /\ c.owners = d.owners \ {"console"} /\ c.gpu = d.gpu
        /\ c.framebuffer = d.framebuffer /\ c.mode = "console"
    BY <2>1, <1>2 DEF Displays
  <2>3. terminal => c.owners = {}
    BY <2>2, <1>2 DEF Screen, ModeTells
  <2>4. c \in Displays /\ Closable(c) /\ Left(c, terminal)
    BY <2>2, <2>3 DEF Screen, Closable, OneRenderer, Left
  <2>5. QED BY <2>4 DEF c
<1>3. CASE d.mode = "init"
  BY <1>3 DEF ClosedByMode, Screen, ModeTells, Left
<1>4. CASE d.mode = "canvas"
  <2>1. "console" \notin d.owners
    BY <1>4 DEF Screen, ModeTells
  <2>2. CASE "webgl" \in d.owners
    <3>1. c = [d EXCEPT !.owners = @ \ {"webgl"}]
      BY <1>4, <2>2 DEF ClosedByMode, WebglActive, Without
    <3>2. d.owners \ {"webgl"} = {}
      BY <1>1, <2>1, <2>2 DEF Owners, Screen, Closable, OneRenderer
    <3> HIDE DEF c
    <3>3. c \in Displays /\ c.owners = {}
      BY <3>1, <3>2 DEF Displays
    <3>4. c \in Displays /\ Closable(c) /\ Left(c, terminal)
      BY <3>3 DEF Closable, OneRenderer, Left
    <3>5. QED BY <3>4 DEF c
  <2>3. CASE "webgl" \notin d.owners /\ d.gpu
    <3>1. c = [d EXCEPT !.owners = @ \ {"gpu"}]
      BY <1>4, <2>3 DEF ClosedByMode, WebglActive, Without
    <3>2. "gpu" \in d.owners
      BY <2>3 DEF Screen, Believed
    <3>3. d.owners \ {"gpu"} = {}
      BY <1>1, <2>1, <2>3, <3>2 DEF Owners, Screen, Closable, OneRenderer
    <3> HIDE DEF c
    <3>4. c \in Displays /\ c.owners = {}
      BY <3>1, <3>3 DEF Displays
    <3>5. c \in Displays /\ Closable(c) /\ Left(c, terminal)
      BY <3>4 DEF Closable, OneRenderer, Left
    <3>6. QED BY <3>5 DEF c
  <2>4. CASE "webgl" \notin d.owners /\ ~d.gpu
    <3>1. c = FramebufferExit(d)
      BY <1>4, <2>4 DEF ClosedByMode, WebglActive
    <3>2. "gpu" \notin d.owners
      BY <2>4 DEF Screen, Closable
    <3>3. d.owners \ {"framebuffer"} = {}
      BY <1>1, <2>1, <2>4, <3>2 DEF Owners
    <3>4. c.owners = d.owners \ {"framebuffer"}
      BY <3>1, FramebufferClosed DEF Screen, Closable
    <3>5. c \in Displays
      BY <3>1, FramebufferClosed
    <3> HIDE DEF c
    <3>6. c \in Displays /\ Closable(c) /\ Left(c, terminal)
      BY <3>3, <3>4, <3>5 DEF Closable, OneRenderer, Left
    <3>7. QED BY <3>6 DEF c
  <2>5. QED BY <2>2, <2>3, <2>4
<1>5. QED BY <1>2, <1>3, <1>4, DisplayFields

(* The emergency road closes the window, whoever has it.                   *)
LEMMA ClosedInEmergency ==
  ASSUME NEW d \in Displays, Closable(d)
  PROVE  ClosedByOwner(d) \in Displays /\ ClosedByOwner(d).owners = {}
<1>1. d.owners \subseteq Owners
  BY DisplayFields
<1> DEFINE e == IF WebglActive(d) THEN Without(d, "webgl")
                ELSE IF d.gpu THEN [Without(d, "gpu") EXCEPT !.gpu = FALSE]
                ELSE FramebufferExit(d)
<1>2. ClosedByOwner(d) = [e EXCEPT !.owners = @ \ {"console"}]
  BY DEF ClosedByOwner, ConsoleExit, Without
<1>3. e \in Displays /\ e.owners \subseteq {"console"}
  <2>1. CASE "webgl" \in d.owners
    <3>1. e = [d EXCEPT !.owners = @ \ {"webgl"}]
      BY <2>1 DEF WebglActive, Without
    <3>2. d.owners \ {"webgl"} \subseteq {"console"}
      BY <1>1, <2>1 DEF Owners, Closable, OneRenderer
    <3> HIDE DEF e
    <3>3. QED BY <3>1, <3>2 DEF Displays
  <2>2. CASE "webgl" \notin d.owners /\ d.gpu
    <3>1. e = [[d EXCEPT !.owners = @ \ {"gpu"}] EXCEPT !.gpu = FALSE]
      BY <2>2 DEF WebglActive, Without
    <3>2. "framebuffer" \notin d.owners
      BY <2>2 DEF Closable
    <3> HIDE DEF e
    <3>3. e \in Displays /\ e.owners = d.owners \ {"gpu"}
      BY <3>1 DEF Displays
    <3>4. d.owners \ {"gpu"} \subseteq {"console"}
      BY <1>1, <2>2, <3>2 DEF Owners
    <3>5. QED BY <3>3, <3>4
  <2>3. CASE "webgl" \notin d.owners /\ ~d.gpu
    <3>1. e = FramebufferExit(d)
      BY <2>3 DEF WebglActive
    <3>2. "gpu" \notin d.owners
      BY <2>3 DEF Closable
    <3>3. e \in Displays /\ e.owners = d.owners \ {"framebuffer"}
      BY <3>1, FramebufferClosed DEF Closable
    <3>4. d.owners \ {"framebuffer"} \subseteq {"console"}
      BY <1>1, <2>3, <3>2 DEF Owners
    <3>5. QED BY <3>3, <3>4
  <2>4. QED BY <2>1, <2>2, <2>3
<1> HIDE DEF e
<1>4. QED BY <1>2, <1>3 DEF Displays

-----------------------------------------------------------------------------
(* The roads name everything once, and everything that can be held.        *)
LEMMA TeardownNames ==
  /\ Len(Teardown) = 14 /\ Teardown[1] = "display" /\ Teardown[2] = "polls"
  /\ Teardown[3] = "isolate"
  /\ \A i \in 1..14, j \in 1..14 : Teardown[i] = Teardown[j] => i = j
  /\ \A r \in Holdable : \E i \in 1..14 : Teardown[i] = r
  /\ \A i \in 1..14 : /\ Teardown[i] = "sockets" <=> i = 12
                      /\ Teardown[i] = "uv" <=> i = 6
                      /\ Teardown[i] = "arena" <=> i = 14
<1>1. \A r \in Holdable : \E i \in 1..14 : Teardown[i] = r
  <2>1. /\ Teardown[2] = "polls" /\ Teardown[4] = "libraries" /\ Teardown[5] = "hidsys"
        /\ Teardown[6] = "uv" /\ Teardown[7] = "parachute" /\ Teardown[8] = "nv"
        /\ Teardown[9] = "pl" /\ Teardown[10] = "romfsNxjs" /\ Teardown[11] = "romfsApp"
        /\ Teardown[12] = "sockets" /\ Teardown[13] = "log" /\ Teardown[14] = "arena"
    BY DEF Teardown
  <2>2. QED BY <2>1 DEF Holdable, Services
<1>2. \A i \in 1..14, j \in 1..14 : Teardown[i] = Teardown[j] => i = j
  BY DEF Teardown
<1>3. QED BY <1>1, <1>2 DEF Teardown

(* The thirteen steps of an exit after a fatal error: no resource twice,   *)
(* none left out, the isolate never.                                       *)
LEMMA EmergencyNames ==
  /\ Len(Emergency) = 13 /\ Emergency[1] = "display" /\ \A i \in 1..13 : Emergency[i] # "isolate"
  /\ \A i \in 1..13, j \in 1..13 : Emergency[i] = Emergency[j] => i = j
  /\ \A r \in Holdable : \E i \in 1..13 : Emergency[i] = r
  /\ \A i \in 1..13 : /\ Emergency[i] = "polls" <=> i = 2
                      /\ Emergency[i] = "sockets" <=> i = 11
                      /\ Emergency[i] = "uv" <=> i = 3
                      /\ Emergency[i] = "arena" <=> i = 13
<1>1. \A r \in Holdable : \E i \in 1..13 : Emergency[i] = r
  <2>1. /\ Emergency[2] = "polls" /\ Emergency[3] = "uv" /\ Emergency[4] = "libraries"
        /\ Emergency[5] = "hidsys" /\ Emergency[6] = "parachute" /\ Emergency[7] = "nv"
        /\ Emergency[8] = "pl" /\ Emergency[9] = "romfsApp" /\ Emergency[10] = "romfsNxjs"
        /\ Emergency[11] = "sockets" /\ Emergency[12] = "log" /\ Emergency[13] = "arena"
    BY DEF Emergency
  <2>2. QED BY <2>1 DEF Holdable, Services
<1>2. \A i \in 1..13, j \in 1..13 : Emergency[i] = Emergency[j] => i = j
  BY DEF Emergency
<1>3. QED BY <1>1, <1>2 DEF Emergency

(* What a step on a road does: the window is closed first, then a name at  *)
(* a time is given back.                                                   *)
LEMMA RoadStep ==
  ASSUME MainTypes, RoadsKept, TearsDown
  PROVE  /\ at \in Roads /\ step \in 1..Len(Road) /\ Len(Road) \in Nat
         /\ held' = held \ {Road[step]}
         /\ \A r \in Holdable : closed'[r] = IF r = Road[step] /\ r \in held THEN closed[r] + 1
                                             ELSE closed[r]
         /\ closed' \in [Holdable -> Nat]
         /\ step > 1 => display' = display
         /\ step = 1 => display' = IF at = "emergency" THEN ClosedByOwner(display)
                                   ELSE ClosedByMode(display)
         /\ IF step = Len(Road) THEN at' = "done" /\ step' = 1
            ELSE step' = step + 1 /\ at' = at
         /\ UNCHANGED <<regime, budget, context, hooks, pending>>
<1>1. at \in Roads /\ UNCHANGED <<regime, budget, context, hooks, pending>>
  BY DEF TearsDown, Roads
<1>2. /\ step \in 1..Len(Road) /\ Len(Road) \in Nat /\ Road[1] = "display"
      /\ \A i \in 1..Len(Road) : Road[i] = "display" => i = 1
  <2>1. CASE at = "teardown"
    <3>1. Road = Teardown
      BY <2>1 DEF Road
    <3>2. step \in 1..14 /\ step <= Len(Teardown)
      BY <2>1 DEF RoadsKept, RoadKept, MainTypes
    <3>3. QED BY <3>1, <3>2, TeardownNames
  <2>2. CASE at = "emergency"
    <3>1. Road = Emergency
      BY <2>2 DEF Road
    <3>2. step \in 1..14 /\ step <= Len(Emergency)
      BY <2>2 DEF RoadsKept, RoadKept, MainTypes
    <3>3. QED BY <3>1, <3>2, EmergencyNames
  <2>3. QED BY <1>1, <2>1, <2>2 DEF Roads
<1>3. IF step = Len(Road) THEN at' = "done" /\ step' = 1 ELSE step' = step + 1 /\ at' = at
  BY DEF TearsDown
<1>4. held \subseteq Holdable /\ closed \in [Holdable -> Nat]
  BY DEF MainTypes
<1>5. "display" \notin Holdable /\ "isolate" \notin Holdable
  BY DEF Holdable, Services
<1>6. CASE step = 1
  <2>1. display' = IF at = "emergency" THEN ClosedByOwner(display) ELSE ClosedByMode(display)
    BY <1>2, <1>6 DEF TearsDown
  <2>2. held' = held /\ closed' = closed
    BY <1>2, <1>6 DEF TearsDown
  <2>3. QED BY <1>1, <1>2, <1>3, <1>4, <1>5, <1>6, <2>1, <2>2
<1>7. CASE step # 1
  <2>1. Road[step] # "display"
    BY <1>2, <1>7
  <2>2. CASE Road[step] = "isolate"
    <3>1. UNCHANGED <<display, held, closed>>
      BY <2>1, <2>2 DEF TearsDown
    <3>2. QED BY <1>1, <1>2, <1>3, <1>4, <1>5, <1>7, <2>2, <3>1
  <2>3. CASE Road[step] # "isolate"
    <3>1. Release(Road[step])
      BY <2>1, <2>3 DEF TearsDown
    <3>2. held' = held \ {Road[step]} /\ display' = display
      BY <3>1 DEF Release
    <3>3. closed' = IF Road[step] \in held THEN [closed EXCEPT ![Road[step]] = @ + 1] ELSE closed
      BY <3>1 DEF Release, Releasable
    <3>4. closed' \in [Holdable -> Nat]
      BY <3>3, <1>4
    <3>5. \A r \in Holdable : closed'[r] = IF r = Road[step] /\ r \in held THEN closed[r] + 1 ELSE closed[r]
      BY <3>3, <1>4
    <3>6. QED BY <1>1, <1>2, <1>3, <1>7, <3>2, <3>4, <3>5
  <2>4. QED BY <2>2, <2>3
<1>8. QED BY <1>6, <1>7

-----------------------------------------------------------------------------
(* The heap fits (main).                                                   *)
LEMMA HeapFits ==
  ASSUME NEW ceiling \in Nat, NEW reserve \in Nat, NEW limit \in Nat
  PROVE  LET heap == HeapLimit(ceiling, reserve, limit) IN
         heap \in 32..512 /\ (heap > 32 => heap + reserve <= ceiling)
<1> DEFINE backable == Backable(ceiling, reserve)
           wanted == IF limit \in 1..backable THEN limit ELSE backable
<1>1. backable \in Nat /\ (backable > 0 => backable + reserve <= ceiling)
  BY DEF Backable
<1>2. wanted \in Nat /\ wanted <= backable
  BY <1>1
<1>3. HeapLimit(ceiling, reserve, limit) =
        IF wanted < 32 THEN 32 ELSE IF wanted > 512 THEN 512 ELSE wanted
  BY DEF HeapLimit
<1> HIDE DEF backable, wanted
<1>4. QED BY <1>1, <1>2, <1>3

(* The heap limit a launch chooses stays under its ceiling.                *)
LEMMA HeapKept ==
  ASSUME MainInv, MainLoopNext
  PROVE  HeapWithinReach'
<1>1. CASE Launch
  <2>1. PICK missing \in SUBSET MayFail, free \in Grants, arena \in Arenas, limit \in Limits,
             jit \in {"auto", "on", "off"} :
           budget' = [heap |-> HeapLimit(Ceiling(regime, free, arena), Reserve(regime, jit), limit),
                      ceiling |-> Ceiling(regime, free, arena), reserve |-> Reserve(regime, jit)]
    BY <1>1 DEF Launch
  <2>2. free \in Nat /\ arena \in Nat /\ limit \in Nat
    BY MainLoopAssumption DEF MainLoopAssumption
  <2>3. Ceiling(regime, free, arena) \in Nat /\ Reserve(regime, jit) \in Nat
    BY <2>2 DEF Ceiling, Reserve
  <2>4. HeapLimit(Ceiling(regime, free, arena), Reserve(regime, jit), limit) \in 32..512
        /\ (HeapLimit(Ceiling(regime, free, arena), Reserve(regime, jit), limit) > 32 =>
              HeapLimit(Ceiling(regime, free, arena), Reserve(regime, jit), limit)
                + Reserve(regime, jit) <= Ceiling(regime, free, arena))
    BY <2>2, <2>3, HeapFits
  <2>5. QED BY <2>1, <2>4 DEF HeapWithinReach
<1>2. CASE ~Launch
  <2>1. at' # "memory"
    <3>1. MainTypes
      BY DEF MainInv
    <3>2. CASE Quiet BY <3>2 DEF Quiet, Running, ScriptStages
    <3>3. CASE StartIsolate BY <3>3 DEF StartIsolate
    <3>4. CASE RuntimeReady BY <3>4 DEF RuntimeReady
    <3>5. CASE RuntimeThrows BY <3>5 DEF RuntimeThrows
    <3>6. CASE Opens \/ Logs \/ GetContext2D \/ GetWebgl
      BY <3>6 DEF Opens, Logs, GetContext2D, GetWebgl, InScript, ScriptStages, scriptFrame
    <3>7. CASE Unloaded BY <3>7 DEF Unloaded
    <3>8. CASE TearsDown
      BY <3>8 DEF TearsDown
    <3>9. CASE Fatal BY <3>9 DEF Fatal
    <3>10. QED
      BY <1>2, <3>1, <3>2, <3>3, <3>4, <3>5, <3>6, <3>7, <3>8, <3>9, QuietSteps
  <2>2. QED BY <2>1 DEF HeapWithinReach
<1>3. QED BY <1>1, <1>2

-----------------------------------------------------------------------------
(* What a script's call does to what the program holds.                    *)
ScriptHolds ==
  \/ held' = held /\ closed' = closed
  \/ \E r \in {"polls", "libraries"} \ held : held' = held \cup {r} /\ closed' = closed
  \/ /\ "parachute" \in held /\ held' = held \ {"parachute"}
     /\ closed' = [closed EXCEPT !["parachute"] = @ + 1]
ScriptShows ==
  \/ display' = display /\ context' # "none" /\ (context' = context \/ context # "webgl")
  \/ display' = display /\ context' = context
  \/ \E egl, raster \in BOOLEAN : /\ context = "none" /\ context' # "none"
                                  /\ display' = FramebufferInit(display, regime, egl, raster)
  \/ ~regime.terminal /\ display' = Printed(display) /\ context' = context
  \/ \E egl \in BOOLEAN : /\ context # "webgl"
                          /\ display' = WebglContextNew(display, regime, egl)
                          /\ context' = IF WebglActive(display') THEN "webgl" ELSE context

(* The context a script asks for is made from what the screen was.         *)
LEMMA ContextEnsured ==
  ASSUME MainTypes, NEW user \in {"console", "app"}, EnsureContext(user), context # "webgl"
  PROVE  ScriptHolds /\ ScriptShows /\ context' = user
<1>1. PICK egl \in BOOLEAN, raster \in BOOLEAN :
        /\ context' = user
        /\ IF FirstUse(context)
           THEN /\ display' = FramebufferInit(display, regime, egl, raster)
                /\ held' = IF display'.gpu THEN held ELSE held \ {"parachute"}
                /\ closed' = [closed EXCEPT !["parachute"] =
                                IF "parachute" \in held \ held' THEN @ + 1 ELSE @]
           ELSE UNCHANGED <<display, held, closed>>
  BY DEF EnsureContext
<1>2. CASE context # "none"
  BY <1>1, <1>2 DEF FirstUse, ScriptHolds, ScriptShows
<1>3. CASE context = "none"
  <2>1. /\ display' = FramebufferInit(display, regime, egl, raster)
        /\ held' = held \/ held' = held \ {"parachute"}
        /\ closed' = [closed EXCEPT !["parachute"] =
                        IF "parachute" \in held \ held' THEN @ + 1 ELSE @]
    BY <1>1, <1>3 DEF FirstUse
  <2>2. ScriptShows
    BY <1>1, <1>3, <2>1 DEF ScriptShows
  <2>3. CASE "parachute" \in held \ held'
    <3>1. held' = held \ {"parachute"}
      BY <2>1, <2>3
    <3>2. closed' = [closed EXCEPT !["parachute"] = @ + 1]
      BY <2>1, <2>3
    <3>3. QED BY <1>1, <2>2, <2>3, <3>1, <3>2 DEF ScriptHolds
  <2>4. CASE "parachute" \notin held \ held'
    <3>1. held' = held
      BY <2>1, <2>4
    <3>2. closed' = closed
      <4>1. closed' = [closed EXCEPT !["parachute"] = closed["parachute"]]
        BY <2>1, <2>4
      <4>2. QED BY <4>1 DEF MainTypes
    <3>3. QED BY <1>1, <2>2, <3>1, <3>2 DEF ScriptHolds
  <2>5. QED BY <2>3, <2>4
<1>4. QED BY <1>2, <1>3

(* What a script can do changes the screen, the console and the parachute  *)
(* and keeps every other resource.                                         *)
LEMMA ScriptStep ==
  ASSUME MainTypes, Opens \/ Logs \/ GetContext2D \/ GetWebgl
  PROVE  /\ at \in ScriptStages /\ ScriptHolds /\ ScriptShows
         /\ UNCHANGED <<at, regime, budget, hooks, step, pending>>
         /\ context' \in {"none", "console", "app", "webgl"}
<1> USE DEF scriptFrame, InScript, MainTypes
<1>1. CASE Opens
  BY <1>1 DEF Opens, ScriptHolds, ScriptShows
<1>2. CASE Logs
  <2>1. CASE regime.terminal /\ context \in {"none", "console"} /\ EnsureContext("console")
    <3>1. ScriptHolds /\ ScriptShows /\ context' = "console"
      BY <2>1, ContextEnsured
    <3>2. QED BY <1>2, <3>1 DEF Logs
  <2>2. CASE ~regime.terminal /\ display' = Printed(display) /\ UNCHANGED <<held, closed, context>>
    BY <1>2, <2>2 DEF Logs, ScriptHolds, ScriptShows
  <2>3. QED BY <1>2, <2>1, <2>2 DEF Logs
<1>3. CASE GetContext2D
  <2>1. ScriptHolds /\ ScriptShows /\ context' = "app"
    BY <1>3, ContextEnsured DEF GetContext2D
  <2>2. QED BY <1>3, <2>1 DEF GetContext2D
<1>4. CASE GetWebgl
  BY <1>4 DEF GetWebgl, ScriptHolds, ScriptShows
<1>5. QED BY <1>1, <1>2, <1>3, <1>4

(* Fatal.                                                                  *)
LEMMA FatalStep ==
  ASSUME MainInv, Fatal
  PROVE  /\ at' \in {"emergency", "killed"} /\ step' = 1 /\ Services \subseteq held
         /\ at \in Running \cup {"runtime", "teardown"}
         /\ at = "teardown" => step \in {2, 3}
         /\ context' = "none" /\ hooks' = {} /\ pending' = None
         /\ UNCHANGED <<regime, budget, held, closed, display>>
<1>1. /\ at' \in {"emergency", "killed"} /\ step' = 1
      /\ context' = "none" /\ hooks' = {} /\ pending' = None
      /\ UNCHANGED <<regime, budget, held, closed, display>>
  BY DEF Fatal
<1>2. at \in ScriptStages \cup {"runtime"} \/ (at = "teardown" /\ Teardown[step] \in {"polls", "isolate"})
  BY DEF Fatal, V8Runs
<1>3. CASE at \in ScriptStages \cup {"runtime"}
  <2>1. at \in Running \cup {"runtime"} /\ at \notin Roads \cup {"launch", "done"}
    BY <1>3 DEF ScriptStages, Running, Roads
  <2>2. QED BY <1>1, <2>1 DEF MainInv, RoadsKept, Running, ScriptStages
<1>4. CASE at = "teardown" /\ Teardown[step] \in {"polls", "isolate"}
  <2>1. RoadKept(Teardown) /\ step \in 1..14
    BY <1>4 DEF MainInv, RoadsKept, MainTypes
  <2>2. step \in {2, 3}
    BY <1>4, <2>1, TeardownNames
  <2>3. \A i \in 4..14 : Teardown[i] \in Services => Teardown[i] \in held
    BY <2>1, <2>2, TeardownNames DEF RoadKept
  <2>4. Teardown[1] \notin Services /\ Teardown[2] \notin Services /\ Teardown[3] \notin Services
    BY TeardownNames DEF Services
  <2>5. Services \subseteq held
    <3>1. SUFFICES ASSUME NEW r \in Services PROVE r \in held
      OBVIOUS
    <3>2. PICK i \in 1..14 : Teardown[i] = r
      BY <3>1, TeardownNames DEF Holdable
    <3>3. i \in 4..14
      BY <3>1, <3>2, <2>4
    <3>4. QED BY <3>1, <3>2, <3>3, <2>3
  <2>6. QED BY <1>1, <1>4, <2>2, <2>5
<1>5. QED BY <1>2, <1>3, <1>4

-----------------------------------------------------------------------------
(* The services are taken.                                                 *)
LEMMA LaunchStep ==
  ASSUME MainInv, Launch
  PROVE  /\ at' = "memory" /\ Services \subseteq held' /\ held' \subseteq Holdable
         /\ UNCHANGED <<regime, closed, display, context, hooks, pending, step>>
         /\ at = "launch"
<1>1. PICK missing \in SUBSET MayFail : held' = Services \cup ({"nv", "hidsys", "romfsApp"} \ missing)
  BY DEF Launch
<1>2. QED BY <1>1 DEF Launch, Holdable

(* A runtime that comes up installs all hooks and goes on to the entry.    *)
LEMMA RuntimeStep ==
  ASSUME RuntimeReady
  PROVE  /\ at = "runtime" /\ at' = "entry" /\ held \subseteq held'
         /\ held' \subseteq held \cup {"parachute"}
         /\ hooks' = {Hooks[i] : i \in 1..4}
         /\ UNCHANGED <<regime, closed, display, context, pending, step>>
BY DEF RuntimeReady

(* A runtime that throws leaves what it installed and goes on to the top.  *)
LEMMA ThrowStep ==
  ASSUME RuntimeThrows
  PROVE  /\ at = "runtime" /\ at' = "top" /\ hooks' \in SUBSET {Hooks[i] : i \in 1..4}
         /\ UNCHANGED <<regime, held, closed, display, context, pending, step>>
BY DEF RuntimeThrows

(* Every step keeps the types.                                             *)
LEMMA TypesKept ==
  ASSUME MainInv, [MainLoopNext]_loopVars
  PROVE  MainTypes'
<1>1. MainTypes
  BY DEF MainInv
<1>2. CASE UNCHANGED loopVars
  BY <1>1, <1>2 DEF MainTypes, loopVars
<1>3. CASE Quiet
  BY <1>1, <1>3 DEF MainTypes, Quiet, Running, ScriptStages, Stages
<1>4. CASE Launch
  BY <1>1, <1>4, LaunchStep DEF MainTypes, Stages
<1>5. CASE StartIsolate
  <2>1. display' = ConsoleInit(display) /\ display = Dark /\ at' \in {"runtime", "top"}
    BY <1>5 DEF StartIsolate, MainInv, ScreenKept
  <2>2. display' \in Displays
    BY <2>1, <1>1, ConsoleOpened DEF MainTypes
  <2>3. QED BY <1>1, <1>5, <2>1, <2>2 DEF MainTypes, StartIsolate, Stages
<1>6. CASE RuntimeReady
  BY <1>1, <1>6, RuntimeStep DEF MainTypes, Stages, ScriptStages, Holdable
<1>7. CASE RuntimeThrows
  BY <1>1, <1>7, ThrowStep DEF MainTypes, Stages
<1>8. CASE Opens \/ Logs \/ GetContext2D \/ GetWebgl
  <2>1. /\ at \in ScriptStages /\ ScriptHolds /\ ScriptShows
        /\ UNCHANGED <<at, regime, budget, hooks, step, pending>>
        /\ context' \in {"none", "console", "app", "webgl"}
    BY <1>1, <1>8, ScriptStep
  <2>2. held' \subseteq Holdable /\ closed' \in [Holdable -> Nat]
    BY <1>1, <2>1 DEF ScriptHolds, MainTypes, Holdable
  <2>3. display' \in Displays
    <3>1. /\ display \in Displays /\ Screen(display, regime.terminal)
          /\ context = "none" => display.owners \subseteq {"console"}
          /\ "webgl" \in display.owners => context = "webgl"
      BY <1>1, <2>1 DEF MainInv, ScreenKept, MainTypes, ScriptStages, Roads, Ends
    <3>2. QED
      BY <2>1, <3>1, FramebufferMade, PrintedOver, WebglMade DEF ScriptShows
  <2>4. QED BY <1>1, <2>1, <2>2, <2>3 DEF MainTypes
<1>9. CASE Unloaded
  BY <1>1, <1>9 DEF MainTypes, Unloaded, Stages, Roads
<1>10. CASE TearsDown
  <2>1. RoadsKept /\ ScreenKept
    BY DEF MainInv
  <2>2. /\ at \in Roads /\ step \in 1..Len(Road) /\ Len(Road) \in Nat
        /\ held' \subseteq held /\ closed' \in [Holdable -> Nat]
        /\ IF step = Len(Road) THEN at' = "done" /\ step' = 1 ELSE step' = step + 1 /\ at' = at
        /\ UNCHANGED <<regime, budget, context, hooks, pending>>
        /\ display' \in {display, ClosedByOwner(display), ClosedByMode(display)}
        /\ step > 1 => display' = display
        /\ step = 1 => display' = IF at = "emergency" THEN ClosedByOwner(display)
                                  ELSE ClosedByMode(display)
    BY <1>1, <1>10, <2>1, RoadStep
  <2>3. Len(Road) \in {13, 14}
    BY TeardownNames, EmergencyNames DEF Road
  <2>4. at' \in Stages /\ step' \in 1..14
    <3>1. CASE step = Len(Road)
      BY <3>1, <2>2 DEF Stages, Ends
    <3>2. CASE step # Len(Road)
      <4>1. step \in 1..13 /\ step' = step + 1 /\ at' = at
        <5>1. step' = step + 1 /\ at' = at
          BY <3>2, <2>2
        <5>2. PICK n \in {13, 14} : n = Len(Road)
          BY <2>3
        <5>3. step \in 1..n /\ step # n
          BY <3>2, <2>2, <5>2
        <5>4. QED BY <5>1, <5>3
      <4>2. QED BY <4>1, <2>2 DEF Stages
    <3>3. QED BY <3>1, <3>2
  <2>5. display' \in Displays
    <3>1. CASE step > 1 BY <3>1, <2>2, <1>1 DEF MainTypes
    <3>2. CASE step = 1 /\ at = "emergency"
      BY <3>2, <2>1, <2>2, <1>1, ClosedInEmergency DEF MainTypes, ScreenKept, Roads
    <3>3. CASE step = 1 /\ at = "teardown"
      <4>1. Screen(display, regime.terminal) /\ display \in Displays
        BY <3>3, <2>1, <1>1 DEF ScreenKept, MainTypes
      <4>2. QED BY <3>3, <2>2, <4>1, ClosedAtTheEnd
    <3>4. QED BY <2>2, <3>1, <3>2, <3>3 DEF Roads
  <2>6. QED BY <1>1, <2>2, <2>4, <2>5 DEF MainTypes
<1>11. CASE Fatal
  BY <1>1, <1>11, FatalStep DEF MainTypes, Stages, Roads, Ends
<1>12. QED
  BY <1>1, <1>2, <1>3, <1>4, <1>5, <1>6, <1>7, <1>8, <1>9, <1>10, <1>11, QuietSteps

(* Every step gives back only what is held, so each resource at most once. *)
LEMMA OnceKept ==
  ASSUME MainInv, [MainLoopNext]_loopVars
  PROVE  GivenBackOnce'
<1>1. MainTypes /\ GivenBackOnce
  BY DEF MainInv
<1>2. CASE UNCHANGED loopVars
  BY <1>1, <1>2 DEF GivenBackOnce, loopVars
<1>3. CASE Quiet
  BY <1>1, <1>3 DEF GivenBackOnce, Quiet, Running, ScriptStages, Roads, Ends
<1>4. CASE Launch
  <2>1. \A r \in Holdable : closed[r] = 0
    BY <1>1, <1>4, LaunchStep DEF GivenBackOnce, Roads, Ends
  <2>2. QED BY <1>1, <1>4, <2>1, LaunchStep DEF GivenBackOnce, MainTypes, Holdable
<1>5. CASE StartIsolate
  BY <1>1, <1>5 DEF GivenBackOnce, StartIsolate, Roads, Ends
<1>6. CASE RuntimeReady
  <2>1. \A r \in Holdable : closed[r] = 0
    BY <1>1, <1>6, RuntimeStep DEF GivenBackOnce, Roads, Ends
  <2>2. held' \subseteq Holdable
    BY <1>1, <1>6, RuntimeStep DEF MainTypes, Holdable
  <2>3. QED BY <1>6, <2>1, <2>2, RuntimeStep DEF GivenBackOnce, Holdable
<1>7. CASE RuntimeThrows
  BY <1>1, <1>7, ThrowStep DEF GivenBackOnce, Roads, Ends
<1>8. CASE Opens \/ Logs \/ GetContext2D \/ GetWebgl
  <2>1. at \in ScriptStages /\ ScriptHolds /\ at' = at
    BY <1>1, <1>8, ScriptStep
  <2>2. at \notin {"launch", "memory", "runtime"} /\ at \notin Roads \cup Ends
    BY <2>1 DEF ScriptStages, Roads, Ends
  <2>3. \A r \in Holdable \ {"parachute"} : closed[r] = 0
    BY <1>1, <2>2 DEF GivenBackOnce
  <2>4. "polls" \in Holdable /\ "libraries" \in Holdable /\ "parachute" \in Holdable
        /\ held \subseteq Holdable /\ closed \in [Holdable -> Nat]
    BY <1>1 DEF Holdable, MainTypes
  <2>5. CASE held' = held /\ closed' = closed
    BY <1>1, <2>1, <2>5 DEF GivenBackOnce
  <2>6. CASE \E r \in {"polls", "libraries"} \ held : held' = held \cup {r} /\ closed' = closed
    BY <1>1, <2>1, <2>3, <2>4, <2>6 DEF GivenBackOnce
  <2>7. CASE /\ "parachute" \in held /\ held' = held \ {"parachute"}
             /\ closed' = [closed EXCEPT !["parachute"] = @ + 1]
    <3>1. closed["parachute"] = 0
      BY <1>1, <2>7 DEF GivenBackOnce
    <3>2. closed'["parachute"] = 1 /\ \A r \in Holdable \ {"parachute"} : closed'[r] = closed[r]
      BY <2>4, <2>7, <3>1
    <3>3. QED BY <1>1, <2>1, <2>2, <2>3, <2>4, <2>7, <3>2 DEF GivenBackOnce
  <2>8. QED BY <2>1, <2>5, <2>6, <2>7 DEF ScriptHolds
<1>9. CASE Unloaded
  BY <1>1, <1>9 DEF GivenBackOnce, Unloaded, Roads
<1>10. CASE TearsDown
  <2>1. /\ at \in Roads /\ at' \in Roads \cup Ends /\ held' = held \ {Road[step]}
        /\ \A r \in Holdable : closed'[r] = IF r = Road[step] /\ r \in held THEN closed[r] + 1
                                            ELSE closed[r]
    BY <1>1, <1>10, RoadStep DEF MainInv, Ends
  <2>2. at' \notin {"launch", "memory", "runtime"}
    BY <2>1 DEF Roads, Ends
  <2>3. held \subseteq Holdable /\ closed \in [Holdable -> Nat]
    BY <1>1 DEF MainTypes
  <2>4. \A r \in Holdable : closed'[r] <= 1
    BY <1>1, <2>1, <2>3 DEF GivenBackOnce
  <2>5. \A r \in held' : closed'[r] = 0
    BY <1>1, <2>1, <2>3 DEF GivenBackOnce
  <2>6. QED BY <2>1, <2>2, <2>4, <2>5 DEF GivenBackOnce
<1>11. CASE Fatal
  BY <1>1, <1>11, FatalStep DEF GivenBackOnce, Roads, Ends
<1>12. QED
  BY <1>1, <1>2, <1>3, <1>4, <1>5, <1>6, <1>7, <1>8, <1>9, <1>10, <1>11, QuietSteps

(* Every step keeps the account of each road out: what it has passed is    *)
(* given back.                                                             *)
LEMMA RoadsStay ==
  ASSUME MainInv, [MainLoopNext]_loopVars
  PROVE  RoadsKept'
<1>1. MainTypes /\ RoadsKept
  BY DEF MainInv
<1>2. CASE UNCHANGED loopVars
  BY <1>1, <1>2 DEF RoadsKept, RoadKept, loopVars
<1>3. ASSUME at \notin Roads \cup {"launch", "done"}, at' \notin Roads \cup {"launch", "done"},
             held \cap Services \subseteq held', step' = step
      PROVE  RoadsKept'
  BY <1>1, <1>3 DEF RoadsKept, Roads
<1>4. CASE Quiet
  BY <1>3, <1>4 DEF Quiet, Running, ScriptStages, Roads
<1>5. CASE Launch
  BY <1>1, <1>5, LaunchStep DEF RoadsKept, Roads
<1>6. CASE StartIsolate
  <2>1. at = "memory" /\ at' \in {"runtime", "top"} /\ held' = held /\ step' = step
    BY <1>6 DEF StartIsolate
  <2>2. QED BY <1>3, <2>1 DEF Roads
<1>7. CASE RuntimeReady
  BY <1>3, <1>7, RuntimeStep DEF Roads
<1>8. CASE RuntimeThrows
  BY <1>3, <1>8, ThrowStep DEF Roads
<1>9. CASE Opens \/ Logs \/ GetContext2D \/ GetWebgl
  <2>1. at \in ScriptStages /\ ScriptHolds /\ UNCHANGED <<at, step>>
    BY <1>1, <1>9, ScriptStep
  <2>2. held \cap Services \subseteq held'
    BY <2>1 DEF ScriptHolds, Services
  <2>3. QED BY <1>3, <2>1, <2>2 DEF ScriptStages, Roads
<1>10. CASE Unloaded
  <2>1. at = "unload" /\ at' = "teardown" /\ UNCHANGED <<held, step>>
    BY <1>10 DEF Unloaded
  <2>2. Services \subseteq held /\ step = 1
    BY <1>1, <2>1 DEF RoadsKept, Roads
  <2>3. RoadKept(Teardown)'
    BY <2>1, <2>2, TeardownNames DEF RoadKept
  <2>4. QED BY <2>1, <2>3 DEF RoadsKept, Roads
<1>11. CASE TearsDown
  <2>1. /\ at \in Roads /\ step \in 1..Len(Road) /\ Len(Road) \in Nat
        /\ held' = held \ {Road[step]}
        /\ IF step = Len(Road) THEN at' = "done" /\ step' = 1 ELSE step' = step + 1 /\ at' = at
    BY <1>1, <1>11, RoadStep
  <2>2. /\ \A i \in 1..Len(Road), j \in 1..Len(Road) : Road[i] = Road[j] => i = j
        /\ \A r \in Holdable : \E i \in 1..Len(Road) : Road[i] = r
    <3>1. CASE Road = Teardown BY <3>1, TeardownNames
    <3>2. CASE Road = Emergency BY <3>2, EmergencyNames
    <3>3. QED BY <3>1, <3>2 DEF Road
  <2>3. /\ \A i \in 1..(step - 1) : Road[i] \notin held
        /\ \A i \in step..Len(Road) : Road[i] \in Services => Road[i] \in held
    BY <1>1, <2>1 DEF RoadsKept, RoadKept, Roads, Road
  <2>4. CASE step = Len(Road)
    <3>1. at' = "done" /\ step' = 1
      BY <2>1, <2>4
    <3>2. held' = {}
      <4>1. SUFFICES ASSUME NEW r \in held' PROVE FALSE
        OBVIOUS
      <4>2. PICK i \in 1..Len(Road) : Road[i] = r
        BY <4>1, <2>1, <2>2, <1>1 DEF MainTypes
      <4>3. i = step \/ i \in 1..(step - 1)
        BY <2>1, <2>4
      <4>4. QED BY <4>1, <4>2, <4>3, <2>1, <2>3
    <3>3. QED BY <3>1, <3>2 DEF RoadsKept, Roads
  <2>5. CASE step # Len(Road)
    <3>1. step' = step + 1 /\ at' = at /\ step + 1 <= Len(Road)
      BY <2>1, <2>5
    <3>2. \A i \in 1..step : Road[i] \notin held'
      <4>1. TAKE i \in 1..step
      <4>2. i = step \/ i \in 1..(step - 1)
        BY <2>1
      <4>3. QED BY <4>2, <2>1, <2>3
    <3>3. \A i \in (step + 1)..Len(Road) : Road[i] \in Services => Road[i] \in held'
      <4>1. TAKE i \in (step + 1)..Len(Road)
      <4>2. i \in step..Len(Road) /\ i \in 1..Len(Road) /\ i # step
        BY <2>1
      <4>3. QED BY <4>2, <2>1, <2>2, <2>3
    <3>4. Road' = Road
      BY <3>1 DEF Road
    <3>5. RoadKept(Road)'
      BY <3>1, <3>2, <3>3, <3>4, <2>1 DEF RoadKept
    <3>6. QED BY <3>1, <3>4, <3>5, <2>1 DEF RoadsKept, Road, Roads
  <2>6. QED BY <2>4, <2>5
<1>12. CASE Fatal
  <2>1. at' \in {"emergency", "killed"} /\ step' = 1 /\ Services \subseteq held /\ held' = held
    BY <1>12, FatalStep
  <2>2. RoadKept(Emergency)'
    BY <2>1, EmergencyNames DEF RoadKept
  <2>3. QED BY <2>1, <2>2 DEF RoadsKept, Roads
<1>13. QED
  BY <1>1, <1>2, <1>4, <1>5, <1>6, <1>7, <1>8, <1>9, <1>10, <1>11, <1>12, QuietSteps

(* Every step keeps the display's records in agreement with its owners.    *)
LEMMA ScreenStays ==
  ASSUME MainInv, [MainLoopNext]_loopVars
  PROVE  ScreenKept'
<1>1. MainTypes /\ ScreenKept
  BY DEF MainInv
<1>2. CASE UNCHANGED loopVars
  BY <1>1, <1>2 DEF ScreenKept, loopVars
<1>3. CASE Quiet
  BY <1>1, <1>3 DEF ScreenKept, Quiet, Running, ScriptStages, Roads, Ends
<1>4. CASE Launch
  BY <1>1, <1>4, LaunchStep DEF ScreenKept, Roads, Ends
<1>5. CASE StartIsolate
  <2>1. /\ at = "memory" /\ at' \in {"runtime", "top"} /\ display' = ConsoleInit(display)
        /\ display = Dark /\ regime' = regime
    BY <1>1, <1>5 DEF StartIsolate, ScreenKept
  <2>2. Screen(display', regime'.terminal) /\ display'.owners = {"console"}
    BY <2>1, <1>1, ConsoleOpened DEF MainTypes
  <2>3. QED BY <2>1, <2>2 DEF ScreenKept, Roads, Ends
<1>6. CASE RuntimeReady
  BY <1>1, <1>6, RuntimeStep DEF ScreenKept, Roads, Ends
<1>7. CASE RuntimeThrows
  BY <1>1, <1>7, ThrowStep DEF ScreenKept, Roads, Ends
<1>8. CASE Opens \/ Logs \/ GetContext2D \/ GetWebgl
  <2>1. at \in ScriptStages /\ ScriptShows /\ at' = at /\ regime' = regime
    BY <1>1, <1>8, ScriptStep
  <2>2. at \notin Roads \cup Ends /\ at \notin {"launch", "memory"}
    BY <2>1 DEF ScriptStages, Roads, Ends
  <2>3. /\ display \in Displays /\ Screen(display, regime.terminal)
        /\ context = "none" => display.owners \subseteq {"console"}
        /\ "webgl" \in display.owners => context = "webgl"
    BY <1>1, <2>2 DEF ScreenKept, MainTypes
  <2>4. SUFFICES /\ Screen(display', regime.terminal)
                 /\ context' = "none" => display'.owners \subseteq {"console"}
                 /\ "webgl" \in display'.owners => context' = "webgl"
    BY <2>1, <2>2 DEF ScreenKept, Roads, Ends
  <2>5. CASE display' = display /\ context' # "none" /\ (context' = context \/ context # "webgl")
    BY <2>3, <2>5
  <2>6. CASE display' = display /\ context' = context
    BY <2>3, <2>6
  <2>7. CASE \E egl, raster \in BOOLEAN : /\ context = "none" /\ context' # "none"
                                          /\ display' = FramebufferInit(display, regime, egl, raster)
    BY <2>3, <2>7, FramebufferMade
  <2>8. CASE ~regime.terminal /\ display' = Printed(display) /\ context' = context
    BY <2>3, <2>8, PrintedOver
  <2>9. CASE \E egl \in BOOLEAN : /\ context # "webgl"
                                  /\ display' = WebglContextNew(display, regime, egl)
                                  /\ context' = IF WebglActive(display') THEN "webgl" ELSE context
    BY <2>3, <2>9, WebglMade DEF WebglActive
  <2>10. QED BY <2>1, <2>5, <2>6, <2>7, <2>8, <2>9 DEF ScriptShows
<1>9. CASE Unloaded
  <2>1. at = "unload" /\ at' = "teardown" /\ UNCHANGED <<regime, display, step>>
    BY <1>9 DEF Unloaded
  <2>2. Screen(display, regime.terminal)
    BY <1>1, <2>1 DEF ScreenKept, Roads, Ends
  <2>3. step = 1
    BY <2>1 DEF MainInv, RoadsKept, Roads
  <2>4. QED BY <2>1, <2>2, <2>3 DEF ScreenKept, Roads, Ends, Screen
<1>10. CASE TearsDown
  <2>1. RoadsKept
    BY DEF MainInv
  <2>2. /\ at \in Roads /\ step \in 1..Len(Road) /\ Len(Road) \in Nat /\ regime' = regime
        /\ IF step = Len(Road) THEN at' = "done" /\ step' = 1 ELSE step' = step + 1 /\ at' = at
        /\ step > 1 => display' = display
        /\ step = 1 => display' = IF at = "emergency" THEN ClosedByOwner(display)
                                  ELSE ClosedByMode(display)
    BY <1>1, <1>10, <2>1, RoadStep
  <2>3. display \in Displays /\ display' \in Displays
    BY <1>1, <1>10, TypesKept DEF MainTypes, MainLoopNext, MainSteps
  <2>4. CASE at = "emergency"
    <3>1. display'.owners = {}
      BY <1>1, <2>2, <2>3, <2>4, ClosedInEmergency DEF ScreenKept, Roads
    <3>2. Closable(display') /\ Left(display', regime'.terminal)
      BY <3>1 DEF Closable, OneRenderer, Left
    <3>3. step' # 1 \/ at' = "done"
      BY <2>2
    <3>4. QED BY <2>2, <2>4, <3>1, <3>2, <3>3 DEF ScreenKept, Roads, Ends
  <2>5. CASE at = "teardown"
    <3>1. Closable(display') /\ Left(display', regime'.terminal)
      <4>1. CASE step = 1
        BY <4>1, <1>1, <2>2, <2>3, <2>5, ClosedAtTheEnd DEF ScreenKept
      <4>2. CASE step > 1
        BY <4>2, <1>1, <2>2, <2>5 DEF ScreenKept, Roads
      <4>3. QED BY <4>1, <4>2, <2>2
    <3>2. at' = "done" \/ (at' = "teardown" /\ step' # 1)
      BY <2>2, <2>5
    <3>3. QED BY <3>1, <3>2 DEF ScreenKept, Roads, Ends
  <2>6. QED BY <2>2, <2>4, <2>5 DEF Roads
<1>11. CASE Fatal
  <2>1. /\ at' \in {"emergency", "killed"} /\ step' = 1 /\ UNCHANGED <<regime, display>>
        /\ at \in Running \cup {"runtime", "teardown"}
    BY <1>11, FatalStep
  <2>2. Closable(display)
    BY <1>1, <2>1 DEF ScreenKept, Screen, Running, ScriptStages, Roads, Ends
  <2>3. QED BY <2>1, <2>2 DEF ScreenKept, Roads, Ends
<1>12. QED
  BY <1>1, <1>2, <1>3, <1>4, <1>5, <1>6, <1>7, <1>8, <1>9, <1>10, <1>11, QuietSteps

-----------------------------------------------------------------------------
(* The invariant holds at first.                                           *)
LEMMA MainInvInit ==
  ASSUME MainLoopInit
  PROVE  MainInv
<1>1. /\ at = "launch" /\ regime \in Regimes /\ held = {} /\ closed = [r \in Holdable |-> 0]
      /\ display = Dark /\ context = "none" /\ hooks = {} /\ pending = None /\ step = 1
  BY DEF MainLoopInit
<1>2. MainTypes
  BY <1>1 DEF MainTypes, Stages, Dark, Displays, Owners
<1>3. HeapWithinReach /\ GivenBackOnce
  <2>1. "parachute" \in Holdable
    BY DEF Holdable
  <2>2. \A r \in Holdable : closed[r] = 0
    BY <1>1
  <2>3. QED BY <1>1, <2>1, <2>2 DEF HeapWithinReach, GivenBackOnce
<1>4. RoadsKept
  BY <1>1 DEF RoadsKept, Roads
<1>5. ScreenKept
  BY <1>1 DEF ScreenKept, Dark, Screen, Closable, OneRenderer, Believed, ModeTells, Roads, Ends
<1>6. QED BY <1>2, <1>3, <1>4, <1>5 DEF MainInv

(* It holds of every state: each step keeps it.                            *)
THEOREM MainInvariant == MainLoopSpec => []MainInv
<1>1. MainLoopInit => MainInv
  BY MainInvInit
<1>2. ASSUME MainInv, [MainLoopNext]_loopVars PROVE MainInv'
  <2>1. HeapWithinReach'
    <3>1. CASE MainLoopNext BY <3>1, <1>2, HeapKept
    <3>2. CASE UNCHANGED loopVars BY <3>2, <1>2 DEF MainInv, HeapWithinReach, loopVars
    <3>3. QED BY <1>2, <3>1, <3>2
  <2>2. MainTypes' /\ GivenBackOnce' /\ RoadsKept' /\ ScreenKept'
    BY <1>2, TypesKept, OnceKept, RoadsStay, ScreenStays
  <2>3. QED BY <2>1, <2>2 DEF MainInv
<1>3. QED BY <1>1, <1>2, PTL DEF MainLoopSpec

(* The order of a teardown.                                                *)
LEMMA OrderFollows ==
  ASSUME MainInv
  PROVE  TeardownOrder
<1>1. MainTypes /\ RoadsKept
  BY DEF MainInv
<1>2. SUFFICES ASSUME at \notin {"launch", "memory"}
      PROVE  /\ "sockets" \notin held => {"polls", "uv"} \cap held = {}
             /\ "arena" \notin held => held = {}
  BY DEF TeardownOrder
<1>3. CASE at \notin Roads \cup {"done"}
  BY <1>1, <1>2, <1>3 DEF RoadsKept, Services
<1>4. CASE at = "done"
  BY <1>1, <1>4 DEF RoadsKept
<1>5. CASE at = "teardown"
  <2>1. RoadKept(Teardown) /\ step \in 1..14
    BY <1>1, <1>5 DEF RoadsKept, MainTypes
  <2>2. ASSUME "sockets" \notin held PROVE {"polls", "uv"} \cap held = {}
    <3>1. step > 12
      BY <2>1, <2>2, TeardownNames DEF RoadKept, Services
    <3>2. 2 \in 1..(step - 1) /\ 6 \in 1..(step - 1)
      BY <2>1, <3>1
    <3>3. Teardown[2] = "polls" /\ Teardown[6] = "uv"
      BY TeardownNames
    <3>4. QED BY <2>1, <3>2, <3>3 DEF RoadKept
  <2>3. "arena" \in held
    <3>1. Teardown[14] = "arena" /\ 14 \in step..Len(Teardown)
      BY <2>1, TeardownNames
    <3>2. QED BY <2>1, <3>1 DEF RoadKept, Services
  <2>4. QED BY <2>2, <2>3
<1>6. CASE at = "emergency"
  <2>1. RoadKept(Emergency) /\ step \in 1..14
    BY <1>1, <1>6 DEF RoadsKept, MainTypes
  <2>2. ASSUME "sockets" \notin held PROVE {"polls", "uv"} \cap held = {}
    <3>1. step > 11
      BY <2>1, <2>2, EmergencyNames DEF RoadKept, Services
    <3>2. 2 \in 1..(step - 1) /\ 3 \in 1..(step - 1)
      BY <2>1, <3>1
    <3>3. Emergency[2] = "polls" /\ Emergency[3] = "uv"
      BY EmergencyNames
    <3>4. QED BY <2>1, <3>2, <3>3 DEF RoadKept
  <2>3. "arena" \in held
    <3>1. Emergency[13] = "arena" /\ 13 \in step..Len(Emergency)
      BY <2>1, EmergencyNames DEF RoadKept
    <3>2. QED BY <2>1, <3>1 DEF RoadKept, Services
  <2>4. QED BY <2>2, <2>3
<1>7. QED BY <1>3, <1>4, <1>5, <1>6 DEF Roads

(* The renderer of the screen.                                             *)
LEMMA RendererFollows ==
  ASSUME MainInv
  PROVE  ScreenHasOneRenderer
<1>1. SUFFICES ASSUME at \in ScriptStages \cup {"top", "pads", "present"}
      PROVE  /\ display.gpu <=> "gpu" \in display.owners
             /\ display.framebuffer <=> "framebuffer" \in display.owners
             /\ Cardinality(display.owners \ {"console"}) <= 1
             /\ ~({"console", "framebuffer"} \subseteq display.owners)
  BY DEF ScreenHasOneRenderer
<1>2. Screen(display, regime.terminal) /\ display.owners \subseteq Owners
  BY <1>1, DisplayFields DEF MainInv, MainTypes, ScreenKept, ScriptStages, Roads, Ends
<1>3. /\ display.gpu <=> "gpu" \in display.owners
      /\ display.framebuffer <=> "framebuffer" \in display.owners
  BY <1>2 DEF Screen, Closable, Believed
<1>4. ~({"console", "framebuffer"} \subseteq display.owners)
  BY <1>2 DEF Screen, ModeTells
<1>5. Cardinality(display.owners \ {"console"}) <= 1
  <2>1. PICK x \in Owners : display.owners \ {"console"} \subseteq {x}
    BY <1>2 DEF Screen, Closable, OneRenderer, Owners
  <2>2. IsFiniteSet({x}) /\ Cardinality({x}) = 1
    BY FS_Singleton
  <2>3. QED BY <2>1, <2>2, FS_Subset
<1>6. QED BY <1>3, <1>4, <1>5

(* The variables are always of their types.                                *)
THEOREM MainTypeCorrect == MainLoopSpec => []MainLoopTypeOK
<1>1. MainInv => MainLoopTypeOK
  BY DisplayFields DEF MainInv, MainTypes, MainLoopTypeOK, Stages, Roads, Ends, Owners
<1>2. QED BY <1>1, MainInvariant, PTL

(* Whatever the launch gave, whatever scripts did with the screen, the     *)
(* sockets and the libraries, and wherever V8 gave up, the end of the      *)
(* teardown included: the program gives back what it took, once, in order, *)
(* and all of it; until then the heap fits and one renderer has the        *)
(* screen, unless the console was printed while EGL had the window (main,  *)
(* nx_emergency_teardown).                                                 *)
THEOREM EverythingReturned == MainLoopSpec => []ResourcesReturned
<1>1. MainInv => ResourcesReturned
  <2>1. SUFFICES ASSUME MainInv PROVE ResourcesReturned
    OBVIOUS
  <2>2. HeapWithinReach /\ ReleasedOnce
    BY <2>1 DEF MainInv, GivenBackOnce, ReleasedOnce
  <2>3. NothingLeftBehind
    BY <2>1 DEF MainInv, RoadsKept, ScreenKept, Left, NothingLeftBehind
  <2>4. TeardownOrder /\ ScreenHasOneRenderer
    BY <2>1, OrderFollows, RendererFollows
  <2>5. QED BY <2>2, <2>3, <2>4 DEF ResourcesReturned
<1>2. QED BY <1>1, MainInvariant, PTL

(* A promise that is remembered is rejected and has no handler, except     *)
(* while it is being reported.                                             *)
PendingRejected ==
  /\ promise \in [Promises -> {"settled", "rejected"}]
  /\ at # "rejection" /\ pending # None => pending \in Promises /\ promise[pending] = "rejected"

(* The promise waited for is a rejected one, at every step.                *)
LEMMA PendingStays ==
  ASSUME PendingRejected, [MainLoopNext]_loopVars
  PROVE  PendingRejected'
<1> USE DEF PendingRejected
<1>1. CASE UNCHANGED loopVars
  BY <1>1 DEF loopVars
<1>2. CASE Rejects
  <2>1. PICK p \in Promises : promise' = [promise EXCEPT ![p] = "rejected"] /\ pending' = p
    BY <1>2 DEF Rejects
  <2>2. QED BY <2>1
<1>3. CASE Handles
  <2>1. PICK p \in Promises : /\ promise' = [promise EXCEPT ![p] = "settled"]
                              /\ pending' = IF pending = p THEN None ELSE pending
                              /\ at' = at
    BY <1>3 DEF Handles, HandledLeaves, scriptFrame
  <2>2. QED BY <2>1
<1>4. CASE CallbacksEnd
  <2>1. CASE pending = None BY <1>4, <2>1 DEF CallbacksEnd
  <2>2. CASE pending # None
    BY <1>4, <2>2 DEF CallbacksEnd
  <2>3. QED BY <2>1, <2>2
<1>5. CASE RejectionEnds
  BY <1>5 DEF RejectionEnds
<1>6. CASE Unloaded \/ Fatal
  BY <1>6 DEF Unloaded, Fatal, Settled
<1>7. ASSUME UNCHANGED <<promise, pending>>, at # "rejection" \/ at' = "rejection"
      PROVE  PendingRejected'
  BY <1>7
<1>8. CASE Launch \/ StartIsolate \/ RuntimeReady \/ RuntimeThrows
  BY <1>7, <1>8 DEF Launch, StartIsolate, RuntimeReady, RuntimeThrows
<1>9. CASE Exit \/ Opens \/ Logs \/ GetContext2D \/ GetWebgl
  BY <1>7, <1>9 DEF Exit, Opens, Logs, GetContext2D, GetWebgl, scriptFrame
<1>10. CASE EntryEnds \/ TurnBegins \/ ReadPads \/ FrameEnds \/ Present \/ TearsDown
  BY <1>7, <1>10 DEF EntryEnds, TurnBegins, ReadPads, FrameEnds, Present, TearsDown
<1>11. CASE CallbackThrows \/ Press
  BY <1>7, <1>11 DEF CallbackThrows, Press
<1>12. QED
  BY <1>1, <1>2, <1>3, <1>4, <1>5, <1>6, <1>8, <1>9, <1>10, <1>11
  DEF MainLoopNext, MainSteps, Script

(* What is reported as an unhandled rejection has no handler at that time, *)
(* in whatever order promises were rejected, handled and reported before   *)
(* (nx_promise_rejection_handler).                                         *)
THEOREM OnlyUnhandledIsReported == MainLoopSpec => ReportedIsUnhandled
<1>1. MainLoopInit => PendingRejected
  BY DEF MainLoopInit, PendingRejected, Settled
<1>2. PendingRejected /\ [MainLoopNext]_loopVars => PendingRejected'
  BY PendingStays
<1>3. ASSUME PendingRejected, [MainLoopNext]_loopVars, at = "callbacks", at' = "rejection"
      PROVE  promise[pending] = "rejected"
  <2>1. pending # None
    <3>1. SUFFICES ASSUME pending = None PROVE FALSE
      OBVIOUS
    <3>2. CASE UNCHANGED loopVars BY <1>3, <3>2 DEF loopVars
    <3>3. CASE MainSteps
      BY <1>3, <3>1, <3>3 DEF MainSteps, Launch, StartIsolate, RuntimeReady, RuntimeThrows,
         EntryEnds, TurnBegins, CallbacksEnd, RejectionEnds, ReadPads, FrameEnds, Present,
         Unloaded, TearsDown
    <3>4. CASE Script \/ CallbackThrows \/ Press \/ Fatal
      BY <1>3, <3>4 DEF Script, Exit, Opens, Rejects, Handles, Logs, GetContext2D, GetWebgl,
         scriptFrame, CallbackThrows, Press, Fatal
    <3>5. QED BY <1>3, <3>2, <3>3, <3>4 DEF MainLoopNext
  <2>2. QED BY <1>3, <2>1 DEF PendingRejected
<1>4. QED BY <1>1, <1>2, <1>3, PTL DEF MainLoopSpec, ReportedIsUnhandled

-----------------------------------------------------------------------------
(***************************************************************************)
(* A canvas and its drawing surface (CanvasSurface).                       *)
(***************************************************************************)
Canvases == [size : Nat, data : Nat, surface : Nat, gpu : BOOLEAN, dirty : BOOLEAN,
             picture : Marks \cup {Blank}]
Segments == [starts : BOOLEAN, of : {"context", "path2d"}]
Encodings == [pixels : Marks \cup {Blank, "garbled"}, asked : Marks \cup {Blank, "unsettled"},
              answer : Marks \cup {Blank, "garbled", "none"}]

(* A canvas of the screen has a surface, one in memory has pixels of its   *)
(* size or the mark to make them; so a freed SkCanvas is never drawn with. *)
Linked(c, x) ==
  /\ c.gpu => c.surface > 0
  /\ ~c.gpu /\ ~c.dirty => c.data = c.size
  /\ x = "freed" => c.gpu \/ c.dirty

(* A path of the context's own that starts where a contour starts.         *)
GoodPath(p) ==
  /\ p \in Seq(Segments)
  /\ p # <<>> => p[1].starts
  /\ \A i \in 1 .. Len(p) : p[i].of = "context"

(* A stack of states as deep as Skia's, and never empty.                   *)
GoodStack(s, n) == s \in Seq(Rules) /\ n \in Nat /\ Len(s) = n + 1

(* What the pool has of the picture asked for.                             *)
EncodingHeld ==
  /\ encoding \in Encodings
  /\ encoding.asked # "unsettled" => encoding.pixels = encoding.asked
  /\ encoding.answer # "none" => encoding.answer = encoding.pixels

SurfaceInv ==
  /\ canvas \in Canvases /\ ctx \in {"null", "live", "freed"}
  /\ Linked(canvas, ctx) /\ GoodPath(path) /\ GoodStack(states, saves) /\ EncodingHeld
  /\ DrawsOnTheSurface /\ PixelsCoverCanvas

(* What ensure_surface leaves of a canvas, and of its context.             *)
EnsuredWell(e) ==
  /\ e.canvas \in Canvases /\ e.ctx \in {"null", "live", "freed"}
  /\ e.reset \in BOOLEAN /\ e.thrown \in BOOLEAN
  /\ Linked(e.canvas, e.ctx)
  /\ Body(e) => /\ e.ctx = "live"
                /\ ~e.canvas.gpu => e.canvas.data = e.canvas.size

(* The surface made for a drawing is one of the canvas as it is.           *)
LEMMA EnsureSurface ==
  ASSUME SurfaceInv, NEW e \in Ensured(canvas)
  PROVE  EnsuredWell(e)
<1> DEFINE c == canvas
           kept == [canvas |-> c, ctx |-> ctx, reset |-> FALSE, thrown |-> FALSE]
           none == [kept EXCEPT !.canvas = WithoutPixels(c), !.ctx = "null"]
<1>1. c \in Canvases /\ ctx \in {"null", "live", "freed"} /\ Linked(c, ctx)
  BY DEF SurfaceInv
<1>2. /\ WithoutPixels(c) \in Canvases /\ WithoutPixels(c).data = 0
      /\ WithoutPixels(c).gpu = c.gpu /\ WithoutPixels(c).dirty = c.dirty
      /\ WithoutPixels(c).size = c.size /\ WithoutPixels(c).surface = 0
  BY <1>1 DEF WithoutPixels, Canvases
<1>3. CASE c.gpu
  <2>1. e = [kept EXCEPT !.canvas.dirty = FALSE, !.ctx = IF c.surface > 0 THEN "live" ELSE @]
    BY <1>3 DEF Ensured
  <2>2. e = [canvas |-> [c EXCEPT !.dirty = FALSE], ctx |-> "live", reset |-> FALSE,
             thrown |-> FALSE]
    BY <2>1, <1>1, <1>3 DEF Linked
  <2>3. [c EXCEPT !.dirty = FALSE] \in Canvases
    BY <1>1 DEF Canvases
  <2> QED BY <2>2, <2>3, <1>1, <1>3 DEF EnsuredWell, Linked, Canvases
<1>4. CASE ~c.gpu /\ ~c.dirty
  <2>1. e = kept
    BY <1>4 DEF Ensured
  <2> QED BY <2>1, <1>1, <1>4 DEF EnsuredWell, Linked, Body
<1>5. CASE ~c.gpu /\ c.dirty /\ c.size = 0
  <2>1. e = [none EXCEPT !.canvas.dirty = FALSE, !.reset = TRUE]
    BY <1>5 DEF Ensured
  <2>2. e = [canvas |-> [WithoutPixels(c) EXCEPT !.dirty = FALSE], ctx |-> "null",
             reset |-> TRUE, thrown |-> FALSE]
    BY <2>1
  <2>3. [WithoutPixels(c) EXCEPT !.dirty = FALSE] \in Canvases
    BY <1>2 DEF Canvases
  <2> QED BY <2>2, <2>3, <1>2, <1>5 DEF EnsuredWell, Linked, Body, Canvases
<1>6. CASE ~c.gpu /\ c.dirty /\ c.size # 0
  <2>1. \/ e = [none EXCEPT !.thrown = TRUE]
        \/ e = [none EXCEPT !.canvas = OnPixels(c), !.ctx = "live", !.reset = TRUE]
    BY <1>6 DEF Ensured
  <2>2. CASE e = [none EXCEPT !.thrown = TRUE]
    <3>1. e = [canvas |-> WithoutPixels(c), ctx |-> "null", reset |-> FALSE, thrown |-> TRUE]
      BY <2>2
    <3> QED BY <3>1, <1>2, <1>6 DEF EnsuredWell, Linked, Body
  <2>3. CASE e = [none EXCEPT !.canvas = OnPixels(c), !.ctx = "live", !.reset = TRUE]
    <3>1. e = [canvas |-> OnPixels(c), ctx |-> "live", reset |-> TRUE, thrown |-> FALSE]
      BY <2>3
    <3>2. /\ OnPixels(c) \in Canvases /\ OnPixels(c).data = c.size /\ OnPixels(c).size = c.size
          /\ OnPixels(c).gpu = c.gpu
      BY <1>1 DEF OnPixels, Canvases
    <3> QED BY <3>1, <3>2, <1>6 DEF EnsuredWell, Linked, Body
  <2> QED BY <2>1, <2>2, <2>3
<1>7. c.gpu \in BOOLEAN /\ c.dirty \in BOOLEAN
  BY <1>1 DEF Canvases
<1> QED BY <1>3, <1>4, <1>5, <1>6, <1>7

(* The stack and the path a body starts from.                              *)
LEMMA StartOfBody ==
  ASSUME SurfaceInv, NEW e, e.reset \in BOOLEAN
  PROVE  GoodPath(PathAfter(e)) /\ GoodStack(StatesAfter(e), SavesAfter(e))
<1>1. GoodPath(<<>>) /\ GoodPath(path)
  BY DEF SurfaceInv, GoodPath
<1>2. GoodStack(<<"winding">>, 0) /\ GoodStack(states, saves)
  <2>1. <<"winding">> \in Seq(Rules) /\ Len(<<"winding">>) = 1
    BY DEF Rules
  <2> QED BY <2>1 DEF SurfaceInv, GoodStack
<1> QED BY <1>1, <1>2 DEF PathAfter, StatesAfter, SavesAfter

(* A path that grows by segments of the context's own, the first of which  *)
(* starts a contour where there is none, is one that starts.               *)
LEMMA PathGrows ==
  ASSUME NEW p, GoodPath(p), NEW s \in Seq(Segments), Len(s) > 0,
         \A i \in 1 .. Len(s) : s[i].of = "context", p = <<>> => s[1].starts
  PROVE  GoodPath(Grows(p, s))
<1>1. CASE Len(p) + Len(s) > MaxPath
  BY <1>1 DEF Grows
<1>2. CASE ~(Len(p) + Len(s) > MaxPath)
  <2>1. Grows(p, s) = p \o s
    BY <1>2 DEF Grows
  <2>2. p \in Seq(Segments) /\ p \o s \in Seq(Segments) /\ Len(p \o s) = Len(p) + Len(s)
    BY DEF GoodPath
  <2>3. (p \o s)[1].starts
    <3>1. CASE p = <<>>
      BY <3>1, <2>2
    <3>2. CASE p # <<>>
      BY <3>2, <2>2 DEF GoodPath
    <3> QED BY <3>1, <3>2
  <2>4. ASSUME NEW i \in 1 .. Len(p \o s) PROVE (p \o s)[i].of = "context"
    <3>1. CASE i <= Len(p)
      BY <3>1, <2>2 DEF GoodPath
    <3>2. CASE i > Len(p)
      <4>1. (p \o s)[i] = s[i - Len(p)] /\ i - Len(p) \in 1 .. Len(s)
        BY <3>2, <2>2
      <4> QED BY <4>1
    <3> QED BY <3>1, <3>2, <2>2
  <2> QED BY <2>1, <2>2, <2>3, <2>4 DEF GoodPath
<1> QED BY <1>1, <1>2

(* The segments the calls add.                                             *)
LEMMA SegmentsAdded ==
  /\ Start("context") \in Segments /\ Go("context") \in Segments
  /\ Start("context").starts /\ Start("context").of = "context" /\ Go("context").of = "context"
BY DEF Start, Go, Segments

(* Two segments, one after the other.                                      *)
LEMMA TwoSegments ==
  ASSUME NEW a \in Segments, NEW b \in Segments
  PROVE  LET s == <<a>> \o <<b>> IN
         s \in Seq(Segments) /\ Len(s) = 2 /\ s[1] = a /\ s[2] = b
<1>1. PICK x \in Seq(Segments) : x = <<a>> /\ Len(x) = 1 /\ x[1] = a
  <2>1. <<a>> \in Seq(Segments) /\ Len(<<a>>) = 1 /\ <<a>>[1] = a
    OBVIOUS
  <2> QED BY <2>1
<1>2. PICK y \in Seq(Segments) : y = <<b>> /\ Len(y) = 1 /\ y[1] = b
  <2>1. <<b>> \in Seq(Segments) /\ Len(<<b>>) = 1 /\ <<b>>[1] = b
    OBVIOUS
  <2> QED BY <2>1
<1>3. x \o y \in Seq(Segments) /\ Len(x \o y) = 2 /\ (x \o y)[1] = a /\ (x \o y)[2] = b
  <2>1. /\ x \o y \in Seq(Segments) /\ Len(x \o y) = Len(x) + Len(y)
        /\ \A i \in 1 .. Len(x) + Len(y) : (x \o y)[i] = IF i <= Len(x) THEN x[i] ELSE y[i - Len(x)]
    BY ConcatProperties
  <2>2. Len(x) = 1 /\ x[1] = a /\ Len(y) = 1 /\ y[1] = b
    BY <1>1, <1>2
  <2> QED BY <2>1, <2>2
<1> QED BY <1>1, <1>2, <1>3

(* The paths the calls leave are good ones.                                *)
LEMMA PathsLeft ==
  ASSUME NEW p, GoodPath(p)
  PROVE  /\ GoodPath(Grows(p, <<Start("context")>>))
         /\ GoodPath(Grows(p, Continued(p)))
         /\ GoodPath(Grows(p, (IF p = <<>> THEN <<Start("context")>> ELSE <<>>) \o <<Go("context")>>))
         /\ GoodPath(Grows(p, <<Start("context"), Go("context")>>))
<1> DEFINE one == <<Start("context")>>
           go == <<Go("context")>>
           two == <<Start("context"), Go("context")>>
<1>1. GoodPath(Grows(p, one))
  <2>1. one \in Seq(Segments) /\ Len(one) = 1 /\ one[1] = Start("context")
    BY SegmentsAdded
  <2> HIDE DEF one
  <2>2. (\A i \in 1 .. Len(one) : one[i].of = "context") /\ one[1].starts
    BY <2>1, SegmentsAdded
  <2>3. Len(one) > 0
    BY <2>1
  <2> QED BY <2>1, <2>2, <2>3, PathGrows
<1>2. GoodPath(Grows(p, two))
  <2>1. two \in Seq(Segments) /\ Len(two) = 2 /\ two[1] = Start("context") /\ two[2] = Go("context")
    BY SegmentsAdded
  <2> HIDE DEF two
  <2>2. (\A i \in 1 .. Len(two) : two[i].of = "context") /\ two[1].starts
    BY <2>1, SegmentsAdded
  <2>3. Len(two) > 0
    BY <2>1
  <2> QED BY <2>1, <2>2, <2>3, PathGrows
<1>3. p # <<>> => GoodPath(Grows(p, go))
  <2>1. go \in Seq(Segments) /\ Len(go) = 1 /\ go[1] = Go("context")
    BY SegmentsAdded
  <2> HIDE DEF go
  <2>2. \A i \in 1 .. Len(go) : go[i].of = "context"
    BY <2>1, SegmentsAdded
  <2>3. Len(go) > 0
    BY <2>1
  <2> QED BY <2>1, <2>2, <2>3, PathGrows
<1>4. GoodPath(Grows(p, Continued(p)))
  <2>1. CASE p = <<>>
    <3>1. Continued(p) = one
      BY <2>1 DEF Continued
    <3> QED BY <3>1, <1>1
  <2>2. CASE p # <<>>
    <3>1. Continued(p) = go
      BY <2>2 DEF Continued
    <3> QED BY <3>1, <1>3, <2>2
  <2> QED BY <2>1, <2>2
<1>5. GoodPath(Grows(p, (IF p = <<>> THEN one ELSE <<>>) \o go))
  <2> DEFINE s == (IF p = <<>> THEN one ELSE <<>>) \o go
  <2> SUFFICES GoodPath(Grows(p, s))
    OBVIOUS
  <2>a. one \in Seq(Segments) /\ go \in Seq(Segments)
    BY SegmentsAdded
  <2>1. CASE p = <<>>
    <3>1. s = one \o go
      BY <2>1, Zenon
    <3>3. /\ s \in Seq(Segments) /\ Len(s) = 2 /\ s[1] = Start("context") /\ s[2] = Go("context")
      BY <3>1, SegmentsAdded, TwoSegments
    <3> HIDE DEF s
    <3>4. (\A i \in 1 .. Len(s) : s[i].of = "context") /\ s[1].starts /\ Len(s) > 0
      BY <3>3, SegmentsAdded
    <3> QED BY <3>3, <3>4, PathGrows
  <2>2. CASE p # <<>>
    <3>1. s = <<>> \o go
      BY <2>2, Zenon
    <3>2. <<>> \o go = go
      BY <2>a
    <3> QED BY <3>1, <3>2, <1>3, <2>2
  <2> QED BY <2>1, <2>2
<1> QED BY <1>1, <1>2, <1>4, <1>5

(* A body that leaves a good stack and path, and marks the canvas or not,  *)
(* keeps the invariant.                                                    *)
LEMMA BodyKeeps ==
  ASSUME SurfaceInv, NEW e \in Ensured(canvas), Body(e), ctx' = e.ctx, used' = e.ctx,
         GoodPath(path'), GoodStack(states', saves'), UNCHANGED encoding,
         NEW mark \in Marks \cup {Blank},
         canvas' = e.canvas \/ canvas' = [e.canvas EXCEPT !.picture = mark]
  PROVE  SurfaceInv'
<1>1. EnsuredWell(e)
  BY EnsureSurface
<1>2. /\ canvas' \in Canvases /\ canvas'.gpu = e.canvas.gpu /\ canvas'.dirty = e.canvas.dirty
      /\ canvas'.size = e.canvas.size /\ canvas'.data = e.canvas.data
      /\ canvas'.surface = e.canvas.surface
  BY <1>1 DEF EnsuredWell, Canvases
<1>3. ctx' = "live" /\ used' = "live" /\ Linked(canvas', ctx')
  BY <1>1, <1>2 DEF EnsuredWell, Linked
<1>4. DrawsOnTheSurface' /\ PixelsCoverCanvas'
  BY <1>1, <1>2, <1>3 DEF EnsuredWell, DrawsOnTheSurface, PixelsCoverCanvas
<1>5. EncodingHeld'
  BY DEF SurfaceInv, EncodingHeld
<1> QED BY <1>2, <1>3, <1>4, <1>5 DEF SurfaceInv

(* A step of any action keeps the invariant.                               *)
LEMMA SurfaceStep ==
  ASSUME CanvasSurfaceAssumption, SurfaceInv, [CanvasSurfaceNext]_canvasVars
  PROVE  SurfaceInv'
<1>a. \A e \in Ensured(canvas) : EnsuredWell(e) /\ e.reset \in BOOLEAN
  BY EnsureSurface DEF EnsuredWell
<1>b. \A e \in Ensured(canvas) :
        GoodPath(PathAfter(e)) /\ GoodStack(StatesAfter(e), SavesAfter(e))
  BY <1>a, StartOfBody
<1>c. Blank \in Marks \cup {Blank}
  OBVIOUS
<1>d. ASSUME NEW e \in Ensured(canvas), NEW p, GoodPath(p), InBody(e, p),
             NEW mark \in Marks \cup {Blank},
             canvas' = e.canvas \/ canvas' = [e.canvas EXCEPT !.picture = mark]
      PROVE  SurfaceInv'
  BY <1>b, <1>d, BodyKeeps DEF InBody
<1>1. ASSUME TurnedAway PROVE SurfaceInv'
  <2>1. PICK e \in Ensured(canvas) : Turned(e)
    BY <1>1 DEF TurnedAway
  <2>2. EnsuredWell(e) /\ canvas' = e.canvas /\ ctx' = e.ctx /\ used' = "none"
    BY <2>1, <1>a DEF Turned, Entered
  <2>3. GoodPath(path') /\ GoodStack(states', saves') /\ UNCHANGED encoding
    BY <2>1, <1>b DEF Turned
  <2> QED BY <2>2, <2>3
            DEF EnsuredWell, SurfaceInv, DrawsOnTheSurface, PixelsCoverCanvas, EncodingHeld
<1>q. ASSUME NEW e \in Ensured(canvas)
      PROVE  LET p == PathAfter(e) IN
             /\ GoodPath(Grows(p, <<Start("context")>>))
             /\ GoodPath(Grows(p, Continued(p)))
             /\ GoodPath(Grows(p, (IF p = <<>> THEN <<Start("context")>> ELSE <<>>) \o <<Go("context")>>))
             /\ GoodPath(Grows(p, <<Start("context"), Go("context")>>))
  BY <1>b, PathsLeft
<1>2. ASSUME MoveTo PROVE SurfaceInv'
  BY <1>2, <1>c, <1>d, <1>q DEF MoveTo
<1>3. ASSUME LineTo PROVE SurfaceInv'
  BY <1>3, <1>c, <1>d, <1>q DEF LineTo
<1>4. ASSUME CurveTo PROVE SurfaceInv'
  BY <1>4, <1>c, <1>d, <1>q DEF CurveTo
<1>5. ASSUME Shape PROVE SurfaceInv'
  BY <1>5, <1>c, <1>d, <1>q DEF Shape
<1>6. ASSUME NoShape \/ BeginPath \/ Paint PROVE SurfaceInv'
  <2>1. GoodPath(<<>>)
    BY DEF GoodPath
  <2>2. CASE NoShape
    BY <2>2, <1>b, <1>c, <1>d DEF NoShape
  <2>3. CASE BeginPath
    BY <2>3, <2>1, <1>c, <1>d DEF BeginPath
  <2>4. CASE Paint
    <3>1. PICK e \in Ensured(canvas), mark \in Marks \cup {Blank} :
            InBody(e, PathAfter(e)) /\ canvas' = [e.canvas EXCEPT !.picture = mark]
      BY <2>4 DEF Paint
    <3> QED BY <3>1, <1>b, <1>d
  <2> QED BY <1>6, <2>2, <2>3, <2>4
<1>7. ASSUME NEW e \in Ensured(canvas), NEW of \in {"context", "path2d"},
             NEW rule \in Rules \cup {"none"}, NEW mark \in Marks \cup {Blank},
             Body(e), ctx' = e.ctx, used' = e.ctx,
             path' = IF of = "path2d" THEN GivenBack(PathAfter(e)) ELSE PathAfter(e),
             canvas' = e.canvas \/ canvas' = [e.canvas EXCEPT !.picture = mark],
             states' = RuleOf(rule, StatesAfter(e)), saves' = SavesAfter(e), UNCHANGED encoding
      PROVE  SurfaceInv'
  <2>1. GoodPath(path')
    BY <1>7, <1>b DEF GivenBack
  <2>2. GoodStack(states', saves')
    <3>1. GoodStack(StatesAfter(e), SavesAfter(e))
      BY <1>b
    <3>2. PICK s \in Seq(Rules) : s = StatesAfter(e)
      BY <3>1 DEF GoodStack
    <3>3. CASE rule = "none"
      BY <1>7, <3>1, <3>3 DEF RuleOf
    <3>4. CASE rule \in Rules
      <4>1. "none" \notin Rules
        BY DEF Rules
      <4>2. states' = [s EXCEPT ![Len(s)] = rule]
        BY <1>7, <3>2, <3>4, <4>1 DEF RuleOf
      <4>l. Len(s) \in 1 .. Len(s)
        BY <3>1, <3>2 DEF GoodStack
      <4>3. states' \in Seq(Rules) /\ Len(states') = Len(s)
        BY <3>4, <4>2, <4>l, ExceptSeq
      <4> QED BY <1>7, <3>1, <3>2, <4>3 DEF GoodStack
    <3> QED BY <3>3, <3>4
  <2> QED BY <1>7, <2>1, <2>2, BodyKeeps
<1>8. ASSUME Fill PROVE SurfaceInv'
  <2>1. PICK e \in Ensured(canvas), of \in {"context", "path2d"},
           rule \in Rules \cup {"none"}, mark \in Marks :
          /\ DrawsPath(e, of, mark)
          /\ states' = RuleOf(rule, StatesAfter(e))
          /\ saves' = SavesAfter(e) /\ UNCHANGED encoding
    BY <1>8 DEF Fill
  <2> QED BY <2>1, <1>7 DEF DrawsPath
<1>9. ASSUME Stroke PROVE SurfaceInv'
  <2>1. PICK e \in Ensured(canvas), of \in {"context", "path2d"}, mark \in Marks :
          /\ DrawsPath(e, of, mark)
          /\ states' = StatesAfter(e) /\ saves' = SavesAfter(e) /\ UNCHANGED encoding
    BY <1>9 DEF Stroke
  <2>2. states' = RuleOf("none", StatesAfter(e))
    BY <2>1 DEF RuleOf
  <2> QED BY <2>1, <2>2, <1>7 DEF DrawsPath
<1>10. ASSUME Tests PROVE SurfaceInv'
  <2>1. PICK e \in Ensured(canvas), of \in {"context", "path2d"},
           rule \in Rules \cup {"none"} :
          /\ DrawsPath(e, of, e.canvas.picture) /\ canvas' = e.canvas
          /\ states' = RuleOf(rule, StatesAfter(e))
          /\ saves' = SavesAfter(e) /\ UNCHANGED encoding
    BY <1>10 DEF Tests
  <2> QED BY <2>1, <1>7, <1>c DEF DrawsPath
<1>11. ASSUME Save PROVE SurfaceInv'
  <2>1. PICK e \in Ensured(canvas) :
          LET stack == StatesAfter(e) IN
          /\ Body(e) /\ Len(stack) < MaxStates /\ Entered(e)
          /\ saves' = SavesAfter(e) + 1
          /\ states' = Append(stack, stack[Len(stack)])
          /\ path' = PathAfter(e) /\ used' = e.ctx /\ UNCHANGED encoding
    BY <1>11 DEF Save
  <2>2. PICK s \in Seq(Rules), n \in Nat : s = StatesAfter(e) /\ n = SavesAfter(e) /\ Len(s) = n + 1
    BY <1>b DEF GoodStack
  <2>3. Append(s, s[Len(s)]) \in Seq(Rules) /\ Len(Append(s, s[Len(s)])) = Len(s) + 1
    BY <2>2
  <2>4. GoodStack(states', saves')
    BY <2>1, <2>2, <2>3 DEF GoodStack
  <2> QED BY <2>1, <2>4, <1>b, <1>c, BodyKeeps DEF Entered
<1>12. ASSUME Restore PROVE SurfaceInv'
  <2>1. PICK e \in Ensured(canvas) :
          LET stack == StatesAfter(e) IN
          /\ Body(e) /\ Len(stack) > 1 /\ Entered(e)
          /\ saves' = SavesAfter(e) - 1
          /\ states' = SubSeq(stack, 1, Len(stack) - 1)
          /\ path' = PathAfter(e) /\ used' = e.ctx /\ UNCHANGED encoding
    BY <1>12 DEF Restore
  <2>2. PICK s \in Seq(Rules), n \in Nat : s = StatesAfter(e) /\ n = SavesAfter(e) /\ Len(s) = n + 1
    BY <1>b DEF GoodStack
  <2>3. /\ SubSeq(s, 1, Len(s) - 1) \in Seq(Rules)
        /\ Len(SubSeq(s, 1, Len(s) - 1)) = Len(s) - 1
    BY <2>2
  <2>4. GoodStack(states', saves')
    BY <2>1, <2>2, <2>3 DEF GoodStack
  <2> QED BY <2>1, <2>4, <1>b, <1>c, BodyKeeps DEF Entered
<1>p. GoodPath(path)' <=> GoodPath(path')
  BY DEF GoodPath
<1>13. ASSUME SetSize \/ SetGpuSurface \/ ReleaseGpuSurface PROVE SurfaceInv'
  <2>1. /\ canvas \in Canvases /\ ctx \in {"null", "live", "freed"} /\ Linked(canvas, ctx)
        /\ GoodStack(states, saves) /\ GoodPath(path)
    BY DEF SurfaceInv
  <2>2. CASE SetSize
    <3>1. PICK n \in Nat : canvas' = Resized(canvas, n) /\ UNCHANGED <<ctx, saves, states>>
      BY <2>2 DEF SetSize, CanvasSurfaceAssumption
    <3>2. canvas' \in Canvases /\ Linked(canvas', ctx') /\ ctx' = ctx
      BY <2>1, <3>1 DEF Resized, Canvases, Linked
    <3> QED BY <2>1, <2>2, <3>1, <3>2
              DEF SetSize, SurfaceInv, DrawsOnTheSurface, PixelsCoverCanvas, EncodingHeld
  <2>3. CASE SetGpuSurface
    <3>1. canvas' \in Canvases /\ Linked(canvas', ctx') /\ ctx' \in {"null", "freed"}
      BY <2>1, <2>3 DEF SetGpuSurface, Canvases, Linked, Freed
    <3>a. states' = states /\ saves' = 0 /\ Len(states) = 1
      BY <2>3 DEF SetGpuSurface
    <3>b. states \in Seq(Rules)
      BY <2>1 DEF GoodStack
    <3>2. GoodStack(states', saves')
      BY <3>a, <3>b DEF GoodStack
    <3> QED BY <2>1, <2>3, <3>1, <3>2
              DEF SetGpuSurface, SurfaceInv, DrawsOnTheSurface, PixelsCoverCanvas, EncodingHeld
  <2>4. CASE ReleaseGpuSurface
    <3>1. canvas' \in Canvases /\ Linked(canvas', ctx') /\ ctx' \in {"null", "freed"}
      BY <2>1, <2>4 DEF ReleaseGpuSurface, Released, WithoutPixels, Canvases, Linked, Freed
    <3> QED BY <2>1, <2>4, <3>1
              DEF ReleaseGpuSurface, SurfaceInv, DrawsOnTheSurface, PixelsCoverCanvas, EncodingHeld
  <2> QED BY <1>13, <2>2, <2>3, <2>4
<1>14. ASSUME ToBuffer \/ EncodeDo \/ EncodeEnds PROVE SurfaceInv'
  <2>1. UNCHANGED <<canvas, ctx, saves, states, path>> /\ used' = "none"
    BY <1>14 DEF ToBuffer, EncodeDo, EncodeEnds
  <2>2. EncodingHeld'
    <3>1. /\ canvas \in Canvases /\ Linked(canvas, ctx) /\ encoding \in Encodings
          /\ encoding.asked # "unsettled" => encoding.pixels = encoding.asked
      BY DEF SurfaceInv, EncodingHeld
    <3>2. CASE ToBuffer
      <4>1. /\ encoding'.pixels = Snapshot(canvas) /\ encoding'.answer = "none"
            /\ encoding'.asked = (IF canvas.dirty /\ ~canvas.gpu THEN "unsettled"
                                ELSE IF canvas.gpu /\ canvas.surface # canvas.size
                                     THEN "unsettled"
                                ELSE IF canvas.size = 0 THEN Blank ELSE canvas.picture)
            /\ encoding' = [pixels |-> encoding'.pixels, asked |-> encoding'.asked, answer |-> "none"]
        BY <3>2 DEF ToBuffer, NoEncoding
      <4>2. Snapshot(canvas) \in Marks \cup {Blank, "garbled"}
        BY <3>1 DEF Snapshot, Canvases
      <4>3. encoding'.asked \in Marks \cup {Blank, "unsettled"}
        BY <3>1, <4>1 DEF Canvases
      <4>4. encoding'.asked # "unsettled" => Snapshot(canvas) = encoding'.asked
        BY <3>1, <4>1 DEF Snapshot, Linked, Canvases
      <4> QED BY <4>1, <4>2, <4>3, <4>4 DEF EncodingHeld, Encodings
    <3>3. CASE EncodeDo
      BY <3>1, <3>3 DEF EncodeDo, Encoded, EncodingHeld, Encodings
    <3>4. CASE EncodeEnds
      BY <3>4 DEF EncodeEnds, NoEncoding, EncodingHeld, Encodings
    <3> QED BY <1>14, <3>2, <3>3, <3>4
  <2> QED BY <2>1, <2>2 DEF SurfaceInv, DrawsOnTheSurface, PixelsCoverCanvas
<1>15. ASSUME UNCHANGED canvasVars PROVE SurfaceInv'
  BY <1>15 DEF canvasVars, SurfaceInv, DrawsOnTheSurface, PixelsCoverCanvas, EncodingHeld
<1> QED
  BY <1>1, <1>2, <1>3, <1>4, <1>5, <1>6, <1>8, <1>9, <1>10, <1>11, <1>12, <1>13, <1>14, <1>15
     DEF CanvasSurfaceNext

(* CanvasDrawsOnItsOwn: no call draws with the SkCanvas of a surface that  *)
(* is gone or past the pixels in memory; the two stacks have the same      *)
(* depth, the path is the context's own and starts a contour, and the file *)
(* encoded in the pool shows what was asked for, unless the canvas was     *)
(* resized and not drawn on since (canvas.cc).                             *)
THEOREM CanvasKeepsItsSurface ==
  ASSUME CanvasSurfaceAssumption
  PROVE  CanvasSurfaceSpec => []CanvasDrawsOnItsOwn
<1>1. CanvasSurfaceInit => SurfaceInv
  <2> SUFFICES ASSUME CanvasSurfaceInit PROVE SurfaceInv
    OBVIOUS
  <2>1. PICK n \in Sizes \cap 1 .. (TooLarge - 1) :
          canvas = [size |-> n, data |-> n, surface |-> n, gpu |-> FALSE,
                    dirty |-> FALSE, picture |-> Blank]
    BY DEF CanvasSurfaceInit
  <2>2. canvas \in Canvases /\ Linked(canvas, ctx)
    BY <2>1 DEF CanvasSurfaceInit, Canvases, Linked, CanvasSurfaceAssumption
  <2>3. GoodPath(path)
    BY DEF CanvasSurfaceInit, GoodPath
  <2>4. GoodStack(states, saves)
    BY DEF CanvasSurfaceInit, GoodStack, Rules
  <2>5. EncodingHeld
    BY DEF CanvasSurfaceInit, EncodingHeld, Encodings, NoEncoding
  <2> QED
    BY <2>2, <2>3, <2>4, <2>5
      DEF CanvasSurfaceInit, SurfaceInv, DrawsOnTheSurface, PixelsCoverCanvas
<1>2. SurfaceInv => CanvasDrawsOnItsOwn
  <2> SUFFICES ASSUME SurfaceInv PROVE CanvasDrawsOnItsOwn
    OBVIOUS
  <2>1. StackMatchesSkia /\ PathHasStart /\ PathIsItsOwn
    BY DEF SurfaceInv, GoodStack, GoodPath, StackMatchesSkia, PathHasStart, PathIsItsOwn
  <2>2. EncodesWhatWasAsked
    BY DEF SurfaceInv, EncodingHeld, EncodesWhatWasAsked
  <2> QED BY <2>1, <2>2 DEF SurfaceInv, CanvasDrawsOnItsOwn
<1>3. SurfaceInv /\ [CanvasSurfaceNext]_canvasVars => SurfaceInv'
  BY SurfaceStep
<1> QED BY <1>1, <1>2, <1>3, PTL DEF CanvasSurfaceSpec

-----------------------------------------------------------------------------
(***************************************************************************)
(* The drawing state of a canvas (CanvasState).                            *)
(***************************************************************************)
Styles == [source : {"rgba", "gradient"}, fill : Gradients \cup {NoGradient}, colour : Int,
           size : Nat, width : Int, miter : Int, dash : Seq(Int), alpha : Int, blur : Int,
           join : Joins, align : Aligns]

(* A list of dashes as it is kept: none, or of even length and not all     *)
(* zeros.                                                                  *)
GoodDash(d) == d # <<>> => /\ Len(d) % 2 = 0
                           /\ \E j \in 1 .. Len(d) : d[j] # 0
GoodStyles == {s \in Styles : /\ s.width > 0 /\ s.width # Infinite /\ s.miter > 0
                              /\ s.alpha \in 0 .. 100 /\ s.blur >= 0 /\ GoodDash(s.dash)}

StyleTypes ==
  /\ styles \in [Contexts -> Seq(GoodStyles)] /\ \A c \in Contexts : styles[c] # <<>>
  /\ holds \in [Contexts -> Gradients \cup {NoGradient}]
  /\ direct \in [Contexts -> BOOLEAN]
  /\ gradient \in [Gradients -> [there : BOOLEAN, stops : Nat, shader : BOOLEAN]]
  /\ script \subseteq Gradients

(* What a script or the wrapper of a context holds is there.               *)
HeldIsThere ==
  /\ \A g \in script : gradient[g].there
  /\ \A c \in Contexts : holds[c] # NoGradient => gradient[holds[c]].there

(* What a style that was set directly fills with is what its wrapper holds.*)
FillIsHeld ==
  \A c \in Contexts : direct[c] =>
    /\ (Current(c).source = "gradient") <=> (holds[c] # NoGradient)
    /\ holds[c] # NoGradient => Current(c).fill = holds[c]

StyleInv == StyleTypes /\ HeldIsThere /\ FillIsHeld /\ TextAtItsSize

(* What the operations on a stack leave.                                   *)
LEMMA StackOfStyles ==
  ASSUME NEW S, NEW s \in Seq(S), s # <<>>, NEW x \in S
  PROVE  /\ Last(s) \in S
         /\ Front(s) \in Seq(S) /\ Len(Front(s)) = Len(s) - 1
         /\ Append(s, x) \in Seq(S) /\ Append(s, x) # <<>> /\ Last(Append(s, x)) = x
         /\ Append(Front(s), x) \in Seq(S) /\ Append(Front(s), x) # <<>>
         /\ Last(Append(Front(s), x)) = x
<1>0. Len(s) \in Nat /\ Len(s) > 0
  OBVIOUS
<1>1. Last(s) \in S
  BY <1>0 DEF Last
<1>2. Front(s) \in Seq(S) /\ Len(Front(s)) = Len(s) - 1
  <2>1. PICK n \in Nat : Len(s) = n + 1
    BY <1>0
  <2>2. SubSeq(s, 1, n) \in Seq(S) /\ Len(SubSeq(s, 1, n)) = n
    BY <2>1
  <2> QED BY <2>1, <2>2 DEF Front
<1>3. \A t \in Seq(S) : Append(t, x) \in Seq(S) /\ Append(t, x) # <<>> /\ Last(Append(t, x)) = x
  BY DEF Last
<1> QED BY <1>1, <1>2, <1>3

(* A list taken twice where its length is odd is one of those.             *)
LEMMA DashesAreGood ==
  ASSUME NEW d \in Seq(Int)
  PROVE  Dashes(d) \in Seq(Int) /\ GoodDash(Dashes(d))
<1>1. CASE \A i \in DOMAIN d : d[i] = 0
  BY <1>1 DEF Dashes, GoodDash
<1>2. ASSUME NEW i \in 1 .. Len(d), d[i] # 0, Len(d) % 2 = 1
      PROVE  Dashes(d) \in Seq(Int) /\ GoodDash(Dashes(d))
  <2>1. /\ d \o d \in Seq(Int) /\ Len(d \o d) = Len(d) + Len(d)
        /\ \A j \in 1 .. Len(d) + Len(d) : (d \o d)[j] = IF j <= Len(d) THEN d[j] ELSE d[j - Len(d)]
    BY ConcatProperties
  <2>2. Dashes(d) = d \o d
    BY <1>2 DEF Dashes, Twice
  <2>3. i \in 1 .. Len(d) + Len(d) /\ (d \o d)[i] # 0
    BY <2>1, <1>2
  <2>4. (Len(d) + Len(d)) % 2 = 0
    <3> PICK n \in Nat : n = Len(d)
      OBVIOUS
    <3>1. (n + n) % 2 = 0
      OBVIOUS
    <3> QED BY <3>1
  <2> QED BY <2>1, <2>2, <2>3, <2>4 DEF GoodDash
<1>3. ASSUME NEW i \in 1 .. Len(d), d[i] # 0, Len(d) % 2 # 1
      PROVE  Dashes(d) \in Seq(Int) /\ GoodDash(Dashes(d))
  <2>1. Dashes(d) = d
    BY <1>3 DEF Dashes, Twice
  <2>2. Len(d) % 2 = 0
    BY <1>3
  <2> QED BY <2>1, <2>2, <1>3 DEF GoodDash
<1>4. DOMAIN d = 1 .. Len(d)
  OBVIOUS
<1> QED BY <1>1, <1>2, <1>3, <1>4

(* A new style in place of the current one of a context.                   *)
LEMMA StackSet ==
  ASSUME StyleInv, NEW c \in Contexts, NEW style \in GoodStyles, styles' = With(c, style)
  PROVE  /\ styles' \in [Contexts -> Seq(GoodStyles)] /\ \A b \in Contexts : styles'[b] # <<>>
         /\ Last(styles'[c]) = style /\ \A b \in Contexts \ {c} : styles'[b] = styles[b]
<1>1. /\ styles \in [Contexts -> Seq(GoodStyles)]
      /\ styles[c] \in Seq(GoodStyles) /\ styles[c] # <<>>
  BY DEF StyleInv, StyleTypes
<1>2. styles' = [styles EXCEPT ![c] = Append(Front(styles[c]), style)]
  BY DEF With
<1> DEFINE s == Append(Front(styles[c]), style)
<1>3. s \in Seq(GoodStyles) /\ s # <<>> /\ Last(s) = style
  <2> DEFINE t == styles[c]
  <2>1. t \in Seq(GoodStyles) /\ t # <<>>
    BY <1>1
  <2> HIDE DEF t
  <2>2. /\ Append(Front(t), style) \in Seq(GoodStyles) /\ Append(Front(t), style) # <<>>
        /\ Last(Append(Front(t), style)) = style
    BY <2>1, StackOfStyles
  <2> QED BY <2>2 DEF t
<1> HIDE DEF s
<1>4. styles' = [styles EXCEPT ![c] = s]
  BY <1>2 DEF s
<1>5. styles'[c] = s /\ \A b \in Contexts \ {c} : styles'[b] = styles[b]
  BY <1>1, <1>4
<1>6. styles' \in [Contexts -> Seq(GoodStyles)]
  BY <1>1, <1>3, <1>4
<1>7. \A b \in Contexts : styles'[b] # <<>>
  BY <1>3, <1>5 DEF StyleInv, StyleTypes
<1> QED BY <1>3, <1>5, <1>6, <1>7

(* A setter that changes neither the source nor the gradient keeps the     *)
(* invariant.                                                              *)
LEMMA StyleSet ==
  ASSUME StyleInv, NEW c \in Contexts, NEW style \in GoodStyles,
         style.source = Current(c).source, style.fill = Current(c).fill,
         styles' = With(c, style), text' = NoText \/ text'.laid = text'.drawn,
         UNCHANGED <<holds, direct, gradient, script>>
  PROVE  StyleInv'
<1>3. /\ styles' \in [Contexts -> Seq(GoodStyles)] /\ \A b \in Contexts : styles'[b] # <<>>
      /\ Last(styles'[c]) = style /\ \A b \in Contexts \ {c} : styles'[b] = styles[b]
  BY StackSet
<1>4. StyleTypes'
  BY <1>3 DEF StyleInv, StyleTypes
<1>5. FillIsHeld'
  BY <1>3 DEF StyleInv, FillIsHeld, Current
<1>6. TextAtItsSize'
  BY DEF NoText, TextAtItsSize
<1> QED BY <1>4, <1>5, <1>6 DEF StyleInv, HeldIsThere

(* A number, a word or a list that is in range makes a good style.         *)
LEMMA SettersStayGood ==
  ASSUME NEW s \in GoodStyles
  PROVE  /\ \A n \in Int : WidthKept(n) => [s EXCEPT !.width = n] \in GoodStyles
         /\ \A n \in Int : MiterKept(n) => [s EXCEPT !.miter = n] \in GoodStyles
         /\ \A n \in Int : AlphaKept(n) => [s EXCEPT !.alpha = n] \in GoodStyles
         /\ \A n \in Int : BlurKept(n) => [s EXCEPT !.blur = n] \in GoodStyles
         /\ \A w \in Joins : [s EXCEPT !.join = w] \in GoodStyles
         /\ \A w \in Aligns : [s EXCEPT !.align = w] \in GoodStyles
         /\ \A d \in Seq(Int) : GoodDash(d) => [s EXCEPT !.dash = d] \in GoodStyles
         /\ \A n \in Nat : [s EXCEPT !.size = n] \in GoodStyles
         /\ \A g \in Gradients : [s EXCEPT !.source = "gradient", !.fill = g] \in GoodStyles
         /\ \A n \in Int : Coloured(s, n) \in GoodStyles
<1>1. s \in Styles
  BY DEF GoodStyles
<1>2. \A n \in Int : WidthKept(n) => [s EXCEPT !.width = n] \in GoodStyles
  BY <1>1 DEF GoodStyles, Styles, WidthKept
<1>3. \A n \in Int : MiterKept(n) => [s EXCEPT !.miter = n] \in GoodStyles
  BY <1>1 DEF GoodStyles, Styles, MiterKept
<1>4. \A n \in Int : AlphaKept(n) => [s EXCEPT !.alpha = n] \in GoodStyles
  BY <1>1 DEF GoodStyles, Styles, AlphaKept
<1>5. \A n \in Int : BlurKept(n) => [s EXCEPT !.blur = n] \in GoodStyles
  BY <1>1 DEF GoodStyles, Styles, BlurKept
<1>6. \A w \in Joins : [s EXCEPT !.join = w] \in GoodStyles
  BY <1>1 DEF GoodStyles, Styles
<1>7. \A w \in Aligns : [s EXCEPT !.align = w] \in GoodStyles
  BY <1>1 DEF GoodStyles, Styles
<1>8. \A d \in Seq(Int) : GoodDash(d) => [s EXCEPT !.dash = d] \in GoodStyles
  BY <1>1 DEF GoodStyles, Styles
<1>9. \A n \in Nat : [s EXCEPT !.size = n] \in GoodStyles
  BY <1>1 DEF GoodStyles, Styles
<1>10. \A g \in Gradients : [s EXCEPT !.source = "gradient", !.fill = g] \in GoodStyles
  BY <1>1 DEF GoodStyles, Styles
<1>11. \A n \in Int : Coloured(s, n) \in GoodStyles
  BY <1>1 DEF GoodStyles, Styles, Coloured
<1> QED BY <1>2, <1>3, <1>4, <1>5, <1>6, <1>7, <1>8, <1>9, <1>10, <1>11

(* The style a context draws with is a good one.                           *)
LEMMA CurrentIsGood ==
  ASSUME StyleTypes, NEW c \in Contexts
  PROVE  Current(c) \in GoodStyles
<1> DEFINE s == styles[c]
<1>1. s \in Seq(GoodStyles) /\ s # <<>>
  BY DEF StyleTypes
<1>2. Last(s) = s[Len(s)] /\ Len(s) \in 1 .. Len(s)
  BY <1>1 DEF Last
<1> QED BY <1>1, <1>2 DEF Current

(* The style a context starts with.                                        *)
LEMMA DefaultIsGood == Default \in GoodStyles
<1>1. <<>> \in Seq(Int) /\ GoodDash(<<>>)
  BY DEF GoodDash
<1>2. Default \in Styles
  BY <1>1 DEF Default, Styles, DefaultSize, Joins, Aligns
<1> QED BY <1>1, <1>2 DEF GoodStyles, Default, Infinite

(* The setters, and text, keep the invariant.                              *)
LEMMA SettersStep ==
  ASSUME CanvasStateAssumption, StyleInv, NEW c \in Contexts,
         \/ \E n \in Numbers : SetNumber(c, n)
         \/ \E w \in Words : SetWord(c, w)
         \/ \E list \in DashLists : SetLineDash(c, list)
         \/ \E size \in FontSizes : SetFont(c, size)
         \/ \E narrow \in BOOLEAN : DrawText(c, narrow)
         \/ MeasureText(c)
  PROVE  StyleInv'
<1> DEFINE s == Current(c)
<1>1. s \in GoodStyles /\ s \in Styles
  BY CurrentIsGood DEF StyleInv, GoodStyles
<1>2. ASSUME NEW style \in GoodStyles, style.source = s.source, style.fill = s.fill, Sets(c, style)
      PROVE  StyleInv'
  BY <1>2, StyleSet DEF Sets
<1>3. ASSUME NEW n \in Numbers, SetNumber(c, n) PROVE StyleInv'
  <2>1. n \in Int
    BY DEF CanvasStateAssumption
  <2>2. /\ WidthKept(n) => [s EXCEPT !.width = n] \in GoodStyles
        /\ MiterKept(n) => [s EXCEPT !.miter = n] \in GoodStyles
        /\ AlphaKept(n) => [s EXCEPT !.alpha = n] \in GoodStyles
        /\ BlurKept(n) => [s EXCEPT !.blur = n] \in GoodStyles
    BY <1>1, <2>1, SettersStayGood
  <2>3. /\ [s EXCEPT !.width = n].source = s.source /\ [s EXCEPT !.width = n].fill = s.fill
        /\ [s EXCEPT !.miter = n].source = s.source /\ [s EXCEPT !.miter = n].fill = s.fill
        /\ [s EXCEPT !.alpha = n].source = s.source /\ [s EXCEPT !.alpha = n].fill = s.fill
        /\ [s EXCEPT !.blur = n].source = s.source /\ [s EXCEPT !.blur = n].fill = s.fill
    BY <1>1 DEF Styles
  <2> HIDE DEF s
  <2> QED BY <1>2, <1>3, <2>2, <2>3 DEF SetNumber, s
<1>4. ASSUME NEW w \in Words, SetWord(c, w) PROVE StyleInv'
  <2>1. PICK style \in GoodStyles : style.source = s.source /\ style.fill = s.fill /\ Sets(c, style)
    <3>1. CASE w \in Joins /\ Sets(c, [s EXCEPT !.join = w])
      <4>1. /\ [s EXCEPT !.join = w] \in GoodStyles
            /\ [s EXCEPT !.join = w].source = s.source /\ [s EXCEPT !.join = w].fill = s.fill
        BY <1>1, <3>1, SettersStayGood DEF Styles
      <4> QED BY <3>1, <4>1
    <3>2. CASE w \notin Joins /\ Sets(c, [s EXCEPT !.join = "miter"])
      <4>1. "miter" \in Joins
        BY DEF Joins
      <4>2. /\ [s EXCEPT !.join = "miter"] \in GoodStyles
            /\ [s EXCEPT !.join = "miter"].source = s.source
            /\ [s EXCEPT !.join = "miter"].fill = s.fill
        BY <1>1, <4>1, SettersStayGood DEF Styles
      <4> QED BY <3>2, <4>2
    <3>3. CASE w \in Aligns /\ Sets(c, [s EXCEPT !.align = w])
      <4>1. /\ [s EXCEPT !.align = w] \in GoodStyles
            /\ [s EXCEPT !.align = w].source = s.source /\ [s EXCEPT !.align = w].fill = s.fill
        BY <1>1, <3>3, SettersStayGood DEF Styles
      <4> QED BY <3>3, <4>1
    <3> QED BY <1>4, <3>1, <3>2, <3>3 DEF SetWord
  <2> QED BY <2>1, <1>2
<1>5. ASSUME NEW list \in DashLists, SetLineDash(c, list) PROVE StyleInv'
  <2>1. Dashes(list) \in Seq(Int) /\ GoodDash(Dashes(list))
    BY DashesAreGood DEF CanvasStateAssumption
  <2> DEFINE style == [s EXCEPT !.dash = Dashes(list)]
  <2>2. style \in GoodStyles
    BY <1>1, <2>1, SettersStayGood
  <2>3. style.source = s.source /\ style.fill = s.fill
    BY <1>1 DEF Styles
  <2>4. Sets(c, style)
    BY <1>5 DEF SetLineDash
  <2> HIDE DEF style, s
  <2> QED BY <2>2, <2>3, <2>4, <1>2
<1>6. ASSUME NEW size \in FontSizes, SetFont(c, size) PROVE StyleInv'
  <2> DEFINE style == [s EXCEPT !.size = size]
  <2>1. style \in GoodStyles
    BY <1>1, SettersStayGood DEF CanvasStateAssumption
  <2>2. style.source = s.source /\ style.fill = s.fill
    BY <1>1 DEF Styles
  <2>3. /\ styles' = With(c, style) /\ text' = NoText
        /\ UNCHANGED <<holds, direct, gradient, script>>
    BY <1>6 DEF SetFont
  <2> HIDE DEF style
  <2> QED BY <2>1, <2>2, <2>3, StyleSet
<1>7. ASSUME (\E narrow \in BOOLEAN : DrawText(c, narrow)) \/ MeasureText(c) PROVE StyleInv'
  <2>1. text'.laid = text'.drawn /\ UNCHANGED <<styles, holds, direct, gradient, script>>
    BY <1>7 DEF DrawText, MeasureText, Pinned
  <2> QED
    BY <2>1 DEF StyleInv, StyleTypes, HeldIsThere, FillIsHeld, TextAtItsSize, Current
<1> QED BY <1>3, <1>4, <1>5, <1>6, <1>7

(* A gradient that has another stop, or a shader of those it has.          *)
LEMMA GradientChanged ==
  ASSUME NEW x \in [there : BOOLEAN, stops : Nat, shader : BOOLEAN]
  PROVE  /\ LET y == [x EXCEPT !.stops = @ + 1, !.shader = FALSE] IN
            y \in [there : BOOLEAN, stops : Nat, shader : BOOLEAN] /\ y.there = x.there
         /\ LET y == [x EXCEPT !.shader = x.stops > 0] IN
            y \in [there : BOOLEAN, stops : Nat, shader : BOOLEAN] /\ y.there = x.there
<1>1. (x.stops > 0) \in BOOLEAN
  OBVIOUS
<1>2. \A b \in BOOLEAN : [x EXCEPT !.shader = b] \in [there : BOOLEAN, stops : Nat, shader : BOOLEAN]
  OBVIOUS
<1>3. [x EXCEPT !.shader = x.stops > 0] \in [there : BOOLEAN, stops : Nat, shader : BOOLEAN]
  BY <1>1, <1>2
<1>4. [x EXCEPT !.shader = x.stops > 0].there = x.there
  OBVIOUS
<1>6. [x EXCEPT !.stops = @ + 1, !.shader = FALSE] \in [there : BOOLEAN, stops : Nat, shader : BOOLEAN]
  <2> DEFINE y == [x EXCEPT !.stops = @ + 1]
  <2>1. y \in [there : BOOLEAN, stops : Nat, shader : BOOLEAN]
    OBVIOUS
  <2> HIDE DEF y
  <2>2. [y EXCEPT !.shader = FALSE] \in [there : BOOLEAN, stops : Nat, shader : BOOLEAN]
    BY <2>1
  <2>3. [x EXCEPT !.stops = @ + 1, !.shader = FALSE] = [y EXCEPT !.shader = FALSE]
    BY DEF y
  <2> QED BY <2>2, <2>3
<1>7. [x EXCEPT !.stops = @ + 1, !.shader = FALSE].there = x.there
  OBVIOUS
<1> QED BY <1>3, <1>4, <1>6, <1>7

(* Gradients and the stack keep the invariant.                             *)
LEMMA StyleStep ==
  ASSUME CanvasStateAssumption, StyleInv, [CanvasStateNext]_stateVars
  PROVE  StyleInv'
<1>1. /\ styles \in [Contexts -> Seq(GoodStyles)] /\ \A c \in Contexts : styles[c] # <<>>
      /\ \A c \in Contexts : Current(c) \in GoodStyles /\ Current(c) \in Styles
  BY CurrentIsGood DEF StyleInv, StyleTypes, GoodStyles
<1>t. NoText.laid = NoText.drawn
  BY DEF NoText
<1>2. ASSUME NEW g \in Gradients, NewGradient(g) PROVE StyleInv'
  <2>1. [Unused EXCEPT !.there = TRUE] \in [there : BOOLEAN, stops : Nat, shader : BOOLEAN]
    BY DEF Unused
  <2>2. [Unused EXCEPT !.there = TRUE].there
    BY DEF Unused
  <2>3. StyleTypes'
    BY <1>2, <2>1 DEF NewGradient, StyleInv, StyleTypes
  <2>4. HeldIsThere'
    BY <1>2, <2>2 DEF NewGradient, StyleInv, StyleTypes, HeldIsThere
  <2>5. FillIsHeld'
    BY <1>2 DEF NewGradient, StyleInv, FillIsHeld, Current
  <2> QED BY <1>2, <1>t, <2>3, <2>4, <2>5 DEF NewGradient, StyleInv, TextAtItsSize
<1>3. ASSUME NEW g \in Gradients, AddColorStop(g) PROVE StyleInv'
  <2>1. /\ gradient' \in [Gradients -> [there : BOOLEAN, stops : Nat, shader : BOOLEAN]]
        /\ \A h \in Gradients : gradient'[h].there = gradient[h].there
    <3> DEFINE q == [gradient[g] EXCEPT !.stops = @ + 1, !.shader = FALSE]
    <3>1. /\ gradient \in [Gradients -> [there : BOOLEAN, stops : Nat, shader : BOOLEAN]]
          /\ gradient[g] \in [there : BOOLEAN, stops : Nat, shader : BOOLEAN]
      BY DEF StyleInv, StyleTypes
    <3>2. q \in [there : BOOLEAN, stops : Nat, shader : BOOLEAN] /\ q.there = gradient[g].there
      BY <3>1, GradientChanged
    <3>3. gradient' = [gradient EXCEPT ![g] = q]
      BY <1>3, <3>1 DEF AddColorStop
    <3> HIDE DEF q
    <3> QED BY <3>1, <3>2, <3>3
  <2> QED
    BY <1>3, <1>t, <2>1
      DEF AddColorStop, StyleInv, StyleTypes, HeldIsThere, FillIsHeld, Current, TextAtItsSize
<1>4. ASSUME NEW c \in Contexts, NEW g \in Gradients, SetFillGradient(c, g) PROVE StyleInv'
  <2> DEFINE style == [Current(c) EXCEPT !.source = "gradient", !.fill = g]
  <2>1. style \in GoodStyles
    BY <1>1, SettersStayGood
  <2>2. style.source = "gradient" /\ style.fill = g
    BY <1>1 DEF Styles
  <2>3. styles' = With(c, style)
    BY <1>4 DEF SetFillGradient
  <2> HIDE DEF style
  <2>4. /\ styles' \in [Contexts -> Seq(GoodStyles)] /\ \A b \in Contexts : styles'[b] # <<>>
        /\ Last(styles'[c]) = style /\ \A b \in Contexts \ {c} : styles'[b] = styles[b]
    BY <2>1, <2>3, StackSet DEF StyleInv
  <2>5. /\ gradient' \in [Gradients -> [there : BOOLEAN, stops : Nat, shader : BOOLEAN]]
        /\ \A h \in Gradients : gradient'[h].there = gradient[h].there
    <3>1. /\ gradient \in [Gradients -> [there : BOOLEAN, stops : Nat, shader : BOOLEAN]]
          /\ gradient[g] \in [there : BOOLEAN, stops : Nat, shader : BOOLEAN]
      BY DEF StyleInv, StyleTypes
    <3> DEFINE q == [gradient[g] EXCEPT !.shader = gradient[g].stops > 0]
    <3>4. q \in [there : BOOLEAN, stops : Nat, shader : BOOLEAN] /\ q.there = gradient[g].there
      BY <3>1, GradientChanged
    <3>5. gradient' = [gradient EXCEPT ![g] = q]
      BY <1>4, <3>1 DEF SetFillGradient
    <3> HIDE DEF q
    <3> QED BY <3>1, <3>4, <3>5
  <2>6. holds' = [holds EXCEPT ![c] = g] /\ direct' = [direct EXCEPT ![c] = TRUE] /\ g # NoGradient
    BY <1>4 DEF SetFillGradient, CanvasStateAssumption
  <2>7. StyleTypes'
    BY <1>4, <2>4, <2>5, <2>6 DEF SetFillGradient, StyleInv, StyleTypes
  <2>8. HeldIsThere'
    BY <1>4, <2>5, <2>6 DEF SetFillGradient, StyleInv, StyleTypes, HeldIsThere
  <2>9. FillIsHeld'
    BY <2>2, <2>4, <2>6 DEF StyleInv, StyleTypes, FillIsHeld, Current
  <2> QED BY <1>4, <1>t, <2>7, <2>8, <2>9 DEF SetFillGradient, StyleInv, TextAtItsSize
<1>5. ASSUME NEW c \in Contexts, NEW n \in Numbers, SetFillColour(c, n) PROVE StyleInv'
  <2> DEFINE style == Coloured(Current(c), n)
  <2>1. style \in GoodStyles
    BY <1>1, SettersStayGood DEF CanvasStateAssumption
  <2>2. style.source = "rgba"
    BY <1>1 DEF Styles, Coloured
  <2>3. styles' = With(c, style)
    BY <1>5 DEF SetFillColour
  <2> HIDE DEF style
  <2>4. /\ styles' \in [Contexts -> Seq(GoodStyles)] /\ \A b \in Contexts : styles'[b] # <<>>
        /\ Last(styles'[c]) = style /\ \A b \in Contexts \ {c} : styles'[b] = styles[b]
    BY <2>1, <2>3, StackSet DEF StyleInv
  <2>6. /\ holds' = [holds EXCEPT ![c] = NoGradient] /\ direct' = [direct EXCEPT ![c] = TRUE]
        /\ UNCHANGED <<gradient, script>> /\ text' = NoText
    BY <1>5 DEF SetFillColour
  <2>7. StyleTypes'
    BY <2>4, <2>6 DEF StyleInv, StyleTypes
  <2>8. HeldIsThere'
    BY <2>6 DEF StyleInv, StyleTypes, HeldIsThere
  <2>9. FillIsHeld'
    BY <2>2, <2>4, <2>6 DEF StyleInv, StyleTypes, FillIsHeld, Current
  <2> QED BY <1>t, <2>6, <2>7, <2>8, <2>9 DEF StyleInv, TextAtItsSize
<1>6. ASSUME NEW g \in Gradients, Drop(g) PROVE StyleInv'
  BY <1>6, <1>t DEF Drop, StyleInv, StyleTypes, HeldIsThere, FillIsHeld, Current, TextAtItsSize
<1>7. ASSUME NEW g \in Gradients, CollectGradient(g) PROVE StyleInv'
  <2>1. Unused \in [there : BOOLEAN, stops : Nat, shader : BOOLEAN]
    BY DEF Unused
  <2>2. StyleTypes'
    BY <1>7, <2>1 DEF CollectGradient, StyleInv, StyleTypes
  <2>3. g \notin script /\ \A c \in Contexts : holds[c] # g
    BY <1>7 DEF CollectGradient, KeptGradients
  <2>4. \A h \in Gradients \ {g} : gradient'[h] = gradient[h]
    BY <1>7 DEF CollectGradient, StyleInv, StyleTypes
  <2>5. HeldIsThere'
    BY <1>7, <2>3, <2>4 DEF CollectGradient, StyleInv, StyleTypes, HeldIsThere
  <2> QED
    BY <1>7, <1>t, <2>2, <2>5 DEF CollectGradient, StyleInv, FillIsHeld, Current, TextAtItsSize
<1>8. ASSUME NEW c \in Contexts, SaveStyle(c) PROVE StyleInv'
  <2> DEFINE s == styles[c]
             t == Append(s, Last(s))
  <2>1. s \in Seq(GoodStyles) /\ s # <<>> /\ Last(s) \in GoodStyles
    BY <1>1 DEF Current
  <2>2. t \in Seq(GoodStyles) /\ t # <<>> /\ Last(t) = Last(s)
    <3> HIDE DEF s
    <3> QED BY <2>1, StackOfStyles
  <2>3. styles' = [styles EXCEPT ![c] = t]
    BY <1>8 DEF SaveStyle
  <2> HIDE DEF t
  <2>4. styles'[c] = t /\ \A b \in Contexts \ {c} : styles'[b] = styles[b]
    BY <1>1, <2>3
  <2>5. \A b \in Contexts : Current(b)' = Current(b)
    BY <2>2, <2>4 DEF Current
  <2>6. UNCHANGED <<holds, direct, gradient, script>> /\ text' = NoText
    BY <1>8 DEF SaveStyle
  <2>7. StyleTypes'
    BY <1>1, <2>2, <2>3, <2>4, <2>6 DEF StyleInv, StyleTypes
  <2> QED BY <1>t, <2>5, <2>6, <2>7 DEF StyleInv, HeldIsThere, FillIsHeld, TextAtItsSize
<1>9. ASSUME NEW c \in Contexts, RestoreStyle(c) \/ Reset(c) PROVE StyleInv'
  <2>1. PICK t \in Seq(GoodStyles) : t # <<>> /\ styles' = [styles EXCEPT ![c] = t]
    <3>1. CASE Reset(c)
      <4>1. <<Default>> \in Seq(GoodStyles) /\ <<Default>> # <<>>
        BY DefaultIsGood
      <4> QED BY <3>1, <4>1 DEF Reset
    <3>2. CASE RestoreStyle(c)
      <4> DEFINE s == styles[c]
      <4>1. s \in Seq(GoodStyles) /\ s # <<>> /\ Len(s) > 1 /\ Last(s) \in GoodStyles
        BY <1>1, <3>2 DEF RestoreStyle, Current
      <4>2. Front(s) \in Seq(GoodStyles) /\ Len(Front(s)) = Len(s) - 1
        <5> HIDE DEF s
        <5> QED BY <4>1, StackOfStyles
      <4>3. Front(s) # <<>>
        <5> HIDE DEF s
        <5> QED BY <4>1, <4>2
      <4>4. styles' = [styles EXCEPT ![c] = Front(s)]
        BY <3>2 DEF RestoreStyle
      <4> HIDE DEF s
      <4> QED BY <4>2, <4>3, <4>4
    <3> QED BY <1>9, <3>1, <3>2
  <2>2. /\ direct' = [direct EXCEPT ![c] = FALSE] /\ text' = NoText
        /\ UNCHANGED <<holds, gradient, script>>
    BY <1>9 DEF RestoreStyle, Reset
  <2>3. styles'[c] = t /\ \A b \in Contexts \ {c} : styles'[b] = styles[b]
    BY <1>1, <2>1
  <2>4. ~direct'[c] /\ \A b \in Contexts \ {c} : direct'[b] = direct[b]
    BY <2>2 DEF StyleInv, StyleTypes
  <2>5. StyleTypes'
    BY <1>1, <2>1, <2>2, <2>3 DEF StyleInv, StyleTypes
  <2>6. FillIsHeld'
    BY <2>2, <2>3, <2>4 DEF StyleInv, FillIsHeld, Current
  <2> QED BY <1>t, <2>2, <2>5, <2>6 DEF StyleInv, HeldIsThere, TextAtItsSize
<1>10. ASSUME UNCHANGED stateVars PROVE StyleInv'
  BY <1>10 DEF stateVars, StyleInv, StyleTypes, HeldIsThere, FillIsHeld, Current, TextAtItsSize
<1> QED
  BY <1>2, <1>3, <1>4, <1>5, <1>6, <1>7, <1>8, <1>9, <1>10, SettersStep DEF CanvasStateNext

(* StyleDrawsAsSet: whatever is set, saved and restored, every style on    *)
(* the stacks is one Skia draws with, but for the sign of dashes; text is  *)
(* laid out at the size it is drawn at; and a fill that was set is the one *)
(* read back until a restore or a new size (canvas.cc).                    *)
THEOREM StylesStayAsSet ==
  ASSUME CanvasStateAssumption
  PROVE  CanvasStateSpec => []StyleDrawsAsSet
<1>1. CanvasStateInit => StyleInv
  <2> SUFFICES ASSUME CanvasStateInit PROVE StyleInv
    OBVIOUS
  <2>1. <<Default>> \in Seq(GoodStyles) /\ <<Default>> # <<>> /\ Last(<<Default>>) = Default
    BY DefaultIsGood DEF Last
  <2>2. Unused \in [there : BOOLEAN, stops : Nat, shader : BOOLEAN]
    BY DEF Unused
  <2>3. Default.source = "rgba"
    BY DEF Default
  <2>4. StyleTypes
    BY <2>1, <2>2 DEF CanvasStateInit, StyleTypes
  <2>5. FillIsHeld
    BY <2>1, <2>3 DEF CanvasStateInit, FillIsHeld, Current
  <2> QED BY <2>4, <2>5 DEF CanvasStateInit, StyleInv, HeldIsThere, TextAtItsSize, NoText
<1>2. StyleInv => StyleDrawsAsSet
  <2> SUFFICES ASSUME StyleInv PROVE StyleDrawsAsSet
    OBVIOUS
  <2>1. StateStaysValid
    <3> SUFFICES ASSUME NEW c \in Contexts, NEW i \in DOMAIN styles[c]
                 PROVE  LET style == styles[c][i] IN
        /\ style.width > 0 /\ style.width # Infinite /\ style.miter > 0
        /\ style.alpha \in 0 .. 100 /\ style.blur >= 0
        /\ style.join \in Joins /\ style.align \in Aligns
        /\ style.dash # <<>> => /\ Len(style.dash) % 2 = 0
                                /\ \E j \in DOMAIN style.dash : style.dash[j] # 0
      BY DEF StateStaysValid
    <3>1. styles[c] \in Seq(GoodStyles)
      BY DEF StyleInv, StyleTypes
    <3>2. styles[c][i] \in GoodStyles
      BY <3>1
    <3>3. \A d \in Seq(Int) : DOMAIN d = 1 .. Len(d)
      OBVIOUS
    <3> QED BY <3>2, <3>3 DEF GoodStyles, Styles, GoodDash
  <2>2. FillReadsBack
    BY DEF StyleInv, StyleTypes, HeldIsThere, FillIsHeld, FillReadsBack
  <2> QED BY <2>1, <2>2 DEF StyleInv, StyleDrawsAsSet
<1>3. StyleInv /\ [CanvasStateNext]_stateVars => StyleInv'
  BY StyleStep
<1> QED BY <1>1, <1>2, <1>3, PTL DEF CanvasStateSpec

-----------------------------------------------------------------------------
(***************************************************************************)
(* Images and the copies made of them (CanvasImages).                      *)
(***************************************************************************)
Pictures == [of : Nat, whole : BOOLEAN]
ImageTypes ==
  /\ kind \in Kinds /\ version \in Nat
  /\ tasks \subseteq [version : Nat, at : {"queued", "decoding", "decoded", "failed"}]
  /\ image \in [size : Nat, data : Pictures, memo : Pictures, surface : Pictures,
                surfaceSize : Nat, dirty : BOOLEAN]

(* A copy in memory is of the pixels there are; what is on the GPU is too, *)
(* or is marked.                                                           *)
CopiesFresh ==
  kind # "image" =>
    /\ image.memo # Nothing => image.memo = image.data
    /\ image.surfaceSize > 0 /\ ~image.dirty => image.surface = image.data
    /\ image.size = 0 => image.surfaceSize = 0 /\ image.memo = Nothing
    /\ kind # "video" => image.surfaceSize = 0

(* A bitmap is decoded once, and given to the script when it is.           *)
DecodeOf(t) ==
  /\ t.version = 1 /\ loaded = 0
  /\ t.at \in {"decoding", "decoded"} => image.size = 1
  /\ t.at = "decoded" => image.data = Whole(1)
BitmapOnce ==
  kind = "bitmap" =>
    /\ loaded \in Nat
    /\ version = 0 => tasks = {} /\ loaded = 0
    /\ tasks # {} => \E t \in tasks : tasks = {t} /\ DecodeOf(t)
    /\ loaded = 0 => image.memo = Nothing
    /\ loaded > 0 => tasks = {} /\ (image.data = Nothing \/ image.data.of = image.size)
NotDecoded == kind \in {"video", "sensor"} => tasks = {}

ImageInv == ImageTypes /\ CopiesFresh /\ BitmapOnce /\ NotDecoded /\ DrawsCurrentPixels

(* What the operations on an image leave of it.                            *)
LEMMA ImageFields ==
  ASSUME ImageTypes
  PROVE  /\ image.size \in Nat /\ image.data \in Pictures /\ image.memo \in Pictures
         /\ image.surface \in Pictures /\ image.surfaceSize \in Nat /\ image.dirty \in BOOLEAN
         /\ Nothing \in Pictures
         /\ \A v \in Nat : Whole(v) \in Pictures /\ Half(v) \in Pictures /\ Whole(v) # Nothing
BY DEF ImageTypes, Pictures, Nothing, Whole, Half

ImageRecords == [size : Nat, data : Pictures, memo : Pictures, surface : Pictures,
                 surfaceSize : Nat, dirty : BOOLEAN]

(* Dropping the raster copy of an image keeps its pixels.                  *)
LEMMA CacheReleased ==
  ASSUME NEW i \in ImageRecords
  PROVE  LET f == ReleasedCache(i) IN
         /\ f \in ImageRecords /\ f.memo = Nothing /\ f.dirty /\ f.data = i.data
         /\ f.size = i.size /\ f.surfaceSize = i.surfaceSize /\ f.surface = i.surface
BY DEF ReleasedCache, ImageRecords, Nothing, Pictures

(* Dropping the GPU's copy of an image keeps its pixels.                   *)
LEMMA GpuReleased ==
  ASSUME NEW i \in ImageRecords
  PROVE  LET f == ReleasedGpu(i) IN
         /\ f \in ImageRecords /\ f.surfaceSize = 0 /\ f.memo = i.memo /\ f.data = i.data
         /\ f.size = i.size /\ f.dirty = i.dirty
BY DEF ReleasedGpu, ImageRecords, Nothing, Pictures

(* An emptied image has no pixels and no copies.                           *)
LEMMA ImageEmptied ==
  ASSUME NEW i \in ImageRecords
  PROVE  LET f == Emptied(i) IN
         /\ f \in ImageRecords /\ f.surfaceSize = 0 /\ f.memo = Nothing
         /\ f.data = Nothing /\ f.size = 0
<1>1. ReleasedGpu(ReleasedCache(i)) \in ImageRecords
      /\ ReleasedGpu(ReleasedCache(i)).surfaceSize = 0 /\ ReleasedGpu(ReleasedCache(i)).memo = Nothing
  BY CacheReleased, GpuReleased
<1>2. QED BY <1>1 DEF Emptied, ImageRecords, Nothing, Pictures

(* An uploaded image has its own pixels on the GPU.                        *)
LEMMA ImageUploaded ==
  ASSUME NEW i \in ImageRecords, i.surfaceSize > 0 /\ ~i.dirty => i.surface = i.data
  PROVE  LET u == Uploaded(Surfaced(i)) IN
         /\ u \in ImageRecords /\ u.surface = i.data /\ u.surfaceSize = i.size
         /\ u.memo = i.memo /\ u.data = i.data /\ u.size = i.size
<1> DEFINE s == Surfaced(i)
<1>1. /\ s \in ImageRecords /\ s.memo = i.memo /\ s.data = i.data /\ s.size = i.size
      /\ s.dirty = i.dirty /\ s.surfaceSize \in {0, s.size}
      /\ s.surfaceSize > 0 /\ ~s.dirty => s.surface = s.data
  <2>1. CASE i.surfaceSize = i.size
    BY <2>1 DEF Surfaced
  <2>2. CASE i.surfaceSize # i.size
    <3>1. s = ReleasedGpu(i)
      BY <2>2 DEF Surfaced
    <3>2. QED BY <3>1, GpuReleased
  <2>3. QED BY <2>1, <2>2
<1>2. Uploaded(s) = IF s.dirty \/ s.surfaceSize = 0
                    THEN [s EXCEPT !.surface = s.data, !.surfaceSize = s.size, !.dirty = FALSE]
                    ELSE s
  BY DEF Uploaded
<1> HIDE DEF s
<1>3. CASE s.dirty \/ s.surfaceSize = 0
  <2>1. Uploaded(s) = [s EXCEPT !.surface = s.data, !.surfaceSize = s.size, !.dirty = FALSE]
    BY <1>2, <1>3
  <2>2. /\ Uploaded(s) \in ImageRecords /\ Uploaded(s).surface = s.data
        /\ Uploaded(s).surfaceSize = s.size
        /\ Uploaded(s).memo = s.memo /\ Uploaded(s).data = s.data /\ Uploaded(s).size = s.size
    BY <2>1, <1>1 DEF ImageRecords
  <2>3. QED BY <2>2, <1>1 DEF s
<1>4. CASE ~(s.dirty \/ s.surfaceSize = 0)
  <2>1. Uploaded(s) = s /\ s.surfaceSize \in Nat
    BY <1>1, <1>2, <1>4 DEF ImageRecords
  <2>2. s.surface = s.data /\ s.surfaceSize = s.size
    BY <1>1, <1>4, <2>1
  <2>3. QED BY <2>1, <2>2, <1>1 DEF s
<1>5. QED BY <1>3, <1>4

(* Decoding.                                                               *)
LEMMA DecodingKeeps ==
  ASSUME ImageInv, \/ ImageDecode
                   \/ \E t \in tasks : DecodeBegins(t) \/ DecodeEnds(t) \/ Decoded(t)
  PROVE  ImageInv'
<1>1. ImageTypes /\ CopiesFresh /\ BitmapOnce /\ NotDecoded /\ image \in ImageRecords
  BY DEF ImageInv, ImageTypes, ImageRecords
<1>2. CASE ImageDecode
  <2>1. /\ kind \in {"image", "bitmap"} /\ version' = version + 1 /\ UNCHANGED <<kind, image, loaded>>
        /\ tasks' = tasks \cup {[version |-> version + 1, at |-> "queued"]}
        /\ kind = "bitmap" => version = 0 /\ shown' = NotShown
        /\ shown' = NotShown
    BY <1>2 DEF ImageDecode, NextVersion
  <2>2. ImageTypes' /\ CopiesFresh' /\ NotDecoded' /\ DrawsCurrentPixels'
    BY <1>1, <2>1 DEF ImageTypes, CopiesFresh, NotDecoded, DrawsCurrentPixels, NotShown
  <2>3. BitmapOnce'
    <3>1. SUFFICES ASSUME kind = "bitmap" PROVE BitmapOnce'
      BY <2>1 DEF BitmapOnce
    <3>2. version = 0 /\ tasks = {} /\ loaded = 0 /\ image.memo = Nothing
      BY <1>1, <2>1, <3>1 DEF BitmapOnce
    <3>3. tasks' = {[version |-> 1, at |-> "queued"]}
      BY <2>1, <3>2
    <3>4. QED BY <2>1, <3>2, <3>3 DEF BitmapOnce, DecodeOf
  <2>4. QED BY <2>2, <2>3 DEF ImageInv
<1>3. ASSUME NEW t \in tasks, DecodeBegins(t) \/ DecodeEnds(t) \/ Decoded(t)
      PROVE  ImageInv'
  <2>1. kind \in {"image", "bitmap"}
    BY <1>1, <1>3 DEF NotDecoded, ImageTypes, Kinds
  <2>2. /\ t \in [version : Nat, at : {"queued", "decoding", "decoded", "failed"}]
        /\ UNCHANGED <<kind, version>> /\ shown' = NotShown
    BY <1>1, <1>3 DEF DecodeBegins, DecodeEnds, Decoded, ImageTypes
  <2>3. NotDecoded' /\ DrawsCurrentPixels'
    BY <2>1, <2>2 DEF NotDecoded, DrawsCurrentPixels, NotShown
  <2>4. ImageTypes' /\ image'.memo = image.memo /\ image'.surfaceSize = image.surfaceSize
        /\ image'.dirty = image.dirty /\ image'.surface = image.surface
    <3>1. /\ tasks' \subseteq [version : Nat, at : {"queued", "decoding", "decoded", "failed"}]
          /\ t.version \in Nat
      <4>1. \A w \in {"queued", "decoding", "decoded", "failed"} :
              At(t, w) \subseteq [version : Nat, at : {"queued", "decoding", "decoded", "failed"}]
        BY <1>1, <2>2 DEF At, ImageTypes
      <4>2. QED BY <1>1, <1>3, <2>2, <4>1 DEF DecodeBegins, DecodeEnds, Decoded, ImageTypes
    <3>2. \E n \in Nat, d \in Pictures : image' = [image EXCEPT !.size = n, !.data = d]
      <4>1. CASE image' = image
        <5>1. image = [image EXCEPT !.size = image.size, !.data = image.data]
          BY <1>1 DEF ImageRecords
        <5>2. QED BY <1>1, <4>1, <5>1, ImageFields
      <4>2. CASE DecodeBegins(t) /\ image' # image
        <5>1. PICK jpeg \in BOOLEAN : image' = [image EXCEPT !.size = t.version,
                                 !.data = IF jpeg THEN Half(t.version) ELSE @]
          BY <4>2 DEF DecodeBegins
        <5>2. (IF jpeg THEN Half(t.version) ELSE image.data) \in Pictures
          BY <1>1, <3>1, ImageFields
        <5>3. QED BY <3>1, <5>1, <5>2
      <4>3. CASE DecodeEnds(t)
        <5>1. \E d \in Pictures : image' = [image EXCEPT !.data = d]
          BY <1>1, <3>1, <4>3, ImageFields DEF DecodeEnds
        <5>2. \A d \in Pictures : [image EXCEPT !.data = d] = [image EXCEPT !.size = image.size, !.data = d]
          BY <1>1 DEF ImageRecords
        <5>3. QED BY <1>1, <5>1, <5>2, ImageFields
      <4>4. CASE Decoded(t) BY <4>1, <4>4 DEF Decoded
      <4>5. QED BY <1>3, <4>1, <4>2, <4>3, <4>4
    <3>3. PICK n \in Nat, d \in Pictures : image' = [image EXCEPT !.size = n, !.data = d]
      BY <3>2
    <3>4. QED BY <1>1, <2>2, <3>1, <3>3 DEF ImageTypes, ImageRecords
  <2>5. ASSUME kind = "bitmap" PROVE CopiesFresh' /\ BitmapOnce'
    <3>1. /\ tasks = {t} /\ DecodeOf(t) /\ loaded = 0 /\ image.memo = Nothing
          /\ version # 0
      BY <1>1, <1>3, <2>5 DEF BitmapOnce, DecodeOf
    <3>2. image.surfaceSize = 0
      BY <1>1, <2>5 DEF CopiesFresh
    <3>3. CopiesFresh'
      BY <2>2, <2>4, <2>5, <3>1, <3>2 DEF CopiesFresh
    <3>4. ASSUME NEW w \in {"queued", "decoding", "decoded", "failed"}, tasks' = At(t, w)
          PROVE  \E u \in tasks' : tasks' = {u} /\ u.version = 1 /\ u.at = w
      <4>1. tasks' = {[t EXCEPT !.at = w]}
        BY <3>1, <3>4 DEF At
      <4>2. [t EXCEPT !.at = w].version = 1 /\ [t EXCEPT !.at = w].at = w
        BY <2>2, <3>1 DEF DecodeOf
      <4>3. QED BY <4>1, <4>2
    <3>5. CASE DecodeBegins(t)
      <4>1. \/ tasks' = At(t, "decoding") /\ image'.size = t.version
            \/ tasks' = At(t, "failed")
        BY <1>1, <3>5 DEF DecodeBegins, ImageRecords
      <4>2. t.version = 1 /\ loaded' = loaded
        BY <3>1, <3>5 DEF DecodeOf, DecodeBegins
      <4>3. \E u \in tasks' : tasks' = {u} /\ DecodeOf(u)'
        <5>1. CASE tasks' = At(t, "decoding") /\ image'.size = t.version
          BY <3>1, <3>4, <4>2, <5>1 DEF DecodeOf
        <5>2. CASE tasks' = At(t, "failed")
          BY <3>1, <3>4, <4>2, <5>2 DEF DecodeOf
        <5>3. QED BY <4>1, <5>1, <5>2
      <4>4. QED BY <2>2, <2>4, <3>1, <3>3, <4>2, <4>3 DEF BitmapOnce, DecodeOf
    <3>6. CASE DecodeEnds(t)
      <4>1. \/ tasks' = At(t, "decoded") /\ image'.data = Whole(t.version) /\ image'.size = image.size
            \/ tasks' = At(t, "failed")
        BY <1>1, <3>6 DEF DecodeEnds, ImageRecords
      <4>2. t.version = 1 /\ loaded' = loaded /\ image.size = 1
        BY <3>1, <3>6 DEF DecodeOf, DecodeEnds
      <4>3. \E u \in tasks' : tasks' = {u} /\ DecodeOf(u)'
        <5>1. CASE tasks' = At(t, "decoded") /\ image'.data = Whole(t.version) /\ image'.size = image.size
          BY <3>1, <3>4, <4>2, <5>1 DEF DecodeOf
        <5>2. CASE tasks' = At(t, "failed")
          BY <3>1, <3>4, <4>2, <5>2 DEF DecodeOf
        <5>3. QED BY <4>1, <5>1, <5>2
      <4>4. QED BY <2>2, <2>4, <3>1, <3>3, <4>2, <4>3 DEF BitmapOnce, DecodeOf
    <3>7. CASE Decoded(t)
      <4>1. tasks' = {} /\ UNCHANGED image /\ loaded' = IF t.at = "decoded" THEN 1 ELSE 0
        BY <3>1, <3>7 DEF Decoded, DecodeOf
      <4>2. t.at = "decoded" => image.size = 1 /\ image.data.of = 1
        BY <3>1 DEF DecodeOf, Whole
      <4>3. version' # 0 /\ image'.memo = Nothing
        BY <2>2, <2>4, <3>1
      <4>4. CASE t.at = "decoded"
        BY <3>3, <4>1, <4>2, <4>3, <4>4 DEF BitmapOnce
      <4>5. CASE t.at # "decoded"
        BY <3>3, <4>1, <4>3, <4>5 DEF BitmapOnce
      <4>6. QED BY <4>4, <4>5
    <3>8. QED BY <1>3, <3>3, <3>5, <3>6, <3>7
  <2>6. ASSUME kind = "image" PROVE CopiesFresh' /\ BitmapOnce'
    BY <2>2, <2>6 DEF CopiesFresh, BitmapOnce
  <2>7. QED BY <2>1, <2>3, <2>4, <2>5, <2>6 DEF ImageInv
<1>4. QED BY <1>2, <1>3

(* The pixels are replaced, or given up.                                   *)
LEMMA PixelsKeep ==
  ASSUME ImageInv, ImageClose \/ VideoOpens \/ VideoTick \/ ResetMedia \/ SensorUpdate
  PROVE  ImageInv'
<1>1. ImageTypes /\ CopiesFresh /\ BitmapOnce /\ NotDecoded /\ image \in ImageRecords
  BY DEF ImageInv, ImageTypes, ImageRecords
<1>2. /\ UNCHANGED <<kind, tasks, loaded>> /\ version' \in Nat
      /\ shown' = NotShown /\ kind # "image"
      /\ kind = "bitmap" => ImageClose /\ version' = version
  BY <1>1 DEF ImageClose, VideoOpens, VideoTick, ResetMedia, SensorUpdate, NextVersion, ImageTypes
<1>3. NotDecoded' /\ DrawsCurrentPixels'
  BY <1>1, <1>2 DEF NotDecoded, DrawsCurrentPixels, NotShown
<1>4. SUFFICES image' \in ImageRecords /\ CopiesFresh' /\ BitmapOnce'
  BY <1>1, <1>2, <1>3 DEF ImageInv, ImageTypes, ImageRecords
<1>5. CASE ImageClose \/ ResetMedia
  <2>1. image' = Emptied(image)
    BY <1>5 DEF ImageClose, ResetMedia
  <2>2. /\ image' \in ImageRecords /\ image'.surfaceSize = 0 /\ image'.memo = Nothing
        /\ image'.data = Nothing /\ image'.size = 0
    BY <1>1, <2>1, ImageEmptied
  <2>3. CopiesFresh'
    BY <1>2, <2>2 DEF CopiesFresh
  <2>4. BitmapOnce'
    <3>1. SUFFICES ASSUME kind = "bitmap" PROVE BitmapOnce'
      BY <1>2 DEF BitmapOnce
    <3>2. loaded > 0 /\ loaded \in Nat /\ tasks = {} /\ version # 0 /\ version' = version
      BY <1>1, <1>2, <3>1 DEF BitmapOnce, ImageClose
    <3>3. QED BY <1>2, <2>2, <3>2 DEF BitmapOnce
  <2>5. QED BY <2>2, <2>3, <2>4
<1>6. CASE VideoOpens
  <2>1. /\ kind = "video" /\ image.size = 0 /\ version + 1 \in Nat
        /\ image' = [image EXCEPT !.size = version + 1, !.data = Whole(version + 1)]
    BY <1>1, <1>6 DEF VideoOpens, ImageTypes
  <2>2. /\ image' \in ImageRecords /\ image'.surfaceSize = image.surfaceSize /\ image'.size = version + 1
        /\ image'.memo = image.memo
    BY <1>1, <2>1, ImageFields DEF ImageRecords
  <2>3. image.surfaceSize = 0 /\ image.memo = Nothing
    BY <1>1, <2>1 DEF CopiesFresh
  <2>4. CopiesFresh'
    BY <1>1, <1>2, <2>1, <2>2, <2>3 DEF CopiesFresh
  <2>5. BitmapOnce'
    BY <1>2, <2>1 DEF BitmapOnce
  <2>6. QED BY <2>2, <2>4, <2>5
<1>7. CASE VideoTick \/ SensorUpdate
  <2>1. PICK n \in Nat, d \in Pictures : image' = ReleasedCache([image EXCEPT !.data = d, !.size = n])
                                         /\ n > 0
    <3>1. CASE VideoTick
      <4>1. image.size \in Nat /\ image.size > 0
        BY <1>1, <3>1 DEF VideoTick, ImageRecords
      <4>2. [image EXCEPT !.data = Whole(version + 1)]
              = [image EXCEPT !.data = Whole(version + 1), !.size = image.size]
        BY <1>1 DEF ImageRecords
      <4>3. Whole(version + 1) \in Pictures
        BY <1>1, ImageFields DEF ImageTypes
      <4>4. QED BY <3>1, <4>1, <4>2, <4>3 DEF VideoTick
    <3>2. CASE SensorUpdate
      <4>1. Whole(version + 1) \in Pictures
        BY <1>1, ImageFields DEF ImageTypes
      <4>2. /\ 1 \in Nat /\ 1 > 0
            /\ image' = ReleasedCache([image EXCEPT !.data = Whole(version + 1), !.size = 1])
        BY <3>2 DEF SensorUpdate
      <4>3. QED BY <4>1, <4>2
    <3>3. QED BY <1>7, <3>1, <3>2
  <2>2. [image EXCEPT !.data = d, !.size = n] \in ImageRecords
    BY <1>1 DEF ImageRecords
  <2>3. /\ image' \in ImageRecords /\ image'.memo = Nothing /\ image'.dirty
        /\ image'.size = n /\ image'.surfaceSize = image.surfaceSize
    BY <1>1, <2>1, <2>2, CacheReleased DEF ImageRecords
  <2>4. kind # "bitmap"
    BY <1>7 DEF VideoTick, SensorUpdate
  <2>5. QED BY <1>1, <1>2, <2>1, <2>3, <2>4 DEF CopiesFresh, BitmapOnce
<1>8. QED BY <1>5, <1>6, <1>7

(* drawImage.                                                              *)
LEMMA DrawKeeps ==
  ASSUME ImageInv, DrawImage
  PROVE  ImageInv'
<1>1. ImageTypes /\ CopiesFresh /\ BitmapOnce /\ NotDecoded /\ image \in ImageRecords
  BY DEF ImageInv, ImageTypes, ImageRecords
<1>2. /\ UNCHANGED <<kind, tasks, loaded, version>> /\ image.size > 0 /\ image.data # Nothing
      /\ kind = "bitmap" => loaded > 0
  BY DEF DrawImage, Draws
<1>3. ASSUME NEW i \in ImageRecords, NEW p, Draws(i, p),
             kind # "image" =>
               /\ p = image.data /\ i.data = image.data /\ i.size = image.size
               /\ i.memo # Nothing => i.memo = i.data
               /\ i.surfaceSize > 0 /\ ~i.dirty => i.surface = i.data
               /\ kind # "video" => i.surfaceSize = 0
      PROVE  ImageInv'
  <2>1. image' = i /\ shown' = [picture |-> p, wanted |-> image.data]
    BY <1>3 DEF Draws
  <2>2. ImageTypes' /\ NotDecoded'
    BY <1>1, <1>2, <2>1 DEF ImageTypes, NotDecoded, ImageRecords
  <2>3. CopiesFresh'
    BY <1>1, <1>2, <1>3, <2>1 DEF CopiesFresh
  <2>4. BitmapOnce'
    BY <1>1, <1>2, <1>3, <2>1 DEF BitmapOnce
  <2>5. DrawsCurrentPixels'
    BY <1>2, <1>3, <2>1 DEF DrawsCurrentPixels
  <2>6. QED BY <2>2, <2>3, <2>4, <2>5 DEF ImageInv
<1>4. CASE kind = "video" /\ LET i == Uploaded(Surfaced(image)) IN Draws(i, i.surface)
  <2> DEFINE i == Uploaded(Surfaced(image))
  <2>1. image.surfaceSize > 0 /\ ~image.dirty => image.surface = image.data
    BY <1>1, <1>4 DEF CopiesFresh
  <2>2. /\ i \in ImageRecords /\ i.surface = image.data /\ i.surfaceSize = image.size
        /\ i.memo = image.memo /\ i.data = image.data /\ i.size = image.size
    BY <1>1, <2>1, ImageUploaded
  <2>3. Draws(i, i.surface)
    BY <1>4
  <2>4. i.memo # Nothing => i.memo = i.data
    BY <1>1, <1>4, <2>2 DEF CopiesFresh
  <2> HIDE DEF i
  <2>5. QED BY <1>3, <1>4, <2>2, <2>3, <2>4
<1>5. CASE LET i == Memoized(image) IN Draws(i, i.memo)
  <2> DEFINE i == Memoized(image)
  <2>1. Draws(i, i.memo)
    BY <1>5
  <2>2. Copied(image) \in Pictures
    <3>1. Half(image.data.of) \in Pictures
      BY <1>1 DEF ImageRecords, Half, Pictures
    <3>2. QED BY <1>1, <3>1, ImageFields DEF Copied
  <2>3. /\ i \in ImageRecords /\ i.data = image.data /\ i.size = image.size /\ i.dirty = image.dirty
        /\ i.surface = image.surface /\ i.surfaceSize = image.surfaceSize
        /\ image.memo = Nothing => i.memo = Copied(image)
        /\ image.memo # Nothing => i.memo = image.memo
    BY <1>1, <2>2 DEF Memoized, ImageRecords
  <2>4. kind # "image" => Copied(image) = image.data
    BY <1>1, <1>2 DEF BitmapOnce, Copied, ImageTypes, Kinds
  <2>5. kind # "image" => i.memo = image.data
    BY <1>1, <2>3, <2>4 DEF CopiesFresh
  <2> HIDE DEF i
  <2>6. QED BY <1>1, <1>3, <2>1, <2>3, <2>5 DEF CopiesFresh
<1>6. CASE shown' = NotShown /\ UNCHANGED <<kind, image, version, tasks, loaded>>
  BY <1>1, <1>6 DEF ImageInv, ImageTypes, CopiesFresh, BitmapOnce, DecodeOf, NotDecoded,
     DrawsCurrentPixels, NotShown
<1>7. QED BY <1>4, <1>5, <1>6 DEF DrawImage

(* Whatever is decoded, presented, sensed, closed and drawn in between:    *)
(* drawImage draws the pixels that a bitmap, a video or a sensor has now,  *)
(* for any number of pictures (nx_image_release_cache, drawImage).         *)
THEOREM CurrentPixelsAreDrawn == CanvasImagesSpec => []DrawsCurrentPixels
<1>1. CanvasImagesInit => ImageInv
  BY DEF CanvasImagesInit, ImageInv, ImageTypes, CopiesFresh, BitmapOnce, NotDecoded,
     DrawsCurrentPixels, NewImage, NotShown, Nothing, Pictures
<1>2. ImageInv /\ [CanvasImagesNext]_imageVars => ImageInv'
  <2>1. SUFFICES ASSUME ImageInv, [CanvasImagesNext]_imageVars PROVE ImageInv'
    OBVIOUS
  <2>2. CASE UNCHANGED imageVars
    BY <2>1, <2>2 DEF imageVars, ImageInv, ImageTypes, CopiesFresh, BitmapOnce, DecodeOf,
       NotDecoded, DrawsCurrentPixels
  <2>3. QED BY <2>1, <2>2, DecodingKeeps, PixelsKeep, DrawKeeps DEF CanvasImagesNext
<1>3. QED BY <1>1, <1>2, PTL DEF CanvasImagesSpec, ImageInv

-----------------------------------------------------------------------------
(***************************************************************************)
(* Reading and writing pixels (CanvasPixels).                              *)
(***************************************************************************)
PutCalls == [op : {"put"}, canvas : Nat \ {0}, image : Nat \ {0}, to : Int,
             dirty : BOOLEAN, at : Int, length : Int]
GetCalls == [op : {"get"}, canvas : Nat \ {0}, at : Int, length : Int \ {0}]
PixelsInv == copy \in PutCalls \cup GetCalls /\ PixelsAsAsked

AskedOf(c) == IF c.length >= 0 THEN c.at .. (c.at + c.length - 1)
              ELSE (c.at + c.length) .. (c.at - 1)

(* The dirty rectangle holds the pixels of the image that were asked for.  *)
LEMMA DirtyIsAsked ==
  ASSUME NEW c \in PutCalls
  PROVE  /\ Dirty(c).at \in Int /\ Dirty(c).length \in Int /\ Dirty(c).at >= 0
         /\ \A j \in Int : (Dirty(c).at <= j /\ j < Dirty(c).at + Dirty(c).length)
                             <=> (0 <= j /\ j < c.image /\ (c.dirty => j \in AskedOf(c)))
         /\ ~c.dirty => Dirty(c).at = 0
<1>1. c.image \in Nat \ {0} /\ c.at \in Int /\ c.length \in Int /\ c.dirty \in BOOLEAN
  BY DEF PutCalls
<1>2. CASE ~c.dirty
  BY <1>1, <1>2 DEF Dirty, Span
<1>3. CASE c.dirty /\ c.length < 0
  <2>1. Dirty(c) = Within(NotNegative(Span(c.at + c.length, -c.length)), c.image)
    BY <1>1, <1>3 DEF Dirty, Normalized, Span
  <2> QED BY <2>1, <1>1, <1>3 DEF Within, NotNegative, Span, AskedOf
<1>4. CASE c.dirty /\ c.length >= 0
  <2>1. Dirty(c) = Within(NotNegative(Span(c.at, c.length)), c.image)
    BY <1>1, <1>4 DEF Dirty, Normalized, Span
  <2> QED BY <2>1, <1>1, <1>4 DEF Within, NotNegative, Span, AskedOf
<1> QED BY <1>1, <1>2, <1>3, <1>4

(* putImageData moves the pixels asked for that fall on the canvas.        *)
LEMMA PutMoves ==
  ASSUME NEW c \in PutCalls
  PROVE  Put(c) = {<<i, c.to + i>> : i \in {j \in 0 .. (c.image - 1) :
                     /\ c.dirty => j \in AskedOf(c)
                     /\ c.to + j \in 0 .. (c.canvas - 1)}}
<1> DEFINE rect == Dirty(c)
           to == c.to + (IF c.dirty THEN rect.at ELSE 0)
           from == Shifted(rect, to)
           first == IF to < 0 THEN 0 ELSE to
           count == Smaller(from.length, c.canvas - first)
           Placed(j) == /\ j \in 0 .. (c.image - 1)
                        /\ c.dirty => j \in AskedOf(c)
                        /\ c.to + j \in 0 .. (c.canvas - 1)
<1>1. /\ c.image \in Nat \ {0} /\ c.canvas \in Nat \ {0} /\ c.to \in Int /\ c.dirty \in BOOLEAN
  BY DEF PutCalls
<1>2. /\ rect.at \in Int /\ rect.length \in Int /\ rect.at >= 0
      /\ \A j \in Int : (rect.at <= j /\ j < rect.at + rect.length)
                          <=> (0 <= j /\ j < c.image /\ (c.dirty => j \in AskedOf(c)))
      /\ ~c.dirty => rect.at = 0
  BY DirtyIsAsked
<1>3. to = c.to + rect.at /\ to \in Int
  BY <1>1, <1>2
<1> HIDE DEF rect, to
<1>4. /\ from.at \in Int /\ from.length \in Int /\ first \in Int
      /\ first = c.to + from.at
      /\ from.at + from.length = rect.at + rect.length
      /\ to < 0 => from.at = rect.at - to /\ first = 0
      /\ to >= 0 => from.at = rect.at /\ first = to
  BY <1>1, <1>2, <1>3 DEF Shifted, Span
<1> HIDE DEF from, first
<1>5. count \in Int /\ count <= from.length /\ count <= c.canvas - first
      /\ (count = from.length \/ count = c.canvas - first)
  BY <1>1, <1>4 DEF Smaller
<1> HIDE DEF count
<1>6. \A j \in Int : (from.at <= j /\ j < from.at + count) <=> Placed(j)
  <2> SUFFICES ASSUME NEW j \in Int
               PROVE  (from.at <= j /\ j < from.at + count) <=> Placed(j)
    OBVIOUS
  <2> DEFINE P == (c.dirty => j \in AskedOf(c))
  <2>1. (rect.at <= j /\ j < rect.at + rect.length) <=> (0 <= j /\ j < c.image /\ P)
    BY <1>2
  <2>2. Placed(j) <=> (0 <= j /\ j < c.image /\ P /\ 0 <= c.to + j /\ c.to + j < c.canvas)
    BY <1>1
  <2> HIDE DEF P, Placed
  <2>3. (from.at <= j /\ j < from.at + count)
          <=> (rect.at <= j /\ j < rect.at + rect.length /\ 0 <= c.to + j /\ c.to + j < c.canvas)
    <3>1. PICK b \in Int, n \in Int, v \in Int, z \in Int :
            b = rect.at /\ n = rect.length /\ v = c.to /\ z = c.canvas
      BY <1>1, <1>2
    <3>2. PICK a \in Int, l \in Int, q \in Int, k \in Int, t \in Int :
            a = from.at /\ l = from.length /\ q = first /\ k = count /\ t = to
      BY <1>3, <1>4, <1>5
    <3>3. /\ q = v + a /\ a + l = b + n /\ t = v + b
          /\ t < 0 => a = b - t
          /\ t >= 0 => a = b
          /\ k <= l /\ k <= z - q /\ (k = l \/ k = z - q)
      BY <3>1, <3>2, <1>3, <1>4, <1>5
    <3>4. (a <= j /\ j < a + k) <=> (b <= j /\ j < b + n /\ 0 <= v + j /\ v + j < z)
      BY <3>3
    <3> QED BY <3>1, <3>2, <3>4
  <2> QED BY <2>1, <2>2, <2>3
<1>7. Put(c) = {<<from.at + i, first + i>> : i \in 0 .. (count - 1)}
  BY DEF Put, rect, to, from, first, count
<1>8. \A i \in 0 .. (count - 1) : /\ Placed(from.at + i)
                                  /\ <<from.at + i, first + i>> = <<from.at + i, c.to + (from.at + i)>>
  <2> SUFFICES ASSUME NEW i \in 0 .. (count - 1)
               PROVE  Placed(from.at + i) /\ first + i = c.to + (from.at + i)
    OBVIOUS
  <2>1. from.at + i \in Int /\ from.at <= from.at + i /\ from.at + i < from.at + count
    BY <1>4, <1>5
  <2>2. first + i = c.to + (from.at + i)
    BY <1>1, <1>4, <1>5
  <2> QED BY <2>1, <2>2, <1>6
<1>9. \A j \in 0 .. (c.image - 1) : Placed(j) =>
        /\ j - from.at \in 0 .. (count - 1)
        /\ <<j, c.to + j>> = <<from.at + (j - from.at), first + (j - from.at)>>
  <2> SUFFICES ASSUME NEW j \in 0 .. (c.image - 1), Placed(j)
               PROVE  /\ j - from.at \in 0 .. (count - 1)
                      /\ j = from.at + (j - from.at) /\ c.to + j = first + (j - from.at)
    OBVIOUS
  <2>1. from.at <= j /\ j < from.at + count /\ j \in Int
    BY <1>1, <1>6
  <2> HIDE DEF Placed
  <2> QED BY <2>1, <1>1, <1>4, <1>5
<1>10. {<<from.at + i, first + i>> : i \in 0 .. (count - 1)}
         = {<<i, c.to + i>> : i \in {j \in 0 .. (c.image - 1) : Placed(j)}}
  <2>1. ASSUME NEW p \in {<<from.at + i, first + i>> : i \in 0 .. (count - 1)}
        PROVE  p \in {<<i, c.to + i>> : i \in {j \in 0 .. (c.image - 1) : Placed(j)}}
    <3>1. PICK i \in 0 .. (count - 1) : p = <<from.at + i, first + i>>
      OBVIOUS
    <3>2. Placed(from.at + i) /\ p = <<from.at + i, c.to + (from.at + i)>>
      BY <3>1, <1>8
    <3>3. from.at + i \in {j \in 0 .. (c.image - 1) : Placed(j)}
      BY <3>2
    <3> QED BY <3>2, <3>3
  <2>2. ASSUME NEW p \in {<<i, c.to + i>> : i \in {j \in 0 .. (c.image - 1) : Placed(j)}}
        PROVE  p \in {<<from.at + i, first + i>> : i \in 0 .. (count - 1)}
    <3>1. PICK j \in 0 .. (c.image - 1) : Placed(j) /\ p = <<j, c.to + j>>
      OBVIOUS
    <3>2. j - from.at \in 0 .. (count - 1) /\ p = <<from.at + (j - from.at), first + (j - from.at)>>
      BY <3>1, <1>9
    <3> QED BY <3>2
  <2> QED BY <2>1, <2>2
<1>11. {j \in 0 .. (c.image - 1) : Placed(j)}
         = {j \in 0 .. (c.image - 1) : (c.dirty => j \in AskedOf(c)) /\ c.to + j \in 0 .. (c.canvas - 1)}
  OBVIOUS
<1> QED BY <1>7, <1>10, <1>11

(* getImageData reads what of its rectangle is on the canvas.              *)
LEMMA GetReads ==
  ASSUME NEW c \in GetCalls, AskedOf(c) \cap (0 .. (c.canvas - 1)) # {}
  PROVE  /\ Read(c).at \in Int /\ Read(c).length \in Nat
         /\ AskedOf(c) \cap (0 .. (c.canvas - 1)) = Read(c).at .. (Read(c).at + Read(c).length - 1)
         /\ Read(c).length > 0
<1>1. c.canvas \in Nat \ {0} /\ c.at \in Int /\ c.length \in Int \ {0}
  BY DEF GetCalls
<1> DEFINE s == Normalized(Span(c.at, c.length))
           r == AtLeastOne(Within(s, c.canvas))
<1>2. /\ s.at \in Int /\ s.length \in Nat /\ s.length > 0
      /\ AskedOf(c) = s.at .. (s.at + s.length - 1)
  BY <1>1 DEF Normalized, Span, AskedOf
<1> HIDE DEF s
<1>3. s.at < c.canvas /\ s.at + s.length > 0
  BY <1>1, <1>2
<1>4. /\ r.at = s.at /\ r.length \in Nat /\ r.length > 0
      /\ r.at + r.length = IF s.at + s.length > c.canvas THEN c.canvas ELSE s.at + s.length
  BY <1>1, <1>2, <1>3 DEF Within, AtLeastOne, Span
<1>5. Read(c) = NotNegative(r)
  BY DEF Read, s
<1> HIDE DEF r
<1>6. /\ Read(c).at = (IF s.at < 0 THEN 0 ELSE s.at)
      /\ Read(c).at + Read(c).length = r.at + r.length /\ Read(c).length \in Int
  BY <1>2, <1>4, <1>5 DEF NotNegative, Span
<1> DEFINE end == Read(c).at + Read(c).length
<1>7. end = IF s.at + s.length > c.canvas THEN c.canvas ELSE s.at + s.length
  BY <1>4, <1>6
<1>8. Read(c).at \in Int /\ Read(c).length \in Int /\ end > Read(c).at
  BY <1>1, <1>2, <1>3, <1>6, <1>7
<1> HIDE DEF end
<1>9. end \in Int /\ AskedOf(c) \cap (0 .. (c.canvas - 1)) = Read(c).at .. (end - 1)
  BY <1>1, <1>2, <1>6, <1>7
<1>10. Read(c).length > 0 /\ end = Read(c).at + Read(c).length
  BY <1>8 DEF end
<1> QED BY <1>8, <1>9, <1>10

(* The first pixel of a span.                                              *)
LEMMA FirstOfSpan ==
  ASSUME NEW a \in Int, NEW n \in Nat, n > 0
  PROVE  Min(a .. (a + n - 1)) = a /\ Cardinality(a .. (a + n - 1)) = n
<1>1. a \in a .. (a + n - 1) /\ \A y \in a .. (a + n - 1) : a <= y
  OBVIOUS
<1>2. \A x \in a .. (a + n - 1) : (\A y \in a .. (a + n - 1) : x <= y) => x = a
  BY <1>1
<1>3. Min(a .. (a + n - 1)) = a
  BY <1>1, <1>2 DEF Min
<1>4. Cardinality(a .. (a + n - 1)) = n
  BY FS_Interval
<1> QED BY <1>3, <1>4

(* PixelsAsAsked: putImageData writes each pixel of the dirty rectangle in *)
(* the image and on the canvas to its place, and no other; getImageData of *)
(* a rectangle that meets the canvas returns what of it is on the canvas,  *)
(* whatever corner it was given by (canvas.cc).                            *)
THEOREM CopiesAreAsAsked ==
  ASSUME CanvasPixelsAssumption
  PROVE  CanvasPixelsSpec => []PixelsAsAsked
<1>1. CanvasPixelsInit => PixelsInv
  <2> SUFFICES ASSUME CanvasPixelsInit PROVE PixelsInv
    OBVIOUS
  <2>1. copy \in PutCalls \cup GetCalls
    BY DEF CanvasPixelsInit, CanvasPixelsAssumption, PutCalls, GetCalls
  <2> QED BY <2>1 DEF CanvasPixelsInit, PixelsInv, PixelsAsAsked, PutsWhatWasAsked, GetsWhatWasAsked
<1>2. ASSUME PixelsInv, [CanvasPixelsNext]_pixelsVars PROVE PixelsInv'
  <2>1. copy' = copy /\ copy \in PutCalls \cup GetCalls /\ Asked = AskedOf(copy)
    BY <1>2 DEF PixelsInv, CanvasPixelsNext, PutImageData, GetImageData, pixelsVars, Asked, AskedOf
  <2>2. CASE PutImageData
    <3>1. copy.op = "put" /\ copy \in PutCalls /\ moved'.pairs = Put(copy)
      BY <2>1, <2>2 DEF PutImageData, PutCalls, GetCalls, NotMoved
    <3>2. PutsWhatWasAsked'
      BY <2>1, <3>1, PutMoves DEF PutsWhatWasAsked, Asked, AskedOf, OnCanvas
    <3> QED BY <2>1, <3>1, <3>2 DEF PixelsInv, PixelsAsAsked, GetsWhatWasAsked
  <2>3. CASE GetImageData
    <3>1. /\ copy.op = "get" /\ copy \in GetCalls
          /\ moved'.pairs = {<<Read(copy).at + i, i>> : i \in 0 .. (Read(copy).length - 1)}
          /\ moved'.length = Read(copy).length
      BY <2>1, <2>3 DEF GetImageData, PutCalls, GetCalls
    <3>2. GetsWhatWasAsked'
      <4> DEFINE seen == AskedOf(copy) \cap (0 .. (copy.canvas - 1))
      <4> SUFFICES ASSUME seen # {}
                   PROVE  /\ moved'.length = Cardinality(seen)
                          /\ moved'.pairs = {<<i, i - Min(seen)>> : i \in seen}
        BY <2>1 DEF GetsWhatWasAsked, Seen, Asked, AskedOf, OnCanvas
      <4>1. PICK a \in Int, n \in Nat : /\ n > 0 /\ a = Read(copy).at /\ n = Read(copy).length
                                        /\ seen = a .. (a + n - 1)
        BY <3>1, GetReads
      <4>2. Min(seen) = a /\ Cardinality(seen) = n
        BY <4>1, FirstOfSpan
      <4>3. {<<a + i, i>> : i \in 0 .. (n - 1)} = {<<i, i - a>> : i \in a .. (a + n - 1)}
        <5>1. \A i \in 0 .. (n - 1) : a + i \in a .. (a + n - 1) /\ (a + i) - a = i
          OBVIOUS
        <5>2. \A i \in a .. (a + n - 1) : i - a \in 0 .. (n - 1) /\ a + (i - a) = i
          OBVIOUS
        <5> QED BY <5>1, <5>2
      <4> QED BY <3>1, <4>1, <4>2, <4>3
    <3> QED BY <2>1, <3>1, <3>2 DEF PixelsInv, PixelsAsAsked, PutsWhatWasAsked
  <2>4. CASE UNCHANGED pixelsVars
    BY <1>2, <2>4 DEF pixelsVars, PixelsInv, PixelsAsAsked, PutsWhatWasAsked, GetsWhatWasAsked,
       Seen, Asked, OnCanvas
  <2> QED BY <1>2, <2>2, <2>3, <2>4 DEF CanvasPixelsNext
<1>3. PixelsInv => PixelsAsAsked
  BY DEF PixelsInv
<1> QED BY <1>1, <1>2, <1>3, PTL DEF CanvasPixelsSpec

-----------------------------------------------------------------------------
(***************************************************************************)
(* The names of WebGL objects (WebglObjects).                              *)
(***************************************************************************)
CodeKinds == {"shader", "program"}
ObjectTypes ==
  /\ object \in [Wrappers -> [kind : ObjectKinds \cup {"none"}, id : Names \cup {0}, of : Nat]]
  /\ made \in Nat /\ forked \in BOOLEAN
  /\ frame \in [Names -> Nat] /\ code \in [Names -> Nat]
  /\ marked \subseteq Names /\ attached \subseteq Names \X Names
  /\ current \in Names \cup {0} /\ bound \in Names \cup {0} /\ drawFbo \in Names \cup {0}

(* The wrappers of a name: of the framebuffer that has it, and of the      *)
(* shader or program that has it.                                          *)
Frames(w, n) == object[w].kind = "framebuffer" /\ object[w].id = n
Codes(w, n) == object[w].kind \in CodeKinds /\ object[w].id = n

(* A wrapper names the object it was made for; a framebuffer has one       *)
(* wrapper, those of a shader or program agree.                            *)
WrappersAgree ==
  \A w \in Wrappers, n \in Names :
    /\ object[w].kind = "none" => object[w].id # n
    /\ Frames(w, n) => /\ object[w].of = frame[n] /\ frame[n] # 0
                       /\ \A v \in Wrappers : Frames(v, n) => v = w
    /\ Codes(w, n) => /\ object[w].of = code[n] /\ code[n] # 0 /\ n \notin marked
                      /\ \A v \in Wrappers : Codes(v, n) => object[v].kind = object[w].kind

(* What is attached or used is there, and is a shader or a program, never  *)
(* both.                                                                   *)
RolesApart ==
  /\ \A p \in attached : code[p[1]] # 0 /\ code[p[2]] # 0 /\ p[2] # current
  /\ \A p \in attached, q \in attached : p[1] # q[2]
  /\ current # 0 => code[current] # 0
  /\ \A w \in Wrappers, p \in attached :
       /\ Codes(w, p[1]) => object[w].kind = "program"
       /\ Codes(w, p[2]) => object[w].kind = "shader"
  /\ \A w \in Wrappers : current # 0 /\ Codes(w, current) => object[w].kind = "program"
  /\ \A n \in marked : code[n] # 0

BoundIsKnown == ~orphaned => drawFbo = bound

ObjectInv == /\ ObjectTypes /\ (forked \/ (WrappersAgree /\ RolesApart))
             /\ BoundIsKnown /\ DrawnIsDirty

(* What goes is a set of names, those given up and shaders that were to be *)
(* deleted and were kept by them alone.                                    *)
LEMMA WhatGoes ==
  ASSUME NEW gone
  PROVE  LET all == Loose(attached, gone) IN
         /\ gone \subseteq all
         /\ \A n \in all : n \in gone \/ (n \in marked /\ \E p \in attached : p[2] = n)
         /\ \A p \in attached : p[1] \notin gone => p[2] \in gone \/ p[2] \notin all
         /\ \A p \in Kept(attached, gone) : p \in attached /\ p[1] \notin gone
BY DEF Loose, Kept

(* A step of any action keeps the types.                                   *)
LEMMA ObjectTypesKept ==
  ASSUME WebglObjectsAssumption, ObjectTypes, [WebglObjectsNext]_webglVars
  PROVE  ObjectTypes'
<1> USE DEF ObjectTypes, screenVars, glVars
<1> DEFINE Wrapped == [kind : ObjectKinds \cup {"none"}, id : Names \cup {0}, of : Nat]
<1>1. \A w \in Wrappers : object[w] \in Wrapped
  OBVIOUS
<1>n. NoObject \in Wrapped
  BY DEF NoObject, ObjectKinds
<1>f. \A o \in Wrapped : Forgotten(o) \in Wrapped
  BY DEF Forgotten
<1>fr. \A gone : Frees(gone) =>
         /\ code' \in [Names -> Nat] /\ marked' \subseteq Names /\ attached' \subseteq Names \X Names
  <2> SUFFICES ASSUME NEW gone, Frees(gone)
               PROVE  /\ code' \in [Names -> Nat] /\ marked' \subseteq Names
                      /\ attached' \subseteq Names \X Names
    OBVIOUS
  <2>1. code' \in [Names -> Nat]
    BY DEF Frees
  <2>2. marked' \subseteq Names /\ attached' \subseteq Names \X Names
    BY WhatGoes DEF Frees
  <2> QED BY <2>1, <2>2
<1>2. ASSUME NEW w \in Wrappers, NEW k \in ObjectKinds, NEW n \in Names, Create(w, k, n)
      PROVE  ObjectTypes'
  <2>1. NewObject(k, n) \in Wrapped /\ made + 1 \in Nat
    BY DEF NewObject
  <2>2. object' \in [Wrappers -> Wrapped]
    BY <1>2, <2>1 DEF Create
  <2>3. frame' \in [Names -> Nat] /\ code' \in [Names -> Nat]
    BY <1>2, <2>1 DEF Create
  <2> QED BY <1>2, <2>1, <2>2, <2>3 DEF Create
<1>3. ASSUME NEW w \in Wrappers, NEW v \in Wrappers, NEW p \in attached, GetAttachedShader(w, v, p)
      PROVE  ObjectTypes'
  <2>1. [kind |-> "shader", id |-> p[2], of |-> code[p[2]]] \in Wrapped
    BY DEF ObjectKinds
  <2>2. object' \in [Wrappers -> Wrapped]
    BY <1>3, <2>1 DEF GetAttachedShader
  <2> QED BY <1>3, <2>2 DEF GetAttachedShader
<1>4. ASSUME NEW w \in Wrappers, DeleteFramebuffer(w) PROVE ObjectTypes'
  <2>1. object' \in [Wrappers -> Wrapped]
    BY <1>4, <1>1, <1>f DEF DeleteFramebuffer
  <2>2. frame' \in [Names -> Nat] /\ bound' \in Names \cup {0}
    BY <1>4 DEF DeleteFramebuffer
  <2> QED BY <1>4, <2>1, <2>2 DEF DeleteFramebuffer
<1>5. ASSUME NEW w \in Wrappers, DeleteCode(w) PROVE ObjectTypes'
  <2>1. object' \in [Wrappers -> Wrapped]
    BY <1>5, <1>1, <1>f DEF DeleteCode
  <2>2. object[w].id \in Names
    BY <1>5, <1>1 DEF DeleteCode
  <2>3. /\ code' \in [Names -> Nat] /\ marked' \subseteq Names /\ attached' \subseteq Names \X Names
    BY <1>5, <2>2, <1>fr DEF DeleteCode
  <2> QED BY <1>5, <2>1, <2>3 DEF DeleteCode
<1>6. ASSUME NEW w \in Wrappers, Collect(w) PROVE ObjectTypes'
  <2>1. object' \in [Wrappers -> Wrapped]
    BY <1>6, <1>n DEF Collect
  <2> QED BY <1>6, <2>1 DEF Collect
<1>7. ASSUME NEW w \in Wrappers, NEW v \in Wrappers, AttachShader(w, v) PROVE ObjectTypes'
  <2>1. object[w].id \in Names /\ object[v].id \in Names
    BY <1>7, <1>1 DEF AttachShader
  <2> QED BY <1>7, <2>1 DEF AttachShader
<1>8. ASSUME NEW w \in Wrappers, NEW p \in attached, DetachShader(w, p) PROVE ObjectTypes'
  <2>1. code' \in [Names -> Nat] /\ marked' \subseteq Names
    BY <1>8 DEF DetachShader
  <2> QED BY <1>8, <2>1 DEF DetachShader
<1>9. ASSUME NEW n \in Names \cup {0}, UseProgram(n) PROVE ObjectTypes'
  <2>1. /\ code' \in [Names -> Nat] /\ marked' \subseteq Names /\ attached' \subseteq Names \X Names
    BY <1>9, <1>fr DEF UseProgram
  <2> QED BY <1>9, <2>1 DEF UseProgram
<1>10. ASSUME NEW target \in Targets, NEW id \in Ids, BindFramebuffer(target, id) PROVE ObjectTypes'
  <2>1. id \in Names \cup {0}
    BY <1>1 DEF Ids
  <2> QED BY <1>10, <2>1 DEF BindFramebuffer
<1>11. ASSUME Draw \/ PresentFrame \/ UNCHANGED webglVars PROVE ObjectTypes'
  BY <1>11 DEF Draw, PresentFrame, webglVars
<1>12. \A w \in Wrappers : Program(w) => object[w].id \in Names \cup {0}
  BY <1>1
<1> QED
  BY <1>2, <1>3, <1>4, <1>5, <1>6, <1>7, <1>8, <1>9, <1>10, <1>11, <1>12 DEF WebglObjectsNext

(* The context's copy of what is bound is right as long as nothing bound   *)
(* was deleted, so that what is drawn to the back buffer is dirty.         *)
LEMMA ScreenKnown ==
  ASSUME BoundIsKnown, DrawnIsDirty, [WebglObjectsNext]_webglVars
  PROVE  BoundIsKnown' /\ DrawnIsDirty'
<1> USE DEF BoundIsKnown, DrawnIsDirty, screenVars, glVars
<1>1. CASE UNCHANGED <<bound, drawFbo, orphaned, dirty, drawn>>
  BY <1>1
<1>2. ASSUME NEW w \in Wrappers, DeleteFramebuffer(w) PROVE BoundIsKnown' /\ DrawnIsDirty'
  BY <1>2 DEF DeleteFramebuffer
<1>3. ASSUME NEW target \in Targets, NEW id, BindFramebuffer(target, id)
      PROVE  BoundIsKnown' /\ DrawnIsDirty'
  BY <1>3 DEF BindFramebuffer, Tracked, Targets
<1>4. CASE Draw
  BY <1>4 DEF Draw, MarkDirty
<1>5. CASE PresentFrame
  BY <1>5 DEF PresentFrame
<1> QED
  BY <1>1, <1>2, <1>3, <1>4, <1>5 DEF WebglObjectsNext, webglVars, Create, GetAttachedShader,
     DeleteCode, Collect, AttachShader, DetachShader, UseProgram

(* The names of wrappers agree with GL's objects after one is given up: it *)
(* has no wrapper any more.                                                *)
LEMMA FreedAgree ==
  ASSUME ObjectTypes, WrappersAgree, RolesApart, NEW gone \in SUBSET Names, Frees(gone),
         \A n \in gone : code[n] # 0
  PROVE  /\ \A n \in Names : n \notin gone /\ n \notin marked => code'[n] = code[n]
         /\ marked' \subseteq marked /\ attached' \subseteq attached
         /\ \A p \in attached' : p[1] \notin gone
         /\ \A p \in attached' : p[2] \notin gone => code'[p[1]] # 0 /\ code'[p[2]] # 0
         /\ \A n \in marked' : code'[n] # 0
         /\ \A n \in Names : n \notin gone /\ (\A p \in attached : p[2] # n) => code'[n] = code[n]
<1> DEFINE all == Loose(attached, gone)
<1>0. code' = [n \in Names |-> IF n \in all THEN 0 ELSE code[n]]
  BY DEF Frees
<1>1. /\ gone \subseteq all
      /\ \A n \in all : n \in gone \/ (n \in marked /\ \E p \in attached : p[2] = n)
      /\ \A p \in attached : p[1] \notin gone => p[2] \in gone \/ p[2] \notin all
      /\ \A p \in Kept(attached, gone) : p \in attached /\ p[1] \notin gone
  BY WhatGoes
<1>2. marked' = marked \ all /\ attached' = Kept(attached, gone)
  BY DEF Frees
<1> HIDE DEF all
<1>3. \A n \in Names : n \notin all => code'[n] = code[n]
  BY <1>0
<1>4. ASSUME NEW p \in attached', p[2] \notin gone PROVE code'[p[1]] # 0 /\ code'[p[2]] # 0
  <2>1. p \in attached /\ p[1] \notin gone /\ p[1] \in Names /\ p[2] \in Names
    BY <1>1, <1>2 DEF ObjectTypes
  <2>2. p[2] \notin all
    BY <2>1, <1>1, <1>4
  <2>3. p[1] \notin all
    BY <2>1, <1>1 DEF RolesApart
  <2> QED BY <2>1, <2>2, <2>3, <1>3 DEF RolesApart
<1>5. \A n \in marked' : code'[n] # 0
  BY <1>2, <1>3 DEF RolesApart, ObjectTypes
<1> QED BY <1>1, <1>2, <1>3, <1>4, <1>5

(* Wrappers agree with GL after a step, as long as no shader with another  *)
(* wrapper was deleted.                                                    *)
LEMMA WrappersStayAgreed ==
  ASSUME WebglObjectsAssumption, ObjectTypes, WrappersAgree, RolesApart, ~forked',
         [WebglObjectsNext]_webglVars
  PROVE  WrappersAgree' /\ RolesApart'
<1> USE DEF screenVars, glVars
<1>0. \A w \in Wrappers : object[w].id \in Names \cup {0} /\ object[w].kind \in ObjectKinds \cup {"none"}
  BY DEF ObjectTypes
<1>z. 0 \notin Names
  BY DEF WebglObjectsAssumption
<1>1. ASSUME NEW w \in Wrappers, NEW k \in ObjectKinds, NEW n \in Names, Create(w, k, n)
      PROVE  WrappersAgree' /\ RolesApart'
  <2>1. /\ object' = [object EXCEPT ![w] = NewObject(k, n)] /\ made + 1 # 0
        /\ NewObject(k, n).kind = k /\ NewObject(k, n).id = n /\ NewObject(k, n).of = made + 1
    BY <1>1 DEF Create, NewObject, ObjectTypes
  <2>2. object'[w] = NewObject(k, n) /\ \A v \in Wrappers \ {w} : object'[v] = object[v]
    BY <2>1 DEF ObjectTypes
  <2>3. CASE k = "framebuffer"
    <3>1. /\ frame[n] = 0 /\ frame'[n] = made + 1 /\ \A m \in Names \ {n} : frame'[m] = frame[m]
          /\ UNCHANGED <<code, marked, attached, current>>
      BY <1>1, <2>3 DEF Create, ObjectTypes
    <3>2. WrappersAgree'
      BY <2>1, <2>2, <2>3, <3>1 DEF WrappersAgree, Frames, Codes, CodeKinds
    <3>3. RolesApart'
      BY <2>1, <2>2, <2>3, <3>1 DEF RolesApart, Codes, CodeKinds
    <3> QED BY <3>2, <3>3
  <2>4. CASE k # "framebuffer"
    <3>1. /\ code[n] = 0 /\ code'[n] = made + 1 /\ \A m \in Names \ {n} : code'[m] = code[m]
          /\ UNCHANGED <<frame, marked, attached, current>> /\ k \in CodeKinds
      BY <1>1, <2>4 DEF Create, ObjectTypes, CodeKinds, ObjectKinds
    <3>2. WrappersAgree'
      BY <2>1, <2>2, <2>4, <3>1 DEF WrappersAgree, RolesApart, Frames, Codes, CodeKinds
    <3>3. RolesApart'
      BY <2>1, <2>2, <2>4, <3>1 DEF RolesApart, Codes, CodeKinds, ObjectTypes
    <3> QED BY <3>2, <3>3
  <2> QED BY <2>3, <2>4
<1>2. ASSUME NEW w \in Wrappers, NEW v \in Wrappers, NEW p \in attached, GetAttachedShader(w, v, p)
      PROVE  WrappersAgree' /\ RolesApart'
  <2>1. /\ object'[w] = [kind |-> "shader", id |-> p[2], of |-> code[p[2]]]
        /\ \A u \in Wrappers \ {w} : object'[u] = object[u]
        /\ UNCHANGED <<frame, code, marked, attached, current>> /\ p[2] \notin marked
    BY <1>2 DEF GetAttachedShader, ObjectTypes
  <2>2. p[2] \in Names /\ code[p[2]] # 0 /\ p[2] # current
        /\ (\A q \in attached : q[1] # p[2])
        /\ \A u \in Wrappers : Codes(u, p[2]) => object[u].kind = "shader"
    BY DEF RolesApart, ObjectTypes
  <2>3. WrappersAgree'
    BY <2>1, <2>2 DEF WrappersAgree, Frames, Codes, CodeKinds
  <2>4. RolesApart'
    BY <2>1, <2>2 DEF RolesApart, Codes, CodeKinds
  <2> QED BY <2>3, <2>4
<1>3. ASSUME NEW w \in Wrappers, DeleteFramebuffer(w) PROVE WrappersAgree' /\ RolesApart'
  <2> DEFINE n == object[w].id
  <2>1. /\ object'[w].id = 0 /\ object'[w].kind = "framebuffer"
        /\ \A u \in Wrappers \ {w} : object'[u] = object[u]
        /\ UNCHANGED <<code, marked, attached, current>> /\ n \in Names
    BY <1>3, <1>0 DEF DeleteFramebuffer, ObjectTypes, Forgotten
  <2>2. \A m \in Names \ {n} : frame'[m] = frame[m]
    BY <1>3 DEF DeleteFramebuffer, ObjectTypes
  <2>3. \A u \in Wrappers \ {w} : ~Frames(u, n)
    BY <1>3, <2>1 DEF WrappersAgree, Frames, DeleteFramebuffer
  <2> HIDE DEF n
  <2>4. WrappersAgree'
    BY <2>1, <2>2, <2>3, <1>z DEF WrappersAgree, Frames, Codes, CodeKinds
  <2>5. RolesApart'
    BY <2>1, <1>z DEF RolesApart, Codes, CodeKinds
  <2> QED BY <2>4, <2>5
<1>4. ASSUME NEW w \in Wrappers, DeleteCode(w) PROVE WrappersAgree' /\ RolesApart'
  <2>1. PICK n \in Names : n = object[w].id
    BY <1>4, <1>0 DEF DeleteCode
  <2>2. /\ object'[w].id = 0 /\ object'[w].kind = object[w].kind /\ object[w].kind \in CodeKinds
        /\ \A u \in Wrappers \ {w} : object'[u] = object[u] /\ object[u] # object[w]
        /\ UNCHANGED <<frame, current>>
    BY <1>4, <1>0 DEF DeleteCode, ObjectTypes, Forgotten, CodeKinds
  <2>3. code[n] # 0 /\ n \notin marked
    BY <2>1, <2>2 DEF WrappersAgree, Codes
  <2>4. \A u \in Wrappers \ {w} : object[u].kind \in CodeKinds => object[u].id # n
    <3> SUFFICES ASSUME NEW u \in Wrappers \ {w}, Codes(u, n) PROVE FALSE
      BY DEF Codes
    <3>1. /\ object[u].kind = object[w].kind /\ object[u].id = object[w].id
          /\ object[u].of = object[w].of
      BY <2>1, <2>2 DEF WrappersAgree, Codes
    <3>2. object[u] = object[w]
      BY <3>1 DEF ObjectTypes
    <3> QED BY <3>2, <2>2
  <2>5. ASSUME \A m \in Names \ {n} : m \notin marked => code'[m] = code[m],
               marked' \subseteq marked \cup {n}
        PROVE  WrappersAgree'
    BY <2>2, <2>4, <2>5, <1>z, <2>1 DEF WrappersAgree, Frames, Codes, CodeKinds
  <2>6. ASSUME attached' \subseteq attached, \A m \in marked' : code'[m] # 0,
               \A p \in attached' : code'[p[1]] # 0 /\ code'[p[2]] # 0,
               current # 0 => code'[current] # 0
        PROVE  RolesApart'
    BY <2>2, <2>6, <1>z DEF RolesApart, Codes, ObjectTypes
  <2>7. CASE InUse(n)
    <3>1. marked' = marked \cup {n} /\ UNCHANGED <<code, attached>>
      BY <1>4, <2>1, <2>3, <2>7 DEF DeleteCode
    <3> QED BY <3>1, <2>3, <2>5, <2>6 DEF RolesApart
  <2>8. CASE ~InUse(n)
    <3>1. Frees({n})
      BY <1>4, <2>1, <2>3, <2>8 DEF DeleteCode
    <3>2. n # current /\ \A p \in attached : p[2] # n
      BY <2>8 DEF InUse
    <3>3. /\ \A m \in Names : m \notin {n} /\ m \notin marked => code'[m] = code[m]
          /\ marked' \subseteq marked /\ attached' \subseteq attached
          /\ \A p \in attached' : p[1] \notin {n}
          /\ \A p \in attached' : p[2] \notin {n} => code'[p[1]] # 0 /\ code'[p[2]] # 0
          /\ \A m \in marked' : code'[m] # 0
          /\ \A m \in Names : m \notin {n} /\ (\A p \in attached : p[2] # m) => code'[m] = code[m]
      BY <3>1, <2>3, FreedAgree
    <3>4. current # 0 => code'[current] # 0
      BY <3>3, <3>2 DEF RolesApart, ObjectTypes
    <3> QED BY <3>2, <3>3, <3>4, <2>5, <2>6
  <2> QED BY <2>7, <2>8
<1>5. ASSUME NEW w \in Wrappers, Collect(w) PROVE WrappersAgree' /\ RolesApart'
  <2>1. /\ object'[w] = NoObject /\ NoObject.id = 0
        /\ \A u \in Wrappers \ {w} : object'[u] = object[u]
        /\ UNCHANGED <<frame, code, marked, attached, current>>
    BY <1>5 DEF Collect, ObjectTypes, NoObject
  <2> QED BY <2>1, <1>z DEF WrappersAgree, RolesApart, Frames, Codes, ObjectTypes
<1>6. ASSUME NEW w \in Wrappers, NEW v \in Wrappers, AttachShader(w, v)
      PROVE  WrappersAgree' /\ RolesApart'
  <2>1. PICK p \in Names, s \in Names : p = object[w].id /\ s = object[v].id
    BY <1>6, <1>0 DEF AttachShader
  <2>2. Codes(w, p) /\ Codes(v, s) /\ object[w].kind = "program" /\ object[v].kind = "shader"
    BY <1>6, <2>1 DEF AttachShader, Codes, CodeKinds
  <2>3. code[p] # 0 /\ code[s] # 0 /\ p # s /\ s # current
    BY <2>2, <1>z DEF WrappersAgree, RolesApart
  <2>4. /\ \A q \in attached : q[2] # p /\ q[1] # s
        /\ \A u \in Wrappers : /\ Codes(u, p) => object[u].kind = "program"
                               /\ Codes(u, s) => object[u].kind = "shader"
    BY <2>2 DEF RolesApart, WrappersAgree
  <2>5. attached' = attached \cup {<<p, s>>} /\ UNCHANGED <<object, frame, code, marked, current>>
    BY <1>6, <2>1 DEF AttachShader
  <2>6. WrappersAgree'
    BY <2>5 DEF WrappersAgree, Frames, Codes
  <2>7. \A q \in attached' : q \in attached \/ (q[1] = p /\ q[2] = s)
    BY <2>5
  <2>8. RolesApart'
    BY <2>3, <2>4, <2>5, <2>7 DEF RolesApart, Codes
  <2> QED BY <2>6, <2>8
<1>7. ASSUME NEW w \in Wrappers, NEW p \in attached, DetachShader(w, p)
      PROVE  WrappersAgree' /\ RolesApart'
  <2>1. attached' = attached \ {p} /\ UNCHANGED <<object, frame, current>>
    BY <1>7 DEF DetachShader
  <2>2. p[2] \in Names /\ p[2] # current /\ \A q \in attached : q[1] # p[2]
    BY DEF RolesApart, ObjectTypes
  <2>3. CASE p[2] \in marked /\ ~\E q \in attached' : q[2] = p[2]
    <3>1. marked' = marked \ {p[2]} /\ \A m \in Names \ {p[2]} : code'[m] = code[m]
      BY <1>7, <2>3 DEF DetachShader, ObjectTypes
    <3>2. WrappersAgree'
      BY <2>1, <2>3, <3>1 DEF WrappersAgree, Frames, Codes
    <3>3. \A q \in attached' : q[1] \in Names \ {p[2]} /\ q[2] \in Names \ {p[2]}
      BY <2>1, <2>2, <2>3 DEF ObjectTypes
    <3>4. RolesApart'
      BY <2>1, <2>2, <3>1, <3>3 DEF RolesApart, Codes, ObjectTypes
    <3> QED BY <3>2, <3>4
  <2>4. CASE ~(p[2] \in marked /\ ~\E q \in attached' : q[2] = p[2])
    <3>1. UNCHANGED <<code, marked>>
      BY <1>7, <2>4 DEF DetachShader
    <3> QED BY <2>1, <3>1 DEF WrappersAgree, RolesApart, Frames, Codes
  <2> QED BY <2>3, <2>4
<1>8. ASSUME NEW n \in Names \cup {0}, UseProgram(n),
             n # 0 => \E w \in Wrappers : Program(w) /\ object[w].id = n
      PROVE  WrappersAgree' /\ RolesApart'
  <2>1. n # current /\ current' = n /\ UNCHANGED <<object, frame>>
    BY <1>8 DEF UseProgram
  <2>2. n # 0 => /\ code[n] # 0 /\ n \notin marked /\ (\A p \in attached : p[2] # n)
                 /\ \A u \in Wrappers : Codes(u, n) => object[u].kind = "program"
    <3> SUFFICES ASSUME n \in Names, NEW w \in Wrappers, Program(w), object[w].id = n
                 PROVE  /\ code[n] # 0 /\ n \notin marked /\ (\A p \in attached : p[2] # n)
                        /\ \A u \in Wrappers : Codes(u, n) => object[u].kind = "program"
      BY <1>8
    <3>1. Codes(w, n) /\ object[w].kind = "program"
      BY DEF Codes, CodeKinds, Program
    <3> QED BY <3>1 DEF WrappersAgree, RolesApart
  <2>3. CASE current \in marked
    <3>1. Frees({current}) /\ current \in Names /\ code[current] # 0
      BY <1>8, <2>3 DEF UseProgram, RolesApart, ObjectTypes
    <3>2. /\ \A m \in Names : m \notin {current} /\ m \notin marked => code'[m] = code[m]
          /\ marked' \subseteq marked /\ attached' \subseteq attached
          /\ \A p \in attached' : p[1] \notin {current}
          /\ \A p \in attached' : p[2] \notin {current} => code'[p[1]] # 0 /\ code'[p[2]] # 0
          /\ \A m \in marked' : code'[m] # 0
          /\ \A m \in Names : m \notin {current} /\ (\A p \in attached : p[2] # m) => code'[m] = code[m]
      BY <3>1, FreedAgree
    <3>3. WrappersAgree'
      BY <2>1, <2>3, <3>2 DEF WrappersAgree, Frames, Codes
    <3>4. n # 0 => code'[n] # 0
      BY <2>1, <2>2, <3>2
    <3>5. \A p \in attached' : p \in attached /\ code'[p[1]] # 0 /\ code'[p[2]] # 0
      BY <3>2 DEF RolesApart
    <3>6. RolesApart'
      BY <2>1, <2>2, <3>2, <3>4, <3>5, <1>z DEF RolesApart, Codes, ObjectTypes
    <3> QED BY <3>3, <3>6
  <2>4. CASE current \notin marked
    <3>1. UNCHANGED <<code, marked, attached>>
      BY <1>8, <2>4 DEF UseProgram
    <3>2. WrappersAgree'
      BY <2>1, <3>1 DEF WrappersAgree, Frames, Codes
    <3>3. RolesApart'
      BY <1>8, <2>1, <2>2, <3>1, <1>z DEF RolesApart, Codes, ObjectTypes
    <3> QED BY <3>2, <3>3
  <2> QED BY <2>3, <2>4
<1>9. CASE UNCHANGED <<object, frame, code, marked, attached, current>>
  BY <1>9 DEF WrappersAgree, RolesApart, Frames, Codes
<1>10. 0 \in Names \cup {0} /\ \A w \in Wrappers : Program(w) => object[w].id \in Names \cup {0}
  BY <1>0
<1> QED
  BY <1>1, <1>2, <1>3, <1>4, <1>5, <1>6, <1>7, <1>8, <1>9, <1>10
     DEF WebglObjectsNext, webglVars, BindFramebuffer, Draw, PresentFrame

(* The invariant of a context's objects.                                   *)
LEMMA ObjectsInit ==
  ASSUME WebglObjectsAssumption, WebglObjectsInit
  PROVE  ObjectInv
<1>1. ObjectTypes
  <2>1. NoObject \in [kind : ObjectKinds \cup {"none"}, id : Names \cup {0}, of : Nat]
    BY DEF NoObject
  <2> QED BY <2>1 DEF WebglObjectsInit, ObjectTypes
<1>2. \A w \in Wrappers : object[w].kind = "none" /\ object[w].id = 0
  BY DEF WebglObjectsInit, NoObject
<1>3. WrappersAgree /\ RolesApart
  BY <1>2 DEF WebglObjectsAssumption, WebglObjectsInit, WrappersAgree, RolesApart, Frames, Codes,
     CodeKinds
<1> QED BY <1>1, <1>3 DEF WebglObjectsInit, ObjectInv, BoundIsKnown, DrawnIsDirty

(* Every step keeps the invariant of the objects.                          *)
LEMMA ObjectsStep ==
  ASSUME WebglObjectsAssumption, ObjectInv, [WebglObjectsNext]_webglVars
  PROVE  ObjectInv'
<1>1. ObjectTypes'
  BY ObjectTypesKept DEF ObjectInv
<1>2. BoundIsKnown' /\ DrawnIsDirty'
  BY ScreenKnown DEF ObjectInv
<1>3. forked => forked'
  BY DEF WebglObjectsNext, webglVars, Create, GetAttachedShader, DeleteFramebuffer, DeleteCode,
     Collect, AttachShader, DetachShader, UseProgram, BindFramebuffer, Draw, PresentFrame
<1>4. forked' \/ (WrappersAgree' /\ RolesApart')
  BY <1>3, WrappersStayAgreed DEF ObjectInv
<1> QED BY <1>1, <1>2, <1>4 DEF ObjectInv

(* ObjectsAsNamed: a wrapper never names an object made after its own was  *)
(* deleted, and what was drawn to the back buffer waits as dirty: until a  *)
(* shader with a second wrapper, or a framebuffer that is bound, is        *)
(* deleted (webgl.cc).                                                     *)
THEOREM NamesAreNotReused ==
  ASSUME WebglObjectsAssumption
  PROVE  WebglObjectsSpec => []ObjectsAsNamed
<1>1. ObjectInv => ObjectsAsNamed
  <2> SUFFICES ASSUME ObjectInv, ~forked, NEW w \in Wrappers, object[w].id # 0
               PROVE  object[w].of = IF object[w].kind = "framebuffer"
                                     THEN frame[object[w].id] ELSE code[object[w].id]
    BY DEF ObjectsAsNamed, NamesItsOwn, ObjectInv
  <2> QED
    BY DEF ObjectInv, ObjectTypes, WrappersAgree, Frames, Codes, CodeKinds, ObjectKinds
<1>2. WebglObjectsInit => ObjectInv
  BY ObjectsInit
<1>3. ObjectInv /\ [WebglObjectsNext]_webglVars => ObjectInv'
  BY ObjectsStep
<1> QED BY <1>1, <1>2, <1>3, PTL DEF WebglObjectsSpec

-----------------------------------------------------------------------------
(***************************************************************************)
(* The bytes WebGL is given (WebglData).                                   *)
(***************************************************************************)
(* Division, for the strides of rows and the lengths of lists.             *)
LEMMA Division ==
  ASSUME NEW d \in Nat, d > 0
  PROVE  /\ \A n \in Nat : n \div d \in Nat /\ (n \div d) * d <= n
         /\ \A n \in Nat : n < d => n % d = n
<1>1. ASSUME NEW n \in Nat PROVE n \div d \in Nat /\ (n \div d) * d <= n
  OBVIOUS
<1>2. ASSUME NEW n \in Nat, n < d PROVE n % d = n
  BY <1>2
<1> QED BY <1>1, <1>2

(* A row has room for the pixels of the image, unless rows overlap.        *)
LEMMA StrideHasRoom ==
  ASSUME NEW width \in Nat, NEW pixel \in Nat, NEW align \in Int, NEW row \in Int
  PROVE  /\ Positive(align) \in Nat \ {0} /\ width * pixel \in Nat
         /\ (IF row > 0 THEN row ELSE width) * pixel \in Nat
         /\ Stride(width, pixel, align, row) \in Nat
         /\ Stride(width, pixel, align, row) >= (IF row > 0 THEN row ELSE width) * pixel
         /\ row <= 0 \/ row >= width => Stride(width, pixel, align, row) >= width * pixel
<1> DEFINE n == IF row > 0 THEN row ELSE width
           bytes == n * pixel
           a == Positive(align)
<1>1. n \in Nat /\ a \in Nat /\ a > 0 /\ (row <= 0 \/ row >= width => n >= width)
  BY DEF Positive
<1> HIDE DEF n, a
<1>2. bytes \in Nat /\ width * pixel \in Nat
      /\ (row <= 0 \/ row >= width => bytes >= width * pixel)
  BY <1>1
<1> HIDE DEF bytes
<1>3. (bytes + a - 1) \div a \in Nat /\ ((bytes + a - 1) \div a) * a >= bytes
  BY <1>1, <1>2
<1>4. ((bytes + a - 1) \div a) * a \in Nat
  BY <1>1, <1>3
<1>5. Stride(width, pixel, align, row) = ((bytes + a - 1) \div a) * a
  BY DEF Stride, bytes, n, a
<1>6. (IF row > 0 THEN row ELSE width) * pixel = bytes /\ Positive(align) = a
  BY DEF bytes, n, a
<1> QED BY <1>1, <1>2, <1>3, <1>4, <1>5, <1>6

(* A byte of a row lies before the end of the last one.                    *)
LEMMA ByteOfRow ==
  ASSUME NEW s \in Nat, NEW width \in Nat, NEW height \in Nat \ {0},
         NEW q \in 0 .. height - 1, NEW r \in 0 .. width - 1
  PROVE  /\ q * s + r \in Nat
         /\ s * (height - 1) + width \in Nat
         /\ q * s + r < s * (height - 1) + width
<1>1. q * s \in Nat /\ q * s <= (height - 1) * s /\ (height - 1) * s = s * (height - 1)
  OBVIOUS
<1>2. s * (height - 1) \in Nat
  OBVIOUS
<1> QED BY <1>1, <1>2

(* The arguments of an image, where what is computed of them is exact.     *)
Argued(a) ==
  /\ a.width \in Int /\ a.height \in Int /\ a.pixel \in Nat
  /\ a.length \in Nat /\ a.offset \in Nat
Fitting(a, align, row) ==
  /\ a.width \in 0 .. Word - 1 /\ a.height \in 0 .. Word - 1
  /\ Stride(a.width, a.pixel, align, row) + Positive(align) < Word
  /\ Required(a.width, a.height, a.pixel, align, row) < Word

(* There the sizes that wrap are the sizes.                                *)
LEMMA SizesAreExact ==
  ASSUME WebglDataAssumption, NEW a, Argued(a), NEW align \in Int, NEW row \in Int,
         Fitting(a, align, row)
  PROVE  /\ Size(a.width) = a.width /\ Size(a.height) = a.height
         /\ RowStride(a.width, a.pixel, align, row) = Stride(a.width, a.pixel, align, row)
         /\ RequiredUpload(a.width, a.height, a.pixel, align, row)
              = Required(a.width, a.height, a.pixel, align, row)
         /\ Required(a.width, a.height, a.pixel, align, row) # 0 =>
              (Size(a.width) * a.pixel) % Word = a.width * a.pixel
<1> DEFINE s == Stride(a.width, a.pixel, align, row)
           w == a.width * a.pixel
           p == Positive(align)
           bytes == (IF row > 0 THEN row ELSE a.width) * a.pixel
           need == s * (a.height - 1) + w
<1>1. /\ a.width \in Nat /\ a.height \in Nat /\ a.pixel \in Nat /\ Word \in Nat
      /\ a.width < Word /\ a.height < Word /\ Word > 0
  BY DEF Argued, Fitting, WebglDataAssumption
<1>2. \A n \in Nat : n < Word => n % Word = n
  BY <1>1, Division
<1>3. Size(a.width) = a.width /\ Size(a.height) = a.height
  BY <1>1, <1>2 DEF Size
<1>4. /\ s \in Nat /\ p \in Nat \ {0} /\ bytes \in Nat /\ s >= bytes /\ s + p < Word
  BY <1>1, StrideHasRoom DEF Fitting
<1>5. RowStride(a.width, a.pixel, align, row) = s
  <2>1. s = ((bytes + p - 1) \div p) * p
    BY DEF Stride
  <2>2. RowStride(a.width, a.pixel, align, row)
          = (((((bytes % Word) + p - 1) % Word) \div p) * p) % Word
    BY <1>3 DEF RowStride
  <2> HIDE DEF s, p, bytes
  <2>3. bytes % Word = bytes
    BY <1>1, <1>2, <1>4
  <2>4. (bytes + p - 1) % Word = bytes + p - 1
    <3>1. bytes + p - 1 \in Nat /\ bytes + p - 1 < Word
      BY <1>1, <1>4
    <3> QED BY <3>1, <1>2
  <2>5. s % Word = s
    BY <1>1, <1>2, <1>4
  <2> QED BY <2>1, <2>2, <2>3, <2>4, <2>5
<1>6. CASE a.width = 0 \/ a.height = 0 \/ a.pixel = 0
  BY <1>3, <1>5, <1>6 DEF RequiredUpload, Required
<1>7. CASE ~(a.width = 0 \/ a.height = 0 \/ a.pixel = 0)
  <2>1. Required(a.width, a.height, a.pixel, align, row) = need /\ need < Word
    BY <1>7 DEF Required, Fitting
  <2>2. RequiredUpload(a.width, a.height, a.pixel, align, row) = need % Word
    BY <1>3, <1>5, <1>7 DEF RequiredUpload
  <2>3. w \in Nat /\ need \in Nat /\ w <= need
    <3> HIDE DEF s
    <3>1. s * (a.height - 1) \in Nat /\ w \in Nat
      BY <1>1, <1>4, <1>7
    <3> QED BY <3>1
  <2> HIDE DEF w, need
  <2>4. need % Word = need /\ w % Word = w
    BY <1>1, <1>2, <2>1, <2>3
  <2> QED BY <1>3, <1>5, <2>1, <2>2, <2>4 DEF w
<1> QED BY <1>6, <1>7

(* What fits is as long as the image is in memory.                         *)
LEMMA FitsInView ==
  ASSUME WebglDataAssumption, NEW a, Argued(a), NEW align \in Int, NEW row \in Int,
         Fitting(a, align, row),
         Fits(a, RequiredUpload(a.width, a.height, a.pixel, align, row)),
         NEW q \in 0 .. a.height - 1, NEW r \in 0 .. a.width * a.pixel - 1
  PROVE  LET s == Stride(a.width, a.pixel, align, row) IN
         /\ s \in Nat /\ q * s + r \in Nat /\ a.width * a.pixel \in Nat
         /\ a.offset + (q * s + r) \in a.offset .. a.length - 1
         /\ a.offset + (s * (a.height - 1) + a.width * a.pixel) <= a.length
<1> DEFINE s == Stride(a.width, a.pixel, align, row)
           w == a.width * a.pixel
           need == s * (a.height - 1) + w
<1>1. /\ a.width \in Nat /\ a.height \in Nat \ {0} /\ a.pixel \in Nat
      /\ a.offset \in Nat /\ a.length \in Nat
  BY DEF Argued, Fitting, WebglDataAssumption
<1>2. s \in Nat /\ w \in Nat
  BY <1>1, StrideHasRoom
<1>3. a.width # 0 /\ a.pixel # 0 /\ a.height # 0
  BY <1>1, <1>2
<1>4. need <= a.length - a.offset
  <2>1. RequiredUpload(a.width, a.height, a.pixel, align, row)
          = Required(a.width, a.height, a.pixel, align, row)
    BY SizesAreExact
  <2>2. Required(a.width, a.height, a.pixel, align, row) = need
    BY <1>3 DEF Required
  <2>3. a.length - a.offset >= need
    BY <2>1, <2>2 DEF Fits
  <2> HIDE DEF s, w
  <2>4. need \in Int
    BY <1>1, <1>2
  <2> HIDE DEF need
  <2> QED BY <2>3, <2>4, <1>1
<1> HIDE DEF s, w
<1>5. r \in 0 .. w - 1
  BY DEF w
<1>6. q * s + r \in Nat /\ need \in Nat /\ q * s + r < need
  BY <1>1, <1>2, <1>5, ByteOfRow
<1>7. a.offset + (q * s + r) \in a.offset .. a.length - 1
  BY <1>1, <1>4, <1>6
<1>8. a.offset + need <= a.length
  BY <1>1, <1>4, <1>6
<1> QED BY <1>2, <1>6, <1>7, <1>8 DEF s, w

(* The copy whose rows are in the other order has each where its opposite  *)
(* was.                                                                    *)
LEMMA EmulatedRow ==
  ASSUME NEW a, Argued(a), a.width \in Nat, store.align \in Int, store.row \in Int,
         store.row <= 0 \/ store.row >= a.width,
         NEW y \in 1 .. a.height, NEW x \in 1 .. a.width * a.pixel
  PROVE  LET s == Stride(a.width, a.pixel, store.align, store.row) IN
         Emulated(a, (y - 1) * s + x - 1) = a.offset + ((a.height - y) * s + (x - 1))
<1> DEFINE s == Stride(a.width, a.pixel, store.align, store.row)
           w == a.width * a.pixel
           cell == (y - 1) * s + x - 1
           over == {z \in 0 .. a.height - 1 : z * s <= cell /\ cell < z * s + a.width * a.pixel}
           top == CHOOSE z \in over : \A v \in over : z <= v
<1>1. /\ a.width \in Nat /\ a.height \in Nat \ {0} /\ a.pixel \in Nat /\ a.offset \in Nat
      /\ y - 1 \in 0 .. a.height - 1 /\ y \in Int /\ y >= 1
  BY DEF Argued
<1>2. s \in Nat /\ w \in Nat /\ s >= w
  BY <1>1, StrideHasRoom
<1>3. x \in 1 .. w /\ x \in Int
  BY <1>2
<1>4. over = {z \in 0 .. a.height - 1 : z * s <= cell /\ cell < z * s + w}
  OBVIOUS
<1>5. Emulated(a, cell) = IF over = {} THEN -1
                          ELSE a.offset + Flipped(top, a.height) * s + (cell - top * s)
  BY DEF Emulated
<1> HIDE DEF w, s, over, top
<1>6. (y - 1) * s \in Int /\ (y - 1) * s <= cell /\ cell < (y - 1) * s + w /\ cell \in Int
  <2>1. (y - 1) * s \in Int
    BY <1>1, <1>2
  <2> QED BY <2>1, <1>2, <1>3
<1>7. ASSUME NEW z \in 0 .. a.height - 1, z * s <= cell, cell < z * s + w
      PROVE  z = y - 1
  <2>1. z \in Int /\ z * s \in Int
    BY <1>1, <1>2
  <2>2. CASE z > y - 1
    <3>1. z >= y
      BY <1>1, <2>1, <2>2
    <3>2. z * s >= y * s /\ y * s = (y - 1) * s + s /\ y * s \in Int
      BY <1>1, <1>2, <2>1, <3>1
    <3> QED BY <3>2, <2>1, <1>2, <1>6, <1>7
  <2>3. CASE z < y - 1
    <3>1. z + 1 <= y - 1
      BY <1>1, <2>1, <2>3
    <3>2. (z + 1) * s <= (y - 1) * s /\ (z + 1) * s = z * s + s
      BY <1>1, <1>2, <2>1, <3>1
    <3> QED BY <3>2, <2>1, <1>2, <1>6, <1>7
  <2> QED BY <2>1, <2>2, <2>3, <1>1
<1>8. over = {y - 1}
  BY <1>1, <1>4, <1>6, <1>7
<1>9. top = y - 1
  BY <1>1, <1>8 DEF top
<1>10. Flipped(y - 1, a.height) = a.height - y
  BY <1>1 DEF Flipped
<1>11. Emulated(a, cell) = a.offset + (a.height - y) * s + (cell - (y - 1) * s)
  BY <1>5, <1>8, <1>9, <1>10
<1>12. cell - (y - 1) * s = x - 1 /\ (a.height - y) * s \in Int
  BY <1>1, <1>2, <1>3, <1>6
<1>13. Emulated(a, cell) = a.offset + ((a.height - y) * s + (x - 1))
  BY <1>1, <1>3, <1>11, <1>12
<1> QED BY <1>13 DEF s

Stores ==
  /\ store \in [align : Int, row : Int, pack : Int, flip : BOOLEAN]
  /\ gl \in [align : Int, row : Int, pack : Int, other : Unkept \cup {"none"}]
DataInv == Stores /\ BytesInView

(* A copy is made of rows of the view, and each has its place in it.       *)
LEMMA CopiesInView ==
  ASSUME WebglDataAssumption, Stores, NEW a, Argued(a), Fitting(a, store.align, store.row),
         Apart(a),
         NEW need, need = RequiredUpload(a.width, a.height, a.pixel, store.align, store.row),
         Fits(a, need), NEW y \in 0 .. CopyOf(a, need).rows - 1
  PROVE  LET c == CopyOf(a, need) IN
         /\ a.offset + y * c.stride + c.bytes <= a.length
         /\ y * c.stride + c.bytes <= c.rows * c.stride
<1> DEFINE s == Stride(a.width, a.pixel, store.align, store.row)
           w == a.width * a.pixel
           c == CopyOf(a, need)
<1>1. Emulates(a, need)
  BY DEF CopyOf, NoCopy
<1>2. /\ a.width \in Nat /\ a.height \in Nat /\ a.pixel \in Nat /\ a.offset \in Nat
      /\ a.length \in Nat /\ store.align \in Int /\ store.row \in Int
  BY DEF Argued, Fitting, WebglDataAssumption, Stores
<1>3. need # 0 /\ (store.row <= 0 \/ store.row >= a.width)
  BY <1>1 DEF Emulates, Apart
<1>4. c.rows = a.height /\ c.stride = s /\ c.bytes = w
  BY <1>1, <1>2, <1>3, SizesAreExact DEF CopyOf
<1>5. a.width # 0 /\ a.pixel # 0 /\ a.height # 0
  BY <1>2, <1>3, SizesAreExact DEF Required
<1>6. s \in Nat /\ w \in Nat /\ s >= w /\ w > 0
  <2>1. s \in Nat /\ w \in Nat /\ s >= w
    BY <1>2, <1>3, StrideHasRoom
  <2>2. w # 0
    BY <1>2, <1>5
  <2> QED BY <2>1, <2>2
<1>7. y \in 0 .. a.height - 1
  BY <1>4
<1>8. a.offset + (s * (a.height - 1) + w) <= a.length
  BY <1>2, <1>6, <1>7, FitsInView, w - 1 \in 0 .. w - 1
<1> HIDE DEF s, w, c
<1>9. y * s <= s * (a.height - 1) /\ y * s \in Int /\ s * (a.height - 1) \in Int
      /\ a.height * s = s * (a.height - 1) + s
  BY <1>2, <1>6, <1>7
<1> QED BY <1>2, <1>4, <1>6, <1>8, <1>9 DEF c

(* An image that fits is handed over byte by byte from within the view,    *)
(* each row whole.                                                         *)
LEMMA UploadInView ==
  ASSUME WebglDataAssumption, Stores, NEW a, Argued(a), Fitting(a, store.align, store.row),
         Apart(a),
         NEW need, need = RequiredUpload(a.width, a.height, a.pixel, store.align, store.row),
         Fits(a, need), NEW y \in 1 .. a.height, NEW x \in 1 .. a.width * a.pixel
  PROVE  LET plain == Rows(a.width, a.height, a.pixel, store.align, store.row)
             given == IF Emulates(a, need) THEN Emulated(a, plain[y][x])
                      ELSE a.offset + plain[y][x]
         IN  /\ given \in a.offset .. a.length - 1
             /\ given = a.offset + plain[IF store.flip /\ a.op = "image"
                                         THEN a.height + 1 - y ELSE y][x]
<1> DEFINE s == Stride(a.width, a.pixel, store.align, store.row)
           w == a.width * a.pixel
           plain == Rows(a.width, a.height, a.pixel, store.align, store.row)
           flips == store.flip /\ a.op = "image"
           z == IF flips THEN a.height + 1 - y ELSE y
           given == IF Emulates(a, need) THEN Emulated(a, plain[y][x]) ELSE a.offset + plain[y][x]
<1>1. /\ a.width \in Nat /\ a.height \in Nat \ {0} /\ a.pixel \in Nat
      /\ a.offset \in Nat /\ a.length \in Nat /\ y \in Int
      /\ store.align \in Int /\ store.row \in Int
  BY DEF Argued, Stores, Fitting, WebglDataAssumption
<1>2. s \in Nat /\ w \in Nat
  BY <1>1, StrideHasRoom
<1>3. \A v \in 1 .. a.height : plain[v][x] = (v - 1) * s + x - 1
  BY DEF Rows
<1>4. z \in 1 .. a.height
  BY <1>1
<1>5. plain[y][x] = (y - 1) * s + x - 1 /\ plain[z][x] = (z - 1) * s + x - 1
  BY <1>3, <1>4
<1>6. Emulates(a, need) <=> flips
  <2>1. a.width # 0 /\ a.pixel # 0 /\ w > 0
    BY <1>1, <1>2
  <2>2. need = s * (a.height - 1) + w
    BY <1>1, <2>1, SizesAreExact DEF Required
  <2> HIDE DEF s, w
  <2>3. s * (a.height - 1) \in Nat
    BY <1>1, <1>2
  <2>4. need # 0
    BY <1>2, <2>1, <2>2, <2>3
  <2> QED BY <2>4 DEF Emulates
<1>7. given = a.offset + ((z - 1) * s + (x - 1))
  <2>1. CASE flips
    <3>1. store.row <= 0 \/ store.row >= a.width
      BY <2>1 DEF Apart
    <3>2. given = a.offset + ((a.height - y) * s + (x - 1))
      BY <2>1, <3>1, <1>1, <1>5, <1>6, EmulatedRow
    <3>3. z - 1 = a.height - y
      BY <2>1, <1>1
    <3> QED BY <3>2, <3>3
  <2>2. CASE ~flips
    <3>1. given = a.offset + ((y - 1) * s + x - 1) /\ z = y
      BY <2>2, <1>5, <1>6
    <3> HIDE DEF given, s, w, z
    <3>2. (y - 1) * s \in Int /\ x \in Int
      BY <1>1, <1>2
    <3> QED BY <3>1, <3>2, <1>1
  <2> QED BY <2>1, <2>2
<1> HIDE DEF given, z
<1>8. x - 1 \in 0 .. w - 1 /\ z - 1 \in 0 .. a.height - 1 /\ x \in Int /\ z \in Int
  <2> HIDE DEF w
  <2> QED BY <1>1, <1>2, <1>4 DEF w
<1>9. given \in a.offset .. a.length - 1
  BY <1>1, <1>7, <1>8, FitsInView
<1>10. given = a.offset + plain[z][x]
  <2> HIDE DEF s
  <2>1. (z - 1) * s \in Int
    BY <1>2, <1>8
  <2>2. (z - 1) * s + (x - 1) = (z - 1) * s + x - 1
    BY <2>1, <1>8
  <2> QED BY <2>2, <1>5, <1>7
<1> QED BY <1>9, <1>10 DEF given, z

(* A pixel read back is written within the view.                           *)
LEMMA ReadbackInView ==
  ASSUME WebglDataAssumption, NEW a, Argued(a), NEW pack \in Int, Fitting(a, pack, 0),
         Fits(a, RequiredUpload(a.width, a.height, a.pixel, pack, 0)),
         NEW y \in 1 .. a.height, NEW x \in 1 .. a.width * a.pixel
  PROVE  a.offset + Rows(a.width, a.height, a.pixel, pack, 0)[y][x] \in a.offset .. a.length - 1
<1> DEFINE s == Stride(a.width, a.pixel, pack, 0)
<1>1. /\ a.width \in Nat /\ a.height \in Nat /\ a.pixel \in Nat /\ a.offset \in Nat
      /\ a.width * a.pixel \in Nat /\ y - 1 \in 0 .. a.height - 1 /\ y \in Int
  BY StrideHasRoom DEF Argued, Fitting, WebglDataAssumption
<1>2. x - 1 \in 0 .. a.width * a.pixel - 1 /\ x \in Int
  BY <1>1
<1>3. 0 \in Int
  OBVIOUS
<1>4. s \in Nat /\ a.offset + ((y - 1) * s + (x - 1)) \in a.offset .. a.length - 1
  BY <1>1, <1>2, <1>3, FitsInView
<1>5. Rows(a.width, a.height, a.pixel, pack, 0)[y][x] = (y - 1) * s + x - 1
  BY DEF Rows
<1> HIDE DEF s
<1>6. (y - 1) * s + x - 1 = (y - 1) * s + (x - 1)
  <2>1. (y - 1) * s \in Int
    BY <1>1, <1>4
  <2> QED BY <2>1, <1>2
<1> QED BY <1>4, <1>5, <1>6

(* A call for an image.                                                    *)
LEMMA ImagesStep ==
  ASSUME WebglDataAssumption, Stores, NEW a, Argued(a),
         \/ a.op \in {"image", "layers"} /\ TexImage(a)
         \/ a.op = "readback" /\ ReadPixels(a)
  PROVE  BytesInView' /\ UNCHANGED <<store, gl>>
<1>1. /\ call' = [asked |-> a, given |-> call'.given, copied |-> call'.copied]
      /\ UNCHANGED <<store, gl>>
  BY DEF TexImage, ReadPixels, Calls, CallsWith
<1>2. call'.asked = a /\ a.op \in Images /\ a.op \notin {"range", "written", "typed", "array"}
  <2>1. call'.asked = a
    BY <1>1
  <2>2. a.op \in Images /\ a.op \notin {"range", "written", "typed", "array"}
    BY DEF Images
  <2> QED BY <2>1, <2>2
<1>3. RangeInView' /\ ListInArray'
  BY <1>2 DEF RangeInView, ListInArray
<1>4. /\ Exact(a)' <=> Exact(a)
      /\ Apart(a)' <=> Apart(a)
      /\ Agree' <=> Agree
  BY <1>1 DEF Exact, Apart, Agree, Layout
<1>5. CASE ~(Exact(a) /\ Apart(a))
  <2>1. ~(Exact(a)' /\ Apart(a)')
    BY <1>4, <1>5
  <2> QED BY <1>1, <1>2, <1>3, <2>1 DEF BytesInView, ImageInView, RowsAsAsked
<1>6. CASE a.op \in {"image", "layers"} /\ TexImage(a) /\ Exact(a) /\ Apart(a)
  <2> DEFINE need == RequiredUpload(a.width, a.height, a.pixel, store.align, store.row)
             plain == Rows(a.width, a.height, a.pixel, store.align, store.row)
             Byte(y, x) == IF Emulates(a, need) THEN Emulated(a, plain[y][x])
                           ELSE a.offset + plain[y][x]
             z(y) == IF store.flip /\ a.op = "image" THEN a.height + 1 - y ELSE y
  <2>1. Fitting(a, store.align, store.row)
    BY <1>6 DEF Exact, Layout, Fitting
  <2>2. /\ call'.copied = IF Fits(a, need) THEN CopyOf(a, need) ELSE NoCopy
        /\ Fits(a, need) \/ call'.given = Refused
    BY <1>6 DEF TexImage, Calls, CallsWith
  <2>3. \A y \in 0 .. call'.copied.rows - 1 :
          /\ a.offset + y * call'.copied.stride + call'.copied.bytes <= a.length
          /\ y * call'.copied.stride + call'.copied.bytes
               <= call'.copied.rows * call'.copied.stride
    <3>1. CASE Fits(a, need)
      BY <1>6, <2>1, <2>2, <3>1, CopiesInView
    <3>2. CASE ~Fits(a, need)
      BY <2>2, <3>2 DEF NoCopy
    <3> QED BY <3>1, <3>2
  <2>4. CASE ~Agree \/ call'.given = Refused
    <3>1. Agree' => \A y \in DOMAIN call'.given : \A x \in DOMAIN call'.given[y] :
                      call'.given[y][x] \in a.offset .. a.length - 1
      BY <1>4, <2>4 DEF Refused
    <3>2. ImageInView'
      BY <1>1, <1>2, <2>3, <3>1 DEF ImageInView
    <3>3. RowsAsAsked'
      BY <1>4, <2>4 DEF RowsAsAsked
    <3> QED BY <1>1, <1>3, <3>2, <3>3 DEF BytesInView
  <2>5. CASE Agree /\ call'.given # Refused
    <3>1. \A y : Moved(a, y, gl.align, gl.row) = 0
      BY <2>5 DEF Agree, Moved
    <3>2. \A y \in 1 .. a.height, x \in 1 .. a.width * a.pixel :
            plain[y][x] \in Int
      <4> SUFFICES ASSUME NEW y \in 1 .. a.height, NEW x \in 1 .. a.width * a.pixel
                   PROVE  plain[y][x] \in Int
        OBVIOUS
      <4> DEFINE s == Stride(a.width, a.pixel, store.align, store.row)
      <4>1. /\ a.width \in Nat /\ a.height \in Nat /\ a.pixel \in Nat /\ a.width * a.pixel \in Nat
            /\ s \in Nat
        <5>1. /\ a.width \in Nat /\ a.height \in Nat /\ a.pixel \in Nat
              /\ store.align \in Int /\ store.row \in Int
          BY <2>1 DEF Fitting, Argued, Stores, WebglDataAssumption
        <5> QED BY <5>1, StrideHasRoom
      <4>2. plain[y][x] = (y - 1) * s + x - 1
        BY DEF Rows
      <4> HIDE DEF s
      <4>3. (y - 1) * s \in Int /\ x \in Int
        BY <4>1
      <4> QED BY <4>2, <4>3
    <3>3. call'.given = ImageRows(a, need)
      BY <1>6, <2>2, <2>5 DEF TexImage, Calls, CallsWith
    <3>4. Rows(a.width, a.height, a.pixel, gl.align, gl.row) = plain
      BY <2>5 DEF Agree
    <3>5. /\ DOMAIN call'.given = 1 .. a.height
          /\ \A y \in 1 .. a.height :
               /\ DOMAIN call'.given[y] = 1 .. a.width * a.pixel
               /\ \A x \in 1 .. a.width * a.pixel : call'.given[y][x] = Byte(y, x)
      <4>1. \A y \in 1 .. a.height, x \in 1 .. a.width * a.pixel :
              plain[y][x] + Moved(a, y, gl.align, gl.row) = plain[y][x]
        <5> HIDE DEF plain
        <5> QED BY <3>1, <3>2
      <4>2. call'.given = [y \in 1 .. a.height |-> [x \in 1 .. a.width * a.pixel |->
              IF Emulates(a, need)
              THEN Emulated(a, plain[y][x] + Moved(a, y, gl.align, gl.row))
              ELSE a.offset + (plain[y][x] + Moved(a, y, gl.align, gl.row))]]
        <5> HIDE DEF plain
        <5> QED BY <3>3, <3>4 DEF ImageRows
      <4> HIDE DEF plain, need
      <4> QED BY <4>1, <4>2
    <3>6. \A y \in 1 .. a.height, x \in 1 .. a.width * a.pixel :
            /\ Byte(y, x) \in a.offset .. a.length - 1
            /\ Byte(y, x) = a.offset + plain[z(y)][x]
      BY <1>6, <2>1, <2>2, <2>5, UploadInView
    <3> HIDE DEF Byte
    <3>7. \A y \in DOMAIN call'.given : \A x \in DOMAIN call'.given[y] :
            call'.given[y][x] \in a.offset .. a.length - 1
      <4> SUFFICES ASSUME NEW y \in DOMAIN call'.given, NEW x \in DOMAIN call'.given[y]
                   PROVE  call'.given[y][x] \in a.offset .. a.length - 1
        OBVIOUS
      <4>1. y \in 1 .. a.height /\ x \in 1 .. a.width * a.pixel
        BY <3>5
      <4>2. call'.given[y][x] = Byte(y, x)
        BY <3>5, <4>1
      <4> QED BY <3>6, <4>1, <4>2
    <3>8. ImageInView'
      BY <1>1, <1>2, <2>3, <3>7 DEF ImageInView
    <3>9. \A y \in 1 .. a.height : \A x \in 1 .. a.width * a.pixel :
            call'.given[y][x] = a.offset + plain[z(y)][x]
      BY <3>5, <3>6
    <3>10. RowsAsAsked'
      BY <1>1, <1>2, <3>9 DEF RowsAsAsked
    <3> QED BY <1>1, <1>3, <3>8, <3>10 DEF BytesInView
  <2> QED BY <2>4, <2>5
<1>7. CASE a.op = "readback" /\ ReadPixels(a) /\ Exact(a)
  <2> DEFINE need == RequiredUpload(a.width, a.height, a.pixel, store.pack, 0)
             rows == Rows(a.width, a.height, a.pixel, store.pack, 0)
  <2>1. Fitting(a, store.pack, 0) /\ store.pack \in Int
    BY <1>7 DEF Exact, Layout, Fitting, Stores
  <2>2. call'.copied = NoCopy
    BY <1>7 DEF ReadPixels, Calls, CallsWith
  <2>3. ASSUME Agree
        PROVE  \A y \in DOMAIN call'.given : \A x \in DOMAIN call'.given[y] :
                 call'.given[y][x] \in a.offset .. a.length - 1
    <3>1. CASE call'.given = Refused
      BY <3>1 DEF Refused
    <3>2. CASE call'.given # Refused
      <4>1. \A y : Moved(a, y, gl.pack, 0) = 0
        BY <2>3 DEF Agree, Moved
      <4>2. /\ Fits(a, need)
            /\ call'.given = [y \in 1 .. a.height |-> [x \in 1 .. a.width * a.pixel |->
                 a.offset + (Rows(a.width, a.height, a.pixel, gl.pack, 0)[y][x]
                               + Moved(a, y, gl.pack, 0))]]
        BY <1>7, <3>2 DEF ReadPixels, Calls, CallsWith
      <4>3. Rows(a.width, a.height, a.pixel, gl.pack, 0) = rows
        BY <2>3 DEF Agree
      <4>4. \A y \in 1 .. a.height, x \in 1 .. a.width * a.pixel :
              a.offset + rows[y][x] \in a.offset .. a.length - 1
        BY <2>1, <4>2, ReadbackInView
      <4>5. \A y \in 1 .. a.height, x \in 1 .. a.width * a.pixel : rows[y][x] \in Int
        <5> SUFFICES ASSUME NEW y \in 1 .. a.height, NEW x \in 1 .. a.width * a.pixel
                     PROVE  rows[y][x] \in Int
          OBVIOUS
        <5> DEFINE s == Stride(a.width, a.pixel, store.pack, 0)
        <5>1. /\ a.width \in Nat /\ a.height \in Nat /\ a.pixel \in Nat
              /\ a.width * a.pixel \in Nat /\ s \in Nat
          <6>1. /\ a.width \in Nat /\ a.height \in Nat /\ a.pixel \in Nat
                /\ store.pack \in Int /\ 0 \in Int
            BY <2>1 DEF Fitting, Argued, WebglDataAssumption
          <6> QED BY <6>1, StrideHasRoom
        <5>2. rows[y][x] = (y - 1) * s + x - 1
          BY DEF Rows
        <5> HIDE DEF s
        <5>3. (y - 1) * s \in Int /\ x \in Int
          BY <5>1
        <5> QED BY <5>2, <5>3
      <4> HIDE DEF rows
      <4>6. \A y \in 1 .. a.height, x \in 1 .. a.width * a.pixel :
              rows[y][x] + Moved(a, y, gl.pack, 0) = rows[y][x]
        BY <4>1, <4>5
      <4> QED BY <4>2, <4>3, <4>4, <4>6
    <3> QED BY <3>1, <3>2
  <2>4. ImageInView'
    BY <1>1, <1>2, <1>4, <2>2, <2>3 DEF ImageInView, NoCopy
  <2>5. RowsAsAsked'
    BY <1>2, <1>7 DEF RowsAsAsked
  <2> QED BY <1>1, <1>3, <2>4, <2>5 DEF BytesInView
<1> QED BY <1>1, <1>5, <1>6, <1>7

(* A call for a range of bytes, or a list.                                 *)
LEMMA RangesStep ==
  ASSUME WebglDataAssumption, NEW a, a.length \in Lengths, a.offset \in Offsets \cup {0},
         a.count \in Counts \cup {0}, a.pixel \in Nat,
         \/ a.op \in {"range", "written"} /\ Ranged(a)
         \/ a.op \in {"typed", "array"} /\ a.pixel > 0 /\ UniformList(a)
         \/ a.op \in {"typed", "array"} /\ a.pixel > 0 /\ a.offset = 0 /\ VertexAttrib(a)
         \/ a.op \in {"typed", "array"} /\ a.pixel > 0 /\ a.clears /\ ClearBuffer(a)
  PROVE  BytesInView' /\ UNCHANGED <<store, gl>>
<1>1. /\ call' = [asked |-> a, given |-> call'.given, copied |-> NoCopy]
      /\ UNCHANGED <<store, gl>>
  BY DEF Ranged, UniformList, VertexAttrib, ClearBuffer, Calls, CallsWith
<1>2. call'.asked = a /\ a.op \notin Images
  BY <1>1 DEF Images
<1>3. ImageInView' /\ RowsAsAsked'
  BY <1>2 DEF ImageInView, RowsAsAsked, Images
<1>4. PICK half \in Nat, o \in Nat, l \in Nat, c \in Nat, p \in Nat :
        /\ half = Word \div 2 /\ o = a.offset /\ l = a.length /\ c = a.count /\ p = a.pixel
        /\ Word \in Nat /\ o < Word /\ c < Word /\ l < half /\ 2 * half <= Word /\ Word > 0
  <2>1. Word \in Nat /\ a.length \in 0 .. (Word \div 2) - 1
    BY DEF WebglDataAssumption
  <2>2. Word \div 2 \in Nat /\ 2 * (Word \div 2) <= Word
    BY <2>1
  <2>3. a.length < Word \div 2 /\ a.length \in Nat /\ Word > 0
    BY <2>1, <2>2
  <2>4. a.offset \in Nat /\ a.offset < Word /\ a.count \in Nat /\ a.count < Word
    BY <2>1, <2>3 DEF WebglDataAssumption
  <2> QED BY <2>1, <2>2, <2>3, <2>4
<1>5. o + c < Word => (o + c) % Word = o + c
  <2>0. Word \in Nat /\ o + c \in Nat /\ Word > 0
    BY <1>4
  <2>1. PICK d \in Nat, n \in Nat : d = Word /\ n = o + c /\ d > 0
    BY <2>0
  <2>2. n < d => n % d = n
    BY <2>1, Division
  <2> QED BY <2>1, <2>2
<1>6. RangeInView'
  <2> SUFFICES ASSUME a.op \in {"range", "written"}, call'.given # Refused
               PROVE  call'.given[1] + call'.given[2] <= a.length
    BY <1>2 DEF RangeInView
  <2> DEFINE n == IF a.count # 0 THEN a.count ELSE a.length - a.offset
  <2>1. InRange(a) /\ ~Negative(n) /\ call'.given = <<a.offset, n>>
    BY DEF Ranged, Calls, CallsWith
  <2>2. o <= l /\ (c # 0 => (o + c) % Word <= l)
    BY <2>1, <1>4 DEF InRange
  <2>3. (IF c # 0 THEN c ELSE l - o) < half
    BY <2>1, <1>4 DEF Negative
  <2>4. o + (IF c # 0 THEN c ELSE l - o) <= l
    BY <1>4, <1>5, <2>2, <2>3
  <2> QED BY <2>1, <2>4, <1>4
<1>7. ListInArray'
  <2> SUFFICES ASSUME a.op \in {"typed", "array"}, call'.given # Refused,
                      a.op = "typed" \/ a.offset + a.count < Word,
                      a.clears => ~(a.length - a.offset < a.pixel)
               PROVE  call'.given[1] + call'.given[2] <= a.length
    BY <1>2, <1>4 DEF ListInArray
  <2>1. CASE VertexAttrib(a) /\ a.offset = 0
    <3>1. call'.given = <<0, a.pixel>> /\ ~(a.length < a.pixel)
      BY <2>1 DEF VertexAttrib, Calls, CallsWith
    <3> QED BY <3>1, <1>4
  <2>2. CASE UniformList(a) /\ a.pixel > 0
    <3> DEFINE n == IF a.count # 0 THEN a.count ELSE a.length - a.offset
    <3>1. InList(a) /\ call'.given = <<a.offset, (n \div a.pixel) * a.pixel>>
      BY <2>2 DEF UniformList, Calls, CallsWith
    <3>2. o <= l
      BY <3>1, <1>4 DEF InList, InTypedList
    <3>3. CASE a.op = "typed"
      <4>1. c <= l - o
        BY <3>1, <3>3, <1>4 DEF InList, InTypedList
      <4>2. n \in Nat /\ o + n <= l
        BY <4>1, <3>2, <1>4
      <4> HIDE DEF n
      <4>3. (n \div p) * p <= n /\ n \div p \in Nat
        BY <4>2, <2>2, <1>4, Division
      <4>4. PICK k \in Nat : k = (n \div p) * p
        BY <4>3
      <4>5. o + k <= l
        BY <4>2, <4>3, <4>4, <1>4
      <4> QED BY <3>1, <4>4, <4>5, <1>4
    <3>4. CASE a.op = "array"
      <4>0. "array" # "typed"
        OBVIOUS
      <4>1. c # 0 => (o + c) % Word <= l
        BY <3>1, <3>4, <4>0, <1>4 DEF InList
      <4>2. n \in Nat /\ o + n <= l
        BY <4>0, <4>1, <3>2, <3>4, <1>4, <1>5
      <4> HIDE DEF n
      <4>3. (n \div p) * p <= n /\ n \div p \in Nat
        BY <4>2, <2>2, <1>4, Division
      <4>4. PICK k \in Nat : k = (n \div p) * p
        BY <4>3
      <4>5. o + k <= l
        BY <4>2, <4>3, <4>4, <1>4
      <4> QED BY <3>1, <4>4, <4>5, <1>4
    <3> QED BY <3>3, <3>4
  <2>3. CASE ClearBuffer(a) /\ a.clears
    <3>1. call'.given = <<a.offset, a.pixel>>
      BY <2>3 DEF ClearBuffer, Calls, CallsWith
    <3> QED BY <3>1, <2>3, <1>4
  <2> QED BY <2>1, <2>2, <2>3
<1> QED BY <1>1, <1>3, <1>6, <1>7 DEF BytesInView

(* A call that asked for nothing says nothing.                             *)
LEMMA NothingAsked ==
  ASSUME call.asked = NoCall
  PROVE  BytesInView
<1>1. call.asked.op = "none"
  BY DEF NoCall
<1> QED
  BY <1>1 DEF BytesInView, ImageInView, RowsAsAsked, RangeInView, ListInArray, Images

(* Setting a pixel store forgets the call before it and stays within the   *)
(* values there are.                                                       *)
LEMMA ForgetsKeeps ==
  ASSUME WebglDataAssumption, Stores, PixelStorei
  PROVE  Stores' /\ BytesInView'
<1>1. call'.asked.op = "none"
  BY DEF PixelStorei, Forgets, NoCall
<1>2. BytesInView'
  BY <1>1 DEF BytesInView, ImageInView, RowsAsAsked, RangeInView, ListInArray, Images
<1>3. Alignments \subseteq Int /\ RowLengths \subseteq Int
  BY DEF WebglDataAssumption
<1>4. store' \in [align : Int, row : Int, pack : Int, flip : BOOLEAN]
  BY <1>3 DEF PixelStorei, Stores
<1>5. gl' \in [align : Int, row : Int, pack : Int, other : Unkept \cup {"none"}]
  BY <1>3 DEF PixelStorei, Stores
<1>6. Stores'
  BY <1>4, <1>5 DEF Stores
<1> QED BY <1>2, <1>6

(* A step of any action keeps the invariant.                               *)
LEMMA DataStep ==
  ASSUME WebglDataAssumption, DataInv, [WebglDataNext]_dataVars
  PROVE  DataInv'
<1>s. Stores
  BY DEF DataInv
<1>w. /\ Widths \subseteq Int /\ Heights \subseteq Int /\ Vectors \subseteq Nat \ {0}
      /\ Pixels \subseteq Nat /\ Lengths \subseteq Nat /\ Offsets \subseteq Nat
  <2>1. Word \in Nat /\ Word \div 2 \in Int
    BY DEF WebglDataAssumption
  <2> QED BY <2>1 DEF WebglDataAssumption
<1>k. UNCHANGED <<store, gl>> => Stores'
  BY <1>s DEF Stores
<1>1. CASE PixelStorei
  BY <1>1, <1>s, ForgetsKeeps DEF DataInv
<1>2. ASSUME NEW width \in Widths, NEW height \in Heights, NEW pixel \in Pixels,
             NEW length \in Lengths, NEW offset \in Offsets, NEW op \in Images,
             NEW a, a.op = op, a.width = width, a.height = height, a.pixel = pixel,
             a.length = length, a.offset = offset,
             \/ op \in {"image", "layers"} /\ TexImage(a)
             \/ op = "readback" /\ ReadPixels(a)
      PROVE  DataInv'
  <2>1. Argued(a)
    BY <1>2, <1>w DEF Argued
  <2>2. BytesInView' /\ UNCHANGED <<store, gl>>
    BY <1>2, <1>s, <2>1, ImagesStep
  <2> QED BY <1>k, <2>2 DEF DataInv
<1>3. ASSUME NEW length \in Lengths, NEW offset \in Offsets \cup {0}, NEW count \in Counts \cup {0},
             NEW pixel \in Nat, NEW op \in {"range", "written", "typed", "array"},
             NEW a, a.op = op, a.length = length, a.offset = offset, a.count = count,
             a.pixel = pixel,
             \/ op \in {"range", "written"} /\ Ranged(a)
             \/ op \in {"typed", "array"} /\ pixel > 0 /\ UniformList(a)
             \/ op \in {"typed", "array"} /\ pixel > 0 /\ offset = 0 /\ VertexAttrib(a)
             \/ op \in {"typed", "array"} /\ pixel > 0 /\ a.clears /\ ClearBuffer(a)
      PROVE  DataInv'
  <2>1. BytesInView' /\ UNCHANGED <<store, gl>>
    BY <1>3, RangesStep
  <2> QED BY <1>k, <2>1 DEF DataInv
<1>4. ASSUME NEW width \in Widths, NEW height \in Heights, NEW pixel \in Pixels,
             NEW length \in Lengths, NEW offset \in Offsets,
             LET a == [NoCall EXCEPT !.op = "image", !.width = width, !.height = height,
                         !.pixel = pixel, !.length = length, !.offset = offset] IN
             \/ TexImage(a)
             \/ TexImage([a EXCEPT !.op = "layers"])
             \/ ReadPixels([a EXCEPT !.op = "readback"])
      PROVE  DataInv'
  <2> DEFINE a == [NoCall EXCEPT !.op = "image", !.width = width, !.height = height,
                     !.pixel = pixel, !.length = length, !.offset = offset]
             Of(b, op) == /\ b.op = op /\ b.width = width /\ b.height = height
                          /\ b.pixel = pixel /\ b.length = length /\ b.offset = offset
  <2>1. Of(a, "image") /\ Of([a EXCEPT !.op = "layers"], "layers")
        /\ Of([a EXCEPT !.op = "readback"], "readback")
    BY DEF NoCall
  <2>2. {"image", "layers", "readback"} = Images
    BY DEF Images
  <2>3. CASE TexImage(a)
    <3>1. Of(a, "image") /\ TexImage(a)
      BY <2>1, <2>3
    <3> HIDE DEF a
    <3> QED BY <3>1, <2>2, <1>2
  <2>4. CASE TexImage([a EXCEPT !.op = "layers"])
    <3> DEFINE b == [a EXCEPT !.op = "layers"]
    <3>1. Of(b, "layers") /\ TexImage(b)
      BY <2>1, <2>4
    <3> HIDE DEF b
    <3> QED BY <3>1, <2>2, <1>2
  <2>5. CASE ReadPixels([a EXCEPT !.op = "readback"])
    <3> DEFINE b == [a EXCEPT !.op = "readback"]
    <3>1. Of(b, "readback") /\ ReadPixels(b)
      BY <2>1, <2>5
    <3> HIDE DEF b
    <3> QED BY <3>1, <2>2, <1>2
  <2> QED BY <1>4, <2>3, <2>4, <2>5
<1>5. ASSUME NEW length \in Lengths, NEW offset \in Offsets, NEW count \in Counts,
             LET a == [NoCall EXCEPT !.op = "range", !.length = length, !.offset = offset,
                         !.count = count] IN
             \/ Ranged(a)
             \/ GetBufferSubData([a EXCEPT !.op = "written"])
             \/ \E op \in {"typed", "array"}, n \in Vectors :
                  UniformList([a EXCEPT !.op = op, !.pixel = n])
      PROVE  DataInv'
  <2> DEFINE a == [NoCall EXCEPT !.op = "range", !.length = length, !.offset = offset,
                     !.count = count]
             Of(b, op, n) == /\ b.op = op /\ b.length = length /\ b.offset = offset
                             /\ b.count = count /\ b.pixel = n
  <2>1. /\ Of(a, "range", 1) /\ Of([a EXCEPT !.op = "written"], "written", 1)
        /\ \A op, n : Of([a EXCEPT !.op = op, !.pixel = n], op, n)
    BY DEF NoCall
  <2>2. CASE Ranged(a)
    <3>1. Of(a, "range", 1) /\ Ranged(a)
      BY <2>1, <2>2
    <3> HIDE DEF a
    <3> QED BY <3>1, <1>3
  <2>3. CASE GetBufferSubData([a EXCEPT !.op = "written"])
    <3> DEFINE b == [a EXCEPT !.op = "written"]
    <3>1. Of(b, "written", 1) /\ Ranged(b)
      BY <2>1, <2>3 DEF GetBufferSubData
    <3> HIDE DEF b
    <3> QED BY <3>1, <1>3
  <2>4. ASSUME NEW op \in {"typed", "array"}, NEW n \in Vectors,
               UniformList([a EXCEPT !.op = op, !.pixel = n])
        PROVE  DataInv'
    <3> DEFINE b == [a EXCEPT !.op = op, !.pixel = n]
    <3>1. Of(b, op, n) /\ UniformList(b)
      BY <2>1, <2>4
    <3>2. n \in Nat /\ n > 0
      BY <1>w
    <3> HIDE DEF b
    <3> QED BY <3>1, <3>2, <1>3
  <2> QED BY <1>5, <2>2, <2>3, <2>4
<1>6. ASSUME NEW length \in Lengths, NEW op \in {"typed", "array"}, NEW n \in Vectors,
             VertexAttrib([NoCall EXCEPT !.op = op, !.length = length, !.pixel = n])
      PROVE  DataInv'
  <2> DEFINE b == [NoCall EXCEPT !.op = op, !.length = length, !.pixel = n]
  <2>1. b.op = op /\ b.length = length /\ b.offset = 0 /\ b.count = 0 /\ b.pixel = n
    BY DEF NoCall
  <2>2. VertexAttrib(b)
    BY <1>6
  <2>3. n \in Nat /\ n > 0
    BY <1>w
  <2> HIDE DEF b
  <2> QED BY <1>3, <2>1, <2>2, <2>3
<1>7. ASSUME NEW length \in Lengths, NEW op \in {"typed", "array"}, NEW n \in Vectors,
             NEW offset \in Offsets,
             LET a == [NoCall EXCEPT !.op = op, !.length = length, !.pixel = n] IN
             ClearBuffer([a EXCEPT !.offset = offset, !.clears = TRUE])
      PROVE  DataInv'
  <2> DEFINE a == [NoCall EXCEPT !.op = op, !.length = length, !.pixel = n]
             b == [a EXCEPT !.offset = offset, !.clears = TRUE]
  <2>1. /\ b.op = op /\ b.length = length /\ b.offset = offset /\ b.count = 0 /\ b.pixel = n
        /\ b.clears
    BY DEF NoCall
  <2>2. ClearBuffer(b)
    BY <1>7
  <2>3. n \in Nat /\ n > 0
    BY <1>w
  <2> HIDE DEF b
  <2> QED BY <1>3, <2>1, <2>2, <2>3
<1>8. CASE UNCHANGED dataVars
  BY <1>8 DEF dataVars, DataInv, Stores, BytesInView, ImageInView, RowsAsAsked, RangeInView,
     ListInArray, Agree, Exact, Apart, Layout
<1> QED
  BY <1>1, <1>4, <1>5, <1>6, <1>7, <1>8 DEF WebglDataNext

(* BytesInView: GL is given the bytes the call means and none outside the  *)
(* view, at any flip, offset and count, for sizes and pixel stores that    *)
(* are exact, that GL shares and that do not overlap in a copy (webgl.cc). *)
THEOREM GlStaysInView ==
  ASSUME WebglDataAssumption
  PROVE  WebglDataSpec => []BytesInView
<1>1. WebglDataInit => DataInv
  <2> SUFFICES ASSUME WebglDataInit PROVE DataInv
    OBVIOUS
  <2>1. BytesInView
    BY NothingAsked DEF WebglDataInit
  <2>2. Stores
    BY DEF WebglDataInit, Stores
  <2> QED BY <2>1, <2>2 DEF DataInv
<1>2. DataInv /\ [WebglDataNext]_dataVars => DataInv'
  BY DataStep
<1>3. DataInv => BytesInView
  BY DEF DataInv
<1> QED BY <1>1, <1>2, <1>3, PTL DEF WebglDataSpec
=============================================================================
