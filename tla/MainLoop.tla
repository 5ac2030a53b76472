------------------------------- MODULE MainLoop -------------------------------
(***************************************************************************)
(* The native program from its start to its end: main.cc with error.cc and *)
(* the parts of module.cc, hidsys.cc, skia_gpu.cc and webgl.cc it calls.   *)
(* It acquires the system's services, gives V8 a heap, evaluates           *)
(* runtime.js and the app, runs the event loop, and gives everything back. *)
(* V8 can give up at any point where it runs: in the applet regime the     *)
(* program then takes itself down by a second, shorter road.               *)
(*                                                                         *)
(* A script is what it calls: each call is an action, taken in any order   *)
(* and number while the program is at a stage that runs JavaScript.  The   *)
(* contexts of the screen (screen.ts, console-screen.ts) are kept because  *)
(* they decide how often framebufferInit is called.                        *)
(***************************************************************************)
EXTENDS Naturals, Sequences, FiniteSets

CONSTANTS Regimes,      \* the memory grants, renderers and terminals tried
          Grants,       \* free memory, in MiB
          Arenas,       \* address space of V8's arena, in MiB
          Limits,       \* heap_limit of nxjs.ini, in MiB; 0 is none
          MayFail,      \* services whose absence the program survives
          Promises,     \* promises of the app
          None

\* What the model asks of its constants.
ASSUME MainLoopAssumption ==
    /\ Regimes \subseteq [tight : BOOLEAN, renderer : {"auto", "cpu", "gpu"},
                          terminal : BOOLEAN]
    /\ Grants \cup Arenas \cup Limits \subseteq Nat
    /\ MayFail \subseteq {"nv", "hidsys", "romfsApp"}
    /\ None \notin Promises

VARIABLES at,           \* where main is
          regime,       \* what the launch gave, and nxjs.ini asked for
          budget,       \* the memory V8 is given, while it is decided
          held,         \* what the program holds of the system
          closed,       \* how often each of it was given back
          display,      \* who owns the window, and what main believes of it
          context,      \* the contexts of the screen, in JavaScript
          hooks,        \* the handlers runtime.js has installed
          running,      \* is_running
          failed,       \* had_error
          plus,         \* `+` was pressed since the pads were last read
          promise,      \* which promises are rejected with no handler
          pending,      \* unhandled_rejected_promise
          step          \* the next step of a teardown

loopVars == <<at, regime, budget, held, closed, display, context, hooks,
              running, failed, plus, promise, pending, step>>

Hooks == <<"error", "rejection", "frame", "exit">>
Settled == [p \in Promises |-> "settled"]
NoBudget == [heap |-> 0, ceiling |-> 0, reserve |-> 0]

\* Services main holds from its start, and what scripts add to them: the
\* poll handles of sockets, and the libraries opened at their first use (spl,
\* mbedtls with its certificates, FreeType).
Services == {"romfsNxjs", "log", "sockets", "pl", "uv", "arena"}
Holdable == Services \cup {"nv", "hidsys", "romfsApp", "parachute", "polls",
                           "libraries"}

(***************************************************************************)
(* The memory of V8 (main): how much of what the system can back its heap  *)
(* may take.  Sizes are unsigned, here of WordMiB.                         *)
(***************************************************************************)
WordMiB == 1048576

CanJit(r, jit) == jit = "on" \/ (jit = "auto" /\ ~r.tight)

Reserve(r, jit) ==
    IF ~CanJit(r, jit) THEN 48
    ELSE IF r.tight /\ r.renderer # "gpu" THEN 96 ELSE 180

Ceiling(r, free, arena) ==
    IF r.tight THEN free ELSE IF arena = 0 THEN 192 ELSE arena

\* mutant: the reserve is taken from a smaller ceiling
BackableUnguarded(ceiling, reserve) == (ceiling - reserve) % WordMiB
Backable(ceiling, reserve) == IF ceiling > reserve THEN ceiling - reserve ELSE 0

HeapLimit(ceiling, reserve, limit) ==
    LET backable == Backable(ceiling, reserve)
        wanted == IF limit \in 1..backable THEN limit ELSE backable
    IN  IF wanted < 32 THEN 32 ELSE IF wanted > 512 THEN 512 ELSE wanted

(***************************************************************************)
(* The window.  Each operator is one function of the code, as what it does *)
(* to the record: `owners` is who really holds the window, `framebuffer`   *)
(* and `gpu` the program's own pointer and flag (framebuffer # NULL,       *)
(* screen_is_gpu).                                                         *)
(***************************************************************************)
Dark == [owners |-> {}, framebuffer |-> FALSE, gpu |-> FALSE, mode |-> "init"]

Without(d, owner) == [d EXCEPT !.owners = @ \ {owner}]

ConsoleInit(d) == [d EXCEPT !.mode = "console", !.owners = @ \cup {"console"}]
ConsoleExit(d) == Without(d, "console")
FramebufferExit(d) ==
    IF d.framebuffer THEN [Without(d, "framebuffer") EXCEPT !.framebuffer = FALSE]
    ELSE d
WebglActive(d) == "webgl" \in d.owners

\* mutant: the window is given to EGL while Skia's EGL still has the flag
ReleaseForWebglKeepsFlag(d) ==
    IF d.gpu THEN Without(ConsoleExit(d), "gpu") ELSE FramebufferExit(ConsoleExit(d))
ReleaseForWebgl(d) ==
    LET c == ConsoleExit(d)
    IN  IF c.gpu THEN [Without(c, "gpu") EXCEPT !.gpu = FALSE] ELSE FramebufferExit(c)

WantsGpu(r) == r.renderer = "gpu" \/ (r.renderer = "auto" /\ ~r.tight)

\* nx_framebuffer_init closes a framebuffer it finds but leaves the pointer to
\* it; EGL is tried first where the regime wants it, then the framebuffer.
FramebufferInit(d, r, egl, raster) ==
    LET c == ConsoleExit(d)
        f == IF c.framebuffer THEN Without(c, "framebuffer") ELSE c
    IN  IF WantsGpu(r) /\ egl
        THEN [f EXCEPT !.owners = @ \cup {"gpu"}, !.gpu = TRUE, !.mode = "canvas"]
        ELSE [f EXCEPT !.owners = @ \cup (IF raster THEN {"framebuffer"} ELSE {}),
                       !.framebuffer = raster, !.gpu = FALSE, !.mode = "canvas"]

WebglContextNew(d, r, egl) ==
    IF r.tight /\ r.renderer # "gpu" THEN d
    ELSE IF egl
         THEN [ReleaseForWebgl(d) EXCEPT !.owners = @ \cup {"webgl"},
                                         !.mode = "canvas"]
         ELSE ReleaseForWebgl(d)

\* js_print: the console takes the window from the framebuffer, whatever
\* else has it.
Printed(d) == IF d.mode # "console" THEN ConsoleInit(FramebufferExit(d)) ELSE d

\* What the end of main closes, by the mode the screen was last put in.
ClosedByMode(d) ==
    IF d.mode = "console" THEN ConsoleExit(d)
    ELSE IF d.mode # "canvas" THEN d
    ELSE IF WebglActive(d) THEN Without(d, "webgl")
    ELSE IF d.gpu THEN Without(d, "gpu") ELSE FramebufferExit(d)

\* What the emergency road closes, by who has the window.
ClosedByOwner(d) ==
    ConsoleExit(IF WebglActive(d) THEN Without(d, "webgl")
                ELSE IF d.gpu THEN [Without(d, "gpu") EXCEPT !.gpu = FALSE]
                ELSE FramebufferExit(d))

-------------------------------------------------------------------------------
MainLoopInit ==
    /\ at = "launch" /\ regime \in Regimes /\ budget = NoBudget
    /\ held = {} /\ closed = [r \in Holdable |-> 0]
    /\ display = Dark /\ context = "none" /\ hooks = {}
    /\ running = TRUE /\ failed = FALSE /\ plus = FALSE
    /\ promise = Settled /\ pending = None /\ step = 1

\* The services are taken, and the heap is sized.
Launch ==
    /\ at = "launch" /\ at' = "memory"
    /\ \E missing \in SUBSET MayFail, free \in Grants, arena \in Arenas,
          limit \in Limits, jit \in {"auto", "on", "off"} :
        LET ceiling == Ceiling(regime, free, arena)
            reserve == Reserve(regime, jit)
        IN  /\ held' = Services \cup ({"nv", "hidsys", "romfsApp"} \ missing)
            /\ budget' = [heap |-> HeapLimit(ceiling, reserve, limit),
                          ceiling |-> ceiling, reserve |-> reserve]
    /\ UNCHANGED <<regime, closed, display, context, hooks, running,
                   failed, plus, promise, pending, step>>

\* The isolate is made.  With an entrypoint the console is opened before
\* runtime.js is evaluated; without one the reason is printed on it.
StartIsolate ==
    \E entrypoint \in BOOLEAN :
        /\ at = "memory"
        /\ at' = IF entrypoint THEN "runtime" ELSE "top"
        /\ failed' = ~entrypoint
        /\ display' = ConsoleInit(display)
        /\ budget' = NoBudget
        /\ UNCHANGED <<regime, held, closed, context, hooks, running, plus,
                       promise, pending, step>>

\* runtime.js is evaluated: it installs the hooks, and the applet regime sets
\* memory aside for the screen.
RuntimeReady ==
    \E reserved \in {{}, {"parachute"}} :
        /\ at = "runtime" /\ at' = "entry"
        /\ hooks' = {Hooks[i] : i \in 1..4}
        /\ held' = held \cup (IF regime.tight THEN reserved ELSE {})
        /\ UNCHANGED <<regime, budget, closed, display, context, running,
                       failed, plus, promise, pending, step>>

\* runtime.js throws, with some of its hooks installed: the app is not run.
RuntimeThrows ==
    \E n \in 0..3 :
        /\ at = "runtime" /\ at' = "top"
        /\ hooks' = {Hooks[i] : i \in 1..n}
        /\ failed' = TRUE
        /\ UNCHANGED <<regime, budget, held, closed, display, context, running,
                       plus, promise, pending, step>>

(***************************************************************************)
(* What a script may call.                                                 *)
(***************************************************************************)
ScriptStages == {"entry", "callbacks", "rejection", "frame", "unload"}
InScript == at \in ScriptStages

scriptFrame == <<at, regime, budget, hooks, plus, step>>

\* $.exit
Exit ==
    /\ InScript /\ running' = FALSE
    /\ UNCHANGED <<scriptFrame, held, closed, display, context, failed,
                   promise, pending>>

\* A socket polls, or a library is opened at its first use.
Opens ==
    \E r \in {"polls", "libraries"} \ held :
        /\ InScript /\ held' = held \cup {r}
        /\ UNCHANGED <<scriptFrame, closed, display, context, running, failed,
                       promise, pending>>

\* A promise is rejected with no handler: the last one is remembered.
Rejects ==
    \E p \in Promises :
        /\ InScript /\ promise[p] = "settled"
        /\ promise' = [promise EXCEPT ![p] = "rejected"]
        /\ pending' = p
        /\ UNCHANGED <<scriptFrame, held, closed, display, context, running,
                       failed>>

\* mutant: a promise that gets a handler stays remembered
HandledStaysPending(p) == pending
HandledLeaves(p) == IF pending = p THEN None ELSE pending

\* A rejected promise is given a handler after all.
Handles ==
    \E p \in Promises :
        /\ InScript /\ promise[p] = "rejected"
        /\ promise' = [promise EXCEPT ![p] = "settled"]
        /\ pending' = HandledLeaves(p)
        /\ UNCHANGED <<scriptFrame, held, closed, display, context, running,
                       failed>>

\* mutant: every use of the screen's 2D context initialises the framebuffer
FirstUseAlways(c) == c # "webgl"
FirstUse(c) == c = "none"

\* ensureContext of screen.ts: `user` becomes who asked for it.
EnsureContext(user) ==
    \E egl, raster \in BOOLEAN :
        /\ context' = user
        /\ IF FirstUse(context)
           THEN /\ display' = FramebufferInit(display, regime, egl, raster)
                /\ held' = IF display'.gpu THEN held ELSE held \ {"parachute"}
                /\ closed' = [closed EXCEPT !["parachute"] =
                                IF "parachute" \in held \ held' THEN @ + 1 ELSE @]
           ELSE UNCHANGED <<display, held, closed>>

\* console.log: the terminal's canvas is put on the screen unless the app owns
\* it; without a terminal the text is printed natively.
Logs ==
    /\ InScript
    /\ \/ regime.terminal /\ context \in {"none", "console"}
          /\ EnsureContext("console")
       \/ ~regime.terminal /\ display' = Printed(display)
          /\ UNCHANGED <<held, closed, context>>
    /\ UNCHANGED <<scriptFrame, running, failed, promise, pending>>

\* screen.getContext('2d')
GetContext2D ==
    /\ InScript /\ context # "webgl"
    /\ EnsureContext("app")
    /\ UNCHANGED <<scriptFrame, running, failed, promise, pending>>

\* screen.getContext('webgl2'): not over a 2D context of the app.
GetWebgl ==
    \E egl \in BOOLEAN :
        /\ InScript /\ context \in {"none", "console"}
        /\ display' = WebglContextNew(display, regime, egl)
        /\ context' = IF WebglActive(display') THEN "webgl" ELSE context
        /\ UNCHANGED <<scriptFrame, held, closed, running, failed, promise,
                       pending>>

Script == \/ Exit \/ Opens \/ Rejects \/ Handles \/ Logs \/ GetContext2D
          \/ GetWebgl

(***************************************************************************)
(* nx_emit_error_event and its like for rejections: the hook's result      *)
(* becomes had_error, 0 when the event was prevented; a hook that throws   *)
(* leaves it.                                                              *)
(***************************************************************************)
Reported(hook, result) ==
    CASE hook \notin hooks -> IF hook = "error" THEN TRUE ELSE failed
      [] result = "prevented" -> FALSE
      [] result = "shown" -> TRUE
      [] OTHER -> failed
Results == {"prevented", "shown", "throws"}

mainFrame == <<regime, budget, held, closed, display, context, hooks, step>>

\* The app's module returns, or throws.
EntryEnds ==
    /\ at = "entry" /\ at' = "top"
    /\ \/ UNCHANGED failed
       \/ \E result \in Results : failed' = Reported("error", result)
    /\ UNCHANGED <<mainFrame, running, plus, promise, pending>>

\* The top of a turn: appletMainLoop's answer only ends the loop when no EGL
\* has the window.
TurnBegins ==
    \E active \in BOOLEAN :
        /\ at = "top"
        /\ at' = IF ~running THEN "unload"
                 ELSE IF ~display.gpu /\ ~WebglActive(display) /\ ~active
                      THEN "unload"
                 ELSE IF failed THEN "pads" ELSE "callbacks"
        /\ UNCHANGED <<mainFrame, running, failed, plus, promise, pending>>

\* A callback of libuv or a microtask throws; the others of the turn follow.
CallbackThrows ==
    \E result \in Results :
        /\ at = "callbacks" /\ failed' = Reported("error", result)
        /\ UNCHANGED <<at, mainFrame, running, plus, promise, pending>>

\* libuv and the microtasks are done; a rejection left over is reported.
CallbacksEnd ==
    /\ at = "callbacks"
    /\ at' = IF pending = None THEN "pads" ELSE "rejection"
    /\ promise' = IF pending = None THEN promise
                  ELSE [promise EXCEPT ![pending] = "settled"]
    /\ UNCHANGED <<mainFrame, running, failed, plus, pending>>

RejectionEnds ==
    \E result \in Results :
        /\ at = "rejection" /\ at' = "pads"
        /\ failed' = Reported("rejection", result)
        /\ pending' = None
        /\ UNCHANGED <<mainFrame, running, plus, promise>>

\* Somebody presses `+`.
Press ==
    /\ at \notin {"launch", "memory", "runtime", "teardown", "emergency", "done", "killed"}
    /\ ~plus /\ plus' = TRUE
    /\ UNCHANGED <<at, mainFrame, running, failed, promise, pending>>

\* mutant: the loop looks for a frame handler before it looks for an error
LeavesUnlessFrame == plus /\ "frame" \notin hooks
Leaves == plus /\ (failed \/ "frame" \notin hooks)

\* The pads are read: a failed app, or one with no frame handler, is left by
\* `+`; otherwise the frame handler gets it.
ReadPads ==
    /\ at = "pads" /\ plus' = FALSE
    /\ at' = IF ~running \/ Leaves THEN "unload"
             ELSE IF failed \/ "frame" \notin hooks THEN "present" ELSE "frame"
    /\ UNCHANGED <<mainFrame, running, failed, promise, pending>>

FrameEnds ==
    /\ at = "frame"
    /\ \/ UNCHANGED failed
       \/ \E result \in Results : failed' = Reported("error", result)
    /\ at' = IF running THEN "present" ELSE "unload"
    /\ UNCHANGED <<mainFrame, running, plus, promise, pending>>

\* The frame is put on the screen by whatever the program believes has it.
Present ==
    /\ at = "present" /\ at' = "top"
    /\ UNCHANGED <<mainFrame, running, failed, plus, promise, pending>>

\* The exit handler returns, or there is none.  What scripts left is of no use
\* from here on.
Unloaded ==
    /\ at = "unload" /\ at' = "teardown"
    /\ hooks' = {} /\ context' = "none" /\ pending' = None /\ promise' = Settled
    /\ plus' = FALSE
    /\ UNCHANGED <<regime, budget, held, closed, display, running, failed, step>>

(***************************************************************************)
(* The two roads out, one release a step, in the order of the code.  A     *)
(* name is given back if it is held; "display" and "isolate" stand for the *)
(* steps that are not a release.                                           *)
(***************************************************************************)
\* mutant: the sockets go before the library that still has two of them
TeardownSocketsFirst ==
    <<"display", "polls", "isolate", "libraries", "hidsys", "sockets", "uv",
      "parachute", "nv", "pl", "romfsNxjs", "romfsApp", "log", "arena">>
Teardown ==
    <<"display", "polls", "isolate", "libraries", "hidsys", "uv", "parachute",
      "nv", "pl", "romfsNxjs", "romfsApp", "sockets", "log", "arena">>
\* mutant: the emergency road forgets the app's files
EmergencyForgets ==
    <<"display", "polls", "uv", "libraries", "hidsys", "parachute", "nv", "pl",
      "romfsNxjs", "sockets", "log", "arena">>
Emergency ==
    <<"display", "polls", "uv", "libraries", "hidsys", "parachute", "nv", "pl",
      "romfsApp", "romfsNxjs", "sockets", "log", "arena">>

\* uv_walk skips the handles that are closing, and every other release is
\* behind its flag.
\* mutant: it closes the descriptors of those too
ReleasableAgain(r) == r \in held \/ (r = "polls" /\ closed[r] > 0)
Releasable(r) == r \in held

Release(r) ==
    /\ held' = held \ {r}
    /\ closed' = IF Releasable(r) THEN [closed EXCEPT ![r] = @ + 1] ELSE closed
    /\ UNCHANGED display

Road == IF at = "emergency" THEN Emergency ELSE Teardown

TearsDown ==
    /\ at \in {"teardown", "emergency"}
    /\ IF Road[step] = "display"
       THEN /\ display' = IF at = "emergency" THEN ClosedByOwner(display)
                          ELSE ClosedByMode(display)
            /\ UNCHANGED <<held, closed>>
       ELSE IF Road[step] = "isolate" THEN UNCHANGED <<display, held, closed>>
       ELSE Release(Road[step])
    /\ IF step = Len(Road) THEN at' = "done" /\ step' = 1
       ELSE step' = step + 1 /\ UNCHANGED at
    /\ UNCHANGED <<regime, budget, context, hooks, running, failed, plus,
                   promise, pending>>

\* Where V8 runs: a script, and the end of main until the isolate is disposed,
\* for pending work still completes there.
V8Runs == \/ at \in ScriptStages \cup {"runtime"}
          \/ at = "teardown" /\ Teardown[step] \in {"polls", "isolate"}

\* nx_v8_fatal_exit: in the application regime the process ends at once.
Fatal ==
    /\ V8Runs
    /\ running' = IF regime.tight THEN FALSE ELSE running
    /\ at' = IF regime.tight THEN "emergency" ELSE "killed"
    /\ hooks' = {} /\ context' = "none" /\ pending' = None /\ promise' = Settled
    /\ plus' = FALSE /\ step' = 1
    /\ UNCHANGED <<regime, budget, held, closed, display, failed>>

MainSteps == \/ Launch \/ StartIsolate \/ RuntimeReady \/ RuntimeThrows
             \/ EntryEnds \/ TurnBegins \/ CallbacksEnd \/ RejectionEnds
             \/ ReadPads \/ FrameEnds \/ Present \/ Unloaded \/ TearsDown
MainLoopNext == MainSteps \/ Script \/ CallbackThrows \/ Press \/ Fatal

MainLoopSpec == MainLoopInit /\ [][MainLoopNext]_loopVars

\* Every script returns, and main goes on.
MainLoopFairSpec == MainLoopSpec /\ WF_loopVars(MainSteps)

-------------------------------------------------------------------------------
\* Every variable holds a value of its kind.
MainLoopTypeOK ==
    /\ at \in ScriptStages \cup {"launch", "memory", "runtime", "top", "pads",
              "present", "teardown", "emergency", "done", "killed"}
    /\ held \subseteq Holdable /\ hooks \subseteq {Hooks[i] : i \in 1..4}
    /\ display.owners \subseteq {"console", "framebuffer", "gpu", "webgl"}
    /\ context \in {"none", "console", "app", "webgl"}
    /\ pending \in Promises \cup {None} /\ step \in 1..14

\* V8's heap limit is between 32 and 512 MiB, and above the floor never more
\* than the system can back next to what the rest of the program needs, also
\* when the reserve is larger than the memory there is (main).
HeapWithinReach ==
    at = "memory" =>
        /\ budget.heap \in 32..512
        /\ budget.heap > 32 => budget.heap + budget.reserve <= budget.ceiling

\* The pointer and the flag the loop presents by agree with who has the
\* window, and no two renderers have it at once (nx_framebuffer_init,
\* nx_screen_release_for_webgl; a console printed over EGL aside).
ScreenHasOneRenderer ==
    at \in ScriptStages \cup {"top", "pads", "present"} =>
        /\ display.gpu <=> "gpu" \in display.owners
        /\ display.framebuffer <=> "framebuffer" \in display.owners
        /\ Cardinality(display.owners \ {"console"}) <= 1
        /\ {"console", "framebuffer"} \subseteq display.owners => FALSE

\* What is reported as an unhandled rejection at the end of a turn has no
\* handler then, whatever was rejected and handled since the last report
\* (nx_promise_rejection_handler).
ReportedIsUnhandled ==
    [][at = "callbacks" /\ at' = "rejection" => promise[pending] = "rejected"]_loopVars

\* Nothing of the system is given back twice, also when V8 gives up in the
\* middle of the teardown and the emergency road starts over.
ReleasedOnce == \A r \in Holdable : closed[r] <= 1

\* The sockets outlive every descriptor on them, libuv's own included, and
\* V8's arenas are unmapped last of all, on either road.
TeardownOrder ==
    at \notin {"launch", "memory"} =>
        /\ "sockets" \notin held => {"polls", "uv"} \cap held = {}
        /\ "arena" \notin held => held = {}

\* A program that is over holds nothing: it kept neither a service nor the
\* window, unless a console was printed over EGL (main, nx_emergency_teardown).
NothingLeftBehind ==
    at = "done" =>
        /\ held = {}
        /\ display.owners # {} => ~regime.terminal /\ display.mode = "console"

\* The screen is given back whatever had it.
ScreenReturned == at = "done" => display.owners = {}

\* The program ends once a script asked for it, and once `+` is pressed after
\* an error stopped the app: no error screen is without a way out.
AlwaysAWayOut ==
    (~running \/ (failed /\ plus /\ at \in {"top", "pads", "present"}))
        ~> at \in {"done", "killed"}

\* What was taken is given back once and in order, on every way out of the
\* program, and meanwhile the heap fits and the screen has one renderer (main,
\* nx_emergency_teardown).
ResourcesReturned ==
    /\ HeapWithinReach /\ ScreenHasOneRenderer
    /\ ReleasedOnce /\ TeardownOrder /\ NothingLeftBehind

\* Every error is one nobody handled, and leaves a way out (main,
\* nx_promise_reject).
ErrorsLeaveAWayOut == ReportedIsUnhandled /\ AlwaysAWayOut
===============================================================================
