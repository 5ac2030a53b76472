----------------------------- MODULE WebglObjects -----------------------------
(***************************************************************************)
(* The objects of a WebGL context and what it knows of the screen          *)
(* (webgl.cc).  A wrapper in JavaScript holds a name of GL's; GL gives a   *)
(* name that is free again to the next object.  The context keeps its own  *)
(* copy of the draw framebuffer, to know whether a frame has anything new  *)
(* to present.                                                             *)
(*                                                                         *)
(* GL itself is external: it is taken to keep a program while it is used,  *)
(* and a shader while it is attached, after they were deleted, and to bind *)
(* the back buffer where the bound framebuffer is deleted.  A script       *)
(* passes objects of the kind a call takes.                                *)
(***************************************************************************)
EXTENDS Naturals

CONSTANTS Wrappers,   \* objects in JavaScript
          Names,      \* names GL gives; not 0
          MaxMade     \* objects made

\* What the model asks of its constants.
WebglObjectsAssumption == Names \subseteq Nat \ {0} /\ MaxMade \in Nat

VARIABLES object,     \* wrapper -> GLObj: kind, id, and which object it was made for
          made,       \* objects made so far, each known by its number
          forked,     \* a shader was deleted that has another wrapper
          frame,      \* name -> the framebuffer that has it, or 0
          code,       \* name -> the shader or program that has it, or 0
          marked,     \* names of shaders and programs to be deleted when let go
          attached,   \* pairs of a program's name and a shader's
          current,    \* name of the current program
          bound,      \* GL's draw framebuffer; 0 is the back buffer
          drawFbo,    \* draw_fbo
          dirty,      \* dirty
          drawn,      \* how the back buffer was drawn to since it was presented
          orphaned    \* the draw framebuffer was deleted since it was bound

glVars == <<frame, code, marked, attached, current, bound>>
screenVars == <<drawFbo, dirty, drawn, orphaned>>
webglVars == <<object, made, forked, glVars, screenVars>>

NoObject == [kind |-> "none", id |-> 0, of |-> 0]
ObjectKinds == {"framebuffer", "shader", "program"}

WebglObjectsInit ==
    /\ object = [w \in Wrappers |-> NoObject] /\ made = 0 /\ forked = FALSE
    /\ frame = [n \in Names |-> 0] /\ code = [n \in Names |-> 0]
    /\ marked = {} /\ attached = {} /\ current = 0 /\ bound = 0
    /\ drawFbo = 0 /\ dirty = FALSE /\ drawn = {} /\ orphaned = FALSE

-----------------------------------------------------------------------------
(* GL.                                                                     *)
\* What is left when the shaders and programs of `gone` go: a program takes
\* its attachments with it, and with them the shaders that only it kept.
Kept(pairs, gone) == {p \in pairs : p[1] \notin gone}
Loose(pairs, gone) ==
    gone \cup {n \in marked : /\ \E p \in pairs : p[1] \in gone /\ p[2] = n
                              /\ \A p \in Kept(pairs, gone) : p[2] # n}
Frees(gone) ==
    LET all == Loose(attached, gone) IN
    /\ code' = [n \in Names |-> IF n \in all THEN 0 ELSE code[n]]
    /\ marked' = marked \ all /\ attached' = Kept(attached, gone)

InUse(n) == n = current \/ \E p \in attached : p[2] = n

-----------------------------------------------------------------------------
(* CREATE_OBJ, createProgram, createShader                                 *)
NewObject(kind, id) == [kind |-> kind, id |-> id, of |-> made + 1]

Create(w, kind, n) ==
    /\ object[w] = NoObject /\ made < MaxMade /\ made' = made + 1
    /\ object' = [object EXCEPT ![w] = NewObject(kind, n)]
    /\ IF kind = "framebuffer"
       THEN /\ frame[n] = 0 /\ frame' = [frame EXCEPT ![n] = made + 1] /\ UNCHANGED code
       ELSE /\ code[n] = 0 /\ code' = [code EXCEPT ![n] = made + 1] /\ UNCHANGED frame
    /\ UNCHANGED <<forked, marked, attached, current, bound, screenVars>>

\* getAttachedShaders: another wrapper for a shader
GetAttachedShader(w, v, p) ==
    /\ object[w] = NoObject /\ object[v].kind = "program" /\ p \in attached
    /\ p[1] = object[v].id
    /\ object' = [object EXCEPT ![w] = [kind |-> "shader", id |-> p[2], of |-> code[p[2]]]]
    /\ forked' = (forked \/ p[2] \in marked)
    /\ UNCHANGED <<made, glVars, screenVars>>

\* DELETE_OBJ, deleteProgram, deleteShader: once
\* mutant: the wrapper keeps the name
ForgottenNot(o) == o
Forgotten(o) == [o EXCEPT !.id = 0]

DeleteFramebuffer(w) ==
    LET n == object[w].id IN
    /\ object[w].kind = "framebuffer" /\ n # 0
    /\ frame' = [frame EXCEPT ![n] = 0]
    /\ bound' = IF bound = n THEN 0 ELSE bound
    /\ orphaned' = (orphaned \/ bound = n)
    /\ object' = [object EXCEPT ![w] = Forgotten(@)]
    /\ UNCHANGED <<made, forked, code, marked, attached, current, drawFbo, dirty, drawn>>

DeleteCode(w) ==
    LET n == object[w].id IN
    /\ object[w].kind \in {"shader", "program"} /\ n # 0
    /\ IF code[n] = 0 THEN UNCHANGED <<code, marked, attached>>
       ELSE IF InUse(n) THEN marked' = marked \cup {n} /\ UNCHANGED <<code, attached>>
       ELSE Frees({n})
    /\ object' = [object EXCEPT ![w] = Forgotten(@)]
    /\ forked' = (forked \/ \E v \in Wrappers \ {w} : object[v] = object[w])
    /\ UNCHANGED <<made, frame, current, bound, screenVars>>

\* free_gl_obj: the wrapper is collected, what it names stays with GL
Collect(w) ==
    /\ object[w] # NoObject
    /\ object' = [object EXCEPT ![w] = NoObject]
    /\ UNCHANGED <<made, forked, glVars, screenVars>>

-----------------------------------------------------------------------------
(* attachShader, detachShader, useProgram                                  *)
AttachShader(v, w) ==
    /\ object[v].kind = "program" /\ object[w].kind = "shader"
    /\ object[v].id # 0 /\ object[w].id # 0
    /\ code[object[v].id] = object[v].of /\ code[object[w].id] = object[w].of
    /\ attached' = attached \cup {<<object[v].id, object[w].id>>}
    /\ UNCHANGED <<object, made, forked, frame, code, marked, current, bound, screenVars>>

DetachShader(v, p) ==
    /\ object[v].kind = "program" /\ p \in attached /\ p[1] = object[v].id
    /\ attached' = attached \ {p}
    /\ IF p[2] \in marked /\ ~\E q \in attached' : q[2] = p[2]
       THEN code' = [code EXCEPT ![p[2]] = 0] /\ marked' = marked \ {p[2]}
       ELSE UNCHANGED <<code, marked>>
    /\ UNCHANGED <<object, made, forked, frame, current, bound, screenVars>>

UseProgram(n) ==
    /\ n # current /\ current' = n
    /\ IF current \in marked THEN Frees({current}) ELSE UNCHANGED <<code, marked, attached>>
    /\ UNCHANGED <<object, made, forked, frame, bound, screenVars>>

Program(v) == object[v].kind = "program" /\ object[v].id # 0 /\ code[object[v].id] = object[v].of

-----------------------------------------------------------------------------
(* The screen.                                                             *)
Targets == {"framebuffer", "draw", "read"}
\* mutant: a read framebuffer is taken for a draw framebuffer
TrackedAll(target) == TRUE
Tracked(target) == target \in {"framebuffer", "draw"}

\* bindFramebuffer, of null or an object that may be deleted
BindFramebuffer(target, id) ==
    /\ drawFbo' = IF Tracked(target) THEN id ELSE drawFbo
    /\ bound' = IF target \in {"framebuffer", "draw"} THEN id ELSE bound
    /\ orphaned' = (target = "read" /\ orphaned)
    /\ UNCHANGED <<object, made, forked, frame, code, marked, attached, current, dirty, drawn>>

Ids == {0} \cup {object[w].id : w \in {v \in Wrappers : object[v].kind = "framebuffer"}}

\* mark_dirty; clear and clearBuffer, blitFramebuffer and the draws
MarkDirty == dirty' = (dirty \/ drawFbo = 0)
Draw ==
    /\ MarkDirty
    /\ drawn' = drawn \cup (IF bound # 0 THEN {} ELSE IF orphaned THEN {"orphaned"} ELSE {"bound"})
    /\ UNCHANGED <<object, made, forked, glVars, drawFbo, orphaned>>

\* nx_webgl_present: eglSwapBuffers, or a wait of one frame
PresentFrame ==
    /\ dirty' = FALSE /\ drawn' = IF dirty THEN {} ELSE drawn
    /\ UNCHANGED <<object, made, forked, glVars, drawFbo, orphaned>>

WebglObjectsNext ==
    \/ \E w \in Wrappers :
         \/ \E kind \in ObjectKinds, n \in Names : Create(w, kind, n)
         \/ \E v \in Wrappers, p \in attached : GetAttachedShader(w, v, p)
         \/ DeleteFramebuffer(w) \/ DeleteCode(w) \/ Collect(w)
         \/ \E v \in Wrappers : AttachShader(w, v)
         \/ \E p \in attached : DetachShader(w, p)
         \/ Program(w) /\ UseProgram(object[w].id)
    \/ UseProgram(0)
    \/ \E target \in Targets, id \in Ids : BindFramebuffer(target, id)
    \/ Draw \/ PresentFrame

WebglObjectsSpec == WebglObjectsInit /\ [][WebglObjectsNext]_webglVars

-----------------------------------------------------------------------------
(* The context and GL hold names and objects of their types.               *)
WebglObjectsTypeOK ==
    /\ object \in [Wrappers -> [kind : ObjectKinds \cup {"none"}, id : Names \cup {0},
                              of : 0 .. MaxMade]]
    /\ made \in 0 .. MaxMade
    /\ frame \in [Names -> 0 .. MaxMade] /\ code \in [Names -> 0 .. MaxMade]
    /\ marked \subseteq Names /\ attached \subseteq Names \X Names
    /\ {current, bound, drawFbo} \subseteq Names \cup {0}
    /\ {dirty, orphaned, forked} \subseteq BOOLEAN /\ drawn \subseteq {"bound", "orphaned"}

(* A wrapper names the object it was made for, or nothing: never one that  *)
(* was given its name later, as long as no shader is deleted that          *)
(* getAttachedShaders gave a second wrapper (DELETE_OBJ, deleteProgram,    *)
(* deleteShader).                                                          *)
NamesItsOwn ==
    forked \/ \A w \in Wrappers :
        LET o == object[w] IN
        o.id # 0 => o.of = IF o.kind = "framebuffer" THEN frame[o.id] ELSE code[o.id]

(* What was drawn to the back buffer waits to be presented as `dirty`,     *)
(* whatever was bound for drawing and reading, unless the framebuffer      *)
(* drawn to was deleted while it was bound (mark_dirty).                   *)
DrawnIsDirty == "bound" \in drawn => dirty

(* Wrappers, names that GL gives out again and the back buffer agree       *)
(* (webgl.cc).                                                             *)
ObjectsAsNamed == NamesItsOwn /\ DrawnIsDirty

(* The same, whatever was deleted: "The default framebuffer was drawn to   *)
(* since the last present" (webgl.cc 85).                                  *)
DirtyWhenDrawn == drawn # {} => dirty
=============================================================================
