------------------------------ MODULE Overrides ------------------------------
(* filters/modify.c and filters/camera.c: filter-sets that change the state of OpenGL
   behind the application, and have to put back what the application set.  wireframe
   overrides the polygon mode, frontbuffer the buffer that is drawn to, camera the top of
   the modelview stack.  Each keeps, in an object per context, what the application set,
   and follows its own activation, which other threads may cause as well.

   A matrix is [view, app]: the moves of the camera in it, and those of the application.
   One of the filter-sets is loaded.  Display lists are left out; OpenGL refuses the calls
   below within glBegin/glEnd, and the filters do nothing then. *)
EXTENDS Integers, Sequences, SequencesExt

CONSTANTS Thread, Context, None,
    MaxMoves,           \* bounds on the moves of the application and of the camera
    MaxView

VARIABLES
    loaded, active,     \* the filter-set, and its flag
    current,            \* the context of each thread, or None
    begin_end,          \* contexts between glBegin and glEnd
    gl,                 \* [polygon_mode, fbo, draw_buffer, matrix_mode, modelview] of a context
    ctx,                \* the object of a context, or None
    pointer,            \* [camera_intercept, grabbed]
    app,                \* history, per context: what the application made of gl,
    seen,               \* the flag when the context could last take notice of it,
    reset,              \* contexts whose view was reset and not loaded since,
    spoilt              \* and those in which what the application set is lost

vars == <<loaded, active, current, begin_end, gl, ctx, pointer, app, seen, reset, spoilt>>

Modes == {"FILL", "POINT", "LINE"}
Lines == [front |-> "LINE", back |-> "LINE"]
Fill == [front |-> "FILL", back |-> "FILL"]
Buffers == [fb \in 0 .. 1 |-> IF fb = 0 THEN {"BACK", "FRONT"} ELSE {"COLOR0", "NONE"}]
Identity == [view |-> 0, app |-> 0]
Zero == [view |-> 0, app |-> -1]

Fresh == [polygon_mode |-> Fill, fbo |-> 0, draw_buffer |-> [fb \in 0 .. 1 |-> IF fb = 0 THEN "BACK" ELSE "COLOR0"],
          matrix_mode |-> "MODELVIEW", modelview |-> <<Identity>>]

\* wireframe_context, frontbuffer_context, camera_context
Object == [active : BOOLEAN, real : BOOLEAN, polygon_mode : [front : Modes, back : Modes],
           draw_buffer : UNION {Buffers[fb] : fb \in 0 .. 1}, original : [view : Int, app : Int], modifier : Int,
           dirty : BOOLEAN, pressed : BOOLEAN]
NoneAssumption == None \notin Context \cup Object

Init ==
    /\ loaded \in {"wireframe", "frontbuffer", "camera"} /\ active \in BOOLEAN
    /\ current = [t \in Thread |-> None] /\ begin_end = {}
    /\ gl = [c \in Context |-> Fresh] /\ ctx = [c \in Context |-> None]
    /\ pointer = [camera_intercept |-> TRUE, grabbed |-> FALSE]
    /\ app = gl /\ seen = [c \in Context |-> FALSE] /\ reset = {} /\ spoilt = {}
-----------------------------------------------------------------------------
(* OpenGL *)
Top(g) == Last(g.modelview)
WithTop(g, m) == [g EXCEPT !.modelview = Append(Front(@), m)]

DrawTo(g, b) == IF b \in Buffers[g.fbo] THEN [g EXCEPT !.draw_buffer[g.fbo] = b] ELSE g

Moved(m) == IF m = Zero THEN Zero ELSE [m EXCEPT !.app = @ + 1]

\* a call that changes the matrix; those that fail change nothing
Transformed(g, op) ==
    IF g.matrix_mode # "MODELVIEW" THEN g
    ELSE CASE op = "glLoadIdentity" -> WithTop(g, Identity)
           [] op = "glTranslatef" -> WithTop(g, Moved(Top(g)))
           [] op = "glPushMatrix" /\ Len(g.modelview) < 2 -> [g EXCEPT !.modelview = Append(@, Top(g))]
           [] op = "glPopMatrix" /\ Len(g.modelview) > 1 -> [g EXCEPT !.modelview = Front(@)]
           [] OTHER -> g
-----------------------------------------------------------------------------
(* The filter-sets *)
Saved(g, x) ==
    CASE loaded = "wireframe" -> [x EXCEPT !.polygon_mode = g.polygon_mode]
      [] loaded = "frontbuffer" -> [x EXCEPT !.draw_buffer = g.draw_buffer[g.fbo]]
      [] loaded = "camera" -> [x EXCEPT !.original = Top(g)]

\* glLoadMatrixf of the modifier, then glMultMatrixf of the original
View(x) == IF x.original = Zero THEN Zero ELSE [x.original EXCEPT !.view = @ + x.modifier]

\* The camera waits for the next swap.
Overridden(g) ==
    CASE loaded = "wireframe" -> [g EXCEPT !.polygon_mode = Lines]
      [] loaded = "frontbuffer" -> DrawTo(g, "FRONT")
      [] loaded = "camera" -> g

PutBack(g, x) ==
    CASE loaded = "wireframe" -> [g EXCEPT !.polygon_mode = x.polygon_mode]
      [] loaded = "frontbuffer" -> DrawTo(g, x.draw_buffer)
      [] loaded = "camera" -> WithTop(g, x.original)

\* The lines are drawn before the mode is read back.
HandledLate(on, g, x) ==
    LET wanted == on /\ x.real IN
    IF wanted = x.active THEN [gl |-> g, ctx |-> x]
    ELSE IF wanted THEN [gl |-> Overridden(g), ctx |-> [Saved(Overridden(g), x) EXCEPT !.active = TRUE]]
    ELSE [gl |-> PutBack(g, x), ctx |-> [x EXCEPT !.active = FALSE]]

(* wireframe_handle_activation, frontbuffer_handle_activation, camera_handle_activation,
   outside of glBegin/glEnd *)
Handled(on, g, x) ==
    LET wanted == on /\ x.real IN
    IF wanted = x.active THEN [gl |-> g, ctx |-> x]
    ELSE IF wanted THEN [gl |-> Overridden(g),
                         ctx |-> [Saved(g, x) EXCEPT !.active = TRUE, !.dirty = loaded = "camera"]]
    ELSE [gl |-> PutBack(g, x), ctx |-> [x EXCEPT !.active = FALSE]]

\* wireframe_context_init, frontbuffer_context_init, camera_context_init
NewContext(g) ==
    LET x == [active |-> FALSE, real |-> TRUE, polygon_mode |-> Fill, draw_buffer |-> "NONE",
              original |-> Zero, modifier |-> 0, dirty |-> FALSE, pressed |-> FALSE]
    IN  IF ~active THEN [gl |-> g, ctx |-> x]
        ELSE [gl |-> Overridden(g),
              ctx |-> IF loaded = "wireframe" THEN x ELSE [Saved(g, x) EXCEPT !.active = TRUE]]

Put(c, s) == gl' = [gl EXCEPT ![c] = s.gl] /\ ctx' = [ctx EXCEPT ![c] = s.ctx]
Spoil(c, condition) == spoilt' = IF condition THEN spoilt \cup {c} ELSE spoilt

\* The context of a thread, between calls, and outside of glBegin/glEnd
Calls(t, c) == current[t] = c /\ c \notin begin_end \cup spoilt
Unseen(c) == active # seen[c]
-----------------------------------------------------------------------------
(* A context that is made current first while wireframe is active has its lines taken for
   what the application set.  With a framebuffer object bound, frontbuffer keeps the
   buffer of the object instead of the window's. *)
MakeCurrent(t, c) ==
    /\ current[t] \notin begin_end /\ c \notin spoilt
    /\ \A u \in Thread \ {t} : current[u] # c
    /\ current' = [current EXCEPT ![t] = c]
    /\ LET s == IF ctx[c] = None THEN NewContext(gl[c]) ELSE [gl |-> gl[c], ctx |-> ctx[c]]
       IN  /\ Put(c, Handled(active, s.gl, s.ctx))
           /\ Spoil(c, \/ (loaded = "wireframe" /\ active /\ ctx[c] = None)
                       \/ (loaded = "frontbuffer" /\ gl[c].fbo = 1 /\ active # s.ctx.active))
    /\ seen' = [seen EXCEPT ![c] = active]
    /\ UNCHANGED <<loaded, active, begin_end, pointer, app, reset>>

Release(t) ==
    /\ current[t] # None /\ current[t] \notin begin_end
    /\ current' = [current EXCEPT ![t] = None]
    /\ UNCHANGED <<loaded, active, begin_end, gl, ctx, pointer, app, seen, reset, spoilt>>

Begin(t, c) ==
    /\ Calls(t, c) /\ begin_end' = begin_end \cup {c}
    /\ UNCHANGED <<loaded, active, current, gl, ctx, pointer, app, seen, reset, spoilt>>

End(t, c) ==
    /\ current[t] = c /\ c \in begin_end /\ begin_end' = begin_end \ {c}
    /\ UNCHANGED <<loaded, active, current, gl, ctx, pointer, app, seen, reset, spoilt>>

(* The flag is changed by a thread, with a context or without one: wireframe_activation
   and wireframe_deactivation, frontbuffer_..., camera_... *)
Toggle(t) ==
    /\ active' = ~active
    /\ LET c == current[t] IN
       IF c \in Context \ begin_end
       THEN /\ Put(c, Handled(active', gl[c], ctx[c])) /\ seen' = [seen EXCEPT ![c] = active']
            /\ Spoil(c, loaded = "frontbuffer" /\ gl[c].fbo = 1 /\ active' # ctx[c].active)
       ELSE UNCHANGED <<gl, ctx, seen, spoilt>>
    /\ pointer' = IF loaded = "camera" /\ pointer.camera_intercept
                  THEN [pointer EXCEPT !.grabbed = active'] ELSE pointer
    /\ UNCHANGED <<loaded, current, begin_end, app, reset>>
-----------------------------------------------------------------------------
(* wireframe_glPolygonMode.  A mode that is set for the front only has that of the back
   read back with it, which the filter-set itself had set. *)
WithMode(g, face, m) ==
    [g EXCEPT !.polygon_mode = [front |-> m, back |-> IF face = "FRONT" THEN @.back ELSE m]]

PolygonMode(t, c, face, m) ==
    /\ loaded = "wireframe" /\ Calls(t, c)
    /\ LET g == WithMode(gl[c], face, m) IN
       Put(c, IF active /\ ctx[c].real
              THEN [gl |-> Overridden(g), ctx |-> Saved(g, ctx[c])]
              ELSE [gl |-> g, ctx |-> ctx[c]])
    /\ app' = [app EXCEPT ![c] = WithMode(@, face, m)]
    /\ Spoil(c, Unseen(c) \/ (face = "FRONT" /\ active /\ ctx[c].real))
    /\ UNCHANGED <<loaded, active, current, begin_end, pointer, seen, reset>>

\* classify_glBindFramebuffer, and wireframe_classify_callback
BindFramebuffer(t, c, fb) ==
    /\ loaded \in {"wireframe", "frontbuffer"} /\ Calls(t, c)
    /\ LET g == [gl[c] EXCEPT !.fbo = fb] IN
       IF loaded = "wireframe"
       THEN /\ Put(c, Handled(active, g, [ctx[c] EXCEPT !.real = (fb = 0)]))
            /\ seen' = [seen EXCEPT ![c] = active]
       ELSE gl' = [gl EXCEPT ![c] = g] /\ UNCHANGED <<ctx, seen>>
    /\ app' = [app EXCEPT ![c].fbo = fb]
    /\ UNCHANGED <<loaded, active, current, begin_end, pointer, reset, spoilt>>

(* frontbuffer_glDrawBuffer.  After a call that OpenGL refuses, GL_FRONT itself is taken for
   what the application set. *)
DrawBuffer(t, c, b) ==
    /\ loaded = "frontbuffer" /\ Calls(t, c)
    /\ LET g == DrawTo(gl[c], b) IN
       Put(c, IF active THEN [gl |-> Overridden(g), ctx |-> Saved(g, ctx[c])]
              ELSE [gl |-> g, ctx |-> ctx[c]])
    /\ app' = [app EXCEPT ![c] = DrawTo(@, b)]
    /\ Spoil(c, Unseen(c) \/ (active /\ (gl[c].fbo = 1 \/ b \notin Buffers[0])))
    /\ UNCHANGED <<loaded, active, current, begin_end, pointer, seen, reset>>

MatrixMode(t, c, m) ==
    /\ loaded = "camera" /\ Calls(t, c)
    /\ gl' = [gl EXCEPT ![c].matrix_mode = m] /\ app' = [app EXCEPT ![c].matrix_mode = m]
    /\ UNCHANGED <<loaded, active, current, begin_end, ctx, pointer, seen, reset, spoilt>>

\* camera_restore, which glLoadIdentity has not, the call, and camera_override
Restore(g, x) == IF g.matrix_mode = "MODELVIEW" THEN WithTop(g, x.original) ELSE g
Override(g, x) ==
    IF g.matrix_mode # "MODELVIEW" THEN [gl |-> g, ctx |-> x]
    ELSE [gl |-> WithTop(g, View(Saved(g, x))), ctx |-> Saved(g, x)]

MatrixCall(t, c, op) ==
    /\ loaded = "camera" /\ Calls(t, c)
    /\ op = "glTranslatef" => Top(app[c]).app < MaxMoves
    /\ LET g == IF active /\ op # "glLoadIdentity" THEN Restore(gl[c], ctx[c]) ELSE gl[c]
           h == Transformed(g, op)
       IN  Put(c, IF active THEN Override(h, ctx[c]) ELSE [gl |-> h, ctx |-> ctx[c]])
    /\ app' = [app EXCEPT ![c] = Transformed(@, op)]
    /\ Spoil(c, Unseen(c))
    /\ reset' = IF active /\ gl[c].matrix_mode = "MODELVIEW" THEN reset \ {c} ELSE reset
    /\ UNCHANGED <<loaded, active, current, begin_end, pointer, seen>>

(* camera_swap_buffers.  Zero is what is loaded in a context that the camera was not
   activated in. *)
Swap(t, c) ==
    /\ loaded = "camera" /\ active /\ Calls(t, c)
    /\ LET x == ctx[c]
           y == [x EXCEPT !.modifier = IF x.pressed THEN @ + 1 ELSE @, !.dirty = FALSE]
       IN  /\ x.pressed \/ x.dirty
           /\ y.modifier <= MaxView
           /\ Put(c, [gl |-> WithTop(gl[c], View(y)), ctx |-> y])
    /\ Spoil(c, Unseen(c)) /\ reset' = reset \ {c}
    /\ UNCHANGED <<loaded, active, current, begin_end, pointer, app, seen>>
-----------------------------------------------------------------------------
\* camera_mouse_callback
Mouse(t, c) ==
    /\ pointer.grabbed /\ current[t] = c /\ ctx[c].modifier < MaxView
    /\ ctx' = [ctx EXCEPT ![c].modifier = @ + 1, ![c].dirty = TRUE]
    /\ UNCHANGED <<loaded, active, current, begin_end, gl, pointer, app, seen, reset, spoilt>>

\* camera_key_callback, for those that camera_key_wanted lets through
Key(t, c, press) ==
    /\ loaded = "camera" /\ active /\ current[t] = c
    /\ ctx' = [ctx EXCEPT ![c].pressed = press]
    /\ UNCHANGED <<loaded, active, current, begin_end, gl, pointer, app, seen, reset, spoilt>>

KeyReset(t, c) ==
    /\ loaded = "camera" /\ active /\ current[t] = c
    /\ ctx' = [ctx EXCEPT ![c].modifier = 0] /\ reset' = reset \cup {c}
    /\ UNCHANGED <<loaded, active, current, begin_end, gl, pointer, app, seen, spoilt>>

KeyToggle(t) ==
    /\ loaded = "camera" /\ active /\ current[t] # None
    /\ LET on == ~pointer.camera_intercept IN pointer' = [camera_intercept |-> on, grabbed |-> on]
    /\ UNCHANGED <<loaded, active, current, begin_end, gl, ctx, app, seen, reset, spoilt>>

Next ==
    \E t \in Thread :
       \/ Release(t) \/ Toggle(t) \/ KeyToggle(t)
       \/ \E c \in Context :
             \/ MakeCurrent(t, c) \/ Begin(t, c) \/ End(t, c)
             \/ \E face \in {"FRONT", "FRONT_AND_BACK"}, m \in {"FILL", "POINT"} : PolygonMode(t, c, face, m)
             \/ \E fb \in 0 .. 1 : BindFramebuffer(t, c, fb)
             \/ \E b \in UNION {Buffers[fb] : fb \in 0 .. 1} : DrawBuffer(t, c, b)
             \/ \E m \in {"MODELVIEW", "PROJECTION"} : MatrixMode(t, c, m)
             \/ \E op \in {"glLoadIdentity", "glTranslatef", "glPushMatrix", "glPopMatrix"} : MatrixCall(t, c, op)
             \/ Swap(t, c) \/ Mouse(t, c) \/ KeyReset(t, c)
             \/ \E press \in BOOLEAN : Key(t, c, press)

Spec == Init /\ [][Next]_vars
-----------------------------------------------------------------------------
(* While a filter-set is active, for as long as the context could tell, it overrides what
   it is there to override, and knows what the application set; afterwards nothing of it is
   left ("restore the proper state to contexts that were not current when activation or
   deactivation occurred", modify.c).  The camera alone moves the view, and the view that
   OpenGL has is the camera's from the next swap on.  Contexts in which the code loses what
   the application set are left out (spoilt): above all those that were current in another
   thread, or within glBegin/glEnd, when the flag changed, and then made an overridden call
   before they were made current again.  So is the view after a reset. *)
Scene(g) == [i \in DOMAIN g.modelview |-> g.modelview[i].app]

OverrideIsUndone ==
    \A c \in Context \ spoilt : ctx[c] # None =>
       LET g == gl[c]  x == ctx[c] IN
       CASE loaded = "wireframe" ->
              g = IF seen[c] /\ g.fbo = 0 THEN [app[c] EXCEPT !.polygon_mode = Lines] ELSE app[c]
         [] loaded = "frontbuffer" ->
              g = IF seen[c] THEN [app[c] EXCEPT !.draw_buffer[0] = "FRONT"] ELSE app[c]
         [] loaded = "camera" ->
              /\ IF seen[c]
                 THEN /\ x.original = Top(app[c]) /\ Scene(g) = Scene(app[c])
                      /\ Front(g.modelview) = Front(app[c].modelview)
                      /\ x.dirty \/ c \in reset \/ Top(g).view = x.modifier
                 ELSE g = app[c]
              /\ pointer.grabbed => active /\ pointer.camera_intercept
=============================================================================
