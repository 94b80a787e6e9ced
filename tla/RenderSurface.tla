---------------------------- MODULE RenderSurface ----------------------------
(* The surface an OpenGL renderer offers (RenderCommon.java behind            *)
(* CameraView.java; RenderBeauty and RenderDepth do the same with another     *)
(* shader).  The UI thread registers the client and pauses the view, the GL   *)
(* thread of GLSurfaceView creates the texture and draws it.  The two share   *)
(* textures[0], surfaceTexture and callback with no lock; a step is what one  *)
(* of them does between two accesses to these fields.                         *)
CONSTANTS
    Textures,   \* the SurfaceTexture objects
    NULL

ASSUME NullAssumption == NULL \notin Textures

VARIABLES
    client,     \* what kind of client there is: "first" registers before there
                \* is a window, and once; "any" whenever it likes
    shaders,    \* the device compiles the shaders
    \* the fields
    render, callback, texture, surfaceTexture,
    told,       \* the surface the client heard of last
    \* the threads: where they are, and the surface they are about to tell
    ui, gl, wrapped,
    \* GLSurfaceView: its window is there, a pause was asked for, and the
    \* SurfaceTextures that belong to its present context
    window, paused, attached

clientVars == <<client, shaders>>
fieldVars  == <<render, callback, texture, surfaceTexture>>
viewVars   == <<window, paused, attached>>
vars       == <<clientVars, fieldVars, told, ui, gl, wrapped, viewVars>>

RenderTypeOK ==
    /\ client \in {"first", "any"}
    /\ shaders \in BOOLEAN
    /\ render \in BOOLEAN
    /\ callback \in BOOLEAN
    /\ texture \in BOOLEAN
    /\ surfaceTexture \in Textures \cup {NULL}
    /\ told \in Textures \cup {NULL}
    /\ ui \in {"idle", "look", "make", "wrap", "tell", "pause", "wait"}
    /\ gl \in {"paused", "look", "make", "wrap", "tell", "check", "update", "idle", "crashed"}
    /\ wrapped \in [{"ui", "gl"} -> Textures \cup {NULL}]
    /\ window \in BOOLEAN
    /\ paused \in BOOLEAN
    /\ attached \subseteq Textures

RenderInit ==
    /\ client \in {"first", "any"}
    /\ shaders \in BOOLEAN
    /\ render = FALSE
    /\ callback = FALSE
    /\ texture = FALSE
    /\ surfaceTexture = NULL
    /\ told = NULL
    /\ ui = "idle"
    /\ gl = "paused"
    /\ wrapped = [t \in {"ui", "gl"} |-> NULL]
    /\ window = FALSE
    /\ paused = FALSE
    /\ attached = {}

\* new SurfaceTexture(textures[0]), one that nobody has yet.
NewSurfaceTexture ==
    \E t \in Textures \ {surfaceTexture, told, wrapped["ui"], wrapped["gl"]} :
        /\ surfaceTexture' = t
        /\ attached' = attached \cup {t}

\* The argument of onSurface, new Surface(surfaceTexture), and then the call.
Wrap(thread) == wrapped' = [wrapped EXCEPT ![thread] = surfaceTexture]
Tell(thread) == told' = wrapped[thread] /\ wrapped' = [wrapped EXCEPT ![thread] = NULL]

UiIdle == ui = "idle" /\ gl # "crashed"

-----------------------------------------------------------------------------
(* The UI thread *)

GetRender ==
    /\ UiIdle
    /\ render' = TRUE
    /\ UNCHANGED <<clientVars, callback, texture, surfaceTexture, told, ui, gl, wrapped, viewVars>>

SetSurfaceCallback(isSet) ==
    /\ UiIdle /\ render
    /\ client = "first" => isSet /\ ~callback /\ ~window
    /\ callback' = isSet
    /\ ui' = IF isSet THEN "look" ELSE "idle"
    /\ UNCHANGED <<clientVars, render, texture, surfaceTexture, told, gl, wrapped, viewVars>>

\* As if only the surface were looked for.
LookForSurfaceBug ==
    /\ ui = "look"
    /\ ui' = IF surfaceTexture # NULL THEN "wrap" ELSE "idle"
    /\ UNCHANGED <<clientVars, fieldVars, told, gl, wrapped, viewVars>>

LookForSurface ==
    /\ ui = "look"
    /\ ui' = IF surfaceTexture # NULL THEN "wrap" ELSE "make"
    /\ UNCHANGED <<clientVars, fieldVars, told, gl, wrapped, viewVars>>

MakeSurface ==
    /\ ui = "make"
    /\ IF texture THEN NewSurfaceTexture /\ ui' = "wrap"
       ELSE UNCHANGED <<surfaceTexture, attached>> /\ ui' = "idle"
    /\ UNCHANGED <<clientVars, render, callback, texture, told, gl, wrapped, window, paused>>

TellClient ==
    /\ \/ ui = "wrap" /\ ui' = "tell" /\ Wrap("ui") /\ UNCHANGED told
       \/ ui = "tell" /\ ui' = "idle" /\ Tell("ui")
    /\ UNCHANGED <<clientVars, fieldVars, gl, viewVars>>

\* onRender(false): the client loses its surface, then the view is paused.
OnRenderFalse ==
    /\ UiIdle /\ render
    /\ told' = IF callback THEN NULL ELSE told
    /\ ui' = "pause"
    /\ UNCHANGED <<clientVars, fieldVars, gl, wrapped, viewVars>>

\* As if the view were not asked to pause.
OnPauseBug ==
    /\ ui = "pause"
    /\ ui' = "wait"
    /\ UNCHANGED <<clientVars, fieldVars, told, gl, wrapped, viewVars>>

OnPause ==
    /\ ui = "pause"
    /\ ui' = "wait"
    /\ paused' = TRUE
    /\ UNCHANGED <<clientVars, fieldVars, told, gl, wrapped, window, attached>>

\* The GL thread pauses between two of its callbacks, and its context goes.
GlPausesBug == TRUE
GlPauses    == gl \in {"idle", "paused"}

\* glSurfaceView.onPause returns when the GL thread is paused; then texture and
\* SurfaceTexture are given up.
Release ==
    /\ ui = "wait"
    /\ GlPauses
    /\ gl' = IF gl = "idle" THEN "paused" ELSE gl
    /\ ui' = "idle"
    /\ texture' = FALSE
    /\ surfaceTexture' = NULL
    /\ attached' = {}
    /\ UNCHANGED <<clientVars, render, callback, told, wrapped, window, paused>>

OnRenderTrue ==
    /\ UiIdle /\ render
    /\ paused' = FALSE
    /\ UNCHANGED <<clientVars, fieldVars, told, ui, gl, wrapped, window, attached>>

-----------------------------------------------------------------------------
(* The GL thread *)

\* onSurfaceCreated, in a new context.  Without a renderer, or with shaders that
\* do not compile, there is no texture.
OnSurfaceCreated ==
    /\ gl = "paused" /\ window /\ ~paused
    /\ IF render /\ shaders THEN texture' = TRUE /\ gl' = "look"
       ELSE UNCHANGED texture /\ gl' = "check"
    /\ UNCHANGED <<clientVars, render, callback, surfaceTexture, told, ui, wrapped, viewVars>>

LookForClient ==
    /\ gl = "look"
    /\ gl' = IF callback THEN "make" ELSE "check"
    /\ UNCHANGED <<clientVars, fieldVars, told, ui, wrapped, viewVars>>

\* As if a client that was told before were not told again.
CreateSurfaceBug ==
    /\ gl = "make"
    /\ NewSurfaceTexture
    /\ gl' = IF surfaceTexture = NULL THEN "wrap" ELSE "check"
    /\ UNCHANGED <<clientVars, render, callback, texture, told, ui, wrapped, window, paused>>

CreateSurface ==
    /\ gl = "make"
    /\ NewSurfaceTexture
    /\ gl' = "wrap"
    /\ UNCHANGED <<clientVars, render, callback, texture, told, ui, wrapped, window, paused>>

\* A client that left since it was looked for is a null reference.
TellSurface ==
    /\ \/ gl = "wrap" /\ callback /\ gl' = "tell" /\ Wrap("gl") /\ UNCHANGED told
       \/ gl = "wrap" /\ ~callback /\ gl' = "crashed" /\ UNCHANGED <<told, wrapped>>
       \/ gl = "tell" /\ gl' = "check" /\ Tell("gl")
    /\ UNCHANGED <<clientVars, fieldVars, ui, viewVars>>

\* onDrawFrame, at once for a new surface and then for each frame of the client.
OnDrawFrame ==
    /\ gl = "check"
    /\ gl' = IF texture THEN "update" ELSE "idle"
    /\ UNCHANGED <<clientVars, fieldVars, told, ui, wrapped, viewVars>>

\* No SurfaceTexture, or one of another context, ends the process.
UpdateTexImage ==
    /\ gl = "update"
    /\ gl' = IF surfaceTexture \in attached THEN "idle" ELSE "crashed"
    /\ UNCHANGED <<clientVars, fieldVars, told, ui, wrapped, viewVars>>

-----------------------------------------------------------------------------
(* GLSurfaceView, and the application *)

\* A client of the kind "first" is registered by then.
CreateWindow ==
    /\ ~window
    /\ client = "first" => callback /\ ui = "idle"
    /\ window' = TRUE
    /\ UNCHANGED <<clientVars, fieldVars, told, ui, gl, wrapped, paused, attached>>

RequestRender ==
    /\ gl = "idle" /\ ~paused
    /\ gl' = "check"
    /\ UNCHANGED <<clientVars, fieldVars, told, ui, wrapped, viewVars>>

LoseContext ==
    /\ gl = "idle" /\ ~paused
    /\ gl' = "paused"
    /\ attached' = {}
    /\ UNCHANGED <<clientVars, fieldVars, told, ui, wrapped, window, paused>>

\* A new process, on the same device.
Restart ==
    /\ gl = "crashed"
    /\ render' = FALSE /\ callback' = FALSE
    /\ texture' = FALSE /\ surfaceTexture' = NULL /\ told' = NULL
    /\ ui' = "idle" /\ gl' = "paused" /\ wrapped' = [t \in {"ui", "gl"} |-> NULL]
    /\ window' = FALSE /\ paused' = FALSE /\ attached' = {}
    /\ UNCHANGED clientVars

-----------------------------------------------------------------------------
UiStep == LookForSurface \/ MakeSurface \/ TellClient \/ OnPause \/ Release
GlStep == OnSurfaceCreated \/ LookForClient \/ CreateSurface \/ TellSurface \/ OnDrawFrame \/ UpdateTexImage

RenderNext ==
    \/ GetRender \/ (\E isSet \in BOOLEAN : SetSurfaceCallback(isSet))
    \/ OnRenderFalse \/ OnRenderTrue \/ UiStep
    \/ GlStep
    \/ CreateWindow \/ RequestRender \/ LoseContext \/ Restart

RenderSpec == RenderInit /\ [][RenderNext]_vars

\* Both threads go on in what they began.
FairRenderSpec == RenderSpec /\ WF_vars(UiStep) /\ WF_vars(GlStep)

-----------------------------------------------------------------------------
(* Properties *)

\* With a client that registers first, the GL thread only ever draws a
\* SurfaceTexture that is there, however it is paused, resumed and robbed of its
\* context in between.
DrawsLiveTexture ==
    client = "first" =>
        /\ gl # "crashed"
        /\ gl = "update" => surfaceTexture \in attached

\* Whenever a client registers, one of the two threads finds the other's part:
\* nothing is drawn without a surface once a client's registration returned.
ClientIsServed ==
    gl \in {"update", "idle"} /\ texture /\ ui = "idle" /\ callback => surfaceTexture # NULL

\* What a client that registers first fills is what is drawn.
ToldIsDrawn ==
    client = "first" /\ ui = "idle" /\ gl \in {"update", "idle"} /\ texture => told = surfaceTexture

\* Where the two threads can be at once when the client registers first: the GL
\* thread starts after the registration returned, so only it makes surfaces.
FirstInv ==
    client = "first" =>
        /\ gl # "crashed"
        /\ callback => render
        /\ window => callback /\ ui \in {"idle", "pause", "wait"}
        /\ ~window => gl = "paused" /\ ~texture /\ surfaceTexture = NULL
        /\ gl \in {"wrap", "tell", "update"} => surfaceTexture \in attached
        /\ gl \in {"check", "idle"} /\ texture => surfaceTexture \in attached
        /\ gl = "tell" => wrapped["gl"] = surfaceTexture
        /\ gl \in {"check", "update", "idle"} /\ texture /\ ui = "idle" => told = surfaceTexture

\* Whichever kind of client: while it has no surface one of the threads is still
\* to make one.
ServedInv ==
    /\ texture => render /\ shaders
    /\ texture /\ callback /\ surfaceTexture = NULL =>
         ui \in {"look", "make"} \/ gl \in {"look", "make", "paused", "crashed"}

RenderInv == RenderTypeOK /\ FirstInv /\ ServedInv

\* No call of the UI thread waits for ever on the GL thread.
UiReturns == ui # "idle" ~> ui = "idle" \/ gl = "crashed"
=============================================================================
