------------------------- MODULE RenderSurface_proofs -------------------------
(* Theorems about the surface of an OpenGL renderer, for any SurfaceTextures:  *)
(* RenderInv is inductive, and what the runs check of drawing follows from it. *)
EXTENDS RenderSurface, Integers, TLAPS

LEMMA RenderInitInv == RenderInit => RenderInv
  BY DEF RenderInit, RenderInv, RenderTypeOK, FirstInv, ServedInv

\* A new SurfaceTexture is one, and belongs to the present context.
LEMMA NewIsAttached ==
    NewSurfaceTexture =>
        /\ surfaceTexture' \in Textures /\ surfaceTexture' # NULL
        /\ surfaceTexture' \in attached'
        /\ attached' = attached \cup {surfaceTexture'}
  BY NullAssumption DEF NewSurfaceTexture

\* The steps of the UI thread.  It is in getRender or setSurfaceCallback only
\* before there is a window, if the client registers first.
LEMMA UiKeepsInv ==
    ASSUME RenderInv,
           GetRender \/ (\E isSet \in BOOLEAN : SetSurfaceCallback(isSet))
             \/ OnRenderFalse \/ OnRenderTrue \/ UiStep
    PROVE  RenderInv'
<1> USE DEF RenderInv, RenderTypeOK, clientVars, fieldVars, viewVars, UiIdle
<1>1. CASE GetRender
  BY <1>1 DEF GetRender, FirstInv, ServedInv
<1>2. ASSUME NEW isSet \in BOOLEAN, SetSurfaceCallback(isSet) PROVE RenderInv'
  BY <1>2 DEF SetSurfaceCallback, FirstInv, ServedInv
<1>3. CASE OnRenderFalse
  BY <1>3 DEF OnRenderFalse, FirstInv, ServedInv
<1>4. CASE OnRenderTrue
  BY <1>4 DEF OnRenderTrue, FirstInv, ServedInv
<1>5. CASE LookForSurface
  BY <1>5 DEF LookForSurface, FirstInv, ServedInv
<1>6. CASE MakeSurface
  BY <1>6, NewIsAttached DEF MakeSurface, FirstInv, ServedInv
<1>7. CASE TellClient
  BY <1>7 DEF TellClient, Wrap, Tell, FirstInv, ServedInv
<1>8. CASE OnPause
  BY <1>8 DEF OnPause, FirstInv, ServedInv
<1>9. CASE Release
  BY <1>9 DEF Release, GlPauses, FirstInv, ServedInv
<1> QED
  BY <1>1, <1>2, <1>3, <1>4, <1>5, <1>6, <1>7, <1>8, <1>9 DEF UiStep

\* The steps of the GL thread and of the view.
LEMMA GlKeepsInv ==
    ASSUME RenderInv,
           GlStep \/ CreateWindow \/ RequestRender \/ LoseContext \/ Restart
    PROVE  RenderInv'
<1> USE DEF RenderInv, RenderTypeOK, clientVars, fieldVars, viewVars
<1>1. CASE OnSurfaceCreated
  BY <1>1 DEF OnSurfaceCreated, FirstInv, ServedInv
<1>2. CASE LookForClient
  BY <1>2 DEF LookForClient, FirstInv, ServedInv
<1>3. CASE CreateSurface
  BY <1>3, NewIsAttached DEF CreateSurface, FirstInv, ServedInv
<1>4. CASE TellSurface
  BY <1>4 DEF TellSurface, Wrap, Tell, FirstInv, ServedInv
<1>5. CASE OnDrawFrame
  BY <1>5 DEF OnDrawFrame, FirstInv, ServedInv
<1>6. CASE UpdateTexImage
  BY <1>6 DEF UpdateTexImage, FirstInv, ServedInv
<1>7. CASE CreateWindow
  BY <1>7 DEF CreateWindow, FirstInv, ServedInv
<1>8. CASE RequestRender
  BY <1>8 DEF RequestRender, FirstInv, ServedInv
<1>9. CASE LoseContext
  BY <1>9 DEF LoseContext, FirstInv, ServedInv
<1>10. CASE Restart
  BY <1>10 DEF Restart, FirstInv, ServedInv
<1> QED
  BY <1>1, <1>2, <1>3, <1>4, <1>5, <1>6, <1>7, <1>8, <1>9, <1>10 DEF GlStep

LEMMA RenderInvariance == RenderSpec => []RenderInv
<1>1. RenderInv /\ [RenderNext]_vars => RenderInv'
  <2> SUFFICES ASSUME RenderInv, [RenderNext]_vars PROVE RenderInv'
    OBVIOUS
  <2>1. CASE RenderNext
    BY <2>1, UiKeepsInv, GlKeepsInv DEF RenderNext
  <2>2. CASE UNCHANGED vars
    BY <2>2 DEF vars, clientVars, fieldVars, viewVars, RenderInv, RenderTypeOK, FirstInv,
                ServedInv
  <2> QED
    BY <2>1, <2>2
<1> QED
  BY RenderInitInv, <1>1, PTL DEF RenderSpec

\* With a client that registers first updateTexImage (RenderCommon.java:133) never
\* meets a SurfaceTexture that is missing or of another context.
THEOREM LiveTextureDrawn == RenderSpec => []DrawsLiveTexture
<1>1. RenderInv => DrawsLiveTexture
  BY DEF RenderInv, FirstInv, DrawsLiveTexture
<1> QED
  BY RenderInvariance, <1>1, PTL

\* However setSurfaceCallback and onSurfaceCreated cross, with no lock between
\* them, the client's registration does not end with nothing to draw from.
THEOREM ClientServed == RenderSpec => []ClientIsServed
<1>1. RenderInv => ClientIsServed
  BY DEF RenderInv, ServedInv, ClientIsServed
<1> QED
  BY RenderInvariance, <1>1, PTL

\* The surface a client fills is the one that is drawn, also after the context
\* was lost.
THEOREM ToldSurfaceDrawn == RenderSpec => []ToldIsDrawn
<1>1. RenderInv => ToldIsDrawn
  BY DEF RenderInv, FirstInv, ToldIsDrawn
<1> QED
  BY RenderInvariance, <1>1, PTL

-----------------------------------------------------------------------------
(* How long onPause waits *)

\* The steps the GL thread may still take before it pauses.
GlLeft ==
    CASE gl = "look"   -> 6
      [] gl = "make"   -> 5
      [] gl = "wrap"   -> 4
      [] gl = "tell"   -> 3
      [] gl = "check"  -> 2
      [] gl = "update" -> 1
      [] OTHER         -> 0

\* While the UI thread waits in onPause the GL thread has at most six steps left,
\* each of its steps leaves fewer and nothing gives it more; with none left it
\* pauses or has crashed, and the wait ends only then.
PauseIsBounded == [][
    ui = "wait" =>
        /\ GlLeft \in 0 .. 6
        /\ GlLeft' <= GlLeft
        /\ GlStep => GlLeft' < GlLeft
        /\ GlLeft = 0 => GlPauses \/ gl = "crashed"
        /\ ui' # "wait" => GlLeft = 0]_vars

\* The view stays paused for as long as the UI thread waits for it.
WaitIsPaused == ui = "wait" => paused

LEMMA WaitIsPausedInvariance == RenderSpec => []WaitIsPaused
<1>1. RenderInit => WaitIsPaused
  BY DEF RenderInit, WaitIsPaused
<1>2. WaitIsPaused /\ [RenderNext]_vars => WaitIsPaused'
  <2> USE DEF WaitIsPaused, UiIdle, clientVars, fieldVars, viewVars
  <2>1. SUFFICES ASSUME WaitIsPaused, [RenderNext]_vars PROVE WaitIsPaused'
    OBVIOUS
  <2>2. CASE GetRender \/ (\E isSet \in BOOLEAN : SetSurfaceCallback(isSet))
             \/ OnRenderFalse \/ OnRenderTrue
    BY <2>1, <2>2 DEF GetRender, SetSurfaceCallback, OnRenderFalse, OnRenderTrue
  <2>3. CASE UiStep
    BY <2>1, <2>3 DEF UiStep, LookForSurface, MakeSurface, TellClient, OnPause, Release
  <2>4. CASE GlStep
    BY <2>1, <2>4 DEF GlStep, OnSurfaceCreated, LookForClient, CreateSurface, TellSurface,
                      OnDrawFrame, UpdateTexImage
  <2>5. CASE CreateWindow \/ RequestRender \/ LoseContext \/ Restart
    BY <2>1, <2>5 DEF CreateWindow, RequestRender, LoseContext, Restart
  <2>6. CASE UNCHANGED vars
    BY <2>1, <2>6 DEF vars
  <2> QED
    BY <2>1, <2>2, <2>3, <2>4, <2>5, <2>6 DEF RenderNext
<1> QED
  BY <1>1, <1>2, PTL DEF RenderSpec

\* A step of the GL thread while the view is paused: it goes down the list.
LEMMA GlGoesOn ==
    ASSUME paused, GlStep
    PROVE  GlLeft' < GlLeft /\ ui' = ui
<1> USE DEF GlLeft, clientVars, fieldVars, viewVars
<1>1. CASE LookForClient
  <2>1. gl = "look" /\ (gl' = "make" \/ gl' = "check") /\ ui' = ui
    BY <1>1 DEF LookForClient
  <2> QED
    BY <2>1
<1>2. CASE CreateSurface
  BY <1>2 DEF CreateSurface
<1>3. CASE TellSurface
  BY <1>3 DEF TellSurface
<1>4. CASE OnDrawFrame \/ UpdateTexImage
  <2>1. \/ gl = "check" /\ gl' \in {"update", "idle"}
        \/ gl = "update" /\ gl' \in {"idle", "crashed"}
    BY <1>4 DEF OnDrawFrame, UpdateTexImage
  <2>2. ui' = ui
    BY <1>4 DEF OnDrawFrame, UpdateTexImage
  <2> QED
    BY <2>1, <2>2
<1> QED
  BY <1>1, <1>2, <1>3, <1>4 DEF GlStep, OnSurfaceCreated

\* onPause waits for six steps of the GL thread at most, whichever callback that
\* thread is in and whatever the view, the client and the application do: the
\* safety half of UiReturns, which adds only that the GL thread goes on.
THEOREM PauseWaitsBounded == RenderSpec => PauseIsBounded
<1>1. RenderInv /\ WaitIsPaused /\ [RenderNext]_vars =>
        [ui = "wait" =>
            /\ GlLeft \in 0 .. 6
            /\ GlLeft' <= GlLeft
            /\ GlStep => GlLeft' < GlLeft
            /\ GlLeft = 0 => GlPauses \/ gl = "crashed"
            /\ ui' # "wait" => GlLeft = 0]_vars
  <2>1. SUFFICES ASSUME RenderInv, RenderNext, ui = "wait", paused
                 PROVE  /\ GlLeft \in 0 .. 6
                        /\ GlLeft' <= GlLeft
                        /\ GlStep => GlLeft' < GlLeft
                        /\ GlLeft = 0 => GlPauses \/ gl = "crashed"
                        /\ ui' # "wait" => GlLeft = 0
    BY DEF WaitIsPaused
  <2>2. GlLeft \in 0 .. 6
    BY DEF GlLeft
  <2>3. GlLeft = 0 => GlPauses \/ gl = "crashed"
    BY <2>1 DEF GlLeft, GlPauses, RenderInv, RenderTypeOK
  <2>4. CASE GlStep
    BY <2>1, <2>2, <2>3, <2>4, GlGoesOn DEF GlLeft
  <2>5. CASE ~GlStep
    <3>1. \/ Release
          \/ CreateWindow /\ gl' = gl /\ ui' = ui
          \/ Restart
      BY <2>1, <2>5 DEF RenderNext, UiStep, GetRender, SetSurfaceCallback, OnRenderFalse,
                        OnRenderTrue, UiIdle, LookForSurface, MakeSurface, TellClient, OnPause,
                        CreateWindow, RequestRender, LoseContext
    <3>2. CASE CreateWindow /\ gl' = gl /\ ui' = ui
      BY <2>1, <2>2, <2>3, <2>5, <3>2 DEF GlLeft
    <3>3. CASE Release \/ Restart
      <4>1. gl \in {"idle", "paused", "crashed"} /\ gl' \in {"idle", "paused"}
        BY <3>3 DEF Release, Restart, GlPauses
      <4>2. GlLeft = 0 /\ GlLeft' = 0
        BY <4>1 DEF GlLeft
      <4> QED
        BY <2>3, <2>5, <4>2
    <3> QED
      BY <3>1, <3>2, <3>3
  <2> QED
    BY <2>4, <2>5
<1> QED
  BY <1>1, RenderInvariance, WaitIsPausedInvariance, PTL DEF RenderSpec, PauseIsBounded
=============================================================================
