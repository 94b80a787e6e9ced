-------------------------- MODULE V4L2CameraFragment --------------------------
(* The fragment that shows a V4L2 camera (V4L2CameraFragment.java), on top of *)
(* the native object of CameraAPI.tla.  Android calls its handlers one at a   *)
(* time on the main thread; each is a sequence of calls of the camera, with   *)
(* steps of the capture thread, the driver and the device in between.  Only   *)
(* create, getPreviewSize and start are asked for their result; any other     *)
(* call that fails leaves the camera as it was and the handler goes on.       *)
(*                                                                            *)
(* Android promises that the surface is created and destroyed in turns, and   *)
(* destroyed before the fragment is.                                          *)
EXTENDS CameraAPI

VARIABLES
    fragment,   \* its fields and its place in Android's lifecycle
    main        \* the call the running handler makes next, or idle

allVars == <<vars, fragment, main>>

NoFormat == "none"
Calls == {"create", "restart", "getPreviewSize", "setFrameSize",
          "setFrameCallback", "setPreview", "start", "stop", "delete"}

\* The size asked for if the camera has it, else the first MJPEG, else the first
\* YUYV.  Formats are told apart, sizes are not: wanted is NoFormat for a size
\* the camera does not have.
FindPreviewSize(offered, wanted) ==
    IF wanted \in offered THEN wanted
    ELSE IF "MJPEG" \in offered THEN "MJPEG"
    ELSE IF "YUYV" \in offered THEN "YUYV"
    ELSE NoFormat

\* What nativePreviewSize calls the formats of the device.
Reported == {"MJPEG", "YUYV", "UNKNOWN"}

\* The fragment for some camera, as its Builder and its user leave it.
Built ==
    [lifecycle     : {"attached"},
     surfaceHolder : {"null"},
     surface       : {"none"},
     frameCallback : Callbacks \cup {NoCallback},
     found         : {FindPreviewSize(offered, wanted) :
                        offered \in SUBSET Reported, wanted \in Reported \cup {NoFormat}},
     notified      : {"nothing"}]

FragmentTypeOK ==
    /\ fragment \in
         [lifecycle     : {"attached", "viewed", "destroyed", "crashed"},
          surfaceHolder : {"null", "set"},
          surface       : {"none", "available"},
          frameCallback : Callbacks \cup {NoCallback},
          found         : FrameFormats \cup {NoFormat},
          notified      : {"nothing", "opened", "error"}]
    /\ main \in Calls \cup {"idle"}

FragmentInit ==
    /\ Init
    /\ fragment \in Built
    /\ main = "idle"

-----------------------------------------------------------------------------
(* The handlers Android calls, up to their first call of the camera *)

OnViewCreated ==
    /\ fragment.lifecycle = "attached"
    /\ main = "idle"
    /\ NativeInit
    /\ fragment' = [fragment EXCEPT !.lifecycle = "viewed"]
    /\ main' = "create"

SurfaceCreated ==
    /\ fragment.lifecycle = "viewed"
    /\ fragment.surfaceHolder = "set"
    /\ fragment.surface = "none"
    /\ main = "idle"
    /\ fragment' = [fragment EXCEPT !.surface = "available"]
    /\ main' = "restart"
    /\ UNCHANGED vars

\* As if the camera went on without the surface.
SurfaceDestroyedBug ==
    /\ fragment.surface = "available"
    /\ main = "idle"
    /\ fragment' = [fragment EXCEPT !.surface = "none"]
    /\ UNCHANGED <<vars, main>>

SurfaceDestroyed ==
    /\ fragment.surface = "available"
    /\ main = "idle"
    /\ fragment' = [fragment EXCEPT !.surface = "none"]
    /\ main' = "stop"
    /\ UNCHANGED vars

SetOnCameraPreviewDataListener(listener) ==
    /\ fragment.lifecycle \in {"attached", "viewed"}
    /\ main = "idle"
    /\ fragment' = [fragment EXCEPT !.frameCallback = listener]
    /\ UNCHANGED <<vars, main>>

\* removeCallback is called on a null surfaceHolder when create had failed.
OnDestroy ==
    /\ fragment.lifecycle = "viewed"
    /\ fragment.surface = "none"
    /\ main = "idle"
    /\ IF fragment.surfaceHolder = "null"
         THEN /\ fragment' = [fragment EXCEPT !.lifecycle = "crashed"]
              /\ UNCHANGED <<vars, main>>
         ELSE /\ DestroyRelease
              /\ fragment' = [fragment EXCEPT !.lifecycle = "destroyed"]
              /\ main' = "delete"

\* The preview is opened again, with a new fragment.
Reopen ==
    /\ fragment.lifecycle = "destroyed"
    /\ main = "idle"
    /\ fragment' \in Built
    /\ UNCHANGED <<vars, main>>

-----------------------------------------------------------------------------
(* The calls of the camera *)

\* createCamera also fails for a missing device or one it may not use.
CreateCamera ==
    /\ main = "create"
    /\ \/ ConnectOk /\ fragment' = [fragment EXCEPT !.surfaceHolder = "set"]
       \/ UNCHANGED vars /\ fragment' = [fragment EXCEPT !.notified = "error"]
    /\ main' = "idle"

\* stop, first of all in startPreviewCamera or for surfaceDestroyed; without a
\* capture to stop it does nothing.
StopPreviewCamera ==
    /\ main \in {"restart", "stop"}
    /\ \/ StopRequest /\ UNCHANGED main
       \/ /\ \/ StopJoined
             \/ call = "idle" /\ status # "RUN" /\ UNCHANGED vars
          /\ main' = IF main = "restart" THEN "getPreviewSize" ELSE "idle"
    /\ UNCHANGED fragment

\* A device that is gone answers no query.
GetPreviewSize ==
    /\ main = "getPreviewSize"
    /\ IF device = "present" /\ fragment.found # NoFormat
         THEN main' = "setFrameSize" /\ UNCHANGED fragment
         ELSE main' = "idle" /\ fragment' = [fragment EXCEPT !.notified = "error"]
    /\ UNCHANGED vars

CallSetFrameSize ==
    /\ main = "setFrameSize"
    /\ SetFrameSize(fragment.found) \/ UNCHANGED vars
    /\ main' = IF fragment.frameCallback # NoCallback THEN "setFrameCallback" ELSE "setPreview"
    /\ UNCHANGED fragment

CallSetFrameCallback ==
    /\ main = "setFrameCallback"
    /\ SetFrameCallback(fragment.frameCallback)
    /\ main' = "setPreview"
    /\ UNCHANGED fragment

CallSetPreview ==
    /\ main = "setPreview"
    /\ SetPreview(TRUE)
    /\ main' = "start"
    /\ UNCHANGED fragment

\* As if the result of start were ignored, too.
CallStartBug ==
    /\ main = "start"
    /\ StartStreams \/ StartFails \/ UNCHANGED vars
    /\ fragment' = [fragment EXCEPT !.notified = "opened"]
    /\ main' = "idle"

\* start fails before it changes anything when the status is not INIT or
\* VIDIOC_REQBUFS fails, and after all when pthread_create fails.
CallStart ==
    /\ main = "start"
    /\ \/ /\ StartStreams
          /\ fragment' = [fragment EXCEPT !.notified = IF loop' = "check" THEN "opened" ELSE "error"]
       \/ /\ StartFails \/ UNCHANGED vars
          /\ fragment' = [fragment EXCEPT !.notified = "error"]
    /\ main' = "idle"

DeleteCamera ==
    /\ main = "delete"
    /\ DestroyDelete
    /\ main' = "idle"
    /\ UNCHANGED fragment

-----------------------------------------------------------------------------
Handlers ==
    \/ OnViewCreated \/ OnDestroy \/ Reopen
    \/ SurfaceCreated \/ SurfaceDestroyed
    \/ \E listener \in Callbacks \cup {NoCallback} : SetOnCameraPreviewDataListener(listener)

CameraCalls ==
    \/ CreateCamera
    \/ StopPreviewCamera \/ GetPreviewSize
    \/ CallSetFrameSize \/ CallSetFrameCallback \/ CallSetPreview \/ CallStart
    \/ DeleteCamera

\* The driver and the device go on by themselves, and so does the capture thread.
Surroundings == Unplug \/ Replug \/ \E i \in Slots : FillFrame(i)
Background == (Capture \/ Surroundings) /\ UNCHANGED <<fragment, main>>

FragmentNext == Handlers \/ CameraCalls \/ Background

FragmentSpec == FragmentInit /\ [][FragmentNext]_allVars

\* A handler that can go on does, and so does the capture thread.
FairFragmentSpec ==
    /\ FragmentSpec
    /\ WF_allVars(CameraCalls)
    /\ WF_allVars(Capture /\ UNCHANGED <<fragment, main>>)

-----------------------------------------------------------------------------
(* What the camera may be doing at each call of the main thread.  A capture   *)
(* goes on only between the end of surfaceCreated and the stop of             *)
(* surfaceDestroyed.                                                          *)
FragmentInv ==
    /\ FragmentTypeOK
    /\ camera = "object" <=>
         fragment.lifecycle \in {"viewed", "crashed"} \/ main = "delete"
    /\ call = "joining" => main \in {"restart", "stop"} /\ status = "INIT"
    /\ call = "deleting" <=> main = "delete"
    /\ main = "delete" => fragment.lifecycle = "destroyed"
    /\ main = "setFrameSize" => fragment.found # NoFormat
    /\ main = "setFrameCallback" => fragment.frameCallback # NoCallback
    /\ status = "RUN" =>
         main = "stop" \/ (main = "idle" /\ fragment.surface = "available")
    /\ main \in Calls \ {"delete"} => fragment.lifecycle = "viewed"
    /\ main \in Calls \ {"create", "delete", "stop"} => fragment.surface = "available"
    /\ fragment.surface = "available" => fragment.lifecycle = "viewed"

\* Between two handlers of Android the capture thread runs only while there is
\* a surface: surfaceDestroyed does not return before the last frame is drawn.
DrawsOnlyOnSurface == main = "idle" /\ LoopRunning => fragment.surface = "available"

ToldOpened ==
    fragment.notified = "opened" /\ fragment.surface = "available" /\ main = "idle"

\* A listener that was told the camera opened, and nothing since, has a capture
\* as long as the surface is there: the status says so, a thread was started for
\* it that nobody has joined, and this thread goes on until the device gives it
\* no frame.  From then on the status is all that is left, and nobody is told.
OpenedMeansCapturing ==
    [][ToldOpened =>
         /\ status = "RUN"
         /\ LoopRunning \/ loop = "exited"
         /\ LoopRunning /\ ~LoopRunning' => loop = "dqbuf"]_allVars

\* The main thread always gets back to Android: joining the capture thread in
\* surfaceDestroyed takes no longer than the frame it is at.
MainThreadReturns == (main # "idle") ~> (main = "idle")

\* The fragment is a client that keeps to AllRules: with it the camera behaves
\* as CameraAPI.tla describes it for such clients, so what is proved there
\* holds in the application.
RuledCamera == INSTANCE CameraAPI WITH ClientRules <- AllRules
RuledCameraSpec == RuledCamera!Spec
=============================================================================
