----------------------- MODULE V4L2CameraFragment_proofs -----------------------
(* Proofs about V4L2CameraFragment, for any number of buffers, any callbacks   *)
(* and any faults.  FragmentInv is inductive by itself; with it every step of  *)
(* the fragment is one of a camera whose client keeps to AllRules, or leaves   *)
(* the camera alone, so the theorems of CameraAPI_proofs hold here.            *)
EXTENDS V4L2CameraFragment, CameraAPI_proofs

\* The size shown is of a format the camera reports, or there is none.
LEMMA FoundType ==
  ASSUME NEW offered \in SUBSET Reported, NEW wanted \in Reported \cup {NoFormat}
  PROVE  FindPreviewSize(offered, wanted) \in FrameFormats \cup {NoFormat}
  BY DEF FindPreviewSize, Reported, FrameFormats

\* A new fragment has neither a view nor a surface.
LEMMA BuiltFacts ==
  ASSUME NEW f \in Built
  PROVE  /\ f \in [lifecycle     : {"attached", "viewed", "destroyed", "crashed"},
                   surfaceHolder : {"null", "set"},
                   surface       : {"none", "available"},
                   frameCallback : Callbacks \cup {NoCallback},
                   found         : FrameFormats \cup {NoFormat},
                   notified      : {"nothing", "opened", "error"}]
         /\ f.lifecycle = "attached"
         /\ f.surface = "none"
<1> DEFINE Found == {FindPreviewSize(offered, wanted) :
                       offered \in SUBSET Reported, wanted \in Reported \cup {NoFormat}}
<1>1. Found \subseteq FrameFormats \cup {NoFormat}
  BY FoundType
<1> HIDE DEF Found
<1>2. f \in [lifecycle     : {"attached"},
             surfaceHolder : {"null"},
             surface       : {"none"},
             frameCallback : Callbacks \cup {NoCallback},
             found         : Found,
             notified      : {"nothing"}]
  BY DEF Built, Found
<1> QED
  BY <1>1, <1>2

\* Nothing is created when the program starts.
LEMMA FragmentInitInv == FragmentInit => FragmentInv
  BY BuiltFacts DEF FragmentInit, Init, FragmentInv, FragmentTypeOK, Calls

\* What the capture thread, the driver and the device do changes neither the
\* status nor the caller's state.
LEMMA BackgroundFacts ==
  ASSUME Background
  PROVE  UNCHANGED <<status, camera, call, fragment, main>>
<1> USE DEF Background, objectVars, clientVars
<1>1. CASE Surroundings
  BY <1>1 DEF Surroundings, Unplug, Replug, FillFrame
<1>2. CASE Capture
  BY <1>2 DEF Capture, LoopCheck, SelectIdle, SelectReady, Dqbuf, Convert,
              RenderFrame, SendFrame, Requeue
<1> QED
  BY <1>1, <1>2

\* Every handler and every call keeps the invariant.
LEMMA FragmentStepInv == FragmentInv /\ [FragmentNext]_allVars => FragmentInv'
<1> SUFFICES ASSUME FragmentInv, [FragmentNext]_allVars PROVE FragmentInv'
  OBVIOUS
<1> USE DEF FragmentInv, FragmentTypeOK, Calls
<1>1. CASE Handlers
  <2>1. CASE OnViewCreated
    BY <2>1 DEF OnViewCreated, NativeInit, objectVars
  <2>2. CASE SurfaceCreated
    BY <2>2 DEF SurfaceCreated, vars, objectVars, clientVars
  <2>3. CASE SurfaceDestroyed
    BY <2>3 DEF SurfaceDestroyed, vars, objectVars, clientVars
  <2>4. ASSUME NEW listener \in Callbacks \cup {NoCallback},
               SetOnCameraPreviewDataListener(listener)
        PROVE  FragmentInv'
    BY <2>4 DEF SetOnCameraPreviewDataListener, vars, objectVars, clientVars
  <2>5. CASE OnDestroy
    <3>1. CASE fragment.surfaceHolder = "null"
      BY <2>5, <3>1 DEF OnDestroy, vars, objectVars, clientVars
    <3>2. CASE fragment.surfaceHolder # "null"
      BY <2>5, <3>2 DEF OnDestroy, DestroyRelease, Ready
    <3> QED
      BY <3>1, <3>2
  <2>6. CASE Reopen
    BY <2>6, BuiltFacts DEF Reopen, vars, objectVars, clientVars
  <2> QED
    BY <1>1, <2>1, <2>2, <2>3, <2>4, <2>5, <2>6 DEF Handlers
<1>2. CASE CameraCalls
  <2>1. CASE CreateCamera
    <3>1. CASE ConnectOk
      BY <2>1, <3>1 DEF CreateCamera, ConnectOk, Ready, vars, objectVars, clientVars
    <3>2. CASE UNCHANGED vars
      BY <2>1, <3>2 DEF CreateCamera, vars, objectVars, clientVars
    <3> QED
      BY <2>1, <3>1, <3>2 DEF CreateCamera
  <2>2. CASE StopPreviewCamera
    <3>1. CASE StopRequest /\ UNCHANGED main
      BY <2>2, <3>1 DEF StopPreviewCamera, StopRequest
    <3>2. CASE StopJoined
      BY <2>2, <3>2 DEF StopPreviewCamera, StopJoined, objectVars
    <3>3. CASE call = "idle" /\ status # "RUN" /\ UNCHANGED vars
      BY <2>2, <3>3 DEF StopPreviewCamera, vars, objectVars, clientVars
    <3> QED
      BY <2>2, <3>1, <3>2, <3>3 DEF StopPreviewCamera
  <2>3. CASE GetPreviewSize
    BY <2>3 DEF GetPreviewSize, vars, objectVars, clientVars
  <2>4. CASE CallSetFrameSize
    <3>1. status' # "RUN" /\ UNCHANGED <<camera, call>>
      BY <2>4 DEF CallSetFrameSize, SetFrameSize, vars, objectVars, clientVars
    <3> QED
      BY <2>4, <3>1 DEF CallSetFrameSize
  <2>5. CASE CallSetFrameCallback
    BY <2>5 DEF CallSetFrameCallback, SetFrameCallback, clientVars
  <2>6. CASE CallSetPreview
    BY <2>6 DEF CallSetPreview, SetPreview, clientVars
  <2>7. CASE CallStart
    <3>1. UNCHANGED <<camera, call>>
      BY <2>7 DEF CallStart, StartStreams, StartFails, Prepared, vars, clientVars
    <3>2. PICK told \in {"opened", "error"} :
            fragment' = [fragment EXCEPT !.notified = told]
      BY <2>7 DEF CallStart
    <3>3. status' \in {status, "RUN"}
      BY <2>7 DEF CallStart, StartStreams, StartFails, vars, objectVars
    <3> QED
      BY <2>7, <3>1, <3>2, <3>3 DEF CallStart
  <2>8. CASE DeleteCamera
    BY <2>8 DEF DeleteCamera, DestroyDelete
  <2> QED
    BY <1>2, <2>1, <2>2, <2>3, <2>4, <2>5, <2>6, <2>7, <2>8 DEF CameraCalls
<1>3. CASE Background
  BY <1>3, BackgroundFacts
<1>4. CASE UNCHANGED allVars
  BY <1>4 DEF allVars, vars, objectVars, clientVars
<1> QED
  BY <1>1, <1>2, <1>3, <1>4 DEF FragmentNext

\* For any number of buffers, any listeners and any failures, the camera, the
\* call under way and the lifecycle of the fragment agree.
THEOREM FragmentInvariance == FragmentSpec => []FragmentInv
  BY FragmentInitInv, FragmentStepInv, PTL DEF FragmentSpec

\* create and stop run while there is no surface.
WithoutSurface == main \in {"create", "stop"} => fragment.surface = "none"

\* The thread of a capture that was announced is there, or left by itself.
AnnouncedCapture == ToldOpened => status = "RUN" /\ (LoopRunning \/ loop = "exited")

\* While the status is RUN the thread leaves only from VIDIOC_DQBUF.
LEMMA ThreadGoesOn ==
  ASSUME Background, status = "RUN", LoopRunning \/ loop = "exited"
  PROVE  /\ (LoopRunning \/ loop = "exited")'
         /\ LoopRunning /\ ~LoopRunning' => loop = "dqbuf"
<1> USE DEF Background, LoopRunning, InLoop
<1>1. CASE Surroundings
  BY <1>1 DEF Surroundings, Unplug, Replug, FillFrame, loopVars
<1>2. CASE Capture
  BY <1>2 DEF Capture, LoopCheck, LoopContinues, SelectIdle, SelectReady, Dqbuf, Convert,
              RenderFrame, SendFrame, Requeue
<1> QED
  BY <1>1, <1>2

LEMMA AnnouncedStep ==
  FragmentInv /\ WithoutSurface /\ AnnouncedCapture /\ [FragmentNext]_allVars
    => WithoutSurface' /\ AnnouncedCapture'
<1> SUFFICES ASSUME FragmentInv, WithoutSurface, AnnouncedCapture, [FragmentNext]_allVars
             PROVE  WithoutSurface' /\ AnnouncedCapture'
  OBVIOUS
<1> USE DEF FragmentInv, FragmentTypeOK, WithoutSurface, AnnouncedCapture, ToldOpened,
            LoopRunning
<1>1. CASE OnViewCreated
  BY <1>1 DEF OnViewCreated
<1>2. CASE OnDestroy
  BY <1>2 DEF OnDestroy
<1>3. CASE Reopen
  BY <1>3, BuiltFacts DEF Reopen
<1>4. CASE SurfaceCreated \/ SurfaceDestroyed
  BY <1>4 DEF SurfaceCreated, SurfaceDestroyed
<1>5. ASSUME NEW listener \in Callbacks \cup {NoCallback},
             SetOnCameraPreviewDataListener(listener)
      PROVE  WithoutSurface' /\ AnnouncedCapture'
  BY <1>5 DEF SetOnCameraPreviewDataListener, vars, objectVars, loopVars
<1>6. CASE CreateCamera
  BY <1>6 DEF CreateCamera
<1>7. CASE StopPreviewCamera
  BY <1>7 DEF StopPreviewCamera
<1>8. CASE GetPreviewSize
  BY <1>8 DEF GetPreviewSize
<1>9. CASE CallSetFrameSize \/ CallSetFrameCallback \/ CallSetPreview
  BY <1>9 DEF CallSetFrameSize, CallSetFrameCallback, CallSetPreview
<1>10. CASE CallStart
  <2>1. CASE StartStreams /\ loop' = "check"
    BY <1>10, <2>1 DEF CallStart, StartStreams, InLoop
  <2>2. CASE fragment' = [fragment EXCEPT !.notified = "error"]
    BY <1>10, <2>2 DEF CallStart
  <2> QED
    BY <1>10, <2>1, <2>2 DEF CallStart
<1>11. CASE DeleteCamera
  BY <1>11 DEF DeleteCamera
<1>12. CASE Background
  BY <1>12, BackgroundFacts, ThreadGoesOn
<1>13. CASE UNCHANGED allVars
  BY <1>13 DEF allVars, vars, objectVars, loopVars
<1> QED
  BY <1>1, <1>2, <1>3, <1>4, <1>5, <1>6, <1>7, <1>8, <1>9, <1>10, <1>11, <1>12, <1>13
     DEF FragmentNext, Handlers, CameraCalls

\* onCameraState(OPENED) is taken back before the capture is: as long as the
\* surface is there, a listener told so last has a thread that nobody has joined
\* and that leaves only when the device gives it no frame.
THEOREM OpenedIsCapturing == FragmentSpec => OpenedMeansCapturing
<1>1. FragmentInit => WithoutSurface /\ AnnouncedCapture
  BY DEF FragmentInit, Built, WithoutSurface, AnnouncedCapture, ToldOpened
<1>2. FragmentInv /\ AnnouncedCapture /\ [FragmentNext]_allVars
        => [ToldOpened =>
              /\ status = "RUN"
              /\ LoopRunning \/ loop = "exited"
              /\ LoopRunning /\ ~LoopRunning' => loop = "dqbuf"]_allVars
  <2> SUFFICES ASSUME FragmentInv, AnnouncedCapture, FragmentNext, ToldOpened
               PROVE  /\ status = "RUN"
                      /\ LoopRunning \/ loop = "exited"
                      /\ LoopRunning /\ ~LoopRunning' => loop = "dqbuf"
    BY DEF AnnouncedCapture
  <2>1. status = "RUN" /\ (LoopRunning \/ loop = "exited")
    BY DEF AnnouncedCapture
  <2>2. CASE Background
    BY <2>1, <2>2, ThreadGoesOn
  <2>3. CASE Handlers
    <3>1. camera = "object" /\ fragment.lifecycle = "viewed"
      BY DEF ToldOpened, FragmentInv, FragmentTypeOK
    <3>2. UNCHANGED loop
      BY <2>3, <3>1 DEF ToldOpened, Handlers, OnViewCreated, OnDestroy, Reopen,
         SurfaceCreated, SurfaceDestroyed, SetOnCameraPreviewDataListener, vars, loopVars
    <3> QED
      BY <2>1, <3>2 DEF LoopRunning
  <2>4. ~CameraCalls
    BY DEF ToldOpened, CameraCalls, CreateCamera, StopPreviewCamera, GetPreviewSize,
       CallSetFrameSize, CallSetFrameCallback, CallSetPreview, CallStart, DeleteCamera
  <2> QED
    BY <2>1, <2>2, <2>3, <2>4 DEF FragmentNext
<1> QED
  BY <1>1, <1>2, AnnouncedStep, FragmentInvariance, PTL DEF FragmentSpec, OpenedMeansCapturing

-----------------------------------------------------------------------------
(* The fragment keeps to AllRules *)

\* The definitions of a camera whose client keeps to AllRules are those of
\* CameraAPI except for two guards.
LEMMA SameActions ==
  /\ UNCHANGED vars => UNCHANGED RuledCamera!vars
  /\ Init => RuledCamera!Init
  /\ NativeInit => RuledCamera!NativeInit
  /\ ConnectOk => RuledCamera!ConnectOk
  /\ \A f : SetFrameSize(f) => RuledCamera!SetFrameSize(f)
  /\ \A b : SetPreview(b) => RuledCamera!SetPreview(b)
  /\ StartFails => RuledCamera!StartFails
  /\ StartStreams => RuledCamera!StartStreams
  /\ StopRequest => RuledCamera!StopRequest
  /\ StopJoined => RuledCamera!StopJoined
  /\ DestroyDelete => RuledCamera!DestroyDelete
  /\ Surroundings => RuledCamera!Unplug \/ RuledCamera!Replug
                       \/ \E i \in RuledCamera!Slots : RuledCamera!FillFrame(i)
  /\ Capture => RuledCamera!Capture
<1> USE DEF vars, objectVars, driverVars, loopVars, clientVars, Ready, LoopRunning, InLoop,
        RuledCamera!vars, RuledCamera!objectVars, RuledCamera!driverVars,
        RuledCamera!loopVars, RuledCamera!clientVars, RuledCamera!Ready,
        RuledCamera!LoopRunning, RuledCamera!InLoop
<1>1. UNCHANGED vars => UNCHANGED RuledCamera!vars
  OBVIOUS
<1>2. Init => RuledCamera!Init
  BY DEF Init, NoSlot, RuledCamera!Init, RuledCamera!NoSlot
<1>3. NativeInit => RuledCamera!NativeInit
  BY DEF NativeInit, RuledCamera!NativeInit
<1>4. ConnectOk => RuledCamera!ConnectOk
  BY DEF ConnectOk, RuledCamera!ConnectOk
<1>5. \A f : SetFrameSize(f) => RuledCamera!SetFrameSize(f)
  BY DEF SetFrameSize, RuledCamera!SetFrameSize
<1>6. \A b : SetPreview(b) => RuledCamera!SetPreview(b)
  BY DEF SetPreview, CanReconfigure, PreviewPixelFormat, DecoderPixelFormat,
         RuledCamera!SetPreview, RuledCamera!CanReconfigure,
         RuledCamera!PreviewPixelFormat, RuledCamera!DecoderPixelFormat
<1>7. \A m, q : Prepared(m, q) => RuledCamera!Prepared(m, q)
  BY DEF Prepared, SlotsBelow, RuledCamera!Prepared, RuledCamera!SlotsBelow
<1>8. StartFails => RuledCamera!StartFails
  BY <1>7 DEF StartFails, Slots, RuledCamera!StartFails, RuledCamera!Slots
<1>9. StartStreams => RuledCamera!StartStreams
  BY <1>7 DEF StartStreams, RuledCamera!StartStreams
<1>10. StopRequest => RuledCamera!StopRequest
  BY DEF StopRequest, RuledCamera!StopRequest
<1>11. StopJoined => RuledCamera!StopJoined
  BY DEF StopJoined, JoinReturns, StillMapped, SlotsBelow, RuledCamera!StopJoined,
         RuledCamera!JoinReturns, RuledCamera!StillMapped, RuledCamera!SlotsBelow
<1>12. DestroyDelete => RuledCamera!DestroyDelete
  BY DEF DestroyDelete, RuledCamera!DestroyDelete
<1>13. Surroundings => RuledCamera!Unplug \/ RuledCamera!Replug
                         \/ \E i \in RuledCamera!Slots : RuledCamera!FillFrame(i)
  BY DEF Surroundings, Unplug, Replug, FillFrame, Slots, RuledCamera!Unplug,
         RuledCamera!Replug, RuledCamera!FillFrame, RuledCamera!Slots
<1>14. Capture => RuledCamera!Capture
  <2>1. LoopCheck => RuledCamera!LoopCheck
    BY DEF LoopCheck, LoopContinues, RuledCamera!LoopCheck, RuledCamera!LoopContinues
  <2>2. SelectIdle => RuledCamera!SelectIdle
    BY DEF SelectIdle, SelectTimesOut, RuledCamera!SelectIdle, RuledCamera!SelectTimesOut
  <2>3. SelectReady => RuledCamera!SelectReady
    BY DEF SelectReady, RuledCamera!SelectReady
  <2>4. Dqbuf => RuledCamera!Dqbuf
    BY DEF Dqbuf, RuledCamera!Dqbuf
  <2>5. Convert => RuledCamera!Convert
    BY DEF Convert, DecoderPixelFormat, RuledCamera!Convert, RuledCamera!DecoderPixelFormat
  <2>6. RenderFrame => RuledCamera!RenderFrame
    BY DEF RenderFrame, RuledCamera!RenderFrame
  <2>7. SendFrame => RuledCamera!SendFrame
    BY DEF SendFrame, RuledCamera!SendFrame
  <2>8. Requeue => RuledCamera!Requeue
    BY DEF Requeue, NoSlot, RuledCamera!Requeue, RuledCamera!NoSlot
  <2> QED
    BY <2>1, <2>2, <2>3, <2>4, <2>5, <2>6, <2>7, <2>8 DEF Capture, RuledCamera!Capture
<1> QED
  BY <1>1, <1>2, <1>3, <1>4, <1>5, <1>6, <1>8, <1>9, <1>10, <1>11, <1>12, <1>13, <1>14

\* Every step of the fragment is one the camera allows a client that keeps to
\* AllRules, or leaves the camera alone: onDestroy finds no capture, and only a
\* listener is set as callback.
LEMMA FragmentStepImplements ==
  ASSUME FragmentInv, [FragmentNext]_allVars
  PROVE  RuledCamera!Next \/ UNCHANGED RuledCamera!vars
<1> USE SameActions DEF RuledCamera!Next, RuledCamera!Configure
<1>1. CASE Handlers
  <2>1. CASE OnViewCreated
    BY <2>1 DEF OnViewCreated
  <2>2. CASE SurfaceCreated \/ SurfaceDestroyed \/ Reopen
    BY <2>2 DEF SurfaceCreated, SurfaceDestroyed, Reopen
  <2>3. ASSUME NEW listener, SetOnCameraPreviewDataListener(listener)
        PROVE  UNCHANGED RuledCamera!vars
    BY <2>3 DEF SetOnCameraPreviewDataListener
  <2>4. CASE OnDestroy
    <3>1. CASE UNCHANGED vars
      BY <3>1
    <3>2. CASE DestroyRelease
      <4>1. status # "RUN"
        BY <2>4 DEF OnDestroy, FragmentInv
      <4>2. RuledCamera!DestroyRelease
        BY <3>2, <4>1
           DEF DestroyRelease, CloseWorks, Ready, loopVars, RuledCamera!DestroyRelease,
               RuledCamera!CloseWorks, RuledCamera!Ready, RuledCamera!loopVars
      <4> QED
        BY <4>2
    <3> QED
      BY <2>4, <3>1, <3>2 DEF OnDestroy
  <2> QED
    BY <1>1, <2>1, <2>2, <2>3, <2>4 DEF Handlers
<1>2. CASE CameraCalls
  <2>1. CASE CreateCamera
    BY <2>1 DEF CreateCamera
  <2>2. CASE StopPreviewCamera
    BY <2>2 DEF StopPreviewCamera
  <2>3. CASE GetPreviewSize
    BY <2>3 DEF GetPreviewSize
  <2>4. CASE CallSetFrameSize
    <3>1. CASE SetFrameSize(fragment.found)
      <4>1. fragment.found \in RuledCamera!FrameFormats
        BY <2>4, <3>1 DEF CallSetFrameSize, FragmentInv, FragmentTypeOK,
           FrameFormats, RuledCamera!FrameFormats
      <4> QED
        BY <3>1, <4>1
    <3> QED
      BY <2>4, <3>1 DEF CallSetFrameSize
  <2>5. CASE CallSetFrameCallback
    <3>1. fragment.frameCallback \in Callbacks
      BY <2>5 DEF CallSetFrameCallback, FragmentInv, FragmentTypeOK
    <3>2. RuledCamera!SetFrameCallback(fragment.frameCallback)
      BY <2>5, <3>1, CallbackAssumption
         DEF CallSetFrameCallback, SetFrameCallback, CanReconfigure, Ready, driverVars,
             loopVars, clientVars, RuledCamera!SetFrameCallback,
             RuledCamera!CanReconfigure, RuledCamera!Ready, RuledCamera!driverVars,
             RuledCamera!loopVars, RuledCamera!clientVars
    <3> QED
      BY <3>1, <3>2
  <2>6. CASE CallSetPreview
    BY <2>6 DEF CallSetPreview
  <2>7. CASE CallStart
    BY <2>7 DEF CallStart
  <2>8. CASE DeleteCamera
    BY <2>8 DEF DeleteCamera
  <2> QED
    BY <1>2, <2>1, <2>2, <2>3, <2>4, <2>5, <2>6, <2>7, <2>8 DEF CameraCalls
<1>3. CASE Background
  BY <1>3 DEF Background
<1>4. CASE UNCHANGED allVars
  BY <1>4 DEF allVars
<1> QED
  BY <1>1, <1>2, <1>3, <1>4 DEF FragmentNext

\* In the application the camera is used as AllRules says.
THEOREM FragmentImplementsCamera == FragmentSpec => RuledCameraSpec
<1>1. FragmentInit => RuledCamera!Init
  BY SameActions DEF FragmentInit
<1>2. FragmentInv /\ [FragmentNext]_allVars => [RuledCamera!Next]_RuledCamera!vars
  BY FragmentStepImplements
<1> QED
  BY <1>1, <1>2, FragmentInvariance, PTL DEF FragmentSpec, RuledCameraSpec, RuledCamera!Spec

-----------------------------------------------------------------------------
(* What the invariant of the camera gives the application *)

\* A step of the fragment is one of CameraAPI or leaves the camera alone, and
\* breaks none of AllRules although ClientRules may not demand them.
LEMMA FragmentStepObeys ==
  ASSUME FragmentInv, CaptureInv, [FragmentNext]_allVars
  PROVE  [Next]_vars /\ StepObeys
<1> USE DEF StepObeys, Next, Configure
<1>1. callbackRef # "deleted"
  BY DEF CaptureInv, CallbackInv
<1>2. CASE UNCHANGED vars
  BY <1>1, <1>2 DEF vars, objectVars, clientVars
<1>3. CASE Handlers
  <2>1. CASE OnViewCreated
    BY <1>1, <2>1 DEF OnViewCreated, NativeInit, objectVars
  <2>2. CASE OnDestroy
    <3>1. status # "RUN"
      BY <2>2 DEF OnDestroy, FragmentInv
    <3>2. CASE DestroyRelease
      BY <3>1, <3>2 DEF DestroyRelease
    <3> QED
      BY <1>2, <2>2, <3>2 DEF OnDestroy
  <2> QED
    BY <1>2, <1>3, <2>1, <2>2
       DEF Handlers, Reopen, SurfaceCreated, SurfaceDestroyed, SetOnCameraPreviewDataListener
<1>4. CASE CameraCalls
  <2>1. CASE ConnectOk
    BY <1>1, <2>1 DEF ConnectOk, clientVars
  <2>2. CASE StopRequest \/ StopJoined
    BY <1>1, <2>2 DEF StopRequest, StopJoined, objectVars
  <2>3. ASSUME main = "setFrameSize", SetFrameSize(fragment.found)
        PROVE  Next /\ StepObeys
    <3>1. fragment.found \in FrameFormats
      BY <2>3 DEF FragmentInv, FragmentTypeOK
    <3> QED
      BY <1>1, <2>3, <3>1 DEF SetFrameSize, clientVars
  <2>4. CASE CallSetFrameCallback
    <3>1. fragment.frameCallback \in Callbacks
      BY <2>4 DEF CallSetFrameCallback, FragmentInv, FragmentTypeOK
    <3> QED
      BY <1>1, <2>4, <3>1, CallbackAssumption
         DEF CallSetFrameCallback, SetFrameCallback, clientVars
  <2>5. CASE SetPreview(TRUE)
    BY <1>1, <2>5 DEF SetPreview, clientVars
  <2>6. CASE StartStreams \/ StartFails
    BY <1>1, <2>6 DEF StartStreams, StartFails, clientVars
  <2>7. CASE DestroyDelete
    BY <1>1, <2>7 DEF DestroyDelete
  <2> QED
    BY <1>2, <1>4, <2>1, <2>2, <2>3, <2>4, <2>5, <2>6, <2>7
       DEF CameraCalls, CreateCamera, StopPreviewCamera, GetPreviewSize,
           CallSetFrameSize, CallSetPreview, CallStart, DeleteCamera
<1>5. CASE Background
  <2>1. Next
    BY <1>5 DEF Background, Surroundings
  <2>2. UNCHANGED <<call, callbackRef>>
    <3>1. CASE Surroundings
      BY <3>1 DEF Surroundings, Unplug, Replug, FillFrame, objectVars, clientVars
    <3>2. CASE Capture
      BY <3>2 DEF Capture, LoopCheck, SelectIdle, SelectReady, Dqbuf, Convert,
                  RenderFrame, SendFrame, Requeue, objectVars, clientVars
    <3> QED
      BY <1>5, <3>1, <3>2 DEF Background
  <2> QED
    BY <1>1, <2>1, <2>2
<1> QED
  BY <1>2, <1>3, <1>4, <1>5 DEF FragmentNext, allVars

\* Everything CaptureInv says of a camera holds in the application.
LEMMA FragmentCaptureInv == FragmentSpec => []CaptureInv
<1>1. FragmentInit => CaptureInv
  BY InitInv DEF FragmentInit
<1>2. FragmentInv /\ CaptureInv /\ [FragmentNext]_allVars => CaptureInv'
  BY FragmentStepObeys, StepInv
<1> QED
  BY <1>1, <1>2, FragmentInvariance, PTL DEF FragmentSpec

\* In the application the capture thread never touches what the main thread has
\* released, whatever fails and however Android orders the handlers.
THEOREM FragmentMemorySafety == FragmentSpec => []LoopMemorySafe
  BY FragmentCaptureInv, InvMemorySafe, PTL

\* The capture thread runs only while there is a surface, unless the main thread
\* is in the call that stops it.
THEOREM FragmentDrawsOnlyOnSurface == FragmentSpec => []DrawsOnlyOnSurface
<1>1. FragmentInv /\ CaptureInv => DrawsOnlyOnSurface
  BY DEF FragmentInv, CaptureInv, LifecycleInv, QuietOutsideRun, DrawsOnlyOnSurface
<1> QED
  BY <1>1, FragmentInvariance, FragmentCaptureInv, PTL

\* What the fragment's user sees of the camera is a session of CaptureSession.
THEOREM FragmentImplementsSession == FragmentSpec => SessionSpec
<1>1. FragmentInit => CS!Init
  BY InitRefines DEF FragmentInit
<1>2. FragmentInv /\ CaptureInv /\ [FragmentNext]_allVars => [CS!Next]_CS!absVars
  BY FragmentStepObeys, StepRefines
<1> QED
  BY <1>1, <1>2, FragmentInvariance, FragmentCaptureInv, PTL
     DEF FragmentSpec, SessionSpec, CS!Spec

\* In the application the preview is never given a frame of another layout,
\* although each surface brings another choice of size and decoder.
THEOREM FragmentRendererMatches == FragmentSpec => []RendererMatchesFrame
<1>1. FragmentInit => PreviewInv
  BY PreviewInit DEF FragmentInit
<1>2. FragmentInv /\ CaptureInv /\ PreviewInv /\ [FragmentNext]_allVars => PreviewInv'
  BY FragmentStepObeys, PreviewStep
<1> QED
  BY <1>1, <1>2, FragmentInvariance, FragmentCaptureInv, InvRendererMatches, PTL DEF FragmentSpec

\* Nor does anything the main thread calls exchange what a frame under way is
\* rendered and sent with.
THEOREM FragmentStableTargets == FragmentSpec => FrameTargetsStable
<1>1. FragmentInv /\ CaptureInv /\ [FragmentNext]_allVars
        => [(loop \in HoldsFrame \ {"requeue"}) => UNCHANGED frameTargets]_vars
  BY FragmentStepObeys, TargetsStep
<1> QED
  BY <1>1, FragmentInvariance, FragmentCaptureInv, PTL DEF FragmentSpec, FrameTargetsStable

\* The main thread, when it stops the camera in surfaceDestroyed or before a new
\* start, waits for at most seven steps of the capture thread.
THEOREM FragmentStopBounded == FragmentSpec => JoinIsBounded
<1>1. FragmentInv /\ CaptureInv /\ [FragmentNext]_allVars =>
        [call = "joining" =>
           /\ StepsLeft \in 0 .. 7 /\ StepsLeft' <= StepsLeft
           /\ Capture => StepsLeft' < StepsLeft
           /\ JoinReturns <=> StepsLeft = 0
           /\ call' # "joining" => StepsLeft = 0]_vars
  BY FragmentStepObeys, JoinStep
<1> QED
  BY <1>1, FragmentInvariance, FragmentCaptureInv, PTL DEF FragmentSpec, JoinIsBounded
=============================================================================
