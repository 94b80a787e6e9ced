--------------------------- MODULE Camera2Fragment ---------------------------
(* The fragment that shows a camera of the system (Camera2Fragment.java), on  *)
(* top of its focus view.  All of its code runs on the main thread: Android's *)
(* handlers, the touches of the focus view, and the callbacks of camera2,     *)
(* which answer later what a handler asked for.  The main looper runs them in *)
(* the order they were posted in.  Left out are rotation and flip.            *)
EXTENDS FocusView, Sequences

CONSTANTS
    PreviewSizes,   \* sizes of a preview a camera may have, [width, height]
    ViewSizes,      \* sizes of the view it is shown in
    TapSlop         \* how many pixels beside the view a tap may end that began in it

\* A tap that is not dragged moves 16 dp at most, less than AreaSize.
ASSUME SizeAssumption ==
    /\ PreviewSizes \cup ViewSizes \subseteq [width : Nat \ {0}, height : Nat \ {0}]
    /\ TapSlop \in 0 .. 100

VARIABLES
    fragment,   \* its fields and its place in Android's lifecycle
    camera,     \* the camera and what camera2 does with it
    posted      \* the callbacks posted to the main looper, oldest first

camera2Vars == <<fragment, camera, posted>>
allVars == <<focusVars, camera2Vars>>

NoSize == [width |-> 0, height |-> 0]
DefaultSize == [width |-> 640, height |-> 480]
NoRequest == [afTrigger |-> "null", exposure |-> "null"]
Exposures == {"asMeasured", "corrected"}
Requests == [afTrigger : {"none", "idle", "start"}, exposure : Exposures]
TemplatePreview == [afTrigger |-> "none", exposure |-> "asMeasured"]
MaxImages == 2

\* The size asked for if the camera has it, else 640 x 480.
FindPreviewSize(offered, wanted) ==
    IF wanted \in offered THEN wanted
    ELSE IF DefaultSize \in offered THEN DefaultSize
    ELSE NoSize

-----------------------------------------------------------------------------
(* The area metered for a tap, in pixels of the preview: 100 to each side,    *)
(* cut off at 0 and at the size of the view.                                  *)
AreaSize == 100

\* The cast of n / d to int.
Truncated(n, d) == IF n >= 0 THEN n \div d ELSE -((-n) \div d)

\* The edges of the area around n / d.
LowEdge(n, d) == IF n > AreaSize * d THEN (n - AreaSize * d) \div d ELSE 0
HighEdge(n, d, limit) ==
    LET edge == Truncated(n + AreaSize * d, d) IN IF edge < limit THEN edge ELSE limit

\* The preview as it lies in the view.
Turned(preview, view) ==
    IF \/ preview.width > preview.height /\ view.width < view.height
       \/ preview.width < preview.height /\ view.width > view.height
    THEN [width |-> preview.height, height |-> preview.width]
    ELSE preview

MeteringArea(x, y, preview, view) ==
    LET lying == Turned(preview, view)
        n == x * lying.width
        m == y * lying.height
    IN  [left |-> LowEdge(n, view.width), right |-> HighEdge(n, view.width, view.width),
         top |-> LowEdge(m, view.height), bottom |-> HighEdge(m, view.height, view.height)]

\* MeteringRectangle accepts no negative width or height.
IsRectangle(area) == area.left <= area.right /\ area.top <= area.bottom

\* Taps in the middle, and as far outside the view as they go; a finger that was
\* dragged to the side may be far from it.
Along(length) == {-TapSlop, length \div 2, length + TapSlop}
Aside(length) == {-length, 2 * length}

-----------------------------------------------------------------------------
Callbacks == {"opened", "disconnected", "error", "configured", "configureFailed", "image"}

\* The fragment as its Builder and its user leave it: whether it is to focus,
\* whether to deliver frames and somebody is there to hear of them, the size
\* checkCameraId finds, and whether the camera pads the rows of its frames, which
\* is of interest only if somebody hears of them.
Built ==
  {built \in
    [lifecycle    : {"attached"},
     useFocus     : BOOLEAN,
     frames       : {"unused", "ignored", "heard"},
     size         : {FindPreviewSize(offered, wanted) :
                       offered \in SUBSET PreviewSizes, wanted \in PreviewSizes},
     view         : ViewSizes,
     rows         : {"exact", "padded"},
     surface      : {"none"},
     cameraDevice : {"null"},
     session      : {"null"},
     builder      : {NoRequest},
     reader       : {"null"},
     told         : {"nothing"},
     crash        : {"none"}] : built.rows = "padded" => built.frames = "heard"}

\* No camera is open; repeating is the request the camera repeats, images are
\* those the reader holds.
ClosedCamera == [device |-> "closed", repeating |-> NoRequest, images |-> 0]

Camera2TypeOK ==
    /\ FocusTypeOK
    /\ fragment \in
         [lifecycle    : {"attached", "viewed", "destroyed", "crashed"},
          useFocus     : BOOLEAN,
          frames       : {"unused", "ignored", "heard"},
          size         : PreviewSizes \cup {NoSize},
          view         : ViewSizes,
          rows         : {"exact", "padded"},
          surface      : {"none", "available"},
          cameraDevice : {"null", "camera"},
          session      : {"null", "session"},
          builder      : Requests \cup {NoRequest},
          reader       : {"null", "reader"},
          told         : {"nothing", "opened", "failed"},
          crash        : {"none", "onOpened", "onConfigured", "image", "padding",
                          "request", "range", "area"}]
    /\ camera \in
         [device    : {"closed", "opening", "open", "lost", "disconnected"},
          repeating : Requests \cup {NoRequest},
          images    : 0 .. MaxImages]
    /\ posted \in Seq(Callbacks)

Camera2Init ==
    /\ FocusInit
    /\ fragment \in Built
    /\ camera = ClosedCamera
    /\ posted = <<>>

\* An exception nobody catches ends the process, and with it the camera is freed.
Crash(cause) ==
    /\ fragment' = [fragment EXCEPT !.lifecycle = "crashed", !.crash = cause,
                                    !.surface = "none", !.cameraDevice = "null",
                                    !.session = "null", !.builder = NoRequest,
                                    !.reader = "null"]
    /\ camera' = ClosedCamera
    /\ posted' = <<>>

\* onCameraState, with what else the step changes in the fragment.
Tell(state, changed) == fragment' = [changed EXCEPT !.told = state]

-----------------------------------------------------------------------------
(* The handlers Android calls *)

\* checkCameraId finds no size, or the camera cannot be asked, or the surface is
\* listened for.
OnViewCreated ==
    /\ fragment.lifecycle = "attached"
    /\ LET viewed == [fragment EXCEPT !.lifecycle = "viewed"]
       IN  \/ Tell("failed", [viewed EXCEPT !.size = NoSize])
           \/ fragment.size # NoSize /\ fragment' = viewed
    /\ UNCHANGED <<camera, posted, focusVars>>

\* openCamera fails, or it will be answered.
OnSurfaceTextureAvailable ==
    /\ fragment.lifecycle = "viewed"
    /\ fragment.size # NoSize
    /\ fragment.surface = "none"
    /\ LET available == [fragment EXCEPT !.surface = "available"]
       IN  \/ Tell("failed", available) /\ UNCHANGED camera
           \/ fragment' = available /\ camera' = [camera EXCEPT !.device = "opening"]
    /\ UNCHANGED <<posted, focusVars>>

\* As if the device were left open.
CloseCameraBug ==
    /\ fragment' = [fragment EXCEPT !.lifecycle = "destroyed", !.surface = "none",
                                    !.session = "null", !.builder = NoRequest]
    /\ camera' = [camera EXCEPT !.repeating = NoRequest]

\* closeCamera.  Closing the device makes an answer that is still posted void,
\* except for onConfigured.
CloseCamera ==
    /\ fragment' = [fragment EXCEPT !.lifecycle = "destroyed", !.surface = "none",
                                    !.session = "null", !.builder = NoRequest,
                                    !.cameraDevice = "null"]
    /\ camera' = [camera EXCEPT !.device = IF fragment.cameraDevice = "null" THEN @ ELSE "closed",
                                !.repeating = NoRequest]

\* Android takes the views away, with them the surface, and destroys the
\* fragment in one go; nothing else runs on the main thread in between.
OnDestroy ==
    /\ fragment.lifecycle = "viewed"
    /\ CloseCamera
    /\ OnDetachedFromWindow
    /\ UNCHANGED posted

\* The client opens its preview again with a new fragment, in a new process after
\* a crash, else when the old one is done with.
Reopen ==
    /\ \/ fragment.lifecycle = "crashed"
       \/ fragment.lifecycle = "destroyed" /\ posted = <<>> /\ camera.device # "opening"
    /\ fragment' \in Built
    /\ fragment'.useFocus = fragment.useFocus
    /\ fragment'.frames = fragment.frames
    /\ fragment'.rows = fragment.rows
    /\ camera' = ClosedCamera
    /\ focusAlpha' = 0
    /\ alphaThread' = NoThread
    /\ hasMoveSun' = FALSE
    /\ finger' = "up"
    /\ fader' = [t \in Faders |-> Dead]
    /\ UNCHANGED posted
-----------------------------------------------------------------------------
(* The callbacks of camera2, each the oldest that is posted *)

IsNext(callback) ==
    /\ posted # <<>>
    /\ Head(posted) = callback

\* onOpened.  After onDestroy the texture view has no surface any more, of which
\* a new Surface cannot be made.  A session is configured at once, or not, and
\* says so by a callback, posted before any loss of the camera; a lost camera has
\* none.
OnOpened ==
    /\ IsNext("opened")
    /\ IF fragment.surface = "none" THEN Crash("onOpened")
       ELSE LET opened == [fragment EXCEPT !.cameraDevice = "camera",
                             !.reader = IF fragment.frames = "unused" THEN @ ELSE "reader"]
            IN  /\ UNCHANGED camera
                /\ \/ /\ camera.device = "open"
                      /\ fragment' = opened
                      /\ \E answer \in {"configured", "configureFailed"} :
                           posted' = Append(Tail(posted), answer)
                   \/ /\ camera.device = "lost"
                      /\ Tell("failed", opened)
                      /\ posted' = Tail(posted)

\* onConfigured.  A closed device throws what is not caught here.  A camera may be
\* lost before or after it made the request that is then not repeated.
OnConfigured ==
    /\ IsNext("configured")
    /\ IF camera.device = "closed" THEN Crash("onConfigured")
       ELSE LET configured == [fragment EXCEPT !.session = "session"]
            IN  /\ posted' = Tail(posted)
                /\ \/ /\ camera.device = "open"
                      /\ Tell("opened", [configured EXCEPT !.builder = TemplatePreview])
                      /\ camera' = [camera EXCEPT !.repeating = TemplatePreview]
                   \/ /\ camera.device = "lost"
                      /\ \E builder \in {fragment.builder, TemplatePreview} :
                           Tell("failed", [configured EXCEPT !.builder = builder])
                      /\ UNCHANGED camera

\* As if nobody were told.
OnConfigureFailedBug ==
    /\ IsNext("configureFailed")
    /\ fragment' = [fragment EXCEPT !.session = "session"]
    /\ posted' = Tail(posted)
    /\ UNCHANGED camera

OnConfigureFailed ==
    /\ IsNext("configureFailed")
    /\ Tell("failed", [fragment EXCEPT !.session = "session"])
    /\ posted' = Tail(posted)
    /\ UNCHANGED camera

\* camera2 closes the session of a device before it says it is disconnected.
SessionClosed ==
    camera' = [camera EXCEPT !.device = IF IsNext("disconnected") THEN "disconnected" ELSE @]

\* As if the device were only stored.
OnLostBug ==
    /\ IsNext("disconnected") \/ IsNext("error")
    /\ IF camera.device = "closed" THEN UNCHANGED <<fragment, camera>>
       ELSE fragment' = [fragment EXCEPT !.cameraDevice = "camera"] /\ SessionClosed
    /\ posted' = Tail(posted)

\* onDisconnected and onError, which camera2 drops for a closed device.
OnLost ==
    /\ IsNext("disconnected") \/ IsNext("error")
    /\ IF camera.device = "closed" THEN UNCHANGED <<fragment, camera>>
       ELSE Tell("failed", [fragment EXCEPT !.cameraDevice = "camera"]) /\ SessionClosed
    /\ posted' = Tail(posted)

\* As if a frame were never given back.
OnImageAvailableBug ==
    /\ IsNext("image")
    /\ posted' = Tail(posted)
    /\ UNCHANGED <<fragment, camera>>

\* An image is acquired, converted and closed, and leaves so many in the reader.
\* An empty reader gives null, which is not expected, and padded rows cannot be
\* converted (FrameConversion.tla): nobody catches either exception.
HearImage(left) ==
    \/ camera.images = 0 /\ Crash("image")
    \/ camera.images > 0 /\ fragment.rows = "padded" /\ Crash("padding")
    \/ /\ camera.images > 0 /\ fragment.rows = "exact"
       /\ camera' = [camera EXCEPT !.images = left]
       /\ posted' = Tail(posted)
       /\ UNCHANGED fragment

\* Without a listener the frame stays in the reader.
IgnoreImage ==
    /\ posted' = Tail(posted)
    /\ UNCHANGED <<fragment, camera>>

\* As if the newest frame were acquired, and the others dropped.
OnImageAvailableLatest ==
    /\ IsNext("image")
    /\ IF fragment.frames = "heard" THEN HearImage(0) ELSE IgnoreImage

OnImageAvailable ==
    /\ IsNext("image")
    /\ IF fragment.frames = "heard" THEN HearImage(camera.images - 1) ELSE IgnoreImage

RunPosted ==
    /\ \/ OnOpened \/ OnConfigured \/ OnConfigureFailed
       \/ OnLost \/ OnImageAvailable
    /\ UNCHANGED focusVars

-----------------------------------------------------------------------------
(* The focus view's listener *)

\* As if the device and the session were not asked for.
FocusableBug == fragment.size # NoSize

Focusable ==
    /\ fragment.cameraDevice # "null"
    /\ fragment.session # "null"
    /\ fragment.builder # NoRequest

\* As if the new exposure were not sent.
SetRepeatingRequestBug(request) ==
    /\ fragment' = [fragment EXCEPT !.builder = request]
    /\ UNCHANGED <<camera, posted>>

\* As if a request a lost camera refuses were reported at once.
SetRepeatingRequestTells(request) ==
    IF camera.device \in {"closed", "disconnected"} THEN Crash("request")
    ELSE /\ IF camera.device = "lost" THEN Tell("failed", fragment)
              ELSE fragment' = [fragment EXCEPT !.builder = request]
         /\ camera' = [camera EXCEPT !.repeating = IF camera.device = "open" THEN request ELSE @]
         /\ UNCHANGED posted

\* setRepeatingRequest of what the builder holds.  A lost camera throws what is
\* caught, a closed session what is not.
SetRepeatingRequest(request) ==
    IF camera.device \in {"closed", "disconnected"} THEN Crash("request")
    ELSE /\ fragment' = [fragment EXCEPT !.builder = request]
         /\ camera' = [camera EXCEPT !.repeating = IF camera.device = "open" THEN request ELSE @]
         /\ UNCHANGED posted

\* A tap stops the focus that is running and starts it at another place, with no
\* correction of the exposure; on a lost camera it gets no further than the first
\* request.
OnFocusChange(x, y) ==
    IF ~Focusable THEN UNCHANGED camera2Vars
    ELSE IF camera.device # "open"
      THEN SetRepeatingRequest([fragment.builder EXCEPT !.afTrigger = "idle"])
    ELSE IF ~IsRectangle(MeteringArea(x, y, fragment.size, fragment.view)) THEN Crash("area")
    ELSE SetRepeatingRequest([afTrigger |-> "start", exposure |-> "asMeasured"])

\* getCameraCharacteristics of a camera that is gone may throw: what is caught, or,
\* if its id is not known any more, what is not.
OnExposureChange(exposure) ==
    \/ ~Focusable /\ UNCHANGED camera2Vars
    \/ /\ Focusable
       /\ camera.device \in {"lost", "disconnected"}
       /\ UNCHANGED camera2Vars \/ Crash("range")
    \/ Focusable /\ SetRepeatingRequest([fragment.builder EXCEPT !.exposure = exposure])

\* How far from the left edge of the view a tap may end.
TapsAcross ==
    Along(fragment.view.width)
      \cup IF finger = "dragged" THEN Aside(fragment.view.width) ELSE {}

\* Touches, as long as there is a view, and a client that hides the frame.
TouchView ==
    /\ fragment.lifecycle = "viewed"
    /\ fragment.useFocus
    /\ \/ (ActionDown \/ Drag \/ Swipe \/ EndGesture \/ HideFocus) /\ UNCHANGED camera2Vars
       \/ Tap /\ \E x \in TapsAcross, y \in Along(fragment.view.height) : OnFocusChange(x, y)
       \/ MoveSun /\ \E exposure \in Exposures : OnExposureChange(exposure)

-----------------------------------------------------------------------------
(* The camera and camera2 *)

Post(callback) == posted' = Append(posted, callback)

AnswerOpen ==
    /\ camera.device = "opening"
    /\ \/ camera' = [camera EXCEPT !.device = "open"] /\ Post("opened")
       \/ /\ camera' = [camera EXCEPT !.device = "lost"]
          /\ Post("disconnected") \/ Post("error")
    /\ UNCHANGED <<fragment, focusVars>>

\* Unplugged, taken by another application, or broken.
LoseCamera ==
    /\ camera.device = "open"
    /\ camera' = [camera EXCEPT !.device = "lost", !.repeating = NoRequest]
    /\ Post("disconnected") \/ Post("error")
    /\ UNCHANGED <<fragment, focusVars>>

\* A full reader stops the camera: it has no buffer for the next frame.
CaptureImage ==
    /\ camera.repeating # NoRequest
    /\ fragment.reader # "null"
    /\ camera.images < MaxImages
    /\ camera' = [camera EXCEPT !.images = @ + 1]
    /\ Post("image")
    /\ UNCHANGED <<fragment, focusVars>>

FadeFrame(t) ==
    /\ fragment.lifecycle # "crashed"
    /\ FaderStep(t)
    /\ UNCHANGED camera2Vars

-----------------------------------------------------------------------------
Camera2Next ==
    \/ OnViewCreated \/ OnSurfaceTextureAvailable \/ OnDestroy \/ Reopen
    \/ RunPosted \/ TouchView
    \/ AnswerOpen \/ LoseCamera \/ CaptureImage
    \/ \E t \in Faders : FadeFrame(t)

Camera2Spec == Camera2Init /\ [][Camera2Next]_allVars

\* The main looper goes on, camera2 answers a request to open, and threads run.
FairCamera2Spec ==
    /\ Camera2Spec
    /\ WF_allVars(RunPosted)
    /\ WF_allVars(AnswerOpen)
    /\ \A t \in Faders : WF_allVars(FadeFrame(t))

-----------------------------------------------------------------------------
(* Properties *)

IsPosted(callbacks) == \E i \in 1 .. Len(posted) : posted[i] \in callbacks
LossPosted == IsPosted({"disconnected", "error"})

\* A device that was opened belongs to a fragment that will close it, or to one
\* that still has to hear of it: onDestroy leaves none open.
DeviceIsOwned ==
    camera.device = "open" =>
        \/ fragment.cameraDevice = "camera" /\ fragment.lifecycle = "viewed"
        \/ IsPosted({"opened"})

\* While the button for a photo is enabled, because onCameraState said last that
\* the camera is open, it runs, or the message of its loss is on its way.
OpenedIsTrue ==
    fragment.told = "opened" /\ fragment.lifecycle = "viewed" =>
        camera.repeating # NoRequest \/ LossPosted

\* The settings the camera repeats are those of the last touch.
SettingsAreRepeated ==
    camera.device = "open" /\ fragment.builder # NoRequest =>
        camera.repeating = fragment.builder

Crashes(cause) == fragment.crash = "none" /\ fragment'.crash = cause

\* What a touch may ask for that nobody catches: a request of a closed session, only
\* after the client was told that the camera failed; the range of a camera that is
\* gone, never of one that still shows something; and an area that does not exist,
\* only of a preview larger than the view or with a finger that was dragged aside.
TouchesAreSafe ==
    [][/\ Crashes("request") => fragment.told = "failed"
       /\ Crashes("range") => camera.repeating = NoRequest
       /\ Crashes("area") =>
            \/ Turned(fragment.size, fragment.view).width > fragment.view.width
            \/ Turned(fragment.size, fragment.view).height > fragment.view.height
            \/ finger = "dragged"]_allVars

\* With somebody to deliver frames to, the reader does not stay full: it would
\* stop the camera, and the preview with it.
ReaderIsEmptied ==
    fragment.frames = "heard" /\ camera.images = MaxImages ~> camera.images < MaxImages

\* Whoever opens a camera is told how that went, unless the user leaves first.
OpenIsAnswered ==
    fragment.surface = "available" ~> fragment.told # "nothing" \/ fragment.lifecycle # "viewed"

\* A preview somebody uses survives whatever crosses its answers, its frames and
\* its losses: neither onOpened nor onConfigured nor an empty reader ends it, only a
\* touch (see TouchesAreSafe) or a camera that pads the rows of its frames.  Leaving
\* while an answer is on its way is another matter.
UsedPreviewSurvives ==
    [][fragment.lifecycle = "viewed" /\ fragment'.lifecycle = "crashed" =>
         \/ fragment'.crash \in {"request", "range", "area"}
         \/ fragment'.crash = "padding" /\ fragment.rows = "padded"]_allVars

\* After the failure of a camera was reported no frame comes that would undo it.
NoFrameAfterFailure == fragment.told = "failed" => ~IsPosted({"image"})

\* The frame a touch shows disappears, unless the user touches it again.  Not so
\* if a thread of an earlier touch is left: however long it was asleep, it then
\* shows the frame once more.
FrameFades ==
    focusAlpha > 0 /\ Interruptible /\ fader[alphaThread] = Started
      /\ (\A t \in Faders \ {alphaThread} : ~Alive(t))
        ~> focusAlpha <= 0 \/ finger # "up" \/ fragment.lifecycle # "viewed"
=============================================================================
