# TLA+ models of Android_Camera

Android_Camera shows and photographs what two kinds of camera deliver: USB cameras through V4L2, with a
native library of its own, and the cameras of the system through camera2. This directory holds TLA+ modules
that model the parts of it where the order of things matters, TLC configurations that check them on small
instances, and proofs that TLAPS checks for instances of any size.

## 1. The system

| Component | State it keeps | Operations | Talks to |
|---|---|---|---|
| Native camera object, `libcamera/CameraAPI.cpp` | status `CREATE → OPEN → INIT ⇄ RUN`, descriptor, buffers, decoder, preview, callback | connect, setFrameSize, setFrameCallback, setPreview, start, stop, close, destroy; capture thread `loopFrame` | V4L2 driver (ioctl, mmap, select), decoder, preview, Java callback |
| JNI entry points, `NativeAPI.cpp` | none; the pointer lives in Java | one function per native method, global references, windows | facade, native object |
| Java facade, `CameraAPI.java` | `nativeObj`, its monitor | create, start, stop, destroy (synchronized); the setters and getPreviewSize (not) | JNI |
| Decoder, `DecoderFactory.cpp` | codec or libjpeg-turbo handle, output buffer | init, convert2YUV | capture thread |
| Native preview, `CameraView.cpp` | window, pixel format, histogram | render, pause, stop | capture thread |
| V4L2 fragment, `V4L2CameraFragment.java` | `cameraAPI`, `surfaceHolder`, `frameCallback` | Android's lifecycle and surface callbacks | facade |
| Conversions, `PreviewFormat.java`, `Yuv420_888ToNv21Utils.java` | none | frames to NV21 | callbacks of the activity and of camera2 |
| System camera fragment, `Camera2Fragment.java` | device, session, request, image reader | asynchronous callbacks of camera2, lifecycle, focus and exposure | camera2 |
| Focus view, `FocusView.java` | position, alpha, fading thread | touch events, hideFocus, onDraw | system camera fragment |
| OpenGL renderers, `render/` | textures, surface texture | UI thread and GL thread | a surface callback |
| Sample app | last frame, lists of cameras | preview, photo | both fragments |

How they interact. The fragment's handlers run on Android's main thread. They call the facade, which calls
the native object through JNI; each call that is not `stop` is short. `start` creates the capture thread,
which selects, dequeues a buffer, decodes or copies it, draws it, hands it to the Java callback and queues the
buffer again. `stop` sets the status and *joins* that thread, so the main thread waits for a frame that may
just be in the user's callback. The thread and the callers share every field of the object with no lock; what
keeps them apart is the status and the join.

What is hard here:

- *interleaving*: the status changes before the join, so the thread finishes a frame in a status in which the
  setters, `close` and `start` are allowed again;
- *ownership*: a buffer is the driver's or the thread's, a mapping goes only after the thread is gone, a
  global reference may be deleted while the thread may still use it;
- *failure*: mmap, QBUF, STREAMON, pthread_create, select, DQBUF, STREAMOFF and the camera itself (unplugged)
  can fail in the middle of an operation, and each leaves what it did so far;
- *waiting*: select must give up for stop to return, and the callback must not wait for the monitor that stop
  holds;
- *protocol*: `close` works only from `INIT`, the setters only in one status, and the clients do not look at
  the results of most calls;
- *answers*: camera2 and the hardware codec answer later, on their own threads, and an answer can cross the end
  of what asked for it;
- *arithmetic*: rows, strides and subsampling in the conversions and in drawing, cut-off quotients in the
  layout of the view.

The properties that make each component correct: for the native object, memory safety of the capture thread, one
owner per buffer, no buffer lost, nothing held at rest, stop returns, frames keep coming; for the facade, no native
code on a deleted object and nobody waiting in a circle for the monitor and the join; for the fragment, that it is
a client the native object is safe with, draws only while it has a surface, and tells its listener the truth; for
the fragment of the system cameras, that an open device has an owner, the listener is told the truth and told in
the end, a preview in use goes on, and a touch asks for nothing that ends it; for the focus view, one fading thread
and a frame that fades; for the decoder, that it loses, repeats and reorders no frame it accepted; for the
renderers, that what is drawn is there and is what the client fills; for the conversions, what NV21 means, and for
drawing, the same of a pixel. `PROJECT.json` lists the hazards with their lines.

## 2. The modules

| Module | Models | Size |
|---|---|---|
| `CaptureSession` | what a camera promises its owner: phases, callback only between start and stop, at most one callback that begins after the stop was asked for | abstract |
| `CameraAPI` | the native object, the capture thread and the driver's queue | core |
| `CameraAPI_proofs` | theorems about `CameraAPI` | proofs |
| `FrameChannel` | what a decoder promises: accepted frames come out once each and in order, it may refuse one | abstract |
| `MjpegDecoder` | both decoders, the hardware codec's buffers and its thread; implements `FrameChannel` | component |
| `MjpegDecoder_proofs` | theorems about the decoder, the refinement among them | proofs |
| `CameraFacade`, `MCCameraFacade` | the Java object, down to the entry of the native methods, with several threads | component |
| `CameraFacade_proofs` | theorems about `CameraFacade` | proofs |
| `V4L2CameraFragment` | the fragment, EXTENDS `CameraAPI`: the composition of client and object | composition |
| `V4L2CameraFragment_proofs` | theorems about the composition | proofs |
| `FrameConversion` | the conversions to NV21 | functions |
| `PreviewDrawing` | the drawing functions of the native preview and the size of its view, EXTENDS `FrameConversion` for the layouts | functions |
| `PreviewDrawing_proofs` | theorems about the conversions, the drawing and the view, for all sizes | proofs |
| `RenderSurface` | the surface an OpenGL renderer offers: UI thread against GL thread | component |
| `RenderSurface_proofs` | theorems about it | proofs |
| `FocusView` | the focus frame: touches and the threads that fade it | component |
| `Camera2Fragment`, `MCCamera2Fragment` | the fragment for system cameras and camera2, EXTENDS `FocusView` | composition |
| `Camera2Fragment_proofs` | theorems about both | proofs |
| `Camera2Answers_proofs` | theorems about camera2's answers, EXTENDS the module before | proofs |

### CameraAPI

The variables are the fields of the class (`status`, `fd`, `frameFormat`, `decoder`, `out_buffer`, `buffers`,
`preview`, `frameCallback`), the driver (`stream`, `mapped`, `queued`, `filled`: sets of buffer indices), the
device, the place of the capture thread in `loopFrame` (`loop`, `held`, `data`), and the calling thread
(`camera`: whether the object exists; `call`: the call that is waiting). `lost` collects kinds of resources
given up without being released.

| Actions | Code |
|---|---|
| `NativeInit`, `ConnectOk`, `SetFrameSize`, `SetFrameCallback`, `SetPreview` | the functions of these names; `SetFrameCallback` and `SetPreview` include what their JNI functions do before the status is checked |
| `StartFails`, `StartStreams` with `Prepared(m, q)` | `start` and `prepareBuffer`, stopped after mapping `m` buffers and queueing `q` |
| `StopRequest`, `StopJoined` | `stop` up to, and from, `pthread_join` |
| `DestroyRelease`, `DestroyDelete` | `nativeDestroy`: `close` and `destroy`, then the `delete` |
| `LoopCheck`, `SelectIdle`, `SelectReady`, `Dqbuf`, `Convert`, `RenderFrame`, `SendFrame`, `Requeue` | `loopFrame`, one step for each place where the caller can come between |
| `FillFrame`, `Unplug`, `Replug` | the driver and the device (external) |

A call that a status check rejects without a side effect changes nothing, so it has no action. Two constants
describe the surroundings: `Faults`, what may fail, and `ClientRules`, what the client keeps to
(`StopsBeforeDestroy`, `KeepsCallback`). The code checks neither rule: without them the capture thread uses
freed memory. `V4L2CameraFragment` shows that the application keeps to both.

### CameraFacade

Per thread `op`, `pc` and `arg`: entering the monitor, the test of `nativeObj`, the second read of it, the
native method. Of the native side there is only who waits for whom (`capture`, `JoinReturns`), which memory
is gone (`object`), and that there may be no thread although the status says `RUN`: it could not be created, or
its `DQBUF` failed. `CallerOps` says which methods each thread calls; `Disciplined` names the use for which
nothing native runs on a deleted object.

### V4L2CameraFragment

Two more variables: `fragment`, its fields and its place in the lifecycle, and `main`, the call of the camera
the running handler makes next. Every handler is one action up to its first call, and every call one action
(`stop` two), so the capture thread, the driver and the camera come between any two. `RuledCamera` is
`CameraAPI` with `ClientRules <- AllRules`; `RuledCameraSpec` as a property says that the fragment uses the
camera as a client that keeps to the rules, though its own `ClientRules` are empty. `OpenedMeansCapturing` is an
action property: with the fragment at rest, a listener told "opened" and the surface there, the status is `RUN`, the
thread that was started is at work or has left by itself, and it leaves only in the step of a failing `DQBUF`. That
it can leave at all, with nobody told, is what `loop_return` shows of the object.

### FrameConversion

A conversion moves bytes. A buffer is a function from positions to samples (plane and pixel), the sources are
functions that lay a picture out (external), and each conversion is the function of that name in the code,
divisions and all. `FaithfulNV21` is the reference.

### PreviewDrawing

`Render` is `CameraView::render` with its three functions for colour (which samples make a pixel; what libyuv
computes of them is external) and the one for depth, `ChangeSurfaceViewSize` is `PreviewResolutionUtils`. A
quotient in floating point is cut off, and where it is exact it may come out just below, so `Truncated` allows
both. One thing is done with a frame at a time, in the same module as the conversions, so one run has both.

### MjpegDecoder

The capture thread's place in `convert2YUV` (`pc`), the pointer it returns (`out`) and the frame that stood for
(`given`); of the codec the queue of inputs, the free, written and ready output buffers and what is in each
(`content`: a frame, `torn`, or `blank`). `QueueInput`, `DequeueOutput` and `ReleaseOutput` are the three
parts of `DecoderHw::convert2YUV`, between which the codec goes on (`BeginDecode`, `EndDecode`, `FailCodec`,
external); `DecodeSoftware` is `DecoderSw`'s; `UseFrame` is the capture thread done with the pointer. The code
gives an output buffer back before anybody looked into it: the model lets the codec write it while it is used.
Of the stream of frames any one is marked, and those before and after it are `old` and `new`: with these three
values the order of all frames is told.

`FrameChannel` has no buffers: frames accepted and not given yet, and the one given last. `Pending` maps the
codec's queues to it.

### RenderSurface

The fields `RenderCommon` shares between the UI thread and the GL thread, the surface the client heard of last
(`told`), and the place of each thread between two accesses (`ui`, `gl`). GLSurfaceView is external: `onPause`
waits until the GL thread is between two callbacks, and a context that goes takes its textures along
(`attached`). `client` says which of the two kinds of client there is: one that registers once, before there is
a window, or one that registers whenever it likes.

### FocusView

The fields of the view that decide whether the frame is drawn (`focusAlpha`, `alphaThread`, `hasMoveSun`), the
gesture (`finger`: up, down near where it came down, or dragged from there), and per thread `fader`: where it is in
its loop, the time it read, its interrupt flag. `ActionDown`, `MoveSun`, `Drag`, `Swipe`, `Tap`, `EndGesture` are the
branches of `onTouchEvent`. `Drag` is a move to the side past a shown frame: the code sets `hasMoveSun` for a move up
or down and for one with no frame shown, so this one still ends as a tap, wherever the finger is by then.
`HideFocus` and `OnDetachedFromWindow` are the methods of these names; `Fade` (read the clock, write `focusAlpha`)
and `Sleep` (go on, end, or notice the interrupt) the steps of a fading thread. Between reading and writing nobody
can tell how far it is, so they are one step; a step of the main thread may come between any two others, since
`focusAlpha` has no lock. The time goes on by any amount between two looks at the clock, also past the end of the
show time, up to `LATEST`, so `focusAlpha` may become negative. `Faders` bounds how many interrupted threads are
still on their way out. Where the frame and the sun are drawn is not modelled.

### Camera2Fragment

`fragment` holds the fields of the class, what the client was told last (`told`), its place in the lifecycle
and, once an exception nobody catches ended the process, which (`crash`); `camera` is the device as camera2
keeps it (external): whether it is open, lost, or lost with its session closed (`disconnected`), the request it
repeats, the images the reader holds; `posted` is the
queue of the main looper, through which every callback comes, in order.

| Actions | Code |
|---|---|
| `OnViewCreated`, `OnSurfaceTextureAvailable`, `OnDestroy` | the handlers, with `checkCameraId`, `openCamera`, `closeCamera` |
| `OnOpened`, `OnConfigured`, `OnConfigureFailed`, `OnLost`, `OnImageAvailable` with `HearImage`, `IgnoreImage` | the callbacks; each runs when it is the oldest posted |
| `TouchView` with `OnFocusChange`, `OnExposureChange`, `SetRepeatingRequest`, `MeteringArea` | the view's touches and its listener |
| `AnswerOpen`, `LoseCamera`, `CaptureImage` | camera2 and the camera (external) |
| `Reopen` | the next preview |

An exception that nobody catches ends the process and is told by `crash`: a surface of a view that is gone
(`onOpened`), a request of a closed device (`onConfigured`), an empty reader (`image`), a frame with padded rows,
which `yuv420ToNv21` cannot convert (`padding`), a request of a closed session (`request`), the characteristics of a
camera whose id is gone (`range`), a rectangle with a negative side (`area`). `SetRepeatingRequest` is where a lost
camera throws what is caught, a disconnected one what is not.

A tap ends in the middle of the view or at its border, up to `TapSlop` beyond it (a finger that came down inside
may move 16 dp and still tap); one that was dragged may be beside the view by its whole width (`TapsAcross`).

Of Android and camera2 the model assumes: the surface goes away and `onDestroy` runs in one go of the main
thread; a closed device drops `onDisconnected` and `onError` but not a session's `onConfigured`; a session is
configured before the loss of its camera is reported; a disconnected device has its session closed before
`onDisconnected` runs; `getCameraCharacteristics` may throw of a camera that is lost; a reader has two buffers and a
full one stops the stream; a frame still in flight when the camera is lost is not posted after the loss, on which
`NoFrameAfterFailure` rests, since the code has no guard for such a frame. A preview begins only when the one before
it is done with, and the client that opens it asks for the same as before. The values of an exposure are abstracted
to whether the user corrected it.

## 3. The runs

| Run | Bounds | Shows |
|---|---|---|
| `capture` | 4 buffers, 2 callbacks; pthread_create and select fail, unplugging; the device fills buffers | `NoSlotLost`, `RendererMatchesFrame`, `IdleWhenNotRunning`, `PreviewAndSlotsReleased`, `PreviewNeverStalls` |
| `capture_faults` | 2 buffers, 2 callbacks, every fault but a failing select, no promise of the device | `CaptureInv` with `TypeOK`, `LoopMemorySafe`, `SlotHasOneOwner`, `FrameTargetsStable`, `ExitedThreadIsJoined`, and the refinements `SessionSpec` and `FairSessionSpec` |
| `facade` | owner, worker, capture thread | `NativeOnLiveObject`, `NoCircularWait`, `StopReturns` |
| `fragment` | 2 buffers, 2 listeners; mmap, pthread_create, DQBUF, STREAMOFF, unplugging | `DrawsOnlyOnSurface`, `OpenedMeansCapturing`, `MainThreadReturns`, `RuledCameraSpec` |
| `decoder` | 2 input and 3 output buffers, a codec that may fail | `NeverOlder`, and the refinements `ChannelSpec` and `FairChannelSpec` |
| `conversions` | 16 sizes up to 32 × 8, every source, no padding; 5 depths and 5 depth pixels; containers of 6 lengths each way | `FaithfulNV21`, `FaithfulDrawing`, `NearerIsBrighter`, `FillsOrFits` |
| `render` | 4 SurfaceTextures, both kinds of client, with and without shaders | `DrawsLiveTexture`, `ClientIsServed`, `ToldIsDrawn`, `UiReturns` |
| `camera2` | 2 fading threads, show time 1 and clock up to 2, 2 preview sizes (one larger than the view), an upright view, taps up to 32 pixels beside it, padded rows or not, 2 images | `OneFader`, `DeviceIsOwned`, `OpenedIsTrue`, `SettingsAreRepeated`, `TouchesAreSafe`, `NoFrameAfterFailure`, `UsedPreviewSurvives`, `ReaderIsEmptied`, `OpenIsAnswered`, `FrameFades` |
| `loop_return` | 2 buffers, a failing DQBUF | **violated**: the loop ends before stop |
| `fd_leak` | no faults | **violated**: a descriptor survives destroy |
| `facade_after_destroy` | worker and owner, not `Disciplined` | **violated**: a native method on a deleted object |
| `yuv_padding` | 6 sizes, rows padded by 8 | **violated**: a conversion reads past its plane |

Why the bounds are enough. Nothing in the code compares or orders buffers, so what can happen to two buffers, one
held and one queued or filled, shows every relation between the thread and the driver; the runs about losing
buffers use the code's four. Two callbacks tell apart setting the same one again and replacing it. No counter is
unbounded: objects are created, opened, started, stopped and destroyed again and again within the finite state
space. In `fragment`, a start that fails half way is represented by mmap alone (QBUF and STREAMON fail alike for
the fragment, and `capture_faults` has them), and a failing select would only add steps of the thread. The
conversions do arithmetic with the size only through `w`, `w / 2` and `h`; sixteen sizes have odd and even numbers
of blocks in both directions. Cameras have widths that are multiples of eight, for which libjpeg-turbo adds no
padding of its own. In `camera2`, two threads are the one that fades and one that was interrupted, and a show time
of 1 has a frame that is opaque, one that is gone, and with a clock up to 2 one that is overdue, with nothing
skipped in between that the code looks at; the sizes give a tap with and one without an area, and a dragged finger
one without an area in the smaller preview too. The queue of the looper needs no bound: the camera is opened and
lost once per preview, and the reader limits the images. In `decoder`, three output buffers are one given back and
drawn, one being written and one ready; two input buffers can be full with one of them being decoded. Four
SurfaceTextures are the one in the field, one told, and one each thread is about to tell: no step can find all of
them in use. The lengths of containers are wider and narrower than, larger and smaller than, and exactly in
proportion with the previews, so a quotient is exact and not. Five pixels and depths give frames without points,
with equal ones, and with every depth.

`CHECK_DEADLOCK` is left on in every run: no run may stop.

### Fairness

- `ThreadFairness` (`CameraAPI`): the capture thread goes on. That is the scheduler, `select`'s timeout of one
  second, and a callback that returns. `stop` goes on once `pthread_join` can return, and `nativeDestroy` goes
  on after its first half. The device may stop sending frames for ever.
- `LiveSpec` adds that the device fills the buffers it was given; only `PreviewNeverStalls` uses it.
  With a select that may fail, "interrupted every time" would be a fair behaviour of the model though not of a
  kernel, so `LiveSpec` has strong fairness of `SelectReady`. `capture_faults` checks `FairSessionSpec` without
  that fault.
- `CameraFacade`: each thread's call goes on when it can, and strong fairness of the return of the callback:
  it does not call the facade for ever.
- `FairFragmentSpec`: the main thread goes on in a handler, and so does the capture thread. Nothing forces
  Android to call a handler.
- `FairCamera2Spec`: the main looper runs what is posted, camera2 answers a request to open a camera, and every
  fading thread goes on. Nothing forces a touch, a frame of the camera, or the user to leave.
- `FairDecoderSpec`: the camera sends frames (`Convert2YUV`), the capture thread and the codec go on. The codec
  gives a frame only when a call asks for one, so without further frames the last ones stay in it.
- `FairRenderSpec`: each thread goes on in what it began.

### What the violated runs say of the code

1. `loop_return`: a failing `VIDIOC_DQBUF` ends the thread with the status still `RUN` (`CameraAPI.cpp:133`,
   against the comment at line 107). Nobody is told, and only `stop` gets out of it.
2. `fd_leak`: `close` does nothing unless the status is `INIT`, and `destroy` forgets the descriptor
   (`CameraAPI.cpp:531`). `CameraFinder.getPreviewSize` does exactly this.
3. `facade_after_destroy`: the methods without monitor can work on an object that `destroy` deleted meanwhile.
4. `yuv_padding`: the conversion throws for padded rows, although a comment lists such a picture.

Met while modelling, and shown by no run of their own: `stop` does not free the array that describes the buffers,
and the next `start` replaces it (`CameraAPI.cpp:516`, `:66`); `SetFrameCallback` loses a global reference each
time the fragment's surface is created again (`lost` gets `callback`); `onDestroy` of the fragment crashes when
`createCamera` had failed (lifecycle `crashed`); `mjpegToNV21` takes the left half of a chroma row from the even
and the right half from the odd line, where its comment says it drops every other line. The samples still come from
the right block, as `FaithfulNV21` shows. In `Camera2Fragment`, `onOpened` after `onDestroy` makes a `Surface` of
nothing and `onConfigured` after it asks a closed device, each an exception nobody catches (`crash` is `onOpened`,
`onConfigured`); a tap makes a rectangle with a negative side when the preview is larger than the view, or, in any
preview, when the finger was dragged out of the view past a shown frame (`area`); a touch after `onDisconnected`
asks a closed session (`request`), and a move of the sun a camera that is not known any more (`range`), since only
`CameraAccessException` is caught; the first frame of a camera that pads its rows ends a preview with a listener
(`padding`, which is finding 4 in the place it bites); without a callback the reader fills and stops the camera, so
`ReaderIsEmptied` is about a fragment that has one; `DecoderHw` gives its output buffer back before it is drawn and
sent, so a frame can be torn (`content` is `torn` while `pc` is `use`), though never older than the one given, as
`NeverOlder` shows; a client of a renderer that registers while the window is there can make the GL thread update a
texture without a surface texture (`gl` is `crashed`) or fill a surface that is not drawn, a client told a surface
while the view pauses may keep one that is gone, and `getRender` after the window is there leaves the view blank; a
view that fills its container may leave one column of it open, where an exact quotient is cut off; a thread that
`hideFocus` or a tap interrupted writes `focusAlpha` once more, so a hidden frame can appear again, which is why
`FrameFades` excepts older threads.

## 4. The proofs

All constants are arbitrary but for the named assumptions: `MAX_BUFFER_COUNT` is a positive number,
`NoCallback` is no callback, `Faults` and `ClientRules` are sets of the known names.

**CameraAPI_proofs.** The safety properties are not inductive. `CaptureInv` is: it adds where the object, the
pending call and the thread can be at once (`LifecycleInv`: a thread in the loop means `RUN`, or a `stop` that
is joining; the descriptor is open in every status but `CREATE`), what is allocated in which status
(`StorageInv`: while the thread may run all slots are mapped and the decoder or `out_buffer` is there), who
has each slot (`SlotInv`) and that the callback and its reference go together (`CallbackInv`). The steps of the
caller that free something are enabled only when `LifecycleInv` leaves no room for the thread; that is the
whole argument for memory safety. `StepInv` proves it one action at a time, for a client that keeps to
`AllRules` or at least breaks none in this step (`StepObeys`). From it follow, for every set of faults:
`Invariance`, `TypeCorrect`, `MemorySafety`, `SlotOwnership`, `NoThreadAtRest`, `StableTargets`,
`ExitedJoined`, and `ImplementsSession`, the refinement of `CaptureSession`. Two results assume less failure:
`SlotsKept` (QBUF does not fail in the loop) and `IdleCamera` (start and STREAMOFF do not fail half way), the
latter with its own strengthening, `RestInv`. `NothingForgotten` follows from the same; `RendererMatches` needs
`PreviewInv`: from `INIT` on the decoder goes with the frame format, and a preview has the layout the two give.
`StopWaitsBounded` is about waiting: while `stop` is in `pthread_join` the thread has at most seven steps left
(`StepsLeft`, from where it is in `loopFrame`), each of its steps leaves fewer, no step of anybody adds one, and
the join can return exactly when none is left. It rests on `stop` changing the status before it joins.

**CameraFacade_proofs.** For any set of threads. `LiveObject` needs `Disciplined` use and the invariant
`FacadeInv`: while the capture thread lives, the status is `RUN` or somebody waits for it in `stop`, holding the
monitor `destroy` would need. `NobodyWaitsForHimself`: a thread waits for the one with the monitor, or in the join for
the capture thread (`WaitsFor`); the capture thread waits for nobody, since its callback calls no synchronized
method, and whoever is waited for and waits himself does so in the join. So no two wait for each other,
which is `NoCircularWait`.

**V4L2CameraFragment_proofs.** `FragmentInv` ties the call the main thread is in to the status and to the
surface; the decisive part is that a camera captures only while the surface is there or in the `stop` of
`surfaceDestroyed`, so `onDestroy` finds it stopped. Then every step of the fragment is a step of a camera
whose client keeps to `AllRules` (`FragmentImplementsCamera`), and it breaks no rule (`FragmentStepObeys`),
so the lemmas of `CameraAPI_proofs` apply: `FragmentMemorySafety`, `FragmentDrawsOnlyOnSurface` and
`FragmentImplementsSession` hold of the application with no assumption about the client left. `OpenedIsCapturing`
adds where a listener can have been told so: only after a start that went well, and before the stop; and that a
thread goes on from every place in its loop but the failing `DQBUF` (`ThreadGoesOn`).
`FragmentRendererMatches`, `FragmentStableTargets` and `FragmentStopBounded` are the theorems of these names in
`CameraAPI_proofs`, of the application: its main thread waits seven steps at most, in which nothing a frame
under way needs is exchanged.

**MjpegDecoder_proofs.** For any number of buffers. `DecoderInv` says that each output buffer is in one place
(`BuffersComeBack`, the theorem `OutputBuffersComeBack`), what each decoder may have (`UsedInv`), and that the
frames in the codec are in the order they came (`OrderInv`): given before ready before queued before the
camera's. A buffer given back is written only with a later frame, hence `FramesNeverOlder`. Every step is one of
`FrameChannel` (`DecoderImplementsChannel`); decoding itself moves a frame within `Pending` and is a stutter.

**RenderSurface_proofs.** `RenderInv` for any set of SurfaceTextures: with a client that registers first the GL
thread starts after the registration returned, so only it makes surfaces (`FirstInv`); whichever client, while
there is no surface one of the threads is still to make one (`ServedInv`). From it `LiveTextureDrawn`,
`ClientServed` and `ToldSurfaceDrawn`. Two facts the code rests on are in it: `setSurfaceCallback` writes the
callback before it looks for the texture, and `onPause` returns before the texture is given up.
`PauseWaitsBounded`: while the UI thread waits in `onPause` the view stays paused (`WaitIsPaused`), so the GL
thread begins nothing new and has at most the six steps of what it is in (`GlLeft`).

**PreviewDrawing_proofs.** `NV21Faithful` is about the conversions, for frames of any size. A position in a buffer
determines its row and column (`RowAndColumn`, `QuotientAndRest`), so each layout has a lemma that says which
sample is at which position (`Nv12At`, `YuyvAt`, `YPlaneAt`, ...), and each conversion one that says its result has
the samples of NV21 in their places (`IsNV21`: `HwToNV21`, `SwToNV21`, `YuyvToNV21IsNV21`, `PlanarToNV21`,
`InterleavedToNV21`). The theorem is an equivalence: a frame is converted faithfully exactly if it is no picture of
camera2 with padded rows. That such a picture never is follows from its luma alone, which is read past the end of
its plane (`PaddedReadsPast`); `yuv_padding` has an instance. `DrawingFaithful` needs no such condition: each of
the functions for colour makes a pixel of its own luma and of the chroma of its block (`IsDrawing`). `DrawingInv`
says only that what was converted, drawn or laid out is what the functions give.

For any histogram, frame, preview and container: `NearerBrighter` from the counts of
points up to a depth (`PointsUpTo`) and that a quotient grows with its numerator (`QuotientGrows`);
`FillingOrFitting` from what cutting off may take away (`CutOff`, `ViewInProportion`).

**Camera2Fragment_proofs.** Two invariants, since the focus view and the rest of the fragment share no state.
`FocusInv` adds to `OneFader` the types and that a thread that sleeps has read the clock (`ClockRead`);
`AlphaRange` bounds what a thread writes: visible exactly before the show time is over, and possibly negative after
it. Every step of the composition is a step, a new start or a stutter of the focus view (`FocusOfCamera2`), which
gives `SingleFader`. `FadingEnds`: the time a thread reads only grows, so the steps it has left (`Left`) are
bounded by the show time, no touch and no other thread gives it more, and unless it is interrupted it ends only
after a frame that is not visible. `Camera2Inv` adds `OwnershipInv`: a fragment with a view and a device has one
that is not closed, nothing is posted or open before the view is created or after a crash. `DeviceIsOwned` is not
inductive without it: `onDestroy` closes what the field says, so an open device the field does not name must still
have its `onOpened` in the queue (`StaysPosted`). `TapHasArea` shows with `Quotients` and `ScaledTap` that a
preview that fits the view has an area for every tap that is not dragged, for all sizes and every `TapSlop` that
`SizeAssumption` allows. From these follow `Camera2TypeCorrect` and `DeviceOwnership`. They assume that sizes are
positive and that a tap ends at most 100 pixels beside the view (`SizeAssumption`; 16 dp, up to a density of six),
that the show time is positive and the clock can reach it, and that `NoThread` is none of the threads
(`FocusAssumption`).

**Camera2Answers_proofs.** What the answers say and when needs the order of the queue. `HistoryInv` adds to
`Camera2Inv`: what there is before anything was opened, and that a session is closed only after the failure was
told (`LifeInv`); that the answer to opening comes first and alone, and no image after a loss (`PostedInv`); that
after a failure nothing comes that would undo it (`FailedInv`); that each posted image is one the reader holds
(`ImagesInv`). It gives `OpenedStaysTrue`, `SettingsRepeated` and `NothingAfterFailure`. `EndsOf` says what can end
a preview in use: a callback that runs in one finds its device, its surface and its image, so what is left is a
frame with padded rows and the three crashes of a touch. `PreviewSurvives` is that; `TouchSafety` adds when a touch
can: a request is refused for good only by a session closed after the failure was told, the range is asked in vain
only of a camera that repeats nothing any more, and by `TapHasArea` an area is missing only with a preview larger
than the view or a finger dragged aside. Two more are about what is on its way. `HeldInv` counts from the other
side than `ImagesInv`, that each image the reader holds is posted; with `PostedInv` the callback of an image is
then the next to run when the reader is full (`FullReaderHeard`). `AnswerInv` says that while the user waits for a
camera to open, opening it is not answered yet or the oldest callback is an answer; each answer but `onOpened`
tells the listener, so three are enough (`AnswerOnItsWay`).

**Only model-checked.** The liveness properties (`FairSessionSpec`, `PreviewNeverStalls`, `StopReturns`,
`MainThreadReturns`, `FairChannelSpec`, `UiReturns`, `ReaderIsEmptied`, `OpenIsAnswered`, `FrameFades`): fairness
and ENABLED are out of the prover's reach. Every other property of a passing run is stated by a theorem. Of six of
the liveness properties the part that is not about fairness is proved: that the steps still to come are bounded
and nothing adds to them, or that nobody waits in a circle. These are `StopWaitsBounded` and
`NobodyWaitsForHimself` for `StopReturns`, `FragmentStopBounded` for `MainThreadReturns`, `PauseWaitsBounded` for
`UiReturns` (its wait in `onPause`; the UI thread's other calls wait for nobody), `FullReaderHeard` for
`ReaderIsEmptied`, `AnswerOnItsWay` for `OpenIsAnswered` and `FadingEnds` for `FrameFades`. What is left to TLC is
that a thread which can go on does. `PreviewNeverStalls` and the fair refinements have no such bound: a thread
that selects may find nothing any number of times, and a decoder may be refused input as often.

## 5. What the models leave out

- One object, one capture thread and one fragment at a time. A new fragment begins when the old one is
  destroyed, though Android may create an activity before it destroys another.
- Exposure and getPreviewSize change no state of the camera and have no action in `CameraAPI`.
- The kernel stops a stream when the last descriptor is closed, also with slots still mapped.
- The MJPEG of the camera is 4:2:2, as `DecoderSw::init` assumes.
- Sizes of frames, in `CameraAPI` and `MjpegDecoder`: `memcpy` copies the length of the mapping into `out_buffer`.
- The rounding of floats in the histogram, and a depth of 0xFFFF, which indexes one entry past it.
- `CameraView::pause`, which blanks the window when capturing stops, and what the shaders of the renderers draw.
- In `CameraFacade` the owner calls `destroy` only when nothing is captured; `V4L2CameraFragment` shows that
  the application does.
- Android creates and destroys the surface in turns, and destroys it before the fragment.
- In `CameraAPI` one thread calls, as the main thread does in the application: no setter comes while `stop` joins
  (`Ready`). The code itself would let one in there, since it tests only the status, which `stop` has set already
  (`CameraAPI.cpp:497`); the facade's setters take no monitor, and in `CameraFacade` they do overlap with `stop`, but
  there a setter is entered and left without a look at what it changes.
- The clock of a fading thread is not set back, gestures are of one finger, and it is lifted where its last move was.
  The coordinates of a tap are whole pixels, and the area metered has no rounding of floats.
- Rotation and flip of a system camera, values of exposure, and the place of the focus frame. The callbacks of
  `Camera2Fragment` are static; with one preview at a time nobody else's are called.
- The layout hides the focus view until a client shows it; the model lets touches come as soon as there is a
  view.
- The photo: `PreviewActivity` keeps the last frame in a field that the capture thread writes and `takePhoto` on
  the main thread reads; it is one reference to a new object each time, and two activities that overlap, for
  which the static callbacks matter, are not modelled.
- `CameraFinder` and `Camera2Finder`, the data classes, JNI registration, lists, permissions, logging and view
  layout: they query or pass values on and keep no state whose order matters; see the components in
  `PROJECT.json`.
- libyuv and libjpeg-turbo, which are copied into the repository and hold nearly all of its lines. They are
  third-party code that the project only builds. What the application calls of them is external to the modules:
  which sample a conversion to ABGR takes, and in which layout a JPEG is decoded. The lines mapped are therefore
  a small share of the repository's, and about 1850 of the 4900 lines of the application's own sources, which
  include the lists, the shaders and the headers.

## 6. Plan

1. Done: `CameraAPI` and `CaptureSession`; `CameraFacade`; `V4L2CameraFragment`; `FrameConversion`; `FocusView`
   and `Camera2Fragment`; `MjpegDecoder` and `FrameChannel`; `RenderSurface`; `PreviewDrawing`; a module of proofs
   for each but `FrameConversion`, whose theorems are in `PreviewDrawing_proofs`, and a second one for the
   answers of camera2.
2. The photo of the sample app, with two activities that overlap: a second fragment beside the one in
   `Camera2Fragment`, and the static callbacks both write.
3. Sizes in `CameraAPI`: the size S_FMT adjusted against the one `out_buffer` was made for.
4. Proofs: what a bounded number of steps can say of `FairChannelSpec`, from the frames that are before a given
   one in the codec.
