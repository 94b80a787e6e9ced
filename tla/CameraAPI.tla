------------------------------ MODULE CameraAPI ------------------------------
(* The native camera object (CameraAPI.cpp, driven by NativeAPI.cpp): one     *)
(* thread at a time calls its operations, its own capture thread runs         *)
(* loopFrame, and the V4L2 driver fills the buffers the two hand to it.       *)
(*                                                                            *)
(* The steps of the capture thread interleave with the caller's.  A call runs *)
(* in one step, except stop, which waits for the thread in pthread_join, and  *)
(* nativeDestroy, whose release and delete are two steps.  A call the status  *)
(* check rejects without a side effect changes nothing and has no action.     *)
EXTENDS Integers

CONSTANTS
    MAX_BUFFER_COUNT,   \* buffers asked of the driver
    Callbacks,          \* the IFrameCallback objects the client passes
    NoCallback,         \* frameCallback is NULL
    Faults,             \* what may fail, a subset of AllFaults
    ClientRules         \* what the client keeps to, a subset of AllRules

AllFaults ==
    {"mmap", "qbuf", "streamon", "pthread",              \* in start
     "select", "dqbuf", "requeue", "unplug",             \* while capturing
     "streamoff"}                                        \* in stop
AllRules ==
    {"StopsBeforeDestroy",   \* destroy is not called while capturing
     "KeepsCallback"}        \* a callback once set is not replaced by null

ASSUME BufferAssumption   == MAX_BUFFER_COUNT \in Nat \ {0}
ASSUME CallbackAssumption == NoCallback \notin Callbacks
ASSUME FaultAssumption    == Faults \subseteq AllFaults
ASSUME RuleAssumption     == ClientRules \subseteq AllRules

Slots  == 0 .. MAX_BUFFER_COUNT - 1
NoSlot == MAX_BUFFER_COUNT

\* frame_format as the client passes it; UNKNOWN is any value outside the enum,
\* such as the -1 that nativePreviewSize reports for other pixel formats.
FrameFormats == {"MJPEG", "YUYV", "DEPTH", "UNKNOWN"}
PixelFormats == {"NV12", "YUV422", "YUYV", "DEPTH", "ERROR"}
FrameLayouts == {"NV12", "YUV422", "YUYV", "DEPTH", "UNKNOWN"}
Resources    == {"fd", "buffers", "mapping", "preview", "window", "callback"}

VARIABLES
    \* fields of the object
    status, fd, frameFormat, decoder, out_buffer, buffers, preview,
    frameCallback,
    callbackRef,        \* the global reference frameCallback points to
    \* the driver
    device, stream, mapped, queued, filled,
    \* the capture thread
    loop, held, data,
    \* the calling thread: whether the object exists, and the call in progress
    camera, call,
    \* what was given up without being released
    lost

objectVars == <<status, fd, frameFormat, decoder, out_buffer, buffers,
                preview, frameCallback, callbackRef>>
driverVars == <<device, stream, mapped, queued, filled>>
loopVars   == <<loop, held, data>>
clientVars == <<camera, call>>
vars == <<objectVars, driverVars, loopVars, clientVars, lost>>

InLoop      == {"check", "select", "dqbuf", "convert", "render", "send", "requeue"}
HoldsFrame  == {"convert", "render", "send", "requeue"}
LoopRunning == loop \in InLoop

TypeOK ==
    /\ status \in {"CREATE", "OPEN", "INIT", "RUN"}
    /\ fd \in {"none", "open"}
    /\ frameFormat \in FrameFormats
    /\ decoder \in {"null", "HW", "SW"}
    /\ out_buffer \in {"null", "heap"}
    /\ buffers \in {"null", "heap"}
    /\ preview \in {"null"} \cup PixelFormats
    /\ frameCallback \in Callbacks \cup {NoCallback}
    /\ callbackRef \in {"none", "valid", "deleted"}
    /\ device \in {"present", "gone"}
    /\ stream \in {"on", "off"}
    /\ mapped \subseteq Slots
    /\ queued \subseteq Slots
    /\ filled \subseteq Slots
    /\ loop \in InLoop \cup {"none", "exited", "joined"}
    /\ held \in Slots \cup {NoSlot}
    /\ data \in {"null"} \cup FrameLayouts
    /\ camera \in {"object", "null"}
    /\ call \in {"idle", "joining", "deleting"}
    /\ lost \subseteq Resources

Init ==
    /\ status = "CREATE"
    /\ fd = "none"
    /\ frameFormat = "MJPEG"
    /\ decoder = "null"
    /\ out_buffer = "null"
    /\ buffers = "null"
    /\ preview = "null"
    /\ frameCallback = NoCallback
    /\ callbackRef = "none"
    /\ device = "present"
    /\ stream = "off"
    /\ mapped = {}
    /\ queued = {}
    /\ filled = {}
    /\ loop = "none"
    /\ held = NoSlot
    /\ data = "null"
    /\ camera = "null"
    /\ call = "idle"
    /\ lost = {}

\* The client may call: the object exists and no call is in progress.
Ready == camera = "object" /\ call = "idle"

-----------------------------------------------------------------------------
(* The decisions of the code, named.  A definition called ...Bug is a mistake *)
(* one could make there; the runs show that the properties below notice it.   *)

\* setFrameCallback and setPreview work only while nothing is captured.
CanReconfigureBug == status \in {"INIT", "RUN"}
CanReconfigure    == status = "INIT"

\* The slots with an index below n, as the loops over the buffers visit them.
SlotsBelowBug(n) == 0 .. n
SlotsBelow(n)    == 0 .. n - 1

\* The while condition of loopFrame.
LoopContinuesBug == loop = "check"
LoopContinues    == status = "RUN"

\* select gives up after a second without a frame.
SelectTimesOutBug == FALSE
SelectTimesOut    == filled = {} /\ device = "present"

\* pthread_join returns when the thread ended, or at once if there is none.
JoinReturnsBug == call = "joining"
JoinReturns    == ~LoopRunning

\* stop unmaps every slot.
StillMappedBug == mapped \ SlotsBelow(MAX_BUFFER_COUNT - 1)
StillMapped    == mapped \ SlotsBelow(MAX_BUFFER_COUNT)

\* close() does its work only for a camera that was configured and stopped.
CloseWorksBug == status = "RUN"
CloseWorks    == status = "INIT"

DecoderPixelFormat == IF decoder = "HW" THEN "NV12" ELSE "YUV422"

\* The layout a new preview is made for.
PreviewPixelFormatBug ==
    CASE frameFormat = "MJPEG"             -> "NV12"
      [] frameFormat \in {"YUYV", "DEPTH"} -> frameFormat
      [] OTHER                             -> "ERROR"
PreviewPixelFormat ==
    IF decoder # "null" THEN DecoderPixelFormat
    ELSE IF frameFormat \in {"YUYV", "DEPTH"} THEN frameFormat ELSE "ERROR"

-----------------------------------------------------------------------------
(* Opening and configuring *)

\* A new object; its fields have the constructor's values, which are those an
\* earlier object was left with.  One object and one capture thread exist at a
\* time.
NativeInit ==
    /\ camera = "null"
    /\ ~LoopRunning
    /\ camera' = "object"
    /\ loop' = "none"
    /\ UNCHANGED <<objectVars, driverVars, held, data, call, lost>>

\* Both forms of connect.  A failed open or VIDIOC_QUERYCAP keeps no descriptor
\* and leaves the status alone.
ConnectOk ==
    /\ Ready
    /\ status = "CREATE"
    /\ device = "present"
    /\ fd' = "open"
    /\ status' = "OPEN"
    /\ UNCHANGED <<frameFormat, decoder, out_buffer, buffers, preview,
                   frameCallback, callbackRef, driverVars, loopVars,
                   clientVars, lost>>

\* MJPEG gets a decoder, hardware or else software; any other format is asked
\* of the driver as YUYV and gets out_buffer.  A failing VIDIOC_S_FMT or decoder
\* leaves the object as it was.
SetFrameSize(frame_format) ==
    /\ Ready
    /\ status = "OPEN"
    /\ device = "present"
    /\ IF frame_format = "MJPEG"
         THEN decoder' \in {"HW", "SW"} /\ UNCHANGED out_buffer
         ELSE out_buffer' = "heap" /\ UNCHANGED decoder
    /\ frameFormat' = frame_format
    /\ status' = "INIT"
    /\ UNCHANGED <<fd, buffers, preview, frameCallback, callbackRef,
                   driverVars, loopVars, clientVars, lost>>

\* nativeFrameCallback makes a new global reference before the status check.
\* It is dropped when the status is wrong or the object is the one already set;
\* a null deletes the old reference but keeps the pointers to it.
SetFrameCallback(frame_callback) ==
    /\ Ready
    /\ "KeepsCallback" \in ClientRules /\ callbackRef # "none"
         => frame_callback # NoCallback
    /\ \/ /\ CanReconfigure
          /\ frame_callback \notin {frameCallback, NoCallback}
          /\ frameCallback' = frame_callback
          /\ callbackRef' = "valid"
          /\ UNCHANGED lost
       \/ /\ CanReconfigure
          /\ frame_callback = NoCallback
          /\ frameCallback # NoCallback
          /\ callbackRef' = "deleted"
          /\ UNCHANGED <<frameCallback, lost>>
       \/ /\ frame_callback # NoCallback
          /\ ~CanReconfigure \/ frame_callback = frameCallback
          /\ lost' = lost \cup {"callback"}
          /\ UNCHANGED <<frameCallback, callbackRef>>
    /\ UNCHANGED <<status, fd, frameFormat, decoder, out_buffer, buffers,
                   preview, driverVars, loopVars, clientVars>>

\* nativePreview takes the window before the status check and drops it when the
\* status is wrong.
SetPreview(hasSurface) ==
    /\ Ready
    /\ \/ /\ CanReconfigure
          /\ preview' = IF hasSurface THEN PreviewPixelFormat ELSE "null"
          /\ UNCHANGED lost
       \/ /\ ~CanReconfigure
          /\ hasSurface
          /\ lost' = lost \cup {"window"}
          /\ UNCHANGED preview
    /\ UNCHANGED <<status, fd, frameFormat, decoder, out_buffer, buffers,
                   frameCallback, callbackRef, driverVars, loopVars, clientVars>>

-----------------------------------------------------------------------------
(* Starting *)

\* prepareBuffer got as far as mapping m slots and queueing the first q of them.
\* The new array of buffers replaces the old one, and so the only record of
\* where its slots are mapped.
Prepared(m, q) ==
    /\ Ready
    /\ status = "INIT"
    /\ device = "present"
    /\ stream = "off"            \* or VIDIOC_REQBUFS fails and nothing changes
    /\ buffers' = "heap"
    /\ mapped' = SlotsBelow(m)
    /\ queued' = SlotsBelow(q)
    /\ filled' = {}
    /\ lost' = lost \cup (IF buffers # "null" THEN {"buffers"} ELSE {})
                    \cup (IF mapped # {} THEN {"mapping"} ELSE {})

\* A failing QUERYBUF or mmap, QBUF or STREAMON leaves what was done so far.
StartFails ==
    /\ \/ "mmap" \in Faults /\ \E m \in Slots : Prepared(m, 0)
       \/ "qbuf" \in Faults /\ \E q \in Slots : Prepared(MAX_BUFFER_COUNT, q)
       \/ "streamon" \in Faults /\ Prepared(MAX_BUFFER_COUNT, MAX_BUFFER_COUNT)
    /\ UNCHANGED <<status, fd, frameFormat, decoder, out_buffer, preview,
                   frameCallback, callbackRef, device, stream, loopVars,
                   clientVars>>

\* The status is RUN before the thread exists, and stays so when
\* pthread_create fails.
StartStreams ==
    /\ Prepared(MAX_BUFFER_COUNT, MAX_BUFFER_COUNT)
    /\ stream' = "on"
    /\ status' = "RUN"
    /\ loop' = "check" \/ ("pthread" \in Faults /\ loop' = loop)
    /\ UNCHANGED <<fd, frameFormat, decoder, out_buffer, preview,
                   frameCallback, callbackRef, device, held, data,
                   clientVars>>

-----------------------------------------------------------------------------
(* Stopping and destroying *)

StopRequest ==
    /\ Ready
    /\ status = "RUN"
    /\ status' = "INIT"
    /\ call' = "joining"
    /\ UNCHANGED <<fd, frameFormat, decoder, out_buffer, buffers, preview,
                   frameCallback, callbackRef, driverVars, loopVars, camera, lost>>

\* pthread_join returns once the thread ended, and at once with an error when
\* there is none.  Then STREAMOFF gives every buffer back and the slots are
\* unmapped, even if STREAMOFF failed; the array of buffers is kept.
StopJoined ==
    /\ call = "joining"
    /\ JoinReturns
    /\ loop' = IF loop = "exited" THEN "joined" ELSE loop
    /\ \/ /\ stream' = "off"
          /\ queued' = {}
          /\ filled' = {}
       \/ /\ "streamoff" \in Faults \/ device = "gone"
          /\ UNCHANGED <<stream, queued, filled>>
    /\ mapped' = StillMapped
    /\ call' = "idle"
    /\ UNCHANGED <<objectVars, device, held, data, camera, lost>>

\* nativeDestroy: close(), which does its work only in status INIT, and then
\* destroy(), which forgets the rest.  A callback reference already deleted by
\* a null callback is deleted once more.
DestroyRelease ==
    /\ Ready
    /\ "StopsBeforeDestroy" \in ClientRules => status # "RUN"
    /\ IF CloseWorks
         THEN /\ preview' = "null"
              /\ stream' = "off"       \* the last descriptor is closed
              /\ queued' = {}
              /\ filled' = {}
              /\ lost' = lost
         ELSE /\ UNCHANGED <<preview, stream, queued, filled>>
              /\ lost' = lost \cup (IF fd = "open" THEN {"fd"} ELSE {})
                              \cup (IF callbackRef = "valid" THEN {"callback"} ELSE {})
    /\ fd' = "none"
    /\ status' = "CREATE"
    /\ frameFormat' = "MJPEG"
    /\ decoder' = "null"
    /\ out_buffer' = "null"
    /\ buffers' = "null"
    /\ frameCallback' = NoCallback
    /\ callbackRef' = "none"
    /\ call' = "deleting"
    /\ UNCHANGED <<device, mapped, loopVars, camera>>

\* The memory of the object goes, with what it alone still pointed to: the
\* preview, and the slots nobody can unmap now.
DestroyDelete ==
    /\ call = "deleting"
    /\ camera' = "null"
    /\ call' = "idle"
    /\ preview' = "null"
    /\ mapped' = {}
    /\ lost' = lost \cup (IF preview # "null" THEN {"preview"} ELSE {})
                    \cup (IF mapped # {} THEN {"mapping"} ELSE {})
    /\ UNCHANGED <<status, fd, frameFormat, decoder, out_buffer, buffers,
                   frameCallback, callbackRef, device, stream, queued,
                   filled, loopVars>>

-----------------------------------------------------------------------------
(* The driver and the device *)

FillFrame(i) ==
    /\ device = "present"
    /\ stream = "on"
    /\ i \in queued
    /\ queued' = queued \ {i}
    /\ filled' = filled \cup {i}
    /\ UNCHANGED <<objectVars, device, stream, mapped, loopVars,
                   clientVars, lost>>

Unplug ==
    /\ "unplug" \in Faults
    /\ device = "present"
    /\ device' = "gone"
    /\ UNCHANGED <<objectVars, stream, mapped, queued, filled, loopVars,
                   clientVars, lost>>

\* The camera that comes back is a new device node: a descriptor still open
\* stays dead, so it is of use only to a later connect.
Replug ==
    /\ device = "gone"
    /\ fd = "none"
    /\ device' = "present"
    /\ UNCHANGED <<objectVars, stream, mapped, queued, filled, loopVars,
                   clientVars, lost>>

-----------------------------------------------------------------------------
(* loopFrame, on the capture thread *)

LoopCheck ==
    /\ loop = "check"
    /\ loop' = IF LoopContinues THEN "select" ELSE "exited"
    /\ UNCHANGED <<objectVars, driverVars, held, data, clientVars, lost>>

\* select timed out after a second, or was interrupted.
SelectIdle ==
    /\ loop = "select"
    /\ SelectTimesOut \/ "select" \in Faults
    /\ loop' = "check"
    /\ UNCHANGED <<objectVars, driverVars, held, data, clientVars, lost>>

\* A frame is there, or the driver reports an error: the device is gone, or the
\* queue holds no buffer it could ever fill.
SelectReady ==
    /\ loop = "select"
    /\ filled # {} \/ device = "gone" \/ queued = {}
    /\ loop' = "dqbuf"
    /\ UNCHANGED <<objectVars, driverVars, held, data, clientVars, lost>>

\* As if a failing VIDIOC_DQBUF also ended the capture for the client.
DqbufBug ==
    /\ loop = "dqbuf"
    /\ \/ /\ device = "present"
          /\ \E i \in filled : held' = i /\ filled' = filled \ {i}
          /\ loop' = "convert"
          /\ UNCHANGED status
       \/ /\ filled = {} \/ device = "gone" \/ "dqbuf" \in Faults
          /\ loop' = "exited"
          /\ status' = IF status = "RUN" THEN "INIT" ELSE status
          /\ UNCHANGED <<held, filled>>
    /\ UNCHANGED <<fd, frameFormat, decoder, out_buffer, buffers, preview,
                   frameCallback, callbackRef, device, stream, mapped,
                   queued, data, clientVars, lost>>

Dqbuf ==
    /\ loop = "dqbuf"
    /\ \/ /\ device = "present"
          /\ \E i \in filled : held' = i /\ filled' = filled \ {i}
          /\ loop' = "convert"
       \/ /\ filled = {} \/ device = "gone" \/ "dqbuf" \in Faults
          /\ loop' = "exited"
          /\ UNCHANGED <<held, filled>>
    /\ UNCHANGED <<objectVars, device, stream, mapped, queued, data,
                   clientVars, lost>>

\* The hardware decoder may have no output yet, and then there is no data.
Convert ==
    /\ loop = "convert"
    /\ IF frameFormat = "MJPEG"
         THEN data' = DecoderPixelFormat \/ (decoder = "HW" /\ data' = "null")
         ELSE data' = frameFormat
    /\ loop' = "render"
    /\ UNCHANGED <<objectVars, driverVars, held, clientVars, lost>>

\* As if the slot were queued again as soon as its frame is converted.
RenderFrameBug ==
    /\ loop = "render"
    /\ loop' = "send"
    /\ queued' = queued \cup {held}
    /\ UNCHANGED <<objectVars, device, stream, mapped, filled, held, data,
                   clientVars, lost>>

RenderFrame ==
    /\ loop = "render"
    /\ loop' = "send"
    /\ UNCHANGED <<objectVars, driverVars, held, data, clientVars, lost>>

\* As if a frame without data went straight back to select.
SendFrameBug ==
    /\ loop = "send"
    /\ IF data = "null"
         THEN loop' = "check" /\ held' = NoSlot
         ELSE loop' = "requeue" /\ held' = held
    /\ data' = "null"
    /\ UNCHANGED <<objectVars, driverVars, clientVars, lost>>

SendFrame ==
    /\ loop = "send"
    /\ loop' = "requeue"
    /\ data' = "null"
    /\ UNCHANGED <<objectVars, driverVars, held, clientVars, lost>>

\* A failing QBUF is only logged: the slot stays with neither side.
Requeue ==
    /\ loop = "requeue"
    /\ \/ device = "present" /\ queued' = queued \cup {held}
       \/ ("requeue" \in Faults \/ device = "gone") /\ UNCHANGED queued
    /\ held' = NoSlot
    /\ loop' = "check"
    /\ UNCHANGED <<objectVars, device, stream, mapped, filled, data,
                   clientVars, lost>>

-----------------------------------------------------------------------------
Configure ==
    \/ NativeInit
    \/ ConnectOk
    \/ \E frame_format \in FrameFormats : SetFrameSize(frame_format)
    \/ \E frame_callback \in Callbacks \cup {NoCallback} : SetFrameCallback(frame_callback)
    \/ \E hasSurface \in BOOLEAN : SetPreview(hasSurface)

Capture ==
    \/ LoopCheck \/ SelectIdle \/ SelectReady \/ Dqbuf
    \/ Convert \/ RenderFrame \/ SendFrame \/ Requeue

Next ==
    \/ Configure
    \/ StartFails \/ StartStreams
    \/ StopRequest \/ StopJoined
    \/ DestroyRelease \/ DestroyDelete
    \/ \E i \in Slots : FillFrame(i)
    \/ Unplug \/ Replug
    \/ Capture

Spec == Init /\ [][Next]_vars

\* Threads that can run do: select waits at most a second, onFrame returns.
ThreadFairness ==
    /\ WF_vars(Capture)
    /\ WF_vars(StopJoined)
    /\ WF_vars(DestroyDelete)

\* The device may stop sending frames at any time.
FairSpec == Spec /\ ThreadFairness

\* The device goes on filling the buffers it was given, and select is not
\* interrupted every single time there is a frame.
LiveSpec == FairSpec /\ WF_vars(\E i \in Slots : FillFrame(i)) /\ SF_vars(SelectReady)

-----------------------------------------------------------------------------
(* Safety *)

\* What the capture thread writes a frame through is there: the decoder for
\* MJPEG, out_buffer for everything else.
StorageReady == IF frameFormat = "MJPEG" THEN decoder # "null" ELSE out_buffer # "null"

\* Every access of loopFrame is to live memory: the object, its descriptor, the
\* mapping of the slot it holds, the decoder or out_buffer, and the callback's
\* global reference.  The caller frees all of these on its own thread.
LoopMemorySafe ==
    /\ LoopRunning => camera = "object"
    /\ loop \in {"select", "dqbuf", "requeue"} => fd = "open"
    /\ loop \in HoldsFrame => held \in mapped /\ buffers # "null"
    /\ loop \in {"convert", "render", "send"} => StorageReady
    /\ loop = "send" /\ data # "null" /\ frameCallback # NoCallback
         => callbackRef = "valid"

\* A slot loopFrame works on is not at the same time the driver's to fill, and
\* the driver never has a slot both as empty and as filled.
SlotHasOneOwner ==
    /\ held \notin queued \cup filled
    /\ queued \cap filled = {}

\* While capture goes on, no slot drops out of circulation, whatever loopFrame
\* did with the frame in it: it is with the driver or it is the one held.
NoSlotLost ==
    LoopRunning /\ device = "present" /\ stream = "on" =>
        queued \cup filled \cup ({held} \ {NoSlot}) = Slots

\* The capture thread runs only between start and the return of stop.
QuietOutsideRun == LoopRunning => status = "RUN" \/ call = "joining"

\* A frame is rendered by a preview made for its layout, although setPreview,
\* setFrameSize and the choice of decoder are calls of their own.  A preview for
\* an unknown format draws nothing.
RendererMatchesFrame ==
    loop = "render" /\ data # "null" /\ preview # "null" =>
        preview = data \/ preview = "ERROR"

\* Between calls, a camera that is not capturing holds neither driver memory
\* nor the stream, so the next start can have them.
IdleWhenNotRunning ==
    call = "idle" /\ status # "RUN" /\ device = "present" =>
        stream = "off" /\ mapped = {} /\ queued = {} /\ filled = {}

\* What the object had for a preview and for its slots is never given up
\* unreleased.
PreviewAndSlotsReleased == {"preview", "mapping"} \cap lost = {}

frameTargets == <<preview, frameCallback, callbackRef, decoder, out_buffer, frameFormat>>

\* While a frame is under way nothing the capture thread uses for it is
\* exchanged: preview, callback, decoder and format only change at rest.
FrameTargetsStable ==
    [][(loop \in HoldsFrame \ {"requeue"}) => UNCHANGED frameTargets]_vars

\* A thread that ended by itself is still joined: its handle is not overwritten
\* by the next start and does not vanish with the object.
ExitedThreadIsJoined == [][loop = "exited" => loop' \in {"exited", "joined"}]_vars

\* "never return until finish previewing" (loopThread, CameraAPI.cpp:107).
LoopEndsOnlyAfterStop == loop = "exited" => status # "RUN"

\* "1-close fd" (close, CameraAPI.cpp:533): destroying gives the descriptor back.
DescriptorClosed == "fd" \notin lost

-----------------------------------------------------------------------------
(* The inductive invariant the safety properties rest on *)

\* Where the object, the pending call and the capture thread can be at once.
LifecycleInv ==
    /\ camera = "null" => status = "CREATE" /\ call = "idle"
    /\ call = "joining" => status = "INIT"
    /\ call = "deleting" => status = "CREATE"
    /\ QuietOutsideRun
    /\ loop = "exited" => status = "RUN" \/ call = "joining"
    /\ status # "CREATE" <=> fd = "open"

\* What a configured camera and a capture have allocated.
StorageInv ==
    /\ status \in {"INIT", "RUN"} => StorageReady
    /\ status = "RUN" \/ call = "joining" => mapped = Slots /\ buffers # "null"

\* Who has each slot.
SlotInv ==
    /\ loop \in HoldsFrame <=> held # NoSlot
    /\ SlotHasOneOwner

\* The callback and its global reference go together.
CallbackInv == callbackRef = IF frameCallback = NoCallback THEN "none" ELSE "valid"

\* What is left behind when nothing is captured, if start and STREAMOFF never
\* fail half way.  A camera unplugged before STREAMOFF may still count as
\* streaming until its descriptor is closed.
RestInv ==
    /\ status \in {"CREATE", "OPEN"} => preview = "null"
    /\ status # "RUN" /\ call # "joining" =>
         /\ mapped = {}
         /\ device = "present" \/ status # "INIT" =>
              stream = "off" /\ queued = {} /\ filled = {}

\* Reached by every step of a client that keeps to AllRules.
CaptureInv ==
    /\ TypeOK
    /\ LifecycleInv
    /\ StorageInv
    /\ SlotInv
    /\ CallbackInv

-----------------------------------------------------------------------------
(* Liveness *)

\* A camera that captures goes on delivering frames to the preview until it is
\* stopped or unplugged.
PreviewNeverStalls ==
    (LoopRunning /\ status = "RUN") ~> (loop = "render" \/ status # "RUN" \/ device = "gone")

-----------------------------------------------------------------------------
(* The session the client sees *)

Session ==
    IF camera = "null" \/ call = "deleting" THEN "destroyed"
    ELSE IF call = "joining" THEN "stopping"
    ELSE CASE status = "CREATE" -> "created"
           [] status = "OPEN"   -> "opened"
           [] status = "INIT"   -> "configured"
           [] status = "RUN"    -> "streaming"

CallbackRuns == loop = "send" /\ data # "null" /\ frameCallback # NoCallback

FrameOnItsWay == call = "joining" /\ loop \in {"select", "dqbuf", "convert", "render"}

CS == INSTANCE CaptureSession WITH
        session <- Session, inFrame <- CallbackRuns, pending <- FrameOnItsWay

\* The object implements the session it promises.
SessionSpec     == CS!Spec
FairSessionSpec == CS!FairSpec
=============================================================================
