--------------------------- MODULE CameraAPI_proofs ---------------------------
(* Proofs about CameraAPI for any number of buffers, any callbacks and any     *)
(* faults.  CaptureInv is inductive for a client that keeps to AllRules; the   *)
(* memory safety of the capture thread and the refinement of CaptureSession    *)
(* follow from it.                                                             *)
EXTENDS CameraAPI, TLAPS

\* The initial state satisfies the invariant.
LEMMA InitInv == Init => CaptureInv
  BY BufferAssumption
     DEF Init, CaptureInv, TypeOK, LifecycleInv, StorageInv, SlotInv, CallbackInv,
         QuietOutsideRun, SlotHasOneOwner, StorageReady, LoopRunning, InLoop,
         HoldsFrame, Slots, NoSlot, FrameFormats, PixelFormats, FrameLayouts,
         Resources

\* Every step of the specification keeps every variable in its range, whatever
\* the client does.
LEMMA StepType == TypeOK /\ SlotInv /\ [Next]_vars => TypeOK'
<1> SUFFICES ASSUME TypeOK, SlotInv, [Next]_vars PROVE TypeOK'
  OBVIOUS
<1> USE BufferAssumption DEF TypeOK, Slots, NoSlot, FrameFormats, PixelFormats,
        FrameLayouts, Resources, InLoop
<1>1. CASE Configure
  <2>1. CASE NativeInit
    BY <2>1 DEF NativeInit, objectVars, driverVars
  <2>2. CASE ConnectOk
    BY <2>2 DEF ConnectOk, driverVars, loopVars, clientVars
  <2>3. ASSUME NEW f \in FrameFormats, SetFrameSize(f) PROVE TypeOK'
    BY <2>3 DEF SetFrameSize, driverVars, loopVars, clientVars
  <2>4. ASSUME NEW cb \in Callbacks \cup {NoCallback}, SetFrameCallback(cb) PROVE TypeOK'
    <3> USE DEF driverVars, loopVars, clientVars
    <3>1. CASE UNCHANGED lost /\ frameCallback' = cb /\ callbackRef' = "valid"
      BY <2>4, <3>1 DEF SetFrameCallback
    <3>2. CASE UNCHANGED <<frameCallback, lost>> /\ callbackRef' = "deleted"
      BY <2>4, <3>2 DEF SetFrameCallback
    <3>3. CASE UNCHANGED <<frameCallback, callbackRef>> /\ lost' = lost \cup {"callback"}
      BY <2>4, <3>3 DEF SetFrameCallback
    <3> QED
      BY <2>4, <3>1, <3>2, <3>3 DEF SetFrameCallback
  <2>5. ASSUME NEW hasSurface \in BOOLEAN, SetPreview(hasSurface) PROVE TypeOK'
    <3> USE DEF driverVars, loopVars, clientVars
    <3>1. CASE UNCHANGED lost /\ preview' = IF hasSurface THEN PreviewPixelFormat ELSE "null"
      <4>1. preview' \in {"null"} \cup PixelFormats
        BY <3>1 DEF PreviewPixelFormat, DecoderPixelFormat
      <4> QED
        BY <2>5, <3>1, <4>1 DEF SetPreview
    <3>2. CASE UNCHANGED preview /\ lost' = lost \cup {"window"}
      BY <2>5, <3>2 DEF SetPreview
    <3> QED
      BY <2>5, <3>1, <3>2 DEF SetPreview
  <2> QED
    BY <1>1, <2>1, <2>2, <2>3, <2>4, <2>5 DEF Configure
<1>2. ASSUME NEW m \in Slots \cup {MAX_BUFFER_COUNT}, NEW q \in Slots \cup {MAX_BUFFER_COUNT},
             Prepared(m, q)
      PROVE  /\ buffers' \in {"null", "heap"} /\ mapped' \subseteq Slots
             /\ queued' \subseteq Slots /\ filled' \subseteq Slots
             /\ lost' \subseteq Resources
  BY <1>2 DEF Prepared, SlotsBelow
<1>3. CASE StartFails
  <2>1. PICK m \in Slots \cup {MAX_BUFFER_COUNT}, q \in Slots \cup {MAX_BUFFER_COUNT} :
          Prepared(m, q)
    BY <1>3 DEF StartFails
  <2> QED
    BY <1>2, <1>3, <2>1 DEF StartFails, loopVars, clientVars
<1>4. CASE StartStreams
  BY <1>2, <1>4 DEF StartStreams, clientVars
<1>5. CASE StopRequest
  BY <1>5 DEF StopRequest, driverVars, loopVars
<1>6. CASE StopJoined
  <2>1. loop' \in InLoop \cup {"none", "exited", "joined"} /\ mapped' \subseteq Slots
    BY <1>6 DEF StopJoined, StillMapped
  <2>2. /\ stream' \in {"on", "off"}
        /\ queued' \subseteq Slots
        /\ filled' \subseteq Slots
    BY <1>6 DEF StopJoined
  <2>3. call' = "idle" /\ UNCHANGED <<objectVars, device, held, data, camera, lost>>
    BY <1>6 DEF StopJoined
  <2> QED
    BY <2>1, <2>2, <2>3 DEF objectVars
<1>7. CASE DestroyRelease
  <2> USE DEF loopVars
  <2>1. CASE CloseWorks
    BY <1>7, <2>1 DEF DestroyRelease
  <2>2. CASE ~CloseWorks
    <3>1. lost' \subseteq Resources
      BY <1>7, <2>2 DEF DestroyRelease
    <3>2. UNCHANGED <<preview, stream, queued, filled>>
      BY <1>7, <2>2 DEF DestroyRelease
    <3> QED
      BY <1>7, <3>1, <3>2 DEF DestroyRelease
  <2> QED
    BY <2>1, <2>2
<1>8. CASE DestroyDelete
  BY <1>8 DEF DestroyDelete, loopVars
<1>9. ASSUME NEW i \in Slots, FillFrame(i) PROVE TypeOK'
  BY <1>9 DEF FillFrame, objectVars, loopVars, clientVars
<1>10. CASE Unplug
  BY <1>10 DEF Unplug, objectVars, loopVars, clientVars
<1>11. CASE Replug
  BY <1>11 DEF Replug, objectVars, loopVars, clientVars
<1>12. CASE Capture
  <2>1. CASE LoopCheck
    BY <2>1 DEF LoopCheck, objectVars, driverVars, clientVars
  <2>2. CASE SelectIdle
    BY <2>2 DEF SelectIdle, objectVars, driverVars, clientVars
  <2>3. CASE SelectReady
    BY <2>3 DEF SelectReady, objectVars, driverVars, clientVars
  <2>4. CASE Dqbuf
    <3> USE DEF objectVars, clientVars
    <3>1. CASE loop' = "convert" /\ \E i \in filled : held' = i /\ filled' = filled \ {i}
      BY <2>4, <3>1 DEF Dqbuf
    <3>2. CASE loop' = "exited" /\ UNCHANGED <<held, filled>>
      BY <2>4, <3>2 DEF Dqbuf
    <3> QED
      BY <2>4, <3>1, <3>2 DEF Dqbuf
  <2>5. CASE Convert
    BY <2>5 DEF Convert, DecoderPixelFormat, objectVars, driverVars, clientVars
  <2>6. CASE RenderFrame
    BY <2>6 DEF RenderFrame, objectVars, driverVars, clientVars
  <2>7. CASE SendFrame
    BY <2>7 DEF SendFrame, objectVars, driverVars, clientVars
  <2>8. CASE Requeue
    <3>1. held \in Slots
      BY <2>8 DEF Requeue, SlotInv, HoldsFrame
    <3>2. queued' \subseteq Slots
      BY <2>8, <3>1 DEF Requeue
    <3> QED
      BY <2>8, <3>2 DEF Requeue, objectVars, clientVars
  <2> QED
    BY <1>12, <2>1, <2>2, <2>3, <2>4, <2>5, <2>6, <2>7, <2>8 DEF Capture
<1>13. CASE UNCHANGED vars
  BY <1>13 DEF vars, objectVars, driverVars, loopVars, clientVars
<1> QED
  BY <1>1, <1>3, <1>4, <1>5, <1>6, <1>7, <1>8, <1>9, <1>10, <1>11, <1>12, <1>13
     DEF Next

\* A step that breaks none of AllRules, whatever the client keeps to otherwise.
StepObeys ==
  /\ call = "idle" /\ call' = "deleting" => status # "RUN"
  /\ callbackRef' # "deleted"

\* For a client that keeps to the rules every step keeps the invariant.  The
\* steps of the caller that free or replace something find no thread in the
\* loop; the steps of the thread only hand its slot on.
LEMMA StepInv ==
  ASSUME AllRules \subseteq ClientRules \/ StepObeys, CaptureInv, [Next]_vars
  PROVE  CaptureInv'
<1>1. TypeOK'
  BY StepType DEF CaptureInv
<1> SUFFICES LifecycleInv' /\ StorageInv' /\ SlotInv' /\ CallbackInv'
  BY <1>1 DEF CaptureInv
<1>2. \/ "StopsBeforeDestroy" \in ClientRules /\ "KeepsCallback" \in ClientRules
      \/ StepObeys
  BY DEF AllRules
<1> USE <1>1, <1>2, BufferAssumption, CallbackAssumption
        DEF CaptureInv, LifecycleInv, StorageInv, SlotInv, CallbackInv,
            QuietOutsideRun, SlotHasOneOwner, StorageReady, LoopRunning,
            InLoop, HoldsFrame, Ready, StepObeys
<1>3. CASE Configure
  <2>1. CASE NativeInit
    BY <2>1 DEF NativeInit, objectVars, driverVars
  <2>2. CASE ConnectOk
    BY <2>2 DEF ConnectOk, driverVars, loopVars, clientVars
  <2>3. ASSUME NEW f \in FrameFormats, SetFrameSize(f)
        PROVE  LifecycleInv' /\ StorageInv' /\ SlotInv' /\ CallbackInv'
    BY <2>3 DEF SetFrameSize, driverVars, loopVars, clientVars
  <2>4. ASSUME NEW cb \in Callbacks \cup {NoCallback}, SetFrameCallback(cb)
        PROVE  LifecycleInv' /\ StorageInv' /\ SlotInv' /\ CallbackInv'
    BY <2>4 DEF SetFrameCallback, driverVars, loopVars, clientVars
  <2>5. ASSUME NEW hasSurface \in BOOLEAN, SetPreview(hasSurface)
        PROVE  LifecycleInv' /\ StorageInv' /\ SlotInv' /\ CallbackInv'
    BY <2>5 DEF SetPreview, driverVars, loopVars, clientVars
  <2> QED
    BY <1>3, <2>1, <2>2, <2>3, <2>4, <2>5 DEF Configure
<1>4. CASE StartFails
  <2>1. PICK m, q : Prepared(m, q)
    BY <1>4 DEF StartFails
  <2>2. ~LoopRunning /\ held = NoSlot
    BY <2>1 DEF Prepared
  <2>3. NoSlot \notin queued' /\ filled' = {}
    BY <2>1 DEF Prepared, TypeOK, Slots, NoSlot
  <2> QED
    BY <1>4, <2>1, <2>2, <2>3 DEF StartFails, Prepared, loopVars, clientVars
<1>5. CASE StartStreams
  <2>1. Prepared(MAX_BUFFER_COUNT, MAX_BUFFER_COUNT)
    BY <1>5 DEF StartStreams
  <2>2. ~LoopRunning /\ held = NoSlot
    BY <2>1 DEF Prepared
  <2>3. NoSlot \notin queued' /\ filled' = {} /\ mapped' = Slots /\ buffers' # "null"
    BY <2>1 DEF Prepared, SlotsBelow, Slots, NoSlot
  <2> QED
    BY <1>5, <2>1, <2>2, <2>3 DEF StartStreams, Prepared, clientVars
<1>6. CASE StopRequest
  BY <1>6 DEF StopRequest, driverVars, loopVars
<1>7. CASE StopJoined
  BY <1>7 DEF StopJoined, JoinReturns, objectVars
<1>8. CASE DestroyRelease
  BY <1>8 DEF DestroyRelease, CloseWorks, loopVars
<1>9. CASE DestroyDelete
  BY <1>9 DEF DestroyDelete, loopVars
<1>10. ASSUME NEW i \in Slots, FillFrame(i)
       PROVE  LifecycleInv' /\ StorageInv' /\ SlotInv' /\ CallbackInv'
  BY <1>10 DEF FillFrame, objectVars, loopVars, clientVars
<1>11. CASE Unplug
  BY <1>11 DEF Unplug, objectVars, loopVars, clientVars
<1>12. CASE Replug
  BY <1>12 DEF Replug, objectVars, loopVars, clientVars
<1>13. CASE Capture
  <2>1. CASE LoopCheck
    BY <2>1 DEF LoopCheck, LoopContinues, objectVars, driverVars, clientVars
  <2>2. CASE SelectIdle
    BY <2>2 DEF SelectIdle, objectVars, driverVars, clientVars
  <2>3. CASE SelectReady
    BY <2>3 DEF SelectReady, objectVars, driverVars, clientVars
  <2>4. CASE Dqbuf
    BY <2>4 DEF Dqbuf, TypeOK, Slots, NoSlot, objectVars, clientVars
  <2>5. CASE Convert
    BY <2>5 DEF Convert, objectVars, driverVars, clientVars
  <2>6. CASE RenderFrame
    BY <2>6 DEF RenderFrame, objectVars, driverVars, clientVars
  <2>7. CASE SendFrame
    BY <2>7 DEF SendFrame, objectVars, driverVars, clientVars
  <2>8. CASE Requeue
    BY <2>8 DEF Requeue, TypeOK, Slots, NoSlot, objectVars, clientVars
  <2> QED
    BY <1>13, <2>1, <2>2, <2>3, <2>4, <2>5, <2>6, <2>7, <2>8 DEF Capture
<1>14. CASE UNCHANGED vars
  BY <1>14 DEF vars, objectVars, driverVars, loopVars, clientVars
<1> QED
  BY <1>3, <1>4, <1>5, <1>6, <1>7, <1>8, <1>9, <1>10, <1>11, <1>12, <1>13, <1>14
     DEF Next

\* A client that keeps to the rules never leaves the invariant.
THEOREM Invariance ==
  ASSUME AllRules \subseteq ClientRules
  PROVE  Spec => []CaptureInv
<1>1. CaptureInv /\ [Next]_vars => CaptureInv'
  BY StepInv
<1> QED
  BY InitInv, <1>1, PTL DEF Spec

\* Every variable stays in its range.
THEOREM TypeCorrect ==
  ASSUME AllRules \subseteq ClientRules
  PROVE  Spec => []TypeOK
<1>1. CaptureInv => TypeOK
  BY DEF CaptureInv
<1> QED
  BY Invariance, <1>1, PTL

\* While the invariant holds, what loopFrame touches is there.
LEMMA InvMemorySafe == CaptureInv => LoopMemorySafe
  BY DEF CaptureInv, TypeOK, LifecycleInv, StorageInv, SlotInv, CallbackInv,
         LoopMemorySafe, QuietOutsideRun, StorageReady, LoopRunning, InLoop,
         HoldsFrame, Slots, NoSlot

\* loopFrame (CameraAPI.cpp:118) never touches an object, descriptor, mapping,
\* decoder, buffer or callback reference the caller has released, whatever
\* fails.
THEOREM MemorySafety ==
  ASSUME AllRules \subseteq ClientRules
  PROVE  Spec => []LoopMemorySafe
  BY Invariance, InvMemorySafe, PTL

\* A slot is never the driver's and the capture thread's at once.
THEOREM SlotOwnership ==
  ASSUME AllRules \subseteq ClientRules
  PROVE  Spec => []SlotHasOneOwner
<1>1. CaptureInv => SlotHasOneOwner
  BY DEF CaptureInv, SlotInv
<1> QED
  BY Invariance, <1>1, PTL

\* The capture thread runs only between start and the return of stop.
THEOREM NoThreadAtRest ==
  ASSUME AllRules \subseteq ClientRules
  PROVE  Spec => []QuietOutsideRun
<1>1. CaptureInv => QuietOutsideRun
  BY DEF CaptureInv, LifecycleInv
<1> QED
  BY Invariance, <1>1, PTL

\* While a frame is under way nobody exchanges what it is rendered and sent with.
LEMMA TargetsStep ==
  ASSUME AllRules \subseteq ClientRules \/ StepObeys, CaptureInv, [Next]_vars,
         loop \in HoldsFrame \ {"requeue"}
  PROVE  UNCHANGED frameTargets
<1>1. status = "RUN" \/ call = "joining"
  BY DEF CaptureInv, LifecycleInv, QuietOutsideRun, LoopRunning, InLoop, HoldsFrame
<1>2. camera = "object" /\ LoopRunning
  BY <1>1 DEF CaptureInv, TypeOK, LifecycleInv, LoopRunning, InLoop, HoldsFrame
<1> USE <1>1, <1>2 DEF Ready, frameTargets
<1>3. ASSUME Configure PROVE UNCHANGED frameTargets
  BY <1>3 DEF Configure, NativeInit, ConnectOk, SetFrameSize, SetFrameCallback,
              SetPreview, CanReconfigure
<1>4. ~StartFails /\ ~StartStreams
  BY DEF StartFails, StartStreams, Prepared
<1>5. ASSUME StopRequest PROVE UNCHANGED frameTargets
  BY <1>5 DEF StopRequest
<1>6. ~StopJoined /\ ~DestroyDelete
  BY DEF StopJoined, JoinReturns, DestroyDelete, CaptureInv, LifecycleInv
<1>7. ~DestroyRelease
  BY DEF DestroyRelease, CaptureInv, LifecycleInv, AllRules, StepObeys
<1>8. ASSUME Capture PROVE UNCHANGED frameTargets
  BY <1>8 DEF Capture, LoopCheck, SelectIdle, SelectReady, Dqbuf, Convert,
              RenderFrame, SendFrame, Requeue, objectVars
<1>9. ASSUME NEW i \in Slots, FillFrame(i) PROVE UNCHANGED frameTargets
  BY <1>9 DEF FillFrame, objectVars
<1>10. ASSUME Unplug \/ Replug \/ UNCHANGED vars PROVE UNCHANGED frameTargets
  BY <1>10 DEF Unplug, Replug, vars, objectVars
<1> QED
  BY <1>3, <1>4, <1>5, <1>6, <1>7, <1>8, <1>9, <1>10 DEF Next

\* setPreview, setFrameCallback, setFrameSize and destroy never exchange what a
\* frame under way is rendered and sent with.
THEOREM StableTargets ==
  ASSUME AllRules \subseteq ClientRules
  PROVE  Spec => FrameTargetsStable
<1>1. CaptureInv /\ [Next]_vars
        => [(loop \in HoldsFrame \ {"requeue"}) => UNCHANGED frameTargets]_vars
  BY TargetsStep
<1> QED
  BY Invariance, <1>1, PTL DEF Spec, FrameTargetsStable

\* A thread that left loopFrame by itself is joined by the stop that follows; no
\* start or nativeInit drops its handle before.
THEOREM ExitedJoined ==
  ASSUME AllRules \subseteq ClientRules
  PROVE  Spec => ExitedThreadIsJoined
<1>1. CaptureInv /\ [Next]_vars => [loop = "exited" => loop' \in {"exited", "joined"}]_vars
  <2> SUFFICES ASSUME CaptureInv, [Next]_vars, loop = "exited"
               PROVE  loop' \in {"exited", "joined"}
    OBVIOUS
  <2>1. camera = "object" /\ (status = "RUN" \/ call = "joining")
    BY DEF CaptureInv, TypeOK, LifecycleInv
  <2> USE <2>1 DEF Ready
  <2>2. CASE Configure
    BY <2>2 DEF Configure, NativeInit, ConnectOk, SetFrameSize, SetFrameCallback,
                SetPreview, loopVars
  <2>3. ~StartFails /\ ~StartStreams
    BY DEF StartFails, StartStreams, Prepared
  <2>4. CASE StopRequest \/ StopJoined
    BY <2>4 DEF StopRequest, StopJoined, loopVars
  <2>5. CASE DestroyRelease \/ DestroyDelete
    BY <2>5 DEF DestroyRelease, DestroyDelete, loopVars
  <2>6. CASE (\E i \in Slots : FillFrame(i)) \/ Unplug \/ Replug
    BY <2>6 DEF FillFrame, Unplug, Replug, loopVars
  <2>7. ~Capture
    BY DEF Capture, LoopCheck, SelectIdle, SelectReady, Dqbuf, Convert,
           RenderFrame, SendFrame, Requeue
  <2>8. CASE UNCHANGED vars
    BY <2>8 DEF vars, loopVars
  <2> QED
    BY <2>2, <2>3, <2>4, <2>5, <2>6, <2>7, <2>8 DEF Next
<1> QED
  BY Invariance, <1>1, PTL DEF Spec, ExitedThreadIsJoined

\* Unless VIDIOC_QBUF fails in the loop, the capture never runs out of buffers:
\* frames without data, timeouts and decoder hiccups all give the slot back.
THEOREM SlotsKept ==
  ASSUME AllRules \subseteq ClientRules, "requeue" \notin Faults
  PROVE  Spec => []NoSlotLost
<1> USE DEF NoSlotLost
<1>1. Init => NoSlotLost
  BY DEF Init, LoopRunning, InLoop
<1>2. CaptureInv /\ NoSlotLost /\ [Next]_vars => NoSlotLost'
  <2> SUFFICES ASSUME CaptureInv, NoSlotLost, [Next]_vars PROVE NoSlotLost'
    OBVIOUS
  <2> USE DEF LoopRunning, InLoop
  <2>1. CASE Configure
    BY <2>1 DEF Configure, NativeInit, ConnectOk, SetFrameSize, SetFrameCallback,
                SetPreview, loopVars, driverVars
  <2>2. CASE StartFails
    BY <2>2 DEF StartFails, Prepared, loopVars
  <2>3. CASE StartStreams
    <3>1. ~LoopRunning /\ held = NoSlot
      BY <2>3 DEF StartStreams, Prepared, Ready, CaptureInv, LifecycleInv, SlotInv,
                  QuietOutsideRun, HoldsFrame
    <3> QED
      BY <2>3, <3>1 DEF StartStreams, Prepared, SlotsBelow, Slots
  <2>4. CASE StopRequest
    BY <2>4 DEF StopRequest, loopVars, driverVars
  <2>5. CASE StopJoined
    BY <2>5 DEF StopJoined, JoinReturns
  <2>6. CASE DestroyRelease \/ DestroyDelete
    <3>1. ~LoopRunning
      BY <2>6 DEF DestroyRelease, DestroyDelete, Ready, CaptureInv, LifecycleInv,
                  QuietOutsideRun, AllRules
    <3> QED
      BY <2>6, <3>1 DEF DestroyRelease, DestroyDelete, loopVars
  <2>7. ASSUME NEW i \in Slots, FillFrame(i) PROVE NoSlotLost'
    BY <2>7 DEF FillFrame, loopVars
  <2>8. CASE Unplug
    BY <2>8 DEF Unplug
  <2>9. CASE Replug
    BY <2>9 DEF Replug, loopVars, CaptureInv, LifecycleInv, QuietOutsideRun
  <2>10. CASE LoopCheck \/ SelectIdle \/ SelectReady \/ Convert \/ RenderFrame \/ SendFrame
    BY <2>10 DEF LoopCheck, SelectIdle, SelectReady, Convert, RenderFrame, SendFrame,
                 driverVars
  <2>11. CASE Dqbuf
    <3>1. held = NoSlot
      BY <2>11 DEF Dqbuf, CaptureInv, SlotInv, HoldsFrame
    <3> QED
      BY <2>11, <3>1 DEF Dqbuf, CaptureInv, TypeOK, Slots, NoSlot
  <2>12. CASE Requeue
    <3>1. held # NoSlot
      BY <2>12 DEF Requeue, CaptureInv, SlotInv, HoldsFrame
    <3>2. CASE device = "present"
      BY <2>12, <3>1, <3>2 DEF Requeue
    <3>3. CASE device # "present"
      BY <2>12, <3>3 DEF Requeue
    <3> QED
      BY <3>2, <3>3
  <2>13. CASE UNCHANGED vars
    BY <2>13 DEF vars, loopVars, driverVars
  <2> QED
    BY <2>1, <2>2, <2>3, <2>4, <2>5, <2>6, <2>7, <2>8, <2>9, <2>10, <2>11, <2>12,
       <2>13
       DEF Next, Capture
<1> QED
  BY Invariance, <1>1, <1>2, PTL DEF Spec

\* As long as start and STREAMOFF either work or change nothing, a camera at rest
\* holds no mapping and no stream, and none of its slots and previews is given
\* up: whatever else fails, stop and destroy release them.
LEMMA RestInvariance ==
  ASSUME AllRules \subseteq ClientRules,
         Faults \cap {"mmap", "qbuf", "streamon", "streamoff"} = {}
  PROVE  Spec => [](RestInv /\ PreviewAndSlotsReleased)
<1> DEFINE Rest == RestInv /\ PreviewAndSlotsReleased
<1> USE DEF RestInv, PreviewAndSlotsReleased
<1>1. Init => Rest
  BY DEF Init
<1>2. CaptureInv /\ Rest /\ [Next]_vars => Rest'
  <2> SUFFICES ASSUME CaptureInv, Rest, [Next]_vars PROVE Rest'
    OBVIOUS
  <2>1. CASE NativeInit
    BY <2>1 DEF NativeInit, objectVars, driverVars
  <2>2. CASE ConnectOk
    BY <2>2 DEF ConnectOk, driverVars, clientVars
  <2>3. ASSUME NEW f, SetFrameSize(f) PROVE Rest'
    BY <2>3 DEF SetFrameSize, driverVars, clientVars
  <2>4. ASSUME NEW cb, SetFrameCallback(cb) PROVE Rest'
    BY <2>4 DEF SetFrameCallback, driverVars, clientVars
  <2>5. ASSUME NEW hasSurface, SetPreview(hasSurface) PROVE Rest'
    BY <2>5 DEF SetPreview, CanReconfigure, driverVars, clientVars
  <2>6. ~StartFails
    BY DEF StartFails
  <2>7. CASE StartStreams
    BY <2>7 DEF StartStreams, Prepared, Ready
  <2>8. CASE StopRequest
    BY <2>8 DEF StopRequest, driverVars
  <2>9. CASE StopJoined
    <3>1. mapped' = {}
      BY <2>9 DEF StopJoined, StillMapped, SlotsBelow, CaptureInv, StorageInv, Slots
    <3>2. status = "INIT" /\ UNCHANGED <<status, preview, lost, device>>
      BY <2>9 DEF StopJoined, CaptureInv, LifecycleInv, objectVars
    <3> QED
      BY <2>9, <3>1, <3>2 DEF StopJoined
  <2>10. CASE DestroyRelease
    BY <2>10 DEF DestroyRelease, CloseWorks, Ready, AllRules, CaptureInv, TypeOK
  <2>11. CASE DestroyDelete
    BY <2>11 DEF DestroyDelete, CaptureInv, LifecycleInv
  <2>12. ASSUME NEW i \in Slots, FillFrame(i) PROVE Rest'
    BY <2>12 DEF FillFrame, objectVars, clientVars
  <2>13. CASE Unplug \/ Replug
    BY <2>13 DEF Unplug, Replug, objectVars, clientVars, CaptureInv, LifecycleInv
  <2>14. CASE LoopCheck \/ SelectIdle \/ SelectReady \/ Convert \/ RenderFrame \/ SendFrame
    BY <2>14 DEF LoopCheck, SelectIdle, SelectReady, Convert, RenderFrame, SendFrame,
                 objectVars, driverVars, clientVars
  <2>15. CASE Dqbuf \/ Requeue
    BY <2>15 DEF Dqbuf, Requeue, objectVars, clientVars, CaptureInv, LifecycleInv,
                 QuietOutsideRun, LoopRunning, InLoop
  <2>16. CASE UNCHANGED vars
    BY <2>16 DEF vars, objectVars, driverVars, clientVars
  <2> QED
    BY <2>1, <2>2, <2>3, <2>4, <2>5, <2>6, <2>7, <2>8, <2>9, <2>10, <2>11, <2>12,
       <2>13, <2>14, <2>15, <2>16
       DEF Next, Configure, Capture
<1> QED
  BY Invariance, <1>1, <1>2, PTL DEF Spec

\* What stop and destroy are for: without failures inside start and STREAMOFF a
\* camera at rest has given the driver everything back.
THEOREM IdleCamera ==
  ASSUME AllRules \subseteq ClientRules,
         Faults \cap {"mmap", "qbuf", "streamon", "streamoff"} = {}
  PROVE  Spec => []IdleWhenNotRunning
<1>1. RestInv => IdleWhenNotRunning
  BY DEF RestInv, IdleWhenNotRunning
<1> QED
  BY RestInvariance, <1>1, PTL

\* Under the same assumption no preview and no mapped slot is forgotten, however
\* often the camera is started, stopped and destroyed.
THEOREM NothingForgotten ==
  ASSUME AllRules \subseteq ClientRules,
         Faults \cap {"mmap", "qbuf", "streamon", "streamoff"} = {}
  PROVE  Spec => []PreviewAndSlotsReleased
  BY RestInvariance, PTL

\* What a preview was made for: the decoder goes with the frame format, and a
\* preview made after setFrameSize has the layout that decoder or format gives.
PreviewInv ==
  /\ status \in {"CREATE", "OPEN"} => decoder = "null" /\ preview = "null"
  /\ status \in {"INIT", "RUN"} =>
       /\ decoder # "null" <=> frameFormat = "MJPEG"
       /\ preview # "null" => preview = PreviewPixelFormat
  /\ loop = "render" /\ data # "null" =>
       data = IF frameFormat = "MJPEG" THEN DecoderPixelFormat ELSE frameFormat

\* Every step keeps preview, decoder and frame format in step.
LEMMA PreviewStep ==
  ASSUME AllRules \subseteq ClientRules \/ StepObeys, CaptureInv, PreviewInv, [Next]_vars
  PROVE  PreviewInv'
<1> USE DEF PreviewInv, PreviewPixelFormat, DecoderPixelFormat
<1>1. /\ TypeOK
      /\ loop = "render" => camera = "object" /\ (status = "RUN" \/ call = "joining")
      /\ call = "joining" => status = "INIT"
  BY DEF CaptureInv, TypeOK, LifecycleInv, QuietOutsideRun, LoopRunning, InLoop
<1> USE <1>1 DEF TypeOK, FrameFormats, Ready
<1>2. CASE NativeInit
  BY <1>2 DEF NativeInit, objectVars
<1>3. CASE ConnectOk
  BY <1>3 DEF ConnectOk, loopVars
<1>4. ASSUME NEW f \in FrameFormats, SetFrameSize(f) PROVE PreviewInv'
  BY <1>4 DEF SetFrameSize, loopVars
<1>5. ASSUME NEW cb, SetFrameCallback(cb) PROVE PreviewInv'
  BY <1>5 DEF SetFrameCallback, loopVars
<1>6. ASSUME NEW hasSurface, SetPreview(hasSurface) PROVE PreviewInv'
  BY <1>6 DEF SetPreview, CanReconfigure, loopVars
<1>7. CASE StartFails
  BY <1>7 DEF StartFails, loopVars
<1>8. CASE StartStreams
  BY <1>8 DEF StartStreams, Prepared
<1>9. CASE StopRequest
  BY <1>9 DEF StopRequest, loopVars
<1>10. CASE StopJoined
  BY <1>10 DEF StopJoined, objectVars
<1>11. CASE DestroyRelease
  BY <1>11 DEF DestroyRelease, CloseWorks, AllRules, StepObeys, loopVars
<1>12. CASE DestroyDelete
  BY <1>12 DEF DestroyDelete, CaptureInv, LifecycleInv, loopVars
<1>13. CASE (\E i \in Slots : FillFrame(i)) \/ Unplug \/ Replug
  BY <1>13 DEF FillFrame, Unplug, Replug, objectVars, loopVars
<1>14. CASE LoopCheck \/ SelectIdle \/ SelectReady \/ Dqbuf
  BY <1>14 DEF LoopCheck, SelectIdle, SelectReady, Dqbuf, objectVars
<1>15. CASE Convert
  BY <1>15 DEF Convert, objectVars
<1>16. CASE RenderFrame \/ SendFrame \/ Requeue
  BY <1>16 DEF RenderFrame, SendFrame, Requeue, objectVars
<1>17. CASE UNCHANGED vars
  BY <1>17 DEF vars, objectVars, loopVars
<1> QED
  BY <1>2, <1>3, <1>4, <1>5, <1>6, <1>7, <1>8, <1>9, <1>10, <1>11, <1>12, <1>13,
     <1>14, <1>15, <1>16, <1>17
     DEF Next, Configure, Capture

LEMMA PreviewInit == Init => PreviewInv
  BY DEF Init, PreviewInv

LEMMA InvRendererMatches == CaptureInv /\ PreviewInv => RendererMatchesFrame
  BY DEF CaptureInv, TypeOK, LifecycleInv, QuietOutsideRun, LoopRunning, InLoop, PreviewInv,
         RendererMatchesFrame, PreviewPixelFormat, DecoderPixelFormat, FrameFormats

\* A preview is never given a frame of another layout, whichever order the
\* client called setFrameSize and setPreview in and whichever decoder it got.
THEOREM RendererMatches ==
  ASSUME AllRules \subseteq ClientRules
  PROVE  Spec => []RendererMatchesFrame
<1>1. CaptureInv /\ PreviewInv /\ [Next]_vars => PreviewInv'
  BY PreviewStep
<1> QED
  BY Invariance, PreviewInit, <1>1, InvRendererMatches, PTL DEF Spec

-----------------------------------------------------------------------------
(* How long stop waits *)

\* The steps of loopFrame that are left when the status is no longer RUN: it may
\* still take a frame it waits for, and then finds the loop's condition false.
StepsLeft ==
  CASE loop = "select"  -> 7
    [] loop = "dqbuf"   -> 6
    [] loop = "convert" -> 5
    [] loop = "render"  -> 4
    [] loop = "send"    -> 3
    [] loop = "requeue" -> 2
    [] loop = "check"   -> 1
    [] OTHER            -> 0

\* No step of anybody sets the capture thread back, each of its own brings it
\* nearer to the end, and stop returns when it is there.
JoinIsBounded ==
  [][call = "joining" =>
       /\ StepsLeft \in 0 .. 7 /\ StepsLeft' <= StepsLeft
       /\ Capture => StepsLeft' < StepsLeft
       /\ JoinReturns <=> StepsLeft = 0
       /\ call' # "joining" => StepsLeft = 0]_vars

LEMMA JoinStep ==
  ASSUME CaptureInv, [Next]_vars, call = "joining"
  PROVE  /\ StepsLeft \in 0 .. 7 /\ StepsLeft' <= StepsLeft
         /\ Capture => StepsLeft' < StepsLeft
         /\ JoinReturns <=> StepsLeft = 0
         /\ call' # "joining" => StepsLeft = 0
<1>1. /\ status = "INIT" /\ camera = "object"
      /\ loop \in InLoop \cup {"none", "exited", "joined"}
  BY DEF CaptureInv, TypeOK, LifecycleInv
<1>2. StepsLeft \in 0 .. 7 /\ (JoinReturns <=> StepsLeft = 0)
  BY <1>1 DEF StepsLeft, JoinReturns, LoopRunning, InLoop
<1>3. CASE Capture
  <2>1. call' = "joining"
    BY <1>3 DEF Capture, LoopCheck, SelectIdle, SelectReady, Dqbuf, Convert,
                RenderFrame, SendFrame, Requeue, clientVars
  <2>2. StepsLeft' < StepsLeft
    BY <1>1, <1>3 DEF Capture, LoopCheck, LoopContinues, SelectIdle, SelectReady, Dqbuf,
                Convert, RenderFrame, SendFrame, Requeue, StepsLeft
  <2>3. StepsLeft' \in Int
    BY DEF StepsLeft
  <2> QED
    BY <1>2, <2>1, <2>2, <2>3
<1>4. CASE StopJoined
  <2>1. StepsLeft = 0 /\ StepsLeft' = 0 /\ ~Capture
    BY <1>1, <1>2, <1>4 DEF StopJoined, StepsLeft, JoinReturns, LoopRunning, InLoop,
       Capture, LoopCheck, SelectIdle, SelectReady, Dqbuf, Convert, RenderFrame, SendFrame, Requeue
  <2> QED
    BY <1>2, <2>1
<1>5. CASE ~Capture /\ UNCHANGED <<loop, call>>
  <2>1. StepsLeft' = StepsLeft
    BY <1>5 DEF StepsLeft
  <2> QED
    BY <1>2, <1>5, <2>1
<1>6. ASSUME ~Capture, ~StopJoined PROVE UNCHANGED <<loop, call>>
  <2>1. CASE UNCHANGED vars
    BY <2>1 DEF vars, loopVars, clientVars
  <2>2. CASE (\E i \in Slots : FillFrame(i)) \/ Unplug \/ Replug
    BY <2>2 DEF FillFrame, Unplug, Replug, loopVars, clientVars
  <2>3. ~(\/ Configure \/ StartFails \/ StartStreams \/ StopRequest
          \/ DestroyRelease \/ DestroyDelete)
    BY <1>1 DEF Configure, NativeInit, ConnectOk, SetFrameSize, SetFrameCallback, SetPreview,
                StartFails, StartStreams, Prepared, StopRequest, DestroyRelease,
                DestroyDelete, Ready
  <2> QED
    BY <1>6, <2>1, <2>2, <2>3 DEF Next
<1> QED
  BY <1>3, <1>4, <1>5, <1>6

\* stop waits for at most seven steps of the capture thread, whatever the device
\* does in between.
THEOREM StopWaitsBounded ==
  ASSUME AllRules \subseteq ClientRules
  PROVE  Spec => JoinIsBounded
<1>1. CaptureInv /\ [Next]_vars =>
        [call = "joining" =>
           /\ StepsLeft \in 0 .. 7 /\ StepsLeft' <= StepsLeft
           /\ Capture => StepsLeft' < StepsLeft
           /\ JoinReturns <=> StepsLeft = 0
           /\ call' # "joining" => StepsLeft = 0]_vars
  BY JoinStep
<1> QED
  BY Invariance, <1>1, PTL DEF Spec, JoinIsBounded

-----------------------------------------------------------------------------
(* The refinement of CaptureSession *)

\* A fresh program has no session.
LEMMA InitRefines == Init => CS!Init
  BY DEF Init, CS!Init, Session, CallbackRuns, FrameOnItsWay

\* Every step is one the session allows, or one it does not show.
LEMMA StepRefines ==
  ASSUME AllRules \subseteq ClientRules \/ StepObeys, CaptureInv, [Next]_vars
  PROVE  CS!Next \/ UNCHANGED CS!absVars
<1> USE DEF CS!Next, CS!absVars, Session, CallbackRuns, FrameOnItsWay, Ready
<1>1. /\ TypeOK
      /\ LifecycleInv
      /\ LoopRunning => status = "RUN" \/ call = "joining"
  BY DEF CaptureInv, LifecycleInv, QuietOutsideRun
<1> USE <1>1 DEF TypeOK, LifecycleInv, LoopRunning, InLoop
<1>2. CASE NativeInit
  BY <1>2 DEF NativeInit, CS!Create, objectVars
<1>3. CASE ConnectOk
  BY <1>3 DEF ConnectOk, CS!Connect, loopVars, clientVars
<1>4. ASSUME NEW f \in FrameFormats, SetFrameSize(f) PROVE CS!Configure
  BY <1>4 DEF SetFrameSize, CS!Configure, loopVars, clientVars
<1>5. ASSUME NEW cb, SetFrameCallback(cb) PROVE UNCHANGED CS!absVars
  BY <1>5 DEF SetFrameCallback, CanReconfigure, loopVars, clientVars
<1>6. ASSUME NEW hasSurface, SetPreview(hasSurface) PROVE UNCHANGED CS!absVars
  BY <1>6 DEF SetPreview, loopVars, clientVars
<1>7. CASE StartFails
  BY <1>7 DEF StartFails, loopVars, clientVars
<1>8. CASE StartStreams
  BY <1>8 DEF StartStreams, Prepared, CS!Start, clientVars
<1>9. CASE StopRequest
  BY <1>9 DEF StopRequest, CS!RequestStop, loopVars
<1>10. CASE StopJoined
  BY <1>10 DEF StopJoined, JoinReturns, CS!Stop, objectVars
<1>11. CASE DestroyRelease
  BY <1>11 DEF DestroyRelease, CS!Destroy, AllRules, StepObeys, loopVars
<1>12. CASE DestroyDelete
  BY <1>12 DEF DestroyDelete, loopVars
<1>13. CASE (\E i \in Slots : FillFrame(i)) \/ Unplug \/ Replug
  BY <1>13 DEF FillFrame, Unplug, Replug, objectVars, loopVars, clientVars
<1>14. CASE LoopCheck
  BY <1>14 DEF LoopCheck, LoopContinues, objectVars, clientVars
<1>15. CASE SelectIdle
  BY <1>15 DEF SelectIdle, CS!DropFrame, objectVars, clientVars
<1>16. CASE SelectReady
  BY <1>16 DEF SelectReady, objectVars, clientVars
<1>17. CASE Dqbuf
  BY <1>17 DEF Dqbuf, CS!DropFrame, objectVars, clientVars
<1>18. CASE Convert
  BY <1>18 DEF Convert, objectVars, clientVars
<1>19. CASE RenderFrame
  BY <1>19 DEF RenderFrame, CS!BeginFrame, CS!DropFrame, objectVars, clientVars
<1>20. CASE SendFrame
  BY <1>20 DEF SendFrame, CS!EndFrame, objectVars, clientVars
<1>21. CASE Requeue
  BY <1>21 DEF Requeue, objectVars, clientVars
<1>22. CASE UNCHANGED vars
  BY <1>22 DEF vars, objectVars, loopVars, clientVars
<1> QED
  BY <1>2, <1>3, <1>4, <1>5, <1>6, <1>7, <1>8, <1>9, <1>10, <1>11, <1>12, <1>13,
     <1>14, <1>15, <1>16, <1>17, <1>18, <1>19, <1>20, <1>21, <1>22
     DEF Next, Configure, Capture

\* The object keeps what CaptureSession promises its owner: callbacks only
\* between start and the return of stop, at most one of them beginning after
\* the stop was called, and no destruction of a session being captured.
THEOREM ImplementsSession ==
  ASSUME AllRules \subseteq ClientRules
  PROVE  Spec => SessionSpec
<1>1. CaptureInv /\ [Next]_vars => [CS!Next]_CS!absVars
  BY StepRefines
<1> QED
  BY InitRefines, Invariance, <1>1, PTL DEF Spec, SessionSpec, CS!Spec
=============================================================================
