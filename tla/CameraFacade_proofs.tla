------------------------- MODULE CameraFacade_proofs -------------------------
(* Proofs about CameraFacade for any set of threads: with Disciplined use no   *)
(* native code ever runs on a deleted object, and nobody waits for himself.    *)
EXTENDS CameraFacade, TLAPS

USE DEF callVars, Goto, InNative

\* Every step keeps the variables in their ranges.
LEMMA StepType == TypeOK /\ [Next]_vars => TypeOK'
<1> SUFFICES ASSUME TypeOK, [Next]_vars PROVE TypeOK'
  OBVIOUS
<1> USE CallerAssumption DEF TypeOK
<1>1. ASSUME NEW c \in Callers, NEW o \in Ops, Call(c, o) PROVE TypeOK'
  BY <1>1 DEF Call
<1>2. ASSUME NEW c \in Callers, Serve(c) PROVE TypeOK'
  <2> USE DEF Return
  <2>1. CASE Acquire(c) BY <2>1 DEF Acquire
  <2>2. CASE Check(c) BY <2>2 DEF Check
  <2>3. CASE Load(c) BY <2>3 DEF Load
  <2>4. CASE NativeReturn(c) BY <2>4 DEF NativeReturn
  <2>5. CASE NativeStart(c) BY <2>5 DEF NativeStart
  <2>6. CASE NativeStop(c) BY <2>6 DEF NativeStop
  <2>7. CASE NativeStopReturn(c) BY <2>7 DEF NativeStopReturn
  <2>8. CASE NativeDestroy(c) BY <2>8 DEF NativeDestroy
  <2>9. CASE NativeDestroyReturn(c) BY <2>9 DEF NativeDestroyReturn
  <2> QED
    BY <1>2, <2>1, <2>2, <2>3, <2>4, <2>5, <2>6, <2>7, <2>8, <2>9 DEF Serve
<1>3. CASE Capture
  BY <1>3 DEF Capture, CaptureCheck, CaptureFrame, OnFrameReturn
<1>4. CASE UNCHANGED vars
  BY <1>4 DEF vars
<1> QED
  BY <1>1, <1>2, <1>3, <1>4 DEF Next

\* Every variable stays in its range.
THEOREM FacadeTypeCorrect == Spec => []TypeOK
<1>1. Init => TypeOK
  BY CallerAssumption DEF Init, TypeOK, Ops
<1> QED
  BY <1>1, StepType, PTL DEF Spec

\* Whoever is inside a synchronized method holds the monitor.
LEMMA StepMonitor == TypeOK /\ MonitorInv /\ [Next]_vars => MonitorInv'
<1> SUFFICES ASSUME TypeOK, MonitorInv, [Next]_vars PROVE MonitorInv'
  OBVIOUS
<1> USE CallerAssumption DEF TypeOK, MonitorInv
<1>1. ASSUME NEW c \in Callers, NEW o \in Ops, Call(c, o) PROVE MonitorInv'
  BY <1>1 DEF Call
<1>2. ASSUME NEW c \in Callers, Serve(c) PROVE MonitorInv'
  <2> USE DEF Return
  <2>1. CASE Acquire(c) BY <2>1 DEF Acquire
  <2>2. CASE Check(c) BY <2>2 DEF Check
  <2>3. CASE Load(c) BY <2>3 DEF Load
  <2>4. CASE NativeReturn(c) BY <2>4 DEF NativeReturn
  <2>5. CASE NativeStart(c) BY <2>5 DEF NativeStart
  <2>6. CASE NativeStop(c) BY <2>6 DEF NativeStop
  <2>7. CASE NativeStopReturn(c) BY <2>7 DEF NativeStopReturn
  <2>8. CASE NativeDestroy(c) BY <2>8 DEF NativeDestroy
  <2>9. CASE NativeDestroyReturn(c) BY <2>9 DEF NativeDestroyReturn
  <2> QED
    BY <1>2, <2>1, <2>2, <2>3, <2>4, <2>5, <2>6, <2>7, <2>8, <2>9 DEF Serve
<1>3. CASE Capture
  BY <1>3 DEF Capture, CaptureCheck, CaptureFrame, OnFrameReturn
<1>4. CASE UNCHANGED vars
  BY <1>4 DEF vars
<1> QED
  BY <1>1, <1>2, <1>3, <1>4 DEF Next

-----------------------------------------------------------------------------
(* Disciplined use *)

\* What a thread does stays one of its methods.
LEMMA StepCall == FacadeInv /\ [Next]_vars => CallInv'
<1> SUFFICES ASSUME FacadeInv, [Next]_vars PROVE CallInv'
  OBVIOUS
<1> USE CallerAssumption DEF FacadeInv, TypeOK, CallInv
<1>1. ASSUME NEW c \in Callers, NEW o \in Ops, Call(c, o) PROVE CallInv'
  BY <1>1 DEF Call
<1>2. ASSUME NEW c \in Callers, Serve(c) PROVE CallInv'
  <2> USE DEF Return
  <2>1. CASE Acquire(c) BY <2>1 DEF Acquire
  <2>2. CASE Check(c) BY <2>2 DEF Check
  <2>3. CASE Load(c) BY <2>3 DEF Load
  <2>4. CASE NativeReturn(c) BY <2>4 DEF NativeReturn
  <2>5. CASE NativeStart(c) BY <2>5 DEF NativeStart
  <2>6. CASE NativeStop(c) BY <2>6 DEF NativeStop
  <2>7. CASE NativeStopReturn(c) BY <2>7 DEF NativeStopReturn
  <2>8. CASE NativeDestroy(c) BY <2>8 DEF NativeDestroy
  <2>9. CASE NativeDestroyReturn(c) BY <2>9 DEF NativeDestroyReturn
  <2> QED
    BY <1>2, <2>1, <2>2, <2>3, <2>4, <2>5, <2>6, <2>7, <2>8, <2>9 DEF Serve
<1>3. CASE Capture
  BY <1>3 DEF Capture, CaptureCheck, CaptureFrame, OnFrameReturn
<1>4. CASE UNCHANGED vars
  BY <1>4 DEF vars
<1> QED
  BY <1>1, <1>2, <1>3, <1>4 DEF Next

\* Only the owner starts and destroys, and the callback does not stop.
LEMMA OwnerOnly ==
  ASSUME Disciplined, FacadeInv, NEW c \in Callers, pc[c] # "idle"
  PROVE  /\ op[c] \in {"start", "destroy"} => c = Owner
         /\ op[c] \in SynchronizedOps => c # CaptureThread
         /\ c \notin {Owner, CaptureThread} => op[c] \in {"create", "stop"}
  BY CallerAssumption
     DEF Disciplined, FacadeInv, CallInv, SynchronizedOps, UnsynchronizedOps

\* The capture thread is gone when destroy runs.
LEMMA StepCapture == Disciplined /\ FacadeInv /\ [Next]_vars => CaptureInv'
<1> SUFFICES ASSUME Disciplined, FacadeInv, [Next]_vars PROVE CaptureInv'
  OBVIOUS
<1> USE CallerAssumption DEF FacadeInv, TypeOK, CaptureInv
<1>1. ASSUME NEW c \in Callers, NEW o \in Ops, Call(c, o) PROVE CaptureInv'
  BY <1>1 DEF Call
<1>2. ASSUME NEW c \in Callers, Serve(c) PROVE CaptureInv'
  <2> USE DEF Return
  <2>1. CASE Acquire(c) BY <2>1 DEF Acquire
  <2>2. CASE Check(c) BY <2>2 DEF Check
  <2>3. CASE Load(c) BY <2>3 DEF Load
  <2>4. CASE NativeReturn(c) BY <2>4 DEF NativeReturn
  <2>5. CASE NativeStart(c)
    <3>1. c = Owner
      BY <2>5, OwnerOnly DEF NativeStart
    <3> QED
      BY <2>5, <3>1 DEF NativeStart
  <2>6. CASE NativeStop(c) BY <2>6 DEF NativeStop
  <2>7. CASE NativeStopReturn(c)
    <3>1. c # CaptureThread
      BY <2>7, OwnerOnly DEF NativeStopReturn, CallInv, SynchronizedOps
    <3> QED
      BY <2>7, <3>1 DEF NativeStopReturn, JoinReturns
  <2>8. CASE NativeDestroy(c) BY <2>8 DEF NativeDestroy
  <2>9. CASE NativeDestroyReturn(c)
    <3>1. c = Owner /\ op[c] = "destroy" /\ pc[c] = "deleting"
      BY <2>9, OwnerOnly DEF NativeDestroyReturn, CallInv
    <3> QED
      BY <2>9, <3>1 DEF NativeDestroyReturn
  <2> QED
    BY <1>2, <2>1, <2>2, <2>3, <2>4, <2>5, <2>6, <2>7, <2>8, <2>9 DEF Serve
<1>3. CASE Capture
  BY <1>3 DEF Capture, CaptureCheck, CaptureFrame, OnFrameReturn
<1>4. CASE UNCHANGED vars
  BY <1>4 DEF vars
<1> QED
  BY <1>1, <1>2, <1>3, <1>4 DEF Next

\* destroy deletes the object with nobody left on it.
LEMMA StepLive ==
  Disciplined /\ FacadeInv /\ [Next]_vars
    => (nativeObj = "object" => object = "live")' /\ NativeOnLiveObject'
<1> DEFINE Live == (nativeObj = "object" => object = "live") /\ NativeOnLiveObject
<1> SUFFICES ASSUME Disciplined, FacadeInv, [Next]_vars PROVE Live'
  OBVIOUS
<1> USE CallerAssumption DEF FacadeInv, TypeOK, NativeOnLiveObject, NoCallAfterDestroy
<1>1. ASSUME NEW c \in Callers, NEW o \in Ops, Call(c, o) PROVE Live'
  BY <1>1 DEF Call
<1>2. ASSUME NEW c \in Callers, Serve(c) PROVE Live'
  <2> USE DEF Return
  <2>1. CASE Acquire(c) BY <2>1 DEF Acquire
  <2>2. CASE Check(c) BY <2>2 DEF Check
  <2>3. CASE Load(c) BY <2>3 DEF Load
  <2>4. CASE NativeReturn(c) BY <2>4 DEF NativeReturn
  <2>5. CASE NativeStart(c) BY <2>5 DEF NativeStart
  <2>6. CASE NativeStop(c) BY <2>6 DEF NativeStop
  <2>7. CASE NativeStopReturn(c) BY <2>7 DEF NativeStopReturn
  <2>8. CASE NativeDestroy(c) BY <2>8 DEF NativeDestroy
  <2>9. CASE NativeDestroyReturn(c)
    <3>1. /\ pc[c] = "deleting" /\ op[c] = "destroy"
          /\ c = Owner /\ monitor = c /\ nativeObj = "null"
      BY <2>9, OwnerOnly DEF NativeDestroyReturn, CallInv, MonitorInv, SynchronizedOps
    <3>2. \A d \in Callers : pc[d] # "joining"
      BY <3>1 DEF CallInv, MonitorInv, SynchronizedOps
    <3>3. capture = "none" /\ pc[CaptureThread] = "idle"
      BY <3>1, <3>2 DEF CaptureInv, CallInv
    <3>4. ASSUME NEW d \in Callers \ {c} PROVE ~InNative(d)
      BY <3>1, <3>3, OwnerOnly DEF MonitorInv, SynchronizedOps
    <3> QED
      BY <2>9, <3>1, <3>3, <3>4 DEF NativeDestroyReturn
  <2> QED
    BY <1>2, <2>1, <2>2, <2>3, <2>4, <2>5, <2>6, <2>7, <2>8, <2>9 DEF Serve
<1>3. CASE Capture
  BY <1>3 DEF Capture, CaptureCheck, CaptureFrame, OnFrameReturn
<1>4. CASE UNCHANGED vars
  BY <1>4 DEF vars
<1> QED
  BY <1>1, <1>2, <1>3, <1>4 DEF Next

\* With Disciplined use no native method and no capture thread ever runs on an
\* object destroy has deleted, although the methods without monitor test
\* nativeObj long before they use it.
THEOREM LiveObject ==
  ASSUME Disciplined
  PROVE  Spec => [](FacadeInv /\ NativeOnLiveObject)
<1>1. Init => FacadeInv
  BY CallerAssumption
     DEF Init, FacadeInv, TypeOK, Ops, MonitorInv, CallInv, CaptureInv,
         NativeOnLiveObject, NoCallAfterDestroy
<1>2. FacadeInv /\ [Next]_vars => FacadeInv'
  BY StepType, StepMonitor, StepCall, StepCapture, StepLive DEF FacadeInv
<1>3. FacadeInv => NativeOnLiveObject
  BY DEF FacadeInv
<1> QED
  BY <1>1, <1>2, <1>3, PTL DEF Spec

-----------------------------------------------------------------------------
(* Who waits for whom *)

\* A thread that waits for the monitor does not have it, and one that has it is
\* on its way through a method.
WaitInv ==
  \A c \in Callers :
    /\ pc[c] = "blocked" => op[c] \in SynchronizedOps
    /\ monitor = c => pc[c] \notin {"idle", "blocked"}

LEMMA StepWait == TypeOK /\ WaitInv /\ [Next]_vars => WaitInv'
<1> SUFFICES ASSUME TypeOK, WaitInv, [Next]_vars PROVE WaitInv'
  OBVIOUS
<1> USE CallerAssumption DEF TypeOK, WaitInv
<1>1. ASSUME NEW c \in Callers, NEW o \in Ops, Call(c, o) PROVE WaitInv'
  BY <1>1 DEF Call
<1>2. ASSUME NEW c \in Callers, Serve(c) PROVE WaitInv'
  <2> USE DEF Return
  <2>1. CASE Acquire(c) BY <2>1 DEF Acquire
  <2>2. CASE Check(c) BY <2>2 DEF Check
  <2>3. CASE Load(c) BY <2>3 DEF Load
  <2>4. CASE NativeReturn(c) BY <2>4 DEF NativeReturn
  <2>5. CASE NativeStart(c) BY <2>5 DEF NativeStart
  <2>6. CASE NativeStop(c) BY <2>6 DEF NativeStop
  <2>7. CASE NativeStopReturn(c) BY <2>7 DEF NativeStopReturn
  <2>8. CASE NativeDestroy(c) BY <2>8 DEF NativeDestroy
  <2>9. CASE NativeDestroyReturn(c) BY <2>9 DEF NativeDestroyReturn
  <2> QED
    BY <1>2, <2>1, <2>2, <2>3, <2>4, <2>5, <2>6, <2>7, <2>8, <2>9 DEF Serve
<1>3. CASE Capture
  BY <1>3 DEF Capture, CaptureCheck, CaptureFrame, OnFrameReturn
<1>4. CASE UNCHANGED vars
  BY <1>4 DEF vars
<1> QED
  BY <1>1, <1>2, <1>3, <1>4 DEF Next

\* With Disciplined use nobody waits for himself, over however many threads: the
\* methods a callback may call take no monitor, so it never waits for the stop
\* that waits for it (CameraAPI.java synchronizes create, start, stop, destroy).
THEOREM NobodyWaitsForHimself ==
  ASSUME Disciplined
  PROVE  Spec => []NoCircularWait
<1>1. Init => WaitInv
  BY CallerAssumption DEF Init, WaitInv
<1>2. FacadeInv /\ WaitInv /\ [Next]_vars => WaitInv'
  BY StepWait DEF FacadeInv
<1>3. FacadeInv /\ WaitInv => NoCircularWait
  <2> SUFFICES ASSUME FacadeInv, WaitInv PROVE NoCircularWait
    OBVIOUS
  <2>1. ASSUME NEW d \in Callers, WaitsFor(CaptureThread, d) PROVE FALSE
    <3>1. pc[CaptureThread] = "blocked"
      BY <2>1 DEF WaitsFor, JoinReturns
    <3>2. op[CaptureThread] \in SynchronizedOps
      BY <3>1, CallerAssumption DEF WaitInv
    <3> QED
      BY <3>1, <3>2, OwnerOnly, CallerAssumption
  <2>2. ASSUME NEW c \in Callers, NEW d \in Callers, NEW e \in Callers,
               WaitsFor(c, d), WaitsFor(d, e)
        PROVE  e = CaptureThread
    <3>1. d # CaptureThread
      BY <2>1, <2>2
    <3>2. monitor = d
      BY <2>2, <3>1 DEF WaitsFor
    <3> QED
      BY <2>2, <3>2 DEF WaitInv, WaitsFor
  <2> QED
    BY <2>1, <2>2 DEF NoCircularWait
<1> QED
  BY <1>1, <1>2, <1>3, LiveObject, PTL DEF Spec
=============================================================================
