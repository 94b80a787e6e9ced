---------------------------- MODULE CameraFacade ----------------------------
(* The Java object CameraAPI.java, as several threads call it at once, down   *)
(* to the entry of the native methods.  create, start, stop and destroy hold  *)
(* the object's monitor; the other methods do not.  Every method tests        *)
(* nativeObj, reads it again for the native call, and only destroy clears it. *)
(* One of the threads is the capture thread: it exists from a successful      *)
(* start until it sees that stop was called, or until the device gives no     *)
(* frame any more, and calls only from onFrame.                               *)
(* Of the native side there is just what decides who waits for whom and which *)
(* memory is gone; the rest of it is CameraAPI.tla.                           *)

CONSTANTS
    Callers,        \* threads, the capture thread among them
    NoCaller,       \* nobody holds the monitor
    CaptureThread,
    Owner,          \* the thread that starts and destroys, in Disciplined use
    CallerOps       \* the methods each thread calls

SynchronizedOpsBug == {"create", "start", "stop", "destroy", "setExposureLevel"}
SynchronizedOps    == {"create", "start", "stop", "destroy"}
UnsynchronizedOps  == {"setAutoExposure", "setExposureLevel", "getPreviewSize",
                       "setFrameSize", "setFrameCallback", "setPreview"}
Ops == {"create", "start", "stop", "destroy"} \cup UnsynchronizedOps

ASSUME CallerAssumption ==
    /\ CaptureThread \in Callers
    /\ Owner \in Callers \ {CaptureThread}
    /\ NoCaller \notin Callers
    /\ CallerOps \in [Callers -> SUBSET Ops]

\* One thread alone starts, destroys and uses the methods without monitor; the
\* callback keeps to methods without monitor; the others may create and stop.
Disciplined ==
    /\ CallerOps[CaptureThread] \subseteq UnsynchronizedOps
    /\ \A c \in Callers \ {Owner, CaptureThread} : CallerOps[c] \subseteq {"create", "stop"}

VARIABLES
    nativeObj,      \* the Java field
    object,         \* what it points to
    monitor,        \* who is in a synchronized method
    op, pc,         \* of each thread: the method it called, and how far it is
    arg,            \* the pointer it passed to the native method
    status,         \* STATUS_RUN, or IDLE for any other status
    capture         \* where the capture thread is

callVars == <<op, pc, arg>>
vars == <<nativeObj, object, monitor, callVars, status, capture>>

InNative(c) == pc[c] \in {"native", "joining", "deleting"}

TypeOK ==
    /\ nativeObj \in {"object", "null"}
    /\ object \in {"live", "deleted"}
    /\ monitor \in Callers \cup {NoCaller}
    /\ op \in [Callers -> Ops]
    /\ pc \in [Callers -> {"idle", "blocked", "check", "load",
                           "native", "joining", "deleting"}]
    /\ arg \in [Callers -> {"object", "null"}]
    /\ status \in {"IDLE", "RUN"}
    /\ capture \in {"none", "check", "frame", "onFrame"}

\* The constructor has returned.
Init ==
    /\ nativeObj = "object"
    /\ object = "live"
    /\ monitor = NoCaller
    /\ op = [c \in Callers |-> "create"]
    /\ pc = [c \in Callers |-> "idle"]
    /\ arg = [c \in Callers |-> "null"]
    /\ status = "IDLE"
    /\ capture = "none"

Goto(c, l) == pc' = [pc EXCEPT ![c] = l]

\* The method returns; leaving a synchronized one releases the monitor.
Return(c) ==
    /\ Goto(c, "idle")
    /\ monitor' = IF monitor = c THEN NoCaller ELSE monitor
    /\ UNCHANGED <<op, arg>>

-----------------------------------------------------------------------------
(* A method of the facade *)

\* The client destroys a camera it has stopped.
Call(c, o) ==
    /\ pc[c] = "idle"
    /\ o \in CallerOps[c]
    /\ c = CaptureThread => capture = "onFrame"
    /\ o = "destroy" => status # "RUN"
    /\ op' = [op EXCEPT ![c] = o]
    /\ Goto(c, IF o \in SynchronizedOps THEN "blocked" ELSE "check")
    /\ UNCHANGED <<nativeObj, object, monitor, arg, status, capture>>

Acquire(c) ==
    /\ pc[c] = "blocked"
    /\ monitor = NoCaller
    /\ monitor' = c
    /\ Goto(c, "check")
    /\ UNCHANGED <<nativeObj, object, op, arg, status, capture>>

\* if (this.nativeObj == 0): the object was destroyed.
Check(c) ==
    /\ pc[c] = "check"
    /\ IF nativeObj = "null"
         THEN Return(c)
         ELSE Goto(c, "load") /\ UNCHANGED <<monitor, op, arg>>
    /\ UNCHANGED <<nativeObj, object, status, capture>>

Load(c) ==
    /\ pc[c] = "load"
    /\ arg' = [arg EXCEPT ![c] = nativeObj]
    /\ Goto(c, "native")
    /\ UNCHANGED <<nativeObj, object, monitor, op, status, capture>>

\* A native method without effect here: a null pointer, a wrong status, or one
\* that neither starts, stops nor destroys.
NativeReturn(c) ==
    /\ pc[c] = "native"
    /\ arg[c] = "object" => op[c] # "destroy" /\ (op[c] = "stop" => status # "RUN")
    /\ Return(c)
    /\ UNCHANGED <<nativeObj, object, status, capture>>

\* pthread_create may fail, with the status RUN already.
NativeStart(c) ==
    /\ pc[c] = "native"
    /\ op[c] = "start"
    /\ arg[c] = "object"
    /\ status # "RUN"
    /\ capture = "none"
    /\ status' = "RUN"
    /\ capture' \in {"check", "none"}
    /\ Return(c)
    /\ UNCHANGED <<nativeObj, object>>

NativeStop(c) ==
    /\ pc[c] = "native"
    /\ op[c] = "stop"
    /\ arg[c] = "object"
    /\ status = "RUN"
    /\ status' = "IDLE"
    /\ Goto(c, "joining")
    /\ UNCHANGED <<nativeObj, object, monitor, op, arg, capture>>

\* pthread_join waits for the capture thread, and fails at once in that thread.
JoinReturnsBug(c) == TRUE
JoinReturns(c)    == capture = "none" \/ c = CaptureThread

NativeStopReturn(c) ==
    /\ pc[c] = "joining"
    /\ JoinReturns(c)
    /\ Return(c)
    /\ UNCHANGED <<nativeObj, object, status, capture>>

\* nativeDestroy clears the field before it deletes the object.
NativeDestroy(c) ==
    /\ pc[c] = "native"
    /\ op[c] = "destroy"
    /\ arg[c] = "object"
    /\ nativeObj' = "null"
    /\ Goto(c, "deleting")
    /\ UNCHANGED <<object, monitor, op, arg, status, capture>>

NativeDestroyReturn(c) ==
    /\ pc[c] = "deleting"
    /\ object' = "deleted"
    /\ status' = "IDLE"
    /\ Return(c)
    /\ UNCHANGED <<nativeObj, capture>>

-----------------------------------------------------------------------------
(* The capture thread *)

\* The while condition, then a frame that may or may not reach onFrame, then
\* onFrame, which ends when its own calls have returned.  A failed VIDIOC_DQBUF
\* ends the thread, whatever the status.
CaptureCheck ==
    /\ capture = "check"
    /\ capture' = IF status = "RUN" THEN "frame" ELSE "none"
    /\ UNCHANGED <<nativeObj, object, monitor, callVars, status>>

CaptureFrame ==
    /\ capture = "frame"
    /\ capture' \in {"onFrame", "check", "none"}
    /\ UNCHANGED <<nativeObj, object, monitor, callVars, status>>

OnFrameReturn ==
    /\ capture = "onFrame"
    /\ pc[CaptureThread] = "idle"
    /\ capture' = "check"
    /\ UNCHANGED <<nativeObj, object, monitor, callVars, status>>

-----------------------------------------------------------------------------
Serve(c) ==
    \/ Acquire(c) \/ Check(c) \/ Load(c)
    \/ NativeReturn(c)
    \/ NativeStart(c)
    \/ NativeStop(c) \/ NativeStopReturn(c)
    \/ NativeDestroy(c) \/ NativeDestroyReturn(c)

Capture == CaptureCheck \/ CaptureFrame \/ OnFrameReturn

Next ==
    \/ \E c \in Callers : Serve(c) \/ \E o \in Ops : Call(c, o)
    \/ Capture

Spec == Init /\ [][Next]_vars

\* A call under way goes on when it can, and so does the capture thread; its
\* callback returns in the end, so it does not call for ever.
Fairness ==
    /\ \A c \in Callers : WF_vars(Serve(c))
    /\ WF_vars(CaptureCheck)
    /\ WF_vars(CaptureFrame)
    /\ SF_vars(OnFrameReturn)

FairSpec == Spec /\ Fairness

-----------------------------------------------------------------------------
(* Invariants the properties rest on *)

\* A thread past the entry of a synchronized method holds the monitor.
MonitorInv ==
    \A c \in Callers :
        op[c] \in SynchronizedOps /\ pc[c] \notin {"idle", "blocked"} => monitor = c

\* What a thread is doing is one of its methods, and the capture thread calls
\* only from onFrame.
CallInv ==
    /\ \A c \in Callers :
          /\ pc[c] # "idle" => op[c] \in CallerOps[c]
          /\ pc[c] = "joining" => op[c] = "stop"
          /\ pc[c] = "deleting" => op[c] = "destroy" /\ arg[c] = "object" /\ nativeObj = "null"
    /\ pc[CaptureThread] # "idle" => capture = "onFrame"

\* The capture thread outlives the status only under a stop that waits for it,
\* and a destroy finds the camera stopped.
CaptureInv ==
    /\ capture # "none" => status = "RUN" \/ \E c \in Callers : pc[c] = "joining"
    /\ op[Owner] = "destroy" /\ pc[Owner] # "idle" => status # "RUN"

\* "Can't be call after call destroy" (CameraAPI.java:68): no native method
\* works on an object that destroy has deleted.
NoCallAfterDestroy ==
    \A c \in Callers : InNative(c) /\ arg[c] = "object" => object = "live"

\* Nothing runs on a deleted object: neither a native method that was entered
\* with the pointer, nor the capture thread.
NativeOnLiveObject ==
    /\ NoCallAfterDestroy
    /\ capture # "none" => object = "live"

FacadeInv ==
    /\ TypeOK
    /\ MonitorInv
    /\ CallInv
    /\ CaptureInv
    /\ nativeObj = "object" => object = "live"
    /\ NativeOnLiveObject

-----------------------------------------------------------------------------
(* Properties *)

\* c cannot go on before d has: d has the monitor c wants, or c joins the
\* capture thread.
WaitsFor(c, d) ==
    \/ pc[c] = "blocked" /\ monitor = d
    \/ pc[c] = "joining" /\ ~JoinReturns(c) /\ d = CaptureThread

\* However many threads call, following who waits for whom never leads back: the
\* capture thread waits for nobody, and whoever waits for a thread that itself
\* waits, waits in the end for the capture thread.  A callback that called a
\* method with the monitor would close the circle with the stop that joins it.
NoCircularWait ==
    /\ \A d \in Callers : ~WaitsFor(CaptureThread, d)
    /\ \A c, d, e \in Callers : WaitsFor(c, d) /\ WaitsFor(d, e) => e = CaptureThread

\* A stop under way returns: what the callback waits for never waits for the
\* stop.
StopReturns ==
    \A c \in Callers : (pc[c] = "joining") ~> (pc[c] = "idle")
=============================================================================
