--------------------------- MODULE CaptureSession ---------------------------
(* What a camera object promises to the code that owns it, with no threads,   *)
(* buffers or system calls: the session goes through fixed phases, the        *)
(* frame callback runs only between a start and the return of the stop that   *)
(* ends it, at most one more callback begins once the stop was asked for, a   *)
(* stop returns only when no callback is running, and a session that is being *)
(* captured is never destroyed.  CameraAPI.tla is shown to implement it.      *)
VARIABLES
    session,    \* the phase, as the owner sees it
    inFrame,    \* the owner's frame callback is running
    pending     \* after a stop request: one more callback may still begin

absVars == <<session, inFrame, pending>>

Sessions == {"destroyed", "created", "opened", "configured", "streaming", "stopping"}

SessionType ==
    /\ session \in Sessions
    /\ inFrame \in BOOLEAN
    /\ pending \in BOOLEAN

Init ==
    /\ session = "destroyed"
    /\ inFrame = FALSE
    /\ pending = FALSE

Create    == session = "destroyed" /\ session' = "created"    /\ UNCHANGED <<inFrame, pending>>
Connect   == session = "created"   /\ session' = "opened"     /\ UNCHANGED <<inFrame, pending>>
Configure == session = "opened"    /\ session' = "configured" /\ UNCHANGED <<inFrame, pending>>
Start     == session = "configured" /\ session' = "streaming" /\ UNCHANGED <<inFrame, pending>>

\* A frame already on its way when the stop is requested may still be delivered.
RequestStop ==
    /\ session = "streaming"
    /\ session' = "stopping"
    /\ pending' \in BOOLEAN
    /\ pending' => ~inFrame
    /\ UNCHANGED inFrame

BeginFrame ==
    /\ ~inFrame
    /\ session = "streaming" \/ (session = "stopping" /\ pending)
    /\ inFrame' = TRUE
    /\ pending' = FALSE
    /\ UNCHANGED session

EndFrame ==
    /\ inFrame
    /\ inFrame' = FALSE
    /\ UNCHANGED <<session, pending>>

\* The frame on its way turned out to be one the owner never sees.
DropFrame ==
    /\ pending
    /\ pending' = FALSE
    /\ UNCHANGED <<session, inFrame>>

Stop ==
    /\ session = "stopping"
    /\ ~inFrame
    /\ session' = "configured"
    /\ pending' = FALSE
    /\ UNCHANGED inFrame

Destroy ==
    /\ session \in {"created", "opened", "configured"}
    /\ session' = "destroyed"
    /\ UNCHANGED <<inFrame, pending>>

Next ==
    \/ Create \/ Connect \/ Configure \/ Start
    \/ BeginFrame \/ EndFrame \/ DropFrame
    \/ RequestStop \/ Stop
    \/ Destroy

Spec == Init /\ [][Next]_absVars

\* A callback returns, and a stop that can finish does.
FairSpec == Spec /\ WF_absVars(EndFrame) /\ WF_absVars(Stop)
=============================================================================
