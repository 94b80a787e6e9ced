------------------------------ MODULE FocusView ------------------------------
(* The focus frame drawn over the preview (FocusView.java): a tap shows it,   *)
(* and a thread of its own fades it out.  Touch events, hideFocus and         *)
(* onDetachedFromWindow run on the main thread; no lock protects focusAlpha   *)
(* from the fading threads.  Where the frame and its sun are drawn is left    *)
(* out, and so is whether the view is there at all (the layout hides it until *)
(* a client makes it visible).  The clock is not set back while a frame is    *)
(* shown, and gestures are of one finger, lifted where its last move was.     *)
EXTENDS Integers, FiniteSets

CONSTANTS
    Faders,             \* the fading threads that may be alive at once
    NoThread,           \* alphaThread is null
    FOCUS_SHOW_TIME,    \* how long a frame is shown, in some unit of time
    LATEST              \* the latest time a fading thread looks at the clock

ASSUME FocusAssumption ==
    /\ NoThread \notin Faders
    /\ FOCUS_SHOW_TIME \in Nat \ {0}
    /\ LATEST \in Nat /\ LATEST >= FOCUS_SHOW_TIME

VARIABLES
    focusAlpha,     \* the frame is drawn while it is positive
    alphaThread,
    hasMoveSun,     \* the running gesture is no tap
    finger,         \* where a tap would end: nowhere, near the place the finger
                    \* came down at, or dragged from there
    fader           \* per thread: where it is, deltaTime, its interrupt flag

focusVars == <<focusAlpha, alphaThread, hasMoveSun, finger, fader>>

Opaque == 255
Moments == 0 .. LATEST

\* As if the frame faded half as fast.
AlphaBug(deltaTime) == Opaque - (deltaTime * Opaque) \div (2 * FOCUS_SHOW_TIME)

\* What the thread shows deltaTime after the tap; it may have slept past the end.
Alpha(deltaTime) == Opaque - (deltaTime * Opaque) \div FOCUS_SHOW_TIME

\* deltaTime is -1 until the clock is read; a thread that is not alive has none.
Dead == [pc |-> "dead", deltaTime |-> -1, interrupted |-> FALSE]
Started == [Dead EXCEPT !.pc = "awake"]

FaderStates ==
    [pc : {"dead", "awake", "asleep"},
     deltaTime : {-1} \cup Moments,
     interrupted : BOOLEAN]

FocusTypeOK ==
    /\ focusAlpha \in Int /\ focusAlpha <= Opaque
    /\ alphaThread \in Faders \cup {NoThread}
    /\ hasMoveSun \in BOOLEAN
    /\ finger \in {"up", "down", "dragged"}
    /\ fader \in [Faders -> FaderStates]

FocusInit ==
    /\ focusAlpha = 0
    /\ alphaThread = NoThread
    /\ hasMoveSun = FALSE
    /\ finger = "up"
    /\ fader = [t \in Faders |-> Dead]

-----------------------------------------------------------------------------
Alive(t) == fader[t].pc # "dead"
Interruptible == alphaThread # NoThread /\ Alive(alphaThread) /\ ~fader[alphaThread].interrupted

\* As if the thread before were left to itself.
InterruptedBug == fader

\* The threads after interruptThread, which forgets the one it interrupts.
Interrupted ==
    IF Interruptible THEN [fader EXCEPT ![alphaThread].interrupted = TRUE] ELSE fader

InterruptThread ==
    /\ fader' = Interrupted
    /\ alphaThread' = IF Interruptible THEN NoThread ELSE alphaThread

\* startAlphaThread; Faders bounds the threads that live on interrupted.
StartAlphaThread ==
    /\ focusAlpha' = Opaque
    /\ \E t \in Faders :
         /\ ~Alive(t)
         /\ fader' = [Interrupted EXCEPT ![t] = Started]
         /\ alphaThread' = t

-----------------------------------------------------------------------------
(* The main thread *)

ActionDown ==
    /\ finger = "up"
    /\ finger' = "down"
    /\ hasMoveSun' = FALSE
    /\ InterruptThread
    /\ UNCHANGED focusAlpha

\* A move up or down along the shown frame moves the sun: startMoveSun.
MoveSun ==
    /\ finger # "up"
    /\ focusAlpha > 0
    /\ hasMoveSun' = TRUE
    /\ finger' = "down"
    /\ StartAlphaThread

\* Any other move past a shown frame leaves a tap what it is, however far to the
\* side it goes.
Drag ==
    /\ finger # "up"
    /\ ~hasMoveSun
    /\ focusAlpha > 0
    /\ finger' = "dragged"
    /\ UNCHANGED <<focusAlpha, alphaThread, hasMoveSun, fader>>

\* A move with no frame shown is a gesture of its own, not a tap.
Swipe ==
    /\ finger # "up"
    /\ focusAlpha <= 0
    /\ hasMoveSun' = TRUE
    /\ finger' = "down"
    /\ UNCHANGED <<focusAlpha, alphaThread, fader>>

\* ACTION_UP of a tap shows the frame.
Tap ==
    /\ finger # "up"
    /\ ~hasMoveSun
    /\ finger' = "up"
    /\ StartAlphaThread
    /\ UNCHANGED hasMoveSun

\* ACTION_UP of another gesture, and ACTION_CANCEL.
EndGesture ==
    /\ finger # "up"
    /\ finger' = "up"
    /\ UNCHANGED <<focusAlpha, alphaThread, hasMoveSun, fader>>

HideFocus ==
    /\ focusAlpha > 0
    /\ InterruptThread
    /\ focusAlpha' = 0
    /\ UNCHANGED <<hasMoveSun, finger>>

OnDetachedFromWindow ==
    /\ InterruptThread
    /\ UNCHANGED <<focusAlpha, hasMoveSun, finger>>

-----------------------------------------------------------------------------
(* A fading thread *)

Step(t, pc) == fader[t].pc = pc
Exit(t) == fader' = [fader EXCEPT ![t] = Dead]

\* It reads the clock, which went on while it slept, by any time, and shows the
\* frame as it is then.  One step: nobody else knows of the time it read.
Fade(t) ==
    /\ Step(t, "awake")
    /\ \E now \in Moments :
         /\ now > fader[t].deltaTime
         /\ fader' = [fader EXCEPT ![t].pc = "asleep", ![t].deltaTime = now]
         /\ focusAlpha' = Alpha(now)

\* An interrupt is noticed by the sleep only, also one that came before it.
Sleep(t) ==
    /\ Step(t, "asleep")
    /\ IF fader[t].interrupted \/ fader[t].deltaTime >= FOCUS_SHOW_TIME THEN Exit(t)
       ELSE fader' = [fader EXCEPT ![t].pc = "awake"]
    /\ UNCHANGED focusAlpha

FaderStep(t) ==
    /\ Fade(t) \/ Sleep(t)
    /\ UNCHANGED <<alphaThread, hasMoveSun, finger>>

Touch == ActionDown \/ MoveSun \/ Drag \/ Swipe \/ Tap \/ EndGesture

FocusNext == Touch \/ HideFocus \/ OnDetachedFromWindow \/ \E t \in Faders : FaderStep(t)

FocusSpec == FocusInit /\ [][FocusNext]_focusVars

-----------------------------------------------------------------------------
(* Properties *)

\* startAlphaThread and interruptThread leave no second thread to itself: all
\* threads but alphaThread are interrupted, so two never fade in turns for long.
OneFader == \A t \in Faders : Alive(t) /\ t # alphaThread => fader[t].interrupted
=============================================================================
