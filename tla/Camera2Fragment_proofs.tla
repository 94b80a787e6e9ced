------------------------ MODULE Camera2Fragment_proofs ------------------------
(* Theorems about the fragment for system cameras and its focus view, for any *)
(* number of fading threads, any show time and any sizes.                     *)
EXTENDS Camera2Fragment, TLAPS

-----------------------------------------------------------------------------
(* The focus view *)

\* A thread that sleeps has read the clock; one that is awake has not yet read
\* that the time of the frame is over.
ClockRead ==
    \A t \in Faders :
        /\ fader[t].pc = "asleep" => fader[t].deltaTime \in Moments
        /\ fader[t].pc = "awake" => fader[t].deltaTime < FOCUS_SHOW_TIME

FocusInv == FocusTypeOK /\ OneFader /\ ClockRead

\* What a fading thread shows is visible as long as the time of the frame is not
\* over, and no longer; a late look at the clock gives a negative value.
LEMMA AlphaRange ==
    ASSUME NEW t \in Moments
    PROVE  Alpha(t) \in Int /\ Alpha(t) <= Opaque /\ (Alpha(t) > 0 <=> t < FOCUS_SHOW_TIME)
<1> DEFINE q == (t * Opaque) \div FOCUS_SHOW_TIME
<1>1. t \in Nat /\ FOCUS_SHOW_TIME \in Nat \ {0}
  BY FocusAssumption DEF Moments
<1>2. /\ q \in Int /\ 0 <= q
      /\ FOCUS_SHOW_TIME * q <= t * Opaque /\ t * Opaque < FOCUS_SHOW_TIME * q + FOCUS_SHOW_TIME
  BY <1>1, SMT DEF Opaque
<1>3. ASSUME t < FOCUS_SHOW_TIME PROVE q < Opaque
  <2>1. SUFFICES ASSUME q >= Opaque PROVE FALSE
    BY <1>2 DEF Opaque
  <2>2. FOCUS_SHOW_TIME * q >= FOCUS_SHOW_TIME * Opaque
    BY <1>1, <1>2, <2>1, SMT DEF Opaque
  <2> QED BY <1>1, <1>2, <1>3, <2>2, SMT DEF Opaque
<1>4. ASSUME t >= FOCUS_SHOW_TIME PROVE q >= Opaque
  <2>1. SUFFICES ASSUME q + 1 <= Opaque PROVE FALSE
    BY <1>2 DEF Opaque
  <2>2. FOCUS_SHOW_TIME * (q + 1) <= FOCUS_SHOW_TIME * Opaque
    BY <1>1, <1>2, <2>1, SMT DEF Opaque
  <2>3. FOCUS_SHOW_TIME * (q + 1) = FOCUS_SHOW_TIME * q + FOCUS_SHOW_TIME
    BY <1>1, <1>2, SMT
  <2> QED BY <1>1, <1>2, <1>4, <2>2, <2>3, SMT DEF Opaque
<1>5. Alpha(t) = Opaque - q
  BY DEF Alpha
<1> HIDE DEF q
<1> QED BY <1>1, <1>2, <1>3, <1>4, <1>5 DEF Opaque

LEMMA FaderTypes == Dead \in FaderStates /\ Started \in FaderStates
<1> QED BY DEF Dead, Started, FaderStates

LEMMA FocusInitInv == FocusInit => FocusInv
<1> SUFFICES ASSUME FocusInit PROVE FocusInv
  OBVIOUS
<1>1. fader \in [Faders -> FaderStates]
  BY FaderTypes DEF FocusInit
<1>2. \A t \in Faders : fader[t].pc = "dead"
  BY DEF FocusInit, Dead
<1>3. OneFader /\ ClockRead
  BY <1>2 DEF OneFader, ClockRead, Alive
<1>4. focusAlpha \in Int /\ focusAlpha <= Opaque
  BY DEF FocusInit, Opaque
<1> QED BY <1>1, <1>3, <1>4 DEF FocusInit, FocusInv, FocusTypeOK

\* startAlphaThread interrupts the thread it replaces, and every other thread was
\* interrupted before.
LEMMA StartsOne ==
    ASSUME FocusInv, StartAlphaThread,
           hasMoveSun' \in BOOLEAN, finger' \in {"up", "down", "dragged"}
    PROVE  FocusInv'
<1> USE FocusAssumption DEF FocusInv, FocusTypeOK, OneFader, ClockRead, Alive
<1>1. PICK t \in Faders : ~Alive(t) /\ fader' = [Interrupted EXCEPT ![t] = Started] /\ alphaThread' = t
  BY DEF StartAlphaThread
<1>2. Interrupted \in [Faders -> FaderStates]
  BY DEF Interrupted, Interruptible, FaderStates
<1>3. \A u \in Faders :
        /\ Interrupted[u].pc # "dead" => Interrupted[u].interrupted
        /\ Interrupted[u].pc = "asleep" => Interrupted[u].deltaTime \in Moments
        /\ Interrupted[u].pc = "awake" => Interrupted[u].deltaTime < FOCUS_SHOW_TIME
  BY DEF Interrupted, Interruptible, FaderStates
<1>4. Started \in FaderStates /\ Started.pc = "awake" /\ Started.deltaTime = -1
  BY FaderTypes DEF Started, Dead
<1>5. focusAlpha' = Opaque
  BY DEF StartAlphaThread
<1> QED BY <1>1, <1>2, <1>3, <1>4, <1>5 DEF Opaque

LEMMA InterruptsOne ==
    ASSUME FocusInv, InterruptThread, focusAlpha' \in {0, focusAlpha},
           hasMoveSun' \in BOOLEAN, finger' \in {"up", "down", "dragged"}
    PROVE  FocusInv'
<1> USE FocusAssumption DEF FocusInv, FocusTypeOK, OneFader, ClockRead, Alive, InterruptThread,
          Interrupted, Interruptible
<1>1. fader' \in [Faders -> FaderStates] /\ alphaThread' \in Faders \cup {NoThread}
  BY DEF FaderStates
<1>2. OneFader' /\ ClockRead'
  BY DEF FaderStates
<1> QED BY <1>1, <1>2 DEF Opaque

LEMMA FaderKeepsInv ==
    ASSUME FocusInv, NEW t \in Faders, FaderStep(t)
    PROVE  FocusInv'
<1> USE FocusAssumption DEF FocusInv, FocusTypeOK, OneFader, ClockRead, Alive, FaderStep, Step, Exit
<1>1. CASE Fade(t)
  <2>1. PICK now \in Moments :
          /\ fader' = [fader EXCEPT ![t].pc = "asleep", ![t].deltaTime = now]
          /\ focusAlpha' = Alpha(now)
    BY <1>1 DEF Fade
  <2>2. fader' \in [Faders -> FaderStates]
    BY <2>1 DEF FaderStates
  <2>3. OneFader'
    BY <1>1, <2>1 DEF Fade, FaderStates
  <2>4. ClockRead'
    BY <2>1 DEF FaderStates
  <2>5. focusAlpha' \in Int /\ focusAlpha' <= Opaque
    BY <2>1, AlphaRange
  <2> QED BY <1>1, <2>2, <2>3, <2>4, <2>5
<1>2. CASE Sleep(t)
  <2>1. CASE fader' = [fader EXCEPT ![t] = Dead]
    BY <1>2, <2>1, FaderTypes DEF Sleep, Dead
  <2>2. CASE /\ fader[t].deltaTime < FOCUS_SHOW_TIME
             /\ fader' = [fader EXCEPT ![t].pc = "awake"]
    <3>1. fader' \in [Faders -> FaderStates]
      BY <2>2 DEF FaderStates
    <3>2. OneFader' /\ ClockRead'
      BY <1>2, <2>2 DEF Sleep, FaderStates
    <3> QED BY <1>2, <3>1, <3>2 DEF Sleep
  <2>3. fader[t].deltaTime \in Moments
    BY <1>2 DEF Sleep
  <2> QED BY <1>2, <2>1, <2>2, <2>3 DEF Sleep, Moments
<1> QED BY <1>1, <1>2

\* The focus view keeps its invariant, also when a new one takes its place.
LEMMA FocusStep ==
    ASSUME FocusInv, FocusNext \/ FocusInit' \/ UNCHANGED focusVars
    PROVE  FocusInv'
<1> USE DEF FocusInv, FocusTypeOK
<1>1. CASE ActionDown
  BY <1>1, InterruptsOne DEF ActionDown
<1>2. CASE MoveSun
  BY <1>2, StartsOne DEF MoveSun
<1>3. CASE Swipe
  BY <1>3 DEF Swipe, OneFader, ClockRead, Alive
<1>4. CASE Tap
  BY <1>4, StartsOne DEF Tap
<1>5. CASE EndGesture
  BY <1>5 DEF EndGesture, OneFader, ClockRead, Alive
<1>6. CASE HideFocus
  BY <1>6, InterruptsOne DEF HideFocus
<1>7. CASE OnDetachedFromWindow
  BY <1>7, InterruptsOne DEF OnDetachedFromWindow
<1>8. CASE \E t \in Faders : FaderStep(t)
  BY <1>8, FaderKeepsInv
<1>9. CASE FocusInit'
  <2>1. FocusInit' => FocusInv'
    BY FocusInitInv, PTL
  <2> QED BY <1>9, <2>1
<1>10. CASE Drag
  BY <1>10 DEF Drag, OneFader, ClockRead, Alive
<1>11. CASE UNCHANGED focusVars
  BY <1>11 DEF focusVars, OneFader, ClockRead, Alive
<1> QED
  BY <1>1, <1>2, <1>3, <1>4, <1>5, <1>6, <1>7, <1>8, <1>9, <1>10, <1>11 DEF FocusNext, Touch

-----------------------------------------------------------------------------
(* The steps of the composition, as the focus view sees them *)

LEMMA FocusOfCamera2 ==
    ASSUME [Camera2Next]_allVars
    PROVE  FocusNext \/ FocusInit' \/ UNCHANGED focusVars
<1>1. CASE OnViewCreated \/ OnSurfaceTextureAvailable \/ RunPosted
           \/ AnswerOpen \/ LoseCamera \/ CaptureImage \/ UNCHANGED allVars
  BY <1>1 DEF OnViewCreated, OnSurfaceTextureAvailable, RunPosted, AnswerOpen, LoseCamera,
              CaptureImage, allVars
<1>2. CASE OnDestroy
  BY <1>2 DEF OnDestroy, FocusNext
<1>3. CASE Reopen
  BY <1>3 DEF Reopen, FocusInit
<1>4. CASE TouchView
  BY <1>4 DEF TouchView, FocusNext, Touch
<1>5. CASE \E t \in Faders : FadeFrame(t)
  BY <1>5 DEF FadeFrame, FocusNext
<1> QED BY <1>1, <1>2, <1>3, <1>4, <1>5 DEF Camera2Next

\* At most one fading thread is left to itself, however taps, moves, hideFocus
\* and detaching follow one another.
THEOREM SingleFader == Camera2Spec => []OneFader
<1>1. Camera2Init => FocusInv
  BY FocusInitInv DEF Camera2Init
<1>2. FocusInv /\ [Camera2Next]_allVars => FocusInv'
  BY FocusStep, FocusOfCamera2
<1>3. FocusInv => OneFader
  BY DEF FocusInv
<1> QED BY <1>1, <1>2, <1>3, PTL DEF Camera2Spec

-----------------------------------------------------------------------------
(* How long a frame fades *)

\* The rounds of the loop, one for each unit of time until that of the frame is
\* over, and the steps a fading thread may still take.
Rounds(deltaTime) == IF deltaTime < FOCUS_SHOW_TIME THEN FOCUS_SHOW_TIME - deltaTime ELSE 0
Left(t) ==
    CASE fader[t].pc = "dead"   -> 0
      [] fader[t].pc = "asleep" -> 2 * Rounds(fader[t].deltaTime) + 1
      [] OTHER                  -> 2 * Rounds(fader[t].deltaTime)

\* What no step may do to a thread that fades: it never has more steps left than
\* it had, whatever the touches and the other threads do, and fewer after a step
\* of its own; and it comes to its end, if nobody interrupts it, only once what it
\* has shown is no longer visible.
FadingIsBounded == [][
    \A t \in Faders : Alive(t) =>
        /\ Left(t) \in 1 .. 2 * FOCUS_SHOW_TIME + 2
        /\ Left(t)' <= Left(t)
        /\ FaderStep(t) => Left(t)' < Left(t)
        /\ FaderStep(t) /\ ~fader[t].interrupted /\ fader'[t].pc = "dead" =>
             Alpha(fader[t].deltaTime) <= 0]_allVars

LEMMA RoundsRange ==
    ASSUME NEW d \in {-1} \cup Moments
    PROVE  /\ Rounds(d) \in 0 .. FOCUS_SHOW_TIME + 1
           /\ d < FOCUS_SHOW_TIME => Rounds(d) >= 1
<1> QED BY FocusAssumption DEF Rounds, Moments

LEMMA RoundsFall ==
    ASSUME NEW d \in {-1} \cup Moments, NEW now \in Moments, d < FOCUS_SHOW_TIME, now > d
    PROVE  Rounds(now) \in Nat /\ Rounds(now) + 1 <= Rounds(d)
<1> QED BY FocusAssumption DEF Rounds, Moments

LEMMA LeftRange ==
    ASSUME FocusInv, NEW t \in Faders, Alive(t)
    PROVE  Left(t) \in 1 .. 2 * FOCUS_SHOW_TIME + 2
<1> DEFINE d == fader[t].deltaTime
<1>1. fader[t].pc \in {"awake", "asleep"} /\ d \in {-1} \cup Moments
  BY DEF FocusInv, FocusTypeOK, FaderStates, Alive
<1>2. CASE fader[t].pc = "awake"
  <2>1. Left(t) = 2 * Rounds(d)
    BY <1>2 DEF Left
  <2>2. d < FOCUS_SHOW_TIME
    BY <1>2 DEF FocusInv, ClockRead
  <2>3. Rounds(d) \in 0 .. FOCUS_SHOW_TIME + 1 /\ Rounds(d) >= 1
    BY <1>1, <2>2, RoundsRange
  <2> HIDE DEF d
  <2> QED BY <2>1, <2>3, FocusAssumption
<1>3. CASE fader[t].pc = "asleep"
  <2>1. Left(t) = 2 * Rounds(d) + 1
    BY <1>3 DEF Left
  <2>2. d \in Moments
    BY <1>3 DEF FocusInv, ClockRead
  <2>3. Rounds(d) \in 0 .. FOCUS_SHOW_TIME
    BY <2>2, FocusAssumption DEF Rounds, Moments
  <2> HIDE DEF d
  <2> QED BY <2>1, <2>3, FocusAssumption
<1> QED BY <1>1, <1>2, <1>3

\* A step of the thread itself.
LEMMA OwnStep ==
    ASSUME FocusInv, NEW t \in Faders, FaderStep(t)
    PROVE  /\ Alive(t)
           /\ Left(t)' < Left(t)
           /\ ~fader[t].interrupted /\ fader'[t].pc = "dead" => Alpha(fader[t].deltaTime) <= 0
           /\ \A u \in Faders \ {t} : fader'[u] = fader[u]
<1> DEFINE d == fader[t].deltaTime
<1>1. fader \in [Faders -> FaderStates] /\ fader[t] \in FaderStates /\ d \in {-1} \cup Moments
  BY DEF FocusInv, FocusTypeOK, FaderStates
<1>2. Rounds(d) \in Nat
  BY <1>1, FocusAssumption DEF Rounds, Moments
<1>3. CASE Fade(t)
  <2>1. PICK now \in Moments :
          /\ now > d
          /\ fader' = [fader EXCEPT ![t].pc = "asleep", ![t].deltaTime = now]
    BY <1>3 DEF Fade
  <2>2. /\ fader[t].pc = "awake"
        /\ fader'[t].pc = "asleep"
        /\ fader'[t].deltaTime = now
        /\ \A u \in Faders \ {t} : fader'[u] = fader[u]
    BY <1>1, <1>3, <2>1 DEF Fade, Step, FaderStates
  <2>3. Left(t) = 2 * Rounds(d) /\ Left(t)' = 2 * Rounds(now) + 1
    BY <2>2 DEF Left, Rounds
  <2>4. d < FOCUS_SHOW_TIME
    BY <2>2 DEF FocusInv, ClockRead
  <2>5. Rounds(now) \in Nat /\ Rounds(now) + 1 <= Rounds(d)
    BY <1>1, <2>1, <2>4, RoundsFall
  <2> QED BY <1>2, <2>2, <2>3, <2>5 DEF Alive
<1>4. CASE Sleep(t) /\ fader' = [fader EXCEPT ![t].pc = "awake"]
  <2>1. /\ fader[t].pc = "asleep"
        /\ fader'[t].pc = "awake"
        /\ fader'[t].deltaTime = d
        /\ \A u \in Faders \ {t} : fader'[u] = fader[u]
    BY <1>1, <1>4 DEF Sleep, Step, FaderStates
  <2>2. Left(t) = 2 * Rounds(d) + 1 /\ Left(t)' = 2 * Rounds(d)
    BY <2>1 DEF Left, Rounds
  <2> QED BY <1>2, <2>1, <2>2 DEF Alive
<1>5. CASE Sleep(t) /\ fader' = [fader EXCEPT ![t] = Dead]
               /\ (fader[t].interrupted \/ d >= FOCUS_SHOW_TIME)
  <2>1. /\ fader[t].pc = "asleep"
        /\ fader'[t].pc = "dead"
        /\ \A u \in Faders \ {t} : fader'[u] = fader[u]
    BY <1>1, <1>5 DEF Sleep, Step, Dead
  <2>2. Left(t)' = 0 /\ Left(t) = 2 * Rounds(d) + 1
    BY <2>1 DEF Left
  <2>3. d \in Moments
    BY <2>1 DEF FocusInv, ClockRead
  <2>4. ~fader[t].interrupted => Alpha(d) <= 0
    <3>1. SUFFICES ASSUME d >= FOCUS_SHOW_TIME PROVE Alpha(d) <= 0
      BY <1>5
    <3>2. Alpha(d) \in Int /\ ~(Alpha(d) > 0)
      BY <2>3, <3>1, AlphaRange, FocusAssumption DEF Moments
    <3> QED BY <3>2
  <2> QED BY <1>2, <2>1, <2>2, <2>4 DEF Alive
<1> QED BY <1>3, <1>4, <1>5 DEF FaderStep, Sleep, Exit

\* Whatever the main thread does, a thread that fades is where it was.
LEMMA OtherSteps ==
    ASSUME FocusInv, NEW t \in Faders, Alive(t),
           \/ Touch \/ HideFocus \/ OnDetachedFromWindow
           \/ UNCHANGED focusVars
    PROVE  fader'[t].pc = fader[t].pc /\ fader'[t].deltaTime = fader[t].deltaTime
<1>1. fader \in [Faders -> FaderStates]
  BY DEF FocusInv, FocusTypeOK
<1>2. Interrupted[t].pc = fader[t].pc /\ Interrupted[t].deltaTime = fader[t].deltaTime
      /\ Interrupted \in [Faders -> FaderStates]
  BY <1>1 DEF Interrupted, Interruptible, FaderStates
<1>3. CASE fader' = fader
  BY <1>3
<1>4. CASE fader' = Interrupted
  BY <1>2, <1>4
<1>5. ASSUME NEW u \in Faders, ~Alive(u), fader' = [Interrupted EXCEPT ![u] = Started]
      PROVE  fader'[t].pc = fader[t].pc /\ fader'[t].deltaTime = fader[t].deltaTime
  BY <1>2, <1>5
<1> QED
  BY <1>3, <1>4, <1>5 DEF Touch, ActionDown, MoveSun, Drag, Swipe, Tap, EndGesture, HideFocus,
     OnDetachedFromWindow, InterruptThread, StartAlphaThread, focusVars

\* The loop of startAlphaThread ends after so many rounds, for any show time and
\* however taps, moves and interrupts meet it: no thread is left over that fades
\* for ever.  What TLC adds is only that the thread goes on.
THEOREM FadingEnds == Camera2Spec => FadingIsBounded
<1>1. FocusInv /\ [Camera2Next]_allVars =>
        \A t \in Faders : Alive(t) =>
          /\ Left(t) \in 1 .. 2 * FOCUS_SHOW_TIME + 2
          /\ Left(t)' <= Left(t)
          /\ FaderStep(t) => Left(t)' < Left(t)
          /\ FaderStep(t) /\ ~fader[t].interrupted /\ fader'[t].pc = "dead" =>
               Alpha(fader[t].deltaTime) <= 0
  <2>1. SUFFICES ASSUME FocusInv, [Camera2Next]_allVars, NEW t \in Faders, Alive(t)
                 PROVE  /\ Left(t) \in 1 .. 2 * FOCUS_SHOW_TIME + 2
                        /\ Left(t)' <= Left(t)
                        /\ FaderStep(t) => Left(t)' < Left(t)
                        /\ FaderStep(t) /\ ~fader[t].interrupted /\ fader'[t].pc = "dead" =>
                             Alpha(fader[t].deltaTime) <= 0
    OBVIOUS
  <2>2. Left(t) \in 1 .. 2 * FOCUS_SHOW_TIME + 2 /\ FOCUS_SHOW_TIME \in Nat
    BY <2>1, LeftRange, FocusAssumption
  <2>3. CASE FaderStep(t)
    <3>1. Left(t)' < Left(t)
          /\ (~fader[t].interrupted /\ fader'[t].pc = "dead" => Alpha(fader[t].deltaTime) <= 0)
      BY <2>1, <2>3, OwnStep
    <3>2. Left(t)' \in Int
      <4>1. FocusInv'
        BY <2>1, FocusStep, FocusOfCamera2
      <4>2. (FocusInv /\ Alive(t) => Left(t) \in 1 .. 2 * FOCUS_SHOW_TIME + 2)'
        BY LeftRange, PTL
      <4>3. fader'[t].pc = "dead" => Left(t)' = 0
        BY DEF Left
      <4> QED BY <2>2, <4>1, <4>2, <4>3 DEF Alive
    <3> QED BY <2>2, <2>3, <3>1, <3>2
  <2>4. CASE ~FaderStep(t)
    <3>1. CASE fader'[t].pc = fader[t].pc /\ fader'[t].deltaTime = fader[t].deltaTime
      <4>1. Left(t)' = Left(t)
        BY <3>1 DEF Left
      <4> QED BY <2>2, <2>4, <3>1, <4>1
    <3>2. CASE FocusInit'
      <4>1. fader'[t].pc = "dead"
        BY <3>2 DEF FocusInit, Dead
      <4>2. Left(t)' = 0
        BY <4>1 DEF Left
      <4> QED BY <2>2, <2>4, <4>1, <4>2
    <3>3. ASSUME NEW u \in Faders, FaderStep(u) PROVE fader'[t] = fader[t]
      BY <2>1, <2>4, <3>3, OwnStep
    <3> QED BY <2>1, <3>1, <3>2, <3>3, OtherSteps, FocusOfCamera2 DEF FocusNext
  <2> QED BY <2>3, <2>4
<1>2. Camera2Spec => []FocusInv
  <2>1. Camera2Init => FocusInv
    BY FocusInitInv DEF Camera2Init
  <2>2. FocusInv /\ [Camera2Next]_allVars => FocusInv'
    BY FocusStep, FocusOfCamera2
  <2> QED BY <2>1, <2>2, PTL DEF Camera2Spec
<1> QED BY <1>1, <1>2, PTL DEF Camera2Spec, FadingIsBounded

-----------------------------------------------------------------------------
(* The fragment and the camera *)

\* Where the fragment is in its life, its surface, and what it knows of the
\* device agree.
OwnershipInv ==
    /\ fragment.surface = "available" => fragment.lifecycle \in {"viewed", "crashed"}
    /\ fragment.cameraDevice = "camera" /\ fragment.lifecycle = "viewed" =>
         camera.device # "closed"
    /\ fragment.lifecycle = "attached" => fragment.cameraDevice = "null"
    /\ fragment.lifecycle \in {"attached", "crashed"} => posted = <<>> /\ camera = ClosedCamera
    /\ fragment.lifecycle # "crashed" => fragment.crash = "none"
    /\ DeviceIsOwned

LEMMA FragmentTypes ==
    /\ NoSize \in PreviewSizes \cup {NoSize}
    /\ \A offered \in SUBSET PreviewSizes, wanted \in PreviewSizes :
         FindPreviewSize(offered, wanted) \in PreviewSizes \cup {NoSize}
    /\ TemplatePreview \in Requests
    /\ \A request \in Requests : /\ request # NoRequest
                                 /\ [request EXCEPT !.afTrigger = "idle"] \in Requests
                                 /\ \A e \in Exposures : [request EXCEPT !.exposure = e] \in Requests
    /\ \A e \in Exposures : [afTrigger |-> "start", exposure |-> e] \in Requests
<1> QED BY DEF FindPreviewSize, TemplatePreview, Requests, NoRequest, Exposures

\* What a division keeps.
LEMMA Quotients ==
    ASSUME NEW d \in Nat \ {0}, NEW a \in Int, NEW b \in Int, a <= b
    PROVE  /\ a \div d \in Int /\ b \div d \in Int /\ a \div d <= b \div d
           /\ 0 <= b => 0 <= b \div d
           /\ b <= d * d => b \div d <= d
<1> DEFINE p == a \div d
           q == b \div d
<1>1. p \in Int /\ d * p <= a /\ a < d * (p + 1)
  BY SMT
<1>2. q \in Int /\ d * q <= b /\ b < d * (q + 1)
  BY SMT
<1> HIDE DEF p, q
<1>3. p <= q
  <2>1. SUFFICES ASSUME q + 1 <= p PROVE FALSE
    BY <1>1, <1>2
  <2>2. d * (q + 1) <= d * p
    BY <1>1, <1>2, <2>1, SMT
  <2> QED BY <1>1, <1>2, <2>2, SMT
<1>4. ASSUME 0 <= b PROVE 0 <= q
  <2>1. SUFFICES ASSUME q + 1 <= 0 PROVE FALSE
    BY <1>2
  <2>2. d * (q + 1) <= 0
    BY <1>2, <2>1, SMT
  <2> QED BY <1>2, <1>4, <2>2, SMT
<1>5. ASSUME b <= d * d PROVE q <= d
  <2>1. SUFFICES ASSUME q >= d + 1 PROVE FALSE
    BY <1>2
  <2>2. d * q >= d * (d + 1) /\ d * (d + 1) = d * d + d
    BY <1>2, <2>1, SMT
  <2> QED BY <1>2, <1>5, <2>2, SMT
<1> QED BY <1>1, <1>2, <1>3, <1>4, <1>5 DEF p, q

\* The edges around a place that is at most AreaSize outside a view of this limit.
LEMMA EdgesInOrder ==
    ASSUME NEW limit \in Nat \ {0}, NEW n \in Int,
           n + AreaSize * limit >= 0, n - AreaSize * limit <= limit * limit
    PROVE  LowEdge(n, limit) <= HighEdge(n, limit, limit)
<1> DEFINE low == n - AreaSize * limit
           high == n + AreaSize * limit
<1>1. low \in Int /\ high \in Int /\ low <= high /\ 0 <= high /\ low <= limit * limit
  BY SMT DEF AreaSize
<1>2. Truncated(high, limit) = high \div limit
  BY <1>1 DEF Truncated
<1>3. low > 0 <=> n > AreaSize * limit
  BY SMT DEF AreaSize
<1>4. LowEdge(n, limit) = IF low > 0 THEN low \div limit ELSE 0
  BY <1>3 DEF LowEdge
<1>5. HighEdge(n, limit, limit) = IF high \div limit < limit THEN high \div limit ELSE limit
  BY <1>2 DEF HighEdge
<1> HIDE DEF low, high
<1>6. /\ low \div limit \in Int /\ low \div limit <= limit
      /\ high \div limit \in Int /\ 0 <= high \div limit
      /\ low \div limit <= high \div limit
  BY <1>1, Quotients
<1> QED BY <1>4, <1>5, <1>6

\* A place little outside the view is little outside a preview that fits.
LEMMA ScaledTap ==
    ASSUME NEW limit \in Nat \ {0}, NEW length \in 0 .. limit,
           NEW x \in -TapSlop .. limit + TapSlop
    PROVE  /\ x * length \in Int
           /\ x * length + AreaSize * limit >= 0
           /\ x * length - AreaSize * limit <= limit * limit
<1>1. TapSlop \in Nat /\ TapSlop <= AreaSize /\ length \in Nat /\ x \in Int
  BY SizeAssumption DEF AreaSize
<1>2. TapSlop * length \in Nat /\ TapSlop * length <= AreaSize * limit
  <2>1. TapSlop * length <= AreaSize * length
    BY <1>1, SMT DEF AreaSize
  <2>2. AreaSize * length <= AreaSize * limit
    BY <1>1, SMT DEF AreaSize
  <2> QED BY <1>1, <2>1, <2>2, SMT DEF AreaSize
<1>3. x * length \in Int /\ x * length >= -(TapSlop * length)
  <2>1. (x + TapSlop) * length >= 0
    BY <1>1, SMT
  <2>2. (x + TapSlop) * length = x * length + TapSlop * length
    BY <1>1, SMT
  <2> QED BY <1>1, <2>1, <2>2, SMT
<1>4. x * length <= limit * limit + AreaSize * limit
  <2>1. (limit + TapSlop - x) * length >= 0
    BY <1>1, SMT
  <2>2. (limit + TapSlop - x) * length = limit * length + TapSlop * length - x * length
    BY <1>1, SMT
  <2>3. limit * length <= limit * limit
    BY <1>1, SMT
  <2> QED BY <1>1, <1>2, <1>3, <2>1, <2>2, <2>3, SMT DEF AreaSize
<1>5. AreaSize * limit \in Int /\ limit * limit \in Int
  BY SMT DEF AreaSize
<1> QED BY <1>2, <1>3, <1>4, <1>5, SMT

\* A preview that fits the view has an area for each tap in it or little outside.
LEMMA TapHasArea ==
    ASSUME NEW preview \in PreviewSizes \cup {NoSize}, NEW view \in ViewSizes,
           NEW x \in -TapSlop .. view.width + TapSlop,
           NEW y \in -TapSlop .. view.height + TapSlop,
           Turned(preview, view).width <= view.width,
           Turned(preview, view).height <= view.height
    PROVE  IsRectangle(MeteringArea(x, y, preview, view))
<1> DEFINE lying == Turned(preview, view)
           n == x * lying.width
           m == y * lying.height
<1>1. view.width \in Nat \ {0} /\ view.height \in Nat \ {0}
  BY SizeAssumption
<1>2. preview.width \in Nat /\ preview.height \in Nat
  BY SizeAssumption DEF NoSize
<1>3. lying.width \in 0 .. view.width /\ lying.height \in 0 .. view.height
  BY <1>1, <1>2 DEF Turned
<1>4. /\ MeteringArea(x, y, preview, view).left = LowEdge(n, view.width)
      /\ MeteringArea(x, y, preview, view).right = HighEdge(n, view.width, view.width)
      /\ MeteringArea(x, y, preview, view).top = LowEdge(m, view.height)
      /\ MeteringArea(x, y, preview, view).bottom = HighEdge(m, view.height, view.height)
  BY DEF MeteringArea
<1> HIDE DEF lying
<1>5. LowEdge(n, view.width) <= HighEdge(n, view.width, view.width)
  BY <1>1, <1>3, ScaledTap, EdgesInOrder
<1>6. LowEdge(m, view.height) <= HighEdge(m, view.height, view.height)
  BY <1>1, <1>3, ScaledTap, EdgesInOrder
<1> QED BY <1>4, <1>5, <1>6 DEF IsRectangle

\* A tap that was not dragged aside ends there.
LEMMA TapsNearby ==
    ASSUME NEW length \in Nat, NEW x \in Along(length)
    PROVE  x \in -TapSlop .. length + TapSlop
<1> QED BY SizeAssumption DEF Along

\* A callback that is posted stays so until it runs.
LEMMA StaysPosted ==
    ASSUME NEW s \in Seq(Callbacks), NEW c \in Callbacks,
           \E i \in 1 .. Len(s) : s[i] = c
    PROVE  /\ \A d \in Callbacks : \E i \in 1 .. Len(Append(s, d)) : Append(s, d)[i] = c
           /\ s # <<>> /\ Head(s) # c => \E i \in 1 .. Len(Tail(s)) : Tail(s)[i] = c
<1>1. PICK i \in 1 .. Len(s) : s[i] = c
  OBVIOUS
<1>2. ASSUME NEW d \in Callbacks
      PROVE  i \in 1 .. Len(Append(s, d)) /\ Append(s, d)[i] = c
  BY <1>1
<1>3. ASSUME s # <<>>, Head(s) # c
      PROVE  i - 1 \in 1 .. Len(Tail(s)) /\ Tail(s)[i - 1] = c
  BY <1>1, <1>3
<1> QED BY <1>2, <1>3

Causes == {"onOpened", "onConfigured", "image", "padding", "request", "range", "area"}

\* The fragment, the camera and the looper without the focus view.
FragmentType ==
    [lifecycle    : {"attached", "viewed", "destroyed", "crashed"},
     useFocus     : BOOLEAN,
     frames       : {"unused", "ignored", "heard"},
     size         : PreviewSizes \cup {NoSize},
     view         : ViewSizes,
     rows         : {"exact", "padded"},
     surface      : {"none", "available"},
     cameraDevice : {"null", "camera"},
     session      : {"null", "session"},
     builder      : Requests \cup {NoRequest},
     reader       : {"null", "reader"},
     told         : {"nothing", "opened", "failed"},
     crash        : {"none"} \cup Causes]

CameraType ==
    [device    : {"closed", "opening", "open", "lost", "disconnected"},
     repeating : Requests \cup {NoRequest},
     images    : 0 .. MaxImages]

FragmentTypeOK == fragment \in FragmentType /\ camera \in CameraType /\ posted \in Seq(Callbacks)

Camera2Inv == FragmentTypeOK /\ OwnershipInv

\* Assigning a field a value of its type.
LEMMA FieldTypes ==
    ASSUME NEW f \in FragmentType
    PROVE  /\ \A v \in {"attached", "viewed", "destroyed", "crashed"} :
                [f EXCEPT !.lifecycle = v] \in FragmentType
           /\ [f EXCEPT !.size = NoSize] \in FragmentType
           /\ \A v \in {"none", "available"} : [f EXCEPT !.surface = v] \in FragmentType
           /\ \A v \in {"null", "camera"} : [f EXCEPT !.cameraDevice = v] \in FragmentType
           /\ \A v \in {"null", "session"} : [f EXCEPT !.session = v] \in FragmentType
           /\ \A v \in Requests \cup {NoRequest} : [f EXCEPT !.builder = v] \in FragmentType
           /\ \A v \in {"null", "reader"} : [f EXCEPT !.reader = v] \in FragmentType
           /\ \A v \in {"nothing", "opened", "failed"} : [f EXCEPT !.told = v] \in FragmentType
           /\ \A v \in {"none"} \cup Causes : [f EXCEPT !.crash = v] \in FragmentType
<1>1. \A v \in {"attached", "viewed", "destroyed", "crashed"} :
        [f EXCEPT !.lifecycle = v] \in FragmentType
  BY DEF FragmentType
<1>2. [f EXCEPT !.size = NoSize] \in FragmentType
  BY DEF FragmentType
<1>3. \A v \in {"none", "available"} : [f EXCEPT !.surface = v] \in FragmentType
  BY DEF FragmentType
<1>4. \A v \in {"null", "camera"} : [f EXCEPT !.cameraDevice = v] \in FragmentType
  BY DEF FragmentType
<1>5. \A v \in {"null", "session"} : [f EXCEPT !.session = v] \in FragmentType
  BY DEF FragmentType
<1>6. \A v \in Requests \cup {NoRequest} : [f EXCEPT !.builder = v] \in FragmentType
  BY DEF FragmentType
<1>7. \A v \in {"null", "reader"} : [f EXCEPT !.reader = v] \in FragmentType
  BY DEF FragmentType
<1>8. \A v \in {"nothing", "opened", "failed"} : [f EXCEPT !.told = v] \in FragmentType
  BY DEF FragmentType
<1>9. \A v \in {"none"} \cup Causes : [f EXCEPT !.crash = v] \in FragmentType
  BY DEF FragmentType
<1> QED BY <1>1, <1>2, <1>3, <1>4, <1>5, <1>6, <1>7, <1>8, <1>9

LEMMA ClosedType ==
    ClosedCamera \in CameraType
<1> QED BY DEF ClosedCamera, CameraType, MaxImages

LEMMA BuiltInv ==
    ASSUME fragment \in Built, camera = ClosedCamera, posted = <<>>
    PROVE  Camera2Inv
<1>1. FragmentTypeOK
  BY ClosedType, FragmentTypes DEF FragmentTypeOK, FragmentType, Built
<1>2. OwnershipInv
  BY DEF Built, ClosedCamera, OwnershipInv, DeviceIsOwned
<1> QED BY <1>1, <1>2 DEF Camera2Inv

\* The end of the process leaves nothing to own.
LEMMA CrashKeepsInv ==
    ASSUME Camera2Inv, NEW cause \in Causes, Crash(cause)
    PROVE  Camera2Inv'
<1>1. /\ fragment' = [fragment EXCEPT !.lifecycle = "crashed", !.crash = cause,
                                      !.surface = "none", !.cameraDevice = "null",
                                      !.session = "null", !.builder = NoRequest,
                                      !.reader = "null"]
      /\ camera' = ClosedCamera /\ posted' = <<>>
  BY DEF Crash
<1>2. FragmentTypeOK'
  <2>1. fragment' \in FragmentType
    BY <1>1 DEF Camera2Inv, FragmentTypeOK, FragmentType
  <2> QED BY <1>1, <2>1, ClosedType DEF FragmentTypeOK
<1>3. OwnershipInv'
  BY <1>1 DEF Camera2Inv, FragmentTypeOK, FragmentType, CameraType, OwnershipInv, DeviceIsOwned, ClosedCamera
<1> QED BY <1>2, <1>3 DEF Camera2Inv

\* The handlers Android calls.
LEMMA LifecycleKeepsInv ==
    ASSUME Camera2Inv, OnViewCreated \/ OnSurfaceTextureAvailable \/ OnDestroy
    PROVE  Camera2Inv'
<1> USE DEF Camera2Inv
<1>1. CASE OnViewCreated
  <2>1. fragment' \in FragmentType
    <3> DEFINE viewed == [fragment EXCEPT !.lifecycle = "viewed"]
    <3>1. viewed \in FragmentType
      BY FieldTypes DEF FragmentTypeOK
    <3>2. fragment' \in {viewed, [[viewed EXCEPT !.size = NoSize] EXCEPT !.told = "failed"]}
      BY <1>1 DEF OnViewCreated, Tell
    <3> HIDE DEF viewed
    <3>3. [[viewed EXCEPT !.size = NoSize] EXCEPT !.told = "failed"] \in FragmentType
      BY <3>1, FieldTypes
    <3> QED BY <3>1, <3>2, <3>3
  <2>2. /\ UNCHANGED <<camera, posted>> /\ fragment.lifecycle = "attached"
        /\ fragment'.lifecycle = "viewed" /\ fragment'.cameraDevice = fragment.cameraDevice
        /\ fragment'.crash = fragment.crash /\ fragment'.surface = fragment.surface
    BY <1>1 DEF OnViewCreated, Tell, FragmentTypeOK, FragmentType
  <2>3. FragmentTypeOK'
    BY <2>1, <2>2 DEF FragmentTypeOK
  <2>4. OwnershipInv'
    BY <2>2 DEF OwnershipInv, DeviceIsOwned, IsPosted
  <2> QED BY <2>3, <2>4
<1>2. CASE OnSurfaceTextureAvailable
  <2>1. fragment' \in FragmentType
    BY <1>2, FieldTypes DEF OnSurfaceTextureAvailable, Tell, FragmentTypeOK
  <2>2. camera' \in CameraType /\ camera'.device \in {camera.device, "opening"}
    BY <1>2 DEF OnSurfaceTextureAvailable, FragmentTypeOK, CameraType
  <2>3. /\ UNCHANGED posted
        /\ fragment.lifecycle = "viewed"
        /\ fragment'.lifecycle = "viewed" /\ fragment'.cameraDevice = fragment.cameraDevice
        /\ fragment'.crash = fragment.crash
    BY <1>2 DEF OnSurfaceTextureAvailable, Tell, FragmentTypeOK, FragmentType
  <2>4. FragmentTypeOK'
    BY <2>1, <2>2, <2>3 DEF FragmentTypeOK
  <2>5. OwnershipInv'
    BY <2>2, <2>3 DEF OwnershipInv, DeviceIsOwned, IsPosted
  <2> QED BY <2>4, <2>5
<1>3. CASE OnDestroy
  <2>1. FragmentTypeOK'
    BY <1>3, FieldTypes DEF OnDestroy, CloseCamera, FragmentTypeOK, CameraType
  <2>2. OwnershipInv'
    BY <1>3 DEF OnDestroy, CloseCamera, FragmentTypeOK, FragmentType, CameraType, OwnershipInv, DeviceIsOwned, IsPosted
  <2> QED BY <2>1, <2>2
<1> QED BY <1>1, <1>2, <1>3

\* The callback that runs is no longer posted; every other one is.
LEMMA NextRuns ==
    ASSUME posted \in Seq(Callbacks), NEW c \in Callbacks, IsNext(c), posted' = Tail(posted)
    PROVE  /\ posted' \in Seq(Callbacks)
           /\ c # "opened" /\ IsPosted({"opened"}) => IsPosted({"opened"})'
<1>1. posted # <<>> /\ Head(posted) = c
  BY DEF IsNext
<1>2. "opened" \in Callbacks
  BY DEF Callbacks
<1>3. ASSUME c # "opened", \E i \in 1 .. Len(posted) : posted[i] = "opened"
      PROVE  \E i \in 1 .. Len(Tail(posted)) : Tail(posted)[i] = "opened"
  BY <1>1, <1>2, <1>3, StaysPosted
<1> QED BY <1>1, <1>3 DEF IsPosted

LEMMA OpenedKeepsInv ==
    ASSUME Camera2Inv, OnOpened
    PROVE  Camera2Inv'
<1> USE DEF Camera2Inv
<1>1. posted # <<>> /\ fragment.lifecycle # "crashed" /\ fragment.crash = "none"
  BY DEF OnOpened, IsNext, OwnershipInv
<1>2. CASE fragment.surface = "none"
  BY <1>2, CrashKeepsInv DEF OnOpened, Causes
<1>3. CASE fragment.surface # "none"
  <2>1. fragment.surface = "available" /\ fragment.lifecycle = "viewed"
    BY <1>1, <1>3 DEF FragmentTypeOK, FragmentType, CameraType, OwnershipInv
  <2>2. posted' \in Seq(Callbacks)
    <3>1. Tail(posted) \in Seq(Callbacks)
      BY <1>1 DEF FragmentTypeOK
    <3>2. \A a \in {"configured", "configureFailed"} : Append(Tail(posted), a) \in Seq(Callbacks)
      BY <3>1 DEF Callbacks
    <3> QED BY <1>3, <3>1, <3>2 DEF OnOpened
  <2>3. FragmentTypeOK'
    <3> DEFINE opened == [fragment EXCEPT !.cameraDevice = "camera",
                            !.reader = IF fragment.frames = "unused" THEN @ ELSE "reader"]
    <3>1. fragment.reader \in {"null", "reader"}
      BY DEF FragmentTypeOK, FragmentType
    <3>2. opened \in FragmentType
      BY <3>1, FieldTypes DEF FragmentTypeOK
    <3>3. fragment' \in {opened, [opened EXCEPT !.told = "failed"]} /\ UNCHANGED camera
      BY <1>3 DEF OnOpened, Tell
    <3> HIDE DEF opened
    <3>4. [opened EXCEPT !.told = "failed"] \in FragmentType
      BY <3>2, FieldTypes
    <3> QED BY <2>2, <3>2, <3>3, <3>4 DEF FragmentTypeOK
  <2>4. fragment'.cameraDevice = "camera" /\ fragment'.lifecycle = "viewed"
        /\ fragment'.crash = "none" /\ camera'.device \in {"open", "lost"}
    BY <1>1, <1>3, <2>1 DEF OnOpened, Tell, FragmentTypeOK, FragmentType, CameraType
  <2>5. OwnershipInv'
    BY <2>4 DEF OwnershipInv, DeviceIsOwned
  <2> QED BY <2>3, <2>5
<1> QED BY <1>2, <1>3

\* Any other answer: what the fragment knows of a device is true.
LEMMA AnswersKeepInv ==
    ASSUME Camera2Inv, OnConfigured \/ OnConfigureFailed \/ OnLost \/ OnImageAvailable
    PROVE  Camera2Inv'
<1> USE DEF Camera2Inv
<1>1. posted # <<>> /\ fragment.lifecycle # "crashed" /\ fragment.crash = "none"
  BY DEF OnConfigured, OnConfigureFailed, OnLost, OnImageAvailable, IsNext, OwnershipInv
<1>2. CASE \E cause \in Causes : Crash(cause)
  BY <1>2, CrashKeepsInv
<1>3. CASE ~\E cause \in Causes : Crash(cause)
  <2>1. ~Crash("onConfigured") /\ ~Crash("image") /\ ~Crash("padding")
    BY <1>3 DEF Causes
  <2>2. PICK c \in Callbacks \ {"opened"} : IsNext(c)
    BY DEF OnConfigured, OnConfigureFailed, OnLost, OnImageAvailable, Callbacks
  <2>3. posted' = Tail(posted)
    BY <2>1 DEF OnConfigured, OnConfigureFailed, OnLost, OnImageAvailable, HearImage, IgnoreImage
  <2>4. posted' \in Seq(Callbacks) /\ (IsPosted({"opened"}) => IsPosted({"opened"})')
    BY <2>2, <2>3, NextRuns DEF FragmentTypeOK
  <2> DEFINE Answered ==
        /\ fragment' \in FragmentType /\ camera' \in CameraType
        /\ camera'.device \in {camera.device, "disconnected"}
        /\ camera'.device # "closed" \/ camera.device = "closed"
        /\ fragment'.lifecycle = fragment.lifecycle /\ fragment'.surface = fragment.surface
        /\ fragment'.crash = "none"
        /\ \/ fragment'.cameraDevice = fragment.cameraDevice
           \/ fragment'.cameraDevice = "camera" /\ camera.device # "closed"
  <2>5. ASSUME OnConfigured PROVE Answered
    <3>1. /\ fragment' \in FragmentType
          /\ fragment'.lifecycle = fragment.lifecycle /\ fragment'.surface = fragment.surface
          /\ fragment'.crash = "none" /\ fragment'.cameraDevice = fragment.cameraDevice
      <4>1. fragment.builder \in Requests \cup {NoRequest} /\ TemplatePreview \in Requests
        BY FragmentTypes DEF FragmentTypeOK, FragmentType
      <4>2. PICK builder \in Requests \cup {NoRequest}, state \in {"opened", "failed"} :
              fragment' = [[[fragment EXCEPT !.session = "session"] EXCEPT !.builder = builder]
                             EXCEPT !.told = state]
        BY <2>1, <2>5, <4>1 DEF OnConfigured, Tell
      <4> QED BY <1>1, <4>2 DEF FragmentTypeOK, FragmentType
    <3>2. camera' \in CameraType /\ camera'.device = camera.device
      BY <2>1, <2>5, FragmentTypes DEF OnConfigured, FragmentTypeOK, CameraType
    <3> QED BY <3>1, <3>2
  <2>6. ASSUME OnConfigureFailed PROVE Answered
    BY <1>1, <2>6 DEF OnConfigureFailed, Tell, FragmentTypeOK, FragmentType
  <2>7. ASSUME OnLost PROVE Answered
    <3>1. CASE camera.device = "closed"
      BY <1>1, <2>7, <3>1 DEF OnLost, FragmentTypeOK
    <3>2. CASE camera.device # "closed"
      <4>1. fragment' = [[fragment EXCEPT !.cameraDevice = "camera"] EXCEPT !.told = "failed"]
        BY <2>7, <3>2 DEF OnLost, Tell
      <4>2. camera' \in CameraType /\ camera'.device \in {camera.device, "disconnected"}
        BY <2>7, <3>2 DEF OnLost, SessionClosed, FragmentTypeOK, CameraType
      <4>3. /\ fragment' \in FragmentType
            /\ fragment'.lifecycle = fragment.lifecycle /\ fragment'.surface = fragment.surface
            /\ fragment'.crash = "none" /\ fragment'.cameraDevice = "camera"
        BY <1>1, <4>1 DEF FragmentTypeOK, FragmentType
      <4> QED BY <3>2, <4>2, <4>3
    <3> QED BY <3>1, <3>2
  <2>8. ASSUME OnImageAvailable PROVE Answered
    <3>1. fragment' = fragment
      BY <2>1, <2>8 DEF OnImageAvailable, HearImage, IgnoreImage
    <3>2. camera' \in CameraType /\ camera'.device = camera.device
      BY <2>1, <2>8 DEF OnImageAvailable, HearImage, IgnoreImage, FragmentTypeOK, CameraType, MaxImages
    <3> QED BY <1>1, <3>1, <3>2 DEF FragmentTypeOK
  <2>9. Answered
    BY <2>5, <2>6, <2>7, <2>8, <1>1
  <2> HIDE DEF Answered
  <2>10. FragmentTypeOK' /\ OwnershipInv'
    BY <1>1, <2>4, <2>9 DEF Answered, FragmentTypeOK, OwnershipInv, DeviceIsOwned, FragmentType
  <2> QED BY <2>10
<1> QED BY <1>2, <1>3

\* A request is sent on behalf of a view that is there, so the device is not
\* closed.
LEMMA RequestKeepsInv ==
    ASSUME Camera2Inv, fragment.lifecycle = "viewed", Focusable,
           NEW request \in Requests, SetRepeatingRequest(request)
    PROVE  Camera2Inv'
<1> USE DEF Camera2Inv
<1>1. fragment.cameraDevice = "camera" /\ camera.device # "closed" /\ fragment.crash = "none"
  BY DEF Focusable, FragmentTypeOK, FragmentType, OwnershipInv
<1>2. CASE camera.device = "disconnected"
  <2>1. Crash("request")
    BY <1>2 DEF SetRepeatingRequest
  <2> QED BY <2>1, CrashKeepsInv DEF Causes
<1>3. CASE camera.device # "disconnected"
  <2>1. fragment' = [fragment EXCEPT !.builder = request] /\ UNCHANGED posted
    BY <1>1, <1>3 DEF SetRepeatingRequest
  <2>2. camera' = [camera EXCEPT !.repeating = IF camera.device = "open" THEN request ELSE @]
    BY <1>1, <1>3 DEF SetRepeatingRequest
  <2>3. fragment' \in FragmentType
    BY <2>1, FieldTypes DEF FragmentTypeOK
  <2>4. camera' \in CameraType /\ camera'.device = camera.device
    BY <2>2 DEF FragmentTypeOK, CameraType
  <2>5. /\ fragment'.lifecycle = fragment.lifecycle /\ fragment'.surface = fragment.surface
        /\ fragment'.crash = fragment.crash /\ fragment'.cameraDevice = fragment.cameraDevice
    BY <2>1 DEF FragmentTypeOK, FragmentType
  <2>6. FragmentTypeOK'
    BY <2>1, <2>3, <2>4 DEF FragmentTypeOK
  <2>7. OwnershipInv'
    BY <1>1, <2>1, <2>4, <2>5 DEF OwnershipInv, DeviceIsOwned, IsPosted
  <2> QED BY <2>6, <2>7
<1> QED BY <1>2, <1>3

LEMMA SameFragment ==
    ASSUME Camera2Inv, UNCHANGED camera2Vars PROVE Camera2Inv'
<1> QED BY DEF Camera2Inv, camera2Vars, FragmentTypeOK, OwnershipInv, DeviceIsOwned, IsPosted

LEMMA TouchKeepsInv ==
    ASSUME Camera2Inv, TouchView
    PROVE  Camera2Inv'
<1> USE DEF Camera2Inv
<1>1. fragment.lifecycle = "viewed"
  BY DEF TouchView
<1>2. CASE UNCHANGED camera2Vars
  BY <1>2, SameFragment
<1>3. ASSUME NEW x \in TapsAcross, NEW y \in Along(fragment.view.height),
             OnFocusChange(x, y), ~UNCHANGED camera2Vars
      PROVE  Camera2Inv'
  <2>1. Focusable
    BY <1>3 DEF OnFocusChange
  <2>2. fragment.builder \in Requests
    BY <2>1 DEF Focusable, FragmentTypeOK, FragmentType
  <2>3. [fragment.builder EXCEPT !.afTrigger = "idle"] \in Requests
    BY <2>2, FragmentTypes
  <2>4. [afTrigger |-> "start", exposure |-> "asMeasured"] \in Requests
    BY FragmentTypes DEF Exposures
  <2>5. CASE camera.device # "open"
    <3>1. SetRepeatingRequest([fragment.builder EXCEPT !.afTrigger = "idle"])
      BY <1>3, <2>1, <2>5 DEF OnFocusChange
    <3> QED BY <1>1, <2>1, <2>3, <3>1, RequestKeepsInv
  <2>6. CASE /\ camera.device = "open"
             /\ IsRectangle(MeteringArea(x, y, fragment.size, fragment.view))
    <3>1. SetRepeatingRequest([afTrigger |-> "start", exposure |-> "asMeasured"])
      BY <1>3, <2>1, <2>6 DEF OnFocusChange
    <3> QED BY <1>1, <2>1, <2>4, <3>1, RequestKeepsInv
  <2>7. CASE /\ camera.device = "open"
             /\ ~IsRectangle(MeteringArea(x, y, fragment.size, fragment.view))
    <3>1. Crash("area")
      BY <1>3, <2>1, <2>7 DEF OnFocusChange
    <3> QED BY <3>1, CrashKeepsInv DEF Causes
  <2> QED BY <2>5, <2>6, <2>7
<1>4. ASSUME NEW exposure \in Exposures, OnExposureChange(exposure), ~UNCHANGED camera2Vars
      PROVE  Camera2Inv'
  <2>1. Focusable /\ (Crash("range") \/ SetRepeatingRequest([fragment.builder EXCEPT !.exposure = exposure]))
    BY <1>4 DEF OnExposureChange
  <2>2. fragment.builder \in Requests
    BY <2>1 DEF Focusable, FragmentTypeOK, FragmentType
  <2>3. [fragment.builder EXCEPT !.exposure = exposure] \in Requests
    BY <2>2, FragmentTypes
  <2> QED BY <1>1, <2>1, <2>3, RequestKeepsInv, CrashKeepsInv DEF Causes
<1> QED BY <1>2, <1>3, <1>4 DEF TouchView

LEMMA CameraKeepsInv ==
    ASSUME Camera2Inv, AnswerOpen \/ LoseCamera \/ CaptureImage
    PROVE  Camera2Inv'
<1> USE DEF Camera2Inv
<1>1. fragment.lifecycle \notin {"attached", "crashed"} /\ UNCHANGED fragment
  BY DEF AnswerOpen, LoseCamera, CaptureImage, OwnershipInv, ClosedCamera
<1>2. PICK c \in Callbacks : Post(c) /\ (camera'.device = "open" /\ camera.device # "open" => c = "opened")
  BY DEF AnswerOpen, LoseCamera, CaptureImage, Callbacks, FragmentTypeOK, CameraType
<1>3. posted' \in Seq(Callbacks) /\ posted' = Append(posted, c)
  BY <1>2 DEF Post, FragmentTypeOK
<1>4. camera' \in CameraType
  <2>1. CASE AnswerOpen \/ LoseCamera
    BY <2>1 DEF AnswerOpen, LoseCamera, FragmentTypeOK, CameraType
  <2>2. CASE CaptureImage
    BY <2>2 DEF CaptureImage, FragmentTypeOK, CameraType, MaxImages
  <2> QED BY <2>1, <2>2
<1>5. camera.device # "closed" => camera'.device # "closed"
  BY DEF AnswerOpen, LoseCamera, CaptureImage, FragmentTypeOK, CameraType
<1>6. DeviceIsOwned'
  <2>1. CASE camera.device = "open" /\ IsPosted({"opened"})
    <3>1. "opened" \in Callbacks /\ posted \in Seq(Callbacks)
      BY DEF Callbacks, FragmentTypeOK
    <3>2. \E i \in 1 .. Len(posted) : posted[i] = "opened"
      BY <2>1 DEF IsPosted
    <3>3. \E i \in 1 .. Len(posted') : posted'[i] = "opened"
      BY <1>3, <3>1, <3>2, StaysPosted
    <3> QED BY <3>3 DEF DeviceIsOwned, IsPosted
  <2>2. CASE camera.device = "open" /\ ~IsPosted({"opened"})
    BY <1>1, <2>2 DEF OwnershipInv, DeviceIsOwned
  <2>3. CASE camera.device # "open" /\ camera'.device = "open"
    <3>1. posted' = Append(posted, "opened")
      BY <1>2, <1>3, <2>3
    <3>2. Len(posted') \in 1 .. Len(posted') /\ posted'[Len(posted')] = "opened"
      BY <3>1 DEF FragmentTypeOK
    <3> QED BY <3>2 DEF DeviceIsOwned, IsPosted
  <2>4. CASE camera'.device # "open"
    BY <2>4 DEF DeviceIsOwned
  <2> QED BY <2>1, <2>2, <2>3, <2>4
<1>7. FragmentTypeOK' /\ OwnershipInv'
  BY <1>1, <1>3, <1>4, <1>5, <1>6 DEF FragmentTypeOK, OwnershipInv
<1> QED BY <1>7

LEMMA Camera2Step == Camera2Inv /\ [Camera2Next]_allVars => Camera2Inv'
<1> SUFFICES ASSUME Camera2Inv, [Camera2Next]_allVars PROVE Camera2Inv'
  OBVIOUS
<1>1. CASE OnViewCreated \/ OnSurfaceTextureAvailable \/ OnDestroy
  BY <1>1, LifecycleKeepsInv
<1>2. CASE Reopen
  <2>1. posted' = <<>>
    BY <1>2 DEF Reopen, Camera2Inv, OwnershipInv
  <2>2. fragment' \in Built /\ camera' = ClosedCamera
    BY <1>2 DEF Reopen
  <2>3. (fragment \in Built /\ camera = ClosedCamera /\ posted = <<>> => Camera2Inv)'
    BY BuiltInv, PTL
  <2> QED BY <2>1, <2>2, <2>3
<1>3. CASE RunPosted
  BY <1>3, OpenedKeepsInv, AnswersKeepInv DEF RunPosted
<1>4. CASE TouchView
  BY <1>4, TouchKeepsInv
<1>5. CASE AnswerOpen \/ LoseCamera \/ CaptureImage
  BY <1>5, CameraKeepsInv
<1>6. CASE (\E t \in Faders : FadeFrame(t)) \/ UNCHANGED allVars
  BY <1>6, SameFragment DEF FadeFrame, allVars
<1> QED BY <1>1, <1>2, <1>3, <1>4, <1>5, <1>6 DEF Camera2Next

LEMMA FragmentInvariance == Camera2Spec => [](FocusInv /\ Camera2Inv)
<1>1. Camera2Init => FocusInv /\ Camera2Inv
  BY FocusInitInv, BuiltInv DEF Camera2Init
<1>2. FocusInv /\ Camera2Inv /\ [Camera2Next]_allVars => (FocusInv /\ Camera2Inv)'
  BY FocusStep, FocusOfCamera2, Camera2Step
<1> QED BY <1>1, <1>2, PTL DEF Camera2Spec

\* Every variable stays in its range, for any sizes and any number of threads.
THEOREM Camera2TypeCorrect == Camera2Spec => []Camera2TypeOK
<1>1. FocusInv /\ Camera2Inv => Camera2TypeOK
  BY DEF FocusInv, Camera2Inv, FragmentTypeOK, FragmentType, CameraType, Camera2TypeOK, Causes
<1> QED BY <1>1, FragmentInvariance, PTL

\* onDestroy leaves no opened device that nobody will hear of.
THEOREM DeviceOwnership == Camera2Spec => []DeviceIsOwned
<1>1. Camera2Inv => DeviceIsOwned
  BY DEF Camera2Inv, OwnershipInv
<1> QED BY <1>1, FragmentInvariance, PTL
=============================================================================
