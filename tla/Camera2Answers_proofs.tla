------------------------- MODULE Camera2Answers_proofs -------------------------
(* Theorems about what the fragment for system cameras makes of the answers    *)
(* camera2 posts, in whatever order they meet the user's handlers and touches: *)
(* a preview in use survives, and what onCameraState said stays true.          *)
EXTENDS Camera2Fragment_proofs

Early  == {"opened", "configured", "configureFailed"}
Losses == {"disconnected", "error"}

\* What there is while nothing was opened yet, and that a camera not there has
\* nothing left to say to a preview in use.
LifeInv ==
    /\ fragment.lifecycle = "attached" =>
         fragment.surface = "none" /\ fragment.builder = NoRequest /\ fragment.told = "nothing"
    /\ fragment.lifecycle = "viewed" /\ fragment.surface = "none" =>
         /\ posted = <<>> /\ camera.device = "closed" /\ fragment.builder = NoRequest
         /\ fragment.told = "failed" => fragment.size = NoSize
    /\ fragment.lifecycle = "viewed" /\ camera.device = "closed" => posted = <<>>
    /\ camera.device = "opening" =>
         posted = <<>> /\ fragment.builder = NoRequest /\ fragment.told # "failed"
    /\ camera.repeating # NoRequest => camera.device = "open"
    /\ camera.device = "disconnected" => fragment.told = "failed"

\* The order of the answers: how opening went comes first and before every frame,
\* no frame comes after a loss.
PostedInv ==
    \A i \in 1 .. Len(posted) :
        /\ posted[i] \in Early =>
             /\ i = 1 /\ camera.repeating = NoRequest
             /\ camera.device = "open" => Len(posted) = 1
             /\ \A j \in 1 .. Len(posted) : posted[j] # "image"
        /\ posted[i] \in Losses =>
             /\ camera.device \in {"lost", "disconnected", "closed"}
             /\ \A j \in 1 .. Len(posted) : i < j => posted[j] # "image"

\* After a failure was told nothing comes that would undo it.
FailedInv ==
    fragment.told = "failed" =>
        /\ camera.repeating = NoRequest
        /\ \A i \in 1 .. Len(posted) : /\ posted[i] # "image"
                                       /\ camera.device = "open" => posted[i] \notin Early

\* A frame posted is one the reader holds.
ImagesInv ==
    fragment.frames = "heard" =>
      \A i, j, k \in 1 .. Len(posted) :
        /\ camera.images = 0 => posted[i] # "image"
        /\ camera.images = 1 /\ posted[i] = "image" /\ posted[j] = "image" => i = j
        /\ posted[i] = "image" /\ posted[j] = "image" /\ posted[k] = "image" => i = j \/ j = k \/ i = k

HistoryInv ==
    LifeInv /\ PostedInv /\ FailedInv /\ ImagesInv /\ OpenedIsTrue /\ SettingsAreRepeated

-----------------------------------------------------------------------------
\* An index of a longer sequence is one of the shorter, or the last.
LEMMA LastOrBefore ==
    ASSUME NEW n \in Nat, NEW i \in 1 .. n + 1
    PROVE  i \in Int /\ (i \in 1 .. n \/ i = n + 1)
OBVIOUS

\* What is appended to no callback at all is the only one.
LEMMA OneAppended ==
    ASSUME NEW s \in Seq(Callbacks), Len(s) = 0, NEW c \in Callbacks
    PROVE  Len(Append(s, c)) = 1 /\ Append(s, c)[1] = c
OBVIOUS

LEMMA FirstIsHead ==
    ASSUME NEW s \in Seq(Callbacks), Len(s) = 1
    PROVE  s # <<>> /\ Head(s) = s[1]
<1>1. ASSUME s = <<>> PROVE FALSE
  BY <1>1
<1> QED
  BY <1>1

LEMMA PostedTail ==
    ASSUME posted \in Seq(Callbacks), posted # <<>>, posted' = Tail(posted)
    PROVE  /\ Len(posted) \in Nat /\ Len(posted) >= 1 /\ Head(posted) = posted[1]
           /\ Len(posted') = Len(posted) - 1
           /\ \A i \in 1 .. Len(posted') : i + 1 \in 1 .. Len(posted) /\ posted'[i] = posted[i + 1]
           /\ \A i \in 1 .. Len(posted) : i # 1 => i - 1 \in 1 .. Len(posted') /\ posted'[i - 1] = posted[i]
  OBVIOUS

LEMMA PostedAppend ==
    ASSUME posted \in Seq(Callbacks), NEW c \in Callbacks, posted' = Append(posted, c)
    PROVE  /\ Len(posted) \in Nat /\ Len(posted') = Len(posted) + 1
           /\ \A i \in 1 .. Len(posted) : posted'[i] = posted[i]
           /\ posted'[Len(posted) + 1] = c
  OBVIOUS

\* A loss that is posted stays so until it runs.
LEMMA LossStays ==
    ASSUME posted \in Seq(Callbacks), LossPosted
    PROVE  /\ \A d \in Callbacks : posted' = Append(posted, d) => LossPosted'
           /\ posted # <<>> /\ Head(posted) \notin Losses /\ posted' = Tail(posted) => LossPosted'
<1>1. PICK c \in Losses, i \in 1 .. Len(posted) : posted[i] = c
  BY DEF LossPosted, IsPosted, Losses
<1>2. c \in Callbacks
  BY DEF Losses, Callbacks
<1>3. ASSUME NEW d \in Callbacks, posted' = Append(posted, d) PROVE LossPosted'
  BY <1>1, <1>2, <1>3, StaysPosted DEF LossPosted, IsPosted, Losses
<1>4. ASSUME posted # <<>>, Head(posted) \notin Losses, posted' = Tail(posted) PROVE LossPosted'
  BY <1>1, <1>2, <1>4, StaysPosted DEF LossPosted, IsPosted, Losses
<1> QED
  BY <1>3, <1>4

\* A process that ended has nothing to answer and nothing open.
LEMMA CrashKeepsHistory ==
    ASSUME Camera2Inv, NEW cause, Crash(cause) PROVE HistoryInv'
<1>1. /\ fragment'.lifecycle = "crashed" /\ posted' = <<>> /\ Len(posted') = 0
      /\ camera'.device = "closed" /\ camera'.repeating = NoRequest
  BY DEF Crash, ClosedCamera, Camera2Inv, FragmentTypeOK, FragmentType
<1> QED
  BY <1>1 DEF HistoryInv, LifeInv, PostedInv, FailedInv, ImagesInv, OpenedIsTrue, SettingsAreRepeated

\* Without a step of the camera or the looper the order of the answers stays.
LEMMA SamePosted ==
    ASSUME HistoryInv, UNCHANGED posted, fragment'.frames = fragment.frames,
           camera'.images = camera.images,
           camera'.repeating \in {camera.repeating, NoRequest} \/ camera.repeating # NoRequest,
           camera'.device \in {camera.device, "closed"} \/ posted = <<>>
    PROVE  PostedInv' /\ ImagesInv'
  BY DEF HistoryInv, PostedInv, ImagesInv

\* The handlers Android calls.
LEMMA HandlersKeepHistory ==
    ASSUME Camera2Inv, HistoryInv, OnViewCreated \/ OnSurfaceTextureAvailable \/ OnDestroy
    PROVE  HistoryInv'
<1> USE DEF Camera2Inv, FragmentTypeOK
<1>1. CASE OnViewCreated
  <2>1. /\ UNCHANGED <<camera, posted>>
        /\ fragment.lifecycle = "attached" /\ fragment'.lifecycle = "viewed"
        /\ fragment'.surface = fragment.surface /\ fragment'.builder = fragment.builder
        /\ fragment'.frames = fragment.frames
        /\ \/ fragment'.told = "failed" /\ fragment'.size = NoSize
           \/ fragment'.told = fragment.told
    BY <1>1 DEF OnViewCreated, Tell, FragmentType
  <2>2. posted = <<>> /\ Len(posted) = 0 /\ camera.device = "closed" /\ camera.repeating = NoRequest
    BY <2>1 DEF OwnershipInv, ClosedCamera
  <2>3. LifeInv' /\ FailedInv' /\ OpenedIsTrue' /\ SettingsAreRepeated'
    BY <2>1, <2>2 DEF HistoryInv, LifeInv, FailedInv, OpenedIsTrue, SettingsAreRepeated
  <2> QED
    BY <2>1, <2>2, <2>3, SamePosted DEF HistoryInv
<1>2. CASE OnSurfaceTextureAvailable
  <2>1. /\ posted' = posted
        /\ fragment.lifecycle = "viewed" /\ fragment.surface = "none" /\ fragment.size # NoSize
        /\ fragment'.lifecycle = "viewed" /\ fragment'.surface = "available"
        /\ fragment'.builder = fragment.builder /\ fragment'.frames = fragment.frames
        /\ \/ fragment'.told = "failed" /\ camera' = camera
           \/ fragment'.told = fragment.told /\ camera' = [camera EXCEPT !.device = "opening"]
    BY <1>2 DEF OnSurfaceTextureAvailable, Tell, FragmentType
  <2>2. /\ posted = <<>> /\ Len(posted) = 0 /\ camera.device = "closed"
        /\ camera.repeating = NoRequest /\ fragment.builder = NoRequest /\ fragment.told # "failed"
    BY <2>1 DEF HistoryInv, LifeInv
  <2>3. /\ camera'.images = camera.images /\ camera'.repeating = camera.repeating
        /\ \/ camera'.device = "closed"
           \/ camera'.device = "opening" /\ fragment'.told = fragment.told
    BY <2>1, <2>2 DEF CameraType
  <2>4. fragment.told = "opened" => FALSE
    BY <2>1, <2>2 DEF HistoryInv, OpenedIsTrue, LossPosted, IsPosted
  <2>5. LifeInv' /\ FailedInv' /\ SettingsAreRepeated' /\ OpenedIsTrue'
    BY <2>1, <2>2, <2>3, <2>4 DEF LifeInv, FailedInv, OpenedIsTrue, SettingsAreRepeated
  <2> QED
    BY <2>1, <2>2, <2>3, <2>5, SamePosted DEF HistoryInv
<1>3. CASE OnDestroy
  <2>1. /\ posted' = posted
        /\ fragment'.lifecycle = "destroyed" /\ fragment'.builder = NoRequest
        /\ fragment'.told = fragment.told /\ fragment'.frames = fragment.frames
        /\ camera'.device \in {camera.device, "closed"} /\ camera'.repeating = NoRequest
        /\ camera'.images = camera.images
    BY <1>3 DEF OnDestroy, CloseCamera, FragmentType, CameraType
  <2>2. LifeInv' /\ FailedInv' /\ SettingsAreRepeated' /\ OpenedIsTrue'
    BY <2>1 DEF HistoryInv, LifeInv, FailedInv, OpenedIsTrue, SettingsAreRepeated
  <2> QED
    BY <2>1, <2>2, SamePosted DEF HistoryInv
<1> QED
  BY <1>1, <1>2, <1>3

\* A callback that ran leaves the order of the others.
LEMMA TailKeepsPosted ==
    ASSUME posted \in Seq(Callbacks), posted # <<>>, posted' = Tail(posted), PostedInv,
           camera'.device \in {camera.device, "disconnected"},
           camera'.repeating = camera.repeating \/ Head(posted) \in Early
    PROVE  PostedInv' /\ \A i \in 1 .. Len(posted') : posted'[i] \notin Early
<1>1. /\ Head(posted) = posted[1] /\ Len(posted) \in Nat /\ Len(posted) >= 1
      /\ \A i \in 1 .. Len(posted') : i \in Int /\ i >= 1 /\ i + 1 \in 1 .. Len(posted) /\ posted'[i] = posted[i + 1]
  BY PostedTail
<1>2. \A i \in 1 .. Len(posted') : posted'[i] \notin Early
  BY <1>1 DEF PostedInv
<1>3. ASSUME NEW i \in 1 .. Len(posted'), posted'[i] \in Losses
      PROVE  /\ camera'.device \in {"lost", "disconnected", "closed"}
             /\ \A j \in 1 .. Len(posted') : i < j => posted'[j] # "image"
  BY <1>1, <1>3 DEF PostedInv
<1> QED
  BY <1>2, <1>3 DEF PostedInv

\* Of the frames in the reader none is lost by another callback.
LEMMA TailKeepsImages ==
    ASSUME posted \in Seq(Callbacks), posted # <<>>, posted' = Tail(posted), ImagesInv,
           fragment'.frames = fragment.frames, camera'.images = camera.images
    PROVE  ImagesInv'
<1>1. \A i \in 1 .. Len(posted') : i \in Int /\ i + 1 \in 1 .. Len(posted) /\ posted'[i] = posted[i + 1]
  BY PostedTail
<1> QED
  BY <1>1 DEF ImagesInv

\* The callbacks of camera2, and the frames.
LEMMA OpenedKeepsHistory ==
    ASSUME Camera2Inv, HistoryInv, OnOpened PROVE HistoryInv'
<1> USE DEF Camera2Inv, FragmentTypeOK
<1>1. /\ posted \in Seq(Callbacks) /\ posted # <<>> /\ Head(posted) = "opened"
      /\ Head(posted) = posted[1] /\ 1 \in 1 .. Len(posted) /\ "opened" \in Early
      /\ \A c \in Early : c \in Callbacks /\ c \notin Losses /\ c # "image"
  BY PostedTail DEF OnOpened, IsNext, Early, Losses, Callbacks
<1>2. CASE fragment.surface = "none"
  BY <1>2, CrashKeepsHistory DEF OnOpened
<1>3. CASE fragment.surface # "none"
  <2> DEFINE opened == [fragment EXCEPT !.cameraDevice = "camera",
                          !.reader = IF fragment.frames = "unused" THEN @ ELSE "reader"]
  <2>1. /\ camera' = camera /\ camera.repeating = NoRequest
        /\ \A j \in 1 .. Len(posted) : posted[j] # "image"
    BY <1>1, <1>3 DEF OnOpened, HistoryInv, PostedInv
  <2>2. CASE camera.device = "open"
    <3>1. PICK answer \in {"configured", "configureFailed"} :
            fragment' = opened /\ posted' = Append(Tail(posted), answer)
      BY <1>3, <2>2 DEF OnOpened
    <3>2. Len(posted) = 1
      BY <1>1, <2>2 DEF HistoryInv, PostedInv
    <3>3. Len(posted') = 1 /\ posted'[1] = answer
      <4>1. Tail(posted) \in Seq(Callbacks) /\ Len(Tail(posted)) = 0
        BY <1>1, <3>2
      <4>2. answer \in Callbacks
        BY DEF Callbacks
      <4> QED
        BY <3>1, <4>1, <4>2, OneAppended
    <3>4. /\ fragment'.lifecycle = fragment.lifecycle /\ fragment'.surface = fragment.surface
          /\ fragment'.builder = fragment.builder /\ fragment'.told = fragment.told
      BY <3>1 DEF FragmentType
    <3>5. fragment.told # "failed"
      BY <1>1, <2>2 DEF HistoryInv, FailedInv
    <3>6. fragment.lifecycle # "attached" /\ ~(fragment.lifecycle = "viewed" /\ fragment.surface = "none")
      BY <1>1 DEF HistoryInv, LifeInv, OwnershipInv
    <3>7. OpenedIsTrue'
      <4>1. ~LossPosted
        BY <1>1, <3>2 DEF LossPosted, IsPosted, Early, Losses
      <4> QED
        BY <2>1, <3>4, <4>1 DEF HistoryInv, OpenedIsTrue
    <3>8. LifeInv' /\ FailedInv' /\ SettingsAreRepeated'
      BY <2>1, <2>2, <3>4, <3>5, <3>6 DEF HistoryInv, LifeInv, FailedInv, SettingsAreRepeated
    <3>9. PostedInv' /\ ImagesInv'
      BY <2>1, <3>3 DEF PostedInv, ImagesInv, Early, Losses
    <3> QED
      BY <3>7, <3>8, <3>9 DEF HistoryInv
  <2>3. CASE camera.device = "lost"
    <3>1. fragment' = [opened EXCEPT !.told = "failed"] /\ posted' = Tail(posted)
      BY <1>3, <2>3 DEF OnOpened, Tell
    <3>2. /\ fragment'.lifecycle = fragment.lifecycle /\ fragment'.surface = fragment.surface
          /\ fragment'.builder = fragment.builder /\ fragment'.told = "failed"
          /\ fragment'.frames = fragment.frames
      BY <3>1 DEF FragmentType
    <3>3. fragment.lifecycle # "attached" /\ ~(fragment.lifecycle = "viewed" /\ fragment.surface = "none")
      BY <1>1 DEF HistoryInv, LifeInv, OwnershipInv
    <3>4. PostedInv' /\ ImagesInv' /\ \A i \in 1 .. Len(posted') : posted'[i] # "image"
      BY <1>1, <2>1, <3>1, <3>2, TailKeepsPosted, TailKeepsImages, PostedTail DEF HistoryInv
    <3>5. LifeInv' /\ FailedInv' /\ SettingsAreRepeated' /\ OpenedIsTrue'
      BY <2>1, <2>3, <3>2, <3>3, <3>4
         DEF HistoryInv, LifeInv, FailedInv, SettingsAreRepeated, OpenedIsTrue
    <3> QED
      BY <3>4, <3>5 DEF HistoryInv
  <2> QED
    BY <1>3, <2>2, <2>3 DEF OnOpened
<1> QED
  BY <1>2, <1>3

LEMMA ConfiguredKeepsHistory ==
    ASSUME Camera2Inv, HistoryInv, OnConfigured \/ OnConfigureFailed PROVE HistoryInv'
<1> USE DEF Camera2Inv, FragmentTypeOK
<1>1. PICK c \in {"configured", "configureFailed"} :
        /\ posted \in Seq(Callbacks) /\ posted # <<>> /\ Head(posted) = c
        /\ Head(posted) = posted[1] /\ 1 \in 1 .. Len(posted) /\ c \in Early
        /\ c \notin Losses
  BY PostedTail DEF OnConfigured, OnConfigureFailed, IsNext, Early, Losses
<1>2. CASE Crash("onConfigured")
  BY <1>2, CrashKeepsHistory
<1>3. CASE ~Crash("onConfigured")
  <2>1. /\ posted' = Tail(posted) /\ camera'.device = camera.device
        /\ camera'.images = camera.images
    BY <1>3 DEF OnConfigured, OnConfigureFailed, CameraType
  <2>2. /\ fragment'.lifecycle = fragment.lifecycle /\ fragment'.surface = fragment.surface
        /\ fragment'.frames = fragment.frames
        /\ \/ /\ fragment'.told = "failed" /\ camera'.repeating = camera.repeating
              /\ fragment'.builder = fragment.builder \/ camera.device = "lost"
           \/ /\ fragment'.told = "opened" /\ fragment'.builder = TemplatePreview
              /\ camera'.repeating = TemplatePreview /\ camera.device = "open"
    BY <1>3 DEF OnConfigured, OnConfigureFailed, Tell, FragmentType, CameraType
  <2>3. camera.repeating = NoRequest /\ \A j \in 1 .. Len(posted) : posted[j] # "image"
    BY <1>1 DEF HistoryInv, PostedInv
  <2>4. fragment.lifecycle # "attached" /\ ~(fragment.lifecycle = "viewed" /\ fragment.surface = "none")
        /\ camera.device # "opening"
    BY <1>1 DEF HistoryInv, LifeInv, OwnershipInv
  <2>5. /\ PostedInv' /\ ImagesInv'
        /\ \A i \in 1 .. Len(posted') : posted'[i] \notin Early /\ posted'[i] # "image"
    BY <1>1, <2>1, <2>2, <2>3, TailKeepsPosted, TailKeepsImages, PostedTail DEF HistoryInv
  <2>6. fragment.lifecycle = "viewed" => camera.device # "closed"
    BY <1>1 DEF HistoryInv, LifeInv
  <2>7. LifeInv' /\ FailedInv' /\ SettingsAreRepeated' /\ OpenedIsTrue'
    BY <2>1, <2>2, <2>3, <2>4, <2>5, <2>6, FragmentTypes
       DEF HistoryInv, LifeInv, FailedInv, SettingsAreRepeated, OpenedIsTrue
  <2> QED
    BY <2>5, <2>7 DEF HistoryInv
<1> QED
  BY <1>2, <1>3

LEMMA LossKeepsHistory ==
    ASSUME Camera2Inv, HistoryInv, OnLost PROVE HistoryInv'
<1> USE DEF Camera2Inv, FragmentTypeOK
<1>1. /\ posted \in Seq(Callbacks) /\ posted # <<>> /\ posted[1] \in Losses
      /\ 1 \in 1 .. Len(posted) /\ posted' = Tail(posted)
      /\ camera'.images = camera.images /\ camera'.repeating = camera.repeating
      /\ camera'.device \in {camera.device, "disconnected"}
      /\ camera.device = "closed" => camera'.device = "closed"
  BY PostedTail DEF OnLost, SessionClosed, IsNext, Losses, CameraType
<1>2. /\ fragment'.lifecycle = fragment.lifecycle /\ fragment'.surface = fragment.surface
      /\ fragment'.frames = fragment.frames /\ fragment'.builder = fragment.builder
      /\ \/ fragment'.told = "failed"
         \/ camera.device = "closed" /\ fragment'.told = fragment.told
  <2>1. CASE camera.device = "closed"
    BY <2>1 DEF OnLost
  <2>2. CASE camera.device # "closed"
    <3>1. fragment' = [[fragment EXCEPT !.cameraDevice = "camera"] EXCEPT !.told = "failed"]
      BY <2>2 DEF OnLost, Tell
    <3> QED BY <3>1 DEF FragmentType
  <2> QED BY <2>1, <2>2
<1>3. /\ camera.device \in {"lost", "disconnected", "closed"} /\ camera.repeating = NoRequest
      /\ fragment.lifecycle # "attached" /\ ~(fragment.lifecycle = "viewed" /\ fragment.surface = "none")
      /\ fragment.lifecycle = "viewed" => camera.device # "closed"
  BY <1>1 DEF HistoryInv, PostedInv, LifeInv, OwnershipInv
<1>4. \A i \in 1 .. Len(posted') : posted'[i] # "image"
  BY <1>1, PostedTail DEF HistoryInv, PostedInv
<1>5. PostedInv' /\ ImagesInv'
  BY <1>1, <1>2, TailKeepsPosted, TailKeepsImages DEF HistoryInv
<1>6. LifeInv' /\ FailedInv' /\ SettingsAreRepeated' /\ OpenedIsTrue'
  BY <1>1, <1>2, <1>3, <1>4 DEF HistoryInv, LifeInv, FailedInv, SettingsAreRepeated, OpenedIsTrue
<1> QED
  BY <1>5, <1>6 DEF HistoryInv

LEMMA ImageKeepsHistory ==
    ASSUME Camera2Inv, HistoryInv, OnImageAvailable PROVE HistoryInv'
<1> USE DEF Camera2Inv, FragmentTypeOK
<1>1. /\ posted \in Seq(Callbacks) /\ posted # <<>> /\ Head(posted) = "image" /\ posted[1] = "image"
      /\ 1 \in 1 .. Len(posted) /\ "image" \notin Losses /\ "image" \notin Early
  BY PostedTail DEF OnImageAvailable, IsNext, Losses, Early
<1>2. CASE Crash("image") \/ Crash("padding")
  BY <1>2, CrashKeepsHistory
<1>3. CASE ~Crash("image") /\ ~Crash("padding")
  <2>1. /\ posted' = Tail(posted) /\ fragment' = fragment
        /\ camera'.device = camera.device /\ camera'.repeating = camera.repeating
        /\ camera'.images = IF fragment.frames = "heard" THEN camera.images - 1 ELSE camera.images
    BY <1>3 DEF OnImageAvailable, HearImage, IgnoreImage, CameraType
  <2>2. /\ \A i \in 1 .. Len(posted') : i \in Int /\ i >= 1 /\ i + 1 \in 1 .. Len(posted)
                                        /\ posted'[i] = posted[i + 1]
        /\ posted' = <<>> => Len(posted') = 0
    BY <1>1, <2>1, PostedTail
  <2>3. PostedInv'
    BY <1>1, <2>1, TailKeepsPosted DEF HistoryInv
  <2>4. ImagesInv'
    <3> SUFFICES ASSUME fragment.frames = "heard" PROVE ImagesInv'
      BY <2>1 DEF ImagesInv
    <3>1. camera.images \in {0, 1, 2} /\ camera'.images = camera.images - 1
      BY <2>1 DEF CameraType, MaxImages
    <3>2. camera.images = 1 => \A i \in 1 .. Len(posted') : posted'[i] # "image"
      BY <1>1, <2>2 DEF HistoryInv, ImagesInv
    <3>3. \A i, j \in 1 .. Len(posted') : posted'[i] = "image" /\ posted'[j] = "image" => i = j
      <4> SUFFICES ASSUME NEW i \in 1 .. Len(posted'), NEW j \in 1 .. Len(posted'),
                          posted'[i] = "image", posted'[j] = "image"
                   PROVE  i = j
        OBVIOUS
      <4>1. i + 1 = j + 1 \/ j + 1 = 1 \/ i + 1 = 1
        BY <1>1, <2>2 DEF HistoryInv, ImagesInv
      <4> QED
        BY <2>2, <4>1
    <3>4. camera.images # 0
      BY <1>1 DEF HistoryInv, ImagesInv
    <3> QED
      BY <3>1, <3>2, <3>3, <3>4 DEF ImagesInv
  <2>5. OpenedIsTrue'
    BY <1>1, <2>1, LossStays DEF HistoryInv, OpenedIsTrue
  <2>6. LifeInv' /\ FailedInv' /\ SettingsAreRepeated'
    BY <1>1, <2>1, <2>2 DEF HistoryInv, LifeInv, FailedInv, SettingsAreRepeated
  <2> QED
    BY <2>3, <2>4, <2>5, <2>6 DEF HistoryInv
<1> QED
  BY <1>2, <1>3

\* The camera posts a frame only while it repeats a request, and so after it was
\* configured and before it is lost.
LEMMA CameraKeepsHistory ==
    ASSUME Camera2Inv, HistoryInv, AnswerOpen \/ LoseCamera \/ CaptureImage PROVE HistoryInv'
<1> USE DEF Camera2Inv, FragmentTypeOK
<1>1. fragment' = fragment /\ posted \in Seq(Callbacks)
  BY DEF AnswerOpen, LoseCamera, CaptureImage
<1>2. CASE AnswerOpen
  <2>1. PICK c \in {"opened", "disconnected", "error"} :
          /\ posted' = Append(posted, c)
          /\ camera'.device = IF c = "opened" THEN "open" ELSE "lost"
          /\ camera'.repeating = camera.repeating /\ camera'.images = camera.images
    BY <1>2 DEF AnswerOpen, Post, CameraType
  <2>2. /\ posted = <<>> /\ Len(posted) = 0 /\ camera.repeating = NoRequest /\ c \in Callbacks
        /\ fragment.builder = NoRequest /\ fragment.told # "failed"
    BY <1>2 DEF AnswerOpen, HistoryInv, LifeInv, Callbacks
  <2>3. Len(posted') = 1 /\ posted'[1] = c /\ c # "image" /\ c \notin Early \cap Losses
    BY <1>1, <2>1, <2>2, PostedAppend DEF Early, Losses
  <2>4. fragment.told = "opened" => fragment.lifecycle # "viewed"
    BY <2>2 DEF HistoryInv, OpenedIsTrue, LossPosted, IsPosted
  <2>5. fragment.lifecycle # "attached" /\ ~(fragment.lifecycle = "viewed" /\ fragment.surface = "none")
    BY <1>2 DEF AnswerOpen, HistoryInv, LifeInv, OwnershipInv, ClosedCamera
  <2>6. PostedInv' /\ ImagesInv'
    BY <2>1, <2>2, <2>3 DEF PostedInv, ImagesInv, Early, Losses
  <2>7. LifeInv' /\ FailedInv' /\ SettingsAreRepeated' /\ OpenedIsTrue'
    BY <1>1, <2>1, <2>2, <2>4, <2>5
       DEF HistoryInv, LifeInv, FailedInv, SettingsAreRepeated, OpenedIsTrue
  <2> QED
    BY <2>6, <2>7 DEF HistoryInv
<1>3. CASE LoseCamera
  <2>1. PICK c \in Losses :
          /\ posted' = Append(posted, c)
          /\ camera'.device = "lost" /\ camera'.repeating = NoRequest
          /\ camera'.images = camera.images /\ camera.device = "open"
    BY <1>3 DEF LoseCamera, Post, CameraType, Losses
  <2>2. /\ c \in Callbacks /\ c # "image" /\ c \notin Early
    BY DEF Callbacks, Losses, Early
  <2>3. /\ Len(posted) \in Nat /\ Len(posted') = Len(posted) + 1
        /\ \A i \in 1 .. Len(posted) : posted'[i] = posted[i]
        /\ posted'[Len(posted) + 1] = c
    BY <1>1, <2>1, <2>2, PostedAppend
  <2>4. \A i \in 1 .. Len(posted') :
          /\ i \in Int
          /\ \/ i \in 1 .. Len(posted) /\ posted'[i] = posted[i]
             \/ i = Len(posted') /\ posted'[i] = c
    <3> SUFFICES ASSUME NEW i \in 1 .. Len(posted')
                 PROVE  /\ i \in Int
                        /\ \/ i \in 1 .. Len(posted) /\ posted'[i] = posted[i]
                           \/ i = Len(posted') /\ posted'[i] = c
      OBVIOUS
    <3>1. i \in 1 .. Len(posted) + 1
      BY <2>3
    <3>2. i \in Int /\ (i \in 1 .. Len(posted) \/ i = Len(posted) + 1)
      BY <2>3, <3>1, LastOrBefore
    <3> QED
      BY <2>3, <3>2
  <2>5. LossPosted'
    BY <2>1, <2>3 DEF LossPosted, IsPosted, Losses
  <2>6. fragment.lifecycle # "attached" /\ ~(fragment.lifecycle = "viewed" /\ fragment.surface = "none")
    BY <2>1 DEF HistoryInv, LifeInv, OwnershipInv, ClosedCamera
  <2>7. PostedInv'
    <3> SUFFICES ASSUME NEW i \in 1 .. Len(posted')
                 PROVE  /\ posted'[i] \in Early =>
                             i = 1 /\ \A j \in 1 .. Len(posted') : posted'[j] # "image"
                        /\ posted'[i] \in Losses =>
                             \A j \in 1 .. Len(posted') : i < j => posted'[j] # "image"
      BY <2>1 DEF PostedInv
    <3>1. ASSUME posted'[i] \in Early
          PROVE  i = 1 /\ \A j \in 1 .. Len(posted') : posted'[j] # "image"
      BY <2>2, <2>4, <3>1 DEF HistoryInv, PostedInv
    <3>2. ASSUME posted'[i] \in Losses
          PROVE  \A j \in 1 .. Len(posted') : i < j => posted'[j] # "image"
      BY <2>1, <2>2, <2>3, <2>4, <3>2 DEF HistoryInv, PostedInv
    <3> QED
      BY <3>1, <3>2
  <2>8. ImagesInv'
    BY <1>1, <2>1, <2>2, <2>4 DEF HistoryInv, ImagesInv
  <2>9. LifeInv' /\ FailedInv' /\ SettingsAreRepeated' /\ OpenedIsTrue'
    BY <1>1, <2>1, <2>2, <2>4, <2>5, <2>6
       DEF HistoryInv, LifeInv, FailedInv, SettingsAreRepeated, OpenedIsTrue
  <2> QED
    BY <2>7, <2>8, <2>9 DEF HistoryInv
<1>4. CASE CaptureImage
  <2>1. /\ posted' = Append(posted, "image")
        /\ camera'.device = camera.device /\ camera'.repeating = camera.repeating
        /\ camera.repeating # NoRequest
        /\ camera'.images = camera.images + 1 /\ camera.images \in {0, 1}
    BY <1>4 DEF CaptureImage, Post, CameraType, MaxImages
  <2>2. camera.device = "open" /\ "image" \in Callbacks /\ "image" \notin Early \cup Losses
    BY <2>1 DEF HistoryInv, LifeInv, Callbacks, Early, Losses
  <2>3. /\ Len(posted) \in Nat /\ Len(posted') = Len(posted) + 1
        /\ \A i \in 1 .. Len(posted) : posted'[i] = posted[i]
        /\ posted'[Len(posted) + 1] = "image"
    BY <1>1, <2>1, <2>2, PostedAppend
  <2>4. \A i \in 1 .. Len(posted') :
          /\ i \in Int
          /\ \/ i \in 1 .. Len(posted) /\ posted'[i] = posted[i]
             \/ i = Len(posted') /\ posted'[i] = "image"
    <3> SUFFICES ASSUME NEW i \in 1 .. Len(posted')
                 PROVE  /\ i \in Int
                        /\ \/ i \in 1 .. Len(posted) /\ posted'[i] = posted[i]
                           \/ i = Len(posted') /\ posted'[i] = "image"
      OBVIOUS
    <3>1. i \in 1 .. Len(posted) + 1
      BY <2>3
    <3>2. i \in Int /\ (i \in 1 .. Len(posted) \/ i = Len(posted) + 1)
      BY <2>3, <3>1, LastOrBefore
    <3> QED
      BY <2>3, <3>2
  <2>5. \A i \in 1 .. Len(posted) : posted[i] \notin Early \cup Losses
    BY <2>1, <2>2 DEF HistoryInv, PostedInv
  <2>6. fragment.lifecycle # "attached" /\ ~(fragment.lifecycle = "viewed" /\ fragment.surface = "none")
    BY <2>2 DEF HistoryInv, LifeInv, OwnershipInv, ClosedCamera
  <2>7. PostedInv'
    BY <2>2, <2>4, <2>5 DEF PostedInv
  <2>8. ImagesInv'
    <3> SUFFICES ASSUME fragment.frames = "heard" PROVE ImagesInv'
      BY <1>1 DEF ImagesInv
    <3>1. camera.images = 0 => \A i \in 1 .. Len(posted') : posted'[i] = "image" => i = Len(posted')
      BY <2>4 DEF HistoryInv, ImagesInv
    <3>2. camera.images = 1 =>
            \A i, j \in 1 .. Len(posted') :
              posted'[i] = "image" /\ posted'[j] = "image" => i = j \/ i = Len(posted') \/ j = Len(posted')
      BY <2>4 DEF HistoryInv, ImagesInv
    <3>3. \A i, j, k \in 1 .. Len(posted') :
            posted'[i] = "image" /\ posted'[j] = "image" /\ posted'[k] = "image" => i = j \/ j = k \/ i = k
      BY <2>1, <3>1, <3>2
    <3>4. camera'.images = 1 => camera.images = 0
      BY <2>1
    <3>5. camera'.images # 0
      BY <2>1
    <3> QED
      BY <1>1, <3>1, <3>3, <3>4, <3>5 DEF ImagesInv
  <2>9. LifeInv' /\ FailedInv' /\ SettingsAreRepeated' /\ OpenedIsTrue'
    BY <1>1, <2>1, <2>2, <2>6
       DEF HistoryInv, LifeInv, FailedInv, SettingsAreRepeated, OpenedIsTrue
  <2> QED
    BY <2>7, <2>8, <2>9 DEF HistoryInv
<1> QED
  BY <1>2, <1>3, <1>4

\* The touches: what a preview in use asks of the camera it repeats from then on.
LEMMA RequestKeepsHistory ==
    ASSUME Camera2Inv, HistoryInv, fragment.lifecycle = "viewed", Focusable,
           NEW request \in Requests, SetRepeatingRequest(request)
    PROVE  HistoryInv'
<1> USE DEF Camera2Inv, FragmentTypeOK
<1>1. CASE camera.device \in {"closed", "disconnected"}
  BY <1>1, CrashKeepsHistory DEF SetRepeatingRequest
<1>2. CASE camera.device \notin {"closed", "disconnected"}
  <2>1. /\ posted' = posted
        /\ fragment'.builder = request /\ fragment'.lifecycle = "viewed"
        /\ fragment'.surface = fragment.surface /\ fragment'.told = fragment.told
        /\ fragment'.frames = fragment.frames
        /\ camera'.device = camera.device /\ camera'.images = camera.images
        /\ camera'.repeating = IF camera.device = "open" THEN request ELSE camera.repeating
    BY <1>2 DEF SetRepeatingRequest, FragmentType, CameraType
  <2>2. request # NoRequest
    BY FragmentTypes
  <2>3. fragment.builder # NoRequest /\ camera.device # "opening"
        /\ ~(fragment.lifecycle = "viewed" /\ fragment.surface = "none")
    BY DEF Focusable, HistoryInv, LifeInv
  <2>4. camera.device = "open" => camera.repeating # NoRequest
    BY <2>3 DEF HistoryInv, SettingsAreRepeated
  <2>5. PostedInv' /\ ImagesInv'
    BY <2>1, <2>4, SamePosted
  <2>6. OpenedIsTrue'
    BY <2>1, <2>2 DEF HistoryInv, OpenedIsTrue, LossPosted, IsPosted
  <2>7. LifeInv' /\ FailedInv' /\ SettingsAreRepeated'
    BY <1>2, <2>1, <2>2, <2>3, <2>4 DEF HistoryInv, LifeInv, FailedInv, SettingsAreRepeated
  <2> QED
    BY <2>5, <2>6, <2>7 DEF HistoryInv
<1> QED
  BY <1>1, <1>2

LEMMA SameHistory ==
    ASSUME HistoryInv, UNCHANGED camera2Vars PROVE HistoryInv'
  BY DEF HistoryInv, camera2Vars, LifeInv, PostedInv, FailedInv, ImagesInv, OpenedIsTrue,
         SettingsAreRepeated, LossPosted, IsPosted

LEMMA TouchKeepsHistory ==
    ASSUME Camera2Inv, HistoryInv, TouchView PROVE HistoryInv'
<1> USE DEF Camera2Inv, FragmentTypeOK
<1>1. fragment.lifecycle = "viewed"
  BY DEF TouchView
<1>2. CASE UNCHANGED camera2Vars
  BY <1>2, SameHistory
<1>3. CASE Crash("area") \/ Crash("range")
  BY <1>3, CrashKeepsHistory
<1>4. ASSUME Focusable, NEW request \in Requests, SetRepeatingRequest(request) PROVE HistoryInv'
  BY <1>1, <1>4, RequestKeepsHistory
<1>5. Focusable => /\ [fragment.builder EXCEPT !.afTrigger = "idle"] \in Requests
                   /\ [afTrigger |-> "start", exposure |-> "asMeasured"] \in Requests
                   /\ \A e \in Exposures : [fragment.builder EXCEPT !.exposure = e] \in Requests
  <2>1. "asMeasured" \in Exposures
    BY DEF Exposures
  <2>2. Focusable => fragment.builder \in Requests
    BY DEF Focusable, FragmentType
  <2> QED BY <2>1, <2>2, FragmentTypes
<1> QED
  BY <1>2, <1>3, <1>4, <1>5 DEF TouchView, OnFocusChange, OnExposureChange

\* A new fragment, for which nothing was opened yet.
LEMMA BuiltHistory ==
    ASSUME fragment \in Built, camera = ClosedCamera, posted = <<>> PROVE HistoryInv
<1>1. /\ fragment.lifecycle = "attached" /\ fragment.surface = "none"
      /\ fragment.builder = NoRequest /\ fragment.told = "nothing"
      /\ camera.device = "closed" /\ camera.repeating = NoRequest
      /\ Len(posted) = 0
  BY DEF Built, ClosedCamera
<1> QED
  BY <1>1 DEF HistoryInv, LifeInv, PostedInv, FailedInv, ImagesInv, OpenedIsTrue,
              SettingsAreRepeated

LEMMA HistoryStep == Camera2Inv /\ HistoryInv /\ [Camera2Next]_allVars => HistoryInv'
<1> SUFFICES ASSUME Camera2Inv, HistoryInv, [Camera2Next]_allVars PROVE HistoryInv'
  OBVIOUS
<1>1. CASE OnViewCreated \/ OnSurfaceTextureAvailable \/ OnDestroy
  BY <1>1, HandlersKeepHistory
<1>2. CASE Reopen
  <2>1. posted' = <<>> /\ fragment' \in Built /\ camera' = ClosedCamera
    BY <1>2 DEF Reopen, Camera2Inv, OwnershipInv
  <2>2. (fragment \in Built /\ camera = ClosedCamera /\ posted = <<>> => HistoryInv)'
    BY BuiltHistory, PTL
  <2> QED
    BY <2>1, <2>2
<1>3. CASE RunPosted
  BY <1>3, OpenedKeepsHistory, ConfiguredKeepsHistory, LossKeepsHistory, ImageKeepsHistory
     DEF RunPosted
<1>4. CASE TouchView
  BY <1>4, TouchKeepsHistory
<1>5. CASE AnswerOpen \/ LoseCamera \/ CaptureImage
  BY <1>5, CameraKeepsHistory
<1>6. CASE (\E t \in Faders : FadeFrame(t)) \/ UNCHANGED allVars
  BY <1>6, SameHistory DEF FadeFrame, allVars
<1> QED
  BY <1>1, <1>2, <1>3, <1>4, <1>5, <1>6 DEF Camera2Next

LEMMA HistoryInvariance == Camera2Spec => [](Camera2Inv /\ HistoryInv)
<1>1. Camera2Init => HistoryInv
  BY BuiltHistory DEF Camera2Init
<1> QED
  BY <1>1, HistoryStep, FragmentInvariance, PTL DEF Camera2Spec

-----------------------------------------------------------------------------
\* While onCameraState said last that the camera is open, it runs or its loss is
\* on the way (initPreviewSession, DeviceStateCallback).
THEOREM OpenedStaysTrue == Camera2Spec => []OpenedIsTrue
<1>1. HistoryInv => OpenedIsTrue
  BY DEF HistoryInv
<1> QED
  BY <1>1, HistoryInvariance, PTL

\* The camera repeats what the last touch asked for (setRepeatingRequest in
\* onFocusChange and onExposureChange), whatever the order of the touches.
THEOREM SettingsRepeated == Camera2Spec => []SettingsAreRepeated
<1>1. HistoryInv => SettingsAreRepeated
  BY DEF HistoryInv
<1> QED
  BY <1>1, HistoryInvariance, PTL

\* After onCameraState(false) no frame comes any more.
THEOREM NothingAfterFailure == Camera2Spec => []NoFrameAfterFailure
<1>1. HistoryInv => NoFrameAfterFailure
  BY DEF HistoryInv, FailedInv, NoFrameAfterFailure, IsPosted
<1> QED
  BY <1>1, HistoryInvariance, PTL

\* What neither a touch nor a frame does leaves a preview in use alive.
LEMMA EndsOf ==
    ASSUME Camera2Inv, HistoryInv, Camera2Next, fragment.lifecycle = "viewed",
           fragment'.lifecycle = "crashed"
    PROVE  \/ TouchView /\ \E cause \in {"request", "range", "area"} : Crash(cause)
           \/ Crash("padding") /\ fragment.rows = "padded"
<1> USE DEF Camera2Inv, FragmentTypeOK
<1>1. /\ posted # <<>> => camera.device # "closed" /\ fragment.surface # "none"
      /\ fragment.frames = "heard" /\ camera.images = 0 =>
           \A i \in 1 .. Len(posted) : posted[i] # "image"
      /\ fragment \in FragmentType
  BY DEF HistoryInv, LifeInv, ImagesInv
<1>2. CASE OnViewCreated \/ OnSurfaceTextureAvailable \/ OnDestroy \/ Reopen
  <2>1. CASE OnSurfaceTextureAvailable
    BY <1>1, <2>1 DEF OnSurfaceTextureAvailable, Tell, FragmentType
  <2>2. CASE OnDestroy
    BY <1>1, <2>2 DEF OnDestroy, CloseCamera, FragmentType
  <2> QED
    BY <1>2, <2>1, <2>2 DEF OnViewCreated, Reopen
<1>3. CASE RunPosted
  <2>1. CASE OnImageAvailable
    <3>1. posted[1] = "image" /\ 1 \in 1 .. Len(posted)
      BY <2>1 DEF OnImageAvailable, IsNext
    <3>2. fragment.frames = "heard" => camera.images # 0
      BY <1>1, <3>1
    <3>3. fragment' # fragment
      OBVIOUS
    <3> QED
      BY <2>1, <3>2, <3>3 DEF OnImageAvailable, HearImage, IgnoreImage, CameraType, MaxImages
  <2>2. CASE OnOpened \/ OnConfigured
    <3>1. camera.device # "closed" /\ fragment.surface # "none"
      BY <1>1, <2>2 DEF OnOpened, OnConfigured, IsNext
    <3> QED
      BY <1>1, <2>2, <3>1 DEF OnOpened, OnConfigured, Tell, FragmentType
  <2>3. CASE OnConfigureFailed \/ OnLost
    BY <1>1, <2>3 DEF OnConfigureFailed, OnLost, Tell, FragmentType
  <2> QED
    BY <1>3, <2>1, <2>2, <2>3 DEF RunPosted
<1>4. CASE TouchView
  <2>1. ASSUME NEW request, SetRepeatingRequest(request)
        PROVE  Crash("request")
    BY <1>1, <2>1 DEF SetRepeatingRequest, FragmentType
  <2>2. ~UNCHANGED camera2Vars
    BY DEF camera2Vars
  <2> QED
    BY <1>4, <2>1, <2>2 DEF TouchView, OnFocusChange, OnExposureChange
<1>5. CASE AnswerOpen \/ LoseCamera \/ CaptureImage \/ \E t \in Faders : FadeFrame(t)
  BY <1>5 DEF AnswerOpen, LoseCamera, CaptureImage, FadeFrame, camera2Vars
<1> QED
  BY <1>2, <1>3, <1>4, <1>5 DEF Camera2Next

\* A fragment that is not viewed ends otherwise than by a touch.
LEMMA EndsElsewhere ==
    ASSUME Camera2Inv, Camera2Next, fragment.lifecycle # "viewed", fragment.crash = "none",
           fragment'.crash \in {"request", "range", "area"}
    PROVE  FALSE
<1> USE DEF Camera2Inv, FragmentTypeOK
<1>1. \A cause : Crash(cause) => fragment'.crash = cause
  BY DEF Crash, FragmentType
<1>2. CASE OnViewCreated \/ OnSurfaceTextureAvailable \/ OnDestroy \/ Reopen \/ TouchView
  <2>1. CASE OnViewCreated
    BY <2>1 DEF OnViewCreated, Tell, FragmentType
  <2>2. CASE Reopen
    BY <2>2 DEF Reopen, Built
  <2> QED
    BY <1>2, <2>1, <2>2 DEF OnSurfaceTextureAvailable, OnDestroy, TouchView
<1>3. CASE RunPosted
  <2>1. fragment'.crash # fragment.crash
    OBVIOUS
  <2>2. CASE OnImageAvailable
    BY <1>1, <2>1, <2>2 DEF OnImageAvailable, HearImage, IgnoreImage
  <2>3. CASE OnOpened \/ OnConfigured
    BY <1>1, <2>3 DEF OnOpened, OnConfigured, Tell, FragmentType
  <2>4. CASE OnConfigureFailed \/ OnLost
    BY <2>4 DEF OnConfigureFailed, OnLost, Tell, FragmentType
  <2> QED
    BY <1>3, <2>2, <2>3, <2>4 DEF RunPosted
<1>4. CASE AnswerOpen \/ LoseCamera \/ CaptureImage \/ \E t \in Faders : FadeFrame(t)
  BY <1>4 DEF AnswerOpen, LoseCamera, CaptureImage, FadeFrame, camera2Vars
<1> QED
  BY <1>2, <1>3, <1>4 DEF Camera2Next

\* No answer, loss or frame ends a preview in use, except the frame of a camera that
\* pads its rows; when a touch may, TouchSafety says.
THEOREM PreviewSurvives == Camera2Spec => UsedPreviewSurvives
<1>1. ASSUME Camera2Inv, HistoryInv, Camera2Next, fragment.lifecycle = "viewed",
             fragment'.lifecycle = "crashed"
      PROVE  \/ fragment'.crash \in {"request", "range", "area"}
             \/ fragment'.crash = "padding" /\ fragment.rows = "padded"
  <2>1. \A cause : Crash(cause) => fragment'.crash = cause
    BY <1>1 DEF Crash, Camera2Inv, FragmentTypeOK, FragmentType
  <2> QED
    BY <1>1, <2>1, EndsOf
<1> QED
  BY <1>1, HistoryInvariance, PTL DEF Camera2Spec, UsedPreviewSurvives

\* What a touch may ask of a camera in vain, in whatever order it meets a loss and
\* its report, for any sizes and any place near the view.
THEOREM TouchSafety == Camera2Spec => TouchesAreSafe
<1>1. ASSUME Camera2Inv, HistoryInv, Camera2Next, fragment.crash = "none",
             fragment'.crash \in {"request", "range", "area"}
      PROVE  /\ fragment'.crash = "request" => fragment.told = "failed"
             /\ fragment'.crash = "range" => camera.repeating = NoRequest
             /\ fragment'.crash = "area" =>
                  \/ Turned(fragment.size, fragment.view).width > fragment.view.width
                  \/ Turned(fragment.size, fragment.view).height > fragment.view.height
                  \/ finger = "dragged"
  <2> USE <1>1 DEF Camera2Inv, FragmentTypeOK
  <2>1. Camera2Inv'
    BY Camera2Step
  <2>2. fragment'.lifecycle = "crashed"
    BY <2>1 DEF OwnershipInv
  <2>3. \A cause : Crash(cause) => fragment'.crash = cause
    BY DEF Crash, FragmentType
  <2>4. TouchView
    <3>1. CASE fragment.lifecycle = "viewed"
      BY <2>2, <2>3, <3>1, EndsOf
    <3>2. CASE fragment.lifecycle # "viewed"
      BY <2>2, <2>3, <3>2, EndsElsewhere
    <3> QED
      BY <3>1, <3>2
  <2>5. fragment.lifecycle = "viewed"
    BY <2>4 DEF TouchView
  <2>6. Focusable => camera.device # "closed"
    BY <2>5 DEF Focusable, OwnershipInv, FragmentType
  <2>7. ASSUME fragment'.crash = "request" PROVE fragment.told = "failed"
    <3>1. PICK request : Focusable /\ SetRepeatingRequest(request)
      BY <2>3, <2>4, <2>7 DEF TouchView, OnFocusChange, OnExposureChange, camera2Vars
    <3>2. camera.device = "disconnected"
      BY <2>6, <2>7, <3>1 DEF SetRepeatingRequest, FragmentType
    <3> QED
      BY <3>2 DEF HistoryInv, LifeInv
  <2>8. ASSUME fragment'.crash = "range" PROVE camera.repeating = NoRequest
    <3>1. ASSUME NEW request, SetRepeatingRequest(request) PROVE fragment'.crash # "range"
      BY <2>3, <3>1 DEF SetRepeatingRequest, FragmentType
    <3>2. camera.device \in {"lost", "disconnected"}
      BY <2>3, <2>4, <2>8, <3>1 DEF TouchView, OnFocusChange, OnExposureChange, camera2Vars
    <3> QED
      BY <3>2 DEF HistoryInv, LifeInv
  <2>9. ASSUME fragment'.crash = "area", finger # "dragged",
               Turned(fragment.size, fragment.view).width <= fragment.view.width,
               Turned(fragment.size, fragment.view).height <= fragment.view.height
        PROVE  FALSE
    <3>1. ASSUME NEW request, SetRepeatingRequest(request) PROVE fragment'.crash # "area"
      BY <2>3, <3>1 DEF SetRepeatingRequest, FragmentType
    <3>2. PICK x \in Along(fragment.view.width), y \in Along(fragment.view.height) :
            ~IsRectangle(MeteringArea(x, y, fragment.size, fragment.view))
      BY <2>3, <2>4, <2>9, <3>1
         DEF TouchView, TapsAcross, OnFocusChange, OnExposureChange, camera2Vars
    <3>3. /\ fragment.size \in PreviewSizes \cup {NoSize} /\ fragment.view \in ViewSizes
          /\ fragment.view.width \in Nat /\ fragment.view.height \in Nat
      BY SizeAssumption DEF FragmentType
    <3>4. /\ x \in -TapSlop .. fragment.view.width + TapSlop
          /\ y \in -TapSlop .. fragment.view.height + TapSlop
      BY <3>2, <3>3, TapsNearby
    <3> QED
      BY <2>9, <3>2, <3>3, <3>4, TapHasArea
  <2>10. /\ Turned(fragment.size, fragment.view).width \in Nat
         /\ Turned(fragment.size, fragment.view).height \in Nat
         /\ fragment.view.width \in Nat /\ fragment.view.height \in Nat
    BY SizeAssumption DEF FragmentType, Turned, NoSize
  <2> QED
    BY <2>7, <2>8, <2>9, <2>10
<1>2. Camera2Inv /\ HistoryInv /\ [Camera2Next]_allVars =>
        [/\ Crashes("request") => fragment.told = "failed"
         /\ Crashes("range") => camera.repeating = NoRequest
         /\ Crashes("area") =>
              \/ Turned(fragment.size, fragment.view).width > fragment.view.width
              \/ Turned(fragment.size, fragment.view).height > fragment.view.height
              \/ finger = "dragged"]_allVars
  BY <1>1 DEF Crashes
<1> QED
  BY <1>2, HistoryInvariance, PTL DEF Camera2Spec, TouchesAreSafe

-----------------------------------------------------------------------------
(* What is on its way: the frames a full reader waits for *)

\* The reader holds no more frames than are posted.
HeldInv ==
    fragment.frames = "heard" =>
        /\ camera.images >= 1 => \E i \in 1 .. Len(posted) : posted[i] = "image"
        /\ camera.images = 2 =>
             \E i, j \in 1 .. Len(posted) : i # j /\ posted[i] = "image" /\ posted[j] = "image"

\* When the reader is full, the callback that gives a frame back is the next one
\* the looper runs.
FullReaderIsNext ==
    fragment.frames = "heard" /\ camera.images = MaxImages => IsNext("image")

\* Another callback ran, or one was posted.
LEMMA TailKeepsHeld ==
    ASSUME posted \in Seq(Callbacks), posted # <<>>, posted' = Tail(posted), Head(posted) # "image",
           HeldInv, fragment'.frames = fragment.frames, camera'.images = camera.images
    PROVE  HeldInv'
<1>1. /\ \A i \in 1 .. Len(posted) : i \in Int
      /\ \A i \in 1 .. Len(posted) : posted[i] = "image" =>
           i - 1 \in 1 .. Len(posted') /\ posted'[i - 1] = "image"
  BY PostedTail
<1>2. ASSUME NEW i \in 1 .. Len(posted), posted[i] = "image"
      PROVE  i - 1 \in 1 .. Len(posted') /\ posted'[i - 1] = "image"
  BY <1>1, <1>2
<1>3. ASSUME NEW i \in 1 .. Len(posted), NEW j \in 1 .. Len(posted), i # j PROVE i - 1 # j - 1
  BY <1>1, <1>3
<1>4. (\E i \in 1 .. Len(posted) : posted[i] = "image")
        => \E i \in 1 .. Len(posted') : posted'[i] = "image"
  BY <1>2
<1>5. (\E i, j \in 1 .. Len(posted) : i # j /\ posted[i] = "image" /\ posted[j] = "image")
        => \E i, j \in 1 .. Len(posted') : i # j /\ posted'[i] = "image" /\ posted'[j] = "image"
  BY <1>2, <1>3
<1> QED
  BY <1>4, <1>5 DEF HeldInv

LEMMA AppendKeepsHeld ==
    ASSUME posted \in Seq(Callbacks), NEW c \in Callbacks, posted' = Append(posted, c),
           HeldInv, fragment'.frames = fragment.frames, camera'.images = camera.images
    PROVE  HeldInv'
<1>1. \A i \in 1 .. Len(posted) : i \in 1 .. Len(posted') /\ posted'[i] = posted[i]
  BY PostedAppend
<1> QED
  BY <1>1 DEF HeldInv

\* Before the first frame the reader is empty.
LEMMA NothingHeldEarly ==
    ASSUME Camera2Inv, HistoryInv, HeldInv, posted # <<>>, Head(posted) \in Early,
           fragment.frames = "heard"
    PROVE  camera.images = 0
<1>1. 1 \in 1 .. Len(posted) /\ posted[1] \in Early
  BY PostedTail DEF Camera2Inv, FragmentTypeOK
<1>2. \A j \in 1 .. Len(posted) : posted[j] # "image"
  BY <1>1 DEF HistoryInv, PostedInv
<1>3. camera.images \in {0, 1, 2}
  BY DEF Camera2Inv, FragmentTypeOK, CameraType, MaxImages
<1> QED
  BY <1>2, <1>3 DEF HeldInv

LEMMA RunKeepsHeld ==
    ASSUME Camera2Inv, HistoryInv, HeldInv, RunPosted
    PROVE  HeldInv'
<1> USE DEF Camera2Inv, FragmentTypeOK
<1>1. posted \in Seq(Callbacks) /\ posted # <<>>
  BY DEF RunPosted, OnOpened, OnConfigured, OnConfigureFailed, OnLost, OnImageAvailable, IsNext
<1>2. ASSUME NEW cause, Crash(cause) PROVE HeldInv'
  BY <1>2 DEF Crash, ClosedCamera, HeldInv
<1>3. CASE OnOpened \/ OnConfigured \/ OnConfigureFailed
  <2>1. fragment'.frames = fragment.frames
    BY <1>3 DEF OnOpened, OnConfigured, OnConfigureFailed, Tell, Crash, FragmentType
  <2>2. Head(posted) \in Early
    BY <1>3 DEF OnOpened, OnConfigured, OnConfigureFailed, IsNext, Early
  <2>3. camera'.images \in {0, camera.images}
    BY <1>3 DEF OnOpened, OnConfigured, OnConfigureFailed, Crash, ClosedCamera, CameraType
  <2> QED
    BY <1>1, <2>1, <2>2, <2>3, NothingHeldEarly DEF HeldInv
<1>4. CASE OnLost
  <2>1. /\ fragment'.frames = fragment.frames /\ camera'.images = camera.images
        /\ posted' = Tail(posted)
    BY <1>4 DEF OnLost, SessionClosed, Tell, FragmentType, CameraType
  <2>2. Head(posted) # "image"
    BY <1>4 DEF OnLost, IsNext
  <2> QED
    BY <1>1, <2>1, <2>2, TailKeepsHeld
<1>5. CASE OnImageAvailable /\ ~Crash("image") /\ ~Crash("padding")
  <2>1. /\ fragment' = fragment /\ posted' = Tail(posted)
        /\ fragment.frames = "heard" => camera'.images = camera.images - 1
    BY <1>5 DEF OnImageAvailable, HearImage, IgnoreImage, CameraType
  <2>2. camera.images \in {0, 1, 2}
    BY DEF CameraType, MaxImages
  <2>3. SUFFICES ASSUME fragment.frames = "heard", camera.images = 2
                 PROVE  \E i \in 1 .. Len(posted') : posted'[i] = "image"
    BY <2>1, <2>2 DEF HeldInv
  <2>4. PICK i \in 1 .. Len(posted) : i # 1 /\ posted[i] = "image"
    BY <2>3 DEF HeldInv
  <2> QED
    BY <1>1, <2>1, <2>4, PostedTail
<1> QED
  BY <1>2, <1>3, <1>4, <1>5 DEF RunPosted

LEMMA CameraKeepsHeld ==
    ASSUME Camera2Inv, HeldInv, AnswerOpen \/ LoseCamera \/ CaptureImage
    PROVE  HeldInv'
<1> USE DEF Camera2Inv, FragmentTypeOK
<1>1. fragment' = fragment /\ posted \in Seq(Callbacks)
  BY DEF AnswerOpen, LoseCamera, CaptureImage
<1>2. CASE AnswerOpen \/ LoseCamera
  <2>1. PICK c \in Callbacks : posted' = Append(posted, c)
    BY <1>2 DEF AnswerOpen, LoseCamera, Post, Callbacks
  <2>2. camera'.images = camera.images
    BY <1>2 DEF AnswerOpen, LoseCamera, CameraType
  <2> QED
    BY <1>1, <2>1, <2>2, AppendKeepsHeld
<1>3. CASE CaptureImage
  <2>1. /\ posted' = Append(posted, "image") /\ "image" \in Callbacks
        /\ camera'.images = camera.images + 1 /\ camera.images \in {0, 1}
    BY <1>3 DEF CaptureImage, Post, CameraType, MaxImages, Callbacks
  <2>2. /\ Len(posted) \in Nat /\ Len(posted') = Len(posted) + 1
        /\ \A i \in 1 .. Len(posted) : posted'[i] = posted[i]
        /\ posted'[Len(posted) + 1] = "image"
    BY <1>1, <2>1, PostedAppend
  <2>3. Len(posted) + 1 \in 1 .. Len(posted')
        /\ \A i \in 1 .. Len(posted) : i # Len(posted) + 1 /\ i \in 1 .. Len(posted')
    BY <2>2
  <2>4. SUFFICES ASSUME fragment.frames = "heard", camera.images = 1
                 PROVE  \E i, j \in 1 .. Len(posted') :
                          i # j /\ posted'[i] = "image" /\ posted'[j] = "image"
    BY <1>1, <2>1, <2>2, <2>3 DEF HeldInv
  <2>5. PICK i \in 1 .. Len(posted) : posted[i] = "image"
    BY <2>4 DEF HeldInv
  <2> QED
    BY <2>2, <2>3, <2>5
<1> QED
  BY <1>2, <1>3

LEMMA HeldStep ==
    ASSUME Camera2Inv, HistoryInv, HeldInv, [Camera2Next]_allVars
    PROVE  HeldInv'
<1> USE DEF Camera2Inv, FragmentTypeOK
<1>1. CASE RunPosted
  BY <1>1, RunKeepsHeld
<1>2. CASE AnswerOpen \/ LoseCamera \/ CaptureImage
  BY <1>2, CameraKeepsHeld
<1>3. ASSUME camera'.images = 0 PROVE HeldInv'
  BY <1>3 DEF HeldInv
<1>4. ASSUME fragment'.frames = fragment.frames, camera'.images = camera.images, posted' = posted
      PROVE  HeldInv'
  BY <1>4 DEF HeldInv
<1>5. CASE OnViewCreated \/ OnSurfaceTextureAvailable \/ OnDestroy
  BY <1>4, <1>5
     DEF OnViewCreated, OnSurfaceTextureAvailable, OnDestroy, CloseCamera, Tell, FragmentType, CameraType
<1>6. CASE Reopen
  BY <1>3, <1>6 DEF Reopen, ClosedCamera
<1>7. CASE TouchView
  <2>1. ASSUME NEW request, SetRepeatingRequest(request) PROVE HeldInv'
    BY <1>3, <1>4, <2>1 DEF SetRepeatingRequest, Crash, ClosedCamera, FragmentType, CameraType
  <2>2. ASSUME NEW cause, Crash(cause) PROVE HeldInv'
    BY <1>3, <2>2 DEF Crash, ClosedCamera
  <2>3. CASE UNCHANGED camera2Vars
    BY <1>4, <2>3 DEF camera2Vars
  <2> QED
    BY <1>7, <2>1, <2>2, <2>3 DEF TouchView, OnFocusChange, OnExposureChange
<1>8. CASE (\E t \in Faders : FadeFrame(t)) \/ UNCHANGED allVars
  BY <1>4, <1>8 DEF FadeFrame, allVars, camera2Vars
<1> QED
  BY <1>1, <1>2, <1>5, <1>6, <1>7, <1>8 DEF Camera2Next

LEMMA HeldInvariance == Camera2Spec => []HeldInv
<1>1. Camera2Init => HeldInv
  BY DEF Camera2Init, ClosedCamera, HeldInv
<1> QED
  BY <1>1, HeldStep, HistoryInvariance, PTL DEF Camera2Spec

\* A full reader, which stops the camera, is one callback away from having room
\* again, whatever else was posted: the safety half of ReaderIsEmptied.
THEOREM FullReaderHeard == Camera2Spec => []FullReaderIsNext
<1>1. Camera2Inv /\ HistoryInv /\ HeldInv => FullReaderIsNext
  <2>1. SUFFICES ASSUME Camera2Inv, HistoryInv, HeldInv,
                        fragment.frames = "heard", camera.images = MaxImages
                 PROVE  IsNext("image")
    BY DEF FullReaderIsNext
  <2>2. PICK i \in 1 .. Len(posted) : posted[i] = "image"
    BY <2>1 DEF HeldInv, MaxImages
  <2>3. posted \in Seq(Callbacks) /\ posted # <<>> /\ Head(posted) = posted[1]
        /\ 1 \in 1 .. Len(posted) /\ posted[1] \in Callbacks /\ (i = 1 \/ 1 < i)
    BY <2>1, <2>2 DEF Camera2Inv, FragmentTypeOK
  <2>4. posted[1] \notin Early /\ posted[1] \notin Losses
    BY <2>1, <2>2, <2>3 DEF HistoryInv, PostedInv, Early, Losses
  <2> QED
    BY <2>3, <2>4 DEF IsNext, Callbacks, Early, Losses
<1> QED
  BY <1>1, HeldInvariance, HistoryInvariance, PTL

-----------------------------------------------------------------------------
(* What is on its way: the answer to opening a camera *)

\* The user sees the view, and nobody has heard yet how opening the camera went.
Waiting ==
    /\ fragment.surface = "available"
    /\ fragment.lifecycle = "viewed"
    /\ fragment.told = "nothing"

\* The answers there are still to be before somebody hears.
AnswersLeft ==
    IF camera.device = "opening" THEN 3
    ELSE IF IsNext("opened") THEN 2
    ELSE IF posted # <<>> /\ ~IsNext("image") THEN 1
    ELSE 0

AnswerInv == Waiting => AnswersLeft \in 1 .. 3

\* Three answers at most: while somebody waits one is always under way, nothing
\* puts it off, and each answer of camera2 and each callback the looper runs
\* leaves fewer.
AnswerIsBounded == [][
    Waiting =>
        /\ AnswersLeft \in 1 .. 3
        /\ Waiting' => AnswersLeft' <= AnswersLeft
        /\ Waiting' /\ (AnswerOpen \/ RunPosted) => AnswersLeft' < AnswersLeft]_allVars

\* What the looper runs while somebody waits is an answer, and all but onOpened
\* tell him.
LEMMA RunAnswers ==
    ASSUME Camera2Inv, HistoryInv, AnswerInv, RunPosted, Waiting'
    PROVE  Waiting /\ AnswersLeft = 2 /\ AnswersLeft' = 1
<1> USE DEF Camera2Inv, FragmentTypeOK, Waiting
<1>1. posted \in Seq(Callbacks) /\ posted # <<>> /\ Head(posted) = posted[1] /\ 1 \in 1 .. Len(posted)
  BY PostedTail DEF RunPosted, OnOpened, OnConfigured, OnConfigureFailed, OnLost, OnImageAvailable,
                    IsNext
<1>2. ~\E cause : Crash(cause)
  BY DEF Crash, FragmentType
<1>3. CASE OnOpened
  <2>1. PICK answer \in {"configured", "configureFailed"} :
          /\ camera.device = "open" /\ camera' = camera
          /\ posted' = Append(Tail(posted), answer)
          /\ fragment'.surface = fragment.surface /\ fragment'.lifecycle = fragment.lifecycle
          /\ fragment'.told = fragment.told
    BY <1>2, <1>3 DEF OnOpened, Tell, FragmentType
  <2>2. posted[1] = "opened" /\ Len(posted) = 1
    BY <1>1, <1>3, <2>1 DEF OnOpened, IsNext, HistoryInv, PostedInv, Early
  <2>3. Tail(posted) \in Seq(Callbacks) /\ Len(Tail(posted)) = 0 /\ answer \in Callbacks
    BY <1>1, <2>2 DEF Callbacks
  <2>4. posted' # <<>> /\ Head(posted') = answer
    <3>1. posted' \in Seq(Callbacks)
      BY <2>1, <2>3
    <3>2. Len(posted') = 1 /\ posted'[1] = answer
      BY <2>1, <2>3, OneAppended
    <3> QED
      BY <3>1, <3>2, FirstIsHead
  <2> QED
    BY <1>1, <2>1, <2>2, <2>4 DEF AnswersLeft, IsNext
<1>4. CASE OnConfigured \/ OnConfigureFailed
  BY <1>2, <1>4 DEF OnConfigured, OnConfigureFailed, Tell, FragmentType
<1>5. CASE OnLost
  <2>1. camera.device = "closed" /\ fragment' = fragment
    BY <1>5 DEF OnLost, Tell, FragmentType
  <2> QED
    BY <1>1, <2>1 DEF HistoryInv, LifeInv
<1>6. CASE OnImageAvailable
  <2>1. fragment' = fragment /\ IsNext("image")
    BY <1>2, <1>6 DEF OnImageAvailable, HearImage, IgnoreImage
  <2>2. camera.device # "opening"
    BY <1>1 DEF HistoryInv, LifeInv
  <2>3. AnswersLeft = 0
    BY <2>1, <2>2 DEF AnswersLeft, IsNext
  <2> QED
    BY <2>1, <2>3 DEF AnswerInv
<1> QED
  BY <1>3, <1>4, <1>5, <1>6 DEF RunPosted

\* camera2's own steps: the first answer, and what is posted behind it.
LEMMA CameraAnswers ==
    ASSUME Camera2Inv, HistoryInv, AnswerInv, AnswerOpen \/ LoseCamera \/ CaptureImage, Waiting'
    PROVE  /\ Waiting
           /\ AnswersLeft' \in 1 .. 3 /\ AnswersLeft' <= AnswersLeft
           /\ AnswerOpen => AnswersLeft' < AnswersLeft
<1> USE DEF Camera2Inv, FragmentTypeOK
<1>1. fragment' = fragment /\ posted \in Seq(Callbacks) /\ Waiting
  BY DEF AnswerOpen, LoseCamera, CaptureImage, Waiting
<1>2. CASE AnswerOpen
  <2>1. PICK c \in {"opened", "disconnected", "error"} :
          posted' = Append(posted, c) /\ camera'.device # "opening"
    BY <1>2 DEF AnswerOpen, Post, CameraType
  <2>2. posted = <<>> /\ camera.device = "opening"
    BY <1>2 DEF AnswerOpen, HistoryInv, LifeInv
  <2>3. posted' # <<>> /\ Head(posted') = c
    BY <2>1, <2>2
  <2> QED
    BY <1>1, <2>1, <2>2, <2>3 DEF AnswersLeft, IsNext
<1>3. CASE LoseCamera \/ CaptureImage
  <2>1. camera.device = "open" /\ camera'.device # "opening"
    BY <1>3 DEF LoseCamera, CaptureImage, HistoryInv, LifeInv, CameraType
  <2>2. PICK c \in Callbacks : posted' = Append(posted, c)
    BY <1>3 DEF LoseCamera, CaptureImage, Post, Callbacks
  <2>3. posted # <<>>
    BY <1>1, <2>1 DEF AnswerInv, AnswersLeft, IsNext
  <2>4. posted' # <<>> /\ Head(posted') = Head(posted)
    BY <1>1, <2>2, <2>3
  <2>5. AnswersLeft' = AnswersLeft /\ AnswersLeft \in 1 .. 3
    BY <1>1, <2>1, <2>3, <2>4 DEF AnswersLeft, IsNext, AnswerInv
  <2>6. ~AnswerOpen
    BY <2>1 DEF AnswerOpen
  <2> QED
    BY <1>1, <2>5, <2>6
<1> QED
  BY <1>2, <1>3

\* The handlers, the touches and the threads put no answer off.
LEMMA OthersWait ==
    ASSUME Camera2Inv, HistoryInv, AnswerInv, [Camera2Next]_allVars, Waiting',
           ~RunPosted, ~(AnswerOpen \/ LoseCamera \/ CaptureImage)
    PROVE  AnswersLeft' \in 1 .. 3 /\ (Waiting => AnswersLeft' <= AnswersLeft)
<1> USE DEF Camera2Inv, FragmentTypeOK, Waiting
<1>1. ~\E cause : Crash(cause)
  BY DEF Crash, FragmentType
<1>2. CASE OnViewCreated \/ OnDestroy \/ Reopen
  <2>1. OnViewCreated => fragment'.surface = fragment.surface /\ fragment.lifecycle = "attached"
    BY DEF OnViewCreated, Tell, FragmentType
  <2>2. ~OnViewCreated
    BY <2>1 DEF HistoryInv, LifeInv
  <2>3. ~OnDestroy
    BY DEF OnDestroy, CloseCamera, FragmentType
  <2>4. ~Reopen
    BY DEF Reopen, Built
  <2> QED
    BY <1>2, <2>2, <2>3, <2>4
<1>3. CASE OnSurfaceTextureAvailable
  <2>1. camera'.device = "opening"
    BY <1>3 DEF OnSurfaceTextureAvailable, Tell, FragmentType, CameraType
  <2>2. fragment.surface = "none"
    BY <1>3 DEF OnSurfaceTextureAvailable
  <2> QED
    BY <2>1, <2>2 DEF AnswersLeft
<1>4. ASSUME fragment'.surface = fragment.surface, fragment'.lifecycle = fragment.lifecycle,
             fragment'.told = fragment.told, camera'.device = camera.device, posted' = posted
      PROVE  AnswersLeft' \in 1 .. 3 /\ (Waiting => AnswersLeft' <= AnswersLeft)
  <2>1. AnswersLeft' = AnswersLeft /\ Waiting
    BY <1>4 DEF AnswersLeft, IsNext
  <2>2. AnswersLeft \in 1 .. 3
    BY <2>1 DEF AnswerInv
  <2> QED
    BY <2>1, <2>2
<1>5. CASE TouchView
  <2>1. ASSUME NEW request, SetRepeatingRequest(request)
        PROVE  AnswersLeft' \in 1 .. 3 /\ (Waiting => AnswersLeft' <= AnswersLeft)
    BY <1>1, <1>4, <2>1 DEF SetRepeatingRequest, FragmentType, CameraType
  <2>2. CASE UNCHANGED camera2Vars
    BY <1>4, <2>2 DEF camera2Vars
  <2> QED
    BY <1>1, <1>5, <2>1, <2>2 DEF TouchView, OnFocusChange, OnExposureChange
<1>6. CASE (\E t \in Faders : FadeFrame(t)) \/ UNCHANGED allVars
  BY <1>4, <1>6 DEF FadeFrame, allVars, camera2Vars
<1> QED
  BY <1>2, <1>3, <1>5, <1>6 DEF Camera2Next

LEMMA AnswerStep ==
    ASSUME Camera2Inv, HistoryInv, AnswerInv, [Camera2Next]_allVars
    PROVE  /\ AnswerInv'
           /\ Waiting /\ Waiting' => AnswersLeft' <= AnswersLeft
           /\ Waiting' /\ (AnswerOpen \/ RunPosted) => AnswersLeft' < AnswersLeft
<1>1. CASE RunPosted
  BY <1>1, RunAnswers DEF AnswerInv
<1>2. CASE AnswerOpen /\ ~RunPosted
  BY <1>2, CameraAnswers DEF AnswerInv
<1>3. CASE (LoseCamera \/ CaptureImage) /\ ~RunPosted /\ ~AnswerOpen
  BY <1>3, CameraAnswers DEF AnswerInv
<1>4. CASE ~RunPosted /\ ~(AnswerOpen \/ LoseCamera \/ CaptureImage)
  BY <1>4, OthersWait DEF AnswerInv
<1> QED
  BY <1>1, <1>2, <1>3, <1>4

\* Whoever opens a camera waits for three answers at most, whatever the touches,
\* the losses and the frames do meanwhile, and none of these answers gets lost:
\* the safety half of OpenIsAnswered.
THEOREM AnswerOnItsWay == Camera2Spec => AnswerIsBounded
<1>1. Camera2Init => AnswerInv
  BY DEF Camera2Init, Built, AnswerInv, Waiting
<1>2. Camera2Inv /\ HistoryInv /\ AnswerInv /\ [Camera2Next]_allVars =>
        /\ AnswerInv'
        /\ [Waiting => /\ AnswersLeft \in 1 .. 3
                       /\ Waiting' => AnswersLeft' <= AnswersLeft
                       /\ Waiting' /\ (AnswerOpen \/ RunPosted) =>
                            AnswersLeft' < AnswersLeft]_allVars
  BY AnswerStep DEF AnswerInv
<1> QED
  BY <1>1, <1>2, HistoryInvariance, PTL DEF Camera2Spec, AnswerIsBounded
=============================================================================
