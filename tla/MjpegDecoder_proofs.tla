------------------------- MODULE MjpegDecoder_proofs -------------------------
(* Theorems about the MJPEG decoder for any number of input and output        *)
(* buffers: DecoderInv is inductive, what is drawn is never older than what   *)
(* the decoder gave, and the decoder implements FrameChannel.                 *)
EXTENDS MjpegDecoder, SequenceTheorems, TLAPS

LEMMA TailFacts ==
    ASSUME NEW S, NEW s \in Seq(S), s # <<>>
    PROVE  /\ Len(s) >= 1 /\ Head(s) = s[1] /\ Head(s) \in S
           /\ Tail(s) \in Seq(S)
           /\ DOMAIN Tail(s) = 1 .. Len(s) - 1
           /\ \A i \in DOMAIN Tail(s) : i + 1 \in DOMAIN s /\ Tail(s)[i] = s[i + 1]
  BY HeadTailProperties, EmptySeq

LEMMA AppendFacts ==
    ASSUME NEW S, NEW s \in Seq(S), NEW e \in S
    PROVE  /\ Append(s, e) \in Seq(S) /\ Append(s, e) # <<>>
           /\ DOMAIN s = 1 .. Len(s) /\ Len(s) \in Nat
           /\ DOMAIN Append(s, e) = 1 .. Len(s) + 1
           /\ \A i \in DOMAIN s : Append(s, e)[i] = s[i]
           /\ Append(s, e)[Len(s) + 1] = e
  BY AppendProperties

\* The ages of frames are numbers, so "not before" is an order.
LEMMA FrameAges == Frames = {"old", "marked", "new"} /\ \A f \in Frames : Age[f] \in Nat
  BY DEF Frames, Age

LEMMA DecoderInitInv == DecoderInit => DecoderInv
<1> SUFFICES ASSUME DecoderInit PROVE DecoderInv
  OBVIOUS
<1>1. DecoderTypeOK
  BY FrameAges DEF DecoderInit, DecoderTypeOK
<1>2. BuffersComeBack
  BY BufferAssumption DEF DecoderInit, BuffersComeBack, Queued
<1>3. UsedInv
  BY DEF DecoderInit, UsedInv
<1>4. OrderInv
  BY FrameAges DEF DecoderInit, OrderInv, NotBefore
<1> QED
  BY <1>1, <1>2, <1>3, <1>4 DEF DecoderInv, DecoderInit, NeverOlder

\* A codec just started has all its buffers and nothing in them.
LEMMA StartedInv ==
    ASSUME DecoderInv, StartedCodec, type' \in {"UNKNOWN", "HW", "SW"}, pc = "idle",
           UNCHANGED <<pc, raw, out, given>>
    PROVE  DecoderInv'
<1> USE DEF DecoderInv, StartedCodec
<1>1. DecoderTypeOK'
  BY FrameAges DEF DecoderTypeOK
<1>2. BuffersComeBack'
  BY BufferAssumption DEF BuffersComeBack, Queued
<1>3. UsedInv' /\ NeverOlder'
  BY DEF UsedInv, NeverOlder
<1>4. OrderInv'
  BY FrameAges DEF OrderInv, NotBefore
<1> QED
  BY <1>1, <1>2, <1>3, <1>4

\* The next frame of the camera is not before the one in hand.
LEMMA ConvertKeepsInv == DecoderInv /\ Convert2YUV => DecoderInv'
<1> SUFFICES ASSUME DecoderInv, Convert2YUV PROVE DecoderInv'
  OBVIOUS
<1> USE DEF DecoderInv, Convert2YUV, codecVars
<1>1. raw' \in Frames /\ raw \in Frames /\ NotBefore(raw', raw)
  BY FrameAges DEF NotBefore, Age, DecoderTypeOK
<1>2. DecoderTypeOK'
  BY <1>1 DEF DecoderTypeOK
<1>3. BuffersComeBack'
  BY DEF BuffersComeBack, Queued
<1>4. UsedInv' /\ NeverOlder'
  BY DEF UsedInv, NeverOlder
<1>5. \A f \in Frames : NotBefore(raw, f) => NotBefore(raw', f)
  BY <1>1, FrameAges DEF NotBefore
<1>6. OrderInv'
  BY <1>5 DEF OrderInv, DecoderTypeOK
<1> QED
  BY <1>2, <1>3, <1>4, <1>6

LEMMA QueueKeepsInv == DecoderInv /\ QueueInput => DecoderInv'
<1> SUFFICES ASSUME DecoderInv, QueueInput PROVE DecoderInv'
  OBVIOUS
<1> USE DEF DecoderInv, QueueInput
<1>1. BuffersComeBack' /\ NeverOlder'
  BY DEF BuffersComeBack, Queued, NeverOlder
<1>2. CASE UNCHANGED input
  <2>1. DecoderTypeOK' /\ UsedInv'
    BY <1>2 DEF DecoderTypeOK, UsedInv
  <2>2. OrderInv'
    BY <1>2 DEF OrderInv
  <2> QED
    BY <1>1, <2>1, <2>2
<1>3. CASE input' = Append(input, raw)
  <2>1. raw \in Frames /\ input \in Seq(Frames) /\ UNCHANGED <<raw, given, ready, content>>
    BY DEF DecoderTypeOK
  <2>2. /\ input' \in Seq(Frames) /\ input' # <<>>
        /\ DOMAIN input = 1 .. Len(input) /\ Len(input) \in Nat
        /\ DOMAIN input' = 1 .. Len(input) + 1
        /\ \A i \in DOMAIN input : input'[i] = input[i]
        /\ input'[Len(input) + 1] = raw
    BY <1>3, <2>1, AppendFacts
  <2>3. DecoderTypeOK'
    BY <2>2 DEF DecoderTypeOK
  <2>4. UsedInv'
    BY <2>1, <2>2 DEF UsedInv
  <2>5. \A i \in DOMAIN input' : (i \in DOMAIN input /\ input'[i] = input[i]) \/ input'[i] = raw
    <3> HIDE DEF DecoderInv, QueueInput
    <3> QED BY <2>2
  <2>6. NotBefore(raw, raw) /\ NotBefore(raw, given)
    BY <2>1, FrameAges DEF NotBefore, OrderInv
  <2>7. \A i \in DOMAIN input' : NotBefore(raw, input'[i]) /\ NotBefore(input'[i], given)
    BY <2>5, <2>6 DEF OrderInv
  <2>8. \A i, j \in DOMAIN input' : i <= j => NotBefore(input'[j], input'[i])
    <3> SUFFICES ASSUME NEW i \in DOMAIN input', NEW j \in DOMAIN input', i <= j
                 PROVE  NotBefore(input'[j], input'[i])
      OBVIOUS
    <3>1. CASE j \in DOMAIN input
      <4>1. i \in DOMAIN input
        BY <2>2, <3>1
      <4> QED BY <2>2, <3>1, <4>1 DEF OrderInv
    <3>2. CASE input'[j] = raw
      BY <2>1, <2>7, <3>2
    <3> QED
      BY <2>5, <3>1, <3>2
  <2>9. \A i \in DOMAIN input', j \in DOMAIN ready : NotBefore(input'[i], content[ready[j]])
    BY <2>5 DEF OrderInv
  <2>10. OrderInv'
    BY <2>1, <2>7, <2>8, <2>9 DEF OrderInv
  <2> QED
    BY <1>1, <2>3, <2>4, <2>10
<1> QED
  BY <1>2, <1>3

\* The frame taken is the first of those ready, so the others are not before it.
LEMMA DequeueKeepsInv == DecoderInv /\ DequeueOutput => DecoderInv'
<1> SUFFICES ASSUME DecoderInv, DequeueOutput PROVE DecoderInv'
  OBVIOUS
<1> USE DEF DecoderInv, DequeueOutput
<1>1. CASE TakeOutput /\ ready # <<>> /\ pc' = "release" /\ UNCHANGED info
  <2> USE <1>1 DEF TakeOutput
  <2>1. ready \in Seq(OutputBuffers) /\ UNCHANGED <<raw, input, content, free, writing, type>>
    BY DEF DecoderTypeOK
  <2>2. /\ 1 \in DOMAIN ready /\ out' = ready[1] /\ out' \in OutputBuffers
        /\ ready' \in Seq(OutputBuffers)
        /\ DOMAIN ready' = 1 .. Len(ready) - 1
        /\ DOMAIN ready = 1 .. Len(ready) /\ Len(ready) \in Nat
        /\ \A i \in DOMAIN ready' : i + 1 \in DOMAIN ready /\ ready'[i] = ready[i + 1]
    BY <2>1, TailFacts
  <2>3. given' = content[ready[1]] /\ given' \in Frames
    BY <2>2 DEF OrderInv
  <2>4. DecoderTypeOK'
    BY <2>2, <2>3 DEF DecoderTypeOK
  <2>5. UsedInv'
    BY <2>1, <2>2 DEF UsedInv
  <2>6. BuffersComeBack'
    <3>1. Queued' = Queued \ {out'} /\ out' \in Queued
      <4>1. \A i \in DOMAIN ready : i = 1 \/ (i - 1 \in DOMAIN ready' /\ ready'[i - 1] = ready[i])
        BY <2>2
      <4>2. \A i \in DOMAIN ready' : ready'[i] # out'
        BY <2>2 DEF BuffersComeBack
      <4>3. \A b \in Queued' : b \in Queued \ {out'}
        BY <2>2, <4>2 DEF Queued
      <4>4. \A b \in Queued \ {out'} : b \in Queued'
        <5> SUFFICES ASSUME NEW i \in DOMAIN ready, ready[i] # out' PROVE ready[i] \in Queued'
          BY DEF Queued
        <5>1. i - 1 \in DOMAIN ready' /\ ready'[i - 1] = ready[i]
          BY <2>2, <4>1
        <5> QED BY <5>1 DEF Queued
      <4>5. out' \in Queued
        BY <2>2 DEF Queued
      <4> QED
        BY <4>3, <4>4, <4>5
    <3>2. \A i, j \in DOMAIN ready' : ready'[i] = ready'[j] => i = j
      BY <2>2 DEF BuffersComeBack
    <3> QED
      BY <2>1, <3>1, <3>2 DEF BuffersComeBack
  <2>7. \A i \in DOMAIN ready : NotBefore(content[ready[i]], given')
    BY <2>2, <2>3 DEF OrderInv
  <2>8. OrderInv'
    <3>1. NotBefore(raw, given')
      BY <2>2, <2>3 DEF OrderInv
    <3>2. \A i \in DOMAIN input : NotBefore(input[i], given')
      BY <2>2, <2>3 DEF OrderInv
    <3>3. \A i, j \in DOMAIN ready' : i <= j => NotBefore(content[ready'[j]], content[ready'[i]])
      BY <2>2 DEF OrderInv
    <3>4. content[SoftwareBuffer] \in Frames =>
            NotBefore(raw, content[SoftwareBuffer]) /\ NotBefore(content[SoftwareBuffer], given')
      BY FrameAges DEF UsedInv
    <3>5. \A i \in DOMAIN ready' :
            /\ content[ready'[i]] \in Frames
            /\ NotBefore(raw, content[ready'[i]]) /\ NotBefore(content[ready'[i]], given')
      BY <2>2, <2>7 DEF OrderInv
    <3>6. \A i \in DOMAIN input, j \in DOMAIN ready' : NotBefore(input[i], content[ready'[j]])
      BY <2>2 DEF OrderInv
    <3> QED
      BY <2>1, <2>2, <2>3, <3>1, <3>2, <3>3, <3>4, <3>5, <3>6 DEF OrderInv
  <2> QED
    BY <2>4, <2>5, <2>6, <2>8 DEF NeverOlder
<1>2. CASE UNCHANGED <<out, given, ready>> /\ info' = FALSE /\ pc' = "use"
  <2>1. DecoderTypeOK' /\ UsedInv'
    BY <1>2 DEF DecoderTypeOK, UsedInv
  <2>2. BuffersComeBack' /\ OrderInv'
    BY <1>2 DEF BuffersComeBack, Queued, OrderInv
  <2>3. out' = NULL
    BY <1>2 DEF UsedInv
  <2> QED
    BY <2>1, <2>2, <2>3 DEF NeverOlder
<1> QED
  BY <1>1, <1>2

LEMMA ReleaseKeepsInv == DecoderInv /\ ReleaseOutput => DecoderInv'
<1> SUFFICES ASSUME DecoderInv, ReleaseOutput PROVE DecoderInv'
  OBVIOUS
<1> USE DEF DecoderInv, ReleaseOutput
<1>1. DecoderTypeOK' /\ UsedInv'
  BY BufferAssumption DEF DecoderTypeOK, UsedInv
<1>2. BuffersComeBack'
  BY BufferAssumption DEF BuffersComeBack, Queued, UsedInv
<1>3. OrderInv'
  BY DEF OrderInv
<1>4. NeverOlder'
  BY FrameAges DEF NeverOlder, OrderInv, DecoderTypeOK
<1> QED
  BY <1>1, <1>2, <1>3, <1>4

LEMMA SoftwareKeepsInv == DecoderInv /\ DecodeSoftware => DecoderInv'
<1> SUFFICES ASSUME DecoderInv, DecodeSoftware PROVE DecoderInv'
  OBVIOUS
<1> USE DEF DecoderInv, DecodeSoftware
<1>1. BuffersComeBack'
  BY DEF BuffersComeBack, Queued
<1>2. DecoderTypeOK'
  BY DEF DecoderTypeOK
<1>3. UsedInv'
  BY DEF UsedInv
<1>4. input = <<>> /\ ready = <<>>
  BY DEF UsedInv
<1>5. OrderInv'
  BY <1>4, FrameAges DEF OrderInv, DecoderTypeOK, NotBefore
<1>6. NeverOlder'
  BY <1>2, <1>5 DEF NeverOlder, OrderInv, NotBefore, DecoderTypeOK
<1> QED
  BY <1>1, <1>2, <1>3, <1>5, <1>6

\* The codec writes a buffer nobody has to look into any more.
LEMMA BeginKeepsInv ==
    ASSUME DecoderInv, NEW b \in OutputBuffers, BeginDecode(b) PROVE DecoderInv'
<1> USE DEF DecoderInv, BeginDecode, threadVars
<1>1. DecoderTypeOK'
  BY DEF DecoderTypeOK
<1>2. b # SoftwareBuffer /\ b # NULL /\ b \notin Queued /\ (pc = "release" => b # out)
  BY BufferAssumption DEF BuffersComeBack
<1>3. BuffersComeBack'
  BY <1>2 DEF BuffersComeBack, Queued
<1>4. content'[SoftwareBuffer] = content[SoftwareBuffer] /\ content'[b] = "torn"
      /\ \A c \in OutputBuffers \ {b} : content'[c] = content[c]
  BY <1>2 DEF DecoderTypeOK
<1>5. UsedInv'
  BY <1>4 DEF UsedInv
<1>6. \A i \in DOMAIN ready : content'[ready[i]] = content[ready[i]]
  BY <1>2, <1>4 DEF Queued, DecoderTypeOK
<1>7. OrderInv'
  BY <1>2, <1>4, <1>6 DEF OrderInv, UsedInv
<1>8. NeverOlder'
  BY <1>2, <1>4 DEF NeverOlder, DecoderTypeOK
<1> QED
  BY <1>1, <1>3, <1>5, <1>7, <1>8

\* What the codec has written is the oldest frame it was to decode, and so not
\* before any that is ready.
LEMMA EndKeepsInv == DecoderInv /\ EndDecode => DecoderInv'
<1> SUFFICES ASSUME DecoderInv, EndDecode PROVE DecoderInv'
  OBVIOUS
<1> USE DEF DecoderInv, EndDecode, threadVars
<1> DEFINE w == writing
           f == Head(input)
<1>1. w \in OutputBuffers /\ w # SoftwareBuffer /\ w # NULL /\ input # <<>> /\ type = "HW"
  BY BufferAssumption DEF DecoderTypeOK, UsedInv
<1>2. /\ f = input[1] /\ 1 \in DOMAIN input /\ f \in Frames
      /\ input' \in Seq(Frames)
      /\ DOMAIN input' = 1 .. Len(input) - 1 /\ Len(input) \in Nat
      /\ DOMAIN input = 1 .. Len(input)
      /\ \A i \in DOMAIN input' : i + 1 \in DOMAIN input /\ input'[i] = input[i + 1]
  BY <1>1, TailFacts DEF DecoderTypeOK
<1>3. /\ ready' \in Seq(OutputBuffers)
      /\ DOMAIN ready = 1 .. Len(ready) /\ Len(ready) \in Nat
      /\ DOMAIN ready' = 1 .. Len(ready) + 1
      /\ \A i \in DOMAIN ready : ready'[i] = ready[i] /\ ready[i] \in OutputBuffers
      /\ ready'[Len(ready) + 1] = w
  BY <1>1, AppendFacts DEF DecoderTypeOK
<1>4. /\ content' \in [OutputBuffers \cup {SoftwareBuffer} -> Frames \cup {"blank", "torn"}]
      /\ content'[w] = f /\ content'[SoftwareBuffer] = content[SoftwareBuffer]
      /\ \A c \in OutputBuffers \ {w} : content'[c] = content[c]
  BY <1>1, <1>2 DEF DecoderTypeOK
<1>5. DecoderTypeOK'
  BY <1>2, <1>3, <1>4 DEF DecoderTypeOK
<1>6. w \notin Queued /\ w \notin free /\ (pc = "release" => w # out)
  BY <1>1 DEF BuffersComeBack
<1>7. BuffersComeBack'
  <2>1. Queued' = Queued \cup {w}
    BY <1>3 DEF Queued
  <2>2. \A i, j \in DOMAIN ready' : ready'[i] = ready'[j] => i = j
    BY <1>3, <1>6 DEF BuffersComeBack, Queued
  <2> QED
    BY <1>1, <1>5, <1>6, <2>1, <2>2, BufferAssumption DEF BuffersComeBack, DecoderTypeOK
<1>8. UsedInv'
  BY <1>1 DEF UsedInv
<1>9. \A i \in DOMAIN ready : ready'[i] = ready[i] /\ content'[ready[i]] = content[ready[i]]
  BY <1>3, <1>4, <1>6 DEF Queued
<1>10. \A i \in DOMAIN ready' :
          \/ i \in DOMAIN ready /\ content'[ready'[i]] = content[ready[i]]
          \/ content'[ready'[i]] = f
  BY <1>3, <1>4, <1>9
<1>11. OrderInv'
  <2>1. NotBefore(raw, f) /\ NotBefore(f, given) /\ NotBefore(f, f)
    BY <1>2, FrameAges DEF OrderInv, NotBefore
  <2>2. \A i \in DOMAIN input' : NotBefore(raw, input'[i]) /\ NotBefore(input'[i], given)
    BY <1>2 DEF OrderInv
  <2>3. \A i, j \in DOMAIN input' : i <= j => NotBefore(input'[j], input'[i])
    BY <1>2 DEF OrderInv
  <2>4. \A i \in DOMAIN ready' :
          /\ content'[ready'[i]] \in Frames
          /\ NotBefore(raw, content'[ready'[i]]) /\ NotBefore(content'[ready'[i]], given)
    BY <1>2, <1>10, <2>1 DEF OrderInv
  <2>5. \A i \in DOMAIN ready : NotBefore(f, content[ready[i]])
    BY <1>2 DEF OrderInv
  <2>6. \A i, j \in DOMAIN ready' : i <= j => NotBefore(content'[ready'[j]], content'[ready'[i]])
    <3> SUFFICES ASSUME NEW i \in DOMAIN ready', NEW j \in DOMAIN ready', i <= j
                 PROVE  NotBefore(content'[ready'[j]], content'[ready'[i]])
      OBVIOUS
    <3>1. CASE j \in DOMAIN ready
      BY <1>3, <1>9, <3>1 DEF OrderInv
    <3>2. CASE j = Len(ready) + 1
      BY <1>3, <1>4, <1>10, <2>1, <2>5, <3>2
    <3> QED
      BY <1>3, <3>1, <3>2
  <2>7. \A i \in DOMAIN input' : NotBefore(input'[i], f)
    BY <1>2 DEF OrderInv
  <2>8. \A i \in DOMAIN input', j \in DOMAIN ready' : NotBefore(input'[i], content'[ready'[j]])
    BY <1>2, <1>10, <2>7 DEF OrderInv
  <2>9. pc = "release" => content'[out] = given
    BY <1>4, <1>6 DEF OrderInv, UsedInv
  <2> QED
    BY <1>4, <2>2, <2>3, <2>4, <2>6, <2>8, <2>9 DEF OrderInv
<1>12. NeverOlder'
  <2>1. NotBefore(f, given)
    BY <1>2 DEF OrderInv
  <2> QED
    BY <1>2, <1>4, <2>1 DEF NeverOlder, NotBefore, DecoderTypeOK
<1> QED
  BY <1>5, <1>7, <1>8, <1>11, <1>12

LEMMA DecoderStep == DecoderInv /\ [DecoderNext]_vars => DecoderInv'
<1> SUFFICES ASSUME DecoderInv, [DecoderNext]_vars PROVE DecoderInv'
  OBVIOUS
<1>1. CASE InitDecoder \/ DeleteDecoder
  BY <1>1, StartedInv DEF InitDecoder, DeleteDecoder
<1>2. CASE UseFrame
  <2> USE <1>2 DEF UseFrame, codecVars, DecoderInv
  <2>1. DecoderTypeOK' /\ UsedInv' /\ NeverOlder'
    BY DEF DecoderTypeOK, UsedInv, NeverOlder
  <2>2. BuffersComeBack' /\ OrderInv'
    BY DEF BuffersComeBack, Queued, OrderInv
  <2> QED BY <2>1, <2>2
<1>3. CASE FailCodec
  <2> USE <1>3 DEF FailCodec, threadVars, DecoderInv
  <2>1. DecoderTypeOK' /\ UsedInv' /\ NeverOlder'
    BY DEF DecoderTypeOK, UsedInv, NeverOlder
  <2>2. BuffersComeBack' /\ OrderInv'
    BY DEF BuffersComeBack, Queued, OrderInv
  <2> QED BY <2>1, <2>2
<1>4. CASE UNCHANGED vars
  <2> USE <1>4 DEF vars, threadVars, codecVars, DecoderInv
  <2>1. DecoderTypeOK' /\ UsedInv' /\ NeverOlder'
    BY DEF DecoderTypeOK, UsedInv, NeverOlder
  <2>2. BuffersComeBack' /\ OrderInv'
    BY DEF BuffersComeBack, Queued, OrderInv
  <2> QED BY <2>1, <2>2
<1> QED
  BY <1>1, <1>2, <1>3, <1>4, ConvertKeepsInv, QueueKeepsInv, DequeueKeepsInv,
     ReleaseKeepsInv, SoftwareKeepsInv, BeginKeepsInv, EndKeepsInv
     DEF DecoderNext, Convert, Decode

LEMMA DecoderInvariance == DecoderSpec => []DecoderInv
  BY DecoderInitInv, DecoderStep, PTL DEF DecoderSpec

\* Whatever the codec does with a buffer that convert2YUV (DecoderFactory.cpp:89)
\* gave back before its caller read it, the caller sees no frame older than the
\* one it was given.
THEOREM FramesNeverOlder == DecoderSpec => []NeverOlder
<1>1. DecoderInv => NeverOlder
  BY DEF DecoderInv
<1> QED
  BY DecoderInvariance, <1>1, PTL

\* No output buffer is lost between the codec and convert2YUV, and none is at two
\* places.
THEOREM OutputBuffersComeBack == DecoderSpec => []BuffersComeBack
<1>1. DecoderInv => BuffersComeBack
  BY DEF DecoderInv
<1> QED
  BY DecoderInvariance, <1>1, PTL

-----------------------------------------------------------------------------
(* The refinement of FrameChannel *)

\* The frames decoded and not taken yet.
ReadyFrames == [i \in DOMAIN ready |-> content[ready[i]]]

LEMMA ReadyIsSequence ==
    DecoderInv => ReadyFrames \in Seq(Frames) /\ (ready = <<>> <=> ReadyFrames = <<>>)
<1> SUFFICES ASSUME DecoderInv
             PROVE  ReadyFrames \in Seq(Frames) /\ (ready = <<>> <=> ReadyFrames = <<>>)
  OBVIOUS
<1>1. ready \in Seq(OutputBuffers) /\ \A i \in DOMAIN ready : content[ready[i]] \in Frames
  BY DEF DecoderInv, DecoderTypeOK, OrderInv
<1>2. DOMAIN ready = 1 .. Len(ready) /\ Len(ready) \in Nat
  BY <1>1
<1>3. ReadyFrames \in Seq(Frames) /\ Len(ReadyFrames) = Len(ready)
  BY <1>1, <1>2 DEF ReadyFrames
<1> QED
  BY <1>1, <1>2, <1>3, EmptySeq DEF ReadyFrames

\* Appending to the end, taking from the front, and handing the front of the
\* second part to the end of the first.
LEMMA ConcatFacts ==
    ASSUME NEW S, NEW s \in Seq(S), NEW t \in Seq(S)
    PROVE  /\ s \o t \in Seq(S)
           /\ \A e \in S : s \o Append(t, e) = Append(s \o t, e)
           /\ s # <<>> => /\ s \o t # <<>> /\ Head(s \o t) = Head(s)
                          /\ Tail(s \o t) = Tail(s) \o t
           /\ t # <<>> => Append(s, Head(t)) \o Tail(t) = s \o t
<1>1. \A e \in S : s \o Append(t, e) = Append(s \o t, e)
  <2> TAKE e \in S
  <2>1. <<e>> \in Seq(S) /\ Append(t, e) = t \o <<e>> /\ s \o t \in Seq(S)
    BY AppendIsConcat, ConcatProperties
  <2>2. Append(s \o t, e) = (s \o t) \o <<e>>
    BY <2>1, AppendIsConcat
  <2> QED BY <2>1, <2>2, ConcatAssociative
<1>2. ASSUME s # <<>> PROVE s \o t # <<>> /\ Head(s \o t) = Head(s) /\ Tail(s \o t) = Tail(s) \o t
  <2>1. PICK h \in S, r \in Seq(S) : s = <<h>> \o r /\ h = Head(s) /\ r = Tail(s)
    <3>1. Head(s) \in S /\ Tail(s) \in Seq(S) /\ s = <<Head(s)>> \o Tail(s)
      BY <1>2, HeadTailProperties
    <3> QED BY <3>1
  <2>2. /\ s \o t \in Seq(S) /\ Len(s) >= 1 /\ Len(s \o t) = Len(s) + Len(t)
        /\ \A i \in 1 .. Len(s) + Len(t) : (s \o t)[i] = IF i <= Len(s) THEN s[i] ELSE t[i - Len(s)]
    BY <1>2, ConcatProperties, EmptySeq
  <2>3. s \o t # <<>> /\ Head(s \o t) = Head(s)
    BY <1>2, <2>2
  <2>4. /\ Tail(s) \in Seq(S) /\ Len(Tail(s)) = Len(s) - 1
        /\ \A i \in 1 .. Len(s) - 1 : Tail(s)[i] = s[i + 1]
    BY <1>2, HeadTailProperties
  <2>5. /\ Tail(s \o t) \in Seq(S) /\ Len(Tail(s \o t)) = Len(s) + Len(t) - 1
        /\ \A i \in 1 .. Len(s) + Len(t) - 1 : Tail(s \o t)[i] = (s \o t)[i + 1]
    BY <2>2, <2>3, HeadTailProperties
  <2>6. /\ Tail(s) \o t \in Seq(S) /\ Len(Tail(s) \o t) = Len(s) - 1 + Len(t)
        /\ \A i \in 1 .. Len(s) - 1 + Len(t) :
             (Tail(s) \o t)[i] = IF i <= Len(s) - 1 THEN Tail(s)[i] ELSE t[i - (Len(s) - 1)]
    BY <2>4, ConcatProperties
  <2>7. \A i \in 1 .. Len(Tail(s \o t)) : Tail(s \o t)[i] = (Tail(s) \o t)[i]
    <3> SUFFICES ASSUME NEW i \in 1 .. Len(Tail(s \o t))
                 PROVE  Tail(s \o t)[i] = (Tail(s) \o t)[i]
      OBVIOUS
    <3> DEFINE n == Len(s)
               m == Len(t)
    <3>1. n \in Nat /\ m \in Nat /\ i \in 1 .. n + m - 1
      BY <2>5
    <3>2. Tail(s \o t)[i] = IF i + 1 <= n THEN s[i + 1] ELSE t[i + 1 - n]
      BY <2>2, <2>5, <3>1
    <3>3. (Tail(s) \o t)[i] = IF i <= n - 1 THEN s[i + 1] ELSE t[i - (n - 1)]
      BY <2>4, <2>6, <3>1
    <3>4. i + 1 - n = i - (n - 1) /\ (i + 1 <= n <=> i <= n - 1)
      BY <3>1
    <3> QED BY <3>2, <3>3, <3>4
  <2>8. Tail(s \o t) = Tail(s) \o t
    BY <2>5, <2>6, <2>7, SeqEqual
  <2> QED BY <2>3, <2>8
<1>3. ASSUME t # <<>> PROVE Append(s, Head(t)) \o Tail(t) = s \o t
  <2>1. Head(t) \in S /\ Tail(t) \in Seq(S) /\ <<Head(t)>> \in Seq(S)
    BY <1>3, HeadTailProperties
  <2>2. t = <<Head(t)>> \o Tail(t)
    <3>1. Len(<<Head(t)>> \o Tail(t)) = Len(t) /\ <<Head(t)>> \o Tail(t) \in Seq(S)
      BY <1>3, <2>1, HeadTailProperties, ConcatProperties
    <3>2. \A i \in 1 .. Len(t) : t[i] = (<<Head(t)>> \o Tail(t))[i]
      BY <1>3, <2>1, HeadTailProperties, ConcatProperties
    <3> QED BY <3>1, <3>2, SeqEqual
  <2>3. Append(s, Head(t)) = s \o <<Head(t)>>
    BY <2>1, AppendIsConcat
  <2>4. (s \o <<Head(t)>>) \o Tail(t) = s \o (<<Head(t)>> \o Tail(t))
    BY <2>1, ConcatAssociative
  <2> QED BY <2>2, <2>3, <2>4
<1> QED BY <1>1, <1>2, <1>3, ConcatProperties

\* Every step of the decoder is one of the channel, or none.
LEMMA ChannelStep ==
    ASSUME DecoderInv, [DecoderNext]_vars
    PROVE  [Channel!Next]_(Channel!channelVars)
<1> USE DEF Channel!channelVars
<1>1. DecoderInv' /\ input \in Seq(Frames) /\ input' \in Seq(Frames)
  BY DecoderStep DEF DecoderInv, DecoderTypeOK
<1>2. /\ Pending = IF DecoderUp THEN ReadyFrames \o input ELSE <<>>
      /\ Pending' = IF DecoderUp' THEN ReadyFrames' \o input' ELSE <<>>
  BY DEF Pending, ReadyFrames
<1>3. /\ ReadyFrames \in Seq(Frames) /\ (ready = <<>> <=> ReadyFrames = <<>>)
      /\ ReadyFrames' \in Seq(Frames) /\ (ready' = <<>> <=> ReadyFrames' = <<>>)
  <2>1. DecoderInv' => (ReadyFrames \in Seq(Frames) /\ (ready = <<>> <=> ReadyFrames = <<>>))'
    BY ReadyIsSequence, PTL
  <2> QED BY <1>1, <2>1, ReadyIsSequence
<1>4. CASE UNCHANGED <<DecoderUp, ReadyFrames, input, given>>
  BY <1>2, <1>4
<1>5. UNCHANGED <<ready, content>> => UNCHANGED ReadyFrames
  BY DEF ReadyFrames
<1>6. CASE UNCHANGED <<type, codec, input, ready, content, given>>
  BY <1>4, <1>5, <1>6 DEF DecoderUp
<1>7. ASSUME ready = <<>>, input = <<>> PROVE Pending = <<>>
  BY <1>2, <1>3, <1>7, ConcatEmptySeq
<1>8. ASSUME ready' = <<>>, input' = <<>> PROVE Pending' = <<>>
  BY <1>1, <1>2, <1>3, <1>8, ConcatEmptySeq
<1>9. ASSUME ~DecoderUp' PROVE Channel!Close \/ UNCHANGED <<DecoderUp, Pending, given>> \/ given' # given
  BY <1>2, <1>9 DEF Channel!Close, DecoderUp
<1>10. CASE InitDecoder
  <2>1. DecoderUp' /\ ~DecoderUp
    BY <1>10 DEF InitDecoder, StartedCodec, DecoderUp
  <2>2. Pending' = <<>> /\ Pending = <<>>
    BY <1>2, <1>8, <1>10, <2>1 DEF InitDecoder, StartedCodec
  <2> QED
    BY <1>10, <2>1, <2>2 DEF InitDecoder, Channel!Next, Channel!Open
<1>11. CASE DeleteDecoder \/ FailCodec
  <2>1. ~DecoderUp' /\ given' = given
    BY <1>11 DEF DeleteDecoder, FailCodec, threadVars, DecoderUp
  <2> QED
    BY <1>9, <2>1 DEF Channel!Next
<1>12. CASE QueueInput
  <2>1. CASE UNCHANGED input
    BY <1>6, <1>12, <2>1 DEF QueueInput
  <2>2. CASE codec = "works" /\ input' = Append(input, raw)
    <3>1. DecoderUp /\ DecoderUp' /\ raw \in Frames /\ UNCHANGED <<ReadyFrames, given>>
      BY <1>5, <1>12, <2>2 DEF QueueInput, DecoderUp, DecoderInv, DecoderTypeOK
    <3>2. Pending' = Append(Pending, raw)
      BY <1>1, <1>2, <1>3, <2>2, <3>1, ConcatFacts
    <3>3. Channel!Accept(raw)
      BY <3>1, <3>2 DEF Channel!Accept
    <3> QED
      BY <3>1, <3>3 DEF Channel!Next
  <2> QED
    BY <1>12, <2>1, <2>2 DEF QueueInput
<1>13. CASE DequeueOutput
  <2>1. CASE UNCHANGED <<out, given, ready>>
    BY <1>6, <1>13, <2>1 DEF DequeueOutput
  <2>2. CASE codec = "works" /\ ready # <<>> /\ TakeOutput
    <3>1. DecoderUp /\ DecoderUp' /\ UNCHANGED <<input, content>>
      BY <1>13, <2>2 DEF DequeueOutput, DecoderUp
    <3>2. /\ ReadyFrames # <<>> /\ Head(ReadyFrames) = content[Head(ready)]
          /\ Tail(ReadyFrames) = ReadyFrames'
      <4>1. ready \in Seq(OutputBuffers) /\ ready' = Tail(ready)
        BY <2>2 DEF DecoderInv, DecoderTypeOK, TakeOutput
      <4>2. /\ Len(ready) >= 1 /\ Len(ready) \in Nat /\ Head(ready) = ready[1]
            /\ DOMAIN ready = 1 .. Len(ready) /\ DOMAIN ready' = 1 .. Len(ready) - 1
            /\ \A i \in DOMAIN ready' : i + 1 \in DOMAIN ready /\ ready'[i] = ready[i + 1]
        BY <2>2, <4>1, TailFacts
      <4>3. /\ ReadyFrames # <<>> /\ Len(ReadyFrames) = Len(ready)
            /\ DOMAIN ReadyFrames' = DOMAIN ready' /\ Len(ReadyFrames') = Len(ready) - 1
            /\ \A i \in DOMAIN ready : ReadyFrames[i] = content[ready[i]]
            /\ \A i \in DOMAIN ready' : ReadyFrames'[i] = content[ready'[i]]
        BY <1>3, <2>2, <3>1, <4>2 DEF ReadyFrames
      <4>4. Head(ReadyFrames) = content[Head(ready)]
        BY <1>3, <4>2, <4>3, TailFacts
      <4>5. /\ Tail(ReadyFrames) \in Seq(Frames) /\ Len(Tail(ReadyFrames)) = Len(ready) - 1
            /\ \A i \in 1 .. Len(ready) - 1 : Tail(ReadyFrames)[i] = ReadyFrames[i + 1]
        BY <1>3, <4>3, HeadTailProperties
      <4>6. \A i \in 1 .. Len(ready) - 1 : Tail(ReadyFrames)[i] = ReadyFrames'[i]
        BY <4>2, <4>3, <4>5
      <4> QED
        BY <1>3, <4>3, <4>4, <4>5, <4>6, SeqEqual
    <3>3. given' = Head(Pending) /\ Pending # <<>> /\ Pending' = Tail(Pending)
      <4> DEFINE r == ReadyFrames
      <4>1. r \in Seq(Frames) /\ r # <<>>
        BY <1>3, <3>2
      <4>2. r \o input # <<>> /\ Head(r \o input) = Head(r) /\ Tail(r \o input) = Tail(r) \o input
        BY <1>1, <4>1, ConcatFacts
      <4>3. Pending = r \o input /\ Pending' = Tail(r) \o input
        BY <1>2, <3>1, <3>2
      <4>4. given' = Head(r)
        BY <2>2, <3>2 DEF TakeOutput
      <4> HIDE DEF r
      <4> QED BY <4>2, <4>3, <4>4
    <3> QED
      BY <3>1, <3>3 DEF Channel!Next, Channel!Give
  <2> QED
    BY <1>13, <2>1, <2>2 DEF DequeueOutput
<1>14. CASE DecodeSoftware
  <2>1. ready = <<>> /\ input = <<>> /\ UNCHANGED <<DecoderUp, ready, input>> /\ DecoderUp
    BY <1>14 DEF DecodeSoftware, DecoderInv, UsedInv, DecoderUp
  <2>2. Pending = <<>> /\ Pending' = <<>> /\ raw \in Frames
    BY <1>7, <1>8, <2>1 DEF DecoderInv, DecoderTypeOK
  <2>3. given' = raw \/ given' = given
    BY <1>14 DEF DecodeSoftware
  <2> QED
    BY <2>1, <2>2, <2>3 DEF Channel!Next, Channel!Pass
<1>15. ASSUME NEW b \in OutputBuffers, BeginDecode(b)
       PROVE  [Channel!Next]_(Channel!channelVars)
  <2>1. b \notin Queued /\ \A c \in OutputBuffers \ {b} : content'[c] = content[c]
    BY <1>15 DEF BeginDecode, DecoderInv, BuffersComeBack, DecoderTypeOK
  <2>2. ready' = ready /\ \A i \in DOMAIN ready : content'[ready[i]] = content[ready[i]]
    BY <1>15, <2>1 DEF BeginDecode, Queued, DecoderInv, DecoderTypeOK
  <2>3. ReadyFrames' = ReadyFrames
    BY <2>2 DEF ReadyFrames
  <2> QED
    BY <1>4, <1>15, <2>3 DEF BeginDecode, threadVars, DecoderUp
<1>16. CASE EndDecode
  <2> DEFINE w == writing
             f == Head(input)
  <2>1. /\ w \in OutputBuffers /\ w \notin Queued /\ input # <<>>
        /\ ready \in Seq(OutputBuffers) /\ ready' = Append(ready, w)
        /\ content'[w] = f /\ \A c \in OutputBuffers \ {w} : content'[c] = content[c]
        /\ UNCHANGED <<DecoderUp, given>> /\ input' = Tail(input)
    BY <1>16 DEF EndDecode, threadVars, DecoderInv, BuffersComeBack, DecoderTypeOK, UsedInv,
                 DecoderUp
  <2>2. /\ Len(ready) \in Nat /\ DOMAIN ready = 1 .. Len(ready)
        /\ DOMAIN ready' = 1 .. Len(ready) + 1
        /\ \A i \in DOMAIN ready : ready'[i] = ready[i] /\ ready[i] \in OutputBuffers
        /\ ready'[Len(ready) + 1] = w
    BY <2>1, AppendFacts
  <2>3. \A i \in DOMAIN ready : content'[ready[i]] = content[ready[i]]
    BY <2>1, <2>2 DEF Queued
  <2>4. f \in Frames
    BY <1>1, <2>1, TailFacts
  <2>5. ReadyFrames' = Append(ReadyFrames, f)
    <3>1. /\ Len(ReadyFrames) = Len(ready) /\ Len(ReadyFrames') = Len(ready) + 1
          /\ \A i \in DOMAIN ready : ReadyFrames[i] = content[ready[i]]
          /\ \A i \in DOMAIN ready' : ReadyFrames'[i] = content'[ready'[i]]
      BY <1>3, <2>2 DEF ReadyFrames
    <3>2. /\ Append(ReadyFrames, f) \in Seq(Frames)
          /\ Len(Append(ReadyFrames, f)) = Len(ready) + 1
          /\ \A i \in 1 .. Len(ready) : Append(ReadyFrames, f)[i] = ReadyFrames[i]
          /\ Append(ReadyFrames, f)[Len(ready) + 1] = f
      BY <1>3, <2>4, <3>1, AppendProperties
    <3>3. \A i \in 1 .. Len(ready) + 1 : ReadyFrames'[i] = Append(ReadyFrames, f)[i]
      <4> SUFFICES ASSUME NEW i \in 1 .. Len(ready) + 1
                   PROVE  ReadyFrames'[i] = Append(ReadyFrames, f)[i]
        OBVIOUS
      <4>1. CASE i \in DOMAIN ready
        BY <2>2, <2>3, <3>1, <3>2, <4>1
      <4>2. CASE i = Len(ready) + 1
        BY <2>1, <2>2, <3>1, <3>2, <4>2
      <4>3. i \in 1 .. Len(ready) \/ i = Len(ready) + 1
        <5>1. Len(ready) \in Nat
          BY <2>2
        <5> QED BY <5>1
      <4> QED
        BY <2>2, <4>1, <4>2, <4>3
    <3> QED
      BY <1>3, <3>1, <3>2, <3>3, SeqEqual
  <2>6. Pending' = Pending
    <3>1. Append(ReadyFrames, f) \o Tail(input) = ReadyFrames \o input
      BY <1>1, <1>3, <2>1, ConcatFacts
    <3> QED BY <1>2, <2>1, <2>5, <3>1
  <2> QED
    BY <2>1, <2>6
<1>17. CASE Convert2YUV \/ ReleaseOutput \/ UseFrame \/ UNCHANGED vars
  BY <1>6, <1>17 DEF Convert2YUV, ReleaseOutput, UseFrame, vars, threadVars, codecVars
<1> QED
  BY <1>10, <1>11, <1>12, <1>13, <1>14, <1>15, <1>16, <1>17 DEF DecoderNext, Convert, Decode

\* convert2YUV hands out what was queued in the order it was queued, each frame
\* once, and loses what is in the codec only when the codec fails or is deleted.
THEOREM DecoderImplementsChannel == DecoderSpec => ChannelSpec
<1>1. DecoderInit => Channel!Init
  BY FrameAges DEF DecoderInit, Channel!Init, DecoderUp, Pending
<1>2. DecoderInv /\ [DecoderNext]_vars => [Channel!Next]_(Channel!channelVars)
  BY ChannelStep
<1> QED
  BY DecoderInvariance, <1>1, <1>2, PTL DEF DecoderSpec, ChannelSpec, Channel!Spec
=============================================================================
