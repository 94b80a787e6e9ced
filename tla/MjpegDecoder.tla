----------------------------- MODULE MjpegDecoder -----------------------------
(* The decoder of MJPEG frames (DecoderFactory.cpp): the capture thread calls  *)
(* convert2YUV and then draws and sends what the pointer it got leads to,      *)
(* while the hardware codec decodes on a thread of its own, from a queue of    *)
(* input buffers into output buffers.                                          *)
(*                                                                             *)
(* One frame of the stream, any one, is marked: those before it are old, those *)
(* after it new.  What holds of the marked frame holds of each.                *)
EXTENDS Integers, Sequences

CONSTANTS
    InputBuffers,       \* how many the codec has
    OutputBuffers,      \* those of the codec
    SoftwareBuffer,     \* out_buffer of DecoderSw
    NULL

ASSUME InputAssumption  == InputBuffers \in Nat \ {0}
ASSUME BufferAssumption == SoftwareBuffer \notin OutputBuffers /\ NULL \notin OutputBuffers

Age    == [old |-> 1, marked |-> 2, new |-> 3]
Frames == DOMAIN Age

VARIABLES
    type,       \* which decoder there is
    pc,         \* where the capture thread is in convert2YUV, or using its result
    raw,        \* the frame the camera delivered last
    out,        \* the pointer convert2YUV returns
    given,      \* the frame it stood for when it was taken from the decoder
    \* the codec
    codec, input, info, free, writing, ready, content

threadVars == <<type, pc, raw, out, given>>
codecVars  == <<codec, input, info, free, writing, ready, content>>
vars       == <<threadVars, codecVars>>

DecoderTypeOK ==
    /\ type \in {"UNKNOWN", "HW", "SW"}
    /\ pc \in {"idle", "input", "output", "release", "use"}
    /\ raw \in Frames
    /\ out \in OutputBuffers \cup {SoftwareBuffer, NULL}
    /\ given \in Frames
    /\ codec \in {"works", "failed"}
    /\ input \in Seq(Frames)
    /\ info \in BOOLEAN
    /\ free \subseteq OutputBuffers
    /\ writing \in OutputBuffers \cup {NULL}
    /\ ready \in Seq(OutputBuffers)
    /\ content \in [OutputBuffers \cup {SoftwareBuffer} -> Frames \cup {"blank", "torn"}]

\* A codec that was just started; it reports the format of its output before
\* the first frame.
StartedCodec ==
    /\ codec' = "works"
    /\ input' = <<>>
    /\ info' = TRUE
    /\ free' = OutputBuffers
    /\ writing' = NULL
    /\ ready' = <<>>
    /\ content' = [b \in OutputBuffers \cup {SoftwareBuffer} |-> "blank"]

DecoderInit ==
    /\ type = "UNKNOWN"
    /\ pc = "idle"
    /\ raw = "old"
    /\ out = NULL
    /\ given = "old"
    /\ codec = "works"
    /\ input = <<>>
    /\ info = TRUE
    /\ free = OutputBuffers
    /\ writing = NULL
    /\ ready = <<>>
    /\ content = [b \in OutputBuffers \cup {SoftwareBuffer} |-> "blank"]

-----------------------------------------------------------------------------
(* DecoderFactory *)

\* init.  Whatever keeps the codec from starting leads to the other decoder.
InitDecoder ==
    /\ pc = "idle"
    /\ type = "UNKNOWN"
    /\ type' \in {"HW", "SW"}
    /\ StartedCodec
    /\ UNCHANGED <<pc, raw, out, given>>

\* The factory is deleted, and with it the decoder and all its buffers.
DeleteDecoder ==
    /\ pc = "idle"
    /\ type # "UNKNOWN"
    /\ type' = "UNKNOWN"
    /\ StartedCodec
    /\ UNCHANGED <<pc, raw, out, given>>

\* The camera delivers the next frame, and convert2YUV is called with it.
Convert2YUV ==
    /\ pc = "idle"
    /\ type # "UNKNOWN"
    /\ raw' \in CASE raw = "old" -> {"old", "marked"} [] OTHER -> {"new"}
    /\ pc' = "input"
    /\ out' = NULL
    /\ UNCHANGED <<type, given, codecVars>>

-----------------------------------------------------------------------------
(* DecoderHw *)

\* dequeueInputBuffer and queueInputBuffer.  Without a free buffer, which the
\* thread waits 3 ms for, the frame is dropped.
QueueInput ==
    /\ type = "HW"
    /\ pc = "input"
    /\ \/ /\ codec = "works"
          /\ Len(input) < InputBuffers
          /\ input' = Append(input, raw)
       \/ /\ codec = "failed" \/ Len(input) = InputBuffers
          /\ UNCHANGED input
    /\ pc' = "output"
    /\ UNCHANGED <<type, raw, out, given, codec, info, free, writing, ready, content>>

\* As if the buffer with the index of the input were looked up.
TakeOutputWrong ==
    /\ out' \in OutputBuffers
    /\ given' = content[Head(ready)]
    /\ ready' = Tail(ready)

\* As if all but the newest were skipped.
TakeOutputNewest ==
    /\ out' = ready[Len(ready)]
    /\ given' = content[ready[Len(ready)]]
    /\ ready' = <<>>

TakeOutput ==
    /\ out' = Head(ready)
    /\ given' = content[Head(ready)]
    /\ ready' = Tail(ready)

\* dequeueOutputBuffer, which does not wait: a frame, a change of format, or
\* nothing.
DequeueOutput ==
    /\ type = "HW"
    /\ pc = "output"
    /\ \/ /\ codec = "works" /\ ~info /\ ready # <<>>
          /\ TakeOutput
          /\ pc' = "release"
          /\ UNCHANGED info
       \/ /\ codec = "failed" \/ info \/ ready = <<>>
          /\ info' = FALSE
          /\ pc' = "use"
          /\ UNCHANGED <<out, given, ready>>
    /\ UNCHANGED <<type, raw, codec, input, free, writing, content>>

\* As if only some of the buffers were given back.
ReleaseOutputBug ==
    /\ pc = "release"
    /\ pc' = "use"
    /\ free' = free \cup {out} \/ free' = free
    /\ UNCHANGED <<type, raw, out, given, codec, input, info, writing, ready, content>>

\* The codec has the buffer back before anybody looked into it.
ReleaseOutput ==
    /\ pc = "release"
    /\ pc' = "use"
    /\ free' = free \cup {out}
    /\ UNCHANGED <<type, raw, out, given, codec, input, info, writing, ready, content>>

-----------------------------------------------------------------------------
(* DecoderSw *)

\* The result of tjDecompressToYUV2 is not looked at: a broken frame leaves what
\* was in the buffer.
DecodeSoftware ==
    /\ type = "SW"
    /\ pc = "input"
    /\ pc' = "use"
    /\ out' = SoftwareBuffer
    /\ \/ content' = [content EXCEPT ![SoftwareBuffer] = raw] /\ given' = raw
       \/ UNCHANGED <<content, given>>
    /\ UNCHANGED <<type, raw, codec, input, info, free, writing, ready>>

\* renderFrame and sendFrame are done with what out leads to.
UseFrame ==
    /\ pc = "use"
    /\ pc' = "idle"
    /\ UNCHANGED <<type, raw, out, given, codecVars>>

-----------------------------------------------------------------------------
(* The codec *)

BeginDecode(b) ==
    /\ type = "HW" /\ codec = "works"
    /\ writing = NULL
    /\ input # <<>>
    /\ b \in free
    /\ writing' = b
    /\ free' = free \ {b}
    /\ content' = [content EXCEPT ![b] = "torn"]
    /\ UNCHANGED <<threadVars, codec, input, info, ready>>

EndDecode ==
    /\ codec = "works"
    /\ writing # NULL
    /\ content' = [content EXCEPT ![writing] = Head(input)]
    /\ ready' = Append(ready, writing)
    /\ input' = Tail(input)
    /\ writing' = NULL
    /\ UNCHANGED <<threadVars, codec, info, free>>

\* From then on every call of it returns an error.
FailCodec ==
    /\ type = "HW" /\ codec = "works"
    /\ codec' = "failed"
    /\ UNCHANGED <<threadVars, input, info, free, writing, ready, content>>

-----------------------------------------------------------------------------
Decode == (\E b \in OutputBuffers : BeginDecode(b)) \/ EndDecode

Convert == QueueInput \/ DequeueOutput \/ ReleaseOutput \/ DecodeSoftware \/ UseFrame

DecoderNext == InitDecoder \/ DeleteDecoder \/ Convert2YUV \/ Convert \/ Decode \/ FailCodec

DecoderSpec == DecoderInit /\ [][DecoderNext]_vars

\* The camera goes on sending frames, the thread and the codec go on.
FairDecoderSpec ==
    /\ DecoderSpec
    /\ WF_vars(Convert2YUV) /\ WF_vars(Convert) /\ WF_vars(Decode)

-----------------------------------------------------------------------------
(* Properties *)

Queued == {ready[i] : i \in DOMAIN ready}

\* Each output buffer is in one place: free, written by the codec, ready, or,
\* for as long as a call of convert2YUV lasts, taken by the thread.
BuffersComeBack ==
    /\ free \cup ({writing} \ {NULL}) \cup Queued
         = OutputBuffers \ (IF pc = "release" THEN {out} ELSE {})
    /\ free \cap Queued = {}
    /\ writing \notin free \cup Queued
    /\ \A i, j \in DOMAIN ready : ready[i] = ready[j] => i = j

\* What is drawn and sent is not older than what the decoder gave: the buffer is
\* the codec's again and it may write a later frame, or half of one, while the
\* thread reads, but it never shows a past one.  A software decoder that could
\* decode nothing yet gives memory nobody wrote.
NeverOlder ==
    pc = "use" /\ out # NULL =>
        \/ content[out] = "torn"
        \/ content[out] = "blank" /\ type = "SW"
        \/ content[out] \in Frames /\ Age[content[out]] >= Age[given]

DecoderUp == type # "UNKNOWN" /\ codec = "works"

-----------------------------------------------------------------------------
(* The inductive invariant *)

NotBefore(f, g) == Age[f] >= Age[g]

\* Each decoder has something in its own buffers only, and out is of the decoder
\* there is.
UsedInv ==
    /\ type # "HW" => input = <<>> /\ ready = <<>> /\ writing = NULL /\ codec = "works"
    /\ type # "SW" => content[SoftwareBuffer] = "blank"
    /\ type = "UNKNOWN" => pc = "idle"
    /\ pc = "release" => type = "HW" /\ out \in OutputBuffers
    /\ pc \in {"input", "output"} => out = NULL
    /\ pc = "use" => out = NULL \/ (out = SoftwareBuffer <=> type = "SW")
    /\ writing # NULL => input # <<>> /\ content[writing] = "torn"

\* Frames are in the codec in the order they came from the camera.
OrderInv ==
    /\ NotBefore(raw, given)
    /\ \A i \in DOMAIN input : NotBefore(raw, input[i]) /\ NotBefore(input[i], given)
    /\ \A i, j \in DOMAIN input : i <= j => NotBefore(input[j], input[i])
    /\ \A i \in DOMAIN ready :
          /\ content[ready[i]] \in Frames
          /\ NotBefore(raw, content[ready[i]]) /\ NotBefore(content[ready[i]], given)
    /\ \A i, j \in DOMAIN ready : i <= j => NotBefore(content[ready[j]], content[ready[i]])
    /\ \A i \in DOMAIN input, j \in DOMAIN ready : NotBefore(input[i], content[ready[j]])
    /\ content[SoftwareBuffer] \in Frames =>
          NotBefore(raw, content[SoftwareBuffer]) /\ NotBefore(content[SoftwareBuffer], given)
    /\ pc = "release" => content[out] = given

DecoderInv == DecoderTypeOK /\ BuffersComeBack /\ UsedInv /\ OrderInv /\ NeverOlder

-----------------------------------------------------------------------------
(* The channel the capture thread sees *)

\* What the codec has taken and not given: decoded frames, then those to decode.
Pending == IF DecoderUp THEN [i \in DOMAIN ready |-> content[ready[i]]] \o input ELSE <<>>

Channel == INSTANCE FrameChannel WITH up <- DecoderUp, pending <- Pending

\* The decoder implements the channel: no frame it accepted is lost, repeated or
\* overtaken, whichever buffers the codec writes.
ChannelSpec     == Channel!Spec
FairChannelSpec == Channel!FairSpec
=============================================================================
