----------------------------- MODULE FrameChannel -----------------------------
(* What an MJPEG decoder promises, with no buffers and no threads: frames it   *)
(* accepted come out in the order they went in, each once, and nothing else    *)
(* does.  It may refuse a frame.  MjpegDecoder.tla is shown to implement it.   *)
EXTENDS Sequences

CONSTANT Frames

VARIABLES
    up,         \* there is a decoder, and it works
    pending,    \* frames accepted that did not come out yet, the oldest first
    given       \* the frame that came out last

channelVars == <<up, pending, given>>

Init == up = FALSE /\ pending = <<>> /\ given \in Frames

Open  == ~up /\ up' = TRUE /\ UNCHANGED <<pending, given>>

\* The decoder broke or was deleted, and what was in it is lost.
Close == up /\ up' = FALSE /\ pending' = <<>> /\ UNCHANGED given

Accept(frame) == up /\ pending' = Append(pending, frame) /\ UNCHANGED <<up, given>>

Give ==
    /\ pending # <<>>
    /\ given' = Head(pending)
    /\ pending' = Tail(pending)
    /\ UNCHANGED up

\* Accepted and given at once.
Pass(frame) == up /\ pending = <<>> /\ given' = frame /\ UNCHANGED <<up, pending>>

Next == Open \/ Close \/ (\E frame \in Frames : Accept(frame) \/ Pass(frame)) \/ Give

Spec == Init /\ [][Next]_channelVars

\* What was accepted comes out, as long as the decoder is there.
FairSpec == Spec /\ WF_channelVars(Give)
=============================================================================
