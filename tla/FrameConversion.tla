---------------------------- MODULE FrameConversion ----------------------------
(* The conversions to NV21 of the frames an application gets: PreviewFormat    *)
(* for what CameraAPI sends, Yuv420_888ToNv21Utils for what camera2 gives.     *)
(* They only move bytes, so a buffer is a function from its positions to the   *)
(* samples of the picture, and a conversion shows which sample ends up where.  *)
(* FaithfulNV21 is the reference: what NV21 means.                             *)
EXTENDS Integers, FiniteSets

CONSTANTS
    Widths, Heights,    \* of the pictures
    RowPads             \* bytes between the rows of camera2's planes

\* Cameras have widths that are multiples of eight.
ASSUME SizeAssumption ==
    /\ \A w \in Widths : w \in Nat \ {0} /\ w % 8 = 0
    /\ \A h \in Heights : h \in Nat \ {0} /\ h % 2 = 0
    /\ \A pad \in RowPads : pad \in Nat /\ pad % 2 = 0

VARIABLES
    frame,      \* the picture that arrived: its source, size and layout
    nv21        \* what it was converted to; empty before that

vars == <<frame, nv21>>

Positions(n)   == 0 .. n - 1
Length(buffer) == Cardinality(DOMAIN buffer)

\* A byte of a picture: its plane and its pixel, for U and V the first of the
\* pixels that share it.
Sample(plane, row, col) == [plane |-> plane, row |-> row, col |-> col]

Blank       == Sample("blank", 0, 0)            \* padding, or never written
OutOfBounds == Sample("out of bounds", 0, 0)    \* ArrayIndexOutOfBoundsException

Read(buffer, k) == IF k \in DOMAIN buffer THEN buffer[k] ELSE OutOfBounds

-----------------------------------------------------------------------------
(* The layouts frames arrive in *)

\* libjpeg-turbo's 4:2:2: a plane of Y, then U and V with half as many columns.
Yuv422(w, h) ==
    LET stride == w \div 2
        C(plane, c) == Sample(plane, c \div stride, 2 * (c % stride))
    IN [k \in Positions(2 * w * h) |->
            IF k < w * h THEN Sample("Y", k \div w, k % w)
            ELSE IF k < w * h + stride * h THEN C("U", k - w * h)
            ELSE C("V", k - w * h - stride * h)]

\* The codec's 4:2:0: a plane of Y, then U and V in turns.
Nv12(w, h) ==
    [k \in Positions(3 * ((w * h) \div 2)) |->
        LET c == k - w * h IN
        IF c < 0 THEN Sample("Y", k \div w, k % w)
        ELSE Sample(IF c % 2 = 0 THEN "U" ELSE "V", 2 * (c \div w), 2 * ((c % w) \div 2))]

\* YUYV: every two pixels of a row share a U and a V.
Yuyv(w, h) ==
    [k \in Positions(2 * w * h) |->
        LET row == k \div (2 * w)
            col == (k \div 2) % w
        IN IF k % 2 = 0 THEN Sample("Y", row, col)
           ELSE Sample(IF k % 4 = 1 THEN "U" ELSE "V", row, 2 * (col \div 2))]

\* A plane of a camera2 image: there is padding after each row but the last.
\* For pixelStride 2 a byte of the other plane lies between two bytes of this
\* one, in the order V U of the devices the code is written for.
YPlane(w, h, rowStride) ==
    [k \in Positions(rowStride * (h - 1) + w) |->
        IF k % rowStride < w THEN Sample("Y", k \div rowStride, k % rowStride) ELSE Blank]

ChromaPlane(plane, w, h, pixelStride, rowStride) ==
    [k \in Positions(rowStride * (h \div 2 - 1) + (w \div 2 - 1) * pixelStride + 1) |->
        LET row  == k \div rowStride
            col  == (k % rowStride) \div pixelStride
            next == IF 2 * col + 2 < w THEN <<2 * row, 2 * col + 2>> ELSE <<2 * row + 2, 0>>
        IN IF 2 * col >= w THEN Blank
           ELSE IF k % pixelStride = 0 THEN Sample(plane, 2 * row, 2 * col)
           ELSE IF plane = "V" THEN Sample("U", 2 * row, 2 * col)
           ELSE Sample("V", next[1], next[2])]

-----------------------------------------------------------------------------
(* PreviewFormat *)

Nv12ToNV21(nv12, w, h) ==
    [k \in DOMAIN nv12 |->
        IF k < w * h THEN nv12[k]
        ELSE IF (k - w * h) % 2 = 0 THEN nv12[k + 1] ELSE nv12[k - 1]]

\* Where the row of U and V for the i-th pair of the result begins; as if every
\* row were kept.
MjpegRowBug(i, stride) == (i \div stride) * stride
MjpegRow(i, stride)    == ((2 * i) \div stride) * stride

MjpegToNV21(yuv, w, h) ==
    LET yLen   == Length(yuv) \div 2
        stride == w \div 2
    IN IF 2 * Length(yuv) = 3 * w * h THEN Nv12ToNV21(yuv, w, h)
       ELSE [k \in Positions(3 * (yLen \div 2)) |->
                LET i == (k - yLen) \div 2
                    c == MjpegRow(i, stride) + (i % stride)
                IN IF k < yLen THEN Read(yuv, k)
                   ELSE IF k % 2 = 1 THEN Read(yuv, yLen + c)
                   ELSE Read(yuv, 3 * (yLen \div 2) + c)]

\* Every four bytes write two of Y; those of even lines write a V and a U, too.
YuyvToNV21(yuyv, w, h) ==
    LET yLen == Length(yuyv) \div 2
        line(i)   == i \div (2 * w)
        target(i) == yLen + 2 * (i \div 4) - (line(i) * w) \div 2
        writers   == {i \in Positions(2 * yLen) : i % 4 = 0 /\ line(i) % 2 = 0}
        from      == [k \in {target(i) : i \in writers} |-> CHOOSE i \in writers : target(i) = k]
    IN IF Length(yuyv) # 2 * w * h THEN yuyv
       ELSE [k \in Positions(3 * (yLen \div 2)) |->
                IF k < yLen THEN yuyv[2 * k]
                ELSE IF k \in DOMAIN from THEN yuyv[from[k] + 3]
                ELSE IF k - 1 \in DOMAIN from THEN yuyv[from[k - 1] + 1]
                ELSE Blank]

-----------------------------------------------------------------------------
(* Yuv420_888ToNv21Utils *)

GetYUVBuffer(buffer, pixelStride, rowStride, w, len) ==
    IF pixelStride = 1 /\ Length(buffer) = len THEN buffer
    ELSE [i \in Positions(len) |->
            Read(buffer, i * pixelStride + (i \div pixelStride) * (rowStride - w))]

Interleaved(pixelStride, yRowStride, rowStride, w) ==
    pixelStride = 2 /\ yRowStride = rowStride /\ yRowStride = w

\* Planes that interleave without padding are copied as they are, V first; the
\* last byte, a U, stays blank.
Yuv420ToNv21(y, u, v, w, h, pixelStride, yRowStride, rowStride) ==
    LET yLen == w * h
        Y == GetYUVBuffer(y, 1, yRowStride, w, yLen)
        U == GetYUVBuffer(u, pixelStride, rowStride, w, yLen \div 4)
        V == GetYUVBuffer(v, pixelStride, rowStride, w, yLen \div 4)
        filledUp == [v EXCEPT ![Length(v) - 1] = u[Length(u) - 2]]
    IN [k \in Positions(3 * (yLen \div 2)) |->
            LET c == k - yLen IN
            IF c < 0 THEN Y[k]
            ELSE IF Interleaved(pixelStride, yRowStride, rowStride, w)
                   THEN IF c < Length(v) THEN filledUp[c] ELSE Blank
            ELSE IF c % 2 = 0 THEN V[c \div 2] ELSE U[c \div 2]]

-----------------------------------------------------------------------------
(* The pictures, and what the application does with them *)

Frames ==
    [source : {"HW", "SW", "YUYV"}, w : Widths, h : Heights, pixelStride : {1}, pad : {0}]
    \cup [source : {"camera2"}, w : Widths, h : Heights, pixelStride : {1, 2}, pad : RowPads]

Init ==
    /\ frame \in Frames
    /\ nv21 = << >>

\* The callback of PreviewActivity: MJPEG frames come from either decoder.
OnFrame ==
    /\ nv21 = << >>
    /\ LET w == frame.w  h == frame.h IN
       \/ frame.source = "HW"   /\ nv21' = MjpegToNV21(Nv12(w, h), w, h)
       \/ frame.source = "SW"   /\ nv21' = MjpegToNV21(Yuv422(w, h), w, h)
       \/ frame.source = "YUYV" /\ nv21' = YuyvToNV21(Yuyv(w, h), w, h)
    /\ UNCHANGED frame

\* The ImageReader's listener in Camera2Fragment.  Planes with pixelStride 1
\* have half as long rows.
OnImageAvailable ==
    /\ nv21 = << >>
    /\ frame.source = "camera2"
    /\ LET w == frame.w  h == frame.h
           yRowStride == w + frame.pad
           rowStride  == (yRowStride * frame.pixelStride) \div 2
       IN nv21' = Yuv420ToNv21(YPlane(w, h, yRowStride),
                               ChromaPlane("U", w, h, frame.pixelStride, rowStride),
                               ChromaPlane("V", w, h, frame.pixelStride, rowStride),
                               w, h, frame.pixelStride, yRowStride, rowStride)
    /\ UNCHANGED frame

NextFrame ==
    /\ nv21 # << >>
    /\ frame' \in Frames
    /\ nv21' = << >>

Next == OnFrame \/ OnImageAvailable \/ NextFrame

Spec == Init /\ [][Next]_vars

-----------------------------------------------------------------------------
(* What NV21 means: every Y at its pixel, then a V and a U for each block of   *)
(* two by two pixels, both of the same pixel of that block.  Only the last U   *)
(* of interleaved planes may be missing ("the last one is empty",              *)
(* Yuv420_888ToNv21Utils.java:58).                                             *)
FaithfulNV21 ==
    nv21 # << >> =>
        LET w == frame.w  h == frame.h IN
        /\ DOMAIN nv21 = Positions(3 * ((w * h) \div 2))
        /\ \A k \in Positions(w * h) : nv21[k] = Sample("Y", k \div w, k % w)
        /\ \A b \in Positions((w * h) \div 4) :
              LET V == nv21[w * h + 2 * b]
                  U == nv21[w * h + 2 * b + 1]
              IN /\ V.plane = "V"
                 /\ V.row \div 2 = b \div (w \div 2)
                 /\ V.col \div 2 = b % (w \div 2)
                 /\ \/ U = [V EXCEPT !.plane = "U"]
                    \/ /\ U = Blank
                       /\ frame.source = "camera2" /\ frame.pixelStride = 2
                       /\ 4 * b + 4 = w * h

\* "480 * 640: y=327648, u=163807, v=163807  (yuvRowStride=512)"
\* (Yuv420_888ToNv21Utils.java:52): planes with padded rows are converted, too.
PaddedRowsConverted == \A k \in DOMAIN nv21 : nv21[k] # OutOfBounds
=============================================================================
