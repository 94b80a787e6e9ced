---------------------------- MODULE PreviewDrawing ----------------------------
(* How a frame of CameraAPI gets to the screen: the drawing functions of       *)
(* CameraView.cpp, and the size PreviewResolutionUtils gives the view.  As in  *)
(* FrameConversion a buffer shows which sample is where; a drawn pixel is the  *)
(* Y, U and V its colour is made of, for a depth frame its shade.              *)
EXTENDS FrameConversion

CONSTANTS
    HIST_SIZE,      \* entries of the histogram, one for each depth
    DepthPixels,    \* how many pixels a depth frame has
    Lengths         \* widths and heights of the containers of a preview

ASSUME DrawingAssumption ==
    /\ HIST_SIZE \in Nat \ {0, 1} /\ DepthPixels \in Nat \ {0}
    /\ Lengths \subseteq Nat \ {0}

VARIABLES
    drawn,      \* the picture on the window
    layout      \* a container, whether the view is to fill it, and the view

drawVars == <<drawn, layout>>
allVars  == <<vars, drawVars>>

-----------------------------------------------------------------------------
(* CameraView *)

\* libyuv: the colour of each pixel, from planes with strides of their own.
ToABGR(Y, U, V, w, h) ==
    [p \in Positions(h) \X Positions(w) |->
        [y |-> Y[p], u |-> U[<<p[1], p[2] \div 2>>], v |-> V[<<p[1], p[2] \div 2>>]]]

StartUV(w, h) == w * h
StartU(w, h)  == w * h

\* Where the planes begin; as if U had half as many rows.
StartVBug(w, h) == (StartU(w, h) * 5) \div 4
StartV(w, h)    == (StartU(w, h) * 3) \div 2

StrideUV(w) == w \div 2

RenderNV12(data, w, h) ==
    LET Y == [p \in Positions(h) \X Positions(w) |-> Read(data, p[1] * w + p[2])]
        UV(offset) == [p \in Positions(h) \X Positions(StrideUV(w)) |->
                         Read(data, StartUV(w, h) + (p[1] \div 2) * w + 2 * p[2] + offset)]
    IN ToABGR(Y, UV(0), UV(1), w, h)

RenderYUV422(data, w, h) ==
    LET Y == [p \in Positions(h) \X Positions(w) |-> Read(data, p[1] * w + p[2])]
        Chroma(start) == [p \in Positions(h) \X Positions(StrideUV(w)) |->
                            Read(data, start + p[1] * StrideUV(w) + p[2])]
    IN ToABGR(Y, Chroma(StartU(w, h)), Chroma(StartV(w, h)), w, h)

\* libyuv's YUY2ToI422 into the buffer yuv422, which the constructor made.
RenderYUYV(data, w, h) ==
    LET pair(r, c) == 2 * w * r + 4 * c      \* the c-th Y U Y V of row r
        chroma(k, offset) == Read(data, pair(k \div StrideUV(w), k % StrideUV(w)) + offset)
        yuv422 == [k \in Positions(2 * w * h) |->
                     IF k < w * h THEN Read(data, 2 * k)
                     ELSE IF k >= StartV(w, h) THEN chroma(k - StartV(w, h), 3)
                     ELSE chroma(k - StartU(w, h), 1)]
    IN RenderYUV422(yuv422, w, h)

\* calculateDepthHist: how many points have each depth or a smaller one, and
\* from that the shade of a depth.  As if pixels without a depth were points.
PointsBug(data)   == DOMAIN data
Points(data)      == {i \in DOMAIN data : data[i] # 0}
UpTo(data, value) == Cardinality({i \in Points(data) : data[i] <= value})

\* The float is cut off; that it is rounded before is left out.  Entry 0 is not
\* scaled.
CalculateDepthHist(data) ==
    LET n == Cardinality(Points(data))
    IN [value \in Positions(HIST_SIZE) |->
          IF value = 0 \/ n = 0 THEN UpTo(data, value)
          ELSE (256 * (n - UpTo(data, value))) \div n]

RenderDepth(data) ==
    LET histogram == CalculateDepthHist(data)
    IN [i \in DOMAIN data |-> histogram[data[i]]]

-----------------------------------------------------------------------------
(* PreviewResolutionUtils *)

\* A quotient computed in floating point and cut off: where it is exact, it may
\* come out just below.
Truncated(n, d) == {n \div d} \cup (IF n % d = 0 THEN {n \div d - 1} ELSE {})

\* The sides that match the parent's; as if fill and fit were taken for each other.
MatchesWidthBug(fill, wider) == fill # wider
MatchesWidth(fill, wider)    == fill = wider

\* chanceSurfaceViewSize, for a preview of w by h.
ViewSizes(container, w, h, fill) ==
    LET wider == container.width * h > w * container.height
    IN IF MatchesWidth(fill, wider)
       THEN [width : {container.width}, height : Truncated(container.width * h, w)]
       ELSE [width : Truncated(w * container.height, h), height : {container.height}]

-----------------------------------------------------------------------------
(* One thing is done with a frame at a time; none depends on another. *)

Idle == nv21 = << >> /\ drawn = << >> /\ layout = << >>

Pictures ==
    Frames \cup [source : {"DEPTH"}, pixels : [Positions(DepthPixels) -> Positions(HIST_SIZE)]]

DrawingInit ==
    /\ frame \in Pictures
    /\ nv21 = << >> /\ drawn = << >> /\ layout = << >>

\* render, called with the layout the preview was made for.
Render ==
    /\ Idle
    /\ LET w == frame.w  h == frame.h IN
       \/ frame.source = "HW"    /\ drawn' = RenderNV12(Nv12(w, h), w, h)
       \/ frame.source = "SW"    /\ drawn' = RenderYUV422(Yuv422(w, h), w, h)
       \/ frame.source = "YUYV"  /\ drawn' = RenderYUYV(Yuyv(w, h), w, h)
       \/ frame.source = "DEPTH" /\ drawn' = RenderDepth(frame.pixels)
    /\ UNCHANGED <<vars, layout>>

ChangeSurfaceViewSize ==
    /\ Idle
    /\ frame.source # "DEPTH"
    /\ \E container \in [width : Lengths, height : Lengths], fill \in BOOLEAN :
         \E view \in ViewSizes(container, frame.w, frame.h, fill) :
           layout' = [container |-> container, fill |-> fill, view |-> view]
    /\ UNCHANGED <<vars, drawn>>

NextPicture ==
    /\ ~Idle
    /\ frame' \in Pictures
    /\ nv21' = << >> /\ drawn' = << >> /\ layout' = << >>

DrawingNext ==
    \/ Idle /\ (OnFrame \/ OnImageAvailable) /\ UNCHANGED drawVars
    \/ Render \/ ChangeSurfaceViewSize \/ NextPicture

DrawingSpec == DrawingInit /\ [][DrawingNext]_allVars

-----------------------------------------------------------------------------
(* Properties *)

\* Each pixel is drawn with its own Y and with a U and a V of one and the same
\* pixel it shares them with, whatever way the frame came.
FaithfulDrawing ==
    drawn # << >> /\ frame.source # "DEPTH" =>
        \A p \in Positions(frame.h) \X Positions(frame.w) :
            LET pixel == drawn[p] IN
            /\ pixel.y = Sample("Y", p[1], p[2])
            /\ pixel.u.plane = "U" /\ pixel.v = [pixel.u EXCEPT !.plane = "V"]
            /\ pixel.u.col \div 2 = p[2] \div 2
            /\ pixel.u.row = (IF frame.source = "HW" THEN 2 * (p[1] \div 2) ELSE p[1])

\* Of two pixels of a depth frame the nearer is not darker, and one without a
\* depth is black; a shade fits its byte.
NearerIsBrighter ==
    drawn # << >> /\ frame.source = "DEPTH" =>
        \A i, j \in DOMAIN drawn :
            /\ drawn[i] \in 0 .. 255
            /\ frame.pixels[i] = 0 => drawn[i] = 0
            /\ 0 < frame.pixels[i] /\ frame.pixels[i] <= frame.pixels[j] => drawn[i] >= drawn[j]

\* The comments of PreviewResolutionUtils.java:48 and :56: a view that fills
\* covers its container, one that fits lies in it, both with the proportions of
\* the preview.  Cutting off may leave one column of a view that fills open.
FillsOrFits ==
    layout # << >> =>
        LET view == layout.view  container == layout.container IN
        /\ IF layout.fill
             THEN view.width >= container.width - 1 /\ view.height >= container.height
             ELSE view.width <= container.width /\ view.height <= container.height
        /\ view.width * frame.h - view.height * frame.w \in -frame.h .. frame.w
=============================================================================
