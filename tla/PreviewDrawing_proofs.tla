------------------------ MODULE PreviewDrawing_proofs ------------------------
(* Theorems about the conversions to NV21 and the drawn pictures, for all      *)
(* sizes, about the shades of a depth frame, for any histogram and any number  *)
(* of pixels, and about the size of the view, for any previews and containers. *)
EXTENDS PreviewDrawing, FiniteSetTheorems, TLAPS

-----------------------------------------------------------------------------
(* Arithmetic *)

\* What \div and % are.
LEMMA Quotient ==
    ASSUME NEW n \in Nat, NEW d \in Nat \ {0}
    PROVE  /\ n \div d \in Nat
           /\ d * (n \div d) <= n /\ n < d * (n \div d) + d
           /\ n % d = 0 => d * (n \div d) = n
<1>1. n \div d \in Nat /\ n % d \in 0 .. d - 1
  BY SMT
<1>2. n % d = n - d * (n \div d)
  BY SMT
<1>3. d * (n \div d) \in Int
  BY <1>1, SMT
<1> QED
  BY <1>1, <1>2, <1>3, SMT

LEMMA Cancels ==
    ASSUME NEW d \in Nat \ {0}, NEW a \in Int, NEW b \in Int
    PROVE  d * a < d * b + d => a <= b
<1> SUFFICES ASSUME b + 1 <= a PROVE d * b + d <= d * a
  BY SMT
<1>1. d * (b + 1) <= d * a
  BY SMT
<1> QED
  BY <1>1, SMT

LEMMA QuotientGrows ==
    ASSUME NEW d \in Nat \ {0}, NEW m \in Nat, NEW n \in Nat, m <= n
    PROVE  m \div d <= n \div d
<1>1. /\ m \div d \in Int /\ n \div d \in Int
      /\ d * (m \div d) <= m /\ n < d * (n \div d) + d
  BY Quotient
<1>2. d * (m \div d) \in Int /\ d * (n \div d) \in Int
  BY <1>1, SMT
<1>3. d * (m \div d) < d * (n \div d) + d
  BY <1>1, <1>2, SMT
<1> QED
  BY <1>1, <1>3, Cancels

\* A position made of a row and a column.
LEMMA Divided ==
    ASSUME NEW d \in Nat \ {0}, NEW q \in Nat, NEW r \in 0 .. d - 1
    PROVE  /\ d * q + r \in Nat
           /\ (d * q + r) \div d = q /\ (d * q + r) % d = r
<1> DEFINE n == d * q + r
<1>1. d * q \in Nat /\ n \in Nat
  BY SMT
<1>2. /\ n \div d \in Nat /\ d * (n \div d) <= n /\ n < d * (n \div d) + d
      /\ n % d = n - d * (n \div d)
  <2> HIDE DEF n
  <2>1. n \div d \in Nat /\ d * (n \div d) <= n /\ n < d * (n \div d) + d
    BY <1>1, Quotient
  <2>2. n % d = n - d * (n \div d)
    BY <1>1, SMT
  <2> QED
    BY <2>1, <2>2
<1>3. d * (n \div d) \in Int
  BY <1>2, SMT
<1>4. d * (n \div d) < d * q + d /\ d * q < d * (n \div d) + d
  <2> DEFINE m == d * (n \div d)
             p == d * q
  <2>1. m \in Int /\ p \in Nat /\ n = p + r /\ m <= n /\ n < m + d
    BY <1>1, <1>2, <1>3
  <2> HIDE DEF m, p, n
  <2>2. m < p + d /\ p < m + d
    BY <2>1
  <2> QED
    BY <2>2 DEF m, p, n
<1>5. n \div d = q
  <2> DEFINE m == n \div d
  <2>1. m \in Nat /\ d * m < d * q + d /\ d * q < d * m + d
    BY <1>2, <1>4
  <2> HIDE DEF m
  <2>2. m <= q /\ q <= m
    BY <2>1, Cancels
  <2>3. m = q
    BY <2>1, <2>2
  <2> QED
    BY <2>3 DEF m
<1> QED
  BY <1>1, <1>2, <1>5

\* And back.
LEMMA Division ==
    ASSUME NEW d \in Nat \ {0}, NEW n \in Nat
    PROVE  n \div d \in Nat /\ n % d \in 0 .. d - 1 /\ n = d * (n \div d) + (n % d)
<1>1. n \div d \in Nat /\ n % d \in 0 .. d - 1 /\ n % d = n - d * (n \div d)
  BY SMT
<1> DEFINE m == d * (n \div d)
<1>2. m \in Int /\ n % d = n - m
  BY <1>1, SMT
<1> HIDE DEF m
<1>3. n = m + (n % d)
  BY <1>1, <1>2
<1> QED
  BY <1>1, <1>3 DEF m

LEMMA QuotientAndRest ==
    ASSUME NEW d \in Nat \ {0}, NEW n \in Nat
    PROVE  n \div d \in Nat /\ n % d \in 0 .. d - 1 /\ n % d \in Nat
<1>1. n \div d \in Nat /\ n % d \in 0 .. d - 1
  BY SMT
<1> QED
  BY <1>1

\* A row and a column inside a plane, as a position, and back.
LEMMA At ==
    ASSUME NEW w \in Nat \ {0}, NEW h \in Nat \ {0}, NEW r \in 0 .. h - 1, NEW c \in 0 .. w - 1
    PROVE  w * r + c \in 0 .. w * h - 1
<1>1. r + 1 <= h
  OBVIOUS
<1>2. w * (r + 1) <= w * h /\ w * (r + 1) = w * r + w /\ w * r \in Nat /\ w * h \in Nat
  BY <1>1, SMT
<1> QED
  BY <1>2

LEMMA RowAndColumn ==
    ASSUME NEW w \in Nat \ {0}, NEW h \in Nat, NEW k \in 0 .. w * h - 1
    PROVE  k \div w \in 0 .. h - 1 /\ k % w \in 0 .. w - 1 /\ k = w * (k \div w) + (k % w)
<1>1. w * h \in Nat
  BY SMT
<1>2. k \in Nat /\ k < w * h
  BY <1>1
<1>3. k \div w \in Nat /\ k % w \in 0 .. w - 1 /\ k = w * (k \div w) + (k % w)
  BY <1>2, Division
<1> DEFINE q == k \div w
<1>4. q \in Nat /\ w * q <= k
  BY <1>2, <1>3, Quotient
<1> HIDE DEF q
<1>5. q < h
  <2> SUFFICES ASSUME h <= q PROVE FALSE
    BY <1>4
  <2>1. w * h <= w * q /\ w * q \in Int
    BY <1>4, SMT
  <2> QED
    BY <1>1, <1>2, <1>4, <2>1
<1> QED
  BY <1>3, <1>4, <1>5 DEF q

\* Two bytes to a column: twice a position, and the byte after it.
LEMMA Twice ==
    ASSUME NEW d \in Nat \ {0}, NEW n \in Nat, NEW e \in {0, 1}
    PROVE  /\ (2 * n + e) \div (2 * d) = n \div d
           /\ (2 * n + e) % (2 * d) = 2 * (n % d) + e
           /\ (2 * n + e) \div 2 = n /\ (2 * n + e) % 2 = e
<1> DEFINE q == n \div d
           r == n % d
<1>1. q \in Nat /\ r \in 0 .. d - 1 /\ n = d * q + r
  BY Division
<1> HIDE DEF q, r
<1>2. 2 * d \in Nat \ {0} /\ 2 * r + e \in 0 .. 2 * d - 1
  BY <1>1
<1>3. 2 * n + e = (2 * d) * q + (2 * r + e)
  <2>1. d * q \in Nat /\ (2 * d) * q = 2 * (d * q)
    BY <1>1, SMT
  <2> QED
    BY <1>1, <2>1
<1>4. (2 * n + e) \div (2 * d) = q /\ (2 * n + e) % (2 * d) = 2 * r + e
  BY <1>1, <1>2, <1>3, Divided
<1>5. (2 * n + e) \div 2 = n /\ (2 * n + e) % 2 = e
  BY SMT
<1> QED
  BY <1>4, <1>5 DEF q, r

-----------------------------------------------------------------------------
(* The histogram *)

DepthFrames == [Positions(DepthPixels) -> Positions(HIST_SIZE)]

\* Every point has a depth of its own or a smaller one; a greater depth has all
\* the points a smaller one has.
LEMMA PointsUpTo ==
    ASSUME NEW data \in DepthFrames, NEW value \in Positions(HIST_SIZE)
    PROVE  /\ Cardinality(Points(data)) \in Nat
           /\ UpTo(data, value) \in 0 .. Cardinality(Points(data))
           /\ \A i \in DOMAIN data : 0 < data[i] /\ data[i] <= value => UpTo(data, value) >= 1
           /\ \A less \in Positions(HIST_SIZE) : less <= value => UpTo(data, less) <= UpTo(data, value)
           /\ value = 0 => UpTo(data, value) = 0
<1> DEFINE Upto(v) == {i \in Points(data) : data[i] <= v}
<1>1. Points(data) \subseteq 0 .. DepthPixels - 1 /\ DepthPixels - 1 \in Int
      /\ \A i \in DOMAIN data : data[i] \in Nat
  BY DrawingAssumption DEF Points, DepthFrames, Positions
<1>2. IsFiniteSet(Points(data))
  <2>1. IsFiniteSet(0 .. DepthPixels - 1)
    BY <1>1, FS_Interval
  <2> QED
    BY <1>1, <2>1, FS_Subset
<1>3. \A v : /\ IsFiniteSet(Upto(v)) /\ Cardinality(Upto(v)) \in Nat
             /\ Cardinality(Upto(v)) <= Cardinality(Points(data))
  <2> SUFFICES ASSUME NEW v
               PROVE  /\ IsFiniteSet(Upto(v)) /\ Cardinality(Upto(v)) \in Nat
                      /\ Cardinality(Upto(v)) <= Cardinality(Points(data))
    OBVIOUS
  <2>1. Upto(v) \subseteq Points(data)
    OBVIOUS
  <2> HIDE DEF Upto
  <2> QED
    BY <1>2, <2>1, FS_Subset, FS_CardinalityType
<1>4. Cardinality(Points(data)) \in Nat
  BY <1>2, FS_CardinalityType
<1>5. ASSUME NEW i \in DOMAIN data, 0 < data[i], data[i] <= value
      PROVE  Cardinality(Upto(value)) >= 1
  <2>1. i \in Upto(value)
    BY <1>1, <1>5 DEF Points
  <2>2. Upto(value) # {}
    BY <2>1
  <2>3. Cardinality(Upto(value)) # 0
    <3> HIDE DEF Upto
    <3> QED
      BY <1>3, <2>2, FS_EmptySet
  <2> QED
    BY <1>3, <2>3
<1>6. ASSUME NEW less \in Positions(HIST_SIZE), less <= value
      PROVE  Cardinality(Upto(less)) <= Cardinality(Upto(value))
  <2>1. less \in Int /\ value \in Int
    BY DrawingAssumption DEF Positions
  <2>2. Upto(less) \subseteq Upto(value)
    BY <1>1, <1>6, <2>1 DEF Points
  <2> HIDE DEF Upto
  <2> QED
    BY <1>3, <2>2, FS_Subset
<1>7. ASSUME value = 0 PROVE Cardinality(Upto(value)) = 0
  <2>1. Upto(value) = {}
    BY <1>1, <1>7 DEF Points
  <2> HIDE DEF Upto
  <2> QED
    BY <2>1, FS_EmptySet
<1>8. \A v : UpTo(data, v) = Cardinality(Upto(v))
  BY DEF UpTo
<1> HIDE DEF Upto
<1>9. UpTo(data, value) \in 0 .. Cardinality(Points(data))
  BY <1>3, <1>4, <1>8
<1>10. \A i \in DOMAIN data : 0 < data[i] /\ data[i] <= value => UpTo(data, value) >= 1
  BY <1>5, <1>8
<1>11. \A less \in Positions(HIST_SIZE) : less <= value => UpTo(data, less) <= UpTo(data, value)
  BY <1>6, <1>8
<1>12. value = 0 => UpTo(data, value) = 0
  BY <1>7, <1>8
<1> QED
  BY <1>4, <1>9, <1>10, <1>11, <1>12

\* The shade of a depth some point has.
LEMMA ShadeOfPoint ==
    ASSUME NEW data \in DepthFrames, NEW i \in DOMAIN data, data[i] # 0
    PROVE  LET n == Cardinality(Points(data)) IN
           /\ n \in Nat \ {0} /\ UpTo(data, data[i]) \in 1 .. n
           /\ RenderDepth(data)[i] = (256 * (n - UpTo(data, data[i]))) \div n
           /\ RenderDepth(data)[i] \in 0 .. 255
<1> DEFINE n == Cardinality(Points(data))
           u == UpTo(data, data[i])
<1>1. data[i] \in Positions(HIST_SIZE) /\ data[i] \in Nat
  BY DrawingAssumption DEF DepthFrames, Positions
<1>2. n \in Nat /\ u \in 0 .. n /\ u >= 1
  BY <1>1, PointsUpTo
<1>3. n \in Nat \ {0} /\ u \in 1 .. n
  BY <1>2
<1>4. RenderDepth(data)[i] = (256 * (n - u)) \div n
  BY <1>1, <1>3 DEF RenderDepth, CalculateDepthHist
<1> HIDE DEF n, u
<1>5. (256 * (n - u)) \div n \in 0 .. 255
  <2>1. 256 * (n - u) \in Nat /\ 256 * (n - u) < 256 * n
    BY <1>3
  <2> DEFINE q == (256 * (n - u)) \div n
  <2>2. q \in Nat /\ n * q <= 256 * (n - u)
    BY <1>3, <2>1, Quotient
  <2> HIDE DEF q
  <2>3. n * q < n * 255 + n
    <3>1. n * q \in Int
      BY <1>3, <2>2, SMT
    <3> QED
      BY <1>3, <2>1, <2>2, <3>1, SMT
  <2>4. q <= 255
    BY <1>3, <2>2, <2>3, Cancels
  <2> QED
    BY <2>2, <2>4 DEF q
<1> QED
  BY <1>3, <1>4, <1>5 DEF n, u

LEMMA ShadeOfNothing ==
    ASSUME NEW data \in DepthFrames, NEW i \in DOMAIN data, data[i] = 0
    PROVE  RenderDepth(data)[i] = 0
<1>1. 0 \in Positions(HIST_SIZE)
  BY DrawingAssumption DEF Positions
<1>2. UpTo(data, 0) = 0
  BY <1>1, PointsUpTo
<1> QED
  BY <1>1, <1>2 DEF RenderDepth, CalculateDepthHist

LEMMA ShadesInOrder ==
    ASSUME NEW data \in DepthFrames, NEW i \in DOMAIN data, NEW j \in DOMAIN data,
           0 < data[i], data[i] <= data[j]
    PROVE  RenderDepth(data)[i] >= RenderDepth(data)[j]
<1> DEFINE n == Cardinality(Points(data))
           near == UpTo(data, data[i])
           far  == UpTo(data, data[j])
<1>1. /\ data[i] \in Positions(HIST_SIZE) /\ data[j] \in Positions(HIST_SIZE)
      /\ data[i] \in Nat /\ data[j] \in Nat /\ data[i] # 0 /\ data[j] # 0
  BY DrawingAssumption DEF DepthFrames, Positions
<1>2. /\ n \in Nat \ {0} /\ near \in 1 .. n /\ far \in 1 .. n
      /\ RenderDepth(data)[i] = (256 * (n - near)) \div n
      /\ RenderDepth(data)[j] = (256 * (n - far)) \div n
  BY <1>1, ShadeOfPoint
<1>3. near <= far
  BY <1>1, PointsUpTo
<1> HIDE DEF n, near, far
<1>4. 256 * (n - far) \in Nat /\ 256 * (n - near) \in Nat /\ 256 * (n - far) <= 256 * (n - near)
  BY <1>2, <1>3
<1>5. (256 * (n - far)) \div n <= (256 * (n - near)) \div n
  BY <1>2, <1>4, QuotientGrows
<1>6. (256 * (n - far)) \div n \in Int /\ (256 * (n - near)) \div n \in Int
  BY <1>2, <1>4, Quotient
<1> QED
  BY <1>2, <1>5, <1>6

-----------------------------------------------------------------------------
(* The size of the view *)

\* The side that does not match, for a preview with a side of length from that
\* becomes one of length to: what is in proportion, cut off.
LEMMA CutOff ==
    ASSUME NEW from \in Nat \ {0}, NEW to \in Nat \ {0}, NEW side \in Nat \ {0},
           NEW length \in Truncated(side * to, from)
    PROVE  /\ length \in Int
           /\ from * length <= side * to /\ side * to <= from * length + from
           /\ \A limit \in Nat :
                /\ side * to <= from * limit => length <= limit
                /\ from * limit < side * to => length >= limit
                /\ from * limit <= side * to => length >= limit - 1
<1> DEFINE n == side * to
           q == n \div from
<1>1. n \in Nat
  BY SMT
<1> HIDE DEF n
<1>2. q \in Nat /\ from * q <= n /\ n < from * q + from /\ (n % from = 0 => from * q = n)
  BY <1>1, Quotient
<1>3. length = q \/ (n % from = 0 /\ length = q - 1)
  BY DEF Truncated, n
<1> HIDE DEF q
<1>4. /\ length \in Int /\ from * length \in Int
      /\ from * length <= n /\ n <= from * length + from
      /\ length = q \/ n = from * length + from
  <2>1. CASE length = q
    <3>1. from * q \in Int
      BY <1>2, SMT
    <3> QED
      BY <1>1, <1>2, <2>1, <3>1, SMT
  <2>2. CASE n % from = 0 /\ length = q - 1
    <3>1. from * (q - 1) = from * q - from /\ from * q \in Int
      BY <1>2, SMT
    <3> QED
      BY <1>1, <1>2, <2>2, <3>1, SMT
  <2> QED
    BY <1>3, <2>1, <2>2
<1>5. ASSUME NEW limit \in Nat
      PROVE  /\ n <= from * limit => length <= limit
             /\ from * limit < n => length >= limit
             /\ from * limit <= n => length >= limit - 1
  <2>1. from * limit \in Int /\ from * (length + 1) = from * length + from
        /\ from * (limit - 1) = from * limit - from
    BY <1>4, SMT
  <2>2. ASSUME n <= from * limit PROVE length <= limit
    <3>1. from * length < from * limit + from
      BY <1>1, <1>4, <2>1, <2>2, SMT
    <3> QED
      BY <1>4, <3>1, Cancels
  <2>3. ASSUME from * limit < n PROVE length >= limit
    <3>1. from * limit < from * length + from
      BY <1>1, <1>4, <2>1, <2>3, SMT
    <3> QED
      BY <1>4, <3>1, Cancels
  <2>4. ASSUME from * limit <= n PROVE length >= limit - 1
    <3>1. from * (limit - 1) < from * length + from
      BY <1>1, <1>4, <2>1, <2>4, SMT
    <3> QED
      BY <1>4, <3>1, Cancels
  <2> QED
    BY <2>2, <2>3, <2>4
<1> QED
  BY <1>4, <1>5 DEF n

\* FillsOrFits, for one view.
InProportion(container, w, h, fill, view) ==
    /\ IF fill THEN view.width >= container.width - 1 /\ view.height >= container.height
       ELSE view.width <= container.width /\ view.height <= container.height
    /\ view.width * h - view.height * w \in -h .. w

LEMMA ViewInProportion ==
    ASSUME NEW container \in [width : Nat \ {0}, height : Nat \ {0}],
           NEW w \in Nat \ {0}, NEW h \in Nat \ {0}, NEW fill \in BOOLEAN,
           NEW view \in ViewSizes(container, w, h, fill)
    PROVE  InProportion(container, w, h, fill, view)
<1> DEFINE cw == container.width
           ch == container.height
           vw == view.width
           vh == view.height
<1>1. cw \in Nat \ {0} /\ ch \in Nat \ {0}
  OBVIOUS
<1>2. \/ fill = (cw * h > w * ch) /\ vw = cw /\ vh \in Truncated(cw * h, w)
      \/ fill # (cw * h > w * ch) /\ vw \in Truncated(w * ch, h) /\ vh = ch
  BY DEF ViewSizes, MatchesWidth
<1>3. SUFFICES /\ IF fill THEN vw >= cw - 1 /\ vh >= ch ELSE vw <= cw /\ vh <= ch
               /\ vw * h - vh * w \in -h .. w
  BY DEF InProportion
<1> HIDE DEF cw, ch, vw, vh
<1>4. cw * h \in Int /\ w * ch \in Int /\ h * cw = cw * h
  BY <1>1, SMT
<1>5. CASE fill = (cw * h > w * ch) /\ vw = cw /\ vh \in Truncated(cw * h, w)
  <2>1. /\ vh \in Int /\ w * vh <= cw * h /\ cw * h <= w * vh + w
        /\ cw * h <= w * ch => vh <= ch
        /\ w * ch < cw * h => vh >= ch
    BY <1>1, <1>5, CutOff
  <2>2. IF fill THEN vw >= cw - 1 /\ vh >= ch ELSE vw <= cw /\ vh <= ch
    <3> DEFINE wider == cw * h > w * ch
    <3>1. wider \in BOOLEAN /\ fill = wider
      BY <1>5
    <3>2. wider => w * ch < cw * h
      BY <1>4
    <3>3. ~wider => cw * h <= w * ch
      BY <1>4
    <3> HIDE DEF wider
    <3>4. (fill => w * ch < cw * h) /\ (~fill => cw * h <= w * ch)
      BY <3>1, <3>2, <3>3, Zenon
    <3> QED
      BY <1>1, <1>5, <2>1, <3>4
  <2>3. vw * h = cw * h /\ vh * w = w * vh /\ w * vh \in Int
    BY <1>5, <2>1, SMT
  <2>4. vw * h - vh * w \in -h .. w
    BY <1>4, <2>1, <2>3, SMT
  <2> QED
    BY <2>2, <2>4
<1>6. CASE fill # (cw * h > w * ch) /\ vw \in Truncated(w * ch, h) /\ vh = ch
  <2>1. /\ vw \in Int /\ h * vw <= w * ch /\ w * ch <= h * vw + h
        /\ w * ch <= h * cw => vw <= cw
        /\ h * cw <= w * ch => vw >= cw - 1
    BY <1>1, <1>6, CutOff
  <2>2. IF fill THEN vw >= cw - 1 /\ vh >= ch ELSE vw <= cw /\ vh <= ch
    BY <1>1, <1>4, <1>6, <2>1
  <2>3. vw * h = h * vw /\ vh * w = w * ch /\ h * vw \in Int
    BY <1>1, <1>6, <2>1, SMT
  <2>4. vw * h - vh * w \in -h .. w
    BY <1>4, <2>1, <2>3, SMT
  <2> QED
    BY <2>2, <2>4
<1> QED
  BY <1>2, <1>5, <1>6

-----------------------------------------------------------------------------
(* The layouts *)

\* The sizes of a picture with s by g blocks of two by two pixels.
LEMMA Blocks ==
    ASSUME NEW s \in Nat \ {0}, NEW g \in Nat \ {0}
    PROVE  /\ s * g \in Nat \ {0}
           /\ (2 * s) * (2 * g) = 4 * (s * g) /\ s * (2 * g) = 2 * (s * g)
           /\ (2 * s) \div 2 = s /\ (2 * g) \div 2 = g
           /\ (4 * (s * g)) \div 2 = 2 * (s * g) /\ (4 * (s * g)) \div 4 = s * g
           /\ Positions(s * g) = 0 .. s * g - 1
<1> DEFINE p == s * g
<1>1. p \in Nat \ {0} /\ (2 * s) * (2 * g) = 4 * p /\ s * (2 * g) = 2 * p
  BY SMT
<1> HIDE DEF p
<1>2. (4 * p) \div 2 = 2 * p /\ (4 * p) \div 4 = p
  BY <1>1, SMT
<1> QED
  BY <1>1, <1>2, SMT DEF p, Positions

LEMMA LengthOf ==
    ASSUME NEW n \in Nat, NEW buffer, DOMAIN buffer = Positions(n)
    PROVE  Length(buffer) = n
  BY FS_Interval DEF Length, Positions

LEMMA Nv12At ==
    ASSUME NEW s \in Nat \ {0}, NEW g \in Nat \ {0}
    PROVE  LET w == 2 * s  h == 2 * g  buffer == Nv12(w, h) IN
           /\ DOMAIN buffer = Positions(6 * (s * g))
           /\ \A k \in Positions(4 * (s * g)) : buffer[k] = Sample("Y", k \div w, k % w)
           /\ \A b \in Positions(s * g), e \in {0, 1} :
                buffer[4 * (s * g) + 2 * b + e] =
                  Sample(IF e = 0 THEN "U" ELSE "V", 2 * (b \div s), 2 * (b % s))
<1> DEFINE w == 2 * s
           p == s * g
           buffer == Nv12(2 * s, 2 * g)
<1>1. p \in Nat \ {0} /\ (2 * s) * (2 * g) = 4 * p /\ (4 * p) \div 2 = 2 * p
  BY Blocks
<1>2. buffer = [k \in Positions(6 * p) |->
                  LET c == k - 4 * p IN
                  IF c < 0 THEN Sample("Y", k \div w, k % w)
                  ELSE Sample(IF c % 2 = 0 THEN "U" ELSE "V",
                              2 * (c \div w), 2 * ((c % w) \div 2))]
  <2>1. 3 * (2 * p) = 6 * p
    BY <1>1
  <2> QED
    BY <1>1, <2>1 DEF Nv12
<1> HIDE DEF p, buffer
<1>3. ASSUME NEW k \in Positions(4 * p) PROVE buffer[k] = Sample("Y", k \div w, k % w)
  <2>1. k \in Positions(6 * p) /\ k - 4 * p < 0
    BY <1>1 DEF Positions
  <2> HIDE DEF w
  <2> QED
    BY <1>2, <2>1
<1>4. ASSUME NEW b \in Positions(p), NEW e \in {0, 1}
      PROVE  buffer[4 * p + 2 * b + e] =
               Sample(IF e = 0 THEN "U" ELSE "V", 2 * (b \div s), 2 * (b % s))
  <2> DEFINE k == 4 * p + 2 * b + e
             c == 2 * b + e
  <2>1. b \in Nat /\ k \in Positions(6 * p) /\ k - 4 * p = c /\ ~(c < 0)
    BY <1>1 DEF Positions
  <2>2. c \div w = b \div s /\ c % w = 2 * (b % s) + e /\ c % 2 = e
    BY <2>1, Twice
  <2>3. (2 * (b % s) + e) \div 2 = b % s
    <3>1. b % s \in Nat
      BY <2>1, Division
    <3> QED
      BY <3>1, SMT
  <2> HIDE DEF k, c, w
  <2>4. buffer[k] = Sample(IF c % 2 = 0 THEN "U" ELSE "V", 2 * (c \div w), 2 * ((c % w) \div 2))
    BY <1>2, <2>1
  <2> QED
    BY <2>2, <2>3, <2>4 DEF k
<1>5. DOMAIN buffer = Positions(6 * p)
  BY <1>2
<1> QED
  BY <1>3, <1>4, <1>5 DEF p, buffer

\* For a plane of chroma of its own, any place in it.
LEMMA Yuv422At ==
    ASSUME NEW s \in Nat \ {0}, NEW g \in Nat \ {0}
    PROVE  LET w == 2 * s  h == 2 * g  buffer == Yuv422(w, h) IN
           /\ DOMAIN buffer = Positions(8 * (s * g))
           /\ \A k \in Positions(4 * (s * g)) : buffer[k] = Sample("Y", k \div w, k % w)
           /\ \A c \in Positions(2 * (s * g)) :
                /\ buffer[4 * (s * g) + c] = Sample("U", c \div s, 2 * (c % s))
                /\ buffer[6 * (s * g) + c] = Sample("V", c \div s, 2 * (c % s))
<1> DEFINE w == 2 * s
           p == s * g
           buffer == Yuv422(2 * s, 2 * g)
           C(plane, c) == Sample(plane, c \div s, 2 * (c % s))
<1>1. /\ p \in Nat \ {0} /\ (2 * s) * (2 * g) = 4 * p /\ s * (2 * g) = 2 * p
      /\ (2 * s) \div 2 = s /\ 2 * (2 * s) * (2 * g) = 8 * p
  <2>1. 2 * (2 * s) * (2 * g) = 2 * ((2 * s) * (2 * g))
    BY SMT
  <2> QED
    BY <2>1, Blocks
<1>2. buffer = [k \in Positions(8 * p) |->
                  IF k < 4 * p THEN Sample("Y", k \div w, k % w)
                  ELSE IF k < 4 * p + 2 * p THEN C("U", k - 4 * p)
                  ELSE C("V", k - 4 * p - 2 * p)]
  BY <1>1 DEF Yuv422
<1> HIDE DEF p, buffer, C, w
<1>3. ASSUME NEW k \in Positions(4 * p) PROVE buffer[k] = Sample("Y", k \div w, k % w)
  <2>1. k \in Positions(8 * p) /\ k < 4 * p
    BY <1>1 DEF Positions
  <2> QED
    BY <1>2, <2>1
<1>4. ASSUME NEW c \in Positions(2 * p)
      PROVE  buffer[4 * p + c] = C("U", c) /\ buffer[6 * p + c] = C("V", c)
  <2>1. /\ 4 * p + c \in Positions(8 * p) /\ ~(4 * p + c < 4 * p) /\ 4 * p + c < 4 * p + 2 * p
        /\ (4 * p + c) - 4 * p = c
        /\ 6 * p + c \in Positions(8 * p) /\ ~(6 * p + c < 4 * p) /\ ~(6 * p + c < 4 * p + 2 * p)
        /\ (6 * p + c) - 4 * p - 2 * p = c
    BY <1>1 DEF Positions
  <2> QED
    BY <1>2, <2>1
<1>5. DOMAIN buffer = Positions(8 * p)
  BY <1>2
<1> QED
  BY <1>3, <1>4, <1>5 DEF p, buffer, C, w

\* Four bytes for two pixels; j counts the pairs of pixels.
LEMMA YuyvAt ==
    ASSUME NEW s \in Nat \ {0}, NEW g \in Nat \ {0}
    PROVE  LET w == 2 * s  h == 2 * g  buffer == Yuyv(w, h) IN
           /\ DOMAIN buffer = Positions(8 * (s * g))
           /\ \A k \in Positions(4 * (s * g)) : buffer[2 * k] = Sample("Y", k \div w, k % w)
           /\ \A j \in Positions(2 * (s * g)) :
                /\ buffer[4 * j + 1] = Sample("U", j \div s, 2 * (j % s))
                /\ buffer[4 * j + 3] = Sample("V", j \div s, 2 * (j % s))
<1> DEFINE w == 2 * s
           p == s * g
           buffer == Yuyv(2 * s, 2 * g)
<1>1. p \in Nat \ {0} /\ w \in Nat \ {0} /\ 2 * (2 * s) * (2 * g) = 8 * p
  <2>1. 2 * (2 * s) * (2 * g) = 2 * ((2 * s) * (2 * g))
    BY SMT
  <2> QED
    BY <2>1, Blocks
<1>2. buffer = [k \in Positions(8 * p) |->
                  LET row == k \div (2 * w)
                      col == (k \div 2) % w
                  IN IF k % 2 = 0 THEN Sample("Y", row, col)
                     ELSE Sample(IF k % 4 = 1 THEN "U" ELSE "V", row, 2 * (col \div 2))]
  BY <1>1 DEF Yuyv
<1> HIDE DEF p, buffer
<1>3. ASSUME NEW k \in Positions(4 * p) PROVE buffer[2 * k] = Sample("Y", k \div w, k % w)
  <2>1. k \in Nat /\ 2 * k \in Positions(8 * p)
    BY <1>1 DEF Positions
  <2> HIDE DEF w
  <2>2. (2 * k) \div (2 * w) = k \div w /\ (2 * k) \div 2 = k /\ (2 * k) % 2 = 0
    <3>1. 2 * k + 0 = 2 * k
      BY <2>1
    <3> QED
      BY <1>1, <2>1, <3>1, Twice
  <2> QED
    BY <1>2, <2>1, <2>2
<1>4. ASSUME NEW j \in Positions(2 * p), NEW e \in {0, 1}
      PROVE  buffer[4 * j + 2 * e + 1] =
               Sample(IF e = 0 THEN "U" ELSE "V", j \div s, 2 * (j % s))
  <2> DEFINE k == 4 * j + 2 * e + 1
  <2>1. j \in Nat /\ 2 * j + e \in Nat /\ k \in Positions(8 * p) /\ k = 2 * (2 * j + e) + 1
    BY <1>1 DEF Positions
  <2>2. k \div (2 * w) = (2 * j + e) \div w /\ k \div 2 = 2 * j + e /\ k % 2 = 1
    BY <1>1, <2>1, Twice
  <2>3. (2 * j + e) \div w = j \div s /\ (2 * j + e) % w = 2 * (j % s) + e
    BY <2>1, Twice
  <2>4. (2 * (j % s) + e) \div 2 = j % s
    <3>1. j % s \in Nat
      BY <2>1, Division
    <3> QED
      BY <3>1, SMT
  <2>5. k % 4 = 2 * e + 1
    BY <2>1, SMT
  <2> HIDE DEF k, w
  <2>6. buffer[k] = Sample(IF k % 4 = 1 THEN "U" ELSE "V", k \div (2 * w), 2 * (((k \div 2) % w) \div 2))
    BY <1>2, <2>1, <2>2
  <2> QED
    BY <2>2, <2>3, <2>4, <2>5, <2>6 DEF k
<1>5. ASSUME NEW j \in Positions(2 * p)
      PROVE  /\ buffer[4 * j + 1] = Sample("U", j \div s, 2 * (j % s))
             /\ buffer[4 * j + 3] = Sample("V", j \div s, 2 * (j % s))
  <2>1. 4 * j + 2 * 0 + 1 = 4 * j + 1 /\ 4 * j + 2 * 1 + 1 = 4 * j + 3
    BY <1>1 DEF Positions
  <2> QED
    BY <1>4, <2>1
<1>6. DOMAIN buffer = Positions(8 * p)
  BY <1>2
<1> QED
  BY <1>3, <1>5, <1>6 DEF p, buffer, w

\* Without padding a plane of camera2 is one of full rows.
LEMMA YPlaneAt ==
    ASSUME NEW s \in Nat \ {0}, NEW g \in Nat \ {0}
    PROVE  LET w == 2 * s  h == 2 * g  buffer == YPlane(w, h, w) IN
           /\ DOMAIN buffer = Positions(4 * (s * g))
           /\ \A k \in Positions(4 * (s * g)) : buffer[k] = Sample("Y", k \div w, k % w)
<1> DEFINE w == 2 * s
           p == s * g
           buffer == YPlane(2 * s, 2 * g, 2 * s)
<1>1. p \in Nat \ {0} /\ w \in Nat \ {0} /\ w * (2 * g - 1) + w = 4 * p
  <2>1. p \in Nat \ {0} /\ w * (2 * g) = 4 * p
    BY Blocks
  <2>2. w * (2 * g - 1) + w = w * (2 * g)
    BY SMT
  <2> QED
    BY <2>1, <2>2
<1>2. buffer = [k \in Positions(4 * p) |->
                  IF k % w < w THEN Sample("Y", k \div w, k % w) ELSE Blank]
  BY <1>1 DEF YPlane
<1> HIDE DEF p, buffer, w
<1>3. ASSUME NEW k \in Positions(4 * p) PROVE buffer[k] = Sample("Y", k \div w, k % w)
  <2>1. k \in Nat
    BY <1>1 DEF Positions
  <2>2. k % w < w
    BY <1>1, <2>1, Division
  <2> QED
    BY <1>2, <2>2
<1> QED
  BY <1>2, <1>3 DEF p, buffer, w

LEMMA PlanarChromaAt ==
    ASSUME NEW s \in Nat \ {0}, NEW g \in Nat \ {0}, NEW plane
    PROVE  LET buffer == ChromaPlane(plane, 2 * s, 2 * g, 1, s) IN
           /\ DOMAIN buffer = Positions(s * g)
           /\ \A b \in Positions(s * g) : buffer[b] = Sample(plane, 2 * (b \div s), 2 * (b % s))
<1> DEFINE p == s * g
           buffer == ChromaPlane(plane, 2 * s, 2 * g, 1, s)
<1>1. /\ p \in Nat \ {0} /\ (2 * s) \div 2 = s /\ (2 * g) \div 2 = g
      /\ s * (g - 1) + (s - 1) * 1 + 1 = p
  <2>1. s * (g - 1) = s * g - s /\ s * g \in Int
    BY SMT
  <2> QED
    BY <2>1, Blocks
<1>2. buffer =
        [k \in Positions(p) |->
          LET row  == k \div s
              col  == (k % s) \div 1
              next == IF 2 * col + 2 < 2 * s THEN <<2 * row, 2 * col + 2>> ELSE <<2 * row + 2, 0>>
          IN IF 2 * col >= 2 * s THEN Blank
             ELSE IF k % 1 = 0 THEN Sample(plane, 2 * row, 2 * col)
             ELSE IF plane = "V" THEN Sample("U", 2 * row, 2 * col)
             ELSE Sample("V", next[1], next[2])]
  BY <1>1 DEF ChromaPlane
<1> HIDE DEF p, buffer
<1>3. ASSUME NEW b \in Positions(p)
      PROVE  buffer[b] = Sample(plane, 2 * (b \div s), 2 * (b % s))
  <2>1. b \in Nat
    BY <1>1 DEF Positions
  <2>2. b % s \in 0 .. s - 1
    BY <2>1, Division
  <2>3. (b % s) \div 1 = b % s /\ b % 1 = 0 /\ ~(2 * (b % s) >= 2 * s)
    BY <2>1, <2>2, SMT
  <2> QED
    BY <1>2, <2>3
<1> QED
  BY <1>2, <1>3 DEF p, buffer

\* Interleaved planes: this one in the even bytes, the other in the odd ones.
\* The last byte the planes have in common is the last V.
LEMMA InterleavedChromaAt ==
    ASSUME NEW s \in Nat \ {0, 1}, NEW g \in Nat \ {0}
    PROVE  LET u == ChromaPlane("U", 2 * s, 2 * g, 2, 2 * s)
               v == ChromaPlane("V", 2 * s, 2 * g, 2, 2 * s)
               p == s * g
           IN
           /\ DOMAIN u = Positions(2 * p - 1) /\ DOMAIN v = Positions(2 * p - 1)
           /\ \A b \in Positions(p) : v[2 * b] = Sample("V", 2 * (b \div s), 2 * (b % s))
           /\ \A b \in Positions(p - 1) : v[2 * b + 1] = Sample("U", 2 * (b \div s), 2 * (b % s))
           /\ u[2 * p - 3] = Sample("V", 2 * ((p - 1) \div s), 2 * ((p - 1) % s))
<1> DEFINE p == s * g
           w == 2 * s
           plane(name) == ChromaPlane(name, 2 * s, 2 * g, 2, 2 * s)
<1>1. /\ p \in Nat \ {0, 1} /\ (2 * s) \div 2 = s /\ (2 * g) \div 2 = g /\ p = s * (g - 1) + s
      /\ (2 * s) * (g - 1) + (s - 1) * 2 + 1 = 2 * p - 1
  <2>1. s * (g - 1) = p - s /\ (2 * s) * (g - 1) = 2 * (s * (g - 1)) /\ p \in Int /\ s * (g - 1) \in Nat
    BY SMT
  <2> HIDE DEF p
  <2>2. s * (g - 1) + s = p
    BY <2>1
  <2> QED
    BY <2>1, <2>2, Blocks
<1>2. \A name :
        plane(name) =
          [k \in Positions(2 * p - 1) |->
            LET row  == k \div w
                col  == (k % w) \div 2
                next == IF 2 * col + 2 < w THEN <<2 * row, 2 * col + 2>> ELSE <<2 * row + 2, 0>>
            IN IF 2 * col >= w THEN Blank
               ELSE IF k % 2 = 0 THEN Sample(name, 2 * row, 2 * col)
               ELSE IF name = "V" THEN Sample("U", 2 * row, 2 * col)
               ELSE Sample("V", next[1], next[2])]
  BY <1>1 DEF ChromaPlane
<1>3. ASSUME NEW b \in Nat, NEW e \in {0, 1}
      PROVE  /\ (2 * b + e) \div w = b \div s /\ ((2 * b + e) % w) \div 2 = b % s
             /\ (2 * b + e) % 2 = e /\ b % s \in 0 .. s - 1 /\ b \div s \in Nat
             /\ ~(2 * (b % s) >= w)
  <2>1. b % s \in 0 .. s - 1 /\ b \div s \in Nat
    BY Division
  <2>2. (2 * b + e) \div w = b \div s /\ (2 * b + e) % w = 2 * (b % s) + e /\ (2 * b + e) % 2 = e
    BY Twice
  <2>3. (2 * (b % s) + e) \div 2 = b % s /\ ~(2 * (b % s) >= w)
    BY <2>1, SMT
  <2> QED
    BY <2>1, <2>2, <2>3
<1> HIDE DEF p, w, plane
<1>4. ASSUME NEW b \in Positions(p)
      PROVE  plane("V")[2 * b] = Sample("V", 2 * (b \div s), 2 * (b % s))
  <2>1. b \in Nat /\ 2 * b \in Positions(2 * p - 1) /\ 2 * b = 2 * b + 0
    BY <1>1 DEF Positions
  <2>2. /\ (2 * b) \div w = b \div s /\ ((2 * b) % w) \div 2 = b % s
        /\ (2 * b) % 2 = 0 /\ ~(2 * (b % s) >= w)
    BY <1>3, <2>1
  <2> QED
    BY <1>2, <2>1, <2>2
<1>5. ASSUME NEW b \in Positions(p - 1)
      PROVE  plane("V")[2 * b + 1] = Sample("U", 2 * (b \div s), 2 * (b % s))
  <2>1. b \in Nat /\ 2 * b + 1 \in Positions(2 * p - 1)
    BY <1>1 DEF Positions
  <2>2. /\ (2 * b + 1) \div w = b \div s /\ ((2 * b + 1) % w) \div 2 = b % s
        /\ (2 * b + 1) % 2 = 1 /\ ~(2 * (b % s) >= w)
    BY <1>3, <2>1
  <2> QED
    BY <1>2, <2>1, <2>2
<1>6. plane("U")[2 * p - 3] = Sample("V", 2 * ((p - 1) \div s), 2 * ((p - 1) % s))
  <2> DEFINE b == p - 2
  <2>1. b \in Nat /\ 2 * p - 3 \in Positions(2 * p - 1) /\ 2 * p - 3 = 2 * b + 1
    BY <1>1 DEF Positions
  <2>2. /\ p - 2 = s * (g - 1) + (s - 2) /\ p - 1 = s * (g - 1) + (s - 1)
        /\ g - 1 \in Nat /\ s - 2 \in 0 .. s - 1 /\ s - 1 \in 0 .. s - 1
    <3>1. s * (g - 1) \in Int
      BY SMT
    <3> QED
      BY <1>1, <3>1
  <2>3. b \div s = g - 1 /\ b % s = s - 2 /\ (p - 1) \div s = g - 1 /\ (p - 1) % s = s - 1
    <3>1. /\ (s * (g - 1) + (s - 2)) \div s = g - 1 /\ (s * (g - 1) + (s - 2)) % s = s - 2
          /\ (s * (g - 1) + (s - 1)) \div s = g - 1 /\ (s * (g - 1) + (s - 1)) % s = s - 1
      BY <2>2, Divided
    <3> QED
      BY <2>2, <3>1
  <2> HIDE DEF b
  <2>4. /\ (2 * p - 3) \div w = g - 1 /\ ((2 * p - 3) % w) \div 2 = s - 2
        /\ (2 * p - 3) % 2 = 1 /\ ~(2 * (s - 2) >= w)
    BY <1>3, <2>1, <2>3
  <2>5. 2 * (s - 2) + 2 < w /\ 2 * (s - 2) + 2 = 2 * (s - 1)
    BY DEF w
  <2>6. plane("U")[2 * p - 3] = Sample("V", 2 * (g - 1), 2 * (s - 2) + 2)
    BY <1>2, <2>1, <2>4, <2>5
  <2> QED
    BY <2>3, <2>5, <2>6
<1>7. DOMAIN plane("U") = Positions(2 * p - 1) /\ DOMAIN plane("V") = Positions(2 * p - 1)
  BY <1>2
<1> QED
  BY <1>4, <1>5, <1>6, <1>7 DEF plane, p

-----------------------------------------------------------------------------
(* The conversions to NV21 *)

\* FaithfulNV21, for a picture with s by g blocks; missing says whether its last
\* U may be missing.
IsNV21(image, s, g, missing) ==
    /\ DOMAIN image = Positions(6 * (s * g))
    /\ \A k \in Positions(4 * (s * g)) : image[k] = Sample("Y", k \div (2 * s), k % (2 * s))
    /\ \A b \in Positions(s * g) :
         \E row, col \in Nat :
            /\ row \div 2 = b \div s /\ col \div 2 = b % s
            /\ image[4 * (s * g) + 2 * b] = Sample("V", row, col)
            /\ \/ image[4 * (s * g) + 2 * b + 1] = Sample("U", row, col)
               \/ missing /\ b = s * g - 1 /\ image[4 * (s * g) + 2 * b + 1] = Blank

\* Every second byte of the chroma swapped with the one before.
LEMMA HwToNV21 ==
    ASSUME NEW s \in Nat \ {0}, NEW g \in Nat \ {0}
    PROVE  IsNV21(MjpegToNV21(Nv12(2 * s, 2 * g), 2 * s, 2 * g), s, g, FALSE)
<1> DEFINE p == s * g
           yuv == Nv12(2 * s, 2 * g)
           image == MjpegToNV21(yuv, 2 * s, 2 * g)
<1>1. p \in Nat \ {0} /\ (2 * s) * (2 * g) = 4 * p /\ 3 * (2 * s) * (2 * g) = 12 * p
  <2>1. 3 * (2 * s) * (2 * g) = 3 * ((2 * s) * (2 * g))
    BY SMT
  <2> QED
    BY <2>1, Blocks
<1>2. /\ DOMAIN yuv = Positions(6 * p)
      /\ \A k \in Positions(4 * p) : yuv[k] = Sample("Y", k \div (2 * s), k % (2 * s))
      /\ \A b \in Positions(p), e \in {0, 1} :
           yuv[4 * p + 2 * b + e] = Sample(IF e = 0 THEN "U" ELSE "V", 2 * (b \div s), 2 * (b % s))
  BY Nv12At
<1> HIDE DEF p, yuv
<1>3. Length(yuv) = 6 * p
  BY <1>1, <1>2, LengthOf
<1>4. image = [k \in Positions(6 * p) |->
                 IF k < 4 * p THEN yuv[k]
                 ELSE IF (k - 4 * p) % 2 = 0 THEN yuv[k + 1] ELSE yuv[k - 1]]
  BY <1>1, <1>2, <1>3 DEF MjpegToNV21, Nv12ToNV21
<1> HIDE DEF image
<1>5. ASSUME NEW k \in Positions(4 * p)
      PROVE  image[k] = Sample("Y", k \div (2 * s), k % (2 * s))
  <2>1. k \in Positions(6 * p) /\ k < 4 * p
    BY <1>1 DEF Positions
  <2> QED
    BY <1>2, <1>4, <2>1
<1>6. ASSUME NEW b \in Positions(p)
      PROVE  /\ image[4 * p + 2 * b] = Sample("V", 2 * (b \div s), 2 * (b % s))
             /\ image[4 * p + 2 * b + 1] = Sample("U", 2 * (b \div s), 2 * (b % s))
  <2>1. /\ 4 * p + 2 * b \in Positions(6 * p) /\ 4 * p + 2 * b + 1 \in Positions(6 * p)
        /\ ~(4 * p + 2 * b < 4 * p) /\ ~(4 * p + 2 * b + 1 < 4 * p)
        /\ ((4 * p + 2 * b) - 4 * p) % 2 = 0 /\ ((4 * p + 2 * b + 1) - 4 * p) % 2 # 0
        /\ (4 * p + 2 * b) + 1 = 4 * p + 2 * b + 1 /\ (4 * p + 2 * b + 1) - 1 = 4 * p + 2 * b + 0
    BY <1>1 DEF Positions
  <2> QED
    BY <1>2, <1>4, <2>1
<1>7. ASSUME NEW b \in Positions(p)
      PROVE  /\ 2 * (b \div s) \in Nat /\ 2 * (b % s) \in Nat
             /\ (2 * (b \div s)) \div 2 = b \div s /\ (2 * (b % s)) \div 2 = b % s
  <2>1. b \in Nat
    BY <1>1 DEF Positions
  <2>2. b \div s \in Nat /\ b % s \in Nat
    BY <2>1, QuotientAndRest
  <2> QED
    BY <2>2, SMT
<1>8. IsNV21(image, s, g, FALSE)
  BY <1>4, <1>5, <1>6, <1>7 DEF IsNV21, p
<1> QED
  BY <1>8 DEF image, yuv

\* A row of chroma is as long as half a row of Y, and for every two of them one
\* is kept: the left half of the even one, the right half of the odd one.
LEMMA SwToNV21 ==
    ASSUME NEW s \in Nat \ {0}, NEW g \in Nat \ {0}
    PROVE  IsNV21(MjpegToNV21(Yuv422(2 * s, 2 * g), 2 * s, 2 * g), s, g, FALSE)
<1> DEFINE p == s * g
           yuv == Yuv422(2 * s, 2 * g)
           image == MjpegToNV21(yuv, 2 * s, 2 * g)
           place(b) == ((2 * b) \div s) * s + (b % s)
<1>1. /\ p \in Nat \ {0} /\ 3 * (2 * s) * (2 * g) = 12 * p /\ (2 * s) \div 2 = s
      /\ (8 * p) \div 2 = 4 * p /\ (4 * p) \div 2 = 2 * p
  <2>1. 3 * (2 * s) * (2 * g) = 3 * ((2 * s) * (2 * g))
    BY SMT
  <2>2. p \in Nat \ {0} /\ (2 * s) * (2 * g) = 4 * p /\ (2 * s) \div 2 = s
    BY Blocks
  <2> HIDE DEF p
  <2>3. (8 * p) \div 2 = 4 * p /\ (4 * p) \div 2 = 2 * p
    BY <2>2, SMT
  <2> QED
    BY <2>1, <2>2, <2>3
<1>2. /\ DOMAIN yuv = Positions(8 * p)
      /\ \A k \in Positions(4 * p) : yuv[k] = Sample("Y", k \div (2 * s), k % (2 * s))
      /\ \A c \in Positions(2 * p) :
           /\ yuv[4 * p + c] = Sample("U", c \div s, 2 * (c % s))
           /\ yuv[6 * p + c] = Sample("V", c \div s, 2 * (c % s))
  BY Yuv422At
<1>3. ASSUME NEW b \in Positions(p)
      PROVE  /\ place(b) \in Positions(2 * p)
             /\ place(b) \div s \in Nat /\ 2 * (place(b) % s) \in Nat
             /\ (place(b) \div s) \div 2 = b \div s
             /\ (2 * (place(b) % s)) \div 2 = b % s
  <2> DEFINE q == (2 * b) \div s
             r == b % s
  <2>1. b \in Nat /\ b \in 0 .. p - 1 /\ 2 * b \in 0 .. s * (2 * g) - 1
    BY Blocks DEF Positions
  <2>2. /\ q \in 0 .. 2 * g - 1 /\ r \in 0 .. s - 1 /\ q \in Nat
        /\ 2 * b = s * q + ((2 * b) % s) /\ (2 * b) % s \in 0 .. s - 1
    <3>1. 2 * g \in Nat
      OBVIOUS
    <3>2. q \in 0 .. 2 * g - 1 /\ (2 * b) % s \in 0 .. s - 1 /\ 2 * b = s * q + ((2 * b) % s)
      BY <2>1, <3>1, RowAndColumn
    <3>3. r \in 0 .. s - 1
      BY <2>1, QuotientAndRest
    <3> QED
      BY <3>2, <3>3
  <2>3. q \div 2 = b \div s
    <3> DEFINE m == q \div 2
               e == q % 2
    <3>1. m \in Nat /\ e \in {0, 1} /\ q = 2 * m + e
      <4>1. q \in Nat
        BY <2>2
      <4> HIDE DEF q
      <4> QED
        BY <4>1, SMT
    <3>2. PICK t \in 0 .. s - 1 : 2 * b = s * q + t
      BY <2>2
    <3> HIDE DEF m, e, q
    <3>3. 2 * b = (2 * s) * m + (s * e + t) /\ s * e + t \in 0 .. 2 * s - 1
      <4>1. s * q = (2 * s) * m + s * e
        BY <3>1, SMT
      <4>2. s * e \in {0, s}
        BY <3>1, SMT
      <4>3. (2 * s) * m \in Nat
        BY <3>1, SMT
      <4> QED
        BY <3>2, <4>1, <4>2, <4>3
    <3>4. (2 * b) \div (2 * s) = m
      <4>1. 2 * s \in Nat \ {0}
        OBVIOUS
      <4>2. ((2 * s) * m + (s * e + t)) \div (2 * s) = m
        BY <3>1, <3>3, <4>1, Divided
      <4> QED
        BY <3>3, <4>2
    <3>5. (2 * b) \div (2 * s) = b \div s
      <4>1. 2 * b + 0 = 2 * b
        BY <2>1
      <4> QED
        BY <2>1, <4>1, Twice
    <3> QED
      BY <3>4, <3>5 DEF m, q
  <2>4. place(b) = s * q + r
    <3>1. q * s = s * q
      BY <2>2, SMT
    <3> QED
      BY <3>1
  <2> HIDE DEF q, r, place, p
  <2>5. place(b) \div s = q /\ place(b) % s = r
    <3>1. (s * q + r) \div s = q /\ (s * q + r) % s = r
      BY <2>2, Divided
    <3> QED
      BY <2>4, <3>1
  <2>6. place(b) \in 0 .. s * (2 * g) - 1
    BY <2>2, <2>4, At
  <2>7. s * (2 * g) = 2 * p
    BY Blocks DEF p
  <2>8. (2 * r) \div 2 = r /\ 2 * r \in Nat /\ q \in Nat
    BY <2>2, SMT
  <2> QED
    BY <2>3, <2>5, <2>6, <2>7, <2>8 DEF Positions, q, r
<1> HIDE DEF p, yuv
<1>4. Length(yuv) = 8 * p
  BY <1>1, <1>2, LengthOf
<1>5. image = [k \in Positions(3 * (2 * p)) |->
                 LET i == (k - 4 * p) \div 2
                     c == place(i)
                 IN IF k < 4 * p THEN Read(yuv, k)
                    ELSE IF k % 2 = 1 THEN Read(yuv, 4 * p + c)
                    ELSE Read(yuv, 3 * (2 * p) + c)]
  <2>1. 2 * (8 * p) # 12 * p
    BY <1>1
  <2> QED
    BY <1>1, <1>4, <2>1 DEF MjpegToNV21, MjpegRow
<1> HIDE DEF image, place
<1>6. ASSUME NEW k \in Positions(4 * p)
      PROVE  image[k] = Sample("Y", k \div (2 * s), k % (2 * s))
  <2>1. k \in Positions(3 * (2 * p)) /\ k < 4 * p /\ k \in Positions(8 * p)
    BY <1>1 DEF Positions
  <2> QED
    BY <1>2, <1>5, <2>1 DEF Read
<1>7. ASSUME NEW b \in Positions(p)
      PROVE  /\ image[4 * p + 2 * b] = Sample("V", place(b) \div s, 2 * (place(b) % s))
             /\ image[4 * p + 2 * b + 1] = Sample("U", place(b) \div s, 2 * (place(b) % s))
  <2>1. /\ 4 * p + 2 * b \in Positions(3 * (2 * p)) /\ 4 * p + 2 * b + 1 \in Positions(3 * (2 * p))
        /\ ~(4 * p + 2 * b < 4 * p) /\ ~(4 * p + 2 * b + 1 < 4 * p)
        /\ ((4 * p + 2 * b) - 4 * p) \div 2 = b /\ ((4 * p + 2 * b + 1) - 4 * p) \div 2 = b
        /\ (4 * p + 2 * b) % 2 # 1 /\ (4 * p + 2 * b + 1) % 2 = 1
        /\ 3 * (2 * p) = 6 * p
    BY <1>1 DEF Positions
  <2>2. 4 * p + place(b) \in Positions(8 * p) /\ 6 * p + place(b) \in Positions(8 * p)
    <3>1. place(b) \in Positions(2 * p)
      BY <1>3
    <3> QED
      BY <1>1, <3>1 DEF Positions
  <2> QED
    BY <1>2, <1>3, <1>5, <2>1, <2>2 DEF Read
<1>8. DOMAIN image = Positions(6 * p)
  <2>1. 3 * (2 * p) = 6 * p
    BY <1>1
  <2> QED
    BY <1>5, <2>1
<1>9. IsNV21(image, s, g, FALSE)
  BY <1>3, <1>6, <1>7, <1>8 DEF IsNV21, p
<1> QED
  BY <1>9 DEF image, yuv

\* Of every two lines the even one's chroma is kept; the writer of a block is the
\* first pair of its pixels.
LEMMA YuyvToNV21IsNV21 ==
    ASSUME NEW s \in Nat \ {0}, NEW g \in Nat \ {0}
    PROVE  IsNV21(YuyvToNV21(Yuyv(2 * s, 2 * g), 2 * s, 2 * g), s, g, FALSE)
<1> DEFINE p == s * g
           yuyv == Yuyv(2 * s, 2 * g)
           image == YuyvToNV21(yuyv, 2 * s, 2 * g)
           line(i)   == i \div (2 * (2 * s))
           target(i) == 4 * p + 2 * (i \div 4) - (line(i) * (2 * s)) \div 2
           writers   == {i \in Positions(2 * (4 * p)) : i % 4 = 0 /\ line(i) % 2 = 0}
           from      == [k \in {target(i) : i \in writers} |-> CHOOSE i \in writers : target(i) = k]
           pair(b)   == (2 * s) * (b \div s) + (b % s)
<1>1. /\ p \in Nat \ {0} /\ 2 * (2 * s) * (2 * g) = 8 * p
      /\ (8 * p) \div 2 = 4 * p /\ (4 * p) \div 2 = 2 * p
  <2>1. 2 * (2 * s) * (2 * g) = 2 * ((2 * s) * (2 * g))
    BY SMT
  <2>2. p \in Nat \ {0} /\ (2 * s) * (2 * g) = 4 * p
    BY Blocks
  <2> HIDE DEF p
  <2>3. (8 * p) \div 2 = 4 * p /\ (4 * p) \div 2 = 2 * p
    BY <2>2, SMT
  <2> QED
    BY <2>1, <2>2, <2>3
<1>2. /\ DOMAIN yuyv = Positions(8 * p)
      /\ \A k \in Positions(4 * p) : yuyv[2 * k] = Sample("Y", k \div (2 * s), k % (2 * s))
      /\ \A j \in Positions(2 * p) :
           /\ yuyv[4 * j + 1] = Sample("U", j \div s, 2 * (j % s))
           /\ yuyv[4 * j + 3] = Sample("V", j \div s, 2 * (j % s))
  BY YuyvAt
\* The writer of a block, and that its pixels are of that block.
<1>3. ASSUME NEW b \in Positions(p)
      PROVE  /\ pair(b) \in Positions(2 * p) /\ pair(b) \in Nat
             /\ pair(b) \div s = 2 * (b \div s) /\ pair(b) % s = b % s
             /\ b \div s \in Nat /\ b % s \in Nat
             /\ 4 * pair(b) \in writers /\ target(4 * pair(b)) = 4 * p + 2 * b
  <2> DEFINE m == b \div s
             t == b % s
  <2>1. b \in 0 .. s * g - 1
    BY Blocks DEF Positions
  <2>2. m \in 0 .. g - 1 /\ t \in 0 .. s - 1 /\ b = s * m + t /\ m \in Nat
    <3>1. m \in 0 .. g - 1 /\ t \in 0 .. s - 1 /\ b = s * m + t
      BY <2>1, RowAndColumn
    <3> QED
      BY <3>1
  <2> HIDE DEF m, t
  <2>3. pair(b) = s * (2 * m) + t
    <3>1. (2 * s) * m = s * (2 * m)
      BY <2>2, SMT
    <3> QED
      BY <3>1 DEF m, t
  <2>4. (s * (2 * m) + t) \div s = 2 * m /\ (s * (2 * m) + t) % s = t
    <3>1. 2 * m \in Nat
      BY <2>2
    <3> QED
      BY <2>2, <3>1, Divided
  <2>5. s * (2 * m) + t \in Positions(2 * p) /\ s * (2 * m) + t \in Nat
    <3>1. 2 * m \in 0 .. 2 * g - 1 /\ 2 * g \in Nat \ {0}
      BY <2>2
    <3>2. s * (2 * m) + t \in 0 .. s * (2 * g) - 1
      BY <2>2, <3>1, At
    <3>3. s * (2 * g) = 2 * p
      BY Blocks
    <3> HIDE DEF p
    <3> QED
      BY <1>1, <3>2, <3>3 DEF Positions
  <2> DEFINE j == pair(b)
  <2>6. j \in Nat /\ j \in Positions(2 * p) /\ j \div s = 2 * m /\ j % s = t
    BY <2>3, <2>4, <2>5
  <2> HIDE DEF j
  <2>7. line(4 * j) = 2 * m
    <3>1. 2 * s \in Nat \ {0} /\ 2 * j \in Nat /\ 4 * j = 2 * (2 * j) + 0 /\ 2 * j = 2 * j + 0
      BY <2>6
    <3>2. (2 * (2 * j) + 0) \div (2 * (2 * s)) = (2 * j) \div (2 * s)
      BY <3>1, Twice
    <3>3. (2 * j + 0) \div (2 * s) = j \div s
      BY <2>6, Twice
    <3> QED
      BY <2>6, <3>1, <3>2, <3>3
  <2>8. (2 * m) % 2 = 0 /\ (4 * j) % 4 = 0 /\ (4 * j) \div 4 = j
    BY <2>2, <2>6, SMT
  <2>9. 4 * j \in writers
    <3>1. 4 * j \in Positions(2 * (4 * p))
      <4> HIDE DEF p
      <4> QED
        BY <1>1, <2>6 DEF Positions
    <3> HIDE DEF line
    <3> QED
      BY <2>7, <2>8, <3>1
  <2>10. target(4 * j) = 4 * p + 2 * b
    <3> DEFINE n == s * m
    <3>1. n \in Nat /\ (2 * m) * (2 * s) = 4 * n /\ s * (2 * m) = 2 * n
      BY <2>2, SMT
    <3>2. b = n + t /\ j = 2 * n + t
      BY <2>2, <2>3, <3>1 DEF j
    <3> HIDE DEF n
    <3>3. (4 * n) \div 2 = 2 * n
      BY <3>1, SMT
    <3>4. target(4 * j) = 4 * p + 2 * j - 2 * n
      <4> HIDE DEF line, p
      <4> QED
        BY <2>7, <2>8, <3>1, <3>3
    <3> HIDE DEF target, p
    <3> QED
      BY <1>1, <2>2, <3>1, <3>2, <3>4
  <2> HIDE DEF writers, target, p
  <2> QED
    BY <2>2, <2>6, <2>9, <2>10 DEF j, m, t
\* There is no other, and nothing else is written to.
<1>4. ASSUME NEW i \in writers
      PROVE  \E b \in Positions(p) : i = 4 * pair(b)
  <2> DEFINE j == i \div 4
             m == (j \div s) \div 2
             t == j % s
             b == s * m + t
  <2>1. i \in Nat /\ i < 8 * p /\ i % 4 = 0 /\ line(i) % 2 = 0
    <3> HIDE DEF p, line
    <3> QED
      BY <1>1 DEF Positions
  <2>2. j \in Nat /\ i = 4 * j /\ j < 2 * p
    <3> HIDE DEF p
    <3> QED
      BY <1>1, <2>1, SMT
  <2> HIDE DEF j
  <2>3. line(i) = j \div s
    <3>1. 2 * s \in Nat \ {0} /\ 2 * j \in Nat /\ 4 * j = 2 * (2 * j) + 0 /\ 2 * j = 2 * j + 0
      BY <2>2
    <3>2. (2 * (2 * j) + 0) \div (2 * (2 * s)) = (2 * j) \div (2 * s)
      BY <3>1, Twice
    <3>3. (2 * j + 0) \div (2 * s) = j \div s
      BY <2>2, Twice
    <3> QED
      BY <2>2, <3>1, <3>2, <3>3
  <2>4. j \div s \in 0 .. 2 * g - 1 /\ j % s \in 0 .. s - 1 /\ j = s * (j \div s) + (j % s)
    <3>1. s * (2 * g) = 2 * p
      BY Blocks
    <3>2. j \in 0 .. s * (2 * g) - 1
      <4> HIDE DEF p
      <4> QED
        BY <1>1, <2>2, <3>1
    <3>3. 2 * g \in Nat
      OBVIOUS
    <3> QED
      BY <3>2, <3>3, RowAndColumn
  <2>5. m \in Nat /\ m \in 0 .. g - 1 /\ j \div s = 2 * m /\ t \in 0 .. s - 1
    <3> DEFINE q == j \div s
    <3>1. q \in 0 .. 2 * g - 1 /\ q % 2 = 0
      BY <2>1, <2>3, <2>4
    <3> HIDE DEF q
    <3>2. q \div 2 \in Nat /\ q \div 2 \in 0 .. g - 1 /\ q = 2 * (q \div 2)
      BY <3>1, SMT
    <3> QED
      BY <2>4, <3>2 DEF q
  <2> HIDE DEF m, t
  <2>6. b \in Positions(p)
    <3>1. b \in 0 .. s * g - 1
      BY <2>5, At
    <3> QED
      BY <3>1, Blocks
  <2>7. b \div s = m /\ b % s = t
    BY <2>5, Divided
  <2>8. pair(b) = j
    <3> HIDE DEF b
    <3>1. pair(b) = (2 * s) * m + t
      BY <2>7
    <3>2. (2 * s) * m = s * (2 * m)
      BY <2>5, SMT
    <3>3. j = s * (2 * m) + t
      BY <2>4, <2>5 DEF t
    <3> QED
      BY <3>1, <3>2, <3>3
  <2> HIDE DEF b, pair, p, writers
  <2> QED
    BY <2>2, <2>6, <2>8
<1> HIDE DEF p, yuyv, target, writers, pair
<1>5. ASSUME NEW b \in Positions(p)
      PROVE  /\ 4 * p + 2 * b \in DOMAIN from /\ 4 * p + 2 * b + 1 \notin DOMAIN from
             /\ from[4 * p + 2 * b] = 4 * pair(b)
  <2>1. 4 * p + 2 * b \in DOMAIN from
    BY <1>3
  <2>2. ASSUME 4 * p + 2 * b + 1 \in DOMAIN from PROVE FALSE
    <3>1. PICK c \in Positions(p) : target(4 * pair(c)) = 4 * p + 2 * b + 1
      BY <1>4, <2>2
    <3>2. 4 * p + 2 * c = 4 * p + 2 * b + 1
      BY <1>3, <3>1
    <3> QED
      BY <1>1, <3>2 DEF Positions
  <2>3. ASSUME NEW i \in writers, target(i) = 4 * p + 2 * b PROVE i = 4 * pair(b)
    <3>1. PICK c \in Positions(p) : i = 4 * pair(c)
      BY <1>4
    <3>2. 4 * p + 2 * c = 4 * p + 2 * b
      BY <1>3, <2>3, <3>1
    <3>3. c = b
      BY <1>1, <3>2 DEF Positions
    <3> QED
      BY <3>1, <3>3
  <2>4. 4 * pair(b) \in writers /\ target(4 * pair(b)) = 4 * p + 2 * b
    BY <1>3
  <2>5. from[4 * p + 2 * b] = CHOOSE i \in writers : target(i) = 4 * p + 2 * b
    BY <2>1
  <2> QED
    BY <2>1, <2>2, <2>3, <2>4, <2>5
<1>6. Length(yuyv) = 8 * p
  BY <1>1, <1>2, LengthOf
<1>7. image = [k \in Positions(3 * (2 * p)) |->
                 IF k < 4 * p THEN yuyv[2 * k]
                 ELSE IF k \in DOMAIN from THEN yuyv[from[k] + 3]
                 ELSE IF k - 1 \in DOMAIN from THEN yuyv[from[k - 1] + 1]
                 ELSE Blank]
  BY <1>1, <1>6 DEF YuyvToNV21, target, writers
<1> HIDE DEF image, from
<1>8. ASSUME NEW k \in Positions(4 * p)
      PROVE  image[k] = Sample("Y", k \div (2 * s), k % (2 * s))
  <2>1. k \in Positions(3 * (2 * p)) /\ k < 4 * p
    BY <1>1 DEF Positions
  <2> QED
    BY <1>2, <1>7, <2>1
<1>9. ASSUME NEW b \in Positions(p)
      PROVE  /\ image[4 * p + 2 * b] = Sample("V", 2 * (b \div s), 2 * (b % s))
             /\ image[4 * p + 2 * b + 1] = Sample("U", 2 * (b \div s), 2 * (b % s))
  <2>1. /\ 4 * p + 2 * b \in Positions(3 * (2 * p)) /\ 4 * p + 2 * b + 1 \in Positions(3 * (2 * p))
        /\ ~(4 * p + 2 * b < 4 * p) /\ ~(4 * p + 2 * b + 1 < 4 * p)
        /\ (4 * p + 2 * b + 1) - 1 = 4 * p + 2 * b
    BY <1>1 DEF Positions
  <2>2. /\ yuyv[4 * pair(b) + 1] = Sample("U", 2 * (b \div s), 2 * (b % s))
        /\ yuyv[4 * pair(b) + 3] = Sample("V", 2 * (b \div s), 2 * (b % s))
    BY <1>2, <1>3
  <2> QED
    BY <1>5, <1>7, <2>1, <2>2
<1>10. ASSUME NEW b \in Positions(p)
       PROVE  /\ 2 * (b \div s) \in Nat /\ 2 * (b % s) \in Nat
              /\ (2 * (b \div s)) \div 2 = b \div s /\ (2 * (b % s)) \div 2 = b % s
  BY <1>3, SMT
<1>11. DOMAIN image = Positions(6 * p)
  <2>1. 3 * (2 * p) = 6 * p
    BY <1>1
  <2> QED
    BY <1>7, <2>1
<1>12. IsNV21(image, s, g, FALSE)
  BY <1>8, <1>9, <1>10, <1>11 DEF IsNV21, p
<1> QED
  BY <1>12 DEF image, yuyv

\* Planes without padding, each of its own: V and U in turns.
LEMMA PlanarToNV21 ==
    ASSUME NEW s \in Nat \ {0}, NEW g \in Nat \ {0}
    PROVE  IsNV21(Yuv420ToNv21(YPlane(2 * s, 2 * g, 2 * s),
                               ChromaPlane("U", 2 * s, 2 * g, 1, s),
                               ChromaPlane("V", 2 * s, 2 * g, 1, s),
                               2 * s, 2 * g, 1, 2 * s, s), s, g, FALSE)
<1> DEFINE p == s * g
           y == YPlane(2 * s, 2 * g, 2 * s)
           u == ChromaPlane("U", 2 * s, 2 * g, 1, s)
           v == ChromaPlane("V", 2 * s, 2 * g, 1, s)
           image == Yuv420ToNv21(y, u, v, 2 * s, 2 * g, 1, 2 * s, s)
<1>1. /\ p \in Nat \ {0} /\ (2 * s) * (2 * g) = 4 * p
      /\ (4 * p) \div 2 = 2 * p /\ (4 * p) \div 4 = p
  BY Blocks
<1>2. /\ DOMAIN y = Positions(4 * p)
      /\ \A k \in Positions(4 * p) : y[k] = Sample("Y", k \div (2 * s), k % (2 * s))
      /\ DOMAIN u = Positions(p) /\ DOMAIN v = Positions(p)
      /\ \A b \in Positions(p) : /\ u[b] = Sample("U", 2 * (b \div s), 2 * (b % s))
                                 /\ v[b] = Sample("V", 2 * (b \div s), 2 * (b % s))
  BY YPlaneAt, PlanarChromaAt
<1> HIDE DEF p, y, u, v
<1>3. Length(y) = 4 * p /\ Length(u) = p /\ Length(v) = p
  BY <1>1, <1>2, LengthOf
<1>4. image = [k \in Positions(3 * (2 * p)) |->
                 LET c == k - 4 * p IN
                 IF c < 0 THEN y[k] ELSE IF c % 2 = 0 THEN v[c \div 2] ELSE u[c \div 2]]
  BY <1>1, <1>3 DEF Yuv420ToNv21, GetYUVBuffer, Interleaved
<1> HIDE DEF image
<1>5. ASSUME NEW k \in Positions(4 * p)
      PROVE  image[k] = Sample("Y", k \div (2 * s), k % (2 * s))
  <2>1. k \in Positions(3 * (2 * p)) /\ k - 4 * p < 0
    BY <1>1 DEF Positions
  <2> QED
    BY <1>2, <1>4, <2>1
<1>6. ASSUME NEW b \in Positions(p)
      PROVE  /\ image[4 * p + 2 * b] = Sample("V", 2 * (b \div s), 2 * (b % s))
             /\ image[4 * p + 2 * b + 1] = Sample("U", 2 * (b \div s), 2 * (b % s))
             /\ 2 * (b \div s) \in Nat /\ 2 * (b % s) \in Nat
             /\ (2 * (b \div s)) \div 2 = b \div s /\ (2 * (b % s)) \div 2 = b % s
  <2>1. /\ 4 * p + 2 * b \in Positions(3 * (2 * p)) /\ 4 * p + 2 * b + 1 \in Positions(3 * (2 * p))
        /\ (4 * p + 2 * b) - 4 * p = 2 * b /\ (4 * p + 2 * b + 1) - 4 * p = 2 * b + 1
        /\ ~(2 * b < 0) /\ ~(2 * b + 1 < 0) /\ b \in Nat
        /\ (2 * b) % 2 = 0 /\ (2 * b + 1) % 2 # 0 /\ (2 * b) \div 2 = b /\ (2 * b + 1) \div 2 = b
    BY <1>1 DEF Positions
  <2>2. b \div s \in Nat /\ b % s \in Nat
    BY <2>1, QuotientAndRest
  <2>3. (2 * (b \div s)) \div 2 = b \div s /\ (2 * (b % s)) \div 2 = b % s
    BY <2>2, SMT
  <2>4. image[4 * p + 2 * b] = v[b] /\ image[4 * p + 2 * b + 1] = u[b]
    BY <1>4, <2>1
  <2> QED
    BY <1>2, <2>2, <2>3, <2>4
<1>7. DOMAIN image = Positions(6 * p)
  <2>1. 3 * (2 * p) = 6 * p
    BY <1>1
  <2> QED
    BY <1>4, <2>1
<1>8. IsNV21(image, s, g, FALSE)
  BY <1>5, <1>6, <1>7 DEF IsNV21, p
<1> QED
  BY <1>8 DEF image, y, u, v

\* Interleaved planes are copied: the last V is taken from the plane of U, and
\* the last U stays missing.
LEMMA InterleavedToNV21 ==
    ASSUME NEW s \in Nat \ {0, 1}, NEW g \in Nat \ {0}
    PROVE  IsNV21(Yuv420ToNv21(YPlane(2 * s, 2 * g, 2 * s),
                               ChromaPlane("U", 2 * s, 2 * g, 2, 2 * s),
                               ChromaPlane("V", 2 * s, 2 * g, 2, 2 * s),
                               2 * s, 2 * g, 2, 2 * s, 2 * s), s, g, TRUE)
<1> DEFINE p == s * g
           y == YPlane(2 * s, 2 * g, 2 * s)
           u == ChromaPlane("U", 2 * s, 2 * g, 2, 2 * s)
           v == ChromaPlane("V", 2 * s, 2 * g, 2, 2 * s)
           image == Yuv420ToNv21(y, u, v, 2 * s, 2 * g, 2, 2 * s, 2 * s)
           filledUp == [v EXCEPT ![2 * p - 2] = u[2 * p - 3]]
<1>1. /\ p \in Nat \ {0} /\ (2 * s) * (2 * g) = 4 * p
      /\ (4 * p) \div 2 = 2 * p /\ (4 * p) \div 4 = p
  BY Blocks
<1>2. /\ DOMAIN y = Positions(4 * p)
      /\ \A k \in Positions(4 * p) : y[k] = Sample("Y", k \div (2 * s), k % (2 * s))
      /\ DOMAIN u = Positions(2 * p - 1) /\ DOMAIN v = Positions(2 * p - 1)
      /\ \A b \in Positions(p) : v[2 * b] = Sample("V", 2 * (b \div s), 2 * (b % s))
      /\ \A b \in Positions(p - 1) : v[2 * b + 1] = Sample("U", 2 * (b \div s), 2 * (b % s))
      /\ u[2 * p - 3] = Sample("V", 2 * ((p - 1) \div s), 2 * ((p - 1) % s))
  BY YPlaneAt, InterleavedChromaAt
<1> HIDE DEF p, y, u, v
<1>3. /\ Length(y) = 4 * p /\ Length(u) = 2 * p - 1 /\ Length(v) = 2 * p - 1
      /\ Length(u) - 2 = 2 * p - 3 /\ Length(v) - 1 = 2 * p - 2
  <2>1. 2 * p - 1 \in Nat
    BY <1>1
  <2>2. Length(y) = 4 * p /\ Length(u) = 2 * p - 1 /\ Length(v) = 2 * p - 1
    BY <1>1, <1>2, <2>1, LengthOf
  <2> QED
    BY <1>1, <2>2
<1>4. image = [k \in Positions(3 * (2 * p)) |->
                 LET c == k - 4 * p IN
                 IF c < 0 THEN y[k] ELSE IF c < 2 * p - 1 THEN filledUp[c] ELSE Blank]
  BY <1>1, <1>3 DEF Yuv420ToNv21, GetYUVBuffer, Interleaved
<1>5. \A c \in Positions(2 * p - 1) :
         filledUp[c] = IF c = 2 * p - 2 THEN u[2 * p - 3] ELSE v[c]
  BY <1>2
<1> HIDE DEF image, filledUp
<1>6. ASSUME NEW k \in Positions(4 * p)
      PROVE  image[k] = Sample("Y", k \div (2 * s), k % (2 * s))
  <2>1. k \in Positions(3 * (2 * p)) /\ k - 4 * p < 0
    BY <1>1 DEF Positions
  <2> QED
    BY <1>2, <1>4, <2>1
<1>7. ASSUME NEW b \in Positions(p)
      PROVE  /\ image[4 * p + 2 * b] = Sample("V", 2 * (b \div s), 2 * (b % s))
             /\ b # p - 1 => image[4 * p + 2 * b + 1] = Sample("U", 2 * (b \div s), 2 * (b % s))
             /\ b = p - 1 => image[4 * p + 2 * b + 1] = Blank
             /\ 2 * (b \div s) \in Nat /\ 2 * (b % s) \in Nat
             /\ (2 * (b \div s)) \div 2 = b \div s /\ (2 * (b % s)) \div 2 = b % s
  <2>1. /\ 4 * p + 2 * b \in Positions(3 * (2 * p)) /\ 4 * p + 2 * b + 1 \in Positions(3 * (2 * p))
        /\ (4 * p + 2 * b) - 4 * p = 2 * b /\ (4 * p + 2 * b + 1) - 4 * p = 2 * b + 1
        /\ ~(2 * b < 0) /\ ~(2 * b + 1 < 0) /\ b \in Nat
        /\ 2 * b < 2 * p - 1 /\ 2 * b \in Positions(2 * p - 1)
        /\ 2 * b = 2 * p - 2 <=> b = p - 1
        /\ 2 * b + 1 # 2 * p - 2
        /\ b = p - 1 => ~(2 * b + 1 < 2 * p - 1)
        /\ b # p - 1 => /\ 2 * b + 1 < 2 * p - 1 /\ 2 * b + 1 \in Positions(2 * p - 1)
                        /\ b \in Positions(p - 1)
    BY <1>1 DEF Positions
  <2>2. image[4 * p + 2 * b] = Sample("V", 2 * (b \div s), 2 * (b % s))
    <3>1. image[4 * p + 2 * b] = filledUp[2 * b]
      BY <1>4, <2>1
    <3>2. CASE b = p - 1
      BY <1>2, <1>5, <2>1, <3>1, <3>2
    <3>3. CASE b # p - 1
      BY <1>2, <1>5, <2>1, <3>1, <3>3
    <3> QED
      BY <3>2, <3>3
  <2>3. b # p - 1 => image[4 * p + 2 * b + 1] = Sample("U", 2 * (b \div s), 2 * (b % s))
    BY <1>2, <1>4, <1>5, <2>1
  <2>4. b = p - 1 => image[4 * p + 2 * b + 1] = Blank
    BY <1>4, <2>1
  <2>5. b \div s \in Nat /\ b % s \in Nat
    BY <2>1, QuotientAndRest
  <2>6. (2 * (b \div s)) \div 2 = b \div s /\ (2 * (b % s)) \div 2 = b % s
    BY <2>5, SMT
  <2> QED
    BY <2>2, <2>3, <2>4, <2>5, <2>6
<1>8. DOMAIN image = Positions(6 * p)
  <2>1. 3 * (2 * p) = 6 * p
    BY <1>1
  <2> QED
    BY <1>4, <2>1
<1>9. IsNV21(image, s, g, TRUE)
  BY <1>6, <1>7, <1>8 DEF IsNV21, p
<1> QED
  BY <1>9 DEF image, y, u, v

-----------------------------------------------------------------------------
(* What is drawn *)

\* FaithfulDrawing, for one picture of s by g blocks; in a picture that shares
\* its rows two of them have the same U and V.
IsDrawing(picture, s, g, shared) ==
    \A r \in Positions(2 * g), c \in Positions(2 * s) :
        LET row == IF shared THEN 2 * (r \div 2) ELSE r
            col == 2 * (c \div 2)
        IN picture[<<r, c>>] = [y |-> Sample("Y", r, c),
                                u |-> Sample("U", row, col), v |-> Sample("V", row, col)]

\* A pixel of a picture and the pair of pixels it is in.
LEMMA PixelIn ==
    ASSUME NEW s \in Nat \ {0}, NEW g \in Nat \ {0}, NEW r \in Positions(2 * g), NEW c \in Positions(2 * s)
    PROVE  /\ r \in Nat /\ c \in Nat /\ c \div 2 \in Nat /\ r \div 2 \in Nat
           /\ r \in 0 .. 2 * g - 1 /\ r \div 2 \in 0 .. g - 1 /\ c \div 2 \in 0 .. s - 1
           /\ c \div 2 \in Positions(s)
           /\ r * (2 * s) + c \in Positions(4 * (s * g))
           /\ (r * (2 * s) + c) \div (2 * s) = r /\ (r * (2 * s) + c) % (2 * s) = c
<1>1. r \in 0 .. 2 * g - 1 /\ c \in 0 .. 2 * s - 1 /\ r \in Nat /\ c \in Nat
  BY DEF Positions
<1>2. r \div 2 \in 0 .. g - 1 /\ c \div 2 \in 0 .. s - 1 /\ c \div 2 \in Nat /\ r \div 2 \in Nat
  BY <1>1, SMT
<1>3. 2 * s \in Nat \ {0} /\ 2 * g \in Nat \ {0}
  OBVIOUS
<1>4. (2 * s) * r + c \in 0 .. (2 * s) * (2 * g) - 1
  BY <1>1, <1>3, At
<1>5. ((2 * s) * r + c) \div (2 * s) = r /\ ((2 * s) * r + c) % (2 * s) = c
  BY <1>1, <1>3, Divided
<1>6. r * (2 * s) = (2 * s) * r
  BY <1>1, SMT
<1>7. (2 * s) * (2 * g) = 4 * (s * g)
  BY Blocks
<1>8. c \div 2 \in Positions(s)
  BY <1>2 DEF Positions
<1>9. r * (2 * s) + c \in Positions(4 * (s * g))
  BY <1>4, <1>6, <1>7 DEF Positions
<1> QED
  BY <1>1, <1>2, <1>5, <1>6, <1>8, <1>9

LEMMA HwDrawing ==
    ASSUME NEW s \in Nat \ {0}, NEW g \in Nat \ {0}
    PROVE  IsDrawing(RenderNV12(Nv12(2 * s, 2 * g), 2 * s, 2 * g), s, g, TRUE)
<1> DEFINE p == s * g
           data == Nv12(2 * s, 2 * g)
           picture == RenderNV12(data, 2 * s, 2 * g)
           chroma(r, c, offset) == Read(data, 4 * p + (r \div 2) * (2 * s) + 2 * c + offset)
<1>1. p \in Nat \ {0} /\ (2 * s) * (2 * g) = 4 * p /\ (2 * s) \div 2 = s
  BY Blocks
<1>2. /\ DOMAIN data = Positions(6 * p)
      /\ \A k \in Positions(4 * p) : data[k] = Sample("Y", k \div (2 * s), k % (2 * s))
      /\ \A b \in Positions(p), e \in {0, 1} :
           data[4 * p + 2 * b + e] = Sample(IF e = 0 THEN "U" ELSE "V", 2 * (b \div s), 2 * (b % s))
  BY Nv12At
<1> SUFFICES ASSUME NEW r \in Positions(2 * g), NEW c \in Positions(2 * s)
             PROVE  picture[<<r, c>>] = [y |-> Sample("Y", r, c),
                                     u |-> Sample("U", 2 * (r \div 2), 2 * (c \div 2)),
                                     v |-> Sample("V", 2 * (r \div 2), 2 * (c \div 2))]
  BY DEF IsDrawing
<1>3. /\ r \in Nat /\ c \in Nat /\ c \div 2 \in Nat /\ r \div 2 \in Nat
      /\ r \div 2 \in 0 .. g - 1 /\ c \div 2 \in 0 .. s - 1 /\ c \div 2 \in Positions(s)
      /\ r * (2 * s) + c \in Positions(4 * p)
      /\ (r * (2 * s) + c) \div (2 * s) = r /\ (r * (2 * s) + c) % (2 * s) = c
  BY PixelIn
<1> HIDE DEF data
<1>4. picture[<<r, c>>] = [y |-> Read(data, r * (2 * s) + c),
                           u |-> chroma(r, c \div 2, 0), v |-> chroma(r, c \div 2, 1)]
  <2> HIDE DEF p
  <2> QED
    BY <1>1, <1>3 DEF RenderNV12, ToABGR, StartUV, StrideUV
<1> HIDE DEF picture, p
<1>5. Read(data, r * (2 * s) + c) = Sample("Y", r, c)
  <2> DEFINE k == r * (2 * s) + c
  <2>1. k \in Positions(4 * p) /\ k \div (2 * s) = r /\ k % (2 * s) = c
    BY <1>3
  <2> HIDE DEF k
  <2>2. k \in DOMAIN data
    BY <1>1, <1>2, <2>1 DEF Positions
  <2> QED
    BY <1>2, <2>1, <2>2 DEF Read, k
<1>6. ASSUME NEW e \in {0, 1}
      PROVE  chroma(r, c \div 2, e) =
               Sample(IF e = 0 THEN "U" ELSE "V", 2 * (r \div 2), 2 * (c \div 2))
  <2> DEFINE m == r \div 2
             t == c \div 2
             b == s * m + t
  <2>1. m \in Nat /\ t \in Nat /\ m \in 0 .. g - 1 /\ t \in 0 .. s - 1
    BY <1>3
  <2> HIDE DEF m, t
  <2>2. b \in Positions(p)
    <3>1. b \in 0 .. s * g - 1
      BY <2>1, At
    <3> QED
      BY <3>1, Blocks DEF p
  <2>3. b \div s = m /\ b % s = t
    BY <2>1, Divided
  <2>4. m * (2 * s) + 2 * t = 2 * b
    <3>1. m * (2 * s) = 2 * (s * m) /\ s * m \in Nat
      BY <2>1, SMT
    <3> QED
      BY <2>1, <3>1
  <2> HIDE DEF b
  <2>5. 4 * p + m * (2 * s) + 2 * t + e = 4 * p + 2 * b + e
    <3>1. m * (2 * s) \in Int
      BY <2>1, SMT
    <3> QED
      BY <1>1, <2>1, <2>2, <2>4, <3>1 DEF Positions
  <2>6. 4 * p + 2 * b + e \in DOMAIN data
    <3>1. 4 * p + 2 * b + e \in Positions(6 * p)
      BY <1>1, <2>2 DEF Positions
    <3> QED
      BY <1>2, <3>1
  <2>7. Read(data, 4 * p + 2 * b + e) = Sample(IF e = 0 THEN "U" ELSE "V", 2 * m, 2 * t)
    BY <1>2, <2>2, <2>3, <2>6 DEF Read
  <2> QED
    BY <2>5, <2>7 DEF m, t
<1> QED
  BY <1>4, <1>5, <1>6

\* A picture in three planes, wherever they come from.
LEMMA PlanesDrawing ==
    ASSUME NEW s \in Nat \ {0}, NEW g \in Nat \ {0}, NEW data,
           DOMAIN data = Positions(8 * (s * g)),
           \A k \in Positions(4 * (s * g)) : data[k] = Sample("Y", k \div (2 * s), k % (2 * s)),
           \A c \in Positions(2 * (s * g)) :
             /\ data[4 * (s * g) + c] = Sample("U", c \div s, 2 * (c % s))
             /\ data[6 * (s * g) + c] = Sample("V", c \div s, 2 * (c % s))
    PROVE  IsDrawing(RenderYUV422(data, 2 * s, 2 * g), s, g, FALSE)
<1> DEFINE p == s * g
           picture == RenderYUV422(data, 2 * s, 2 * g)
<1>1. /\ p \in Nat \ {0} /\ (2 * s) * (2 * g) = 4 * p /\ (2 * s) \div 2 = s
      /\ s * (2 * g) = 2 * p
  BY Blocks
<1>2. /\ DOMAIN data = Positions(8 * p)
      /\ \A k \in Positions(4 * p) : data[k] = Sample("Y", k \div (2 * s), k % (2 * s))
      /\ \A c \in Positions(2 * p) : /\ data[4 * p + c] = Sample("U", c \div s, 2 * (c % s))
                                     /\ data[6 * p + c] = Sample("V", c \div s, 2 * (c % s))
  OBVIOUS
<1> SUFFICES ASSUME NEW r \in Positions(2 * g), NEW c \in Positions(2 * s)
             PROVE  picture[<<r, c>>] = [y |-> Sample("Y", r, c),
                                         u |-> Sample("U", r, 2 * (c \div 2)),
                                         v |-> Sample("V", r, 2 * (c \div 2))]
  BY DEF IsDrawing
<1>3. /\ r \in Nat /\ c \div 2 \in Nat
      /\ r \in 0 .. 2 * g - 1 /\ c \div 2 \in 0 .. s - 1 /\ c \div 2 \in Positions(s)
      /\ r * (2 * s) + c \in Positions(4 * p)
      /\ (r * (2 * s) + c) \div (2 * s) = r /\ (r * (2 * s) + c) % (2 * s) = c
  BY PixelIn
<1> HIDE DEF p
<1>4. /\ StartU(2 * s, 2 * g) = 4 * p /\ StartV(2 * s, 2 * g) = 6 * p
      /\ StrideUV(2 * s) = s
  <2>1. (4 * p * 3) \div 2 = 6 * p
    BY <1>1, SMT
  <2> QED
    BY <1>1, <2>1 DEF StartU, StartV, StrideUV
<1>5. picture[<<r, c>>] = [y |-> Read(data, r * (2 * s) + c),
                           u |-> Read(data, 4 * p + r * s + (c \div 2)),
                           v |-> Read(data, 6 * p + r * s + (c \div 2))]
  BY <1>3, <1>4 DEF RenderYUV422, ToABGR
<1> HIDE DEF picture
<1>6. Read(data, r * (2 * s) + c) = Sample("Y", r, c)
  <2> DEFINE k == r * (2 * s) + c
  <2>1. k \in Positions(4 * p) /\ k \div (2 * s) = r /\ k % (2 * s) = c
    BY <1>3
  <2> HIDE DEF k
  <2>2. k \in DOMAIN data
    BY <1>1, <1>2, <2>1 DEF Positions
  <2> QED
    BY <1>2, <2>1, <2>2 DEF Read, k
<1>7. /\ Read(data, 4 * p + r * s + (c \div 2)) = Sample("U", r, 2 * (c \div 2))
      /\ Read(data, 6 * p + r * s + (c \div 2)) = Sample("V", r, 2 * (c \div 2))
  <2> DEFINE t == c \div 2
             b == s * r + t
  <2>1. t \in Nat /\ t \in 0 .. s - 1
    BY <1>3
  <2> HIDE DEF t
  <2>2. b \in Positions(2 * p)
    <3>1. 2 * g \in Nat \ {0}
      OBVIOUS
    <3>2. b \in 0 .. s * (2 * g) - 1
      BY <1>3, <2>1, <3>1, At
    <3> QED
      BY <1>1, <3>2 DEF Positions
  <2>3. b \div s = r /\ b % s = t
    BY <1>3, <2>1, Divided
  <2>4. 4 * p + r * s + t = 4 * p + b /\ 6 * p + r * s + t = 6 * p + b
    <3>1. r * s = s * r /\ s * r \in Nat
      BY <1>3, SMT
    <3> QED
      BY <1>1, <2>1, <3>1
  <2> HIDE DEF b
  <2>5. 4 * p + b \in DOMAIN data /\ 6 * p + b \in DOMAIN data
    <3>1. 4 * p + b \in Positions(8 * p) /\ 6 * p + b \in Positions(8 * p)
      BY <1>1, <2>2 DEF Positions
    <3> QED
      BY <1>2, <3>1
  <2>6. /\ Read(data, 4 * p + b) = Sample("U", r, 2 * t)
        /\ Read(data, 6 * p + b) = Sample("V", r, 2 * t)
    BY <1>2, <2>2, <2>3, <2>5 DEF Read
  <2> QED
    BY <2>4, <2>6 DEF t
<1> QED
  BY <1>5, <1>6, <1>7 DEF picture

LEMMA SwDrawing ==
    ASSUME NEW s \in Nat \ {0}, NEW g \in Nat \ {0}
    PROVE  IsDrawing(RenderYUV422(Yuv422(2 * s, 2 * g), 2 * s, 2 * g), s, g, FALSE)
<1> DEFINE data == Yuv422(2 * s, 2 * g)
<1>1. /\ DOMAIN data = Positions(8 * (s * g))
      /\ \A k \in Positions(4 * (s * g)) : data[k] = Sample("Y", k \div (2 * s), k % (2 * s))
      /\ \A c \in Positions(2 * (s * g)) :
           /\ data[4 * (s * g) + c] = Sample("U", c \div s, 2 * (c % s))
           /\ data[6 * (s * g) + c] = Sample("V", c \div s, 2 * (c % s))
  BY Yuv422At
<1> HIDE DEF data
<1>2. IsDrawing(RenderYUV422(data, 2 * s, 2 * g), s, g, FALSE)
  BY <1>1, PlanesDrawing
<1> QED
  BY <1>2 DEF data

\* The buffer yuv422 is such a picture.
LEMMA YuyvDrawing ==
    ASSUME NEW s \in Nat \ {0}, NEW g \in Nat \ {0}
    PROVE  IsDrawing(RenderYUYV(Yuyv(2 * s, 2 * g), 2 * s, 2 * g), s, g, FALSE)
<1> DEFINE p == s * g
           data == Yuyv(2 * s, 2 * g)
           at(k, offset) == 2 * (2 * s) * (k \div s) + 4 * (k % s) + offset
           yuv422 == [k \in Positions(8 * p) |->
                        IF k < 4 * p THEN Read(data, 2 * k)
                        ELSE IF k >= 6 * p THEN Read(data, at(k - 6 * p, 3))
                        ELSE Read(data, at(k - 4 * p, 1))]
<1>1. /\ p \in Nat \ {0} /\ (2 * s) * (2 * g) = 4 * p /\ (2 * s) \div 2 = s
      /\ 2 * (2 * s) * (2 * g) = 8 * p
  <2>1. 2 * (2 * s) * (2 * g) = 2 * ((2 * s) * (2 * g))
    BY SMT
  <2> QED
    BY <2>1, Blocks
<1>2. /\ DOMAIN data = Positions(8 * p)
      /\ \A k \in Positions(4 * p) : data[2 * k] = Sample("Y", k \div (2 * s), k % (2 * s))
      /\ \A j \in Positions(2 * p) : /\ data[4 * j + 1] = Sample("U", j \div s, 2 * (j % s))
                                     /\ data[4 * j + 3] = Sample("V", j \div s, 2 * (j % s))
  BY YuyvAt
<1> HIDE DEF p, data
<1>3. /\ StartU(2 * s, 2 * g) = 4 * p /\ StartV(2 * s, 2 * g) = 6 * p
      /\ StrideUV(2 * s) = s
  <2>1. (4 * p * 3) \div 2 = 6 * p
    BY <1>1, SMT
  <2> QED
    BY <1>1, <2>1 DEF StartU, StartV, StrideUV
<1>4. RenderYUYV(data, 2 * s, 2 * g) = RenderYUV422(yuv422, 2 * s, 2 * g)
  BY <1>1, <1>3 DEF RenderYUYV
<1>5. ASSUME NEW k \in Positions(4 * p)
      PROVE  yuv422[k] = Sample("Y", k \div (2 * s), k % (2 * s))
  <2>1. k \in Positions(8 * p) /\ k < 4 * p /\ 2 * k \in Positions(8 * p)
    BY <1>1 DEF Positions
  <2> HIDE DEF at
  <2>2. yuv422[k] = Read(data, 2 * k)
    BY <2>1
  <2> QED
    BY <1>2, <2>1, <2>2 DEF Read
<1>6. ASSUME NEW c \in Positions(2 * p)
      PROVE  /\ yuv422[4 * p + c] = Sample("U", c \div s, 2 * (c % s))
             /\ yuv422[6 * p + c] = Sample("V", c \div s, 2 * (c % s))
  <2>1. /\ 4 * p + c \in Positions(8 * p) /\ ~(4 * p + c < 4 * p) /\ ~(4 * p + c >= 6 * p)
        /\ (4 * p + c) - 4 * p = c
        /\ 6 * p + c \in Positions(8 * p) /\ ~(6 * p + c < 4 * p) /\ 6 * p + c >= 6 * p
        /\ (6 * p + c) - 6 * p = c
        /\ 4 * c + 1 \in Positions(8 * p) /\ 4 * c + 3 \in Positions(8 * p) /\ c \in Nat
    BY <1>1 DEF Positions
  <2>2. at(c, 1) = 4 * c + 1 /\ at(c, 3) = 4 * c + 3
    <3> DEFINE m == c \div s
               t == c % s
               n == s * m
    <3>1. m \in Nat /\ t \in Nat /\ c = n + t
      <4>1. c = n + t
        BY <2>1, Division
      <4>2. m \in Nat /\ t \in Nat
        BY <2>1, QuotientAndRest
      <4> QED
        BY <4>1, <4>2
    <3> HIDE DEF m, t
    <3>2. n \in Nat /\ 2 * (2 * s) * m = 4 * n
      BY <3>1, SMT
    <3> HIDE DEF n
    <3>3. 4 * n + 4 * t = 4 * c
      BY <3>1, <3>2
    <3>4. at(c, 1) = 4 * n + 4 * t + 1 /\ at(c, 3) = 4 * n + 4 * t + 3
      BY <3>2 DEF m, t
    <3> HIDE DEF at
    <3> QED
      BY <3>3, <3>4
  <2> HIDE DEF at
  <2>3. yuv422[4 * p + c] = Read(data, 4 * c + 1) /\ yuv422[6 * p + c] = Read(data, 4 * c + 3)
    BY <2>1, <2>2
  <2> QED
    BY <1>2, <2>1, <2>3 DEF Read
<1>7. DOMAIN yuv422 = Positions(8 * p)
  OBVIOUS
<1> HIDE DEF yuv422
<1>8. IsDrawing(RenderYUV422(yuv422, 2 * s, 2 * g), s, g, FALSE)
  BY <1>5, <1>6, <1>7, PlanesDrawing DEF p
<1> QED
  BY <1>4, <1>8 DEF data

-----------------------------------------------------------------------------
(* The invariant: what was made of the frame there is, it was made of this frame *)

\* What OnFrame and OnImageAvailable make of a frame.
Converts(f, image) ==
    LET yRowStride == f.w + f.pad
        rowStride  == (yRowStride * f.pixelStride) \div 2
    IN
    \/ f.source = "HW"   /\ image = MjpegToNV21(Nv12(f.w, f.h), f.w, f.h)
    \/ f.source = "SW"   /\ image = MjpegToNV21(Yuv422(f.w, f.h), f.w, f.h)
    \/ f.source = "YUYV" /\ image = YuyvToNV21(Yuyv(f.w, f.h), f.w, f.h)
    \/ /\ f.source = "camera2"
       /\ image = Yuv420ToNv21(YPlane(f.w, f.h, yRowStride),
                               ChromaPlane("U", f.w, f.h, f.pixelStride, rowStride),
                               ChromaPlane("V", f.w, f.h, f.pixelStride, rowStride),
                               f.w, f.h, f.pixelStride, yRowStride, rowStride)

\* What Render makes of it.
Draws(f, picture) ==
    \/ f.source = "HW"    /\ picture = RenderNV12(Nv12(f.w, f.h), f.w, f.h)
    \/ f.source = "SW"    /\ picture = RenderYUV422(Yuv422(f.w, f.h), f.w, f.h)
    \/ f.source = "YUYV"  /\ picture = RenderYUYV(Yuyv(f.w, f.h), f.w, f.h)
    \/ f.source = "DEPTH" /\ picture = RenderDepth(f.pixels)

DrawingInv ==
    /\ frame \in Pictures
    /\ nv21 # << >> => Converts(frame, nv21)
    /\ drawn # << >> => Draws(frame, drawn)
    /\ layout # << >> =>
         /\ frame.source # "DEPTH"
         /\ \E container \in [width : Lengths, height : Lengths], fill \in BOOLEAN :
              \E view \in ViewSizes(container, frame.w, frame.h, fill) :
                layout = [container |-> container, fill |-> fill, view |-> view]

LEMMA DrawingInvariance == DrawingSpec => []DrawingInv
<1>1. DrawingInit => DrawingInv
  BY DEF DrawingInit, DrawingInv
<1>2. DrawingInv /\ [DrawingNext]_allVars => DrawingInv'
  <2> SUFFICES ASSUME DrawingInv, [DrawingNext]_allVars PROVE DrawingInv'
    OBVIOUS
  <2>1. CASE Idle /\ OnFrame /\ UNCHANGED drawVars
    <3>1. Converts(frame, nv21')
      BY <2>1 DEF OnFrame, Converts
    <3> QED
      BY <2>1, <3>1 DEF OnFrame, drawVars, DrawingInv
  <2>2. CASE Idle /\ OnImageAvailable /\ UNCHANGED drawVars
    <3>1. Converts(frame, nv21')
      BY <2>2 DEF OnImageAvailable, Converts
    <3> QED
      BY <2>2, <3>1 DEF OnImageAvailable, drawVars, DrawingInv
  <2>3. CASE Render
    <3>1. Draws(frame, drawn')
      BY <2>3 DEF Render, Draws
    <3> QED
      BY <2>3, <3>1 DEF Render, Idle, vars, DrawingInv
  <2>4. CASE ChangeSurfaceViewSize
    BY <2>4 DEF ChangeSurfaceViewSize, vars, DrawingInv
  <2>5. CASE NextPicture
    BY <2>5 DEF NextPicture, DrawingInv
  <2>6. CASE UNCHANGED allVars
    BY <2>6 DEF allVars, vars, drawVars, DrawingInv
  <2> QED
    BY <2>1, <2>2, <2>3, <2>4, <2>5, <2>6 DEF DrawingNext
<1> QED
  BY <1>1, <1>2, PTL DEF DrawingSpec

\* The sizes of the pictures: s by g blocks.
LEMMA BlocksOfFrame ==
    ASSUME NEW w \in Widths, NEW h \in Heights
    PROVE  \E s \in Nat \ {0, 1}, g \in Nat \ {0} : w = 2 * s /\ h = 2 * g
<1>1. w \in Nat \ {0} /\ w % 8 = 0 /\ h \in Nat \ {0} /\ h % 2 = 0
  BY SizeAssumption
<1>2. w \div 2 \in Nat \ {0, 1} /\ w = 2 * (w \div 2)
  BY <1>1, SMT
<1>3. h \div 2 \in Nat \ {0} /\ h = 2 * (h \div 2)
  BY <1>1, SMT
<1> QED
  BY <1>2, <1>3

\* However a frame came, it becomes NV21; only of interleaved planes a U misses.
LEMMA ConvertedIsNV21 ==
    ASSUME NEW f \in Frames, f.source = "camera2" => f.pad = 0, NEW image, Converts(f, image),
           NEW s \in Nat \ {0, 1}, NEW g \in Nat \ {0}, f.w = 2 * s, f.h = 2 * g
    PROVE  IsNV21(image, s, g, f.source = "camera2" /\ f.pixelStride = 2)
<1> DEFINE missing == f.source = "camera2" /\ f.pixelStride = 2
<1>1. CASE f.source \in {"HW", "SW", "YUYV"}
  <2>1. \/ image = MjpegToNV21(Nv12(2 * s, 2 * g), 2 * s, 2 * g)
        \/ image = MjpegToNV21(Yuv422(2 * s, 2 * g), 2 * s, 2 * g)
        \/ image = YuyvToNV21(Yuyv(2 * s, 2 * g), 2 * s, 2 * g)
    BY <1>1 DEF Converts
  <2>2. IsNV21(image, s, g, FALSE)
    BY <2>1, HwToNV21, SwToNV21, YuyvToNV21IsNV21
  <2>3. missing = FALSE
    BY <1>1
  <2> QED
    BY <2>2, <2>3
<1>2. CASE f.source = "camera2" /\ f.pixelStride = 1
  <2>1. 2 * s + 0 = 2 * s /\ (2 * s * 1) \div 2 = s
    BY SMT
  <2>2. image = Yuv420ToNv21(YPlane(2 * s, 2 * g, 2 * s),
                             ChromaPlane("U", 2 * s, 2 * g, 1, s),
                             ChromaPlane("V", 2 * s, 2 * g, 1, s),
                             2 * s, 2 * g, 1, 2 * s, s)
    BY <1>2, <2>1 DEF Converts
  <2>3. IsNV21(image, s, g, FALSE)
    BY <2>2, PlanarToNV21
  <2>4. missing = FALSE
    BY <1>2
  <2> QED
    BY <2>3, <2>4
<1>3. CASE f.source = "camera2" /\ f.pixelStride = 2
  <2>1. 2 * s + 0 = 2 * s /\ (2 * s * 2) \div 2 = 2 * s
    BY SMT
  <2>2. image = Yuv420ToNv21(YPlane(2 * s, 2 * g, 2 * s),
                             ChromaPlane("U", 2 * s, 2 * g, 2, 2 * s),
                             ChromaPlane("V", 2 * s, 2 * g, 2, 2 * s),
                             2 * s, 2 * g, 2, 2 * s, 2 * s)
    BY <1>3, <2>1 DEF Converts
  <2>3. IsNV21(image, s, g, TRUE)
    BY <2>2, InterleavedToNV21
  <2>4. missing = TRUE
    BY <1>3
  <2> QED
    BY <2>3, <2>4
<1>4. \/ f.source \in {"HW", "SW", "YUYV"}
      \/ f.source = "camera2" /\ f.pixelStride \in {1, 2}
  BY DEF Frames
<1> QED
  BY <1>1, <1>2, <1>3, <1>4

\* Of a plane with padded rows the last Y is looked for past its end, whatever
\* the size and the padding: the conversion ends with an exception.
LEMMA PaddedReadsPast ==
    ASSUME NEW s \in Nat \ {0, 1}, NEW g \in Nat \ {0}, NEW pad \in Nat \ {0},
           NEW u, NEW v, NEW pixelStride, NEW rowStride
    PROVE  Yuv420ToNv21(YPlane(2 * s, 2 * g, 2 * s + pad), u, v, 2 * s, 2 * g,
                        pixelStride, 2 * s + pad, rowStride)[4 * (s * g) - 1] = OutOfBounds
<1> DEFINE p == s * g
           rest == pad * (2 * g - 1)
           y == YPlane(2 * s, 2 * g, 2 * s + pad)
           image == Yuv420ToNv21(y, u, v, 2 * s, 2 * g, pixelStride, 2 * s + pad, rowStride)
<1>1. /\ p \in Nat \ {0} /\ (2 * s) * (2 * g) = 4 * p /\ (4 * p) \div 2 = 2 * p
      /\ p >= 2 * g
  <2>1. s * g >= 2 * g
    BY SMT
  <2> QED
    BY <2>1, Blocks
<1>2. rest \in Nat \ {0} /\ (2 * s + pad) * (2 * g - 1) + 2 * s = 4 * p + rest
  <2>1. (2 * s + pad) * (2 * g - 1) + 2 * s = (2 * s) * (2 * g) + pad * (2 * g - 1)
    BY SMT
  <2>2. pad * (2 * g - 1) \in Nat \ {0}
    BY SMT
  <2> QED
    BY <1>1, <2>1, <2>2
<1>3. (4 * p - 1) * 1 + ((4 * p - 1) \div 1) * ((2 * s + pad) - 2 * s) >= 4 * p + rest
  <2>1. (4 * p - 1) * 1 = 4 * p - 1 /\ (4 * p - 1) \div 1 = 4 * p - 1
        /\ (2 * s + pad) - 2 * s = pad /\ 4 * p - 1 >= (2 * g - 1) + 1
    BY <1>1, SMT
  <2>2. (4 * p - 1) * pad >= ((2 * g - 1) + 1) * pad
    <3> DEFINE m == 4 * p - 1
    <3>1. m \in Nat /\ m >= 2 * g
      BY <1>1, <2>1
    <3> HIDE DEF m
    <3>2. m * pad >= (2 * g) * pad
      BY <3>1, SMT
    <3>3. (2 * g - 1) + 1 = 2 * g
      OBVIOUS
    <3> QED
      BY <3>2, <3>3 DEF m
  <2>3. ((2 * g - 1) + 1) * pad = rest + pad
    BY SMT
  <2> QED
    BY <1>1, <1>2, <2>1, <2>2, <2>3
<1>4. DOMAIN y = Positions(4 * p + rest) /\ Length(y) = 4 * p + rest
  <2>1. DOMAIN y = Positions(4 * p + rest)
    BY <1>2 DEF YPlane
  <2> HIDE DEF y, rest
  <2> QED
    BY <1>1, <1>2, <2>1, LengthOf
<1> HIDE DEF y, p, rest
<1>5. Length(y) # 4 * p /\ 4 * p - 1 \in Positions(4 * p)
  BY <1>1, <1>2, <1>4 DEF Positions
<1>6. GetYUVBuffer(y, 1, 2 * s + pad, 2 * s, 4 * p)[4 * p - 1]
        = Read(y, (4 * p - 1) * 1 + ((4 * p - 1) \div 1) * ((2 * s + pad) - 2 * s))
  BY <1>5 DEF GetYUVBuffer
<1>7. GetYUVBuffer(y, 1, 2 * s + pad, 2 * s, 4 * p)[4 * p - 1] = OutOfBounds
  <2> DEFINE k == (4 * p - 1) * 1 + ((4 * p - 1) \div 1) * ((2 * s + pad) - 2 * s)
  <2>1. k >= 4 * p + rest
    BY <1>3
  <2> HIDE DEF k
  <2>2. k \notin Positions(4 * p + rest)
    BY <1>1, <1>2, <2>1 DEF Positions
  <2>3. Read(y, k) = OutOfBounds
    BY <1>4, <2>2 DEF Read
  <2> QED
    BY <1>6, <2>3 DEF k
<1>8. image[4 * p - 1] = GetYUVBuffer(y, 1, 2 * s + pad, 2 * s, 4 * p)[4 * p - 1]
  <2>1. 4 * p - 1 \in Positions(3 * (2 * p)) /\ (4 * p - 1) - 4 * p < 0
    BY <1>1 DEF Positions
  <2> QED
    BY <1>1, <2>1 DEF Yuv420ToNv21
<1> QED
  BY <1>7, <1>8 DEF p, y

\* The padded pictures of camera2 are the only ones that do not become NV21.
PaddedRows == frame.source = "camera2" /\ frame.pad # 0

\* A frame becomes NV21 (PreviewFormat and Yuv420_888ToNv21Utils), every byte in
\* its place, if its rows are not padded and only then: whatever its size and its
\* way, and of whatever size the padding is.
THEOREM NV21Faithful ==
    DrawingSpec => [](nv21 # << >> => (FaithfulNV21 <=> ~PaddedRows))
<1>1. DrawingInv /\ nv21 # << >> /\ ~PaddedRows => FaithfulNV21
  <2> SUFFICES ASSUME DrawingInv, frame.source = "camera2" => frame.pad = 0, nv21 # << >>
               PROVE  FaithfulNV21
    BY DEF FaithfulNV21, PaddedRows
  <2>1. Converts(frame, nv21) /\ frame \in Frames
    BY DEF DrawingInv, Converts, Pictures
  <2>2. frame.w \in Widths /\ frame.h \in Heights
    BY <2>1 DEF Frames
  <2>3. PICK s \in Nat \ {0, 1}, g \in Nat \ {0} : frame.w = 2 * s /\ frame.h = 2 * g
    BY <2>2, BlocksOfFrame
  <2> DEFINE missing == frame.source = "camera2" /\ frame.pixelStride = 2
             p == s * g
  <2>4. IsNV21(nv21, s, g, missing)
    BY <2>1, <2>3, ConvertedIsNV21
  <2>5. /\ p \in Nat \ {0} /\ frame.w * frame.h = 4 * p /\ frame.w \div 2 = s
        /\ (4 * p) \div 2 = 2 * p /\ (4 * p) \div 4 = p
    BY <2>3, Blocks
  <2>6. /\ DOMAIN nv21 = Positions(6 * p)
        /\ \A k \in Positions(4 * p) : nv21[k] = Sample("Y", k \div (2 * s), k % (2 * s))
        /\ \A b \in Positions(p) :
             \E row, col \in Nat :
                /\ row \div 2 = b \div s /\ col \div 2 = b % s
                /\ nv21[4 * p + 2 * b] = Sample("V", row, col)
                /\ \/ nv21[4 * p + 2 * b + 1] = Sample("U", row, col)
                   \/ missing /\ b = p - 1 /\ nv21[4 * p + 2 * b + 1] = Blank
    BY <2>4 DEF IsNV21
  <2> HIDE DEF p, missing
  <2>7. ASSUME NEW b \in Positions(p)
        PROVE  LET V == nv21[4 * p + 2 * b]
                   U == nv21[4 * p + 2 * b + 1]
               IN /\ V.plane = "V" /\ V.row \div 2 = b \div s /\ V.col \div 2 = b % s
                  /\ \/ U = [V EXCEPT !.plane = "U"]
                     \/ U = Blank /\ missing /\ 4 * b + 4 = 4 * p
    <3>1. PICK row \in Nat, col \in Nat :
             /\ row \div 2 = b \div s /\ col \div 2 = b % s
             /\ nv21[4 * p + 2 * b] = Sample("V", row, col)
             /\ \/ nv21[4 * p + 2 * b + 1] = Sample("U", row, col)
                \/ missing /\ b = p - 1 /\ nv21[4 * p + 2 * b + 1] = Blank
      BY <2>6
    <3>2. b = p - 1 => 4 * b + 4 = 4 * p
      BY <2>5
    <3>3. Sample("U", row, col) = [Sample("V", row, col) EXCEPT !.plane = "U"]
      BY DEF Sample
    <3>4. /\ Sample("V", row, col).plane = "V"
          /\ Sample("V", row, col).row = row /\ Sample("V", row, col).col = col
      BY DEF Sample
    <3> QED
      BY <3>1, <3>2, <3>3, <3>4
  <2>8. DOMAIN nv21 = Positions(3 * (2 * p))
    <3>1. 3 * (2 * p) = 6 * p
      BY <2>5
    <3> QED
      BY <2>6, <3>1
  <2> QED
    BY <2>3, <2>5, <2>6, <2>7, <2>8 DEF FaithfulNV21, missing
<1>2. DrawingInv /\ nv21 # << >> /\ PaddedRows => ~FaithfulNV21
  <2> SUFFICES ASSUME DrawingInv, nv21 # << >>, PaddedRows, FaithfulNV21 PROVE FALSE
    OBVIOUS
  <2>1. Converts(frame, nv21) /\ frame \in Frames /\ frame.source = "camera2"
    BY DEF DrawingInv, Converts, Pictures, PaddedRows
  <2>2. frame.w \in Widths /\ frame.h \in Heights /\ frame.pad \in Nat \ {0}
    BY <2>1, SizeAssumption DEF Frames, PaddedRows
  <2>3. PICK s \in Nat \ {0, 1}, g \in Nat \ {0} : frame.w = 2 * s /\ frame.h = 2 * g
    BY <2>2, BlocksOfFrame
  <2>4. nv21[4 * (s * g) - 1] = OutOfBounds
    <3> DEFINE pad == frame.pad
               step == frame.pixelStride
               rowStride == ((2 * s + pad) * step) \div 2
               u == ChromaPlane("U", 2 * s, 2 * g, step, rowStride)
               v == ChromaPlane("V", 2 * s, 2 * g, step, rowStride)
    <3>1. nv21 = Yuv420ToNv21(YPlane(2 * s, 2 * g, 2 * s + pad), u, v,
                              2 * s, 2 * g, step, 2 * s + pad, rowStride)
      BY <2>1, <2>3 DEF Converts
    <3>2. pad \in Nat \ {0}
      BY <2>2
    <3> HIDE DEF pad, step, rowStride, u, v
    <3>3. Yuv420ToNv21(YPlane(2 * s, 2 * g, 2 * s + pad), u, v,
                       2 * s, 2 * g, step, 2 * s + pad, rowStride)[4 * (s * g) - 1] = OutOfBounds
      BY <3>2, PaddedReadsPast
    <3> QED
      BY <3>1, <3>3
  <2>5. 4 * (s * g) - 1 \in Positions(frame.w * frame.h)
    BY <2>3, Blocks DEF Positions
  <2>6. \A k \in Positions(frame.w * frame.h) :
          nv21[k] = Sample("Y", k \div frame.w, k % frame.w)
    BY DEF FaithfulNV21
  <2>7. \A row, col : Sample("Y", row, col) # OutOfBounds
    BY DEF OutOfBounds, Sample
  <2> QED
    BY <2>4, <2>5, <2>6, <2>7
<1>3. DrawingInv => (nv21 # << >> => (FaithfulNV21 <=> ~PaddedRows))
  BY <1>1, <1>2
<1> QED
  BY <1>3, DrawingInvariance, PTL

\* Whatever way a frame came, each pixel on the window has its own Y and the U
\* and V of the pixels it shares them with (the render functions of CameraView).
THEOREM DrawingFaithful == DrawingSpec => []FaithfulDrawing
<1>1. DrawingInv => FaithfulDrawing
  <2> SUFFICES ASSUME DrawingInv, drawn # << >>, frame.source # "DEPTH",
                      NEW pair \in Positions(frame.h) \X Positions(frame.w)
               PROVE  LET pixel == drawn[pair] IN
                      /\ pixel.y = Sample("Y", pair[1], pair[2])
                      /\ pixel.u.plane = "U" /\ pixel.v = [pixel.u EXCEPT !.plane = "V"]
                      /\ pixel.u.col \div 2 = pair[2] \div 2
                      /\ pixel.u.row = (IF frame.source = "HW" THEN 2 * (pair[1] \div 2) ELSE pair[1])
    BY DEF FaithfulDrawing
  <2> DEFINE shared == frame.source = "HW"
  <2>1. Draws(frame, drawn) /\ frame \in Frames
    BY DEF DrawingInv, Pictures
  <2>2. frame.w \in Widths /\ frame.h \in Heights
    BY <2>1 DEF Frames
  <2>3. PICK s \in Nat \ {0, 1}, g \in Nat \ {0} : frame.w = 2 * s /\ frame.h = 2 * g
    BY <2>2, BlocksOfFrame
  <2>4. IsDrawing(drawn, s, g, shared)
    <3>1. CASE shared
      <4>1. drawn = RenderNV12(Nv12(2 * s, 2 * g), 2 * s, 2 * g) /\ shared = TRUE
        BY <2>1, <2>3, <3>1 DEF Draws
      <4>2. IsDrawing(drawn, s, g, TRUE)
        BY <4>1, HwDrawing
      <4> QED
        BY <4>1, <4>2
    <3>2. CASE ~shared
      <4>1. /\ \/ drawn = RenderYUV422(Yuv422(2 * s, 2 * g), 2 * s, 2 * g)
               \/ drawn = RenderYUYV(Yuyv(2 * s, 2 * g), 2 * s, 2 * g)
            /\ shared = FALSE
        BY <2>1, <2>3, <3>2 DEF Draws
      <4>2. IsDrawing(drawn, s, g, FALSE)
        BY <4>1, SwDrawing, YuyvDrawing
      <4> QED
        BY <4>1, <4>2
    <3> QED
      BY <3>1, <3>2
  <2>5. PICK r \in Positions(2 * g), c \in Positions(2 * s) : pair = <<r, c>>
    BY <2>3
  <2> DEFINE row == IF shared THEN 2 * (r \div 2) ELSE r
             col == 2 * (c \div 2)
  <2>6. drawn[<<r, c>>] = [y |-> Sample("Y", r, c), u |-> Sample("U", row, col), v |-> Sample("V", row, col)]
    BY <2>4 DEF IsDrawing
  <2>7. col \div 2 = c \div 2
    <3>1. c \div 2 \in Nat
      BY PixelIn
    <3> QED
      BY <3>1, SMT
  <2> HIDE DEF col
  <2> QED
    BY <2>5, <2>6, <2>7 DEF Sample
<1> QED
  BY <1>1, DrawingInvariance, PTL

\* Every shade fits its byte, a nearer pixel is not darker, one without a depth
\* is black (calculateDepthHist and renderDepth), whatever is in the frame.
THEOREM NearerBrighter == DrawingSpec => []NearerIsBrighter
<1>1. DrawingInv => NearerIsBrighter
  <2> SUFFICES ASSUME DrawingInv, drawn # << >>, frame.source = "DEPTH",
                      NEW i \in DOMAIN drawn, NEW j \in DOMAIN drawn
               PROVE  /\ drawn[i] \in 0 .. 255
                      /\ frame.pixels[i] = 0 => drawn[i] = 0
                      /\ 0 < frame.pixels[i] /\ frame.pixels[i] <= frame.pixels[j] =>
                           drawn[i] >= drawn[j]
    BY DEF NearerIsBrighter
  <2>1. frame.pixels \in DepthFrames
    BY DEF DrawingInv, Pictures, Frames, DepthFrames
  <2>2. drawn = RenderDepth(frame.pixels) /\ DOMAIN drawn = DOMAIN frame.pixels
    BY DEF DrawingInv, Draws, RenderDepth
  <2> QED
    BY <2>1, <2>2, ShadeOfPoint, ShadeOfNothing, ShadesInOrder
<1> QED
  BY <1>1, DrawingInvariance, PTL

\* A view that is to fill its container does so but for a column, one that is to
\* fit it lies in it, both in the proportions of the preview (chanceSurfaceViewSize),
\* for all sizes and however the division is cut off.
THEOREM FillingOrFitting == DrawingSpec => []FillsOrFits
<1>1. DrawingInv => FillsOrFits
  <2> SUFFICES ASSUME DrawingInv, layout # << >> PROVE FillsOrFits
    BY DEF FillsOrFits
  <2>1. frame.w \in Nat \ {0} /\ frame.h \in Nat \ {0}
    BY SizeAssumption DEF DrawingInv, Pictures, Frames
  <2>2. PICK container \in [width : Lengths, height : Lengths], fill \in BOOLEAN :
          \E view \in ViewSizes(container, frame.w, frame.h, fill) :
             layout = [container |-> container, fill |-> fill, view |-> view]
    BY DEF DrawingInv
  <2>3. PICK view \in ViewSizes(container, frame.w, frame.h, fill) :
          layout = [container |-> container, fill |-> fill, view |-> view]
    BY <2>2
  <2>4. container \in [width : Nat \ {0}, height : Nat \ {0}]
    BY DrawingAssumption
  <2>5. InProportion(container, frame.w, frame.h, fill, view)
    BY <2>1, <2>4, ViewInProportion
  <2> QED
    BY <2>3, <2>5 DEF FillsOrFits, InProportion
<1> QED
  BY <1>1, DrawingInvariance, PTL
=============================================================================
