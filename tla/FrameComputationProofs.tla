------------------------ MODULE FrameComputationProofs ------------------------
(***************************************************************************)
(* Theorems about FrameComputation, for any frames that fit the sensor and *)
(* the buffer and any distances: the loops stay inside their arrays, a     *)
(* frame that is handed on is whole, the picture tells where the cloud has *)
(* points, and neither the colour map nor a smooth surface has a seam.     *)
(*                                                                         *)
(* LoopInv says where the loops stand: sortData after k iterations at the  *)
(* k-th pair of bytes, computeFrame at pixel (x, y) with every index a     *)
(* multiple of y * width + x.                                              *)
(***************************************************************************)
EXTENDS FrameComputation, WellFoundedInduction, TLAPS

Iterations(f) == IF f.dataType = "DCS" THEN 4 * Points(f) ELSE Points(f)

SortedSoFar ==
  \E k \in 0..Iterations(frame) :
    i = frame.payloadHeaderOffset + Stride(frame.dataType) * k /\ j = 2 * k

Done == y * frame.width + x

LoopInv ==
  /\ phase \in {"sort", "compute"} => frame \in Frames
  /\ phase = "sort" => SortedSoFar
  /\ phase = "compute" =>
       /\ y \in 0..frame.height
       /\ y < frame.height => x \in 0..frame.width - 1
       /\ y = frame.height => x = 0
       /\ j = 2 * Iterations(frame)
  /\ phase \in {"colours", "idle", "sort"} => x = 0 /\ y = 0
  /\ phase \in {"sort", "compute"} =>
       /\ i_out_index = Done
       /\ l = 2 * Done /\ i_2d_color = 3 * Done /\ i_point_3d = 8 * Done
  /\ phase \in {"lens", "colours", "idle"} =>
       l = 0 /\ i_out_index = 0 /\ i_2d_color = 0 /\ i_point_3d = 0

LensInv ==
  phase = "lens" => /\ x \in 0..Width - 1 /\ y \in 0..Height
                    /\ y = Height => x = 0

IInv == TypeOK /\ LoopInv /\ LensInv

-------------------------------------------------------------------------------
(* Frames *)

LEMMA FrameFields ==
  ASSUME NEW f \in Frames
  PROVE  /\ f.dataType \in DataType
         /\ f.width \in 1..Width /\ f.height \in 1..Height
         /\ f.payloadHeaderOffset \in Nat
         /\ f.payloadHeaderOffset + f.width * f.height * PixelBytes[f.dataType] <= BufferSize
BY FramesFit

LEMMA ProductType ==
  ASSUME NEW a \in Nat, NEW b \in Nat
  PROVE  a * b \in Nat
OBVIOUS

LEMMA PointsType ==
  ASSUME NEW f \in Frames
  PROVE  Points(f) \in Nat /\ Iterations(f) \in Nat
<1>1. f.width \in Nat /\ f.height \in Nat
  BY FrameFields DEF Width, Height
<1>2. Points(f) \in Nat
  BY <1>1, ProductType DEF Points
<1> QED
  BY <1>2 DEF Iterations

\* The end of the bytes, in iterations.
LEMMA End ==
  ASSUME NEW f \in Frames
  PROVE  /\ ReadEnd(f) = f.payloadHeaderOffset + Stride(f.dataType) * Iterations(f)
         /\ ReadEnd(f) <= BufferSize
         /\ Stride(f.dataType) \in {2, 4}
<1> DEFINE n == Points(f)
<1>1. n \in Nat /\ Iterations(f) = IF f.dataType = "DCS" THEN 4 * n ELSE n
  BY PointsType DEF Iterations
<1>2. f.dataType \in DataType /\ f.payloadHeaderOffset \in Nat
      /\ f.payloadHeaderOffset + n * PixelBytes[f.dataType] <= BufferSize
  BY FrameFields DEF Points
<1>3. ReadEnd(f) = f.payloadHeaderOffset + n * PixelBytes[f.dataType]
  BY DEF ReadEnd
<1>4. BufferSize \in Nat
  BY DEF BufferSize, Width, Height
<1> HIDE DEF n
<1>5. CASE f.dataType = "DCS"
  BY <1>1, <1>2, <1>3, <1>4, <1>5 DEF PixelBytes, px_size, Stride
<1>6. CASE f.dataType = "AMPLITUDE"
  BY <1>1, <1>2, <1>3, <1>4, <1>6 DEF PixelBytes, px_size, Stride
<1>7. CASE f.dataType \in {"GRAYSCALE", "DISTANCE"}
  BY <1>1, <1>2, <1>3, <1>4, <1>7 DEF PixelBytes, px_size, Stride
<1> QED
  BY <1>2, <1>5, <1>6, <1>7 DEF DataType

\* The bytes of every vector of the type are written by the iterations.
LEMMA VectorsOfType ==
  ASSUME NEW vector \in Sorted[frame.dataType], frame \in Frames
  PROVE  Bytes(vector) = 2 * Iterations(frame)
<1> DEFINE n == Points(frame)
<1>1. n \in Nat /\ Iterations(frame) = IF frame.dataType = "DCS" THEN 4 * n ELSE n
  BY PointsType DEF Iterations
<1>2. frame.dataType \in DataType
  BY FrameFields
<1>3. Bytes(vector) = VectorBytes[vector] * n
  BY DEF Bytes
<1> HIDE DEF n
<1>4. CASE frame.dataType = "DCS"
  <2>1. vector = "dcsData"
    BY <1>4 DEF Sorted
  <2> QED
    BY <2>1, <1>1, <1>3, <1>4 DEF VectorBytes, px_size
<1>5. CASE frame.dataType # "DCS"
  <2>1. vector \in {"distData", "amplData"}
    BY <1>5, <1>2 DEF Sorted, DataType
  <2>2. VectorBytes[vector] = 2
    BY <2>1 DEF VectorBytes, px_size
  <2> QED
    BY <2>2, <1>1, <1>3, <1>5
<1> QED
  BY <1>4, <1>5

\* A pixel inside the frame is before the end of a row-wise array.
LEMMA PixelBeforeEnd ==
  ASSUME NEW w \in Nat, NEW h \in Nat, NEW a \in 0..w - 1, NEW b \in 0..h - 1
  PROVE  b * w + a \in Nat /\ b * w + a + 1 <= w * h
<1>1. b + 1 <= h /\ b \in Nat /\ a \in Nat
  OBVIOUS
<1>2. (b + 1) * w <= h * w
  BY <1>1
<1>3. (b + 1) * w = b * w + w /\ h * w = w * h /\ b * w \in Nat
  BY <1>1
<1> QED
  BY <1>1, <1>2, <1>3

-------------------------------------------------------------------------------
(* Angles *)

LEMMA Largest ==
  ASSUME NEW S \in SUBSET (1..100), S # {}
  PROVE  \E m \in S : \A n \in S : n <= m
<1> DEFINE T == {n \in Nat : 100 - n \in S}
<1>1. IsWellFoundedOn(OpToRel(<, Nat), Nat)
  BY NatLessThanWellFounded
<1>2. T \subseteq Nat /\ T # {}
  <2>1. PICK m \in S : TRUE
    OBVIOUS
  <2>2. 100 - m \in T
    OBVIOUS
  <2> QED
    BY <2>2
<1>3. PICK n \in T : \A k \in T : ~(<<k, n>> \in OpToRel(<, Nat))
  BY <1>1, <1>2, WFMin
<1>4. \A k \in T : ~(k < n)
  BY <1>2, <1>3 DEF OpToRel
<1>5. 100 - n \in S /\ \A m \in S : m <= 100 - n
  <2>1. SUFFICES ASSUME NEW m \in S PROVE m <= 100 - n
    OBVIOUS
  <2>2. 100 - m \in T
    OBVIOUS
  <2>3. ~(100 - m < n)
    BY <2>2, <1>4
  <2> QED
    BY <2>3, <1>2
<1> QED
  BY <1>5

LEMMA AngleType ==
  ASSUME NEW type \in LensTypes, NEW radius2 \in Nat
  PROVE  GetAngle(type, radius2) \in 0..distortionTableSize - 1
<1> DEFINE hits == {n \in 1..distortionTableSize - 1 : Between(type, n, radius2)}
<1>1. GetAngle(type, radius2) =
        IF hits = {} THEN 0 ELSE CHOOSE n \in hits : \A m \in hits : m <= n
  BY DEF GetAngle
<1>2. hits \in SUBSET (1..100)
  BY DEF distortionTableSize
<1> HIDE DEF hits
<1>3. CASE hits = {}
  BY <1>1, <1>3 DEF distortionTableSize
<1>4. CASE hits # {}
  <2>1. \E n \in hits : \A m \in hits : m <= n
    BY <1>2, <1>4, Largest
  <2>2. GetAngle(type, radius2) \in hits
    BY <2>1, <1>1, <1>4
  <2>3. GetAngle(type, radius2) \in 1..100
    BY <2>2, <1>2
  <2> QED
    BY <2>3 DEF distortionTableSize
<1> QED
  BY <1>3, <1>4

LEMMA RadiusType ==
  ASSUME NEW a \in Int, NEW b \in Int
  PROVE  RadiusSquared(a, b, 0, 0) \in Nat
<1>1. \A n \in Int : Square(n) \in Nat
  BY DEF Square
<1>2. FromAxis(a, Width, 0) \in Int /\ FromAxis(b, Height, 0) \in Int
  BY DEF FromAxis, Width, Height
<1> QED
  BY <1>1, <1>2 DEF RadiusSquared

-------------------------------------------------------------------------------
(* Colours *)

LEMMA RisingRamp ==
  ASSUME NEW pos \in Int, NEW x0 \in Int, NEW x1 \in Int, NEW x2 \in Int, NEW x3 \in Int,
         x0 <= pos, pos < x1
  PROVE  Channel(pos, x0, x1, x2, x3) = (255 * (pos - x0)) \div (x1 - x0)
BY Zenon DEF Channel

LEMMA FallingRamp ==
  ASSUME NEW pos \in Int, NEW x0 \in Int, NEW x1 \in Int, NEW x2 \in Int, NEW x3 \in Int,
         x0 < x1, x1 < x2, x2 <= pos, pos < x3
  PROVE  Channel(pos, x0, x1, x2, x3) = (255 * (x3 - pos)) \div (x3 - x2)
<1>1. ~(pos < x1) /\ ~(pos < x2)
  OBVIOUS
<1> QED
  BY <1>1, Zenon DEF Channel

\* No colour of the map is black.
LEMMA MapIsNotBlack ==
  ASSUME NEW index \in 0..NUM_COLORS - 1
  PROVE  CreateColorMap(index) # Black
<1> DEFINE p == Position(index)
           red == Channel(p, 7500, 22500, 37500, 67500)
           green == Channel(p, -7500, 7500, 22500, 45000)
           blue == Channel(p, -22500, -7500, 7500, 22500)
<1>1. p \in Int /\ p >= -15000 /\ p <= 44992
  BY DEF Position, NUM_COLORS
<1>3. /\ Eighths(-3) = -22500 /\ Eighths(-1) = -7500 /\ Eighths(1) = 7500
      /\ Eighths(3) = 22500 /\ Eighths(5) = 37500 /\ Eighths(6) = 45000
      /\ Eighths(9) = 67500
  BY DEF Eighths, NUM_COLORS
<1>2. CreateColorMap(index) = [r |-> red, g |-> green, b |-> blue]
  BY <1>3 DEF CreateColorMap, Color
<1> HIDE DEF p
<1>4. CASE p < -7500
  <2>1. blue = (255 * (p - (-22500))) \div ((-7500) - (-22500))
    <3>1. p \in Int /\ -22500 <= p /\ p < -7500
      BY <1>1, <1>4
    <3> QED
      BY <3>1, RisingRamp
  <2>2. blue = (255 * (p + 22500)) \div 15000
    BY <2>1, <1>1
  <2>3. blue > 0
    BY <2>2, <1>1
  <2> QED
    BY <2>3, <1>2 DEF Black, Color
<1>5. CASE -7500 <= p /\ p < 7500
  <2>1. blue = 255
    BY <1>1, <1>3, <1>5 DEF Channel
  <2> QED
    BY <2>1, <1>2 DEF Black, Color
<1>6. CASE 7500 <= p /\ p < 22500
  <2>1. green = 255
    BY <1>1, <1>3, <1>6 DEF Channel
  <2> QED
    BY <2>1, <1>2 DEF Black, Color
<1>7. CASE 22500 <= p /\ p < 37500
  <2>1. red = 255
    BY <1>1, <1>3, <1>7 DEF Channel
  <2> QED
    BY <2>1, <1>2 DEF Black, Color
<1>8. CASE 37500 <= p
  <2>1. red = (255 * (67500 - p)) \div (67500 - 37500)
    <3>1. p \in Int /\ 37500 <= p /\ p < 67500
      BY <1>1, <1>8
    <3> QED
      BY <3>1, FallingRamp
  <2>2. red = (255 * (67500 - p)) \div 30000
    BY <2>1, <1>1
  <2>3. red > 0
    BY <2>2, <1>1
  <2> QED
    BY <2>3, <1>2 DEF Black, Color
<1> QED
  BY <1>1, <1>4, <1>5, <1>6, <1>7, <1>8

\* getColor stays inside colorVector for every distance of its range, so that
\* at() does not throw.
THEOREM ColorIndexInRange ==
  ASSUME NEW d \in Nat, InRange(d)
  PROVE  ColorIndex(d) \in 0..NUM_COLORS - 1
<1>1. d <= 20000
  BY DEF InRange, begin, end
<1>2. Cut(d) \in 0..7499
  BY <1>1 DEF Cut
<1>3. PICK c \in 0..7499 : c = Cut(d)
  BY <1>2
<1>4. ColorIndex(d) = IF c < NUM_COLORS THEN NUM_COLORS - c - 1 ELSE 0
  <2>1. ColorIndex(d) = IF Cut(d) < NUM_COLORS THEN NUM_COLORS - Cut(d) - 1 ELSE 0
    BY SMTT(60) DEF ColorIndex
  <2> QED
    BY <2>1, <1>3, SMTT(60)
<1>5. c \in Nat /\ c < 7500
  OBVIOUS
<1>6. ColorIndex(d) = 7500 - c - 1
  BY <1>4, <1>5 DEF NUM_COLORS
<1> QED
  BY <1>5, <1>6 DEF NUM_COLORS

LEMMA ValidIsNotBlack ==
  \A d \in Nat : Valid(d) => GetColor(d) # Black
<1> SUFFICES ASSUME NEW d \in Nat, Valid(d)
             PROVE  GetColor(d) # Black
  OBVIOUS
<1>1. d > 0 /\ d < 64001
  BY DEF Valid, LOW_AMPLITUDE, PIXEL_CODE_OFFSET
<1>2. /\ d # LOW_AMPLITUDE /\ d # SATURATION /\ d # ADC_OVERFLOW /\ d # INTERFERENCE
      /\ d # EDGE_DETECTED /\ d # 0 /\ ~(d >= 65000)
  BY <1>1 DEF LOW_AMPLITUDE, SATURATION, ADC_OVERFLOW, INTERFERENCE, EDGE_DETECTED,
              PIXEL_CODE_OFFSET
<1>3. GetColor(d) = IF InRange(d) THEN CreateColorMap(ColorIndex(d)) ELSE Color(127, 127, 127)
  BY <1>2 DEF GetColor
<1>4. CASE InRange(d)
  <2>2. ColorIndex(d) \in 0..NUM_COLORS - 1
    BY <1>4, ColorIndexInRange
  <2> QED
    BY <2>2, <1>3, <1>4, MapIsNotBlack
<1>5. CASE ~InRange(d)
  BY <1>3, <1>5 DEF Color, Black
<1> QED
  BY <1>4, <1>5

LEMMA PixelTells ==
  ASSUME NEW d \in Nat
  PROVE  /\ Pixel(d).bgr = Black <=> Pixel(d).depth = "NaN"
         /\ Pixel(d).mask = 255 => Pixel(d).depth = "NaN"
<1>1. Pixel(d).depth = IF Valid(d) THEN "Z" ELSE "NaN"
  BY DEF Pixel
<1>2. Pixel(d).bgr = IF Valid(d) THEN GetColor(d) ELSE Black
  BY DEF Pixel
<1>3. Pixel(d).mask = IF d \in {ADC_OVERFLOW, SATURATION} THEN 255 ELSE 0
  BY DEF Pixel
<1>4. d \in {ADC_OVERFLOW, SATURATION} => ~Valid(d)
  BY DEF Valid, ADC_OVERFLOW, SATURATION, LOW_AMPLITUDE, PIXEL_CODE_OFFSET
<1>5. Pixel(d).bgr = Black <=> Pixel(d).depth = "NaN"
  <2>1. CASE Valid(d)
    <3>1. Pixel(d).bgr = GetColor(d) /\ Pixel(d).depth = "Z"
      BY <2>1, <1>1, <1>2
    <3>2. GetColor(d) # Black
      BY <2>1, ValidIsNotBlack
    <3> QED
      BY <3>1, <3>2
  <2>2. CASE ~Valid(d)
    BY <2>2, <1>1, <1>2
  <2> QED
    BY <2>1, <2>2
<1>6. Pixel(d).mask = 255 => Pixel(d).depth = "NaN"
  BY <1>1, <1>3, <1>4
<1> QED
  BY <1>5, <1>6

LEMMA DistanceType ==
  \A d \in Distances \cup {0} : d \in Nat
<1>1. UINT16_MAX \in Nat
  BY DEF UINT16_MAX
<1>2. \A d \in Distances : d \in Nat
  BY <1>1, DistancesAre16Bit
<1> QED
  BY <1>2

-------------------------------------------------------------------------------
(* The invariant *)

LEMMA InitInv == Init => IInv
<1> SUFFICES ASSUME Init PROVE IInv
  OBVIOUS
<1>1. TypeOK
  BY DEF Init, TypeOK, distortionTableSize, NUM_COLORS
<1>2. LoopInv
  BY DEF Init, LoopInv
<1>3. LensInv
  BY DEF Init, LensInv, Width, Height
<1> QED
  BY <1>1, <1>2, <1>3 DEF IInv

LEMMA TablesInv ==
  ASSUME IInv, Constructor
  PROVE  IInv'
<1> USE DEF IInv
<1>1. CASE InitLensTransform
  <2>1. /\ phase = "lens" /\ y < Height /\ phase' = "lens" /\ lens \in LensTypes
        /\ x \in 0..Width - 1 /\ y \in 0..Height /\ x \in Int /\ y \in Int
    BY <1>1 DEF InitLensTransform, LensInv, TypeOK, Width, Height
  <2>2. angle' \in 0..distortionTableSize - 1
    BY <1>1, <2>1, AngleType, RadiusType DEF InitLensTransform
  <2>3. x' \in 0..Width - 1 /\ y' \in 0..Height /\ (y' = Height => x' = 0)
    BY <1>1, <2>1 DEF InitLensTransform, NextPixel, Width, Height
  <2>4. x' \in Nat /\ y' \in Nat
    BY <2>3 DEF Width, Height
  <2>5. TypeOK'
    BY <1>1, <2>1, <2>2, <2>4 DEF InitLensTransform, TypeOK
  <2>6. LoopInv'
    BY <1>1, <2>1 DEF InitLensTransform, LoopInv
  <2>7. LensInv'
    BY <2>3 DEF LensInv
  <2> QED
    BY <2>5, <2>6, <2>7
<1>2. CASE LensDone
  <2>1. TypeOK'
    BY <1>2 DEF LensDone, TypeOK, tables
  <2>2. LoopInv'
    BY <1>2 DEF LensDone, LoopInv, tables
  <2>3. LensInv'
    BY <1>2 DEF LensDone, LensInv
  <2> QED
    BY <2>1, <2>2, <2>3
<1>3. CASE AddColor
  <2>1. colours'.size \in 0..NUM_COLORS
    <3>1. NUM_COLORS \in Nat
      BY DEF NUM_COLORS
    <3> QED
      BY <1>3, <3>1 DEF AddColor, TypeOK
  <2>2. TypeOK'
    BY <1>3, <2>1 DEF AddColor, TypeOK, loop
  <2>3. LoopInv'
    BY <1>3 DEF AddColor, LoopInv, loop
  <2>4. LensInv'
    BY <1>3 DEF AddColor, LensInv
  <2> QED
    BY <2>2, <2>3, <2>4
<1>4. CASE ColoursDone
  <2>1. TypeOK'
    BY <1>4 DEF ColoursDone, TypeOK, tables, loop
  <2>2. LoopInv'
    BY <1>4 DEF ColoursDone, LoopInv, tables, loop
  <2>3. LensInv'
    BY <1>4 DEF ColoursDone, LensInv
  <2> QED
    BY <2>1, <2>2, <2>3
<1> QED
  BY <1>1, <1>2, <1>3, <1>4 DEF Constructor

LEMMA BeginSortInv ==
  ASSUME IInv, BeginSort
  PROVE  IInv'
<1> USE DEF IInv
<1>1. /\ frame' \in Frames /\ phase = "idle" /\ phase' = "sort"
      /\ i' = frame'.payloadHeaderOffset /\ j' = 0
      /\ UNCHANGED <<tables, loop, point>>
  BY DEF BeginSort
<1>2. i' \in Nat
  BY <1>1, FrameFields
<1>3. TypeOK'
  BY <1>1, <1>2 DEF TypeOK, tables, loop
<1>4. SortedSoFar'
  <2>1. Iterations(frame') \in Nat /\ Stride(frame'.dataType) \in {2, 4}
    BY <1>1, PointsType, End
  <2>2. frame'.payloadHeaderOffset \in Nat
    BY <1>1, FrameFields
  <2>3. /\ i' = frame'.payloadHeaderOffset + Stride(frame'.dataType) * 0
        /\ j' = 2 * 0
    BY <1>1, <2>1, <2>2
  <2>4. 0 \in 0..Iterations(frame')
    BY <2>1
  <2> QED
    BY <2>3, <2>4 DEF SortedSoFar
<1>5. x' = 0 /\ y' = 0 /\ l' = 0 /\ i_out_index' = 0 /\ i_2d_color' = 0 /\ i_point_3d' = 0
  BY <1>1 DEF LoopInv, loop
<1>6. Done' = 0
  <2>1. frame'.width \in Nat
    BY <1>1, FrameFields DEF Width
  <2> QED
    BY <2>1, <1>5 DEF Done
<1>7. LoopInv'
  BY <1>1, <1>4, <1>5, <1>6 DEF LoopInv
<1>8. LensInv'
  BY <1>1 DEF LensInv
<1> QED
  BY <1>3, <1>7, <1>8

LEMMA SortPixelInv ==
  ASSUME IInv, SortPixel
  PROVE  IInv' /\ SortInRange
<1> USE DEF IInv
<1>1. /\ frame \in Frames /\ phase = "sort" /\ phase' = "sort" /\ i < ReadEnd(frame)
      /\ i' = i + Stride(frame.dataType) /\ j' = j + 2
      /\ UNCHANGED <<tables, loop, frame, point>>
  BY DEF SortPixel, LoopInv
<1> DEFINE off == frame.payloadHeaderOffset
           stride == Stride(frame.dataType)
           n == Iterations(frame)
<1>2. off \in Nat /\ stride \in {2, 4} /\ n \in Nat /\ ReadEnd(frame) = off + stride * n
      /\ ReadEnd(frame) <= BufferSize
  BY <1>1, FrameFields, End, PointsType
<1>3. PICK k \in 0..n : i = off + stride * k /\ j = 2 * k
  BY <1>1 DEF LoopInv, SortedSoFar
<1>4. \A vector \in Sorted[frame.dataType] : Bytes(vector) = 2 * n
  BY <1>1, VectorsOfType
<1>5. BufferSize \in Nat
  BY DEF BufferSize, Width, Height
<1>6. /\ i < off + stride * n /\ off + stride * n <= BufferSize
      /\ i' = i + stride /\ j' = j + 2
  BY <1>1, <1>2
<1> HIDE DEF off, stride, n
<1>7. k + 1 \in 0..n
  <2>1. CASE stride = 2
    BY <2>1, <1>2, <1>3, <1>6
  <2>2. CASE stride = 4
    BY <2>2, <1>2, <1>3, <1>6
  <2> QED
    BY <2>1, <2>2, <1>2
<1>8. i' = off + stride * (k + 1) /\ j' = 2 * (k + 1)
  <2>1. CASE stride = 2
    BY <2>1, <1>2, <1>3, <1>6
  <2>2. CASE stride = 4
    BY <2>2, <1>2, <1>3, <1>6
  <2> QED
    BY <2>1, <2>2, <1>2
<1>9. SortInRange
  <2>1. i + stride <= BufferSize
    <3>1. CASE stride = 2
      BY <3>1, <1>2, <1>3, <1>5, <1>6, <1>7
    <3>2. CASE stride = 4
      BY <3>2, <1>2, <1>3, <1>5, <1>6, <1>7
    <3> QED
      BY <3>1, <3>2, <1>2
  <2>2. j + 2 <= 2 * n
    BY <1>3, <1>7, <1>2
  <2> QED
    BY <2>1, <2>2, <1>4 DEF SortInRange, stride
<1>10. i' \in Nat /\ j' \in Nat
  <2>1. i \in Nat /\ j \in Nat
    BY DEF TypeOK
  <2> QED
    BY <2>1, <1>2, <1>6
<1>11. TypeOK'
  BY <1>1, <1>10 DEF TypeOK, tables, loop
<1>12. SortedSoFar'
  BY <1>1, <1>7, <1>8 DEF SortedSoFar, off, stride, n
<1>13. Done' = Done
  BY <1>1 DEF Done, loop
<1>14. LoopInv'
  BY <1>1, <1>12, <1>13 DEF LoopInv, loop
<1>15. LensInv'
  BY <1>1 DEF LensInv
<1> QED
  BY <1>9, <1>11, <1>14, <1>15

LEMMA BeginComputeInv ==
  ASSUME IInv, BeginCompute
  PROVE  IInv'
<1> USE DEF IInv
<1>1. /\ frame \in Frames /\ phase = "sort" /\ phase' = "compute" /\ i >= ReadEnd(frame)
      /\ UNCHANGED <<tables, loop, frame, i, j, point>>
  BY DEF BeginCompute, LoopInv
<1> DEFINE off == frame.payloadHeaderOffset
           stride == Stride(frame.dataType)
           n == Iterations(frame)
<1>2. off \in Nat /\ stride \in {2, 4} /\ n \in Nat /\ i >= off + stride * n
  BY <1>1, FrameFields, End, PointsType
<1>3. PICK k \in 0..n : i = off + stride * k /\ j = 2 * k
  BY <1>1 DEF LoopInv, SortedSoFar
<1>4. k = n
  <2> HIDE DEF off, stride, n
  <2>1. CASE stride = 2
    BY <2>1, <1>2, <1>3
  <2>2. CASE stride = 4
    BY <2>2, <1>2, <1>3
  <2> QED
    BY <2>1, <2>2, <1>2
<1>5. j = 2 * n
  BY <1>3, <1>4
<1>6. x = 0 /\ y = 0 /\ frame.width \in Nat /\ frame.height \in Nat
      /\ frame.height > 0 /\ frame.width > 0
  BY <1>1, FrameFields DEF LoopInv, Width, Height
<1>7. TypeOK'
  BY <1>1 DEF TypeOK, tables, loop
<1>8. Done' = Done
  BY <1>1 DEF Done, loop
<1>9. LoopInv'
  <2>1. /\ y' \in 0..frame'.height
        /\ y' < frame'.height => x' \in 0..frame'.width - 1
        /\ y' = frame'.height => x' = 0
        /\ j' = 2 * Iterations(frame')
    BY <1>1, <1>5, <1>6 DEF loop
  <2> QED
    BY <1>1, <1>8, <2>1 DEF LoopInv, loop
<1>10. LensInv'
  BY <1>1 DEF LensInv
<1> QED
  BY <1>7, <1>9, <1>10

\* The number of pixels done counts up by one, also at the end of a row.
LEMMA NextPixelCounts ==
  ASSUME NEW w \in Nat, NEW h \in Nat, NEW a \in 0..w - 1, NEW b \in 0..h - 1
  PROVE  /\ a + 1 >= w => (b + 1) * w + 0 = b * w + a + 1
         /\ b * w + (a + 1) = b * w + a + 1
         /\ b * w + a \in Nat
<1>1. b \in Nat /\ a \in Nat
  OBVIOUS
<1>2. b * w \in Nat /\ (b + 1) * w = b * w + w
  BY <1>1
<1>3. b * w + a \in Nat /\ b * w + (a + 1) = b * w + a + 1
  BY <1>1, <1>2
<1>4. a + 1 >= w => (b + 1) * w + 0 = b * w + a + 1
  BY <1>1, <1>2
<1> QED
  BY <1>3, <1>4

LEMMA ComputePixelInv ==
  ASSUME IInv, ComputePixel
  PROVE  IInv' /\ ComputeInRange
<1> USE DEF IInv
<1>1. /\ frame \in Frames /\ phase = "compute" /\ phase' = "compute" /\ y < frame.height
      /\ \E d \in DistancesOf(frame.dataType) : point' = Pixel(d)
      /\ l' = l + 2 /\ i_out_index' = i_out_index + 1
      /\ i_2d_color' = i_2d_color + 3 /\ i_point_3d' = i_point_3d + 8
      /\ NextPixel(frame.width)
      /\ UNCHANGED <<tables, frame, i, j>>
  BY DEF ComputePixel, LoopInv
<1> DEFINE w == frame.width
           h == frame.height
<1>2. w \in 1..Width /\ h \in 1..Height /\ w \in Nat /\ h \in Nat
  BY <1>1, FrameFields DEF Width, Height
<1>3. x \in 0..w - 1 /\ y \in 0..h - 1
  BY <1>1, <1>2 DEF LoopInv
<1>4. Done \in Nat /\ Done + 1 <= Points(frame)
  BY <1>2, <1>3, PixelBeforeEnd DEF Done, Points
<1>5. Done' = Done + 1
  <2>1. CASE x + 1 < w
    <3>1. x' = x + 1 /\ y' = y /\ frame' = frame
      BY <1>1, <2>1 DEF NextPixel
    <3>2. y * w + (x + 1) = y * w + x + 1
      BY <1>2, <1>3, NextPixelCounts
    <3> QED
      BY <3>1, <3>2 DEF Done
  <2>2. CASE ~(x + 1 < w)
    <3>1. x' = 0 /\ y' = y + 1 /\ frame' = frame
      BY <1>1, <2>2 DEF NextPixel
    <3>2. x + 1 >= w
      BY <1>2, <1>3, <2>2
    <3>3. (y + 1) * w + 0 = y * w + x + 1
      BY <1>2, <1>3, <3>2, NextPixelCounts
    <3> QED
      BY <3>1, <3>3 DEF Done
  <2> QED
    BY <2>1, <2>2
<1>6. /\ i_out_index = Done /\ l = 2 * Done
      /\ i_2d_color = 3 * Done /\ i_point_3d = 8 * Done
  BY <1>1 DEF LoopInv
<1>7. /\ i_out_index' = Done' /\ l' = 2 * Done'
      /\ i_2d_color' = 3 * Done' /\ i_point_3d' = 8 * Done'
  BY <1>1, <1>4, <1>5, <1>6
<1>8. ComputeInRange
  <2> DEFINE d == Done
             n == Points(frame)
  <2>1. d \in Nat /\ n \in Nat /\ d + 1 <= n
    BY <1>1, <1>4, PointsType
  <2>2. /\ i_out_index = d /\ l = 2 * d /\ i_2d_color = 3 * d /\ i_point_3d = 8 * d
    BY <1>6
  <2>3. Bytes("distData") = 2 * n /\ Bytes("amplData") = 2 * n
    BY DEF Bytes, VectorBytes, px_size
  <2> HIDE DEF d, n
  <2>4. /\ l + 2 <= 2 * n /\ i_out_index + 1 <= n
        /\ i_2d_color + 3 <= 3 * n /\ i_point_3d + 8 <= 8 * n
    BY <2>1, <2>2
  <2>5. x < Width /\ y < Height
    BY <1>2, <1>3 DEF Width, Height
  <2> QED
    BY <2>3, <2>4, <2>5 DEF ComputeInRange, n
<1>9. /\ y' \in 0..h
      /\ y' < h => x' \in 0..w - 1
      /\ y' = h => x' = 0
  <2>1. CASE x + 1 < w
    BY <2>1, <1>1, <1>2, <1>3 DEF NextPixel
  <2>2. CASE ~(x + 1 < w)
    BY <2>2, <1>1, <1>2, <1>3 DEF NextPixel
  <2> QED
    BY <2>1, <2>2
<1>10. \E d \in Distances \cup {0} : point' = Pixel(d)
  BY <1>1 DEF DistancesOf
<1>11. x' \in Nat /\ y' \in Nat
  <2>1. x \in Nat /\ y \in Nat
    BY DEF TypeOK
  <2> QED
    BY <2>1, <1>1 DEF NextPixel
<1>12. TypeOK'
  <2>1. l' \in Nat /\ i_out_index' \in Nat /\ i_2d_color' \in Nat /\ i_point_3d' \in Nat
    BY <1>1 DEF TypeOK
  <2> QED
    BY <1>1, <1>10, <1>11, <2>1 DEF TypeOK, tables
<1>13. LoopInv'
  <2>1. j' = 2 * Iterations(frame') /\ frame' = frame
    BY <1>1 DEF LoopInv
  <2> QED
    BY <1>1, <1>7, <1>9, <2>1 DEF LoopInv
<1>14. LensInv'
  BY <1>1 DEF LensInv
<1> QED
  BY <1>8, <1>12, <1>13, <1>14

LEMMA FrameReadyInv ==
  ASSUME IInv, FrameReady
  PROVE  IInv'
<1> USE DEF IInv
<1>1. TypeOK'
  BY DEF FrameReady, TypeOK, tables
<1>2. LoopInv'
  BY DEF FrameReady, LoopInv
<1>3. LensInv'
  BY DEF FrameReady, LensInv
<1> QED
  BY <1>1, <1>2, <1>3

LEMMA StepInv ==
  ASSUME IInv, [Next]_vars
  PROVE  IInv' /\ (UNCHANGED vars \/ (SortInRange /\ ComputeInRange))
<1>1. CASE Constructor
  <2>1. phase \in {"lens", "colours"}
    BY <1>1 DEF Constructor, InitLensTransform, LensDone, AddColor, ColoursDone
  <2>2. SortInRange /\ ComputeInRange
    BY <2>1 DEF SortInRange, ComputeInRange
  <2> QED
    BY <1>1, <2>2, TablesInv
<1>2. CASE BeginSort
  <2>1. SortInRange /\ ComputeInRange
    BY <1>2 DEF BeginSort, SortInRange, ComputeInRange
  <2> QED
    BY <1>2, <2>1, BeginSortInv
<1>3. CASE SortPixel
  <2>1. ComputeInRange
    BY <1>3 DEF SortPixel, ComputeInRange
  <2> QED
    BY <1>3, <2>1, SortPixelInv
<1>4. CASE BeginCompute
  <2>1. SortInRange /\ ComputeInRange
    BY <1>4 DEF BeginCompute, SortInRange, ComputeInRange
  <2> QED
    BY <1>4, <2>1, BeginComputeInv
<1>5. CASE ComputePixel
  <2>1. SortInRange
    BY <1>5 DEF ComputePixel, SortInRange
  <2> QED
    BY <1>5, <2>1, ComputePixelInv
<1>6. CASE FrameReady
  <2>1. SortInRange /\ ComputeInRange
    BY <1>6 DEF FrameReady, SortInRange, ComputeInRange
  <2> QED
    BY <1>6, <2>1, FrameReadyInv
<1>7. CASE UNCHANGED vars
  <2>1. TypeOK'
    BY <1>7 DEF IInv, TypeOK, vars, tables, loop
  <2>2. LoopInv'
    BY <1>7 DEF IInv, LoopInv, SortedSoFar, Done, vars, tables, loop
  <2>3. LensInv'
    BY <1>7 DEF IInv, LensInv, vars, tables, loop
  <2> QED
    BY <1>7, <2>1, <2>2, <2>3 DEF IInv
<1> QED
  BY <1>1, <1>2, <1>3, <1>4, <1>5, <1>6, <1>7 DEF Next, Callback

-------------------------------------------------------------------------------
(* The theorems *)

LEMMA Invariant == Spec => []IInv
<1>1. Init => IInv
  BY InitInv
<1>2. IInv /\ [Next]_vars => IInv'
  BY StepInv
<1> QED
  BY <1>1, <1>2, PTL DEF Spec

(***************************************************************************)
(* Every variable has its type; the angle found is an entry of the table.  *)
(***************************************************************************)
THEOREM TypeCorrect == Spec => []TypeOK
<1>1. IInv => TypeOK
  BY DEF IInv
<1> QED
  BY <1>1, Invariant, PTL

(***************************************************************************)
(* The loops of sortData and computeFrame stay inside their arrays, for    *)
(* every frame that fits the sensor and the buffer.                        *)
(***************************************************************************)
THEOREM IndicesStayInRange == Spec => IndicesInRange
<1>1. IInv /\ [Next]_vars => [SortInRange /\ ComputeInRange]_vars
  BY StepInv
<1> QED
  BY <1>1, Invariant, PTL DEF Spec, IndicesInRange

(***************************************************************************)
(* A frame that computeFrame has finished is whole, whatever its type and  *)
(* size: every cell of its arrays was written.                             *)
(***************************************************************************)
THEOREM WholeFrames == Spec => []FramesAreWhole
<1>1. ASSUME IInv PROVE FramesAreWhole
  <2>1. ASSUME phase = "compute"
        PROVE  \A vector \in Sorted[frame.dataType] : j = Bytes(vector)
    BY <2>1, <1>1, VectorsOfType DEF IInv, LoopInv
  <2>2. ASSUME phase = "compute", y = frame.height
        PROVE  /\ x = 0 /\ l = Bytes("distData")
               /\ i_out_index = Points(frame)
               /\ i_2d_color = 3 * Points(frame)
               /\ i_point_3d = 8 * Points(frame)
    <3>1. x = 0 /\ i_out_index = Done /\ l = 2 * Done /\ i_2d_color = 3 * Done
          /\ i_point_3d = 8 * Done /\ frame \in Frames
      BY <2>2, <1>1 DEF IInv, LoopInv
    <3>2. frame.width \in Nat /\ frame.height \in Nat
      BY <3>1, FrameFields DEF Width, Height
    <3>3. Done = Points(frame)
      BY <2>2, <3>1, <3>2 DEF Done, Points
    <3>4. Bytes("distData") = 2 * Points(frame)
      BY DEF Bytes, VectorBytes, px_size
    <3> QED
      BY <3>1, <3>3, <3>4
  <2> QED
    BY <2>1, <2>2 DEF FramesAreWhole
<1> QED
  BY <1>1, Invariant, PTL

(***************************************************************************)
(* A pixel is black exactly if it has no depth, whatever the distances: no *)
(* valid distance is painted black.                                        *)
(***************************************************************************)
THEOREM PictureTellsDepth == Spec => []ColourTellsDepth
<1>1. ASSUME IInv PROVE ColourTellsDepth
  <2>1. CASE point = NoPoint
    <3>1. point.bgr = Black /\ point.depth = "NaN" /\ point.mask = 0
      BY <2>1 DEF NoPoint
    <3> QED
      BY <3>1 DEF ColourTellsDepth
  <2>2. CASE \E d \in Distances \cup {0} : point = Pixel(d)
    <3>1. PICK d \in Distances \cup {0} : point = Pixel(d)
      BY <2>2
    <3>2. d \in Nat
      BY DistanceType
    <3>3. Pixel(d).bgr = Black <=> Pixel(d).depth = "NaN"
      BY <3>2, PixelTells
    <3>4. Pixel(d).mask = 255 => Pixel(d).depth = "NaN"
      BY <3>2, PixelTells
    <3> QED
      BY <3>1, <3>3, <3>4 DEF ColourTellsDepth
  <2> QED
    BY <1>1, <2>1, <2>2 DEF IInv, TypeOK
<1> QED
  BY <1>1, Invariant, PTL

-------------------------------------------------------------------------------
(* The corners of the wide lens *)

LastRp == [WIDE_FIELD |-> 3980, STANDARD_FIELD |-> 4082, NARROW_FIELD |-> 3990]

LEMMA TableEnds ==
  ASSUME NEW type \in LensTypes
  PROVE  /\ Rp(type, 0) = 0
         /\ Rp(type, 100) = LastRp[type]
         /\ \A n \in 0..100 : Rp(type, n) \in Nat /\ Rp(type, n) <= LastRp[type]
<1>1. /\ RpWide[1] = 0 /\ RpWide[101] = 3980
      /\ \A n \in 1..101 : RpWide[n] \in Nat /\ RpWide[n] <= 3980
  BY DEF RpWide
<1>2. /\ RpStandard[1] = 0 /\ RpStandard[101] = 4082
      /\ \A n \in 1..101 : RpStandard[n] \in Nat /\ RpStandard[n] <= 4082
  BY DEF RpStandard
<1>3. /\ RpNarrow[1] = 0 /\ RpNarrow[101] = 3990
      /\ \A n \in 1..101 : RpNarrow[n] \in Nat /\ RpNarrow[n] <= 3990
  BY DEF RpNarrow
<1>4. \A n \in 0..100 : n + 1 \in 1..101
  OBVIOUS
<1>5. CASE type = "WIDE_FIELD"
  BY <1>1, <1>4, <1>5 DEF Rp, Tables, LastRp
<1>6. CASE type = "STANDARD_FIELD"
  BY <1>2, <1>4, <1>6 DEF Rp, Tables, LastRp
<1>7. CASE type = "NARROW_FIELD"
  BY <1>3, <1>4, <1>7 DEF Rp, Tables, LastRp
<1> QED
  BY <1>5, <1>6, <1>7 DEF LensTypes

LEMMA SquareGrows ==
  ASSUME NEW m \in Nat, NEW n \in Nat, m <= n
  PROVE  Square(m) \in Nat /\ Square(m) <= Square(n)
<1>1. m * m <= m * n /\ m * n <= n * n /\ m * m \in Nat /\ m * n \in Nat /\ n * n \in Nat
  OBVIOUS
<1> QED
  BY <1>1 DEF Square

LEMMA Smallest ==
  ASSUME NEW S \in SUBSET Nat, S # {}
  PROVE  \E m \in S : \A n \in S : m <= n
<1>1. IsWellFoundedOn(OpToRel(<, Nat), Nat)
  BY NatLessThanWellFounded
<1>2. PICK m \in S : \A n \in S : ~(<<n, m>> \in OpToRel(<, Nat))
  BY <1>1, WFMin
<1>3. \A n \in S : ~(n < m)
  BY <1>2 DEF OpToRel
<1> QED
  BY <1>3

\* getAngle finds an angle exactly for what the table reaches.
LEMMA AngleFound ==
  ASSUME NEW type \in LensTypes, NEW radius2 \in Nat
  PROVE  GetAngle(type, radius2) = 0 <=> radius2 > Square(LastRp[type])
<1> DEFINE hits == {n \in 1..distortionTableSize - 1 : Between(type, n, radius2)}
           reach == {n \in 1..100 : radius2 <= Square(Rp(type, n))}
<1>1. GetAngle(type, radius2) =
        IF hits = {} THEN 0 ELSE CHOOSE n \in hits : \A m \in hits : m <= n
  BY DEF GetAngle
<1>2. hits = {n \in 1..100 : Square(Rp(type, n - 1)) <= radius2 /\ radius2 <= Square(Rp(type, n))}
  BY DEF distortionTableSize, Between
<1>3. \A n \in 0..100 : Rp(type, n) \in Nat /\ Rp(type, n) <= LastRp[type]
  BY TableEnds
<1>4. LastRp[type] \in Nat
  BY DEF LastRp, LensTypes
<1>5. \A n \in 0..100 : Square(Rp(type, n)) \in Nat /\ Square(Rp(type, n)) <= Square(LastRp[type])
  BY <1>3, <1>4, SquareGrows
<1>6. Square(LastRp[type]) \in Nat
  BY <1>4, SquareGrows
<1> DEFINE last == Square(LastRp[type])
           sq(n) == Square(Rp(type, n))
<1>7. ASSUME radius2 > last
      PROVE  hits = {}
  <2>1. \A n \in 1..100 : n \in 0..100
    OBVIOUS
  <2> HIDE DEF last
  <2>2. \A n \in 1..100 : sq(n) \in Nat /\ sq(n) <= last
    BY <2>1, <1>5 DEF last
  <2> HIDE DEF sq
  <2>3. last \in Nat
    BY <1>6 DEF last
  <2>4. \A n \in 1..100 : ~(radius2 <= sq(n))
    BY <1>7, <2>2, <2>3
  <2> QED
    BY <1>2, <2>4 DEF sq
<1>8. ASSUME ~(radius2 > last)
      PROVE  hits # {}
  <2>1. 100 \in reach
    <3>1. Rp(type, 100) = LastRp[type]
      BY TableEnds
    <3>2. radius2 <= Square(LastRp[type])
      BY <1>6, <1>8
    <3> QED
      BY <3>1, <3>2
  <2>2. PICK n \in reach : \A m \in reach : n <= m
    <3>1. reach \in SUBSET Nat /\ reach # {}
      BY <2>1
    <3> QED
      BY <3>1, Smallest
  <2>3. n \in 1..100 /\ radius2 <= Square(Rp(type, n))
    OBVIOUS
  <2>4. Square(Rp(type, n - 1)) <= radius2
    <3>1. CASE n = 1
      <4>1. Rp(type, n - 1) = 0
        BY <3>1, TableEnds
      <4> QED
        BY <4>1 DEF Square
    <3>2. CASE n # 1
      <4>1. n - 1 \in 1..100 /\ n - 1 \in 0..100
        BY <2>3, <3>2
      <4>2. n - 1 \notin reach
        BY <2>2, <2>3, <4>1
      <4>3. ~(radius2 <= Square(Rp(type, n - 1)))
        BY <4>1, <4>2
      <4>4. PICK s \in Nat : s = Square(Rp(type, n - 1))
        BY <4>1, <1>5
      <4> QED
        BY <4>3, <4>4
    <3> QED
      BY <3>1, <3>2
  <2> QED
    BY <1>2, <2>3, <2>4
<1>9. hits # {} => GetAngle(type, radius2) # 0
  <2>1. hits \in SUBSET (1..100)
    BY <1>2
  <2> HIDE DEF hits
  <2>2. SUFFICES ASSUME hits # {} PROVE GetAngle(type, radius2) # 0
    OBVIOUS
  <2>3. \E n \in hits : \A m \in hits : m <= n
    BY <2>1, <2>2, Largest
  <2>4. GetAngle(type, radius2) \in hits
    BY <2>2, <2>3, <1>1
  <2> QED
    BY <2>1, <2>4
<1>10. hits = {} => GetAngle(type, radius2) = 0
  BY <1>1
<1> QED
  BY <1>7, <1>8, <1>9, <1>10

LEMMA SquareBound ==
  ASSUME NEW m \in Nat, NEW n \in Int, -m <= n, n <= m
  PROVE  Square(n) \in Nat /\ Square(n) <= Square(m)
<1>1. CASE n >= 0
  BY <1>1, SquareGrows
<1>2. CASE n < 0
  <2>1. -n \in Nat /\ -n <= m
    BY <1>2
  <2>2. Square(-n) = Square(n)
    BY DEF Square
  <2>3. Square(-n) \in Nat /\ Square(-n) <= Square(m)
    BY <2>1, SquareGrows
  <2> QED
    BY <2>2, <2>3
<1> QED
  BY <1>1, <1>2

\* In half pixels from the axis, 317 and 237 if the pixel is on neither edge.
HalfPixelsOf(a, b, u, v) ==
  /\ RadiusSquared(a, b, 0, 0) = 100 * (u + v)
  /\ IF a \in {0, Width - 1} THEN u = Square(319) ELSE u <= Square(317)
  /\ IF b \in {0, Height - 1} THEN v = Square(239) ELSE v <= Square(237)

LEMMA HalfPixels ==
  ASSUME NEW a \in 0..Width - 1, NEW b \in 0..Height - 1
  PROVE  \E u, v \in Nat : HalfPixelsOf(a, b, u, v)
<1> DEFINE u == Square(2 * a - 319)
           v == Square(2 * b - 239)
<1>1. a \in Int /\ b \in Int /\ 0 <= a /\ a <= 319 /\ 0 <= b /\ b <= 239
  BY DEF Width, Height
<1>2. 2 * FromAxis(a, Width, 0) - 1 = 2 * a - 319 /\ 2 * FromAxis(b, Height, 0) - 1 = 2 * b - 239
  BY <1>1 DEF FromAxis, Width, Height
<1>3. RadiusSquared(a, b, 0, 0) = 100 * (u + v)
  BY <1>2 DEF RadiusSquared
<1>4. u \in Nat /\ IF a \in {0, 319} THEN u = Square(319) ELSE u <= Square(317)
  <2>1. CASE a \in {0, 319}
    BY <2>1 DEF Square
  <2>2. CASE a \notin {0, 319}
    <3>1. 2 * a - 319 \in Int /\ -317 <= 2 * a - 319 /\ 2 * a - 319 <= 317
      BY <1>1, <2>2
    <3>3. u \in Nat /\ u <= Square(317)
      BY <3>1, SquareBound
    <3> QED
      BY <2>2, <3>3
  <2> QED
    BY <2>1, <2>2
<1>5. v \in Nat /\ IF b \in {0, 239} THEN v = Square(239) ELSE v <= Square(237)
  <2>1. CASE b \in {0, 239}
    BY <2>1 DEF Square
  <2>2. CASE b \notin {0, 239}
    <3>1. 2 * b - 239 \in Int /\ -237 <= 2 * b - 239 /\ 2 * b - 239 <= 237
      BY <1>1, <2>2
    <3>3. v \in Nat /\ v <= Square(237)
      BY <3>1, SquareBound
    <3> QED
      BY <2>2, <3>3
  <2> QED
    BY <2>1, <2>2
<1>6. Width - 1 = 319 /\ Height - 1 = 239
  BY DEF Width, Height
<1> HIDE DEF u, v
<1> QED
  BY <1>3, <1>4, <1>5, <1>6 DEF HalfPixelsOf

(***************************************************************************)
(* Of all pixels of the sensor only the four corners of the wide lens look *)
(* past the end of the table of their lens.                                *)
(***************************************************************************)
THEOREM OnlyWideCornersAreOff == Spec => OffTableOnlyWideCorners
<1>1. ASSUME IInv, Next, Looking
      PROVE  angle' = 0 <=> lens = "WIDE_FIELD" /\ <<x, y>> \in Corner
  <2>1. /\ angle' = GetAngle(lens, RadiusSquared(x, y, 0, 0)) /\ lens \in LensTypes
        /\ x \in 0..Width - 1 /\ y \in 0..Height - 1
    <3>1. y # Height
      BY <1>1 DEF Looking, IInv, TypeOK, Height
    <3>2. InitLensTransform
      BY <1>1, <3>1 DEF Next, Constructor, Callback, InitLensTransform, LensDone, AddColor, ColoursDone,
                  BeginSort, SortPixel, BeginCompute, ComputePixel, FrameReady, Looking
    <3> QED
      BY <1>1, <3>2 DEF InitLensTransform, IInv, TypeOK, LensInv, Height
  <2>2. PICK u, v \in Nat : HalfPixelsOf(x, y, u, v)
    BY <2>1, HalfPixels
  <2>3. angle' = 0 <=> 100 * (u + v) > Square(LastRp[lens])
    BY <2>1, <2>2, AngleFound DEF HalfPixelsOf
  <2>4. <<x, y>> \in Corner <=> x \in {0, Width - 1} /\ y \in {0, Height - 1}
    BY DEF Corner
  <2>5. Square(319) = 101761 /\ Square(317) = 100489 /\ Square(239) = 57121 /\ Square(237) = 56169
    BY DEF Square
  <2>6. CASE lens = "WIDE_FIELD"
    <3>1. Square(LastRp[lens]) = 15840400
      BY <2>6 DEF LastRp, Square
    <3>2. 100 * (u + v) > 15840400 <=> x \in {0, Width - 1} /\ y \in {0, Height - 1}
      BY <2>2, <2>5 DEF HalfPixelsOf
    <3> QED
      BY <2>3, <2>4, <2>6, <3>1, <3>2
  <2>7. CASE lens # "WIDE_FIELD"
    <3>1. Square(LastRp[lens]) >= 15920100
      BY <2>1, <2>7 DEF LastRp, Square, LensTypes
    <3>2. 100 * (u + v) <= 15888200
      BY <2>2, <2>5 DEF HalfPixelsOf
    <3>3. Square(LastRp[lens]) \in Nat
      BY <2>1, <2>7 DEF LastRp, Square, LensTypes
    <3> QED
      BY <2>3, <2>7, <3>1, <3>2, <3>3
  <2> QED
    BY <2>6, <2>7
<1>2. ASSUME IInv, [Next]_vars
      PROVE  [Looking => (angle' = 0 <=> lens = "WIDE_FIELD" /\ <<x, y>> \in Corner)]_vars
  BY <1>1, <1>2
<1> QED
  BY <1>2, Invariant, PTL DEF Spec, OffTableOnlyWideCorners
-------------------------------------------------------------------------------
(* The colour map has no seams *)

\* The widths of the ramps of the three channels.
Widths == {15000, 22500, 30000}

Up(u, w) == (255 * u) \div w

\* Eight steps further a ramp is one higher at most; it begins at 0 and ends at
\* 254, one below the plateau.
LEMMA Ramp ==
  ASSUME NEW w \in Widths, NEW u \in Nat
  PROVE  /\ Up(u, w) \in Int /\ Up(u + 8, w) \in Int
         /\ Up(u + 8, w) - Up(u, w) \in {0, 1}
         /\ u <= 8 => Up(u, w) = 0
         /\ w - 8 <= u /\ u < w => Up(u, w) = 254
         /\ u = w => Up(u, w) = 255
<1>1. CASE w = 15000
  BY <1>1 DEF Up
<1>2. CASE w = 22500
  BY <1>2 DEF Up
<1>3. CASE w = 30000
  BY <1>3 DEF Up
<1> QED
  BY <1>1, <1>2, <1>3 DEF Widths

Moves(p, x0, x1, x2, x3) ==
  LET a == Channel(p, x0, x1, x2, x3)
      b == Channel(p + 8, x0, x1, x2, x3)
  IN  a \in Int /\ b \in Int /\ b - a \in {-1, 0, 1}

\* The next colour is nearly the same in a channel, wherever its corners are.
LEMMA ChannelMoves ==
  ASSUME NEW p \in Int, NEW x0 \in Int, NEW x1 \in Int, NEW x2 \in Int, NEW x3 \in Int,
         x1 - x0 \in Widths, x3 - x2 \in Widths, x1 + 8 < x2
  PROVE  Moves(p, x0, x1, x2, x3)
<1> DEFINE C(q) == Channel(q, x0, x1, x2, x3)
<1>w. /\ x1 - x0 \in Int /\ x1 - x0 > 8 /\ x3 - x2 \in Int /\ x3 - x2 > 8
      /\ x0 + 8 < x1 /\ x2 + 8 < x3 /\ p + 8 \in Int
  BY DEF Widths
<1>1. \A q \in Int : x0 <= q /\ q < x1 => C(q) = Up(q - x0, x1 - x0)
  BY RisingRamp DEF Up
<1>2. \A q \in Int : x1 <= q /\ q < x2 => C(q) = 255
  BY DEF Channel
<1>3. \A q \in Int : x2 <= q /\ q < x3 => C(q) = Up(x3 - q, x3 - x2)
  BY <1>w, FallingRamp DEF Up
<1>4. \A q \in Int : q < x0 \/ x3 <= q => C(q) = 0
  BY <1>w DEF Channel
<1> HIDE DEF C
<1>5. CASE p + 8 < x0 \/ x3 <= p
  <2>1. C(p) = 0 /\ C(p + 8) = 0
    BY <1>5, <1>4, <1>w
  <2> QED
    BY <2>1 DEF C, Moves
<1>6. CASE p < x0 /\ x0 <= p + 8
  <2> DEFINE u == p + 8 - x0
  <2>1. u \in Nat /\ u <= 8 /\ p + 8 < x1
    BY <1>6, <1>w
  <2>2. C(p + 8) = Up(u, x1 - x0)
    BY <2>1, <1>1, <1>6, <1>w
  <2> HIDE DEF u
  <2>3. C(p + 8) = 0
    BY <2>1, <2>2, Ramp
  <2> QED
    BY <2>3, <1>4, <1>6 DEF C, Moves
<1>7. CASE x0 <= p /\ p + 8 < x1
  <2> DEFINE u == p - x0
             w == x1 - x0
  <2>1. u \in Nat /\ u + 8 = p + 8 - x0 /\ w \in Widths
    BY <1>7
  <2>2. C(p) = Up(u, w) /\ C(p + 8) = Up(u + 8, w)
    BY <2>1, <1>1, <1>7, <1>w
  <2> HIDE DEF u, w
  <2>3. C(p) \in Int /\ C(p + 8) \in Int /\ C(p + 8) - C(p) \in {0, 1}
    BY <2>1, <2>2, Ramp
  <2> QED
    BY <2>3 DEF C, Moves
<1>8. CASE x0 <= p /\ p < x1 /\ x1 <= p + 8
  <2> DEFINE u == p - x0
             w == x1 - x0
  <2>1. u \in Nat /\ w - 8 <= u /\ u < w /\ w \in Widths
    BY <1>8
  <2>2. C(p) = Up(u, w) /\ C(p + 8) = 255
    BY <1>1, <1>2, <1>8, <1>w
  <2> HIDE DEF u, w
  <2>3. C(p) = 254
    BY <2>1, <2>2, Ramp
  <2> QED
    BY <2>2, <2>3 DEF C, Moves
<1>9. CASE x1 <= p /\ p + 8 < x2
  <2>1. C(p) = 255 /\ C(p + 8) = 255
    BY <1>2, <1>9, <1>w
  <2> QED
    BY <2>1 DEF C, Moves
<1>10. CASE x1 <= p /\ p < x2 /\ x2 <= p + 8
  <2> DEFINE u == x3 - (p + 8)
             w == x3 - x2
  <2>1. u \in Nat /\ w - 8 <= u /\ u <= w /\ w \in Widths
    BY <1>10, <1>w
  <2>2. C(p) = 255 /\ C(p + 8) = Up(u, w)
    BY <1>2, <1>3, <1>10, <1>w
  <2> HIDE DEF u, w
  <2>3. C(p + 8) \in {254, 255}
    <3>1. w \in Int
      BY <2>1 DEF Widths
    <3>2. u = w \/ u < w
      BY <2>1, <3>1
    <3> QED
      BY <2>1, <2>2, <3>2, Ramp
  <2> QED
    BY <2>2, <2>3 DEF C, Moves
<1>11. CASE x2 <= p /\ p + 8 < x3
  <2> DEFINE u == x3 - (p + 8)
             w == x3 - x2
  <2>1. u \in Nat /\ u + 8 = x3 - p /\ w \in Widths
    BY <1>11, <1>w
  <2>2. C(p) = Up(u + 8, w) /\ C(p + 8) = Up(u, w)
    BY <2>1, <1>3, <1>11, <1>w
  <2> HIDE DEF u, w
  <2>3. C(p + 8) \in Int /\ C(p) - C(p + 8) \in {0, 1}
    BY <2>1, <2>2, Ramp
  <2>4. C(p) \in Int
    BY <2>1, <2>2, Ramp
  <2>5. C(p + 8) - C(p) \in {-1, 0, 1}
    BY <2>3, <2>4
  <2> QED
    BY <2>3, <2>4, <2>5 DEF C, Moves
<1>12. CASE x2 <= p /\ p < x3 /\ x3 <= p + 8
  <2> DEFINE u == x3 - p
  <2>1. u \in Nat /\ u <= 8
    BY <1>12
  <2>2. C(p) = Up(u, x3 - x2) /\ C(p + 8) = 0
    BY <1>3, <1>4, <1>12, <1>w
  <2> HIDE DEF u
  <2>3. C(p) = 0
    BY <2>1, <2>2, Ramp
  <2> QED
    BY <2>2, <2>3 DEF C, Moves
<1>13. p < x0 \/ (x0 <= p /\ p < x1) \/ (x1 <= p /\ p < x2) \/ (x2 <= p /\ p < x3) \/ x3 <= p
  BY <1>w
<1>14. \A q \in {x0, x1, x2, x3} : p + 8 < q \/ q <= p + 8
  BY <1>w
<1> QED
  BY <1>5, <1>6, <1>7, <1>8, <1>9, <1>10, <1>11, <1>12, <1>13, <1>14

Alike(c, d) == Near(c.r, d.r) /\ Near(c.g, d.g) /\ Near(c.b, d.b)

\* Neighbours on the map are alike, seen from either side, and so is a colour
\* to itself.
LEMMA NeighboursAlike ==
  ASSUME NEW n \in Nat
  PROVE  /\ Alike(CreateColorMap(n), CreateColorMap(n + 1))
         /\ Alike(CreateColorMap(n + 1), CreateColorMap(n))
         /\ Alike(CreateColorMap(n), CreateColorMap(n))
<1> DEFINE p == Position(n)
<1>1. p \in Int /\ Position(n + 1) = p + 8
  BY DEF Position, NUM_COLORS
<1>2. /\ Eighths(-3) = -22500 /\ Eighths(-1) = -7500 /\ Eighths(1) = 7500
      /\ Eighths(3) = 22500 /\ Eighths(5) = 37500 /\ Eighths(6) = 45000
      /\ Eighths(9) = 67500
  BY DEF Eighths, NUM_COLORS
<1> DEFINE red(q) == Channel(q, 7500, 22500, 37500, 67500)
           green(q) == Channel(q, -7500, 7500, 22500, 45000)
           blue(q) == Channel(q, -22500, -7500, 7500, 22500)
<1>3. /\ CreateColorMap(n) = [r |-> red(p), g |-> green(p), b |-> blue(p)]
      /\ CreateColorMap(n + 1) = [r |-> red(p + 8), g |-> green(p + 8), b |-> blue(p + 8)]
  BY <1>1, <1>2 DEF CreateColorMap, Color
<1> HIDE DEF p
<1>4. red(p) \in Int /\ red(p + 8) \in Int /\ red(p + 8) - red(p) \in {-1, 0, 1}
  <2>1. 22500 - 7500 \in Widths /\ 67500 - 37500 \in Widths /\ 22500 + 8 < 37500
    BY DEF Widths
  <2>2. 7500 \in Int /\ 22500 \in Int /\ 37500 \in Int /\ 67500 \in Int
    OBVIOUS
  <2>3. Moves(p, 7500, 22500, 37500, 67500)
    BY <2>1, <2>2, <1>1, ChannelMoves
  <2> QED
    BY <2>3 DEF Moves
<1>5. green(p) \in Int /\ green(p + 8) \in Int /\ green(p + 8) - green(p) \in {-1, 0, 1}
  <2>1. 7500 - (-7500) \in Widths /\ 45000 - 22500 \in Widths /\ 7500 + 8 < 22500
    BY DEF Widths
  <2>2. -7500 \in Int /\ 7500 \in Int /\ 22500 \in Int /\ 45000 \in Int
    OBVIOUS
  <2>3. Moves(p, -7500, 7500, 22500, 45000)
    BY <2>1, <2>2, <1>1, ChannelMoves
  <2> QED
    BY <2>3 DEF Moves
<1>6. blue(p) \in Int /\ blue(p + 8) \in Int /\ blue(p + 8) - blue(p) \in {-1, 0, 1}
  <2>1. -7500 - (-22500) \in Widths /\ 22500 - 7500 \in Widths /\ -7500 + 8 < 7500
    BY DEF Widths
  <2>2. -22500 \in Int /\ -7500 \in Int /\ 7500 \in Int /\ 22500 \in Int
    OBVIOUS
  <2>3. Moves(p, -22500, -7500, 7500, 22500)
    BY <2>1, <2>2, <1>1, ChannelMoves
  <2> QED
    BY <2>3 DEF Moves
<1> HIDE DEF red, green, blue
<1>7. \A a, b \in Int : b - a \in {-1, 0, 1} => Near(a, b) /\ Near(b, a) /\ Near(a, a)
  BY DEF Near
<1> QED
  BY <1>3, <1>4, <1>5, <1>6, <1>7 DEF Alike

\* The colour that was added last is the one of its place.
ColourInv == colours.size > 0 => colours.last = CreateColorMap(colours.size - 1)

LEMMA SizeType ==
  ASSUME TypeOK PROVE colours.size \in Nat
<1>1. colours.size \in 0..NUM_COLORS
  BY DEF TypeOK
<1>2. 0..NUM_COLORS \subseteq Nat
  BY DEF NUM_COLORS
<1> QED
  BY <1>1, <1>2

LEMMA ColourInvStep ==
  ASSUME TypeOK, ColourInv, [Next]_vars PROVE ColourInv'
<1>1. CASE AddColor
  <2>1. PICK n \in Nat : n = colours.size
    BY SizeType
  <2>2. colours'.size = n + 1 /\ colours'.last = CreateColorMap(n)
    BY <1>1, <2>1 DEF AddColor
  <2>3. colours'.size - 1 = n
    BY <2>2
  <2> QED
    BY <2>2, <2>3 DEF ColourInv
<1>2. CASE UNCHANGED colours
  BY <1>2 DEF ColourInv
<1>3. AddColor \/ UNCHANGED colours
  BY DEF Next, Constructor, Callback, InitLensTransform, LensDone, ColoursDone, BeginSort,
         SortPixel, BeginCompute, ComputePixel, FrameReady, vars, tables
<1> QED
  BY <1>1, <1>2, <1>3

(***************************************************************************)
(* The colour map that the constructor makes changes by one at most in     *)
(* every channel from each colour to the next.                             *)
(***************************************************************************)
THEOREM MapHasNoSeams == Spec => NoSeams
<1> DEFINE Smooth == AddColor /\ colours.size > 0 =>
                       /\ Near(colours.last.r, colours'.last.r)
                       /\ Near(colours.last.g, colours'.last.g)
                       /\ Near(colours.last.b, colours'.last.b)
<1>1. Init => ColourInv
  BY DEF Init, ColourInv
<1>2. ASSUME IInv, ColourInv, AddColor, colours.size > 0
      PROVE  Alike(colours.last, colours'.last)
  <2>1. PICK n \in Nat : n + 1 = colours.size
    <3>1. PICK m \in Nat : m = colours.size
      BY <1>2, SizeType DEF IInv
    <3>2. m - 1 \in Nat /\ (m - 1) + 1 = m
      BY <3>1, <1>2
    <3> QED
      BY <3>1, <3>2
  <2>2. colours.size - 1 = n
    BY <2>1
  <2>3. colours.last = CreateColorMap(n)
    BY <2>2, <1>2 DEF ColourInv
  <2>4. colours'.last = CreateColorMap(n + 1)
    BY <2>1, <1>2 DEF AddColor
  <2> QED
    BY <2>3, <2>4, NeighboursAlike
<1>3. ASSUME IInv, ColourInv, [Next]_vars PROVE [Smooth]_vars
  <2>1. ASSUME AddColor, colours.size > 0
        PROVE  /\ Near(colours.last.r, colours'.last.r)
               /\ Near(colours.last.g, colours'.last.g)
               /\ Near(colours.last.b, colours'.last.b)
    BY <2>1, <1>2, <1>3 DEF Alike
  <2> QED
    BY <2>1
<1>4. ASSUME IInv, ColourInv, [Next]_vars PROVE ColourInv'
  BY <1>4, ColourInvStep DEF IInv
<1> QED
  BY <1>1, <1>3, <1>4, Invariant, PTL DEF Spec, NoSeams

LEMMA IndexOfCut ==
  ASSUME NEW v \in Nat, Cut(v) \in 0..7499
  PROVE  ColorIndex(v) = 7499 - Cut(v)
<1>1. PICK c \in 0..7499 : c = Cut(v)
  OBVIOUS
<1>2. ColorIndex(v) = IF c < NUM_COLORS THEN NUM_COLORS - c - 1 ELSE 0
  BY <1>1, SMTT(60) DEF ColorIndex
<1>3. c \in Int /\ c < 7500
  OBVIOUS
<1>4. ColorIndex(v) = 7499 - c
  BY <1>2, <1>3 DEF NUM_COLORS
<1> QED
  BY <1>1, <1>4

\* A millimetre more or less changes the colour of a surface by one at most in
\* every channel: getColor takes neighbouring distances to the same colour of
\* the map or to neighbours.
THEOREM SurfacesAreSmooth ==
  ASSUME NEW d \in Nat, d > 0, InRange(d + 1)
  PROVE  Alike(GetColor(d), GetColor(d + 1))
<1>1. d + 1 <= 20000 /\ d <= 20000
  BY DEF InRange, begin, end
<1>2. InRange(d)
  BY <1>1 DEF InRange, begin, end
<1>3. /\ GetColor(d) = CreateColorMap(ColorIndex(d))
      /\ GetColor(d + 1) = CreateColorMap(ColorIndex(d + 1))
  <2>1. \A v \in Nat : v > 0 /\ v <= 20000 /\ InRange(v) => GetColor(v) = CreateColorMap(ColorIndex(v))
    BY DEF GetColor, LOW_AMPLITUDE, ADC_OVERFLOW, SATURATION, INTERFERENCE, EDGE_DETECTED,
           PIXEL_CODE_OFFSET
  <2> QED
    BY <2>1, <1>1, <1>2
<1>4. Cut(d) \in 0..7499 /\ Cut(d + 1) \in 0..7499 /\ Cut(d + 1) - Cut(d) \in {0, 1}
  BY <1>1 DEF Cut
<1>5. PICK a \in 0..7499 : a = Cut(d)
  BY <1>4
<1>6. PICK b \in 0..7499 : b = Cut(d + 1)
  BY <1>4
<1>7. PICK n \in Nat : ColorIndex(d + 1) = n /\ (ColorIndex(d) = n \/ ColorIndex(d) = n + 1)
  <2>1. b - a \in {0, 1}
    BY <1>4, <1>5, <1>6
  <2>2. d + 1 \in Nat
    OBVIOUS
  <2>3. ColorIndex(d) = 7499 - a /\ ColorIndex(d + 1) = 7499 - b
    <3>1. ColorIndex(d) = 7499 - Cut(d)
      BY <1>4, IndexOfCut
    <3>2. ColorIndex(d + 1) = 7499 - Cut(d + 1)
      BY <2>2, <1>4, IndexOfCut
    <3> QED
      BY <3>1, <3>2, <1>5, <1>6
  <2>4. 7499 - b \in Nat /\ (7499 - a = 7499 - b \/ 7499 - a = (7499 - b) + 1)
    BY <2>1
  <2> QED
    BY <2>3, <2>4
<1>8. CASE ColorIndex(d) = n + 1
  BY <1>3, <1>7, <1>8, NeighboursAlike
<1>9. CASE ColorIndex(d) = n
  BY <1>3, <1>7, <1>9, NeighboursAlike
<1> QED
  BY <1>7, <1>8, <1>9
===============================================================================
