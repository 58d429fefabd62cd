--------------------------- MODULE FrameComputation ---------------------------
(***************************************************************************)
(* From the bytes of a frame to its points: the tables that the            *)
(* constructor of ToF320 makes (initLensTransform and the colour map), and *)
(* the two loops that run on the io thread when a frame is complete,       *)
(* Frame::sortData (driver/src/frame.cpp) and ToF320::computeFrame         *)
(* (driver/src/tof320.cpp).  An iteration of a loop is a step; the indices *)
(* are those of the code, the arrays are left out but for what the last    *)
(* iteration wrote.                                                        *)
(***************************************************************************)
EXTENDS CartesianTransform, ImageColorizer, FrameTypes

CONSTANTS
  Frames,     \* headers of the frames that arrive
  Distances   \* values of a pixel of distData

\* ToF320::data
BufferSize == 25 + Width * Height * 4 * 2

\* The camera keeps its frames inside the sensor, and the bytes of their type
\* inside the buffer: nothing in the code tests it.
ASSUME FramesFit ==
  Frames \subseteq {f \in [dataType : DataType, width : 1..Width, height : 1..Height,
                           payloadHeaderOffset : Nat] :
    f.payloadHeaderOffset + f.width * f.height * PixelBytes[f.dataType] <= BufferSize}
UINT16_MAX == 65535
ASSUME DistancesAre16Bit == Distances \subseteq 0..UINT16_MAX

VARIABLES
  phase,    \* "lens", "colours", "idle", "sort", "compute"
  lens,     \* lensType
  x, y,     \* pixel of initLensTransform and of computeFrame
  angle,    \* the entry that getAngle found last
  colours,  \* length of colorVector and the colour added last
  frame,    \* currentFrame
  i, j,     \* sortData: indices of data and of the vectors
  l, i_out_index, i_2d_color, i_point_3d,  \* computeFrame
  point     \* what computeFrame wrote last

tables == <<lens, angle, colours>>
loop == <<x, y, l, i_out_index, i_2d_color, i_point_3d>>
vars == <<phase, tables, loop, frame, i, j, point>>

NoPoint == [distance |-> 0, depth |-> "NaN", mask |-> 0, bgr |-> Black]
NoFrame == [dataType |-> "GRAYSCALE", width |-> 1, height |-> 1, payloadHeaderOffset |-> 0]

Init ==
  /\ phase = "lens" /\ lens \in LensTypes /\ angle = 0
  /\ colours = [size |-> 0, last |-> CreateColorMap(0)]
  /\ frame = NoFrame
  /\ i = 0 /\ j = 0
  /\ x = 0 /\ y = 0 /\ l = 0 /\ i_out_index = 0 /\ i_2d_color = 0 /\ i_point_3d = 0
  /\ point = NoPoint

-------------------------------------------------------------------------------
(* The tables of the constructor *)

NextPixel(width) ==
  IF x + 1 < width THEN x' = x + 1 /\ y' = y ELSE x' = 0 /\ y' = y + 1

\* Neither offset is ever set to anything but 0 by a program of the repository.
InitLensTransform ==
  /\ phase = "lens" /\ y < Height
  /\ angle' = GetAngle(lens, RadiusSquared(x, y, 0, 0))
  /\ NextPixel(Width)
  /\ UNCHANGED <<phase, lens, colours, frame, i, j, l, i_out_index, i_2d_color, i_point_3d, point>>

LensDone ==
  /\ phase = "lens" /\ y = Height
  /\ phase' = "colours"
  /\ x' = 0 /\ y' = 0
  /\ UNCHANGED <<tables, frame, i, j, l, i_out_index, i_2d_color, i_point_3d, point>>

\* Faulty variant of AddColor: one colour too many.
AddColorToo ==
  /\ phase = "colours" /\ colours.size <= NUM_COLORS
  /\ colours' = [size |-> colours.size + 1, last |-> CreateColorMap(colours.size)]
  /\ UNCHANGED <<phase, lens, angle, loop, frame, i, j, point>>

AddColor ==
  /\ phase = "colours" /\ colours.size < NUM_COLORS
  /\ colours' = [size |-> colours.size + 1, last |-> CreateColorMap(colours.size)]
  /\ UNCHANGED <<phase, lens, angle, loop, frame, i, j, point>>

ColoursDone ==
  /\ phase = "colours" /\ colours.size = NUM_COLORS
  /\ phase' = "idle"
  /\ UNCHANGED <<tables, loop, frame, i, j, point>>

-------------------------------------------------------------------------------
(* The io thread *)

Points(f) == f.width * f.height
ReadEnd(f) == f.payloadHeaderOffset + Points(f) * PixelBytes[f.dataType]

BeginSort ==
  /\ phase = "idle"
  /\ frame' \in Frames
  /\ phase' = "sort"
  /\ i' = frame'.payloadHeaderOffset /\ j' = 0
  /\ UNCHANGED <<tables, loop, point>>

\* Faulty variant of SortPixel: one iteration too many.
SortPixelToo ==
  /\ phase = "sort" /\ i <= ReadEnd(frame)
  /\ i' = i + Stride(frame.dataType) /\ j' = j + 2
  /\ UNCHANGED <<phase, tables, loop, frame, point>>

SortPixel ==
  /\ phase = "sort" /\ i < ReadEnd(frame)
  /\ i' = i + Stride(frame.dataType) /\ j' = j + 2
  /\ UNCHANGED <<phase, tables, loop, frame, point>>

BeginCompute ==
  /\ phase = "sort" /\ i >= ReadEnd(frame)
  /\ phase' = "compute"
  /\ UNCHANGED <<tables, loop, frame, i, j, point>>

Valid(distance) == distance > 0 /\ distance < LOW_AMPLITUDE

\* Faulty variant of Pixel: a point without depth keeps its colour.
PixelKeepsColor(distance) ==
  [distance |-> distance,
   depth |-> IF Valid(distance) THEN "Z" ELSE "NaN",
   mask |-> IF distance \in {ADC_OVERFLOW, SATURATION} THEN 255 ELSE 0,
   bgr |-> GetColor(distance)]

\* What one pixel becomes: data_depth (with data_3d_xyz_rgb), saturated_mask and
\* data_2d_bgr.
Pixel(distance) ==
  [distance |-> distance,
   depth |-> IF Valid(distance) THEN "Z" ELSE "NaN",
   mask |-> IF distance \in {ADC_OVERFLOW, SATURATION} THEN 255 ELSE 0,
   bgr |-> IF Valid(distance) THEN GetColor(distance) ELSE Black]

\* distData stays zero for a type that does not bring it.
DistancesOf(t) == IF "distData" \in Sorted[t] THEN Distances ELSE {0}

ComputePixel ==
  /\ phase = "compute" /\ y < frame.height
  /\ \E distance \in DistancesOf(frame.dataType) : point' = Pixel(distance)
  /\ l' = l + 2 /\ i_out_index' = i_out_index + 1
  /\ i_2d_color' = i_2d_color + 3 /\ i_point_3d' = i_point_3d + 8
  /\ NextPixel(frame.width)
  /\ UNCHANGED <<phase, tables, frame, i, j>>

FrameReady ==
  /\ phase = "compute" /\ y = frame.height
  /\ phase' = "idle"
  /\ frame' = NoFrame /\ point' = NoPoint
  /\ i' = 0 /\ j' = 0
  /\ x' = 0 /\ y' = 0 /\ l' = 0 /\ i_out_index' = 0 /\ i_2d_color' = 0 /\ i_point_3d' = 0
  /\ UNCHANGED tables

Constructor == InitLensTransform \/ LensDone \/ AddColor \/ ColoursDone

Callback == BeginSort \/ SortPixel \/ BeginCompute \/ ComputePixel \/ FrameReady

Next == Constructor \/ Callback

Spec == Init /\ [][Next]_vars

-------------------------------------------------------------------------------
TypeOK ==
  /\ phase \in {"lens", "colours", "idle", "sort", "compute"}
  /\ lens \in LensTypes /\ angle \in 0..distortionTableSize - 1
  /\ colours.size \in 0..NUM_COLORS
  /\ frame \in Frames \cup {NoFrame}
  /\ {x, y, i, j, l, i_out_index, i_2d_color, i_point_3d} \subseteq Nat
  /\ point = NoPoint \/ \E d \in Distances \cup {0} : point = Pixel(d)

\* The bytes of a vector of the frame.
Bytes(vector) == VectorBytes[vector] * Points(frame)

(***************************************************************************)
(* For every frame that fits the sensor and the buffer, each iteration of  *)
(* the two loops reads and writes inside the arrays: sortData inside data  *)
(* and the vectors of its type, computeFrame inside these, the arrays of   *)
(* the Frame and the tables of the lens.                                   *)
(***************************************************************************)
SortInRange ==
  phase = "sort" /\ phase' = "sort" =>
    /\ i + Stride(frame.dataType) <= BufferSize
    /\ \A vector \in Sorted[frame.dataType] : j + 2 <= Bytes(vector)

ComputeInRange ==
  phase = "compute" /\ phase' = "compute" =>
    /\ x < Width /\ y < Height
    /\ l + 2 <= Bytes("distData") /\ l + 2 <= Bytes("amplData")
    /\ i_out_index + 1 <= Points(frame)
    /\ i_2d_color + 3 <= 3 * Points(frame)
    /\ i_point_3d + 8 <= 8 * Points(frame)

IndicesInRange == [][SortInRange /\ ComputeInRange]_vars

(***************************************************************************)
(* A frame that is handed on is whole: every cell of its arrays was        *)
(* written, and every byte of the vectors that its type brings.            *)
(***************************************************************************)
FramesAreWhole ==
  /\ phase = "compute" =>
       \A vector \in Sorted[frame.dataType] : j = Bytes(vector)
  /\ phase = "compute" /\ y = frame.height =>
       /\ x = 0 /\ l = Bytes("distData")
       /\ i_out_index = Points(frame)
       /\ i_2d_color = 3 * Points(frame)
       /\ i_point_3d = 8 * Points(frame)

(***************************************************************************)
(* The picture tells where the cloud has points: a pixel is black exactly  *)
(* if it has no depth, no distance that is valid is painted black, and a   *)
(* saturated pixel has no depth.                                           *)
(***************************************************************************)
ColourTellsDepth ==
  /\ point.bgr = Black <=> point.depth = "NaN"
  /\ point.mask = 255 => point.depth = "NaN"

(***************************************************************************)
(* Neighbours on the colour map differ by one at most in every channel:    *)
(* a smooth surface has no seams.                                          *)
(***************************************************************************)
Near(a, b) == a - b \in {-1, 0, 1}

NoSeams ==
  [][AddColor /\ colours.size > 0 =>
       /\ Near(colours.last.r, colours'.last.r)
       /\ Near(colours.last.g, colours'.last.g)
       /\ Near(colours.last.b, colours'.last.b)]_vars

(***************************************************************************)
(* Every pixel of the sensor is on the table of its lens, so that getAngle *)
(* finds an angle, but for the four corners of the wide lens: they lie     *)
(* 3986 micrometres from the axis, the table ends at 3980, and their points*)
(* are put on the axis.                                                    *)
(***************************************************************************)
Looking == phase = "lens" /\ y < Height
Corner == {0, Width - 1} \X {0, Height - 1}

OffTableOnlyWideCorners ==
  [][Looking => (angle' = 0 <=> lens = "WIDE_FIELD" /\ <<x, y>> \in Corner)]_vars
===============================================================================
