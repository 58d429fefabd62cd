------------------------------ MODULE FrameTypes ------------------------------
(***************************************************************************)
(* The types of a frame and what each brings: the bytes of a pixel in the  *)
(* payload (Frame::sortData, driver/src/frame.cpp) and the arrays that     *)
(* computeFrame fills (driver/src/tof320.cpp).                             *)
(***************************************************************************)
EXTENDS Integers

\* Frame::DataType, with the numbers of its enumerators.
DataType == {"GRAYSCALE", "DISTANCE", "AMPLITUDE", "DCS"}
Enumerator == [GRAYSCALE |-> 0, DISTANCE |-> 1, AMPLITUDE |-> 2, DCS |-> 3]

px_size == 2

\* Bytes of a pixel that sortData reads, in how many iterations, ...
PixelBytes == [GRAYSCALE |-> px_size, DISTANCE |-> px_size,
               AMPLITUDE |-> 2 * px_size, DCS |-> 4 * px_size]

\* Faulty variant of Stride: an iteration takes a whole pixel.
StridePixel(t) == PixelBytes[t]

Stride(t) == IF t = "AMPLITUDE" THEN 4 ELSE 2

\* ... and the vectors it writes, with the bytes they have for a pixel.
Sorted == [GRAYSCALE |-> {"amplData"}, DISTANCE |-> {"distData"},
           AMPLITUDE |-> {"distData", "amplData"}, DCS |-> {"dcsData"}]
VectorBytes == [distData |-> px_size, amplData |-> px_size, dcsData |-> 4 * px_size]

\* The arrays of a Frame that computeFrame fills for a type.
Computed(t) ==
  {"data_depth", "data_3d_xyz_rgb", "data_2d_bgr", "saturated_mask"}
    \cup (IF t = "AMPLITUDE" THEN {"data_amplitude"} ELSE {})
    \cup (IF t = "GRAYSCALE" THEN {"data_grayscale"} ELSE {})
===============================================================================
