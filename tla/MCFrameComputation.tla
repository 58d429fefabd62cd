-------------------------- MODULE MCFrameComputation --------------------------
(***************************************************************************)
(* FrameComputation with a single pixel, a few and whole rows and columns  *)
(* of the sensor, with frames of every type that end with the buffer, and  *)
(* with the distances at which a branch or a colour changes.               *)
(***************************************************************************)
EXTENDS FrameComputation

MCFrames ==
  {[dataType |-> t, width |-> s[1], height |-> s[2], payloadHeaderOffset |-> 25] :
     t \in DataType, s \in {<<1, 1>>, <<4, 3>>, <<Width, 1>>, <<2, Height>>}}
  \cup {[dataType |-> t, width |-> 4, height |-> 3,
         payloadHeaderOffset |-> BufferSize - 4 * 3 * PixelBytes[t]] : t \in DataType}

MCDistances ==
  {0, 1, 2, 3, 10000, 19999, 20000, 20001, 64000, 64001, 64002, 64003, 64004,
   64007, 64008, 64999, 65000, 65535}
===============================================================================
