--------------------------- MODULE MCLimuCameraNode ---------------------------
(***************************************************************************)
(* LimuCameraNode with slider positions at the edges of the arithmetic: a  *)
(* region that is too narrow at the right edge of the sensor and too low,  *)
(* and one whose width and height need rounding.                           *)
(***************************************************************************)
EXTENDS LimuCameraNode

MCInputs ==
  {[left |-> 312, right |-> 7, height |-> 11], [left |-> 1, right |-> 319, height |-> 239]}
===============================================================================
