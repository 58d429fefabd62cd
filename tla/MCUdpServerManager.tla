-------------------------- MODULE MCUdpServerManager --------------------------
(***************************************************************************)
(* UdpServerManager with up to three camera objects of two cameras: a and  *)
(* b have a camera each, c is a second object of the camera of a.          *)
(***************************************************************************)
EXTENDS UdpServerManager

CONSTANTS a, b, c, left, right

MCIpOf == [o \in Objs |-> IF o = b THEN right ELSE left]
===============================================================================
