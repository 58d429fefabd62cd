----------------------------- MODULE FrameDelivery -----------------------------
(***************************************************************************)
(* What a subscriber of frameReady expects of a camera whose datagrams all *)
(* arrive: every frame the camera starts is announced by its CameraInfo    *)
(* and then delivered, whole, once and in order.                           *)
(***************************************************************************)
EXTENDS Naturals, Sequences

VARIABLES
  started,    \* frames the camera has started to send
  announced,  \* frames announced by cameraInfoReady
  out         \* the frames delivered by frameReady

vars == <<started, announced, out>>

Init == started = 0 /\ announced = 0 /\ out = <<>>

Start ==
  /\ started' = started + 1
  /\ UNCHANGED <<announced, out>>

Announce ==
  /\ announced < started
  /\ announced = Len(out)
  /\ announced' = announced + 1
  /\ UNCHANGED <<started, out>>

Deliver ==
  /\ Len(out) < announced
  /\ out' = Append(out, announced)
  /\ UNCHANGED <<started, announced>>

Next == Start \/ Announce \/ Deliver

Spec == Init /\ [][Next]_vars
===============================================================================
