--------------------------- MODULE RegionOfInterest ---------------------------
(***************************************************************************)
(* The region of interest of the ROS 1 node (limu_camera_node.cpp:203-214):*)
(* three sliders choose a rectangle of the sensor, which updateConfig      *)
(* rounds to what the camera accepts and shows again on the sliders.       *)
(***************************************************************************)
EXTENDS Integers

\* The sensor, and the ranges of the sliders (cfg/limu_tof_ros.cfg).
Columns == 0..319
Rows == 0..239
Sliders == [left : 0..312, right : 7..319, height : 8..240]

Even4(n) == n - (n % 4)

\* Faulty variant of RightEdge: groups of four are completed, not cut.
RightEdgeRoundsUp(left, right) ==
  LET wide == IF right - left < 7 THEN left + 7 ELSE right
  IN  wide + ((left - wide - 1) % 4)

\* Faulty variant of RightEdge: crossed sliders are not corrected.
RightEdgeUnchecked(left, right) == right - ((right - left + 1) % 4)

\* The right edge: at least eight columns, then whole groups of four.
RightEdge(left, right) ==
  LET wide == IF right - left < 7 THEN left + 7 ELSE right
  IN  wide - ((wide - left + 1) % 4)

Height(height) == IF Even4(height) < 8 THEN 8 ELSE Even4(height)

\* What updateConfig sends to the camera, ...
Region(s) ==
  [left   |-> s.left,
   right  |-> RightEdge(s.left, s.right),
   top    |-> 120 - Height(s.height) \div 2,
   bottom |-> 119 + Height(s.height) \div 2]

\* ... and what it shows on the sliders afterwards.
Shown(s) ==
  [left |-> s.left, right |-> RightEdge(s.left, s.right), height |-> Height(s.height)]

-------------------------------------------------------------------------------
\* A region of the sensor, centred between its rows, at least 8 by 8, in groups
\* of four columns and rows.
OnSensor(r) ==
  /\ {r.left, r.right} \subseteq Columns /\ {r.top, r.bottom} \subseteq Rows
  /\ r.right - r.left >= 7 /\ (r.right - r.left + 1) % 4 = 0
  /\ r.bottom - r.top >= 7 /\ (r.bottom - r.top + 1) % 4 = 0
  /\ r.top + r.bottom = 239
===============================================================================
