------------------------- MODULE LimuCameraNodeProofs -------------------------
(***************************************************************************)
(* Theorems about LimuCameraNode, for any slider positions and any numbers *)
(* of configurations, frames and faults.                                   *)
(*                                                                         *)
(* IInv adds two invariants to the type invariant and RoiOnSensor.         *)
(* OrderInv: the driver's type and lens are as new as all data, and so is  *)
(* the label of currentFrame for each frame whose first datagram it took.  *)
(* BeforeStream: until the last command of setParameters no data are as    *)
(* new as the configuration.                                               *)
(* AgreeInv: as long as there is no doubt, the camera streams only when    *)
(* the driver believes it does, and setParameters has written what is      *)
(* behind it.                                                              *)
(***************************************************************************)
EXTENDS LimuCameraNode, TLAPS

\* Where setParameters writes a register.
Place == [modulation |-> 2, minAmplitude |-> 3, integrationTime |-> 4, hdr |-> 5,
          roi |-> 6, filter |-> 8]

ScriptInv ==
  /\ command # "none" => step # 0 /\ step # 7
  /\ lensBusy => step = 7
  /\ caller = "exit" => step <= 1
  /\ caller \in {"deleting", "ended"} => step = 0
  /\ step \in 8..9 => lens = config
  /\ step = 9 /\ command # "none" => dataType = config

OrderInv ==
  /\ mode <= dataType /\ mode <= lens
  /\ \A d \in net : d.taken.gen <= dataType /\ d.taken.gen <= lens
  /\ \A d \in net : d.part = "last" => Headless(d) \/ d.taken.gen <= frame.label
  /\ frame.first.gen <= frame.label /\ frame.label <= dataType
  /\ frame.first.gen <= lens /\ frame.last.gen <= lens
  /\ frame.label < frame.last.gen => frame.headless
  /\ io = "compute" => frame.first.gen <= frame.lens /\ frame.last.gen <= frame.lens
  /\ frame.torn => frame.first.gen < config /\ frame.last.gen < config

\* Before the stream command nothing comes from the configuration in progress.
BeforeStream ==
  step \in 1..8 /\ caller # "exit" =>
    /\ mode < config /\ frame.first.gen < config /\ frame.last.gen < config
    /\ \A d \in net : d.taken.gen < config

Written(r) == step > Place[r] \/ (step = Place[r] /\ command = "executed")

AgreeInv ==
  /\ step = 1 /\ command = "executed" => ~streaming
  /\ ~doubt =>
       /\ streaming => isStreaming \/ (step = 9 /\ command = "executed")
       /\ streaming => step \in {0, 1} \/ (step = 9 /\ command = "executed")
       /\ streaming => \A r \in Registers : registers[r] = mode
       /\ \A r \in Registers : Written(r) => registers[r] = config
       /\ Written("roi") => cameraRoi = roi
       /\ step = 9 /\ command = "executed" => streaming /\ mode = config
       /\ step = 0 /\ caller \in {"setCallback", "initialise", "spin"} =>
            /\ streaming /\ mode = config
            /\ cameraRoi = roi
       /\ step = 0 /\ caller \in {"deleting", "ended"} => ~streaming

CleanInv ==
  /\ \A d \in net : ~d.taken.halfway
  /\ ~frame.first.halfway /\ ~frame.last.halfway

IInv ==
  /\ TypeOK /\ RoiOnSensor /\ ScriptInv /\ OrderInv /\ BeforeStream /\ AgreeInv /\ CleanInv
  /\ PublishedNotOlder /\ SettingsTogether

-------------------------------------------------------------------------------
(* The arithmetic of the sliders, and the places of the script *)

\* Cutting a height to groups of four keeps it between 8 and 240.
LEMMA HeightFits ==
  ASSUME NEW h \in 8..240
  PROVE  /\ Height(h) \in 8..240 /\ Height(h) % 4 = 0
         /\ Height(Height(h)) = Height(h)
BY DEF Height, Even4

\* A right edge is at least seven columns away, on the sensor, and final.
LEMMA RightEdgeFits ==
  ASSUME NEW l \in 0..312, NEW r \in 7..319
  PROVE  /\ RightEdge(l, r) \in 7..319
         /\ RightEdge(l, r) - l >= 7 /\ (RightEdge(l, r) - l + 1) % 4 = 0
         /\ RightEdge(l, RightEdge(l, r)) = RightEdge(l, r)
BY DEF RightEdge

\* updateConfig makes a region of the sensor out of any slider positions, and
\* shows positions that stand for the same region.
LEMMA RegionFits ==
  ASSUME NEW s \in Sliders
  PROVE  /\ OnSensor(Region(s)) /\ Region(s) \in Regions
         /\ Shown(s) \in Sliders
         /\ Region(Shown(s)) = Region(s) /\ Shown(Shown(s)) = Shown(s)
<1>1. s.left \in 0..312 /\ s.right \in 7..319 /\ s.height \in 8..240
  BY DEF Sliders
<1>2. /\ Height(s.height) \in 8..240 /\ Height(s.height) % 4 = 0
      /\ Height(Height(s.height)) = Height(s.height)
  BY <1>1, HeightFits
<1>3. /\ RightEdge(s.left, s.right) \in 7..319
      /\ RightEdge(s.left, s.right) - s.left >= 7
      /\ (RightEdge(s.left, s.right) - s.left + 1) % 4 = 0
      /\ RightEdge(s.left, RightEdge(s.left, s.right)) = RightEdge(s.left, s.right)
  BY <1>1, RightEdgeFits
<1>4. Region(s) \in Regions
  BY <1>1, <1>2, <1>3 DEF Region, Regions, Columns, Rows
<1>5. OnSensor(Region(s))
  BY <1>1, <1>2, <1>3 DEF OnSensor, Region, Columns, Rows
<1>6. Shown(s) \in Sliders
  BY <1>1, <1>2, <1>3 DEF Shown, Sliders
<1>7. Region(Shown(s)) = Region(s) /\ Shown(Shown(s)) = Shown(s)
  BY <1>2, <1>3 DEF Region, Shown
<1>8. QED
  BY <1>4, <1>5, <1>6, <1>7

\* The region of the whole sensor is one, too.
LEMMA WholeSensor ==
  LET whole == [left |-> 0, top |-> 0, right |-> 319, bottom |-> 239]
  IN  OnSensor(whole) /\ whole \in Regions
BY DEF OnSensor, Regions, Columns, Rows

LEMMA ScriptLength == Len(Script) = 9
BY DEF Script

\* What setParameters does at each step.
LEMMA Steps ==
  ASSUME step \in 0..Len(Script)
  PROVE  /\ Len(Script) = 9 /\ step \in 0..9
         /\ Doing("stop") <=> step = 1
         /\ Doing("lens") <=> step = 7
         /\ Doing("stream") <=> step = 9
         /\ \A r \in Registers : Place[r] \in 2..8 \ {7} /\ (Doing(r) <=> step = Place[r])
         /\ "roi" \in Registers
<1>1. Len(Script) = 9 /\ step \in 0..9
  BY DEF Script
<1>2. /\ Doing("stop") <=> step = 1
      /\ Doing("lens") <=> step = 7
      /\ Doing("stream") <=> step = 9
  BY <1>1 DEF Doing, Script
<1>3. ASSUME NEW r \in Registers
      PROVE  Place[r] \in 2..8 \ {7} /\ (Doing(r) <=> step = Place[r])
  BY <1>1 DEF Doing, Script, Registers, Place
<1>4. QED
  BY <1>1, <1>2, <1>3 DEF Registers

-------------------------------------------------------------------------------
(* The steps *)

\* What the camera sends is data of the configurations so far.
LEMMA TakenType ==
  ASSUME TypeOK
  PROVE  Taken \in Data /\ Taken.gen = mode
<1>1. (\E r \in Registers : registers[r] # mode) \in BOOLEAN
  OBVIOUS
<1>2. mode \in 0..MaxConfigs /\ doubt \in BOOLEAN
  BY BoundsAreNat DEF TypeOK, MainTypeOK, SettingsTypeOK
<1>3. QED
  BY <1>1, <1>2 DEF Taken, Data

LEMMA NoFrameType == NoFrame \in Frames
BY BoundsAreNat DEF NoFrame, NoData, Frames, Data

\* Three ways a frame changes.
LEMMA Labelled ==
  ASSUME NEW t \in Data, NEW n \in 0..MaxConfigs
  PROVE  LET g == [NoFrame EXCEPT !.null = FALSE, !.first = t, !.label = n]
         IN  /\ g \in Frames /\ g.first = t /\ g.label = n
             /\ g.last = NoData /\ ~g.torn
BY NoFrameType DEF NoFrame, NoData, Frames

LEMMA Torn ==
  ASSUME NEW f \in Frames, NEW b \in BOOLEAN
  PROVE  LET g == [f EXCEPT !.torn = b]
         IN  /\ g \in Frames /\ g.torn = b
             /\ g.first = f.first /\ g.last = f.last /\ g.label = f.label /\ g.lens = f.lens
             /\ g.headless = f.headless
BY DEF Frames

LEMMA Sorted ==
  ASSUME NEW f \in Frames, NEW n \in 0..MaxConfigs
  PROVE  LET g == [f EXCEPT !.image = n]
         IN  /\ g \in Frames /\ g.image = n
             /\ g.first = f.first /\ g.last = f.last /\ g.label = f.label /\ g.lens = f.lens
             /\ g.torn = f.torn /\ g.headless = f.headless
BY DEF Frames

\* What the two datagrams of a frame do to currentFrame.
LEMMA Begins ==
  ASSUME TypeOK, FirstDatagram
  PROVE  \E d \in net :
           /\ Receive(d, "first") /\ d.taken \in Data /\ UNCHANGED <<crashed, io>>
           /\ frame' \in Frames /\ frame'.first = d.taken /\ frame'.last = NoData
           /\ frame'.label = dataType /\ ~frame'.torn
<1>1. PICK d \in net : /\ Receive(d, "first")
                       /\ frame' = [NoFrame EXCEPT !.null = FALSE, !.first = d.taken,
                                                   !.label = dataType]
                       /\ UNCHANGED <<crashed, io>>
  BY DEF FirstDatagram
<1>2. d.taken \in Data /\ dataType \in 0..MaxConfigs
  BY BoundsAreNat DEF TypeOK, SettingsTypeOK, FramesTypeOK
<1> DEFINE g == [NoFrame EXCEPT !.null = FALSE, !.first = d.taken, !.label = dataType]
<1>3. g \in Frames /\ g.first = d.taken /\ g.label = dataType /\ g.last = NoData /\ ~g.torn
  BY <1>2, Labelled
<1>4. frame' = g
  BY <1>1
<1> HIDE DEF g
<1>5. QED
  BY <1>1, <1>2, <1>3, <1>4

LEMMA Completes ==
  ASSUME TypeOK, LastDatagram
  PROVE  \E d \in net :
           /\ Receive(d, "last") /\ d.taken \in Data /\ io' = "compute" /\ UNCHANGED crashed
           /\ frame' \in Frames /\ frame'.first = frame.first /\ frame'.last = d.taken
           /\ frame'.label = frame.label /\ frame'.lens = lens
           /\ (frame'.headless <=> Headless(d)) /\ (frame'.torn <=> lensBusy)
<1>1. PICK d \in net : /\ Receive(d, "last")
                       /\ frame' = [frame EXCEPT !.last = d.taken, !.headless = Headless(d),
                                                 !.lens = lens, !.torn = lensBusy]
                       /\ io' = "compute"
                       /\ UNCHANGED crashed
  BY DEF LastDatagram
<1> DEFINE h == Headless(d)
           b == lensBusy
<1>2. /\ d.taken \in Data /\ lens \in 0..MaxConfigs /\ frame \in Frames
      /\ b \in BOOLEAN /\ h \in BOOLEAN
  BY BoundsAreNat DEF TypeOK, SettingsTypeOK, FramesTypeOK, Headless
<1>3. frame' = [frame EXCEPT !.last = d.taken, !.headless = h, !.lens = lens, !.torn = b]
  BY <1>1
<1> HIDE DEF h, b
<1> DEFINE g == [frame EXCEPT !.last = d.taken, !.headless = h, !.lens = lens, !.torn = b]
<1>4. /\ g \in Frames /\ g.last = d.taken /\ g.headless = h /\ g.lens = lens /\ g.torn = b
      /\ g.first = frame.first /\ g.label = frame.label
  BY <1>2 DEF Frames
<1>5. frame' = g
  BY <1>3
<1> HIDE DEF g
<1>6. (frame'.headless <=> h) /\ (frame'.torn <=> b)
  BY <1>4, <1>5
<1>7. QED
  BY <1>1, <1>2, <1>4, <1>5, <1>6 DEF h, b

\* Every step keeps the types of main's variables.
LEMMA MainTypeStep ==
  ASSUME TypeOK, [Next]_vars
  PROVE  MainTypeOK'
<1>1. CASE UpdateConfig
  BY <1>1, ScriptLength DEF UpdateConfig, TypeOK, MainTypeOK, main, node, tof, camera, thread
<1>2. CASE Initialise
  BY <1>2, ScriptLength DEF Initialise, TypeOK, MainTypeOK, main, node, tof, camera, thread
<1>3. CASE Spin
  BY <1>3, ScriptLength DEF Spin, TypeOK, MainTypeOK, main, node, tof, camera, thread
<1>4. CASE Exit
  BY <1>4, ScriptLength DEF Exit, TypeOK, MainTypeOK, main, node, tof, camera, thread
<1>5. CASE NothingToStop
  BY <1>5, ScriptLength DEF NothingToStop, Advance, TypeOK, MainTypeOK, main, node, tof, camera, thread
<1>6. CASE Send
  BY <1>6, ScriptLength DEF Send, Calls, TypeOK, MainTypeOK, main, node, tof, camera, thread
<1>7. CASE Refused
  <2>1. doubt' \in BOOLEAN
    BY <1>7 DEF Refused, TypeOK, MainTypeOK
  <2>2. QED
    BY <1>7, <2>1, ScriptLength DEF Refused, Calls, Advance, Throw, TypeOK, MainTypeOK, node, tof, camera, thread
<1>8. CASE Acked
  <2>1. doubt' \in BOOLEAN
    BY <1>8 DEF Acked, TypeOK, MainTypeOK
  <2>2. QED
    BY <1>8, <2>1, ScriptLength DEF Acked, Advance, TypeOK, MainTypeOK, node, tof, camera, thread
<1>9. CASE Exhausted
  BY <1>9, ScriptLength DEF Exhausted, Advance, TypeOK, MainTypeOK, main, node, tof, camera, thread
<1>10. CASE ThrewClosed
  BY <1>10, ScriptLength DEF ThrewClosed, Throw, TypeOK, MainTypeOK, main, node, tof, camera, thread
<1>11. CASE SameLens
  <2>1. doubt' \in BOOLEAN
    BY <1>11 DEF SameLens, TypeOK, MainTypeOK
  <2>2. QED
    BY <1>11, <2>1, ScriptLength DEF SameLens, Advance, TypeOK, MainTypeOK, node, tof, camera, thread
<1>12. CASE BeginLens
  BY <1>12, ScriptLength DEF BeginLens, TypeOK, MainTypeOK, main, node, tof, camera, thread
<1>13. CASE EndLens
  <2>1. doubt' \in BOOLEAN
    BY <1>13 DEF EndLens, TypeOK, MainTypeOK
  <2>2. QED
    BY <1>13, <2>1, ScriptLength DEF EndLens, Advance, TypeOK, MainTypeOK, node, tof, camera, thread
<1>14. CASE Execute
  BY <1>14, ScriptLength DEF Execute, TypeOK, MainTypeOK, main, node, tof, camera, thread
<1>15. CASE Restart
  BY <1>15, ScriptLength DEF Restart, TypeOK, MainTypeOK, main, node, tof, camera, thread
<1>16. CASE SendFrame
  BY <1>16, ScriptLength DEF SendFrame, TypeOK, MainTypeOK, main, node, tof, camera, thread
<1>17. CASE FirstDatagram
  BY <1>17, ScriptLength DEF FirstDatagram, Receive, TypeOK, MainTypeOK, main, node, tof, camera, thread
<1>18. CASE LastDatagram
  BY <1>18, ScriptLength DEF LastDatagram, Receive, TypeOK, MainTypeOK, main, node, tof, camera, thread
<1>19. CASE UpdateFrame
  BY <1>19, ScriptLength DEF UpdateFrame, TypeOK, MainTypeOK, main, node, tof, camera, thread
<1>20. CASE NoCurrentFrame
  BY <1>20, ScriptLength DEF NoCurrentFrame, Receive, TypeOK, MainTypeOK, main, node, tof, camera, thread
<1>21. CASE Delete
  BY <1>21, ScriptLength DEF Delete, TypeOK, MainTypeOK, main, node, tof, camera, thread
<1>22. CASE UNCHANGED vars
  BY <1>22 DEF vars, TypeOK, MainTypeOK, main, node, tof, camera, thread
<1>23. QED
  BY <1>1, <1>2, <1>3, <1>4, <1>5, <1>6, <1>7, <1>8, <1>9, <1>10, <1>11, <1>12, <1>13, <1>14, <1>15, <1>16, <1>17, <1>18, <1>19, <1>20, <1>21, <1>22 DEF Next, Main, Driver

\* Every step keeps the types of the settings.
LEMMA SettingsTypeStep ==
  ASSUME TypeOK, ScriptInv, [Next]_vars
  PROVE  SettingsTypeOK'
<1>1. CASE UpdateConfig
  BY <1>1, Steps, RegionFits, WholeSensor, InputsAreSliders, BoundsAreNat DEF UpdateConfig, TypeOK, MainTypeOK, SettingsTypeOK, main, node, tof, camera, thread
<1>2. CASE Initialise
  BY <1>2, Steps, RegionFits, WholeSensor, InputsAreSliders, BoundsAreNat DEF Initialise, TypeOK, MainTypeOK, SettingsTypeOK, main, node, tof, camera, thread
<1>3. CASE Spin
  BY <1>3, Steps, RegionFits, WholeSensor, InputsAreSliders, BoundsAreNat DEF Spin, TypeOK, MainTypeOK, SettingsTypeOK, main, node, tof, camera, thread
<1>4. CASE Exit
  BY <1>4, Steps, RegionFits, WholeSensor, InputsAreSliders, BoundsAreNat DEF Exit, TypeOK, MainTypeOK, SettingsTypeOK, main, node, tof, camera, thread
<1>5. CASE NothingToStop
  BY <1>5, Steps, RegionFits, WholeSensor, InputsAreSliders, BoundsAreNat DEF NothingToStop, Advance, TypeOK, MainTypeOK, SettingsTypeOK, main, node, tof, camera, thread
<1>6. CASE Send
  BY <1>6, Steps, RegionFits, WholeSensor, InputsAreSliders, BoundsAreNat DEF Send, Calls, TypeOK, MainTypeOK, SettingsTypeOK, main, node, tof, camera, thread
<1>7. CASE Refused
  <2>1. isStreaming' \in BOOLEAN
    BY <1>7 DEF Refused, Advance, Throw, TypeOK, SettingsTypeOK
  <2>2. QED
    BY <1>7, <2>1 DEF Refused, Calls, TypeOK, SettingsTypeOK, node, camera
<1>8. CASE Acked
  BY <1>8, Steps, RegionFits, WholeSensor, InputsAreSliders, BoundsAreNat DEF Acked, Advance, TypeOK, MainTypeOK, SettingsTypeOK, main, node, tof, camera, thread
<1>9. CASE Exhausted
  BY <1>9, Steps, RegionFits, WholeSensor, InputsAreSliders, BoundsAreNat DEF Exhausted, Advance, TypeOK, MainTypeOK, SettingsTypeOK, main, node, tof, camera, thread
<1>10. CASE ThrewClosed
  BY <1>10, Steps, RegionFits, WholeSensor, InputsAreSliders, BoundsAreNat DEF ThrewClosed, Throw, TypeOK, MainTypeOK, SettingsTypeOK, main, node, tof, camera, thread
<1>11. CASE SameLens
  BY <1>11, Steps, RegionFits, WholeSensor, InputsAreSliders, BoundsAreNat DEF SameLens, Advance, TypeOK, MainTypeOK, SettingsTypeOK, main, node, tof, camera, thread
<1>12. CASE BeginLens
  BY <1>12, Steps, RegionFits, WholeSensor, InputsAreSliders, BoundsAreNat DEF BeginLens, TypeOK, MainTypeOK, SettingsTypeOK, main, node, tof, camera, thread
<1>13. CASE EndLens
  <2>1. isStreaming' \in BOOLEAN
    BY <1>13 DEF EndLens, Advance, TypeOK, SettingsTypeOK
  <2>2. UNCHANGED <<node, dataType, camera>> /\ lens' = config /\ lensBusy' = FALSE
    BY <1>13 DEF EndLens
  <2>3. {dataType', lens', mode'} \subseteq 0..config'
    BY <2>2 DEF TypeOK, SettingsTypeOK, camera, node
  <2>4. lensBusy' \in BOOLEAN
    BY <2>2
  <2>5. QED
    BY <2>1, <2>2, <2>3, <2>4 DEF TypeOK, SettingsTypeOK, node, camera
<1>14. CASE Execute
  BY <1>14, Steps, RegionFits, WholeSensor, InputsAreSliders, BoundsAreNat DEF Execute, TypeOK, MainTypeOK, SettingsTypeOK, main, node, tof, camera, thread
<1>15. CASE Restart
  <2>1. cameraRoi' \in Regions
    BY <1>15, WholeSensor DEF Restart
  <2>2. mode' \in 0..config /\ registers' \in [Registers -> 0..config]
    BY <1>15, BoundsAreNat DEF Restart, TypeOK, SettingsTypeOK
  <2>3. streaming' \in BOOLEAN /\ UNCHANGED <<node, tof>>
    BY <1>15 DEF Restart
  <2>4. QED
    BY <2>1, <2>2, <2>3 DEF TypeOK, SettingsTypeOK, node, tof
<1>16. CASE SendFrame
  BY <1>16, Steps, RegionFits, WholeSensor, InputsAreSliders, BoundsAreNat DEF SendFrame, TypeOK, MainTypeOK, SettingsTypeOK, main, node, tof, camera, thread
<1>17. CASE FirstDatagram
  BY <1>17, Steps, RegionFits, WholeSensor, InputsAreSliders, BoundsAreNat DEF FirstDatagram, Receive, TypeOK, MainTypeOK, SettingsTypeOK, main, node, tof, camera, thread
<1>18. CASE LastDatagram
  BY <1>18, Steps, RegionFits, WholeSensor, InputsAreSliders, BoundsAreNat DEF LastDatagram, Receive, TypeOK, MainTypeOK, SettingsTypeOK, main, node, tof, camera, thread
<1>19. CASE UpdateFrame
  BY <1>19, Steps, RegionFits, WholeSensor, InputsAreSliders, BoundsAreNat DEF UpdateFrame, TypeOK, MainTypeOK, SettingsTypeOK, main, node, tof, camera, thread
<1>20. CASE NoCurrentFrame
  BY <1>20, Steps, RegionFits, WholeSensor, InputsAreSliders, BoundsAreNat DEF NoCurrentFrame, Receive, TypeOK, MainTypeOK, SettingsTypeOK, main, node, tof, camera, thread
<1>21. CASE Delete
  BY <1>21, Steps, RegionFits, WholeSensor, InputsAreSliders, BoundsAreNat DEF Delete, TypeOK, MainTypeOK, SettingsTypeOK, main, node, tof, camera, thread
<1>22. CASE UNCHANGED vars
  BY <1>22 DEF vars, TypeOK, MainTypeOK, SettingsTypeOK, main, node, tof, camera, thread
<1>23. QED
  BY <1>1, <1>2, <1>3, <1>4, <1>5, <1>6, <1>7, <1>8, <1>9, <1>10, <1>11, <1>12, <1>13, <1>14, <1>15, <1>16, <1>17, <1>18, <1>19, <1>20, <1>21, <1>22 DEF Next, Main, Driver

\* Every step keeps the types of what the io thread works with.
LEMMA FramesTypeStep ==
  ASSUME TypeOK, [Next]_vars
  PROVE  FramesTypeOK'
<1>1. CASE UpdateConfig
  BY <1>1 DEF UpdateConfig, TypeOK, FramesTypeOK, main, node, tof, camera, thread
<1>2. CASE Initialise
  BY <1>2 DEF Initialise, TypeOK, FramesTypeOK, main, node, tof, camera, thread
<1>3. CASE Spin
  BY <1>3 DEF Spin, TypeOK, FramesTypeOK, main, node, tof, camera, thread
<1>4. CASE Exit
  BY <1>4 DEF Exit, TypeOK, FramesTypeOK, main, node, tof, camera, thread
<1>5. CASE NothingToStop
  BY <1>5 DEF NothingToStop, Advance, TypeOK, FramesTypeOK, main, node, tof, camera, thread
<1>6. CASE Send
  BY <1>6 DEF Send, Calls, TypeOK, FramesTypeOK, main, node, tof, camera, thread
<1>7. CASE Refused
  BY <1>7 DEF Refused, Calls, Advance, Throw, TypeOK, FramesTypeOK, main, node, tof, camera, thread
<1>8. CASE Acked
  BY <1>8 DEF Acked, Advance, TypeOK, FramesTypeOK, main, node, tof, camera, thread
<1>9. CASE Exhausted
  BY <1>9 DEF Exhausted, Advance, TypeOK, FramesTypeOK, main, node, tof, camera, thread
<1>10. CASE ThrewClosed
  BY <1>10 DEF ThrewClosed, Throw, TypeOK, FramesTypeOK, main, node, tof, camera, thread
<1>11. CASE SameLens
  BY <1>11 DEF SameLens, Advance, TypeOK, FramesTypeOK, main, node, tof, camera, thread
<1>12. CASE BeginLens
  <2>1. {frame', shown'} \subseteq Frames
    BY <1>12 DEF BeginLens, TypeOK, MainTypeOK, SettingsTypeOK, FramesTypeOK, Frames, main, node, tof, camera, thread
  <2>2. QED
    BY <1>12, <2>1 DEF BeginLens, TypeOK, FramesTypeOK, main, node, tof, camera, thread
<1>13. CASE EndLens
  BY <1>13 DEF EndLens, Advance, TypeOK, FramesTypeOK, main, node, tof, camera, thread
<1>14. CASE Execute
  BY <1>14 DEF Execute, TypeOK, FramesTypeOK, main, node, tof, camera, thread
<1>15. CASE Restart
  BY <1>15 DEF Restart, TypeOK, FramesTypeOK, main, node, tof, camera, thread
<1>16. CASE SendFrame
  <2>1. net' = net \cup Datagrams(frames + 1) /\ frames' = frames + 1 /\ frames \in Nat
    BY <1>16 DEF SendFrame, TypeOK, MainTypeOK
  <2>2. Datagrams(frames + 1) \subseteq [part : {"first", "last"}, number : 1..frames', taken : Data]
    BY <2>1, TakenType DEF Datagrams
  <2>3. net \subseteq [part : {"first", "last"}, number : 1..frames', taken : Data]
    BY <2>1 DEF TypeOK, FramesTypeOK
  <2>4. QED
    BY <1>16, <2>1, <2>2, <2>3 DEF SendFrame, TypeOK, FramesTypeOK
<1>17. CASE FirstDatagram
  BY <1>17, Begins, NoFrameType DEF Receive, TypeOK, FramesTypeOK, camera
<1>18. CASE LastDatagram
  BY <1>18, Completes, NoFrameType DEF Receive, TypeOK, FramesTypeOK, camera
<1>19. CASE UpdateFrame
  <2>1. {frame', shown'} \subseteq Frames
    <3>1. frame \in Frames /\ config \in 0..MaxConfigs
      BY DEF TypeOK, SettingsTypeOK, FramesTypeOK
    <3>2. [frame EXCEPT !.image = config] \in Frames
      BY <3>1, Sorted
    <3>3. QED
      BY <1>19, <3>2 DEF UpdateFrame, TypeOK, FramesTypeOK
  <2>2. QED
    BY <1>19, <2>1 DEF UpdateFrame, TypeOK, FramesTypeOK, main, node, tof, camera, thread
<1>20. CASE NoCurrentFrame
  BY <1>20, NoFrameType DEF NoCurrentFrame, Receive, TypeOK, FramesTypeOK, main, node, tof, camera, thread
<1>21. CASE Delete
  BY <1>21 DEF Delete, TypeOK, FramesTypeOK, main, node, tof, camera, thread
<1>22. CASE UNCHANGED vars
  BY <1>22 DEF vars, TypeOK, FramesTypeOK, main, node, tof, camera, thread
<1>23. QED
  BY <1>1, <1>2, <1>3, <1>4, <1>5, <1>6, <1>7, <1>8, <1>9, <1>10, <1>11, <1>12, <1>13, <1>14, <1>15, <1>16, <1>17, <1>18, <1>19, <1>20, <1>21, <1>22 DEF Next, Main, Driver

\* Every step keeps the regions on the sensor.
LEMMA RoiStep ==
  ASSUME TypeOK, RoiOnSensor, [Next]_vars
  PROVE  RoiOnSensor'
<1>1. CASE UpdateConfig
  BY <1>1, RegionFits, WholeSensor, InputsAreSliders DEF UpdateConfig, TypeOK, SettingsTypeOK, RoiOnSensor, main, node, tof, camera, thread
<1>2. CASE Initialise
  BY <1>2, RegionFits, WholeSensor, InputsAreSliders DEF Initialise, TypeOK, SettingsTypeOK, RoiOnSensor, main, node, tof, camera, thread
<1>3. CASE Spin
  BY <1>3, RegionFits, WholeSensor, InputsAreSliders DEF Spin, TypeOK, SettingsTypeOK, RoiOnSensor, main, node, tof, camera, thread
<1>4. CASE Exit
  BY <1>4, RegionFits, WholeSensor, InputsAreSliders DEF Exit, TypeOK, SettingsTypeOK, RoiOnSensor, main, node, tof, camera, thread
<1>5. CASE NothingToStop
  BY <1>5, RegionFits, WholeSensor, InputsAreSliders DEF NothingToStop, Advance, TypeOK, SettingsTypeOK, RoiOnSensor, main, node, tof, camera, thread
<1>6. CASE Send
  BY <1>6, RegionFits, WholeSensor, InputsAreSliders DEF Send, Calls, TypeOK, SettingsTypeOK, RoiOnSensor, main, node, tof, camera, thread
<1>7. CASE Refused
  BY <1>7, RegionFits, WholeSensor, InputsAreSliders DEF Refused, Calls, Advance, Throw, TypeOK, SettingsTypeOK, RoiOnSensor, main, node, tof, camera, thread
<1>8. CASE Acked
  BY <1>8, RegionFits, WholeSensor, InputsAreSliders DEF Acked, Advance, TypeOK, SettingsTypeOK, RoiOnSensor, main, node, tof, camera, thread
<1>9. CASE Exhausted
  BY <1>9, RegionFits, WholeSensor, InputsAreSliders DEF Exhausted, Advance, TypeOK, SettingsTypeOK, RoiOnSensor, main, node, tof, camera, thread
<1>10. CASE ThrewClosed
  BY <1>10, RegionFits, WholeSensor, InputsAreSliders DEF ThrewClosed, Throw, TypeOK, SettingsTypeOK, RoiOnSensor, main, node, tof, camera, thread
<1>11. CASE SameLens
  BY <1>11, RegionFits, WholeSensor, InputsAreSliders DEF SameLens, Advance, TypeOK, SettingsTypeOK, RoiOnSensor, main, node, tof, camera, thread
<1>12. CASE BeginLens
  BY <1>12, RegionFits, WholeSensor, InputsAreSliders DEF BeginLens, TypeOK, SettingsTypeOK, RoiOnSensor, main, node, tof, camera, thread
<1>13. CASE EndLens
  BY <1>13, RegionFits, WholeSensor, InputsAreSliders DEF EndLens, Advance, TypeOK, SettingsTypeOK, RoiOnSensor, main, node, tof, camera, thread
<1>14. CASE Execute
  BY <1>14, RegionFits, WholeSensor, InputsAreSliders DEF Execute, TypeOK, SettingsTypeOK, RoiOnSensor, main, node, tof, camera, thread
<1>15. CASE Restart
  BY <1>15, RegionFits, WholeSensor, InputsAreSliders DEF Restart, TypeOK, SettingsTypeOK, RoiOnSensor, main, node, tof, camera, thread
<1>16. CASE SendFrame
  BY <1>16, RegionFits, WholeSensor, InputsAreSliders DEF SendFrame, TypeOK, SettingsTypeOK, RoiOnSensor, main, node, tof, camera, thread
<1>17. CASE FirstDatagram
  BY <1>17, RegionFits, WholeSensor, InputsAreSliders DEF FirstDatagram, Receive, TypeOK, SettingsTypeOK, RoiOnSensor, main, node, tof, camera, thread
<1>18. CASE LastDatagram
  BY <1>18, RegionFits, WholeSensor, InputsAreSliders DEF LastDatagram, Receive, TypeOK, SettingsTypeOK, RoiOnSensor, main, node, tof, camera, thread
<1>19. CASE UpdateFrame
  BY <1>19, RegionFits, WholeSensor, InputsAreSliders DEF UpdateFrame, TypeOK, SettingsTypeOK, RoiOnSensor, main, node, tof, camera, thread
<1>20. CASE NoCurrentFrame
  BY <1>20, RegionFits, WholeSensor, InputsAreSliders DEF NoCurrentFrame, Receive, TypeOK, SettingsTypeOK, RoiOnSensor, main, node, tof, camera, thread
<1>21. CASE Delete
  BY <1>21, RegionFits, WholeSensor, InputsAreSliders DEF Delete, TypeOK, SettingsTypeOK, RoiOnSensor, main, node, tof, camera, thread
<1>22. CASE UNCHANGED vars
  BY <1>22 DEF vars, TypeOK, SettingsTypeOK, RoiOnSensor, main, node, tof, camera, thread
<1>23. QED
  BY <1>1, <1>2, <1>3, <1>4, <1>5, <1>6, <1>7, <1>8, <1>9, <1>10, <1>11, <1>12, <1>13, <1>14, <1>15, <1>16, <1>17, <1>18, <1>19, <1>20, <1>21, <1>22 DEF Next, Main, Driver

\* Every step keeps what is known of the place in the script.
LEMMA ScriptStep ==
  ASSUME TypeOK, ScriptInv, [Next]_vars
  PROVE  ScriptInv'
<1>1. CASE UpdateConfig
  BY <1>1, Steps DEF UpdateConfig, TypeOK, MainTypeOK, ScriptInv, main, node, tof, camera, thread
<1>2. CASE Initialise
  BY <1>2, Steps DEF Initialise, TypeOK, MainTypeOK, ScriptInv, main, node, tof, camera, thread
<1>3. CASE Spin
  BY <1>3, Steps DEF Spin, TypeOK, MainTypeOK, ScriptInv, main, node, tof, camera, thread
<1>4. CASE Exit
  BY <1>4, Steps DEF Exit, TypeOK, MainTypeOK, ScriptInv, main, node, tof, camera, thread
<1>5. CASE NothingToStop
  BY <1>5, Steps DEF NothingToStop, Advance, TypeOK, MainTypeOK, ScriptInv, main, node, tof, camera, thread
<1>6. CASE Send
  BY <1>6, Steps DEF Send, Calls, TypeOK, MainTypeOK, ScriptInv, main, node, tof, camera, thread
<1>7. CASE Refused
  BY <1>7, Steps DEF Refused, Calls, Advance, Throw, TypeOK, MainTypeOK, ScriptInv, main, node, tof, camera, thread
<1>8. CASE Acked
  BY <1>8, Steps DEF Acked, Advance, TypeOK, MainTypeOK, ScriptInv, main, node, tof, camera, thread
<1>9. CASE Exhausted
  BY <1>9, Steps DEF Exhausted, Advance, TypeOK, MainTypeOK, ScriptInv, main, node, tof, camera, thread
<1>10. CASE ThrewClosed
  BY <1>10, Steps DEF ThrewClosed, Throw, TypeOK, MainTypeOK, ScriptInv, main, node, tof, camera, thread
<1>11. CASE SameLens
  BY <1>11, Steps DEF SameLens, Advance, TypeOK, MainTypeOK, ScriptInv, main, node, tof, camera, thread
<1>12. CASE BeginLens
  BY <1>12, Steps DEF BeginLens, TypeOK, MainTypeOK, ScriptInv, main, node, tof, camera, thread
<1>13. CASE EndLens
  BY <1>13, Steps DEF EndLens, Advance, TypeOK, MainTypeOK, ScriptInv, main, node, tof, camera, thread
<1>14. CASE Execute
  BY <1>14, Steps DEF Execute, TypeOK, MainTypeOK, ScriptInv, main, node, tof, camera, thread
<1>15. CASE Restart
  BY <1>15, Steps DEF Restart, TypeOK, MainTypeOK, ScriptInv, main, node, tof, camera, thread
<1>16. CASE SendFrame
  BY <1>16, Steps DEF SendFrame, TypeOK, MainTypeOK, ScriptInv, main, node, tof, camera, thread
<1>17. CASE FirstDatagram
  BY <1>17, Steps DEF FirstDatagram, Receive, TypeOK, MainTypeOK, ScriptInv, main, node, tof, camera, thread
<1>18. CASE LastDatagram
  BY <1>18, Steps DEF LastDatagram, Receive, TypeOK, MainTypeOK, ScriptInv, main, node, tof, camera, thread
<1>19. CASE UpdateFrame
  BY <1>19, Steps DEF UpdateFrame, TypeOK, MainTypeOK, ScriptInv, main, node, tof, camera, thread
<1>20. CASE NoCurrentFrame
  BY <1>20, Steps DEF NoCurrentFrame, Receive, TypeOK, MainTypeOK, ScriptInv, main, node, tof, camera, thread
<1>21. CASE Delete
  BY <1>21, Steps DEF Delete, TypeOK, MainTypeOK, ScriptInv, main, node, tof, camera, thread
<1>22. CASE UNCHANGED vars
  BY <1>22 DEF vars, TypeOK, MainTypeOK, ScriptInv, main, node, tof, camera, thread
<1>23. QED
  BY <1>1, <1>2, <1>3, <1>4, <1>5, <1>6, <1>7, <1>8, <1>9, <1>10, <1>11, <1>12, <1>13, <1>14, <1>15, <1>16, <1>17, <1>18, <1>19, <1>20, <1>21, <1>22 DEF Next, Main, Driver

\* Which steps touch what the io thread works with.
LEMMA ThreadSteps ==
  ASSUME [Next]_vars
  PROVE  /\ UNCHANGED net \/ SendFrame \/ FirstDatagram \/ LastDatagram \/ NoCurrentFrame
         /\ \/ UNCHANGED <<frame, io>>
            \/ BeginLens \/ FirstDatagram \/ LastDatagram \/ UpdateFrame
         /\ UNCHANGED shown \/ shown' = NoFrame \/ UpdateFrame
<1>1. CASE Main
  BY <1>1 DEF Main, UpdateConfig, Initialise, Spin, Exit, Delete, NothingToStop, Send, Refused,
              Calls, Acked, Exhausted, ThrewClosed, SameLens, BeginLens, EndLens, thread
<1>2. CASE Execute \/ Restart \/ SendFrame
  BY <1>2 DEF Execute, Restart, SendFrame, thread
<1>3. CASE Driver
  BY <1>3 DEF Driver, FirstDatagram, LastDatagram, NoCurrentFrame, UpdateFrame, Receive
<1>4. CASE UNCHANGED vars
  BY <1>4 DEF vars, thread
<1>5. QED
  BY <1>1, <1>2, <1>3, <1>4 DEF Next

\* The configuration and what the driver has of it only grow.
LEMMA Grows ==
  ASSUME TypeOK, [Next]_vars
  PROVE  config <= config' /\ dataType <= dataType' /\ lens <= lens'
<1>0. {config, dataType, lens} \subseteq Nat /\ dataType <= config /\ lens <= config
  BY BoundsAreNat DEF TypeOK, SettingsTypeOK
<1>1. CASE Main
  BY <1>0, <1>1 DEF Main, UpdateConfig, Initialise, Spin, Exit, Delete, NothingToStop, Send, Refused,
              Calls, Acked, Exhausted, ThrewClosed, SameLens, BeginLens, EndLens, node, tof
<1>2. CASE Execute \/ Restart \/ SendFrame \/ UpdateFrame
  BY <1>0, <1>2 DEF Execute, Restart, SendFrame, UpdateFrame, node, tof
<1>3. CASE FirstDatagram \/ LastDatagram \/ NoCurrentFrame
  <2>1. UNCHANGED <<config, dataType, lens>>
    BY <1>3 DEF FirstDatagram, LastDatagram, NoCurrentFrame, Receive, node, tof
  <2>2. QED
    BY <1>0, <2>1
<1>4. CASE UNCHANGED vars
  BY <1>0, <1>4 DEF vars, node, tof
<1>5. QED
  BY <1>1, <1>2, <1>3, <1>4 DEF Next, Driver

\* The camera's mode changes when a stream command is executed, or to nothing.
LEMMA ModeStep ==
  ASSUME TypeOK, [Next]_vars
  PROVE  \/ mode' = mode
         \/ mode' = 0 /\ Restart
         \/ mode' = config /\ step = 9 /\ Execute
<1>1. CASE Main
  BY <1>1 DEF Main, UpdateConfig, Initialise, Spin, Exit, Delete, NothingToStop, Send, Refused, Calls,
              Acked, Exhausted, ThrewClosed, SameLens, BeginLens, EndLens, camera
<1>2. CASE Execute
  BY <1>2, Steps DEF Execute, TypeOK, MainTypeOK
<1>3. CASE Restart \/ SendFrame \/ UpdateFrame
  BY <1>3 DEF Restart, SendFrame, UpdateFrame, camera
<1>4. CASE FirstDatagram \/ LastDatagram \/ NoCurrentFrame
  <2>1. UNCHANGED camera
    BY <1>4 DEF FirstDatagram, LastDatagram, NoCurrentFrame, Receive
  <2>2. QED
    BY <2>1 DEF camera
<1>5. CASE UNCHANGED vars
  BY <1>5 DEF vars, camera
<1>6. QED
  BY <1>1, <1>2, <1>3, <1>4, <1>5 DEF Next, Driver

\* The types of all numbers that are compared.
LEMMA Numbers ==
  ASSUME TypeOK
  PROVE  /\ {config, dataType, lens, mode} \subseteq Nat
         /\ dataType <= config /\ lens <= config /\ config \in 0..MaxConfigs
         /\ dataType \in 0..MaxConfigs /\ lens \in 0..MaxConfigs
         /\ frame \in Frames /\ shown \in Frames
         /\ \A d \in net : d.taken \in Data /\ d.part \in {"first", "last"}
         /\ lensBusy \in BOOLEAN
BY BoundsAreNat DEF TypeOK, SettingsTypeOK, FramesTypeOK

\* The numbers of data and of frames.
LEMMA FrameNumbers ==
  ASSUME NEW f \in Frames
  PROVE  /\ f.first \in Data /\ f.last \in Data
         /\ f.label \in Nat /\ f.lens \in Nat /\ f.image \in Nat
         /\ f.torn \in BOOLEAN /\ f.headless \in BOOLEAN
BY BoundsAreNat DEF Frames

LEMMA DataNumbers ==
  ASSUME NEW t \in Data
  PROVE  t.gen \in Nat /\ t.halfway \in BOOLEAN
BY BoundsAreNat DEF Data

\* A datagram that is under way was so before, or the camera has just sent it.
LEMMA NetStep ==
  ASSUME [Next]_vars, NEW d \in net'
  PROVE  d \in net \/ (SendFrame /\ d.taken = Taken)
<1>1. CASE SendFrame
  BY <1>1 DEF SendFrame, Datagrams
<1>2. CASE FirstDatagram \/ LastDatagram \/ NoCurrentFrame
  BY <1>2 DEF FirstDatagram, LastDatagram, NoCurrentFrame, Receive
<1>3. QED
  BY <1>1, <1>2, ThreadSteps

\* The two ends of BeforeStream: when a step is in 1..8 afterwards, main began
\* a configuration or was in 1..8 before.
LEMMA Progress ==
  ASSUME TypeOK, ScriptInv, [Next]_vars, step' \in 1..8, caller' # "exit"
  PROVE  \/ config' = config + 1 /\ UNCHANGED <<mode, frame, net>>
         \/ step \in 1..8 /\ caller # "exit" /\ config' = config
<1>1. CASE UpdateConfig
  BY <1>1, Steps DEF UpdateConfig, TypeOK, MainTypeOK, ScriptInv, main, node, camera, thread
<1>2. CASE Initialise
  BY <1>2, Steps DEF Initialise, TypeOK, MainTypeOK, ScriptInv, main, node, camera, thread
<1>3. CASE Spin
  BY <1>3, Steps DEF Spin, TypeOK, MainTypeOK, ScriptInv, main, node, camera, thread
<1>4. CASE Exit
  BY <1>4, Steps DEF Exit, TypeOK, MainTypeOK, ScriptInv, main, node, camera, thread
<1>5. CASE NothingToStop
  BY <1>5, Steps DEF NothingToStop, Advance, TypeOK, MainTypeOK, ScriptInv, main, node, camera, thread
<1>6. CASE Send
  BY <1>6, Steps DEF Send, Calls, TypeOK, MainTypeOK, ScriptInv, main, node, camera, thread
<1>7. CASE Refused
  BY <1>7, Steps DEF Refused, Calls, Advance, Throw, TypeOK, MainTypeOK, ScriptInv, main, node, camera, thread
<1>8. CASE Acked
  BY <1>8, Steps DEF Acked, Advance, TypeOK, MainTypeOK, ScriptInv, main, node, camera, thread
<1>9. CASE Exhausted
  BY <1>9, Steps DEF Exhausted, Advance, TypeOK, MainTypeOK, ScriptInv, main, node, camera, thread
<1>10. CASE ThrewClosed
  BY <1>10, Steps DEF ThrewClosed, Throw, TypeOK, MainTypeOK, ScriptInv, main, node, camera, thread
<1>11. CASE SameLens
  BY <1>11, Steps DEF SameLens, Advance, TypeOK, MainTypeOK, ScriptInv, main, node, camera, thread
<1>12. CASE BeginLens
  BY <1>12, Steps DEF BeginLens, TypeOK, MainTypeOK, ScriptInv, main, node, camera, thread
<1>13. CASE EndLens
  BY <1>13, Steps DEF EndLens, Advance, TypeOK, MainTypeOK, ScriptInv, main, node, camera, thread
<1>14. CASE Execute
  BY <1>14, Steps DEF Execute, TypeOK, MainTypeOK, ScriptInv, main, node, camera, thread
<1>15. CASE Restart
  BY <1>15, Steps DEF Restart, TypeOK, MainTypeOK, ScriptInv, main, node, camera, thread
<1>16. CASE SendFrame
  BY <1>16, Steps DEF SendFrame, TypeOK, MainTypeOK, ScriptInv, main, node, camera, thread
<1>17. CASE FirstDatagram
  BY <1>17, Steps DEF FirstDatagram, Receive, TypeOK, MainTypeOK, ScriptInv, main, node, camera, thread
<1>18. CASE LastDatagram
  BY <1>18, Steps DEF LastDatagram, Receive, TypeOK, MainTypeOK, ScriptInv, main, node, camera, thread
<1>19. CASE UpdateFrame
  BY <1>19, Steps DEF UpdateFrame, TypeOK, MainTypeOK, ScriptInv, main, node, camera, thread
<1>20. CASE NoCurrentFrame
  BY <1>20, Steps DEF NoCurrentFrame, Receive, TypeOK, MainTypeOK, ScriptInv, main, node, camera, thread
<1>21. CASE Delete
  BY <1>21, Steps DEF Delete, TypeOK, MainTypeOK, ScriptInv, main, node, camera, thread
<1>22. CASE UNCHANGED vars
  BY <1>22 DEF vars, main, node, camera, thread
<1>23. QED
  BY <1>1, <1>2, <1>3, <1>4, <1>5, <1>6, <1>7, <1>8, <1>9, <1>10, <1>11, <1>12, <1>13, <1>14, <1>15, <1>16, <1>17, <1>18, <1>19, <1>20, <1>21, <1>22 DEF Next, Main, Driver

\* A frame keeps what its datagrams put into it.
LEMMA FrameStep ==
  ASSUME TypeOK, [Next]_vars
  PROVE  /\ \/ frame'.first = frame.first
            \/ \E d \in net : frame'.first = d.taken
         /\ \/ frame'.last \in {frame.last, NoData}
            \/ \E d \in net : frame'.last = d.taken
<1>1. CASE UNCHANGED <<frame, io>> \/ UpdateFrame
  BY <1>1 DEF UpdateFrame
<1>2. CASE BeginLens
  <2> DEFINE b == frame.torn \/ io = "compute"
  <2>1. frame' = [frame EXCEPT !.torn = b] /\ b \in BOOLEAN /\ frame \in Frames
    BY <1>2, Numbers DEF BeginLens
  <2> HIDE DEF b
  <2>2. QED
    BY <2>1, Torn
<1>3. CASE FirstDatagram
  BY <1>3, Begins
<1>4. CASE LastDatagram
  BY <1>4, Completes
<1>5. QED
  BY <1>1, <1>2, <1>3, <1>4, ThreadSteps

\* A last datagram still finds its first one under way, or a label as new as it.
LEMMA HeadStep ==
  ASSUME TypeOK, OrderInv, [Next]_vars, NEW d \in net', d.part = "last"
  PROVE  Headless(d)' \/ d.taken.gen <= frame'.label
<1>1. /\ \A e \in net : e.taken.gen \in Nat /\ e.taken.gen <= dataType
      /\ frame \in Frames /\ frame.label \in Nat /\ dataType \in Nat /\ frame.label <= dataType
  BY Numbers, FrameNumbers, DataNumbers DEF OrderInv
<1>2. CASE SendFrame
  <2>1. net' = net \cup Datagrams(frames + 1) /\ UNCHANGED frame
    BY <1>2 DEF SendFrame
  <2>2. CASE d \in net
    BY <2>1, <2>2 DEF OrderInv, Headless
  <2>3. CASE d \in Datagrams(frames + 1)
    <3>1. [d EXCEPT !.part = "first"] \in Datagrams(frames + 1)
      BY <2>3 DEF Datagrams
    <3>2. QED
      BY <2>1, <3>1 DEF Headless
  <2>4. QED
    BY <2>1, <2>2, <2>3
<1>3. CASE FirstDatagram
  <2>1. d \in net /\ frame'.label = dataType
    BY <1>3, Begins DEF Receive
  <2>2. QED
    BY <1>1, <2>1
<1>4. CASE LastDatagram \/ NoCurrentFrame
  <2>1. PICK e \in net : e.part = "last" /\ net' = net \ {e}
    BY <1>4 DEF LastDatagram, NoCurrentFrame, Receive
  <2>2. ASSUME Headless(d) PROVE Headless(d)'
    <3>1. [d EXCEPT !.part = "first"].part = "first"
      BY <2>1 DEF TypeOK, FramesTypeOK
    <3>2. QED
      BY <2>1, <2>2, <3>1 DEF Headless
  <2>3. frame'.label = frame.label
    <3>1. CASE LastDatagram
      BY <3>1, Completes
    <3>2. CASE NoCurrentFrame
      BY <3>2 DEF NoCurrentFrame
    <3>3. QED
      BY <1>4, <3>1, <3>2
  <2>4. QED
    BY <2>1, <2>2, <2>3 DEF OrderInv
<1>5. CASE UNCHANGED net
  <2>1. frame'.label = frame.label \/ FirstDatagram \/ LastDatagram
    <3>1. CASE BeginLens
      <4> DEFINE b == frame.torn \/ io = "compute"
      <4>1. frame' = [frame EXCEPT !.torn = b] /\ b \in BOOLEAN
        BY <3>1 DEF BeginLens
      <4> HIDE DEF b
      <4>2. QED
        BY <1>1, <4>1, Torn
    <3>2. QED
      BY <3>1, ThreadSteps DEF UpdateFrame
  <2>2. QED
    BY <1>3, <1>4, <1>5, <2>1 DEF OrderInv, Headless
<1>6. QED
  BY <1>2, <1>3, <1>4, <1>5, ThreadSteps

\* Every step keeps the order of configurations.
LEMMA OrderStep ==
  ASSUME TypeOK, TypeOK', ScriptInv, OrderInv, BeforeStream, [Next]_vars
  PROVE  OrderInv'
<1>1. /\ config <= config' /\ dataType <= dataType' /\ lens <= lens'
      /\ {config, dataType, lens, mode, config', dataType', lens', mode'} \subseteq Nat
      /\ dataType <= config /\ lens <= config
  BY Grows, Numbers DEF TypeOK, SettingsTypeOK
<1>2. mode' <= dataType' /\ mode' <= lens'
  <2>1. CASE mode' = mode
    BY <1>1, <2>1 DEF OrderInv
  <2>2. CASE mode' = 0
    BY <1>1, <2>2
  <2>3. CASE mode' = config /\ step = 9 /\ Execute
    BY <1>1, <2>3 DEF Execute, ScriptInv, tof
  <2>4. QED
    BY <2>1, <2>2, <2>3, ModeStep
<1>3. ASSUME NEW d \in net'
      PROVE  d.taken.gen <= dataType' /\ d.taken.gen <= lens'
  <2>1. CASE d \in net
    BY <1>1, <2>1, Numbers, DataNumbers DEF OrderInv
  <2>2. CASE SendFrame /\ d.taken = Taken
    BY <1>1, <2>2, TakenType DEF OrderInv, SendFrame, tof
  <2>3. QED
    BY <2>1, <2>2, NetStep
<1>4. /\ frame'.first.gen <= frame'.label /\ frame'.label <= dataType'
      /\ frame'.first.gen <= lens' /\ frame'.last.gen <= lens'
      /\ frame'.label < frame'.last.gen => frame'.headless
      /\ io' = "compute" => frame'.first.gen <= frame'.lens /\ frame'.last.gen <= frame'.lens
      /\ frame'.torn => frame'.first.gen < config' /\ frame'.last.gen < config'
  <2>0. /\ frame \in Frames /\ frame.first.gen \in Nat /\ frame.last.gen \in Nat
        /\ frame.label \in Nat /\ frame.lens \in Nat /\ frame.torn \in BOOLEAN
    BY Numbers, FrameNumbers, DataNumbers
  <2>1. CASE UNCHANGED <<frame, io>>
    BY <1>1, <2>0, <2>1 DEF OrderInv
  <2>2. CASE BeginLens
    <3>1. step = 7 /\ caller # "exit"
      BY <2>2, Steps DEF BeginLens, TypeOK, MainTypeOK, ScriptInv
    <3>2. frame.first.gen < config /\ frame.last.gen < config
      BY <3>1 DEF BeforeStream
    <3> DEFINE b == frame.torn \/ io = "compute"
    <3>3. frame' = [frame EXCEPT !.torn = b] /\ b \in BOOLEAN
      BY <2>2 DEF BeginLens
    <3> HIDE DEF b
    <3>4. /\ frame'.first = frame.first /\ frame'.last = frame.last
          /\ frame'.label = frame.label /\ frame'.lens = frame.lens
          /\ frame'.headless = frame.headless
      BY <2>0, <3>3, Torn
    <3>5. UNCHANGED <<io, node, lens, dataType>>
      BY <2>2 DEF BeginLens
    <3>6. QED
      BY <1>1, <2>0, <3>2, <3>4, <3>5 DEF OrderInv, node
  <2>3. CASE FirstDatagram
    <3>1. PICK d \in net :
            /\ Receive(d, "first") /\ d.taken \in Data /\ UNCHANGED <<crashed, io>>
            /\ frame' \in Frames /\ frame'.first = d.taken /\ frame'.last = NoData
            /\ frame'.label = dataType /\ ~frame'.torn
      BY <2>3, Begins
    <3>2. /\ frame'.first = d.taken /\ frame'.label = dataType
          /\ frame'.last.gen = 0 /\ ~frame'.torn
      BY <3>1 DEF NoData
    <3>3. d.taken.gen \in Nat /\ d.taken.gen <= dataType /\ d.taken.gen <= lens
      BY <3>1, Numbers, DataNumbers DEF OrderInv
    <3>4. UNCHANGED <<dataType, lens, config>> /\ io' = "receive"
      BY <3>1 DEF Receive, tof, node
    <3>5. QED
      BY <1>1, <3>2, <3>3, <3>4
  <2>4. CASE LastDatagram
    <3>1. PICK d \in net :
            /\ Receive(d, "last") /\ d.taken \in Data /\ io' = "compute" /\ UNCHANGED crashed
            /\ frame' \in Frames /\ frame'.first = frame.first /\ frame'.last = d.taken
            /\ frame'.label = frame.label /\ frame'.lens = lens
            /\ (frame'.headless <=> Headless(d)) /\ (frame'.torn <=> lensBusy)
      BY <2>4, Completes
    <3>2. d.taken.gen \in Nat
      BY <3>1, DataNumbers
    <3>3. /\ d.taken.gen <= lens /\ (Headless(d) \/ d.taken.gen <= frame.label)
      BY <3>1 DEF OrderInv, Receive
    <3>4. lensBusy => frame.first.gen < config /\ d.taken.gen < config
      BY <3>1 DEF ScriptInv, BeforeStream
    <3>5. UNCHANGED <<dataType, lens, config>>
      BY <3>1 DEF Receive, tof, node
    <3>6. QED
      BY <1>1, <2>0, <3>1, <3>2, <3>3, <3>4, <3>5 DEF OrderInv
  <2>5. CASE UpdateFrame
    BY <1>1, <2>0, <2>5 DEF OrderInv, UpdateFrame, tof, node
  <2>6. QED
    BY <2>1, <2>2, <2>3, <2>4, <2>5, ThreadSteps
<1>5. \A d \in net' : d.part = "last" => Headless(d)' \/ d.taken.gen <= frame'.label
  BY HeadStep
<1>6. QED
  BY <1>2, <1>3, <1>4, <1>5 DEF OrderInv

\* Every step keeps what precedes the stream command older than the configuration.
LEMMA BeforeStep ==
  ASSUME TypeOK, TypeOK', ScriptInv, OrderInv, BeforeStream, [Next]_vars
  PROVE  BeforeStream'
<1> SUFFICES ASSUME step' \in 1..8, caller' # "exit"
             PROVE  /\ mode' < config'
                    /\ frame'.first.gen < config' /\ frame'.last.gen < config'
                    /\ \A d \in net' : d.taken.gen < config'
  BY DEF BeforeStream
<1>1. /\ {config, dataType, lens, mode} \subseteq Nat /\ dataType <= config /\ lens <= config
      /\ frame.first.gen \in Nat /\ frame.last.gen \in Nat
      /\ \A d \in net : d.taken.gen \in Nat
  BY Numbers, FrameNumbers, DataNumbers
<1>2. CASE config' = config + 1 /\ UNCHANGED <<mode, frame, net>>
  BY <1>1, <1>2 DEF OrderInv
<1>3. CASE step \in 1..8 /\ caller # "exit" /\ config' = config
  <2>1. /\ mode < config /\ frame.first.gen < config /\ frame.last.gen < config
        /\ \A d \in net : d.taken.gen < config
    BY <1>3 DEF BeforeStream
  <2>2. mode' < config
    BY <1>1, <1>3, <2>1, ModeStep
  <2>3. frame'.first.gen < config /\ frame'.last.gen < config
    <3>1. NoData.gen < config
      BY <1>1, <2>1 DEF NoData
    <3>2. QED
      BY <2>1, <3>1, FrameStep
  <2>4. ASSUME NEW d \in net'
        PROVE  d.taken.gen < config
    BY <2>1, <2>4, TakenType, NetStep
  <2>5. QED
    BY <1>3, <2>2, <2>3, <2>4
<1>4. QED
  BY <1>2, <1>3, Progress

\* What is sent is not taken half-way, and stays so.
LEMMA CleanStep ==
  ASSUME TypeOK, AgreeInv, CleanInv, [Next]_vars
  PROVE  CleanInv'
<1>1. ASSUME SendFrame
      PROVE  ~Taken.halfway
  BY <1>1 DEF SendFrame, Taken, AgreeInv
<1>2. ASSUME NEW d \in net'
      PROVE  ~d.taken.halfway
  BY <1>1, <1>2, NetStep DEF CleanInv
<1>3. ~NoData.halfway
  BY DEF NoData
<1>4. ~frame'.first.halfway /\ ~frame'.last.halfway
  BY <1>3, FrameStep DEF CleanInv
<1>5. QED
  BY <1>2, <1>4 DEF CleanInv

\* What is published has these properties when updateFrame gets it.
LEMMA ShownStep ==
  ASSUME TypeOK, OrderInv, CleanInv, PublishedNotOlder, SettingsTogether, [Next]_vars
  PROVE  PublishedNotOlder' /\ SettingsTogether'
<1>1. CASE UNCHANGED shown
  BY <1>1 DEF PublishedNotOlder, SettingsTogether
<1>2. CASE UpdateFrame /\ subscribed
  <2>1. shown' = [frame EXCEPT !.image = config] /\ io = "compute"
    BY <1>2 DEF UpdateFrame
  <2>2. /\ shown'.image = config /\ shown'.first = frame.first /\ shown'.last = frame.last
        /\ shown'.label = frame.label /\ shown'.lens = frame.lens
        /\ shown'.torn = frame.torn /\ shown'.headless = frame.headless
    BY <2>1, Numbers, Sorted
  <2>3. frame.label <= config
    BY Numbers, FrameNumbers DEF OrderInv
  <2>4. QED
    BY <2>1, <2>2, <2>3 DEF OrderInv, CleanInv, PublishedNotOlder, SettingsTogether
<1>3. CASE shown' = NoFrame
  BY <1>3, BoundsAreNat DEF NoFrame, NoData, PublishedNotOlder, SettingsTogether
<1>4. QED
  BY <1>1, <1>2, <1>3, ThreadSteps DEF UpdateFrame

\* What Advance does, by the number of the step.
LEMMA AdvanceStep ==
  ASSUME TypeOK, ScriptInv, Advance, step # 0
  PROVE  /\ command' = "none"
         /\ \/ step \in 1..8 /\ step' = step + 1 /\ caller # "exit" /\ caller' = caller
            \/ step = 9 /\ step' = 0 /\ caller # "exit" /\ caller' = caller
            \/ step = 1 /\ step' = 0 /\ caller = "exit" /\ caller' = "deleting"
         /\ isStreaming' <=> step = 9 \/ (isStreaming /\ step # 1)
<1>1. step \in 1..9 /\ Len(Script) = 9 /\ (caller = "exit" => step = 1)
  BY Steps DEF TypeOK, MainTypeOK, ScriptInv
<1>2. /\ command' = "none"
      /\ \/ step \in 1..8 /\ step' = step + 1 /\ caller # "exit" /\ caller' = caller
         \/ step = 9 /\ step' = 0 /\ caller # "exit" /\ caller' = caller
         \/ step = 1 /\ step' = 0 /\ caller = "exit" /\ caller' = "deleting"
  BY <1>1 DEF Advance
<1>3. (Doing("stop") <=> step = 1) /\ (Doing("stream") <=> step = 9)
  BY Steps DEF TypeOK, MainTypeOK
<1>4. isStreaming' = (Doing("stream") \/ (isStreaming /\ ~Doing("stop")))
  BY DEF Advance
<1>5. isStreaming' <=> step = 9 \/ (isStreaming /\ step # 1)
  <2> DEFINE b == Doing("stream") \/ (isStreaming /\ ~Doing("stop"))
  <2>1. b \in BOOLEAN /\ (b <=> step = 9 \/ (isStreaming /\ step # 1))
    BY <1>3
  <2>2. isStreaming' = b
    BY <1>4
  <2> HIDE DEF b
  <2>3. QED
    BY <2>1, <2>2
<1>6. QED
  BY <1>2, <1>5

\* Advance leaves nothing unwritten behind a step that was executed, or that
\* writes no register.
LEMMA AdvanceWrites ==
  ASSUME TypeOK, ScriptInv, Advance, step # 0, command = "executed" \/ step \in {1, 7},
         NEW r \in Registers, Written(r)'
  PROVE  Written(r)
<1>1. Place[r] \in 2..8 \ {7} /\ step \in 0..9
  BY Steps DEF TypeOK, MainTypeOK
<1>2. step' > Place[r]
  BY AdvanceStep DEF Written
<1>3. step' = step + 1
  BY <1>1, <1>2, AdvanceStep
<1>4. QED
  BY <1>1, <1>2, <1>3 DEF Written

\* Every step keeps the agreement of driver and camera.
LEMMA AgreeStep ==
  ASSUME TypeOK, ScriptInv, AgreeInv, [Next]_vars
  PROVE  AgreeInv'
<1>1. CASE UpdateConfig
  <2>1. /\ step = 0 /\ step' = 1 /\ command = "none" /\ command' = "none"
        /\ caller \in {"main", "spin"} /\ caller' \in {"setCallback", "spin"}
        /\ UNCHANGED <<isStreaming, camera, doubt>>
    BY <1>1 DEF UpdateConfig, TypeOK, MainTypeOK, ScriptInv, tof
  <2>2. "roi" \in Registers /\ \A r \in Registers : ~Written(r)'
    BY <2>1, Steps DEF Written, TypeOK, MainTypeOK
  <2>3. QED
    BY <2>1, <2>2 DEF AgreeInv, camera
<1>2. CASE Initialise
  BY <1>2, Steps DEF Initialise, TypeOK, MainTypeOK, SettingsTypeOK, ScriptInv, AgreeInv, Written, main, node, tof, camera
<1>3. CASE Spin
  BY <1>3, Steps DEF Spin, TypeOK, MainTypeOK, SettingsTypeOK, ScriptInv, AgreeInv, Written, main, node, tof, camera
<1>4. CASE Exit
  BY <1>4, Steps DEF Exit, TypeOK, MainTypeOK, SettingsTypeOK, ScriptInv, AgreeInv, Written, main, node, tof, camera
<1>5. CASE NothingToStop
  <2>1. Advance /\ step # 0 /\ step = 1 /\ ~isStreaming /\ command = "none"
    BY <1>5, Steps DEF NothingToStop, TypeOK, MainTypeOK, ScriptInv
  <2>2. UNCHANGED <<config, roi, camera>> /\ doubt' = doubt
    BY <1>5, Steps DEF NothingToStop, node, TypeOK, MainTypeOK
  <2>3. \A r \in Registers : Written(r)' => Written(r)
    BY <2>1, AdvanceWrites
  <2>4. QED
    BY <2>1, <2>2, <2>3, AdvanceStep, Steps DEF AgreeInv, camera, Written, TypeOK, MainTypeOK
<1>6. CASE Send
  BY <1>6, Steps DEF Send, Calls, TypeOK, MainTypeOK, SettingsTypeOK, ScriptInv, AgreeInv, Written, main, node, tof, camera
<1>7. CASE Refused
  BY <1>7, Steps DEF Refused, Calls, Advance, Throw, TypeOK, MainTypeOK, SettingsTypeOK, ScriptInv, AgreeInv, Written, main, node, tof, camera
<1>8. CASE Acked
  <2>1. Advance /\ step # 0 /\ command = "executed"
    BY <1>8, Steps DEF Acked, TypeOK, MainTypeOK, ScriptInv
  <2>2. UNCHANGED <<config, roi, camera>> /\ doubt' = (doubt /\ step # 1)
    BY <1>8, Steps DEF Acked, node, TypeOK, MainTypeOK
  <2>3. \A r \in Registers : Written(r)' => Written(r)
    BY <2>1, AdvanceWrites
  <2>4. doubt' <=> doubt /\ step # 1
    BY <2>2
  <2>5. /\ command' = "none"
        /\ \/ step \in 1..8 /\ step' = step + 1 /\ caller # "exit" /\ caller' = caller
           \/ step = 9 /\ step' = 0 /\ caller # "exit" /\ caller' = caller
           \/ step = 1 /\ step' = 0 /\ caller = "exit" /\ caller' = "deleting"
        /\ isStreaming' <=> step = 9 \/ (isStreaming /\ step # 1)
    BY <2>1, AdvanceStep
  <2>6. CASE step = 1
    <3>1. ~streaming' /\ command' = "none"
      BY <2>1, <2>2, <2>6, <2>5 DEF AgreeInv, camera
    <3>2. \A r \in Registers : ~Written(r)
      BY <2>6, Steps DEF Written, TypeOK, MainTypeOK
    <3>3. "roi" \in Registers
      BY DEF Registers
    <3>4. step' # 9 /\ ~(step' = 0 /\ caller' \in {"setCallback", "initialise", "spin"})
      BY <2>5, <2>6
    <3>5. QED
      BY <2>3, <3>1, <3>2, <3>3, <3>4 DEF AgreeInv
  <2>7. CASE step # 1
    <3>1. /\ doubt' <=> doubt
          /\ isStreaming' <=> step = 9 \/ isStreaming
          /\ UNCHANGED <<registers, mode, streaming, cameraRoi, roi, config>>
      BY <2>2, <2>4, <2>5, <2>7 DEF camera
    <3>2. /\ step' # 1
          /\ step' = 0 => step = 9 /\ caller' \notin {"deleting", "ended"}
          /\ streaming /\ ~doubt => step = 9
      <4>1. step \in 2..9 /\ caller \notin {"deleting", "ended"}
        BY <2>1, <2>7, Steps DEF TypeOK, MainTypeOK, ScriptInv
      <4>2. streaming /\ ~doubt => step = 9
        BY <2>1, <2>7 DEF AgreeInv
      <4>3. QED
        BY <2>5, <2>7, <4>1, <4>2
    <3>3. "roi" \in Registers
      BY DEF Registers
    <3>4. ASSUME ~doubt, step = 9
          PROVE  streaming /\ mode = config /\ cameraRoi = roi
      BY <2>1, <3>3, <3>4, Steps DEF AgreeInv, Written, TypeOK, MainTypeOK
    <3>5. command' = "none"
      BY <2>5
    <3>6. streaming' /\ ~doubt' => isStreaming' /\ step' = 0
      BY <3>1, <3>2, <2>5
    <3>7. SUFFICES ASSUME ~doubt'
          PROVE  /\ \A r \in Registers : Written(r)' => registers'[r] = config'
                 /\ Written("roi")' => cameraRoi' = roi'
                 /\ streaming' => \A r \in Registers : registers'[r] = mode'
                 /\ step' = 0 => streaming' /\ mode' = config' /\ cameraRoi' = roi'
      BY <3>2, <3>5, <3>6 DEF AgreeInv
    <3>8. ~doubt
      BY <3>1, <3>7
    <3>9. \A r \in Registers : Written(r)' => registers'[r] = config'
      BY <2>3, <3>1, <3>8 DEF AgreeInv
    <3>10. Written("roi")' => cameraRoi' = roi'
      BY <2>3, <3>1, <3>3, <3>8 DEF AgreeInv
    <3>11. streaming' => \A r \in Registers : registers'[r] = mode'
      BY <3>1, <3>8 DEF AgreeInv
    <3>12. step' = 0 => streaming' /\ mode' = config' /\ cameraRoi' = roi'
      BY <3>1, <3>2, <3>4, <3>8
    <3>13. QED
      BY <3>9, <3>10, <3>11, <3>12
  <2>8. QED
    BY <2>6, <2>7
<1>9. CASE Exhausted
  BY <1>9, Steps DEF Exhausted, Advance, TypeOK, MainTypeOK, SettingsTypeOK, ScriptInv, AgreeInv, Written, main, node, tof, camera
<1>10. CASE ThrewClosed
  BY <1>10, Steps DEF ThrewClosed, Throw, TypeOK, MainTypeOK, SettingsTypeOK, ScriptInv, AgreeInv, Written, main, node, tof, camera
<1>11. CASE SameLens
  <2>1. Advance /\ step # 0 /\ step = 7 /\ command = "none"
    BY <1>11, Steps DEF SameLens, TypeOK, MainTypeOK, ScriptInv
  <2>2. UNCHANGED <<config, roi, camera>> /\ doubt' = doubt
    BY <1>11, Steps DEF SameLens, node, TypeOK, MainTypeOK
  <2>3. \A r \in Registers : Written(r)' => Written(r)
    BY <2>1, AdvanceWrites
  <2>4. QED
    BY <2>1, <2>2, <2>3, AdvanceStep, Steps DEF AgreeInv, camera, Written, TypeOK, MainTypeOK
<1>12. CASE BeginLens
  BY <1>12, Steps DEF BeginLens, TypeOK, MainTypeOK, SettingsTypeOK, ScriptInv, AgreeInv, Written, main, node, tof, camera
<1>13. CASE EndLens
  <2>1. Advance /\ step # 0 /\ step = 7 /\ command = "none"
    BY <1>13, Steps DEF EndLens, TypeOK, MainTypeOK, ScriptInv
  <2>2. UNCHANGED <<config, roi, camera>> /\ doubt' = doubt
    BY <1>13, Steps DEF EndLens, node, TypeOK, MainTypeOK
  <2>3. \A r \in Registers : Written(r)' => Written(r)
    BY <2>1, AdvanceWrites
  <2>4. QED
    BY <2>1, <2>2, <2>3, AdvanceStep, Steps DEF AgreeInv, camera, Written, TypeOK, MainTypeOK
<1>14. CASE Execute
  <2>1. step \in 1..9 \ {7} /\ UNCHANGED <<step, caller, config, roi, isStreaming, doubt>>
    BY <1>14, Steps DEF Execute, TypeOK, MainTypeOK, ScriptInv, node, tof
  <2>2. /\ streaming' <=> step = 9 \/ (streaming /\ step # 1)
        /\ mode' = IF step = 9 THEN config ELSE mode
        /\ command = "pending" /\ command' = "executed"
    BY <1>14, Steps DEF Execute, TypeOK, MainTypeOK
  <2>3. ASSUME NEW r \in Registers
        PROVE  /\ registers'[r] = IF step = Place[r] THEN config ELSE registers[r]
               /\ Written(r)' <=> Written(r) \/ step = Place[r]
               /\ step = 9 => Written(r) /\ step # Place[r]
    BY <1>14, <2>1, <2>2, <2>3, Steps DEF Execute, TypeOK, MainTypeOK, Written
  <2>4. cameraRoi' = IF step = Place["roi"] THEN roi ELSE cameraRoi
    BY <1>14, Steps DEF Execute, TypeOK, MainTypeOK
  <2>5. QED
    BY <2>1, <2>2, <2>3, <2>4, Steps DEF AgreeInv, TypeOK, MainTypeOK
<1>15. CASE Restart
  BY <1>15, Steps DEF Restart, TypeOK, MainTypeOK, SettingsTypeOK, ScriptInv, AgreeInv, Written, main, node, tof, camera
<1>16. CASE SendFrame
  BY <1>16, Steps DEF SendFrame, TypeOK, MainTypeOK, SettingsTypeOK, ScriptInv, AgreeInv, Written, main, node, tof, camera
<1>17. CASE FirstDatagram
  BY <1>17, Steps DEF FirstDatagram, Receive, TypeOK, MainTypeOK, SettingsTypeOK, ScriptInv, AgreeInv, Written, main, node, tof, camera
<1>18. CASE LastDatagram
  BY <1>18, Steps DEF LastDatagram, Receive, TypeOK, MainTypeOK, SettingsTypeOK, ScriptInv, AgreeInv, Written, main, node, tof, camera
<1>19. CASE UpdateFrame
  BY <1>19, Steps DEF UpdateFrame, TypeOK, MainTypeOK, SettingsTypeOK, ScriptInv, AgreeInv, Written, main, node, tof, camera
<1>20. CASE NoCurrentFrame
  BY <1>20, Steps DEF NoCurrentFrame, Receive, TypeOK, MainTypeOK, SettingsTypeOK, ScriptInv, AgreeInv, Written, main, node, tof, camera
<1>21. CASE Delete
  BY <1>21, Steps DEF Delete, TypeOK, MainTypeOK, SettingsTypeOK, ScriptInv, AgreeInv, Written, main, node, tof, camera
<1>22. CASE UNCHANGED vars
  BY <1>22 DEF vars, AgreeInv, Written, main, node, tof, camera
<1>23. QED
  BY <1>1, <1>2, <1>3, <1>4, <1>5, <1>6, <1>7, <1>8, <1>9, <1>10, <1>11, <1>12, <1>13, <1>14, <1>15, <1>16, <1>17, <1>18, <1>19, <1>20, <1>21, <1>22 DEF Next, Main, Driver

-------------------------------------------------------------------------------
(* The theorems *)

\* The strengthened invariant holds in every reachable state.
THEOREM Invariance == Spec => []IInv
<1>1. Init => IInv
  <2> SUFFICES ASSUME Init PROVE IInv
    OBVIOUS
  <2>1. TypeOK
    <3>1. NoFrame \in Frames
      BY NoFrameType
    <3>2. roi \in Regions /\ cameraRoi \in Regions /\ sliders \in Sliders
      BY WholeSensor DEF Init, Sliders
    <3>3. MainTypeOK
      BY ScriptLength DEF Init, MainTypeOK
    <3>4. SettingsTypeOK
      <4>1. /\ isStreaming \in BOOLEAN /\ lensBusy \in BOOLEAN /\ streaming \in BOOLEAN
            /\ subscribed \in BOOLEAN
        BY DEF Init
      <4>2. config \in 0..MaxConfigs /\ {dataType, lens, mode} \subseteq 0..config
        BY BoundsAreNat DEF Init
      <4>3. registers \in [Registers -> 0..config]
        BY DEF Init
      <4>4. QED
        BY <4>1, <4>2, <4>3, <3>2 DEF SettingsTypeOK
    <3>5. FramesTypeOK
      BY <3>1 DEF Init, FramesTypeOK
    <3>6. QED
      BY <3>3, <3>4, <3>5 DEF TypeOK
  <2>2. RoiOnSensor
    <3>1. Region(sliders) = roi /\ Shown(sliders) = sliders
      BY DEF Init, Region, Shown, RightEdge, Height, Even4
    <3>2. QED
      BY <3>1, WholeSensor DEF Init, RoiOnSensor
  <2>3. ScriptInv
    BY DEF Init, ScriptInv
  <2>4. OrderInv /\ PublishedNotOlder /\ SettingsTogether /\ CleanInv
    BY DEF Init, OrderInv, PublishedNotOlder, SettingsTogether, CleanInv, NoFrame, NoData
  <2>5. BeforeStream
    BY DEF Init, BeforeStream
  <2>6. AgreeInv
    BY Steps DEF Init, AgreeInv, Written
  <2>7. QED
    BY <2>1, <2>2, <2>3, <2>4, <2>5, <2>6 DEF IInv
<1>2. IInv /\ [Next]_vars => IInv'
  <2> SUFFICES ASSUME IInv, [Next]_vars PROVE IInv'
    OBVIOUS
  <2>1. TypeOK'
    BY MainTypeStep, SettingsTypeStep, FramesTypeStep DEF IInv, TypeOK
  <2>2. QED
    BY <2>1, RoiStep, ScriptStep, OrderStep, BeforeStep, AgreeStep, CleanStep, ShownStep DEF IInv
<1>3. QED
  BY <1>1, <1>2, PTL DEF Spec

\* A node that waits or has ended, and has no doubt about the camera, has a
\* camera that follows it.
LEMMA Follows == IInv => CameraFollowsNode
<1> SUFFICES ASSUME IInv, step = 0, ~doubt
             PROVE  /\ caller = "spin" =>
                         /\ streaming /\ mode = config
                         /\ \A r \in Registers : registers[r] = config
                         /\ cameraRoi = roi
                    /\ caller \in {"deleting", "ended"} => ~streaming
  BY DEF CameraFollowsNode
<1>1. QED
  BY DEF IInv, AgreeInv

\* For any slider positions and any numbers of configurations, frames and
\* faults: the region of interest stays on the sensor and is shown as it is
\* (limu_camera_node.cpp:203-214).
THEOREM RegionSafety == Spec => [](TypeOK /\ RoiOnSensor)
<1>1. IInv => TypeOK /\ RoiOnSensor
  BY DEF IInv
<1>2. QED
  BY <1>1, Invariance, PTL

\* The types of node, camera and frames.
THEOREM TypeCorrect == Spec => []TypeOK
BY RegionSafety, PTL

\* The camera has the whole of the last configuration, or the node had a reason
\* to doubt it (setParameters and startStreaming).
THEOREM ConfigurationSafety == Spec => []CameraFollowsNode
BY Invariance, Follows, PTL

\* Whatever datagrams are lost or late: what updateFrame publishes was labelled,
\* computed and sorted under the configuration it was taken with or a later one,
\* but for the label of a frame whose own first datagram had not come.
THEOREM PublishedSafety == Spec => [](SettingsTogether /\ PublishedNotOlder)
<1>1. IInv => SettingsTogether /\ PublishedNotOlder
  BY DEF IInv
<1>2. QED
  BY <1>1, Invariance, PTL

\* No datagram of a published frame was taken half-way through a configuration
\* (setParameters stops the stream before its first command).
THEOREM TakenTogether == Spec => []SettingsTogether
BY PublishedSafety, PTL
===============================================================================
