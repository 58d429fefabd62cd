---------------------------- MODULE LimuCameraNode ----------------------------
(***************************************************************************)
(* The ROS 1 node (samples/ros/src/limu_tof_ros/src/limu_camera_node.cpp): *)
(* its main thread configures the camera, first from main and then from    *)
(* the dynamic-reconfigure callback, while the io thread of the driver     *)
(* computes and publishes frames.  Both use the same global settings and   *)
(* the same ToF320 object without a lock.                                  *)
(*                                                                         *)
(* Configurations are numbered: the settings of the node, the registers of *)
(* the camera, the type of a frame and the lens tables are represented by  *)
(* the number of the configuration they come from.  Commands go through a  *)
(* channel that behaves as CommandRpc says; repeated executions of one     *)
(* command change nothing and are left out.  The datagrams under way are a *)
(* set: the io thread takes any of them next, and one that it never takes  *)
(* is lost.                                                                *)
(***************************************************************************)
EXTENDS RegionOfInterest, Sequences

CONSTANTS
  Inputs,       \* the slider positions that a user chooses from
  MaxConfigs,   \* bound: configurations
  MaxFrames,    \* bound: frames the camera sends
  MaxFaults     \* bound: commands that fail, and restarts of the camera

ASSUME InputsAreSliders == Inputs \subseteq Sliders
ASSUME BoundsAreNat == MaxConfigs \in Nat /\ MaxFrames \in Nat /\ MaxFaults \in Nat

Registers == {"modulation", "minAmplitude", "integrationTime", "hdr", "roi", "filter"}

\* Faulty variant of Script: a register is written before the stream is stopped.
ScriptStopsLate == <<"modulation", "stop", "minAmplitude", "integrationTime", "hdr", "roi",
                     "lens", "filter", "stream">>

\* Faulty variant of Script: the lens is set when the camera streams already.
ScriptLensLast == <<"stop", "modulation", "minAmplitude", "integrationTime", "hdr", "roi",
                    "filter", "stream", "lens">>

\* setParameters, command by command; the lens is set in the driver itself.
Script == <<"stop", "modulation", "minAmplitude", "integrationTime", "hdr", "roi",
            "lens", "filter", "stream">>

VARIABLES
  caller,       \* what main is doing; setParameters and stopStream return to it
  step,         \* the place in Script, 0 outside of it
  command,      \* of the current step: "none", "pending", "executed"
  link,         \* "up"; "lost": commands are skipped; "broken": they throw
  config,       \* the number of the global settings, imageType among them
  roi,          \* roi_leftX, roi_topY, roi_rightX, roi_bottomY
  sliders,      \* what the sliders show
  isStreaming, dataType, lens,  \* ToF320
  lensBusy,     \* initLensTransform is rewriting the tables
  subscribed,   \* updateFrame is connected to frameReady
  registers, cameraRoi, streaming, mode,  \* the camera
  net,          \* datagrams under way, or lost: the first and last of each frame
  frame,        \* ToF320::currentFrame
  crashed,      \* the io thread used a null currentFrame
  io,           \* the io thread: "receive", "compute"
  shown,        \* history: the frame just published, until the io thread goes on
  doubt,        \* history: the camera may not have what was sent to it
  frames, faults

main == <<caller, step, command, link>>
node == <<config, roi, sliders, subscribed>>
tof == <<isStreaming, dataType, lens, lensBusy>>
camera == <<registers, cameraRoi, streaming, mode, frames>>
thread == <<net, frame, crashed, io, shown>>
vars == <<main, node, tof, camera, thread, doubt, faults>>

NoData == [gen |-> 0, halfway |-> FALSE]

NoFrame == [null |-> TRUE, first |-> NoData, last |-> NoData, headless |-> FALSE,
            label |-> 0, lens |-> 0, torn |-> FALSE, image |-> 0]

\* The camera may be streaming for a node that ran before.
Init ==
  /\ caller = "main" /\ step = 0 /\ command = "none"
  /\ link \in {"up", "lost", "broken"}
  /\ config = 0 /\ subscribed = FALSE
  /\ roi = [left |-> 0, top |-> 0, right |-> 319, bottom |-> 239]
  /\ sliders = [left |-> 0, right |-> 319, height |-> 240]
  /\ isStreaming = FALSE /\ dataType = 0 /\ lens = 0 /\ lensBusy = FALSE
  /\ registers = [r \in Registers |-> 0] /\ cameraRoi = roi
  /\ streaming \in BOOLEAN /\ mode = 0
  /\ net = {} /\ frame = NoFrame /\ crashed = FALSE /\ io = "receive" /\ shown = NoFrame
  /\ doubt = streaming
  /\ frames = 0 /\ faults = 0

-------------------------------------------------------------------------------
(* The main thread *)

\* updateConfig, called by setCallback first and by ros::spin after that: all
\* globals are set before setParameters sends the first command.
UpdateConfig ==
  /\ step = 0 /\ caller \in {"main", "spin"}
  /\ config < MaxConfigs
  /\ \E s \in Inputs : roi' = Region(s) /\ sliders' = Shown(s)
  /\ config' = config + 1
  /\ caller' = IF caller = "main" THEN "setCallback" ELSE caller
  /\ step' = 1
  /\ UNCHANGED <<command, link, subscribed, tof, camera, thread, doubt, faults>>

\* initialise reads the settings of the launch file, some of which have other
\* names than the sliders, connects updateFrame and sends everything again.
Initialise ==
  /\ step = 0 /\ caller = "setCallback"
  /\ config < MaxConfigs
  /\ config' = config + 1
  /\ subscribed' = TRUE
  /\ caller' = "initialise" /\ step' = 1
  /\ UNCHANGED <<command, link, roi, sliders, tof, camera, thread, doubt, faults>>

Spin ==
  /\ step = 0 /\ caller = "initialise"
  /\ caller' = "spin"
  /\ UNCHANGED <<step, command, link, node, tof, camera, thread, doubt, faults>>

\* ros::spin returns, and main stops the stream.
Exit ==
  /\ step = 0 /\ caller = "spin"
  /\ caller' = "exit" /\ step' = 1
  /\ UNCHANGED <<command, link, node, tof, camera, thread, doubt, faults>>

\* Two seconds after the stop, main deletes the ToF320 and returns.
Delete ==
  /\ caller = "deleting"
  /\ caller' = "ended"
  /\ UNCHANGED <<step, command, link, node, tof, camera, thread, doubt, faults>>

\* The command or call that setParameters is at.
Doing(name) == step # 0 /\ Script[step] = name

\* Faulty variant of Advance: a stream call does not set isStreaming.
AdvanceForgetsStream ==
  /\ command' = "none"
  /\ step' = IF caller = "exit" \/ step = Len(Script) THEN 0 ELSE step + 1
  /\ caller' = IF caller = "exit" THEN "deleting" ELSE caller
  /\ isStreaming' = (isStreaming /\ ~Doing("stop"))

\* The current step of the script returns.
Advance ==
  /\ command' = "none"
  /\ step' = IF caller = "exit" \/ step = Len(Script) THEN 0 ELSE step + 1
  /\ caller' = IF caller = "exit" THEN "deleting" ELSE caller
  /\ isStreaming' = (Doing("stream") \/ (isStreaming /\ ~Doing("stop")))

\* The current step throws.  The reconfigure server catches what updateConfig
\* throws, called by setCallback or by ros::spin; elsewhere in main the exception
\* ends the process.
Throw ==
  /\ command' = "none"
  /\ step' = 0
  /\ caller' = IF caller \in {"setCallback", "spin"} THEN caller ELSE "ended"
  /\ UNCHANGED isStreaming

NothingToStop ==
  /\ Doing("stop") /\ command = "none" /\ ~isStreaming
  /\ Advance
  /\ UNCHANGED <<link, node, dataType, lens, lensBusy, camera, thread, doubt, faults>>

\* The step calls sendCommand; a stream call has set dataType before.
Calls ==
  /\ step # 0 /\ command = "none" /\ ~Doing("lens")
  /\ Doing("stop") => isStreaming
  /\ dataType' = IF Doing("stream") THEN config ELSE dataType
  /\ UNCHANGED <<link, node, lens, lensBusy, camera, thread, faults>>

Send ==
  /\ Calls /\ link = "up"
  /\ command' = "pending"
  /\ UNCHANGED <<caller, step, isStreaming, doubt>>

Refused ==
  /\ Calls /\ link # "up"
  /\ IF link = "lost" THEN Advance ELSE Throw
  /\ doubt' = TRUE

Acked ==
  /\ command = "executed"
  /\ Advance
  /\ doubt' = (doubt /\ ~Doing("stop"))
  /\ UNCHANGED <<link, node, dataType, lens, lensBusy, camera, thread, faults>>

Exhausted ==
  /\ command # "none"
  /\ faults < MaxFaults
  /\ faults' = faults + 1
  /\ Advance
  /\ link' \in {"up", "lost", "broken"}
  /\ doubt' = TRUE
  /\ UNCHANGED <<node, dataType, lens, lensBusy, camera, thread>>

ThrewClosed ==
  /\ command # "none"
  /\ faults < MaxFaults
  /\ faults' = faults + 1
  /\ Throw
  /\ link' = "lost"
  /\ doubt' = TRUE
  /\ UNCHANGED <<node, dataType, lens, lensBusy, camera, thread>>

\* setLensType with the type it already has.
SameLens ==
  /\ Doing("lens") /\ ~lensBusy
  /\ lens' = config
  /\ Advance
  /\ UNCHANGED <<link, node, dataType, lensBusy, camera, thread, doubt, faults>>

\* setLensType with another type rewrites the tables; a frame that is being
\* computed then is torn.
BeginLens ==
  /\ Doing("lens") /\ ~lensBusy
  /\ lensBusy' = TRUE
  /\ frame' = [frame EXCEPT !.torn = @ \/ io = "compute"]
  /\ UNCHANGED <<main, node, isStreaming, dataType, lens, camera, net, crashed, io, shown,
                 doubt, faults>>

EndLens ==
  /\ lensBusy
  /\ lensBusy' = FALSE /\ lens' = config
  /\ Advance
  /\ UNCHANGED <<link, node, dataType, camera, thread, doubt, faults>>

Main ==
  \/ UpdateConfig \/ Initialise \/ Spin \/ Exit \/ Delete
  \/ NothingToStop \/ Send \/ Refused \/ Acked \/ Exhausted \/ ThrewClosed
  \/ SameLens \/ BeginLens \/ EndLens

-------------------------------------------------------------------------------
(* The camera (external) *)

Execute ==
  /\ command = "pending"
  /\ command' = "executed"
  /\ registers' = [r \in Registers |-> IF Doing(r) THEN config ELSE registers[r]]
  /\ cameraRoi' = IF Doing("roi") THEN roi ELSE cameraRoi
  /\ streaming' = (Doing("stream") \/ (streaming /\ ~Doing("stop")))
  /\ mode' = IF Doing("stream") THEN config ELSE mode
  /\ UNCHANGED <<caller, step, link, node, tof, frames, thread, doubt, faults>>

\* The camera loses power and starts again with the settings of the factory.
Restart ==
  /\ faults < MaxFaults
  /\ faults' = faults + 1
  /\ registers' = [r \in Registers |-> 0]
  /\ cameraRoi' = [left |-> 0, top |-> 0, right |-> 319, bottom |-> 239]
  /\ streaming' = FALSE /\ mode' = 0
  /\ doubt' = TRUE
  /\ UNCHANGED <<main, node, tof, frames, thread>>

\* The stream it belongs to, and whether a register holds another configuration
\* without a fault that explains it.
Taken == [gen |-> mode, halfway |-> ~doubt /\ \E r \in Registers : registers[r] # mode]

Datagrams(n) == [part : {"first", "last"}, number : {n}, taken : {Taken}]

SendFrame ==
  /\ streaming
  /\ frames < MaxFrames
  /\ frames' = frames + 1
  /\ net' = net \cup Datagrams(frames + 1)
  /\ UNCHANGED <<main, node, tof, registers, cameraRoi, streaming, mode, frame, crashed, io,
                 shown, doubt, faults>>

-------------------------------------------------------------------------------
(* The io thread, as long as the process and the ToF320 are there *)

Receive(d, part) ==
  /\ io = "receive" /\ caller # "ended"
  /\ d.part = part
  /\ net' = net \ {d}
  /\ shown' = NoFrame
  /\ UNCHANGED <<main, node, tof, camera, doubt, faults>>

\* The first datagram of a frame makes a new currentFrame of the type set last.
FirstDatagram ==
  \E d \in net :
    /\ Receive(d, "first")
    /\ frame' = [NoFrame EXCEPT !.null = FALSE, !.first = d.taken, !.label = dataType]
    /\ UNCHANGED <<crashed, io>>

\* The own first datagram of a frame is late, or lost.
Headless(d) == [d EXCEPT !.part = "first"] \in net

\* The last datagram of a frame completes currentFrame, whichever frame made it,
\* and computeFrame reads the lens tables.
LastDatagram ==
  \E d \in net :
    /\ Receive(d, "last")
    /\ ~frame.null
    /\ frame' = [frame EXCEPT !.last = d.taken, !.headless = Headless(d),
                              !.lens = lens, !.torn = lensBusy]
    /\ io' = "compute"
    /\ UNCHANGED crashed

\* Before any first datagram currentFrame is null: what follows is undefined.
NoCurrentFrame ==
  \E d \in net :
    /\ Receive(d, "last")
    /\ frame.null
    /\ crashed' = TRUE
    /\ UNCHANGED <<frame, io>>

\* updateFrame chooses what to publish by the global imageType.
UpdateFrame ==
  /\ io = "compute" /\ caller # "ended"
  /\ io' = "receive"
  /\ shown' = IF subscribed THEN [frame EXCEPT !.image = config] ELSE shown
  /\ UNCHANGED <<main, node, tof, camera, net, frame, crashed, doubt, faults>>

Driver == FirstDatagram \/ LastDatagram \/ NoCurrentFrame \/ UpdateFrame

Next == ~crashed /\ (Main \/ Execute \/ Restart \/ SendFrame \/ Driver)

Spec == Init /\ [][Next]_vars

-------------------------------------------------------------------------------
Data == [gen : 0..MaxConfigs, halfway : BOOLEAN]

Frames ==
  [null : BOOLEAN, first : Data, last : Data, headless : BOOLEAN, label : 0..MaxConfigs,
   lens : 0..MaxConfigs, torn : BOOLEAN, image : 0..MaxConfigs]

Regions == [left : Columns, top : Rows, right : Columns, bottom : Rows]

MainTypeOK ==
  /\ caller \in {"main", "setCallback", "initialise", "spin", "exit", "deleting", "ended"}
  /\ step \in 0..Len(Script)
  /\ command \in {"none", "pending", "executed"}
  /\ link \in {"up", "lost", "broken"}
  /\ doubt \in BOOLEAN /\ frames \in Nat /\ faults \in Nat

SettingsTypeOK ==
  /\ config \in 0..MaxConfigs /\ subscribed \in BOOLEAN
  /\ isStreaming \in BOOLEAN /\ lensBusy \in BOOLEAN /\ streaming \in BOOLEAN
  /\ {dataType, lens, mode} \subseteq 0..config
  /\ registers \in [Registers -> 0..config]
  /\ {roi, cameraRoi} \subseteq Regions /\ sliders \in Sliders

FramesTypeOK ==
  /\ io \in {"receive", "compute"} /\ crashed \in BOOLEAN
  /\ net \subseteq [part : {"first", "last"}, number : 1..frames, taken : Data]
  /\ {frame, shown} \subseteq Frames

TypeOK == MainTypeOK /\ SettingsTypeOK /\ FramesTypeOK

(***************************************************************************)
(* Whatever the user does with the sliders, the region the node works with *)
(* and the one the camera was given lie on the sensor, and the sliders     *)
(* show values that stand for the same region when they are sent again.    *)
(***************************************************************************)
RoiOnSensor ==
  /\ OnSensor(roi) /\ OnSensor(cameraRoi)
  /\ Region(sliders) = roi /\ Shown(sliders) = sliders

(***************************************************************************)
(* Unless a command of the latest configuration failed or the camera       *)
(* restarted, a waiting node has a camera that streams with all registers  *)
(* from its latest configuration, and a node that ends deletes its ToF320  *)
(* and leaves the process with a camera that is quiet.                     *)
(***************************************************************************)
CameraFollowsNode ==
  step = 0 /\ ~doubt =>
    /\ caller = "spin" =>
         /\ streaming /\ mode = config
         /\ \A r \in Registers : registers[r] = config
         /\ cameraRoi = roi
    /\ caller \in {"deleting", "ended"} => ~streaming

(***************************************************************************)
(* No datagram of a published frame is taken half-way through a            *)
(* configuration: it comes from a camera all of whose registers belong     *)
(* together, unless the camera may have missed a command.  (The first and  *)
(* the last datagram of a published frame need not be of the same frame.)  *)
(***************************************************************************)
SettingsTogether ==
  ~shown.first.halfway /\ ~shown.last.halfway

(***************************************************************************)
(* A published frame was labelled, computed and sorted into topics under   *)
(* the configuration it was taken with or a later one, with one exception: *)
(* if its own first datagram had not come by the time of its last one, it  *)
(* is published under the label of the frame before it.  Lens tables that  *)
(* change while they are read only hit data from before the configuration  *)
(* that changes them.                                                      *)
(***************************************************************************)
PublishedNotOlder ==
  /\ shown.label < shown.last.gen => shown.headless
  /\ shown.first.gen <= shown.label /\ shown.label <= shown.image
  /\ shown.first.gen <= shown.lens /\ shown.last.gen <= shown.lens
  /\ shown.torn => shown.first.gen < shown.image /\ shown.last.gen < shown.image
===============================================================================
