---------------------------- MODULE SamplePrograms ----------------------------
(***************************************************************************)
(* The programs that hold a camera through a ToF*: the OpenCV sample       *)
(* ("demo", samples/opencv/src/main.cpp), the ROS 2 node ("node",          *)
(* samples/ros2/vsemi_limu/src/vsemi_limu_node.cpp) and the tool that sets *)
(* the address of a camera ("set_ip", tools/set_camera_ip).  The main      *)
(* thread works through a script; the io thread of the driver, the thread  *)
(* that reads the RGB camera of the ROS 2 node, and the camera run beside  *)
(* it.                                                                     *)
(*                                                                         *)
(* ToF has no virtual destructor: delete frees the object and does not run *)
(* ~ToF320, so that its subscription stays.  Commands behave as CommandRpc *)
(* says.  What happens after an object is used that was deleted is left    *)
(* open: the model stops there and names the thread.                       *)
(***************************************************************************)
EXTENDS FrameTypes, Sequences

CONSTANTS
  ImageTypes,  \* what the user of the demo may ask for
  MaxFlight    \* bound: datagrams under way

ASSUME FlightIsNat == MaxFlight \in Nat
ASSUME ImageTypesAreNat == ImageTypes \subseteq Nat

Settings == <<"modulation", "minAmplitude", "integrationTime", "hdr", "roi", "filter">>

\* Faulty variant of ShutdownSteps: the camera is deleted too early.
ShutdownDeletesFirst == <<"stop", "delete", "shutdown", "release", "deleteCapture">>

ShutdownSteps == <<"stop", "shutdown", "release", "delete", "deleteCapture">>

WaitSteps == <<"subscribe", "wait", "pause">>

\* What the main thread does, step by step.  The lens is set without a command
\* and left out.  "failed" is the ROS 2 node from the point on where start has
\* given up: its constructor ignores that and goes on.
Script ==
  [demo   |-> <<"open", "subscribe">> \o Settings
                \o <<"stream", "wait", "stop", "pause", "delete">>,
   node   |-> <<"open", "pause", "connected", "stop">> \o Settings
                \o <<"stream", "stream", "rgb">> \o WaitSteps \o ShutdownSteps,
   failed |-> ShutdownSteps \o WaitSteps \o ShutdownSteps,
   set_ip |-> <<"open", "pause", "setIP", "pause", "delete", "report">>]

Programs == {"demo", "node", "set_ip"}
Commands == {"modulation", "minAmplitude", "integrationTime", "hdr", "roi", "filter",
             "stop", "stream", "setIP"}

MaxTries == 6

VARIABLES
  script, step, command,  \* the main thread; command: "none", "pending", "executed"
  imageType,      \* the global of that name
  tries,          \* wait_seconds
  object,         \* the camera object: "none", "live", "deleted"
  subscribed,     \* its constructor has subscribed it, shutdown has not taken that back
  isStreaming, dataType,  \* ToF320
  updates,        \* updateFrame is connected to frameReady
  streaming, address,  \* the camera
  place,          \* which datagram of a frame it sends next: "first" or "last"
  net,            \* datagrams under way
  io,             \* the io thread: "idle", "busy" with a datagram
  label,          \* dataType of ToF320::currentFrame, "none" while that is null
  shown,          \* the arrays that updateFrame used last and the type of their frame
  rgb, capture,   \* the RGB thread: "none", "loop", "reading", "ended"; its camera
  rosRunning,     \* g_ros_running
  exitRequested,  \* by SIGINT, or by the escape key
  reported,       \* set_camera_ip has printed the new address
  end,            \* "running", "returned", "aborted", "undefined"
  culprit,        \* the thread whose step is undefined; "null": of the io thread, with a
                  \* currentFrame that is null
  earlier,        \* history: the camera streamed already for another process
  doubt,          \* history: it may be streaming without the driver's knowing
  failed,         \* history: a command was not acknowledged
  slow            \* history: a pause was too short for what it waits for

main == <<script, step, command, imageType, tries, reported>>
tof == <<object, subscribed, isStreaming, dataType, updates>>
camera == <<streaming, address, place>>
thread == <<net, io, label, shown>>
rgbThread == <<rgb, capture, rosRunning>>
ending == <<end, culprit>>
history == <<earlier, doubt, failed, slow>>
vars == <<main, tof, camera, thread, rgbThread, exitRequested, ending, history>>

NothingShown == [type |-> "GRAYSCALE", images |-> {}]

TypeNumbered(n) == CHOOSE t \in DataType : Enumerator[t] = n

\* Main reads its arguments before anything else: with one argument only, the
\* demo uses argv[2], a null pointer, and set_camera_ip returns unless it gets
\* four arguments with three addresses.
Init ==
  /\ script \in Programs /\ step = 1 /\ command = "none"
  /\ imageType \in IF script = "demo" THEN ImageTypes ELSE {1}
  /\ tries = 0 /\ reported = FALSE
  /\ object = "none" /\ subscribed = FALSE
  /\ isStreaming = FALSE /\ dataType = "GRAYSCALE" /\ updates = FALSE
  /\ streaming \in BOOLEAN /\ address = "old" /\ place = "first"
  /\ net = <<>> /\ io = "idle" /\ label = "none" /\ shown = NothingShown
  /\ rgb = "none" /\ capture = "none" /\ rosRunning = TRUE
  /\ exitRequested = FALSE
  /\ \/ end = "running" /\ culprit = "none"
     \/ script = "demo" /\ end = "undefined" /\ culprit = "arguments"
     \/ script = "set_ip" /\ end = "returned" /\ culprit = "none"
  /\ earlier = streaming /\ doubt = streaming /\ failed = FALSE /\ slow = FALSE

-------------------------------------------------------------------------------
(* The main thread *)

Doing(name) == end = "running" /\ Script[script][step] = name

Advance ==
  /\ script' = script
  /\ step' = IF step = Len(Script[script]) THEN step ELSE step + 1
  /\ IF step = Len(Script[script])
       THEN end' = "returned" /\ UNCHANGED culprit
       ELSE UNCHANGED ending

Undefined(who) == end' = "undefined" /\ culprit' = who

\* The calls that use the camera object, all but the constructor.
Uses == {"connected", "subscribe", "shutdown", "delete"} \cup Commands

UseDeleted ==
  /\ end = "running" /\ command = "none"
  /\ Script[script][step] \in Uses /\ object = "deleted"
  /\ Undefined("main")
  /\ UNCHANGED <<main, tof, camera, thread, rgbThread, exitRequested, history>>

Call(name) == Doing(name) /\ command = "none" /\ object # "deleted"

\* ToF::tof320: the constructor connects and subscribes.
Open ==
  /\ Call("open")
  /\ object' = "live" /\ subscribed' = TRUE
  /\ Advance
  /\ UNCHANGED <<command, imageType, tries, reported, isStreaming, dataType, updates,
                 camera, thread, rgbThread, exitRequested, history>>

\* subscribeFrame
Subscribe ==
  /\ Call("subscribe")
  /\ updates' = TRUE
  /\ Advance
  /\ UNCHANGED <<command, imageType, tries, reported, object, subscribed, isStreaming, dataType,
                 camera, thread, rgbThread, exitRequested, history>>

\* start polls isConnected and waits for a second each time.
NotConnected ==
  /\ Call("connected")
  /\ IF tries < MaxTries
       THEN tries' = tries + 1 /\ UNCHANGED <<script, step>>
       ELSE script' = "failed" /\ step' = 1 /\ UNCHANGED tries
  /\ UNCHANGED <<command, imageType, reported, tof, camera, thread, rgbThread, exitRequested,
                 ending, history>>

\* isConnected switches a socket to non-blocking and back, which throws when the
\* socket is not open; nobody catches it.
IsConnectedThrows ==
  /\ Call("connected")
  /\ end' = "aborted"
  /\ UNCHANGED <<main, tof, camera, thread, rgbThread, exitRequested, culprit, history>>

Connected ==
  /\ Call("connected")
  /\ Advance
  /\ UNCHANGED <<command, imageType, tries, reported, tof, camera, thread, rgbThread,
                 exitRequested, history>>

\* startStreaming of the demo goes by Frame::DataType, the one of the ROS 2 node
\* by numbers of its own (its comment on imageType names those of the demo).
Wanted ==
  CASE script = "demo" /\ imageType \in {0, 1, 2} -> TypeNumbered(imageType)
    [] script = "node" /\ imageType = 0 -> "DISTANCE"
    [] script = "node" /\ imageType = 1 -> "AMPLITUDE"
    [] OTHER -> "none"

\* Nothing is sent: stopStream without a stream, startStreaming of no known type.
NothingToSend ==
  /\ \/ Call("stop") /\ ~isStreaming
     \/ Call("stream") /\ Wanted = "none"
  /\ Advance
  /\ UNCHANGED <<command, imageType, tries, reported, tof, camera, thread, rgbThread,
                 exitRequested, history>>

\* Faulty variant of Send: dataType is set when the camera streams already.
SendTypeLater ==
  /\ \E name \in Commands :
       /\ Call(name)
       /\ name = "stop" => isStreaming
       /\ name = "stream" => Wanted # "none"
  /\ command' = "pending"
  /\ UNCHANGED <<script, step, imageType, tries, reported, tof, camera, thread, rgbThread,
                 exitRequested, ending, history>>

\* sendCommand; a stream call sets dataType before.
Send ==
  /\ \E name \in Commands :
       /\ Call(name)
       /\ name = "stop" => isStreaming
       /\ name = "stream" => Wanted # "none"
       /\ dataType' = IF name = "stream" THEN Wanted ELSE dataType
  /\ command' = "pending"
  /\ UNCHANGED <<script, step, imageType, tries, reported, object, subscribed, isStreaming,
                 updates, camera, thread, rgbThread, exitRequested, ending, history>>

\* Faulty variant of Returns: a stream call does not set isStreaming.
ReturnsForgetsStream ==
  /\ command # "none" /\ end = "running"
  /\ command' = "none"
  /\ isStreaming' = (isStreaming /\ ~Doing("stop"))
  /\ Advance
  /\ UNCHANGED <<imageType, tries, reported, object, subscribed, dataType, updates,
                 camera, thread, rgbThread, exitRequested, earlier, slow>>

\* What a call does to isStreaming when it returns, acknowledged or not.
Returns ==
  /\ command # "none" /\ end = "running"
  /\ command' = "none"
  /\ isStreaming' = (Doing("stream") \/ (isStreaming /\ ~Doing("stop")))
  /\ Advance
  /\ UNCHANGED <<imageType, tries, reported, object, subscribed, dataType, updates,
                 camera, thread, rgbThread, exitRequested, earlier, slow>>

Acked ==
  /\ command = "executed"
  /\ Returns
  /\ doubt' = (doubt /\ ~Doing("stop"))
  /\ UNCHANGED failed

\* Skipped, or all attempts are used up.
GaveUp ==
  /\ Returns
  /\ failed' = TRUE
  /\ doubt' = (doubt \/ Doing("stop") \/ Doing("stream"))

\* No program catches what sendCommand throws.
Threw ==
  /\ command # "none" /\ end = "running"
  /\ end' = "aborted" /\ failed' = TRUE
  /\ UNCHANGED <<main, tof, camera, thread, rgbThread, exitRequested, culprit,
                 earlier, doubt, slow>>

\* VideoCapture::open succeeds or not, and then the thread is started.
OpenCapture ==
  /\ Call("rgb")
  /\ capture' = "live"
  /\ rgb' \in {"none", "loop"}
  /\ Advance
  /\ UNCHANGED <<command, imageType, tries, reported, tof, camera, thread, rosRunning,
                 exitRequested, history>>

\* Faulty variant of Wait: main waits for the flag that it resets itself.
WaitForFlag ==
  /\ Call("wait")
  /\ IF script = "demo" THEN exitRequested ELSE ~rosRunning
  /\ Advance
  /\ UNCHANGED <<command, imageType, tries, reported, tof, camera, thread, rgbThread,
                 exitRequested, history>>

\* The busy loop of the demo, which reads exit_requested in every round (the build
\* asks for no optimisation), and rclcpp::spin, after which g_ros_running is reset.
Wait ==
  /\ Call("wait")
  /\ exitRequested
  /\ rosRunning' = IF script = "demo" THEN rosRunning ELSE FALSE
  /\ Advance
  /\ UNCHANGED <<command, imageType, tries, reported, tof, camera, thread, rgb, capture,
                 exitRequested, history>>

\* A sleep of one or two seconds: long enough for datagrams that are under way
\* and for a read of the RGB camera, or else too short.
Settled == /\ streaming \/ (net = <<>> /\ io = "idle")
           /\ rosRunning \/ rgb \notin {"loop", "reading"}

Pause ==
  /\ Doing("pause")
  /\ slow' = (slow \/ ~Settled)
  /\ Advance
  /\ UNCHANGED <<command, imageType, tries, reported, tof, camera, thread, rgbThread,
                 exitRequested, earlier, doubt, failed>>

\* ToF320::shutdown after stopStream: unsubscribe waits for the callback.
Shutdown ==
  /\ Call("shutdown")
  /\ io = "idle"
  /\ subscribed' = FALSE
  /\ Advance
  /\ UNCHANGED <<command, imageType, tries, reported, object, isStreaming, dataType, updates,
                 camera, thread, rgbThread, exitRequested, history>>

\* m_videoCapture->release() and delete m_videoCapture
CloseCapture ==
  /\ Doing("release") \/ Doing("deleteCapture")
  /\ IF rgb = "reading"
       THEN Undefined("rgb") /\ UNCHANGED <<main, capture>>
       ELSE /\ capture' = IF Doing("deleteCapture") THEN "none" ELSE capture
            /\ Advance
            /\ UNCHANGED <<command, imageType, tries, reported>>
  /\ UNCHANGED <<tof, camera, thread, rgb, rosRunning, exitRequested, history>>

\* delete through ToF*
Delete ==
  /\ Call("delete")
  /\ object' = "deleted"
  /\ IF io = "busy"
       THEN Undefined("io") /\ UNCHANGED main
       ELSE Advance /\ UNCHANGED <<command, imageType, tries, reported>>
  /\ UNCHANGED <<subscribed, isStreaming, dataType, updates, camera, thread, rgbThread,
                 exitRequested, history>>

Report ==
  /\ Doing("report")
  /\ reported' = TRUE
  /\ Advance
  /\ UNCHANGED <<command, imageType, tries, tof, camera, thread, rgbThread, exitRequested,
                 history>>

\* What the main thread does by itself, and how a command may end.
OwnStep ==
  \/ UseDeleted \/ Open \/ Subscribe \/ NotConnected \/ IsConnectedThrows \/ Connected
  \/ NothingToSend \/ Send
  \/ OpenCapture \/ Wait \/ Pause \/ Shutdown \/ CloseCapture \/ Delete \/ Report

Main == OwnStep \/ Acked \/ GaveUp \/ Threw

-------------------------------------------------------------------------------
(* The camera, the network and the user (external).  A frame is its first and *)
(* its last datagram, and each may be lost; the ones in between, and what the *)
(* frames hold after a loss, are in FrameAssembly.                            *)

Execute ==
  /\ command = "pending" /\ end = "running"
  /\ command' = "executed"
  /\ streaming' = (Doing("stream") \/ (streaming /\ ~Doing("stop")))
  /\ place' = IF Doing("stream") THEN "first" ELSE place
  /\ address' = IF Doing("setIP") THEN "new" ELSE address
  /\ UNCHANGED <<script, step, imageType, tries, reported, tof, thread, rgbThread,
                 exitRequested, ending, history>>

SendDatagram ==
  /\ streaming /\ end = "running"
  /\ Len(net) < MaxFlight
  /\ net' \in {Append(net, place), net}
  /\ place' = IF place = "first" THEN "last" ELSE "first"
  /\ UNCHANGED <<main, tof, streaming, address, io, label, shown, rgbThread, exitRequested, ending, history>>

RequestExit ==
  /\ ~exitRequested /\ end = "running"
  /\ exitRequested' = TRUE
  /\ UNCHANGED <<main, tof, camera, thread, rgbThread, ending, history>>

-------------------------------------------------------------------------------
(* The io thread *)

\* Nobody has subscribed for the address of the camera.
Unwanted ==
  /\ io = "idle" /\ net # <<>> /\ ~subscribed /\ end = "running"
  /\ net' = Tail(net)
  /\ UNCHANGED <<main, tof, camera, io, label, shown, rgbThread, exitRequested, ending, history>>

BeginCallback ==
  /\ io = "idle" /\ net # <<>> /\ subscribed /\ end = "running"
  /\ IF object = "deleted"
       THEN Undefined("io") /\ UNCHANGED io
       ELSE io' = "busy" /\ UNCHANGED ending
  /\ UNCHANGED <<main, tof, camera, net, label, shown, rgbThread, exitRequested, history>>

\* The arrays that updateFrame of a program uses.
Images ==
  IF script = "demo"
    THEN (IF imageType \in {1, 2} THEN {"data_2d_bgr"} ELSE {})
           \cup (IF imageType = 2 THEN {"data_amplitude"} ELSE {})
           \cup (IF imageType = 0 THEN {"data_grayscale"} ELSE {})
    ELSE {"data_3d_xyz_rgb", "data_2d_bgr"}

\* A last datagram completes whatever frame was announced last.
EndCallback ==
  /\ io = "busy" /\ end = "running"
  /\ Head(net) = "last" => label # "none"
  /\ io' = "idle" /\ net' = Tail(net)
  /\ IF Head(net) = "first"
       THEN label' = dataType /\ UNCHANGED shown
       ELSE /\ shown' = IF updates THEN [type |-> label, images |-> Images] ELSE shown
            /\ UNCHANGED label
  /\ UNCHANGED <<main, tof, camera, rgbThread, exitRequested, ending, history>>

\* Nor was any announced: currentFrame is null.
NoCurrentFrame ==
  /\ io = "busy" /\ end = "running"
  /\ Head(net) = "last" /\ label = "none"
  /\ Undefined("null")
  /\ UNCHANGED <<main, tof, camera, thread, rgbThread, exitRequested, history>>

Io == Unwanted \/ BeginCallback \/ EndCallback \/ NoCurrentFrame

-------------------------------------------------------------------------------
(* The RGB thread of the ROS 2 node *)

BeginRead ==
  /\ rgb = "loop" /\ end = "running"
  /\ rgb' = IF rosRunning THEN "reading" ELSE "ended"
  /\ UNCHANGED <<main, tof, camera, thread, capture, rosRunning, exitRequested, ending, history>>

EndRead ==
  /\ rgb = "reading" /\ end = "running"
  /\ rgb' = "loop"
  /\ UNCHANGED <<main, tof, camera, thread, capture, rosRunning, exitRequested, ending, history>>

-------------------------------------------------------------------------------
Next == Main \/ Execute \/ SendDatagram \/ RequestExit \/ Io \/ BeginRead \/ EndRead

Spec == Init /\ [][Next]_vars

\* The threads are scheduled, and the mutex that unsubscribe waits for is not
\* always the io thread's.  Nothing is said of a command: sendCommand waits for
\* its answer without limit, see CallReturnsOrAckIsLost of TcpConnection.
FairSpec == Spec /\ WF_vars(OwnStep) /\ WF_vars(Io) /\ SF_vars(Shutdown)

-------------------------------------------------------------------------------
TypeOK ==
  /\ script \in Programs \cup {"failed"} /\ step \in 1..Len(Script[script])
  /\ command \in {"none", "pending", "executed"}
  /\ imageType \in ImageTypes \cup {1} /\ tries \in 0..MaxTries /\ reported \in BOOLEAN
  /\ object \in {"none", "live", "deleted"} /\ subscribed \in BOOLEAN
  /\ isStreaming \in BOOLEAN /\ dataType \in DataType /\ updates \in BOOLEAN
  /\ streaming \in BOOLEAN /\ address \in {"old", "new"} /\ place \in {"first", "last"}
  /\ net \in Seq({"first", "last"}) /\ Len(net) <= MaxFlight
  /\ io \in {"idle", "busy"} /\ label \in DataType \cup {"none"}
  /\ shown.type \in DataType
  /\ rgb \in {"none", "loop", "reading", "ended"} /\ capture \in {"none", "live"}
  /\ rosRunning \in BOOLEAN /\ exitRequested \in BOOLEAN
  /\ end \in {"running", "returned", "aborted", "undefined"}
  /\ culprit \in {"none", "arguments", "main", "io", "null", "rgb"}
  /\ {earlier, doubt, failed, slow} \subseteq BOOLEAN

(***************************************************************************)
(* The main thread never calls a camera that it has deleted, but for the   *)
(* ROS 2 node after a start that failed: the constructor of the node goes  *)
(* on with the camera that shutdown has deleted.                           *)
(***************************************************************************)
MainUsesLiveCamera == culprit = "main" => script = "failed"

(***************************************************************************)
(* The io thread finds the camera deleted only if the camera may be        *)
(* streaming without the driver's knowing, or if a pause was too short for *)
(* it; never in the ROS 2 node, which unsubscribes before.                 *)
(***************************************************************************)
IoUsesLiveCamera ==
  culprit = "io" => (doubt \/ slow) /\ script \in {"demo", "set_ip"}

(***************************************************************************)
(* The RGB thread, which nobody joins, reads from a capture that is being  *)
(* closed only if a read outlasts the two seconds that main sleeps.        *)
(***************************************************************************)
RgbUsesLiveCapture == culprit = "rgb" => slow

\* The three together: nothing is used that is gone.
NothingGoneIsUsed == MainUsesLiveCamera /\ IoUsesLiveCamera /\ RgbUsesLiveCapture

(***************************************************************************)
(* A program shows only arrays that computeFrame has filled for the type   *)
(* of that frame, unless the camera was streaming when the demo opened it. *)
(***************************************************************************)
ShowsWhatWasComputed ==
  (earlier /\ script = "demo") \/ shown.images \subseteq Computed(shown.type)

(***************************************************************************)
(* A program that returns has stopped the camera, unless a stop or stream  *)
(* command failed or the camera was streaming before and never stopped.    *)
(***************************************************************************)
QuietAtTheEnd == end = "returned" => ~streaming \/ doubt

(***************************************************************************)
(* The address that set_camera_ip prints is the camera's, unless the       *)
(* command failed: the tool prints it all the same.                        *)
(***************************************************************************)
ReportIsTrue == reported => address = "new" \/ failed

\* Both together: a program leaves behind what it claims.
LeavesWhatItClaims == QuietAtTheEnd /\ ReportIsTrue

(***************************************************************************)
(* A program that is asked to exit ends, if every command that it sends    *)
(* returns: the ROS 2 node gives up waiting for a connection, and shutdown *)
(* gets the lock of the io thread.  A command that waits for a camera that *)
(* has died keeps its program for ever.                                    *)
(***************************************************************************)
EndsAfterExit ==
  []<>(command = "none") => (exitRequested ~> end # "running")
===============================================================================
