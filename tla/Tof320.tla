-------------------------------- MODULE Tof320 --------------------------------
(***************************************************************************)
(* A camera object (driver/src/tof320.cpp) between its two channels: the   *)
(* application's thread makes calls that send commands through a           *)
(* TcpConnection, and the io thread turns the datagrams of the camera into *)
(* frames, each labelled with the type that was asked for last.            *)
(*                                                                         *)
(* A type is represented by the stream call that asks for it: dataType and *)
(* the mode of the camera are numbers of commands, 0 for none.             *)
(*                                                                         *)
(* Of a frame's datagrams two decide about its label, the first and the    *)
(* last.  The datagrams under way are a set: the callback takes any of     *)
(* them next, and one that it never takes is lost.  What the datagrams put *)
(* into a frame is in FrameAssembly.                                       *)
(***************************************************************************)
EXTENDS Naturals, Sequences

CONSTANTS
  MaxAttempts, MaxCalls, MaxFaults, AckPieces, Faults,  \* of TcpConnection
  MaxFrames   \* bound: frames the camera sends

ASSUME MaxFramesIsNat == MaxFrames \in Nat
ASSUME ChannelConstants ==
  /\ MaxAttempts \in Nat \ {0} /\ MaxCalls \in Nat /\ MaxFaults \in Nat
  /\ AckPieces \in Nat \ {0} /\ Faults \subseteq {"close", "reset", "crash", "resolve"}

VARIABLES
  state, previousState, sock, pc, returnTo, cmd, attempts, outcome,
  devConn, conn, toDevice, owed, arrived, devUp, log, faults,
  isStreaming,   \* ToF320::isStreaming
  dataType,      \* ToF320::dataType: the stream call that set it
  call,          \* the call of the application in progress
  commands,      \* what each command asks of the camera
  sure,          \* history: the last stream or stop call was acknowledged
  mode,          \* the stream command that the camera obeys
  net,           \* datagrams under way, or lost
  currentFrame,  \* dataType of ToF320::currentFrame, 0 while that is null
  labels,        \* history: of each delivered frame the mode, the dataType and
                 \* whether its own first datagram had not come
  frames,        \* frames sent so far
  crashed        \* the callback used a null currentFrame

tcp == <<state, previousState, sock, pc, returnTo, cmd, attempts, outcome,
         devConn, conn, toDevice, owed, arrived, devUp, log, faults>>
app == <<isStreaming, dataType, call, commands, sure>>
video == <<net, currentFrame, labels, frames, crashed>>
vars == <<tcp, app, mode, video>>

Tcp == INSTANCE TcpConnection

Init ==
  /\ Tcp!Init
  /\ isStreaming = FALSE /\ dataType = 0
  /\ call = "none" /\ commands = <<>> /\ sure = TRUE
  /\ mode = 0
  /\ net = {} /\ currentFrame = 0 /\ labels = <<>> /\ frames = 0 /\ crashed = FALSE

-------------------------------------------------------------------------------
(* The application's calls.  The constructor connects before the first one. *)

Begin(kind, asks) ==
  /\ call = "none"
  /\ Tcp!SendCommand
  /\ call' = kind
  /\ commands' = Append(commands, asks)

\* Faulty variant of Stream: the type is that of the next call.
StreamTypeAhead ==
  /\ Begin("stream", "stream")
  /\ dataType' = cmd + 2
  /\ UNCHANGED <<isStreaming, sure, mode, video>>

\* streamDCS, streamDistanceAmplitude, streamDistance, streamGrayscale: the
\* type is set before the command is sent.
Stream ==
  /\ Begin("stream", "stream")
  /\ dataType' = cmd + 1
  /\ UNCHANGED <<isStreaming, sure, mode, video>>

\* stopStream, alone or as the first step of shutdown, returns at once when
\* isStreaming is false.
StopStream ==
  /\ isStreaming
  /\ \/ Begin("stop", "stop")
     \/ Begin("shutdown", "stop")
  /\ UNCHANGED <<isStreaming, dataType, sure, mode, video>>

\* The setters, from setOffset to setModulation, send a command of their own.
Set ==
  /\ Begin("set", "set")
  /\ UNCHANGED <<isStreaming, dataType, sure, mode, video>>

Threw == outcome \in {"threwBadDescriptor", "threwClosed"}

\* sendCommand has returned or thrown; an exception skips what follows it.
Finish ==
  /\ pc = "idle" /\ call \notin {"none", "close"}
  /\ call' = IF call = "shutdown" /\ ~Threw THEN "close" ELSE "none"
  /\ isStreaming' = IF Threw \/ call = "set" THEN isStreaming ELSE call = "stream"
  /\ sure' = IF call = "set" THEN sure ELSE outcome = "acked"
  /\ UNCHANGED <<tcp, dataType, commands, mode, video>>

\* shutdown with nothing to stop goes on to close the connection.
Shutdown ==
  /\ call = "none" /\ pc = "idle"
  /\ ~isStreaming
  /\ call' = "close"
  /\ UNCHANGED <<tcp, isStreaming, dataType, commands, sure, mode, video>>

Close ==
  /\ call = "close"
  /\ \/ Tcp!Close
     \/ sock = "null" /\ UNCHANGED tcp
  /\ call' = "none"
  /\ UNCHANGED <<isStreaming, dataType, commands, sure, mode, video>>

-------------------------------------------------------------------------------
(* The camera (external) *)

Serve ==
  /\ Tcp!DeviceServe
  /\ mode' = [stream |-> Head(toDevice), stop |-> 0, set |-> mode][commands[Head(toDevice)]]
  /\ UNCHANGED <<app, video>>

Crash ==
  /\ Tcp!DeviceCrash
  /\ mode' = 0
  /\ UNCHANGED <<app, video>>

Datagrams(f) == [part : {"first", "last"}, frame : {f}, mode : {mode}]

SendFrame ==
  /\ mode # 0
  /\ frames < MaxFrames
  /\ frames' = frames + 1
  /\ net' = net \cup Datagrams(frames + 1)
  /\ UNCHANGED <<tcp, app, mode, currentFrame, labels, crashed>>

-------------------------------------------------------------------------------
(* The callback on the io thread *)

Take(d, part) ==
  /\ d.part = part
  /\ net' = net \ {d}
  /\ UNCHANGED <<tcp, app, mode, frames>>

\* Faulty variant of FirstDatagram: a frame keeps the type of the one before.
FirstDatagramKeepsType ==
  /\ \E d \in net : Take(d, "first")
  /\ currentFrame' = IF currentFrame = 0 THEN dataType ELSE currentFrame
  /\ UNCHANGED <<labels, crashed>>

\* A first datagram makes a new currentFrame, of the type asked for last.
FirstDatagram ==
  /\ \E d \in net : Take(d, "first")
  /\ currentFrame' = dataType
  /\ UNCHANGED <<labels, crashed>>

\* The own first datagram of a frame is late, or lost.
Headless(d) == [d EXCEPT !.part = "first"] \in net

\* A last datagram delivers currentFrame, whichever frame made it.
LastDatagram ==
  /\ currentFrame # 0
  /\ \E d \in net :
       /\ Take(d, "last")
       /\ labels' = Append(labels, [mode |-> d.mode, dataType |-> currentFrame,
                                    headless |-> Headless(d)])
  /\ UNCHANGED <<currentFrame, crashed>>

\* Before any first datagram that pointer is null: what follows is undefined.
NoCurrentFrame ==
  /\ currentFrame = 0
  /\ \E d \in net : Take(d, "last")
  /\ crashed' = TRUE
  /\ UNCHANGED <<currentFrame, labels>>

-------------------------------------------------------------------------------
Connection ==
  /\ \/ Tcp!Driver \/ Tcp!DeviceAck \/ Tcp!PeerRejects \/ Tcp!PeerUnreachable
     \/ Tcp!DeviceClose \/ Tcp!DeviceReset \/ Tcp!DeviceBoot
  /\ UNCHANGED <<app, mode, video>>

Application == Stream \/ StopStream \/ Set \/ Finish \/ Shutdown \/ Close

Camera == Serve \/ Crash \/ SendFrame

Callback == FirstDatagram \/ LastDatagram \/ NoCurrentFrame

Next == ~crashed /\ (Application \/ Connection \/ Camera \/ Callback)

Spec == Init /\ [][Next]_vars

-------------------------------------------------------------------------------
TypeOK ==
  /\ Tcp!TypeOK
  /\ isStreaming \in BOOLEAN /\ sure \in BOOLEAN
  /\ call \in {"none", "stream", "stop", "shutdown", "set", "close"}
  /\ commands \in Seq({"stream", "stop", "set"})
  /\ dataType \in 0..Len(commands) /\ mode \in 0..Len(commands)
  /\ frames \in Nat /\ crashed \in BOOLEAN
  /\ net \subseteq [part : {"first", "last"}, frame : 1..frames, mode : 1..Len(commands)]
  /\ currentFrame \in 0..dataType
  /\ labels \in Seq([mode : 1..Len(commands), dataType : 1..dataType, headless : BOOLEAN])

(***************************************************************************)
(* From an acknowledged stream or stop call to the next one, the camera    *)
(* does not stream unless isStreaming says so, and streams what was asked  *)
(* for last: no command of an earlier call reaches it late, over whichever *)
(* connection it was sent, and no retry undoes what came after it.         *)
(***************************************************************************)
CameraFollowsDriver ==
  call \in {"none", "set", "close"} /\ sure /\ mode # 0
    => isStreaming /\ mode = dataType

(***************************************************************************)
(* A frame may be labelled with a type that was asked for after it was     *)
(* taken (the type is set while frames are under way).  It has one that    *)
(* was asked for before only if its own first datagram had not come by the *)
(* time of its last one: then it is delivered as the frame before it, with *)
(* the label of that.  And the labels of the delivered frames never go     *)
(* back, whatever is lost or late.                                         *)
(***************************************************************************)
LabelNeverOlder ==
  \A i \in DOMAIN labels :
    /\ labels[i].dataType < labels[i].mode => labels[i].headless
    /\ \A k \in 1..i : labels[k].dataType <= labels[i].dataType
===============================================================================
