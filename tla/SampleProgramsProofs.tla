------------------------- MODULE SampleProgramsProofs -------------------------
(***************************************************************************)
(* For any image types and any number of datagrams under way: no program   *)
(* uses what is gone, shows what was not computed, or leaves behind what   *)
(* it does not say, but for the exceptions that the properties name.       *)
(***************************************************************************)
EXTENDS SamplePrograms, TLAPS

Last == [demo |-> 13, node |-> 21, failed |-> 13, set_ip |-> 6]

At(program, steps) == script = program /\ step \in steps

\* Where the scripts stop and start the stream, and where they send commands.
StopAt == At("demo", {11}) \/ At("node", {4, 17}) \/ At("failed", {1, 9})
StreamAt == At("demo", {9}) \/ At("node", {11, 12})
CommandAt == \/ StopAt \/ StreamAt
             \/ At("demo", 3..8) \/ At("node", 5..10) \/ At("set_ip", {3})
PauseAt == \/ At("demo", {12}) \/ At("node", {2, 16}) \/ At("failed", {8})
           \/ At("set_ip", {2, 4})
DeleteAt == At("demo", {13}) \/ At("node", {20}) \/ At("failed", {4, 12}) \/ At("set_ip", {5})
CloseAt == At("node", {19, 21}) \/ At("failed", {3, 5, 11, 13})

-------------------------------------------------------------------------------
(* The scripts *)

LEMMA ScriptDemo ==
  LET s == Script.demo IN
  /\ Len(s) = 13
  /\ s[1] = "open" /\ s[2] = "subscribe" /\ s[3] = "modulation"
  /\ s[4] = "minAmplitude" /\ s[5] = "integrationTime" /\ s[6] = "hdr"
  /\ s[7] = "roi" /\ s[8] = "filter" /\ s[9] = "stream"
  /\ s[10] = "wait" /\ s[11] = "stop" /\ s[12] = "pause"
  /\ s[13] = "delete"
BY DEF Script, Settings

LEMMA ScriptNode ==
  LET s == Script.node IN
  /\ Len(s) = 21
  /\ s[1] = "open" /\ s[2] = "pause" /\ s[3] = "connected"
  /\ s[4] = "stop" /\ s[5] = "modulation" /\ s[6] = "minAmplitude"
  /\ s[7] = "integrationTime" /\ s[8] = "hdr" /\ s[9] = "roi"
  /\ s[10] = "filter" /\ s[11] = "stream" /\ s[12] = "stream"
  /\ s[13] = "rgb" /\ s[14] = "subscribe" /\ s[15] = "wait"
  /\ s[16] = "pause" /\ s[17] = "stop" /\ s[18] = "shutdown"
  /\ s[19] = "release" /\ s[20] = "delete" /\ s[21] = "deleteCapture"
BY DEF Script, Settings, WaitSteps, ShutdownSteps

LEMMA ScriptFailed ==
  LET s == Script.failed IN
  /\ Len(s) = 13
  /\ s[1] = "stop" /\ s[2] = "shutdown" /\ s[3] = "release"
  /\ s[4] = "delete" /\ s[5] = "deleteCapture" /\ s[6] = "subscribe"
  /\ s[7] = "wait" /\ s[8] = "pause" /\ s[9] = "stop"
  /\ s[10] = "shutdown" /\ s[11] = "release" /\ s[12] = "delete"
  /\ s[13] = "deleteCapture"
BY DEF Script, WaitSteps, ShutdownSteps

LEMMA ScriptSetIp ==
  LET s == Script.set_ip IN
  /\ Len(s) = 6
  /\ s[1] = "open" /\ s[2] = "pause" /\ s[3] = "setIP"
  /\ s[4] = "pause" /\ s[5] = "delete" /\ s[6] = "report"
BY DEF Script

Position ==
  /\ script \in {"demo", "node", "failed", "set_ip"}
  /\ step \in 1..Last[script]

\* What the main thread is doing, by program and step.
LEMMA Steps ==
  ASSUME Position, end = "running"
  PROVE  /\ Len(Script[script]) = Last[script]
         /\ Doing("open") <=> step = 1 /\ script # "failed"
         /\ Doing("subscribe") <=> At("demo", {2}) \/ At("node", {14}) \/ At("failed", {6})
         /\ Doing("pause") <=> PauseAt
         /\ Doing("connected") <=> At("node", {3})
         /\ Doing("stop") <=> StopAt
         /\ Doing("stream") <=> StreamAt
         /\ Doing("wait") <=> At("demo", {10}) \/ At("node", {15}) \/ At("failed", {7})
         /\ Doing("rgb") <=> At("node", {13})
         /\ Doing("shutdown") <=> At("node", {18}) \/ At("failed", {2, 10})
         /\ Doing("release") \/ Doing("deleteCapture") <=> CloseAt
         /\ Doing("delete") <=> DeleteAt
         /\ Doing("setIP") <=> At("set_ip", {3})
         /\ Doing("report") <=> At("set_ip", {6})
         /\ (\E name \in Commands : Doing(name)) <=> CommandAt
<1> USE DEF Doing, At, StopAt, StreamAt, CommandAt, PauseAt, DeleteAt, CloseAt, Commands, Last
<1>1. CASE script = "demo"
  BY <1>1, ScriptDemo DEF Position
<1>2. CASE script = "node"
  BY <1>2, ScriptNode DEF Position
<1>3. CASE script = "failed"
  BY <1>3, ScriptFailed DEF Position
<1>4. CASE script = "set_ip"
  BY <1>4, ScriptSetIp DEF Position
<1> QED
  BY <1>1, <1>2, <1>3, <1>4 DEF Position

\* Advance goes on to the next step, or returns after the last.
LEMMA AdvanceStep ==
  ASSUME Position, end = "running", Advance
  PROVE  /\ script' = script /\ culprit' = culprit
         /\ step = Last[script] => step' = step /\ end' = "returned"
         /\ step # Last[script] => step' = step + 1 /\ end' = "running"
         /\ Position'
<1>1. Len(Script[script]) = Last[script]
  BY Steps
<1> QED
  BY <1>1 DEF Advance, ending, Position, Last

\* A program that has ended does nothing.
LEMMA Ended ==
  ASSUME [Next]_vars, end # "running" PROVE UNCHANGED vars
BY DEF Next, Main, OwnStep, Io, NoCurrentFrame, UseDeleted, Open, Subscribe, NotConnected, IsConnectedThrows, Connected, NothingToSend, Send,
       Acked, GaveUp, Threw, Returns, OpenCapture, Wait, Pause, Shutdown, CloseCapture, Delete,
       Report, Execute, SendDatagram, RequestExit, Unwanted, BeginCallback, EndCallback,
       BeginRead, EndRead, Call, Doing

-------------------------------------------------------------------------------
(* The invariants of a program that runs *)

(***************************************************************************)
(* A deleted object is only still there where its subscription has been    *)
(* taken back, and in set_camera_ip.                                       *)
(***************************************************************************)
ObjectInv ==
  /\ object = "deleted" =>
       At("node", {21}) \/ At("failed", 5..13) \/ At("set_ip", {6})
  /\ subscribed =>
       script \in {"demo", "set_ip"} \/ At("node", 1..18) \/ At("failed", 1..2)
  /\ io = "busy" => subscribed

\* The datagrams under way.
NetType == net \in Seq({"first", "last"}) /\ place \in {"first", "last"}

\* A callback works on a datagram.
BusyInv == io = "busy" => net # <<>>

(***************************************************************************)
(* The driver believes in a stream between the two commands only; without  *)
(* doubt, the camera streams only if the driver believes so.               *)
(***************************************************************************)
QuietInv ==
  /\ isStreaming => At("demo", 10..11) \/ At("node", 12..17)
  /\ command # "none" => CommandAt
  /\ command = "executed" /\ StopAt => ~streaming
  /\ ~doubt /\ streaming => isStreaming \/ (command = "executed" /\ StreamAt)
  /\ At("set_ip", {3}) /\ command = "executed" => address = "new"
  /\ At("set_ip", 4..6) => address = "new" \/ failed

(***************************************************************************)
(* After a pause that was long enough nothing is under way.                *)
(***************************************************************************)
SettledInv ==
  /\ At("demo", {13}) /\ ~doubt /\ ~slow => net = <<>> /\ io = "idle"
  /\ script = "set_ip" /\ ~doubt => net = <<>> /\ io = "idle"
  /\ rgb # "none" => At("node", 14..21)
  /\ At("node", 16..21) => ~rosRunning
  /\ At("node", 17..21) /\ ~slow => rgb \notin {"loop", "reading"}

\* sendCommand returns to where it was called from, and the script goes on.
LEMMA ReturnsStep ==
  ASSUME Position, QuietInv, end = "running", Acked \/ GaveUp
  PROVE  /\ script' = script /\ (step # Last[script] => step' = step + 1) /\ Position'
         /\ CommandAt /\ command' = "none"
         /\ isStreaming' <=> StreamAt \/ (isStreaming /\ ~StopAt)
         /\ UNCHANGED <<object, subscribed, camera, io, net, rgb, rosRunning, slow>>
<1>1. Returns
  BY DEF Acked, GaveUp
<1>2. Advance /\ command # "none"
  BY <1>1 DEF Returns
<1>3. isStreaming' <=> Doing("stream") \/ (isStreaming /\ ~Doing("stop"))
  BY <1>1 DEF Returns
<1> QED
  BY <1>1, <1>2, <1>3, Steps, AdvanceStep DEF Returns, QuietInv, thread, rgbThread

\* Every step keeps the place in the script.
LEMMA PositionStep ==
  ASSUME Position, QuietInv, end = "running", Next PROVE Position'
<1> USE DEF Position, Last
<1>1. CASE UseDeleted
  BY <1>1, Steps DEF UseDeleted, Undefined, main, tof, camera, thread, rgbThread,
     ending, history
<1>2. CASE Open
  BY <1>2, Steps, AdvanceStep DEF Open, Call, main, tof, camera, thread, rgbThread,
     ending, history
<1>3. CASE Subscribe
  BY <1>3, Steps, AdvanceStep DEF Subscribe, Call, main, tof, camera, thread,
     rgbThread, ending, history
<1>4. CASE NotConnected
  BY <1>4, Steps DEF NotConnected, Call, main, tof, camera, thread, rgbThread, ending,
     history
<1>5. CASE Connected
  BY <1>5, Steps, AdvanceStep DEF Connected, Call, main, tof, camera, thread,
     rgbThread, ending, history
<1>6. CASE NothingToSend
  BY <1>6, Steps, AdvanceStep DEF NothingToSend, Call, main, tof, camera, thread,
     rgbThread, ending, history
<1>7. CASE Send
  <2>1. UNCHANGED <<script, step>>
    BY <1>7 DEF Send
  <2> QED
    BY <2>1
<1>8. CASE Acked
  BY <1>8, ReturnsStep DEF Acked
<1>9. CASE GaveUp
  BY <1>9, ReturnsStep DEF GaveUp
<1>10. CASE Threw
  BY <1>10 DEF Threw, main, tof, camera, thread, rgbThread, ending, history
<1>11. CASE OpenCapture
  BY <1>11, Steps, AdvanceStep DEF OpenCapture, Call, main, tof, camera, thread,
     rgbThread, ending, history
<1>12. CASE Wait
  BY <1>12, Steps, AdvanceStep DEF Wait, Call, main, tof, camera, thread, rgbThread,
     ending, history
<1>13. CASE Pause
  BY <1>13, Steps, AdvanceStep DEF Pause, main, tof, camera, thread, rgbThread,
     ending, history
<1>14. CASE Shutdown
  BY <1>14, Steps, AdvanceStep DEF Shutdown, Call, main, tof, camera, thread,
     rgbThread, ending, history
<1>15. CASE CloseCapture
  BY <1>15, Steps, AdvanceStep DEF CloseCapture, Undefined, main, tof, camera, thread,
     rgbThread, ending, history
<1>16. CASE Delete
  BY <1>16, Steps, AdvanceStep DEF Delete, Undefined, Call, main, tof, camera, thread,
     rgbThread, ending, history
<1>17. CASE Report
  BY <1>17, Steps, AdvanceStep DEF Report, main, tof, camera, thread, rgbThread,
     ending, history
<1>18. CASE Execute
  BY <1>18, Steps DEF Execute, main, tof, camera, thread, rgbThread, ending, history
<1>19. CASE SendDatagram
  BY <1>19 DEF SendDatagram, main, tof, camera, thread, rgbThread, ending, history
<1>20. CASE RequestExit
  BY <1>20 DEF RequestExit, main, tof, camera, thread, rgbThread, ending, history
<1>21. CASE Unwanted
  BY <1>21 DEF Unwanted, main, tof, camera, thread, rgbThread, ending, history
<1>22. CASE BeginCallback
  BY <1>22 DEF BeginCallback, Undefined, main, tof, camera, thread, rgbThread, ending,
     history
<1>23. CASE EndCallback
  BY <1>23 DEF EndCallback, main, tof, camera, thread, rgbThread, ending, history
<1>24. CASE BeginRead
  BY <1>24 DEF BeginRead, main, tof, camera, thread, rgbThread, ending, history
<1>25. CASE EndRead
  BY <1>25 DEF EndRead, main, tof, camera, thread, rgbThread, ending, history
<1>26. CASE IsConnectedThrows
  BY <1>26 DEF IsConnectedThrows, main, tof, camera, thread, rgbThread, history
<1>27. CASE NoCurrentFrame
  BY <1>27 DEF NoCurrentFrame, Undefined, main, tof, camera, thread, rgbThread, history
<1> QED
  BY <1>1, <1>2, <1>3, <1>4, <1>5, <1>6, <1>7, <1>8, <1>9, <1>10, <1>11, <1>12, <1>13,
     <1>14, <1>15, <1>16, <1>17, <1>18, <1>19, <1>20, <1>21, <1>22, <1>23, <1>24,
     <1>25, <1>26, <1>27 DEF Next, Main, OwnStep, Io

\* shutdown takes the subscription back before delete.
LEMMA ObjectStep ==
  ASSUME Position, QuietInv, ObjectInv, end = "running", Next PROVE end' = "running" => ObjectInv'
<1> USE DEF At, StopAt, StreamAt, CommandAt, PauseAt, DeleteAt, CloseAt, Last, Position, ObjectInv
<1>1. CASE UseDeleted
  BY <1>1, Steps DEF UseDeleted, Undefined, main, tof, camera, thread, rgbThread,
     ending, history
<1>2. CASE Open
  BY <1>2, Steps, AdvanceStep DEF Open, Call, main, tof, camera, thread, rgbThread,
     ending, history
<1>3. CASE Subscribe
  BY <1>3, Steps, AdvanceStep DEF Subscribe, Call, main, tof, camera, thread,
     rgbThread, ending, history
<1>4. CASE NotConnected
  BY <1>4, Steps DEF NotConnected, Call, main, tof, camera, thread, rgbThread, ending,
     history
<1>5. CASE Connected
  BY <1>5, Steps, AdvanceStep DEF Connected, Call, main, tof, camera, thread,
     rgbThread, ending, history
<1>6. CASE NothingToSend
  BY <1>6, Steps, AdvanceStep DEF NothingToSend, Call, main, tof, camera, thread,
     rgbThread, ending, history
<1>7. CASE Send
  BY <1>7, Steps DEF Send, Call, main, tof, camera, thread, rgbThread, ending, history
<1>8. CASE Acked
  <2>1. /\ script' = script /\ (step # Last[script] => step' = step + 1) /\ Position'
        /\ CommandAt /\ command' = "none"
        /\ isStreaming' <=> StreamAt \/ (isStreaming /\ ~StopAt)
        /\ UNCHANGED <<object, subscribed, camera, io, net, rgb, rosRunning, slow>>
    BY <1>8, ReturnsStep DEF Acked
  <2> QED
    BY <2>1
<1>9. CASE GaveUp
  <2>1. /\ script' = script /\ (step # Last[script] => step' = step + 1) /\ Position'
        /\ CommandAt /\ command' = "none"
        /\ isStreaming' <=> StreamAt \/ (isStreaming /\ ~StopAt)
        /\ UNCHANGED <<object, subscribed, camera, io, net, rgb, rosRunning, slow>>
    BY <1>9, ReturnsStep DEF GaveUp
  <2> QED
    BY <2>1
<1>10. CASE Threw
  BY <1>10 DEF Threw, main, tof, camera, thread, rgbThread, ending, history
<1>11. CASE OpenCapture
  BY <1>11, Steps, AdvanceStep DEF OpenCapture, Call, main, tof, camera, thread,
     rgbThread, ending, history
<1>12. CASE Wait
  BY <1>12, Steps, AdvanceStep DEF Wait, Call, main, tof, camera, thread, rgbThread,
     ending, history
<1>13. CASE Pause
  BY <1>13, Steps, AdvanceStep DEF Pause, main, tof, camera, thread, rgbThread,
     ending, history
<1>14. CASE Shutdown
  BY <1>14, Steps, AdvanceStep DEF Shutdown, Call, main, tof, camera, thread,
     rgbThread, ending, history
<1>15. CASE CloseCapture
  BY <1>15, Steps, AdvanceStep DEF CloseCapture, Undefined, main, tof, camera, thread,
     rgbThread, ending, history
<1>16. CASE Delete
  BY <1>16, Steps, AdvanceStep DEF Delete, Undefined, Call, main, tof, camera, thread,
     rgbThread, ending, history
<1>17. CASE Report
  BY <1>17, Steps, AdvanceStep DEF Report, main, tof, camera, thread, rgbThread,
     ending, history
<1>18. CASE Execute
  BY <1>18, Steps DEF Execute, main, tof, camera, thread, rgbThread, ending, history
<1>19. CASE SendDatagram
  BY <1>19 DEF SendDatagram, main, tof, camera, thread, rgbThread, ending, history
<1>20. CASE RequestExit
  BY <1>20 DEF RequestExit, main, tof, camera, thread, rgbThread, ending, history
<1>21. CASE Unwanted
  BY <1>21 DEF Unwanted, main, tof, camera, thread, rgbThread, ending, history
<1>22. CASE BeginCallback
  BY <1>22 DEF BeginCallback, Undefined, main, tof, camera, thread, rgbThread, ending,
     history
<1>23. CASE EndCallback
  BY <1>23 DEF EndCallback, main, tof, camera, thread, rgbThread, ending, history
<1>24. CASE BeginRead
  BY <1>24 DEF BeginRead, main, tof, camera, thread, rgbThread, ending, history
<1>25. CASE EndRead
  BY <1>25 DEF EndRead, main, tof, camera, thread, rgbThread, ending, history
<1>26. CASE IsConnectedThrows
  BY <1>26 DEF IsConnectedThrows, main, tof, camera, thread, rgbThread, history
<1>27. CASE NoCurrentFrame
  BY <1>27 DEF NoCurrentFrame, Undefined, main, tof, camera, thread, rgbThread, history
<1> QED
  BY <1>1, <1>2, <1>3, <1>4, <1>5, <1>6, <1>7, <1>8, <1>9, <1>10, <1>11, <1>12, <1>13,
     <1>14, <1>15, <1>16, <1>17, <1>18, <1>19, <1>20, <1>21, <1>22, <1>23, <1>24,
     <1>25, <1>26, <1>27 DEF Next, Main, OwnStep, Io

\* Only a callback that ends takes its datagram away.
LEMMA BusyStep ==
  ASSUME NetType, BusyInv, end = "running", Next PROVE BusyInv'
<1>1. CASE SendDatagram
  BY <1>1 DEF SendDatagram, NetType, BusyInv
<1>2. CASE BeginCallback
  BY <1>2 DEF BeginCallback, BusyInv
<1>3. CASE EndCallback
  BY <1>3 DEF EndCallback, BusyInv
<1>4. CASE Unwanted
  BY <1>4 DEF Unwanted, BusyInv
<1>6. CASE NoCurrentFrame
  BY <1>6 DEF NoCurrentFrame, BusyInv, thread
<1>5. CASE Main \/ Execute \/ RequestExit \/ BeginRead \/ EndRead
  <2>1. net' = net /\ io' = io
    BY <1>5 DEF Main, OwnStep, UseDeleted, Open, Subscribe, NotConnected, IsConnectedThrows, Connected, NothingToSend, Send,
         Acked, GaveUp, Threw, Returns, OpenCapture, Wait, Pause, Shutdown, CloseCapture,
         Delete, Report, Execute, RequestExit, BeginRead, EndRead, thread
  <2> QED
    BY <2>1 DEF BusyInv
<1> QED
  BY <1>1, <1>2, <1>3, <1>4, <1>5, <1>6 DEF Next, Io

\* Every command leaves its mark, or doubt.
LEMMA QuietStep ==
  ASSUME Position, QuietInv, end = "running", Next PROVE end' = "running" => QuietInv'
<1> USE DEF At, StopAt, StreamAt, CommandAt, PauseAt, DeleteAt, CloseAt, Last, Position, QuietInv
<1>1. CASE UseDeleted
  BY <1>1, Steps DEF UseDeleted, Undefined, main, tof, camera, thread, rgbThread,
     ending, history
<1>2. CASE Open
  BY <1>2, Steps, AdvanceStep DEF Open, Call, main, tof, camera, thread, rgbThread,
     ending, history
<1>3. CASE Subscribe
  BY <1>3, Steps, AdvanceStep DEF Subscribe, Call, main, tof, camera, thread,
     rgbThread, ending, history
<1>4. CASE NotConnected
  BY <1>4, Steps DEF NotConnected, Call, main, tof, camera, thread, rgbThread, ending,
     history
<1>5. CASE Connected
  BY <1>5, Steps, AdvanceStep DEF Connected, Call, main, tof, camera, thread,
     rgbThread, ending, history
<1>6. CASE NothingToSend
  BY <1>6, Steps, AdvanceStep DEF NothingToSend, Call, main, tof, camera, thread,
     rgbThread, ending, history
<1>7. CASE Send
  BY <1>7, Steps DEF Send, Call, main, tof, camera, thread, rgbThread, ending, history
<1>8. CASE Acked
  <2>1. /\ script' = script /\ (step # Last[script] => step' = step + 1) /\ Position'
        /\ CommandAt /\ command' = "none"
        /\ isStreaming' <=> StreamAt \/ (isStreaming /\ ~StopAt)
        /\ UNCHANGED <<object, subscribed, camera, io, net, rgb, rosRunning, slow>>
    BY <1>8, ReturnsStep DEF Acked
  <2>2. /\ command = "executed" /\ failed' = failed
        /\ doubt' <=> doubt /\ ~Doing("stop")
    BY <1>8 DEF Acked
  <2>3. ~doubt' => ~doubt \/ StopAt
    BY <2>2, Steps
  <2>4. UNCHANGED <<streaming, address>>
    BY <2>1 DEF camera
  <2>5. ~doubt' /\ streaming' => isStreaming'
    BY <2>1, <2>2, <2>3, <2>4
  <2>6. isStreaming' => At("demo", 10..11)' \/ At("node", 12..17)'
    BY <2>1
  <2>7. At("set_ip", 4..6)' => address' = "new" \/ failed'
    BY <2>1, <2>2, <2>4
  <2> QED
    BY <2>1, <2>5, <2>6, <2>7
<1>9. CASE GaveUp
  <2>1. /\ script' = script /\ (step # Last[script] => step' = step + 1) /\ Position'
        /\ CommandAt /\ command' = "none"
        /\ isStreaming' <=> StreamAt \/ (isStreaming /\ ~StopAt)
        /\ UNCHANGED <<object, subscribed, camera, io, net, rgb, rosRunning, slow>>
    BY <1>9, ReturnsStep DEF GaveUp
  <2>2. failed' = TRUE /\ (~doubt' => ~doubt /\ ~StopAt /\ ~StreamAt)
    BY <1>9, Steps DEF GaveUp, Returns
  <2> QED
    BY <2>1, <2>2 DEF camera
<1>10. CASE Threw
  BY <1>10 DEF Threw, main, tof, camera, thread, rgbThread, ending, history
<1>11. CASE OpenCapture
  BY <1>11, Steps, AdvanceStep DEF OpenCapture, Call, main, tof, camera, thread,
     rgbThread, ending, history
<1>12. CASE Wait
  BY <1>12, Steps, AdvanceStep DEF Wait, Call, main, tof, camera, thread, rgbThread,
     ending, history
<1>13. CASE Pause
  BY <1>13, Steps, AdvanceStep DEF Pause, main, tof, camera, thread, rgbThread,
     ending, history
<1>14. CASE Shutdown
  BY <1>14, Steps, AdvanceStep DEF Shutdown, Call, main, tof, camera, thread,
     rgbThread, ending, history
<1>15. CASE CloseCapture
  BY <1>15, Steps, AdvanceStep DEF CloseCapture, Undefined, main, tof, camera, thread,
     rgbThread, ending, history
<1>16. CASE Delete
  BY <1>16, Steps, AdvanceStep DEF Delete, Undefined, Call, main, tof, camera, thread,
     rgbThread, ending, history
<1>17. CASE Report
  BY <1>17, Steps, AdvanceStep DEF Report, main, tof, camera, thread, rgbThread,
     ending, history
<1>18. CASE Execute
  <2>1. /\ command' = "executed" /\ command = "pending"
        /\ streaming' <=> Doing("stream") \/ (streaming /\ ~Doing("stop"))
        /\ Doing("setIP") => address' = "new"
        /\ ~Doing("setIP") => address' = address
        /\ UNCHANGED <<script, step, isStreaming, doubt, failed>>
    BY <1>18 DEF Execute, tof, history
  <2>2. ~(StopAt /\ StreamAt)
    OBVIOUS
  <2> QED
    BY <2>1, <2>2, Steps
<1>19. CASE SendDatagram
  BY <1>19 DEF SendDatagram, main, tof, camera, thread, rgbThread, ending, history
<1>20. CASE RequestExit
  BY <1>20 DEF RequestExit, main, tof, camera, thread, rgbThread, ending, history
<1>21. CASE Unwanted
  BY <1>21 DEF Unwanted, main, tof, camera, thread, rgbThread, ending, history
<1>22. CASE BeginCallback
  BY <1>22 DEF BeginCallback, Undefined, main, tof, camera, thread, rgbThread, ending,
     history
<1>23. CASE EndCallback
  BY <1>23 DEF EndCallback, main, tof, camera, thread, rgbThread, ending, history
<1>24. CASE BeginRead
  BY <1>24 DEF BeginRead, main, tof, camera, thread, rgbThread, ending, history
<1>25. CASE EndRead
  BY <1>25 DEF EndRead, main, tof, camera, thread, rgbThread, ending, history
<1>26. CASE IsConnectedThrows
  BY <1>26 DEF IsConnectedThrows, main, tof, camera, thread, rgbThread, history
<1>27. CASE NoCurrentFrame
  BY <1>27 DEF NoCurrentFrame, Undefined, main, tof, camera, thread, rgbThread, history
<1> QED
  BY <1>1, <1>2, <1>3, <1>4, <1>5, <1>6, <1>7, <1>8, <1>9, <1>10, <1>11, <1>12, <1>13,
     <1>14, <1>15, <1>16, <1>17, <1>18, <1>19, <1>20, <1>21, <1>22, <1>23, <1>24,
     <1>25, <1>26, <1>27 DEF Next, Main, OwnStep, Io

\* Nothing is under way after a long pause, and nothing new comes.
LEMMA SettledStep ==
  ASSUME Position, QuietInv, SettledInv, end = "running", Next PROVE end' = "running" => SettledInv'
<1> USE DEF At, StopAt, StreamAt, CommandAt, PauseAt, DeleteAt, CloseAt, Last, Position, QuietInv, SettledInv
<1>1. CASE UseDeleted
  BY <1>1, Steps DEF UseDeleted, Undefined, main, tof, camera, thread, rgbThread,
     ending, history
<1>2. CASE Open
  BY <1>2, Steps, AdvanceStep DEF Open, Call, main, tof, camera, thread, rgbThread,
     ending, history
<1>3. CASE Subscribe
  BY <1>3, Steps, AdvanceStep DEF Subscribe, Call, main, tof, camera, thread,
     rgbThread, ending, history
<1>4. CASE NotConnected
  BY <1>4, Steps DEF NotConnected, Call, main, tof, camera, thread, rgbThread, ending,
     history
<1>5. CASE Connected
  BY <1>5, Steps, AdvanceStep DEF Connected, Call, main, tof, camera, thread,
     rgbThread, ending, history
<1>6. CASE NothingToSend
  BY <1>6, Steps, AdvanceStep DEF NothingToSend, Call, main, tof, camera, thread,
     rgbThread, ending, history
<1>7. CASE Send
  BY <1>7, Steps DEF Send, Call, main, tof, camera, thread, rgbThread, ending, history
<1>8. CASE Acked
  <2>1. /\ script' = script /\ (step # Last[script] => step' = step + 1) /\ Position'
        /\ CommandAt /\ command' = "none"
        /\ isStreaming' <=> StreamAt \/ (isStreaming /\ ~StopAt)
        /\ UNCHANGED <<object, subscribed, camera, io, net, rgb, rosRunning, slow>>
    BY <1>8, ReturnsStep DEF Acked
  <2>2. ~doubt' => ~doubt \/ StopAt
    BY <1>8, Steps DEF Acked, Returns
  <2> QED
    BY <2>1, <2>2
<1>9. CASE GaveUp
  <2>1. /\ script' = script /\ (step # Last[script] => step' = step + 1) /\ Position'
        /\ CommandAt /\ command' = "none"
        /\ isStreaming' <=> StreamAt \/ (isStreaming /\ ~StopAt)
        /\ UNCHANGED <<object, subscribed, camera, io, net, rgb, rosRunning, slow>>
    BY <1>9, ReturnsStep DEF GaveUp
  <2>2. ~doubt' => ~doubt \/ StopAt
    BY <1>9, Steps DEF GaveUp, Returns
  <2> QED
    BY <2>1, <2>2
<1>10. CASE Threw
  BY <1>10 DEF Threw, main, tof, camera, thread, rgbThread, ending, history
<1>11. CASE OpenCapture
  BY <1>11, Steps, AdvanceStep DEF OpenCapture, Call, main, tof, camera, thread,
     rgbThread, ending, history
<1>12. CASE Wait
  BY <1>12, Steps, AdvanceStep DEF Wait, Call, main, tof, camera, thread, rgbThread,
     ending, history
<1>13. CASE Pause
  <2>1. /\ PauseAt /\ script' = script /\ (step # Last[script] => step' = step + 1)
        /\ ~slow' => Settled
        /\ UNCHANGED <<streaming, doubt, isStreaming, net, io, rgb, rosRunning, command>>
    BY <1>13, Steps, AdvanceStep DEF Pause, main, tof, camera, thread, rgbThread
  <2>2. ~doubt /\ At("demo", {12}) => ~streaming
    BY <2>1
  <2> QED
    BY <2>1, <2>2 DEF Settled
<1>14. CASE Shutdown
  BY <1>14, Steps, AdvanceStep DEF Shutdown, Call, main, tof, camera, thread,
     rgbThread, ending, history
<1>15. CASE CloseCapture
  BY <1>15, Steps, AdvanceStep DEF CloseCapture, Undefined, main, tof, camera, thread,
     rgbThread, ending, history
<1>16. CASE Delete
  BY <1>16, Steps, AdvanceStep DEF Delete, Undefined, Call, main, tof, camera, thread,
     rgbThread, ending, history
<1>17. CASE Report
  BY <1>17, Steps, AdvanceStep DEF Report, main, tof, camera, thread, rgbThread,
     ending, history
<1>18. CASE Execute
  BY <1>18, Steps DEF Execute, main, tof, camera, thread, rgbThread, ending, history
<1>19. CASE SendDatagram
  BY <1>19 DEF SendDatagram, main, tof, camera, thread, rgbThread, ending, history
<1>20. CASE RequestExit
  BY <1>20 DEF RequestExit, main, tof, camera, thread, rgbThread, ending, history
<1>21. CASE Unwanted
  BY <1>21 DEF Unwanted, main, tof, camera, thread, rgbThread, ending, history
<1>22. CASE BeginCallback
  BY <1>22 DEF BeginCallback, Undefined, main, tof, camera, thread, rgbThread, ending,
     history
<1>23. CASE EndCallback
  BY <1>23 DEF EndCallback, main, tof, camera, thread, rgbThread, ending, history
<1>24. CASE BeginRead
  BY <1>24 DEF BeginRead, main, tof, camera, thread, rgbThread, ending, history
<1>25. CASE EndRead
  BY <1>25 DEF EndRead, main, tof, camera, thread, rgbThread, ending, history
<1>26. CASE IsConnectedThrows
  BY <1>26 DEF IsConnectedThrows, main, tof, camera, thread, rgbThread, history
<1>27. CASE NoCurrentFrame
  BY <1>27 DEF NoCurrentFrame, Undefined, main, tof, camera, thread, rgbThread, history
<1> QED
  BY <1>1, <1>2, <1>3, <1>4, <1>5, <1>6, <1>7, <1>8, <1>9, <1>10, <1>11, <1>12, <1>13,
     <1>14, <1>15, <1>16, <1>17, <1>18, <1>19, <1>20, <1>21, <1>22, <1>23, <1>24,
     <1>25, <1>26, <1>27 DEF Next, Main, OwnStep, Io

-------------------------------------------------------------------------------
(* What the demo shows *)

(***************************************************************************)
(* Opened on a quiet camera, the demo gets frames of the one type it asked *)
(* for: whichever datagram is lost, currentFrame is null or has that type. *)
(***************************************************************************)
DemoInv ==
  script = "demo" /\ ~earlier =>
    /\ At("demo", 1..8) \/ (At("demo", {9}) /\ command # "executed") \/ Wanted = "none" =>
         ~streaming /\ net = <<>>
    /\ At("demo", {9}) /\ command # "none" => dataType = Wanted /\ Wanted # "none"
    /\ At("demo", 10..13) => Wanted = "none" \/ dataType = Wanted
    /\ label \in {"none", Wanted}

LEMMA Numbers ==
  /\ TypeNumbered(0) = "GRAYSCALE" /\ TypeNumbered(1) = "DISTANCE" /\ TypeNumbered(2) = "AMPLITUDE"
BY DEF TypeNumbered, DataType, Enumerator

\* The demo asks for one type, before its camera streams.
LEMMA DemoStep ==
  ASSUME Position, NetType, BusyInv, QuietInv, DemoInv, end = "running", Next
  PROVE  end' = "running" => DemoInv'
<1> SUFFICES ASSUME end' = "running", script' = "demo", ~earlier' PROVE DemoInv'
  BY DEF DemoInv
<1> USE DEF At, Last, Position
<1>0. script = "demo" /\ ~earlier /\ imageType' = imageType /\ Wanted' = Wanted /\ Position'
  <2>1. earlier' = earlier /\ imageType' = imageType
    BY DEF Next, Main, OwnStep, Io, NoCurrentFrame, UseDeleted, Open, Subscribe, NotConnected, IsConnectedThrows, Connected, NothingToSend,
           Send, Acked, GaveUp, Threw, Returns, OpenCapture, Wait, Pause, Shutdown,
           CloseCapture, Delete, Report, Execute, SendDatagram, RequestExit, Unwanted,
           BeginCallback, EndCallback, BeginRead, EndRead, main, history
  <2>2. Position'
    BY PositionStep
  <2>3. script = "demo"
    <3>1. CASE NotConnected
      BY <3>1 DEF NotConnected
    <3>2. CASE ~NotConnected
      BY <3>2 DEF Next, Main, OwnStep, Io, NoCurrentFrame, UseDeleted, Open, Subscribe, IsConnectedThrows, Connected, NothingToSend,
           Send, Acked, GaveUp, Threw, Returns, OpenCapture, Wait, Pause, Shutdown,
           CloseCapture, Delete, Report, Execute, SendDatagram, RequestExit, Unwanted,
           BeginCallback, EndCallback, BeginRead, EndRead, main, Advance
    <3> QED
      BY <3>1, <3>2
  <2> QED
    BY <2>1, <2>2, <2>3 DEF Wanted
<1>1. CASE UseDeleted
  BY <1>1 DEF UseDeleted, Undefined
<1>2. CASE Open
  <2>1. UNCHANGED <<net, label, dataType, streaming, command>>
    BY <1>2 DEF Open, main, tof, camera, thread
  <2>2. step = 1 /\ (step' = step + 1 \/ step' = step)
    BY <1>2, <1>0, Steps, AdvanceStep DEF Open, Call, PauseAt, DeleteAt, StopAt,
       StreamAt, Undefined
  <2> QED
    BY <1>0, <2>1, <2>2 DEF DemoInv
<1>3. CASE Subscribe
  <2>1. UNCHANGED <<net, label, dataType, streaming, command>>
    BY <1>3 DEF Subscribe, main, tof, camera, thread
  <2>2. step = 2 /\ (step' = step + 1 \/ step' = step)
    BY <1>3, <1>0, Steps, AdvanceStep DEF Subscribe, Call, PauseAt, DeleteAt, StopAt,
       StreamAt, Undefined
  <2> QED
    BY <1>0, <2>1, <2>2 DEF DemoInv
<1>4. CASE NotConnected
  BY <1>4, <1>0, Steps DEF NotConnected, Call
<1>5. CASE Connected
  <2>1. UNCHANGED <<net, label, dataType, streaming, command>>
    BY <1>5 DEF Connected, main, tof, camera, thread
  <2>2. FALSE
    BY <1>5, <1>0, Steps DEF Connected, Call, CloseAt
  <2> QED
    BY <1>0, <2>1, <2>2 DEF DemoInv
<1>6. CASE NothingToSend
  <2>1. UNCHANGED <<net, label, dataType, streaming, command>>
    BY <1>6 DEF NothingToSend, main, tof, camera, thread
  <2>2. step \in {9, 11} /\ (step' = step + 1 \/ step' = step)
    BY <1>6, <1>0, Steps, AdvanceStep DEF NothingToSend, Call, PauseAt, DeleteAt,
       StopAt, StreamAt, Undefined
  <2>3. step = 9 => Wanted = "none"
    BY <1>6, <1>0, <2>2, Steps DEF NothingToSend, Call, StopAt, StreamAt
  <2> QED
    BY <1>0, <2>1, <2>2, <2>3 DEF DemoInv
<1>7. CASE Send
  <2>1. UNCHANGED <<net, label, streaming, step>>
        /\ command = "none" /\ command' = "pending"
    BY <1>7 DEF Send, Call, camera, thread
  <2>2. /\ step = 9 => dataType' = Wanted /\ Wanted # "none"
        /\ step # 9 => dataType' = dataType
    BY <1>7, <1>0, Steps DEF Send, Call, Doing, StreamAt
  <2>3. CommandAt
    BY <1>7, Steps DEF Send, Call
  <2> QED
    BY <1>0, <2>1, <2>2, <2>3 DEF DemoInv
<1>8. CASE Acked
  <2>1. UNCHANGED <<net, label, dataType, streaming>> /\ command' = "none"
    BY <1>8 DEF Acked, Returns, main, tof, camera, thread
  <2>2. CommandAt /\ step' = step + 1
    BY <1>8, <1>0, ReturnsStep DEF CommandAt, StopAt, StreamAt
  <2>3. step \in 3..8 \cup {9, 11} /\ command # "none"
    BY <1>8, <2>2, <1>0 DEF CommandAt, StopAt, StreamAt, Acked, Returns
  <2> QED
    BY <1>0, <2>1, <2>2, <2>3 DEF DemoInv
<1>9. CASE GaveUp
  <2>1. UNCHANGED <<net, label, dataType, streaming>> /\ command' = "none"
    BY <1>9 DEF GaveUp, Returns, main, tof, camera, thread
  <2>2. CommandAt /\ step' = step + 1
    BY <1>9, <1>0, ReturnsStep DEF CommandAt, StopAt, StreamAt
  <2>3. step \in 3..8 \cup {9, 11} /\ command # "none"
    BY <1>9, <2>2, <1>0 DEF CommandAt, StopAt, StreamAt, GaveUp, Returns
  <2> QED
    BY <1>0, <2>1, <2>2, <2>3 DEF DemoInv
<1>10. CASE Threw
  BY <1>10 DEF Threw, Undefined
<1>11. CASE OpenCapture
  <2>1. UNCHANGED <<net, label, dataType, streaming, command>>
    BY <1>11 DEF OpenCapture, main, tof, camera, thread
  <2>2. FALSE
    BY <1>11, <1>0, Steps DEF OpenCapture, Call, CloseAt
  <2> QED
    BY <1>0, <2>1, <2>2 DEF DemoInv
<1>12. CASE Wait
  <2>1. UNCHANGED <<net, label, dataType, streaming, command>>
    BY <1>12 DEF Wait, main, tof, camera, thread
  <2>2. step = 10 /\ (step' = step + 1 \/ step' = step)
    BY <1>12, <1>0, Steps, AdvanceStep DEF Wait, Call, PauseAt, DeleteAt, StopAt,
       StreamAt, Undefined
  <2> QED
    BY <1>0, <2>1, <2>2 DEF DemoInv
<1>13. CASE Pause
  <2>1. UNCHANGED <<net, label, dataType, streaming, command>>
    BY <1>13 DEF Pause, main, tof, camera, thread
  <2>2. step = 12 /\ (step' = step + 1 \/ step' = step)
    BY <1>13, <1>0, Steps, AdvanceStep DEF Pause, Call, PauseAt, DeleteAt, StopAt,
       StreamAt, Undefined
  <2> QED
    BY <1>0, <2>1, <2>2 DEF DemoInv
<1>14. CASE Shutdown
  BY <1>14, <1>0, Steps DEF Shutdown, Call
<1>15. CASE CloseCapture
  <2>1. UNCHANGED <<net, label, dataType, streaming, command>>
    BY <1>15 DEF CloseCapture, Undefined, main, tof, camera, thread
  <2>2. FALSE
    BY <1>15, <1>0, Steps DEF CloseCapture, Call, CloseAt
  <2> QED
    BY <1>0, <2>1, <2>2 DEF DemoInv
<1>16. CASE Delete
  <2>1. UNCHANGED <<net, label, dataType, streaming, command>>
    BY <1>16 DEF Delete, Undefined, main, tof, camera, thread
  <2>2. step = 13 /\ (step' = step + 1 \/ step' = step)
    BY <1>16, <1>0, Steps, AdvanceStep DEF Delete, Call, PauseAt, DeleteAt, StopAt,
       StreamAt, Undefined
  <2> QED
    BY <1>0, <2>1, <2>2 DEF DemoInv
<1>17. CASE Report
  <2>1. UNCHANGED <<net, label, dataType, streaming, command>>
    BY <1>17 DEF Report, main, tof, camera, thread
  <2>2. FALSE
    BY <1>17, <1>0, Steps DEF Report, Call, CloseAt
  <2> QED
    BY <1>0, <2>1, <2>2 DEF DemoInv
<1>18. CASE Execute
  <2>1. UNCHANGED <<net, label, dataType, step>>
        /\ command = "pending" /\ command' = "executed"
    BY <1>18 DEF Execute, tof, thread
  <2>2. CASE step = 9
    <3>1. Doing("stream")
      BY <1>18, <1>0, <2>2, Steps DEF Execute, StreamAt
    <3>2. net = <<>> /\ Wanted # "none"
      BY <1>0, <2>1, <2>2 DEF DemoInv
    <3> QED
      BY <1>0, <2>1, <2>2, <3>1, <3>2 DEF DemoInv
  <2>3. CASE step # 9
    <3>1. ~Doing("stream") /\ (streaming' => streaming)
      BY <1>18, <1>0, <2>3, Steps DEF Execute, StreamAt
    <3> QED
      BY <1>0, <2>1, <2>3, <3>1 DEF DemoInv
  <2> QED
    BY <2>2, <2>3
<1>19. CASE SendDatagram
  <2>1. UNCHANGED <<label, dataType, streaming, step, command>> /\ streaming
    BY <1>19 DEF SendDatagram, main, tof
  <2> QED
    BY <1>0, <2>1 DEF DemoInv
<1>20. CASE RequestExit
  <2>1. UNCHANGED <<net, label, dataType, streaming, command>>
    BY <1>20 DEF RequestExit, main, tof, camera, thread
  <2>2. UNCHANGED <<step>>
    BY <1>20 DEF RequestExit, main
  <2> QED
    BY <1>0, <2>1, <2>2 DEF DemoInv
<1>21. CASE Unwanted
  <2>1. UNCHANGED <<label, dataType, streaming, step, command>> /\ net # <<>>
    BY <1>21 DEF Unwanted, main, tof, camera
  <2> QED
    BY <1>0, <2>1 DEF DemoInv
<1>22. CASE BeginCallback
  <2>1. UNCHANGED <<net, label, dataType, streaming, command>>
    BY <1>22 DEF BeginCallback, main, tof, camera, thread
  <2>2. UNCHANGED <<step>>
    BY <1>22 DEF BeginCallback, main
  <2> QED
    BY <1>0, <2>1, <2>2 DEF DemoInv
<1>23. CASE EndCallback
  <2>1. UNCHANGED <<dataType, streaming, step, command>> /\ label' \in {label, dataType}
    BY <1>23 DEF EndCallback, main, tof, camera
  <2>2. net # <<>>
    BY <1>23 DEF EndCallback, BusyInv
  <2>3. ~(At("demo", 1..8) \/ (At("demo", {9}) /\ command # "executed") \/ Wanted = "none")
    BY <2>2, <1>0 DEF DemoInv
  <2>4. dataType = Wanted
    BY <1>0, <2>3 DEF DemoInv
  <2> QED
    BY <1>0, <2>1, <2>3, <2>4 DEF DemoInv
<1>24. CASE BeginRead
  <2>1. UNCHANGED <<net, label, dataType, streaming, command>>
    BY <1>24 DEF BeginRead, main, tof, camera, thread
  <2>2. UNCHANGED <<step>>
    BY <1>24 DEF BeginRead, main
  <2> QED
    BY <1>0, <2>1, <2>2 DEF DemoInv
<1>25. CASE EndRead
  <2>1. UNCHANGED <<net, label, dataType, streaming, command>>
    BY <1>25 DEF EndRead, main, tof, camera, thread
  <2>2. UNCHANGED <<step>>
    BY <1>25 DEF EndRead, main
  <2> QED
    BY <1>0, <2>1, <2>2 DEF DemoInv
<1>26. CASE IsConnectedThrows
  BY <1>26 DEF IsConnectedThrows
<1>27. CASE NoCurrentFrame
  BY <1>27 DEF NoCurrentFrame, Undefined
<1> QED
  BY <1>1, <1>2, <1>3, <1>4, <1>5, <1>6, <1>7, <1>8, <1>9, <1>10, <1>11, <1>12, <1>13,
     <1>14, <1>15, <1>16, <1>17, <1>18, <1>19, <1>20, <1>21, <1>22, <1>23, <1>24,
     <1>25, <1>26, <1>27 DEF Next, Main, OwnStep, Io

-------------------------------------------------------------------------------
(* Types *)

ProgramType ==
  /\ command \in {"none", "pending", "executed"}
  /\ imageType \in ImageTypes \cup {1} /\ tries \in 0..MaxTries /\ reported \in BOOLEAN
  /\ object \in {"none", "live", "deleted"} /\ subscribed \in BOOLEAN
  /\ isStreaming \in BOOLEAN /\ dataType \in DataType /\ updates \in BOOLEAN

SurroundingsType ==
  /\ streaming \in BOOLEAN /\ address \in {"old", "new"} /\ place \in {"first", "last"}
  /\ io \in {"idle", "busy"} /\ label \in DataType \cup {"none"}
  /\ shown.type \in DataType
  /\ rgb \in {"none", "loop", "reading", "ended"} /\ capture \in {"none", "live"}
  /\ rosRunning \in BOOLEAN /\ exitRequested \in BOOLEAN

EndType ==
  /\ end \in {"running", "returned", "aborted", "undefined"}
  /\ culprit \in {"none", "arguments", "main", "io", "null", "rgb"}
  /\ earlier \in BOOLEAN /\ doubt \in BOOLEAN /\ failed \in BOOLEAN /\ slow \in BOOLEAN

LineType == net \in Seq({"first", "last"}) /\ Len(net) <= MaxFlight

LEMMA TypeParts ==
  TypeOK <=> Position /\ ProgramType /\ SurroundingsType /\ EndType /\ LineType
<1>1. /\ Len(Script.demo) = Last.demo /\ Len(Script.node) = Last.node
      /\ Len(Script.failed) = Last.failed /\ Len(Script.set_ip) = Last.set_ip
  BY ScriptDemo, ScriptNode, ScriptFailed, ScriptSetIp DEF Last
<1>2. Programs \cup {"failed"} = {"demo", "node", "failed", "set_ip"}
  BY DEF Programs
<1> QED
  BY <1>1, <1>2 DEF TypeOK, Position, ProgramType, SurroundingsType, EndType, LineType

LEMMA WantedType == Wanted \in DataType \cup {"none"}
BY Numbers DEF Wanted, DataType

\* The main thread's variables and those of the object keep their types.
LEMMA ProgramTypeStep ==
  ASSUME Position, ProgramType, end = "running", Next PROVE ProgramType'
<1> USE DEF ProgramType
<1>1. CASE UseDeleted
  BY <1>1, Steps DEF UseDeleted, Undefined, main, tof, camera, thread, rgbThread,
     ending, history
<1>2. CASE Open
  BY <1>2, Steps, AdvanceStep DEF Open, Call, main, tof, camera, thread, rgbThread,
     ending, history
<1>3. CASE Subscribe
  BY <1>3, Steps, AdvanceStep DEF Subscribe, Call, main, tof, camera, thread,
     rgbThread, ending, history
<1>4. CASE NotConnected
  <2>1. /\ tries' = tries \/ (tries < MaxTries /\ tries' = tries + 1)
        /\ UNCHANGED <<command, imageType, reported, tof>>
    BY <1>4 DEF NotConnected
  <2> QED
    BY <2>1 DEF MaxTries, tof
<1>5. CASE Connected
  BY <1>5, Steps, AdvanceStep DEF Connected, Call, main, tof, camera, thread,
     rgbThread, ending, history
<1>6. CASE NothingToSend
  BY <1>6, Steps, AdvanceStep DEF NothingToSend, Call, main, tof, camera, thread,
     rgbThread, ending, history
<1>7. CASE Send
  <2>1. dataType' = Wanted \/ dataType' = dataType
    BY <1>7 DEF Send
  <2>2. dataType' # "none" \/ dataType' = dataType
    BY <1>7 DEF Send, Call
  <2>3. dataType' \in DataType
    BY <2>1, <2>2, WantedType
  <2>4. /\ command' = "pending"
        /\ UNCHANGED <<imageType, tries, reported, object, subscribed, isStreaming, updates>>
    BY <1>7 DEF Send
  <2> QED
    BY <2>3, <2>4
<1>8. CASE Acked
  <2>1. command' = "none" /\ isStreaming' \in BOOLEAN
        /\ UNCHANGED <<imageType, tries, reported, object, subscribed, dataType, updates>>
    BY <1>8 DEF Acked, Returns
  <2> QED
    BY <2>1
<1>9. CASE GaveUp
  <2>1. command' = "none" /\ isStreaming' \in BOOLEAN
        /\ UNCHANGED <<imageType, tries, reported, object, subscribed, dataType, updates>>
    BY <1>9 DEF GaveUp, Returns
  <2> QED
    BY <2>1
<1>10. CASE Threw
  BY <1>10 DEF Threw, main, tof, camera, thread, rgbThread, ending, history
<1>11. CASE OpenCapture
  BY <1>11, Steps, AdvanceStep DEF OpenCapture, Call, main, tof, camera, thread,
     rgbThread, ending, history
<1>12. CASE Wait
  BY <1>12, Steps, AdvanceStep DEF Wait, Call, main, tof, camera, thread, rgbThread,
     ending, history
<1>13. CASE Pause
  BY <1>13, Steps, AdvanceStep DEF Pause, main, tof, camera, thread, rgbThread,
     ending, history
<1>14. CASE Shutdown
  BY <1>14, Steps, AdvanceStep DEF Shutdown, Call, main, tof, camera, thread,
     rgbThread, ending, history
<1>15. CASE CloseCapture
  BY <1>15, Steps, AdvanceStep DEF CloseCapture, Undefined, main, tof, camera, thread,
     rgbThread, ending, history
<1>16. CASE Delete
  BY <1>16, Steps, AdvanceStep DEF Delete, Undefined, Call, main, tof, camera, thread,
     rgbThread, ending, history
<1>17. CASE Report
  BY <1>17, Steps, AdvanceStep DEF Report, main, tof, camera, thread, rgbThread,
     ending, history
<1>18. CASE Execute
  BY <1>18, Steps DEF Execute, main, tof, camera, thread, rgbThread, ending, history
<1>19. CASE SendDatagram
  BY <1>19 DEF SendDatagram, main, tof, camera, thread, rgbThread, ending, history
<1>20. CASE RequestExit
  BY <1>20 DEF RequestExit, main, tof, camera, thread, rgbThread, ending, history
<1>21. CASE Unwanted
  BY <1>21 DEF Unwanted, main, tof, camera, thread, rgbThread, ending, history
<1>22. CASE BeginCallback
  BY <1>22 DEF BeginCallback, Undefined, main, tof, camera, thread, rgbThread, ending,
     history
<1>23. CASE EndCallback
  BY <1>23 DEF EndCallback, main, tof, camera, thread, rgbThread, ending, history
<1>24. CASE BeginRead
  BY <1>24 DEF BeginRead, main, tof, camera, thread, rgbThread, ending, history
<1>25. CASE EndRead
  BY <1>25 DEF EndRead, main, tof, camera, thread, rgbThread, ending, history
<1>26. CASE IsConnectedThrows
  BY <1>26 DEF IsConnectedThrows, main, tof, camera, thread, rgbThread, history
<1>27. CASE NoCurrentFrame
  BY <1>27 DEF NoCurrentFrame, Undefined, main, tof, camera, thread, rgbThread, history
<1> QED
  BY <1>1, <1>2, <1>3, <1>4, <1>5, <1>6, <1>7, <1>8, <1>9, <1>10, <1>11, <1>12, <1>13,
     <1>14, <1>15, <1>16, <1>17, <1>18, <1>19, <1>20, <1>21, <1>22, <1>23, <1>24,
     <1>25, <1>26, <1>27 DEF Next, Main, OwnStep, Io

\* The datagram of a callback is one of the two.
LEMMA Heads ==
  ASSUME NetType, BusyInv, io = "busy" PROVE Head(net) \in {"first", "last"}
  BY DEF NetType, BusyInv

\* So do those of the camera and of the threads.
LEMMA SurroundingsTypeStep ==
  ASSUME ProgramType, Position, SurroundingsType, NetType, BusyInv, end = "running", Next PROVE SurroundingsType'
<1> USE DEF SurroundingsType
<1>1. CASE UseDeleted
  BY <1>1, Steps DEF UseDeleted, Undefined, main, tof, camera, thread, rgbThread,
     ending, history
<1>2. CASE Open
  BY <1>2, Steps, AdvanceStep DEF Open, Call, main, tof, camera, thread, rgbThread,
     ending, history
<1>3. CASE Subscribe
  BY <1>3, Steps, AdvanceStep DEF Subscribe, Call, main, tof, camera, thread,
     rgbThread, ending, history
<1>4. CASE NotConnected
  BY <1>4, Steps DEF NotConnected, Call, main, tof, camera, thread, rgbThread, ending,
     history
<1>5. CASE Connected
  BY <1>5, Steps, AdvanceStep DEF Connected, Call, main, tof, camera, thread,
     rgbThread, ending, history
<1>6. CASE NothingToSend
  BY <1>6, Steps, AdvanceStep DEF NothingToSend, Call, main, tof, camera, thread,
     rgbThread, ending, history
<1>7. CASE Send
  BY <1>7, Steps DEF Send, Call, main, tof, camera, thread, rgbThread, ending, history
<1>8. CASE Acked
  <2>1. UNCHANGED <<camera, thread, rgbThread, exitRequested>>
    BY <1>8 DEF Acked, Returns
  <2> QED
    BY <2>1 DEF camera, thread, rgbThread
<1>9. CASE GaveUp
  <2>1. UNCHANGED <<camera, thread, rgbThread, exitRequested>>
    BY <1>9 DEF GaveUp, Returns
  <2> QED
    BY <2>1 DEF camera, thread, rgbThread
<1>10. CASE Threw
  BY <1>10 DEF Threw, main, tof, camera, thread, rgbThread, ending, history
<1>11. CASE OpenCapture
  BY <1>11, Steps, AdvanceStep DEF OpenCapture, Call, main, tof, camera, thread,
     rgbThread, ending, history
<1>12. CASE Wait
  BY <1>12, Steps, AdvanceStep DEF Wait, Call, main, tof, camera, thread, rgbThread,
     ending, history
<1>13. CASE Pause
  BY <1>13, Steps, AdvanceStep DEF Pause, main, tof, camera, thread, rgbThread,
     ending, history
<1>14. CASE Shutdown
  BY <1>14, Steps, AdvanceStep DEF Shutdown, Call, main, tof, camera, thread,
     rgbThread, ending, history
<1>15. CASE CloseCapture
  BY <1>15, Steps, AdvanceStep DEF CloseCapture, Undefined, main, tof, camera, thread,
     rgbThread, ending, history
<1>16. CASE Delete
  BY <1>16, Steps, AdvanceStep DEF Delete, Undefined, Call, main, tof, camera, thread,
     rgbThread, ending, history
<1>17. CASE Report
  BY <1>17, Steps, AdvanceStep DEF Report, main, tof, camera, thread, rgbThread,
     ending, history
<1>18. CASE Execute
  BY <1>18, Steps DEF Execute, main, tof, camera, thread, rgbThread, ending, history
<1>19. CASE SendDatagram
  BY <1>19 DEF SendDatagram, main, tof, camera, thread, rgbThread, ending, history
<1>20. CASE RequestExit
  BY <1>20 DEF RequestExit, main, tof, camera, thread, rgbThread, ending, history
<1>21. CASE Unwanted
  BY <1>21 DEF Unwanted, main, tof, camera, thread, rgbThread, ending, history
<1>22. CASE BeginCallback
  BY <1>22 DEF BeginCallback, Undefined, main, tof, camera, thread, rgbThread, ending,
     history
<1>23. CASE EndCallback
  <2>1. dataType \in DataType
    BY DEF ProgramType
  <2>2. label' \in DataType \cup {"none"} /\ shown'.type \in DataType
    <3>1. CASE Head(net) = "first"
      BY <1>23, <2>1, <3>1 DEF EndCallback
    <3>2. CASE Head(net) # "first"
      <4>1. label' = label /\ (shown' = shown \/ shown' = [type |-> label, images |-> Images])
        BY <1>23, <3>2 DEF EndCallback
      <4>2. shown' # shown => label # "none"
        BY <1>23, <3>2, Heads DEF EndCallback
      <4> QED
        BY <4>1, <4>2
    <3> QED
      BY <3>1, <3>2
  <2>3. io' = "idle" /\ UNCHANGED <<camera, rgbThread, exitRequested>>
    BY <1>23 DEF EndCallback
  <2> QED
    BY <2>2, <2>3 DEF camera, rgbThread
<1>24. CASE BeginRead
  BY <1>24 DEF BeginRead, main, tof, camera, thread, rgbThread, ending, history
<1>25. CASE EndRead
  BY <1>25 DEF EndRead, main, tof, camera, thread, rgbThread, ending, history
<1>26. CASE IsConnectedThrows
  BY <1>26 DEF IsConnectedThrows, main, tof, camera, thread, rgbThread, history
<1>27. CASE NoCurrentFrame
  BY <1>27 DEF NoCurrentFrame, Undefined, main, tof, camera, thread, rgbThread, history
<1> QED
  BY <1>1, <1>2, <1>3, <1>4, <1>5, <1>6, <1>7, <1>8, <1>9, <1>10, <1>11, <1>12, <1>13,
     <1>14, <1>15, <1>16, <1>17, <1>18, <1>19, <1>20, <1>21, <1>22, <1>23, <1>24,
     <1>25, <1>26, <1>27 DEF Next, Main, OwnStep, Io

\* And so do the marks.
LEMMA EndTypeStep ==
  ASSUME Position, EndType, end = "running", Next PROVE EndType'
<1> USE DEF EndType
<1>1. CASE UseDeleted
  BY <1>1, Steps DEF UseDeleted, Undefined, main, tof, camera, thread, rgbThread,
     ending, history
<1>2. CASE Open
  BY <1>2, Steps, AdvanceStep DEF Open, Call, main, tof, camera, thread, rgbThread,
     ending, history
<1>3. CASE Subscribe
  BY <1>3, Steps, AdvanceStep DEF Subscribe, Call, main, tof, camera, thread,
     rgbThread, ending, history
<1>4. CASE NotConnected
  BY <1>4, Steps DEF NotConnected, Call, main, tof, camera, thread, rgbThread, ending,
     history
<1>5. CASE Connected
  BY <1>5, Steps, AdvanceStep DEF Connected, Call, main, tof, camera, thread,
     rgbThread, ending, history
<1>6. CASE NothingToSend
  BY <1>6, Steps, AdvanceStep DEF NothingToSend, Call, main, tof, camera, thread,
     rgbThread, ending, history
<1>7. CASE Send
  BY <1>7, Steps DEF Send, Call, main, tof, camera, thread, rgbThread, ending, history
<1>8. CASE Acked
  <2>1. /\ doubt' \in BOOLEAN /\ failed' \in BOOLEAN
        /\ UNCHANGED <<earlier, slow>> /\ Advance
    BY <1>8 DEF Acked, Returns
  <2>2. end' \in {"running", "returned"} /\ culprit' = culprit
    BY <2>1, AdvanceStep
  <2> QED
    BY <2>1, <2>2
<1>9. CASE GaveUp
  <2>1. /\ doubt' \in BOOLEAN /\ failed' \in BOOLEAN
        /\ UNCHANGED <<earlier, slow>> /\ Advance
    BY <1>9 DEF GaveUp, Returns
  <2>2. end' \in {"running", "returned"} /\ culprit' = culprit
    BY <2>1, AdvanceStep
  <2> QED
    BY <2>1, <2>2
<1>10. CASE Threw
  BY <1>10 DEF Threw, main, tof, camera, thread, rgbThread, ending, history
<1>11. CASE OpenCapture
  BY <1>11, Steps, AdvanceStep DEF OpenCapture, Call, main, tof, camera, thread,
     rgbThread, ending, history
<1>12. CASE Wait
  BY <1>12, Steps, AdvanceStep DEF Wait, Call, main, tof, camera, thread, rgbThread,
     ending, history
<1>13. CASE Pause
  BY <1>13, Steps, AdvanceStep DEF Pause, main, tof, camera, thread, rgbThread,
     ending, history
<1>14. CASE Shutdown
  BY <1>14, Steps, AdvanceStep DEF Shutdown, Call, main, tof, camera, thread,
     rgbThread, ending, history
<1>15. CASE CloseCapture
  BY <1>15, Steps, AdvanceStep DEF CloseCapture, Undefined, main, tof, camera, thread,
     rgbThread, ending, history
<1>16. CASE Delete
  BY <1>16, Steps, AdvanceStep DEF Delete, Undefined, Call, main, tof, camera, thread,
     rgbThread, ending, history
<1>17. CASE Report
  BY <1>17, Steps, AdvanceStep DEF Report, main, tof, camera, thread, rgbThread,
     ending, history
<1>18. CASE Execute
  BY <1>18, Steps DEF Execute, main, tof, camera, thread, rgbThread, ending, history
<1>19. CASE SendDatagram
  BY <1>19 DEF SendDatagram, main, tof, camera, thread, rgbThread, ending, history
<1>20. CASE RequestExit
  BY <1>20 DEF RequestExit, main, tof, camera, thread, rgbThread, ending, history
<1>21. CASE Unwanted
  BY <1>21 DEF Unwanted, main, tof, camera, thread, rgbThread, ending, history
<1>22. CASE BeginCallback
  BY <1>22 DEF BeginCallback, Undefined, main, tof, camera, thread, rgbThread, ending,
     history
<1>23. CASE EndCallback
  BY <1>23 DEF EndCallback, main, tof, camera, thread, rgbThread, ending, history
<1>24. CASE BeginRead
  BY <1>24 DEF BeginRead, main, tof, camera, thread, rgbThread, ending, history
<1>25. CASE EndRead
  BY <1>25 DEF EndRead, main, tof, camera, thread, rgbThread, ending, history
<1>26. CASE IsConnectedThrows
  BY <1>26 DEF IsConnectedThrows, main, tof, camera, thread, rgbThread, history
<1>27. CASE NoCurrentFrame
  BY <1>27 DEF NoCurrentFrame, Undefined, main, tof, camera, thread, rgbThread, history
<1> QED
  BY <1>1, <1>2, <1>3, <1>4, <1>5, <1>6, <1>7, <1>8, <1>9, <1>10, <1>11, <1>12, <1>13,
     <1>14, <1>15, <1>16, <1>17, <1>18, <1>19, <1>20, <1>21, <1>22, <1>23, <1>24,
     <1>25, <1>26, <1>27 DEF Next, Main, OwnStep, Io

LEMMA LineTypeStep ==
  ASSUME LineType, SurroundingsType, BusyInv, Next PROVE LineType'
<1>0. MaxFlight \in Nat
  BY FlightIsNat
<1>1. CASE SendDatagram
  BY <1>0, <1>1 DEF SendDatagram, LineType, SurroundingsType
<1>2. CASE EndCallback \/ Unwanted
  <2>1. net' = Tail(net) /\ net # <<>>
    BY <1>2 DEF EndCallback, Unwanted, BusyInv
  <2>2. net # <<>> => Tail(net) \in Seq({"first", "last"}) /\ Len(Tail(net)) <= MaxFlight
    BY <1>0 DEF LineType
  <2> QED
    BY <2>1, <2>2 DEF LineType
<1>3. CASE ~SendDatagram /\ ~EndCallback /\ ~Unwanted
  <2>1. net' = net
    BY <1>3 DEF Next, Main, OwnStep, Io, NoCurrentFrame, UseDeleted, Open, Subscribe, NotConnected, IsConnectedThrows, Connected, NothingToSend, Send,
         Acked, GaveUp, Threw, Returns, OpenCapture, Wait, Pause, Shutdown, CloseCapture,
         Delete, Report, Execute, RequestExit, BeginCallback, BeginRead, EndRead, thread
  <2> QED
    BY <2>1 DEF LineType
<1> QED
  BY <1>1, <1>2, <1>3

-------------------------------------------------------------------------------
(* Safety *)

Marks == culprit = "none" /\ ~reported

\* While a program runs nothing is reported and nobody is to blame.
LEMMA MarksStep ==
  ASSUME Position, Marks, end = "running", Next PROVE end' = "running" => Marks'
<1> USE DEF Position, At, Last, Marks
<1>1. CASE UseDeleted
  BY <1>1, Steps DEF UseDeleted, Undefined, main, tof, camera, thread, rgbThread,
     ending, history
<1>2. CASE Open
  BY <1>2, Steps, AdvanceStep DEF Open, Call, main, tof, camera, thread, rgbThread,
     ending, history
<1>3. CASE Subscribe
  BY <1>3, Steps, AdvanceStep DEF Subscribe, Call, main, tof, camera, thread,
     rgbThread, ending, history
<1>4. CASE NotConnected
  BY <1>4, Steps DEF NotConnected, Call, main, tof, camera, thread, rgbThread, ending,
     history
<1>5. CASE Connected
  BY <1>5, Steps, AdvanceStep DEF Connected, Call, main, tof, camera, thread,
     rgbThread, ending, history
<1>6. CASE NothingToSend
  BY <1>6, Steps, AdvanceStep DEF NothingToSend, Call, main, tof, camera, thread,
     rgbThread, ending, history
<1>7. CASE Send
  BY <1>7, Steps DEF Send, Call, main, tof, camera, thread, rgbThread, ending, history
<1>8. CASE Acked
  <2>1. Advance /\ reported' = reported
    BY <1>8 DEF Acked, Returns
  <2> QED
    BY <2>1, AdvanceStep
<1>9. CASE GaveUp
  <2>1. Advance /\ reported' = reported
    BY <1>9 DEF GaveUp, Returns
  <2> QED
    BY <2>1, AdvanceStep
<1>10. CASE Threw
  BY <1>10 DEF Threw, main, tof, camera, thread, rgbThread, ending, history
<1>11. CASE OpenCapture
  BY <1>11, Steps, AdvanceStep DEF OpenCapture, Call, main, tof, camera, thread,
     rgbThread, ending, history
<1>12. CASE Wait
  BY <1>12, Steps, AdvanceStep DEF Wait, Call, main, tof, camera, thread, rgbThread,
     ending, history
<1>13. CASE Pause
  BY <1>13, Steps, AdvanceStep DEF Pause, main, tof, camera, thread, rgbThread,
     ending, history
<1>14. CASE Shutdown
  BY <1>14, Steps, AdvanceStep DEF Shutdown, Call, main, tof, camera, thread,
     rgbThread, ending, history
<1>15. CASE CloseCapture
  BY <1>15, Steps, AdvanceStep DEF CloseCapture, Undefined, main, tof, camera, thread,
     rgbThread, ending, history
<1>16. CASE Delete
  BY <1>16, Steps, AdvanceStep DEF Delete, Undefined, Call, main, tof, camera, thread,
     rgbThread, ending, history
<1>17. CASE Report
  BY <1>17, Steps, AdvanceStep DEF Report, main, tof, camera, thread, rgbThread,
     ending, history
<1>18. CASE Execute
  BY <1>18, Steps DEF Execute, main, tof, camera, thread, rgbThread, ending, history
<1>19. CASE SendDatagram
  BY <1>19 DEF SendDatagram, main, tof, camera, thread, rgbThread, ending, history
<1>20. CASE RequestExit
  BY <1>20 DEF RequestExit, main, tof, camera, thread, rgbThread, ending, history
<1>21. CASE Unwanted
  BY <1>21 DEF Unwanted, main, tof, camera, thread, rgbThread, ending, history
<1>22. CASE BeginCallback
  BY <1>22 DEF BeginCallback, Undefined, main, tof, camera, thread, rgbThread, ending,
     history
<1>23. CASE EndCallback
  BY <1>23 DEF EndCallback, main, tof, camera, thread, rgbThread, ending, history
<1>24. CASE BeginRead
  BY <1>24 DEF BeginRead, main, tof, camera, thread, rgbThread, ending, history
<1>25. CASE EndRead
  BY <1>25 DEF EndRead, main, tof, camera, thread, rgbThread, ending, history
<1>26. CASE IsConnectedThrows
  BY <1>26 DEF IsConnectedThrows, main, tof, camera, thread, rgbThread, history
<1>27. CASE NoCurrentFrame
  BY <1>27 DEF NoCurrentFrame, Undefined, main, tof, camera, thread, rgbThread, history
<1> QED
  BY <1>1, <1>2, <1>3, <1>4, <1>5, <1>6, <1>7, <1>8, <1>9, <1>10, <1>11, <1>12, <1>13,
     <1>14, <1>15, <1>16, <1>17, <1>18, <1>19, <1>20, <1>21, <1>22, <1>23, <1>24,
     <1>25, <1>26, <1>27 DEF Next, Main, OwnStep, Io

Running == /\ ObjectInv /\ QuietInv /\ SettledInv /\ DemoInv /\ Marks

Safe == NothingGoneIsUsed /\ ShowsWhatWasComputed /\ LeavesWhatItClaims

IInv == TypeOK /\ BusyInv /\ (end = "running" => Running) /\ Safe

\* What is deleted is used by main after a start that failed only.
LEMMA UseStep ==
  ASSUME Position, ObjectInv, Marks, end = "running", UseDeleted PROVE NothingGoneIsUsed'
<1>1. /\ Script[script][step] \in Uses /\ object = "deleted"
      /\ culprit' = "main" /\ script' = script
  BY DEF UseDeleted, Undefined, main
<1>2. CASE script = "failed"
  BY <1>1, <1>2 DEF NothingGoneIsUsed, MainUsesLiveCamera, IoUsesLiveCamera, RgbUsesLiveCapture
<1>3. CASE At("node", {21})
  BY <1>1, <1>3, ScriptNode DEF Uses, Commands, At
<1>4. CASE At("set_ip", {6})
  BY <1>1, <1>4, ScriptSetIp DEF Uses, Commands, At
<1> QED
  BY <1>1, <1>2, <1>3, <1>4 DEF ObjectInv, At

\* The io thread meets a deleted object where the properties say so, ...
LEMMA IoStep ==
  ASSUME Position, BusyInv, Running, end = "running", Delete \/ BeginCallback
  PROVE  NothingGoneIsUsed'
<1> USE DEF At, Position, Last, NothingGoneIsUsed, MainUsesLiveCamera, IoUsesLiveCamera, RgbUsesLiveCapture
<1>1. culprit' = "none" \/ (culprit' = "io" /\ UNCHANGED <<script, doubt, slow>>)
  BY AdvanceStep DEF Delete, BeginCallback, Undefined, Running, Marks, ending, main, history
<1>2. CASE culprit' = "none"
  BY <1>2
<1>3. CASE Delete /\ culprit' = "io"
  <2>1. io = "busy" /\ DeleteAt
    BY <1>3, Steps, AdvanceStep DEF Delete, Call, Running, Marks
  <2>2. script \in {"demo", "set_ip"} /\ (doubt \/ slow)
    BY <2>1 DEF Running, ObjectInv, SettledInv, DeleteAt
  <2> QED
    BY <1>1, <1>3, <2>2
<1>4. CASE BeginCallback /\ culprit' = "io"
  <2>1. object = "deleted" /\ subscribed /\ net # <<>>
    BY <1>4 DEF BeginCallback, Running, Marks, ending
  <2>2. script = "set_ip" /\ doubt
    BY <2>1 DEF Running, ObjectInv, SettledInv
  <2> QED
    BY <1>1, <1>4, <2>2
<1> QED
  BY <1>1, <1>2, <1>3, <1>4

\* ... and the RGB thread a closed capture.
LEMMA RgbStep ==
  ASSUME Position, Running, end = "running", CloseCapture PROVE NothingGoneIsUsed'
<1> USE DEF At, Position, Last, NothingGoneIsUsed, MainUsesLiveCamera, IoUsesLiveCamera, RgbUsesLiveCapture
<1>1. culprit' = "none" \/ (culprit' = "rgb" /\ rgb = "reading" /\ UNCHANGED slow)
  BY AdvanceStep DEF CloseCapture, Undefined, Running, Marks, history
<1>2. CloseAt
  BY Steps DEF CloseCapture
<1>3. rgb = "reading" => slow
  BY <1>2 DEF Running, SettledInv, CloseAt
<1> QED
  BY <1>1, <1>3

LEMMA UseSafe ==
  ASSUME Position, BusyInv, Running, end = "running", Next PROVE NothingGoneIsUsed'
<1>1. CASE UseDeleted
  BY <1>1, UseStep DEF Running
<1>2. CASE Delete \/ BeginCallback
  BY <1>2, IoStep
<1>3. CASE CloseCapture
  BY <1>3, RgbStep
<1>4. CASE NoCurrentFrame
  BY <1>4 DEF NoCurrentFrame, Undefined, NothingGoneIsUsed, MainUsesLiveCamera,
     IoUsesLiveCamera, RgbUsesLiveCapture
<1>5. CASE ~UseDeleted /\ ~Delete /\ ~BeginCallback /\ ~CloseCapture /\ ~NoCurrentFrame
  <2>1. culprit' = culprit
    BY <1>5, AdvanceStep DEF Next, Main, OwnStep, Io, Open, Subscribe, NotConnected, IsConnectedThrows, Connected, NothingToSend, Send,
         Acked, GaveUp, Threw, Returns, OpenCapture, Wait, Pause, Shutdown,
         Report, Execute, SendDatagram, RequestExit, Unwanted, EndCallback,
         BeginRead, EndRead, ending
  <2> QED
    BY <2>1 DEF Running, Marks, NothingGoneIsUsed, MainUsesLiveCamera, IoUsesLiveCamera, RgbUsesLiveCapture
<1> QED
  BY <1>1, <1>2, <1>3, <1>4, <1>5

\* A frame is shown with the type that it was computed for.
LEMMA ShowStep ==
  ASSUME Position, NetType, BusyInv, DemoInv, ShowsWhatWasComputed, end = "running", Next
  PROVE  ShowsWhatWasComputed'
<1>1. earlier' = earlier /\ imageType' = imageType
  BY DEF Next, Main, OwnStep, Io, NoCurrentFrame, UseDeleted, Open, Subscribe, NotConnected, IsConnectedThrows, Connected, NothingToSend,
         Send, Acked, GaveUp, Threw, Returns, OpenCapture, Wait, Pause, Shutdown,
         CloseCapture, Delete, Report, Execute, SendDatagram, RequestExit, Unwanted,
         BeginCallback, EndCallback, BeginRead, EndRead, main, history
<1>2. script = "demo" => script' = "demo"
  BY Steps, AdvanceStep
     DEF Next, Main, OwnStep, Io, NoCurrentFrame, UseDeleted, Open, Subscribe, NotConnected, IsConnectedThrows, Connected, NothingToSend,
         Send, Acked, GaveUp, Threw, Returns, OpenCapture, Wait, Pause, Shutdown, Call,
         CloseCapture, Delete, Report, Execute, SendDatagram, RequestExit, Unwanted,
         BeginCallback, EndCallback, BeginRead, EndRead, main, At
<1>3. CASE shown' = shown
  BY <1>1, <1>2, <1>3 DEF ShowsWhatWasComputed
<1>4. CASE shown' # shown /\ ~(earlier /\ script = "demo")
  <2>1. EndCallback
    BY <1>4 DEF Next, Main, OwnStep, Io, NoCurrentFrame, UseDeleted, Open, Subscribe, NotConnected, IsConnectedThrows, Connected, NothingToSend,
         Send, Acked, GaveUp, Threw, Returns, OpenCapture, Wait, Pause, Shutdown,
         CloseCapture, Delete, Report, Execute, SendDatagram, RequestExit, Unwanted,
         BeginCallback, EndCallback, BeginRead, EndRead, thread
  <2>2. shown' = [type |-> label, images |-> Images] /\ net # <<>> /\ label # "none"
    <3>1. Head(net) = "last"
      BY <1>4, <2>1 DEF EndCallback, BusyInv, NetType
    <3> QED
      BY <1>4, <2>1, <3>1 DEF EndCallback, BusyInv
  <2>3. CASE script # "demo"
    <3>1. Images = {"data_3d_xyz_rgb", "data_2d_bgr"}
      BY <2>3 DEF Images
    <3>2. Images \subseteq Computed(label)
      BY <3>1 DEF Computed
    <3> QED
      BY <2>2, <3>2 DEF ShowsWhatWasComputed
  <2>4. CASE script = "demo"
    <3>1. label = Wanted
      BY <1>4, <2>2, <2>4 DEF DemoInv
    <3>2. Wanted # "none"
      BY <2>2, <3>1
    <3>3. Images \subseteq Computed(label)
      <4>1. imageType \in {0, 1, 2} /\ Wanted = TypeNumbered(imageType)
        BY <2>4, <3>2 DEF Wanted
      <4>2. CASE imageType = 0
        BY <2>4, <3>1, <4>1, <4>2, Numbers DEF Images, Computed
      <4>3. CASE imageType = 1
        BY <2>4, <3>1, <4>1, <4>3, Numbers DEF Images, Computed
      <4>4. CASE imageType = 2
        BY <2>4, <3>1, <4>1, <4>4, Numbers DEF Images, Computed
      <4> QED
        BY <4>1, <4>2, <4>3, <4>4
    <3> QED
      BY <2>2, <3>3 DEF ShowsWhatWasComputed
  <2> QED
    BY <2>3, <2>4
<1> QED
  BY <1>1, <1>2, <1>3, <1>4 DEF ShowsWhatWasComputed

\* A program only returns where the camera has been stopped.
LEMMA ReturnStep ==
  ASSUME Position, QuietInv, end = "running", Next, end' = "returned"
  PROVE  step = Last[script] /\ UNCHANGED <<streaming, doubt>>
<1> USE DEF At, StopAt, StreamAt, CommandAt, Last, Position
<1>1. CASE Acked \/ GaveUp
  <2>1. Advance /\ CommandAt
    BY <1>1, ReturnsStep DEF Acked, GaveUp, Returns
  <2>2. step = Last[script]
    BY <2>1, AdvanceStep
  <2> QED
    BY <2>1, <2>2
<1>2. CASE ~Acked /\ ~GaveUp
  BY <1>2, AdvanceStep
     DEF Next, Main, OwnStep, Io, NoCurrentFrame, UseDeleted, Open, Subscribe, NotConnected, IsConnectedThrows, Connected, NothingToSend,
         Send, Threw, OpenCapture, Wait, Pause, Shutdown,
         CloseCapture, Delete, Report, Execute, SendDatagram, RequestExit, Unwanted,
         BeginCallback, EndCallback, BeginRead, EndRead, Undefined, camera, history, ending
<1> QED
  BY <1>1, <1>2

LEMMA LeaveStep ==
  ASSUME Position, Running, end = "running", Next PROVE LeavesWhatItClaims'
<1>1. QuietAtTheEnd'
  <2>1. ASSUME end' = "returned" PROVE ~streaming' \/ doubt'
    <3>1. step = Last[script] /\ UNCHANGED <<streaming, doubt>>
      BY <2>1, ReturnStep DEF Running
    <3>2. ~streaming \/ doubt
      BY <3>1 DEF Running, QuietInv, At, StreamAt, Last, Position
    <3> QED
      BY <3>1, <3>2
  <2> QED
    BY <2>1 DEF QuietAtTheEnd
<1>2. ReportIsTrue'
  <2>1. CASE Report
    <3>1. At("set_ip", {6}) /\ UNCHANGED <<address, failed>>
      BY <2>1, Steps DEF Report, camera, history
    <3>2. address = "new" \/ failed
      BY <3>1 DEF Running, QuietInv, At
    <3> QED
      BY <3>1, <3>2 DEF ReportIsTrue
  <2>2. CASE ~Report
    <3>1. reported' = reported
      BY <2>2 DEF Next, Main, OwnStep, Io, NoCurrentFrame, UseDeleted, Open, Subscribe, NotConnected, IsConnectedThrows, Connected, NothingToSend,
         Send, Acked, GaveUp, Threw, Returns, OpenCapture, Wait, Pause, Shutdown,
         CloseCapture, Delete, Execute, SendDatagram, RequestExit, Unwanted,
         BeginCallback, EndCallback, BeginRead, EndRead, main
    <3> QED
      BY <3>1 DEF ReportIsTrue, Running, Marks
  <2> QED
    BY <2>1, <2>2
<1> QED
  BY <1>1, <1>2 DEF LeavesWhatItClaims

-------------------------------------------------------------------------------
(* The theorems *)

LEMMA InvInit ==
  ASSUME Init PROVE IInv
<1>1. Position
  <2>1. \A s \in {"demo", "node", "failed", "set_ip"} : 1 \in 1..Last[s]
    BY DEF Last
  <2>2. script \in {"demo", "node", "set_ip"} /\ step = 1
    BY DEF Init, Programs
  <2> QED
    BY <2>1, <2>2 DEF Position
<1> USE DEF Init
<1>2. ProgramType /\ EndType
  <2>1. earlier \in BOOLEAN /\ doubt \in BOOLEAN
    BY Zenon
  <2>2. imageType \in ImageTypes \cup {1}
    BY DEF Init
  <2>3. ProgramType
    <3>1. tries \in 0..MaxTries /\ command \in {"none", "pending", "executed"}
          /\ object \in {"none", "live", "deleted"}
      BY DEF MaxTries
    <3>2. reported \in BOOLEAN /\ subscribed \in BOOLEAN /\ isStreaming \in BOOLEAN
          /\ updates \in BOOLEAN
      BY Zenon
    <3>3. dataType \in DataType
      BY DEF DataType
    <3> QED
      BY <2>2, <3>1, <3>2, <3>3 DEF ProgramType
  <2> QED
    BY <2>1, <2>3 DEF EndType
<1>3. SurroundingsType
  BY DEF SurroundingsType, DataType, NothingShown
<1>4. LineType
  BY FlightIsNat DEF LineType
<1>5. TypeOK
  BY <1>1, <1>2, <1>3, <1>4, TypeParts
<1>6. BusyInv /\ (end = "running" => Marks)
  BY DEF BusyInv, Marks
<1>7. ObjectInv /\ QuietInv /\ SettledInv
  BY DEF ObjectInv, QuietInv, SettledInv, At
<1>8. DemoInv
  BY DEF DemoInv, At
<1>9. NothingGoneIsUsed /\ LeavesWhatItClaims
  BY DEF NothingGoneIsUsed, MainUsesLiveCamera, IoUsesLiveCamera, RgbUsesLiveCapture,
         LeavesWhatItClaims, QuietAtTheEnd, ReportIsTrue
<1>10. ShowsWhatWasComputed
  BY DEF ShowsWhatWasComputed, NothingShown
<1> QED
  BY <1>5, <1>6, <1>7, <1>8, <1>9, <1>10 DEF IInv, Running, Safe

LEMMA InvNext ==
  ASSUME IInv, [Next]_vars PROVE IInv'
<1>1. CASE end = "running" /\ Next
  <2>1. Position /\ ProgramType /\ SurroundingsType /\ EndType /\ LineType /\ BusyInv /\ Running /\ Safe
    BY <1>1, TypeParts DEF IInv
  <2>2. ObjectInv /\ QuietInv /\ SettledInv /\ DemoInv /\ Marks /\ NetType
    BY <2>1 DEF Running, LineType, SurroundingsType, NetType
  <2>3. Position' /\ ProgramType' /\ SurroundingsType' /\ EndType' /\ LineType'
    BY <1>1, <2>1, <2>2, PositionStep, ProgramTypeStep, SurroundingsTypeStep, EndTypeStep,
       LineTypeStep
  <2>4. TypeOK'
    BY <2>3, TypeParts, PTL
  <2>5. BusyInv'
    BY <1>1, <2>1, <2>2, BusyStep
  <2>6. end' = "running" => Running'
    BY <1>1, <2>1, <2>2, ObjectStep, QuietStep, SettledStep, DemoStep, MarksStep DEF Running
  <2>7. NothingGoneIsUsed' /\ ShowsWhatWasComputed' /\ LeavesWhatItClaims'
    BY <1>1, <2>1, <2>2, UseSafe, ShowStep, LeaveStep DEF Safe
  <2> QED
    BY <2>4, <2>5, <2>6, <2>7 DEF IInv, Safe
<1>2. CASE UNCHANGED vars
  <2>1. UNCHANGED <<script, step, command, imageType, tries, reported, object, subscribed,
                    isStreaming, dataType, updates, streaming, address, place, net, io>>
    BY <1>2 DEF vars, main, tof, camera, thread
  <2>2. UNCHANGED <<label, shown, rgb, capture, rosRunning, exitRequested, end, culprit,
                    earlier, doubt, failed, slow>>
    BY <1>2 DEF vars, thread, rgbThread, ending, history
  <2>3. TypeOK'
    BY <2>1, <2>2 DEF IInv, TypeOK
  <2>4. BusyInv'
    BY <2>1, <2>2 DEF IInv, BusyInv
  <2>5. Running => Running'
    BY <2>1, <2>2 DEF Running, ObjectInv, QuietInv, SettledInv, DemoInv, Marks, At, StopAt,
                      StreamAt, CommandAt, Wanted
  <2>6. Safe'
    BY <2>1, <2>2 DEF IInv, Safe, NothingGoneIsUsed, MainUsesLiveCamera, IoUsesLiveCamera,
                      RgbUsesLiveCapture, LeavesWhatItClaims, QuietAtTheEnd, ReportIsTrue,
                      ShowsWhatWasComputed
  <2> QED
    BY <2>2, <2>3, <2>4, <2>5, <2>6 DEF IInv
<1> QED
  BY <1>1, <1>2, Ended DEF Next

THEOREM Invariance == Spec => []IInv
  BY InvInit, InvNext, PTL DEF Spec

\* Every variable keeps its type, whatever the image type and the network.
THEOREM TypeCorrect == Spec => []TypeOK
<1>1. IInv => TypeOK
  BY DEF IInv
<1> QED
  BY <1>1, Invariance, PTL

\* No thread uses the camera or the capture after its end, but for the accidents
\* that NothingGoneIsUsed names.
THEOREM NoUseAfterEnd == Spec => []NothingGoneIsUsed
<1>1. IInv => NothingGoneIsUsed
  BY DEF IInv, Safe
<1> QED
  BY <1>1, Invariance, PTL

\* The arrays that a program shows were filled for the type of their frame.
THEOREM ShownIsComputed == Spec => []ShowsWhatWasComputed
<1>1. IInv => ShowsWhatWasComputed
  BY DEF IInv, Safe
<1> QED
  BY <1>1, Invariance, PTL

\* A program that returns leaves a quiet camera and reports a true address, or
\* a command has failed.
THEOREM LeavesNothingUnsaid == Spec => []LeavesWhatItClaims
<1>1. IInv => LeavesWhatItClaims
  BY DEF IInv, Safe
<1> QED
  BY <1>1, Invariance, PTL
===============================================================================
