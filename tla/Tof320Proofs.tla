----------------------------- MODULE Tof320Proofs -----------------------------
(***************************************************************************)
(* For any number of commands, attempts, faults and frames: the object     *)
(* uses its connection as TcpConnection says, so that what is proved there *)
(* holds of it; a frame has an older label than its own only if its first  *)
(* datagram had not come, whatever is lost or late; and, if an answer      *)
(* comes in one piece, the camera does what an acknowledged stream or stop *)
(* call asked for.                                                         *)
(***************************************************************************)
EXTENDS Tof320, TLAPS

-------------------------------------------------------------------------------
(* The object's connection is a TcpConnection *)

Channel == INSTANCE TcpConnectionProofs

LEMMA ChannelAssumptions ==
  /\ Channel!MaxAttemptsIsPositive /\ Channel!BoundsAreNat
  /\ Channel!AckPiecesIsPositive /\ Channel!FaultsAreKnown
  BY ChannelConstants DEF Channel!MaxAttemptsIsPositive, Channel!BoundsAreNat,
     Channel!AckPiecesIsPositive, Channel!FaultsAreKnown

\* What a step may do to the channel.
ChannelMoves ==
  Connection \/ Tcp!SendCommand \/ Tcp!Close \/ Tcp!DeviceServe \/ Tcp!DeviceCrash \/ UNCHANGED tcp

LEMMA StepMovesChannel == ASSUME [Next]_vars PROVE ChannelMoves
BY DEF Next, Application, Camera, Callback, Stream, StopStream, Set, Begin, Finish, Shutdown,
       Close, Serve, Crash, SendFrame, FirstDatagram, LastDatagram, NoCurrentFrame, Take, vars,
       ChannelMoves

LEMMA DriverSimulation == ASSUME Tcp!Driver PROVE Channel!Driver
BY DEF Tcp!Driver, Channel!Driver, Tcp!WriteOk, Channel!WriteOk, Tcp!WriteReset, Channel!WriteReset,
       Tcp!WriteOther, Channel!WriteOther, Tcp!Sleep, Channel!Sleep, Tcp!ReadData, Channel!ReadData,
       Tcp!ReadEof, Channel!ReadEof, Tcp!ReadReset, Channel!ReadReset, Tcp!ReadTimedOut,
       Channel!ReadTimedOut, Tcp!ReadError, Channel!ReadError, Tcp!ConnectBegin, Channel!ConnectBegin,
       Tcp!ResolveFails, Channel!ResolveFails, Tcp!ConnectFails, Channel!ConnectFails, Tcp!ConnectOk,
       Channel!ConnectOk, Tcp!updateState, Channel!updateState, Tcp!revertState, Channel!revertState,
       Tcp!IsConnected, Channel!IsConnected, Tcp!line, Channel!line

\* Every step of the object is one of its connection, or leaves it alone.
LEMMA ChannelSimulation == ASSUME ChannelMoves PROVE [Channel!Next]_(Channel!vars)
<1>1. CASE Tcp!SendCommand \/ Tcp!Close
  <2>1. Channel!Calls
    BY <1>1 DEF Tcp!SendCommand, Channel!SendCommand, Tcp!Close, Channel!Close, Channel!Calls,
       Tcp!IsConnected, Channel!IsConnected, Tcp!IsConnectedThrows, Channel!IsConnectedThrows,
       Tcp!line, Channel!line
  <2> QED
    BY <2>1 DEF Channel!Next
<1>2. CASE Tcp!DeviceServe \/ Tcp!DeviceAck \/ Tcp!PeerRejects \/ Tcp!PeerUnreachable
  <2>1. Channel!Network
    BY <1>2 DEF Tcp!DeviceServe, Channel!DeviceServe, Tcp!DeviceAck, Channel!DeviceAck,
       Tcp!PeerRejects, Channel!PeerRejects, Tcp!PeerUnreachable, Channel!PeerUnreachable,
       Tcp!Undeliverable, Channel!Undeliverable, Channel!Network, Tcp!driver, Channel!driver
  <2> QED
    BY <2>1 DEF Channel!Next
<1>3. CASE Tcp!DeviceClose \/ Tcp!DeviceReset \/ Tcp!DeviceCrash \/ Tcp!DeviceBoot
  <2>1. Channel!Env
    BY <1>3 DEF Tcp!DeviceClose, Channel!DeviceClose, Tcp!DeviceReset, Channel!DeviceReset,
       Tcp!DeviceCrash, Channel!DeviceCrash, Tcp!DeviceBoot, Channel!DeviceBoot,
       Tcp!Fault, Channel!Fault, Channel!Env, Tcp!driver, Channel!driver, Tcp!line, Channel!line
  <2> QED
    BY <2>1 DEF Channel!Next
<1>4. CASE Tcp!Driver
  BY <1>4, DriverSimulation DEF Channel!Next
<1>5. CASE UNCHANGED tcp
  BY <1>5 DEF tcp, Channel!vars, Channel!driver, Channel!line
<1> QED
  BY <1>1, <1>2, <1>3, <1>4, <1>5 DEF ChannelMoves, Connection

\* Whatever the application calls, the object uses its connection as the module
\* TcpConnection says, and all that is proved of that holds of the object.
THEOREM ChannelImplementation == Spec => Channel!Spec
<1>1. Init => Channel!Init
  BY DEF Init, Tcp!Init, Channel!Init
<1>2. [Next]_vars => [Channel!Next]_(Channel!vars)
  BY StepMovesChannel, ChannelSimulation
<1> QED
  BY <1>1, <1>2, PTL DEF Spec, Channel!Spec

\* The inductive invariant of the connection, for the proofs below.
THEOREM ChannelInvariance == Spec => []Channel!IInv
BY ChannelImplementation, ChannelAssumptions, Channel!Invariance, PTL

\* A camera object never has one of its commands executed twice over the same
\* connection, whichever calls it makes and however often they are retried, and
\* its connection is in the state of the operation in progress.
THEOREM ChannelSafety ==
  Spec => [](Channel!StateFollowsOperation /\ Channel!AtMostOncePerConnection)
BY ChannelImplementation, ChannelAssumptions, Channel!Safety, PTL

\* Once a call of the object was refused for want of a connection all later ones
\* are, and every call that goes out runs down in five steps to an attempt, but
\* for a camera that does not answer.
THEOREM ChannelCalls == Spec => Channel!RefusedForGood /\ Channel!CallRunsDown
BY ChannelImplementation, ChannelAssumptions, Channel!NoReconnection, Channel!CallsRunDown, PTL

-------------------------------------------------------------------------------
(* Commands, modes and labels *)

(***************************************************************************)
(* Commands are numbered; the camera only gets commands that were sent,    *)
(* and dataType is the last of them that asks for a stream.                *)
(***************************************************************************)
Calling ==
  pc \in {"write", "ack", "reconnect", "sleep"} \/ (pc = "connect" /\ returnTo = "sleep")

CommandInv ==
  /\ cmd \in Nat /\ commands \in Seq({"stream", "stop", "set"}) /\ Len(commands) = cmd
  /\ Calling => cmd > 0
  /\ returnTo \in {"idle", "sleep"}
  /\ toDevice \in Seq(1..cmd)

ModeInv ==
  /\ cmd \in Nat /\ dataType \in 0..cmd /\ mode \in 0..dataType
  /\ \A c \in 1..cmd : commands[c] = "stream" => c <= dataType

(***************************************************************************)
(* A last datagram whose own first one was taken finds a currentFrame that *)
(* is labelled with the type of its frame or a later one.                  *)
(***************************************************************************)
NetInv ==
  /\ net \subseteq [part : {"first", "last"}, frame : Nat, mode : Nat] /\ frames \in Nat
  /\ \A d \in net : d.mode <= dataType
  /\ \A d \in net : d.part = "last" => Headless(d) \/ d.mode <= currentFrame
  /\ currentFrame \in 0..dataType

LabelInv ==
  /\ labels \in Seq([mode : Nat, dataType : Nat, headless : BOOLEAN])
  /\ \A i \in DOMAIN labels : labels[i].dataType <= currentFrame
  /\ LabelNeverOlder

IInv == CommandInv /\ ModeInv /\ NetInv /\ LabelInv

-------------------------------------------------------------------------------
(* The command channel *)

LEMMA SeqGrows ==
  ASSUME NEW S, NEW T, S \subseteq T, NEW s \in Seq(S) PROVE s \in Seq(T)
  OBVIOUS

\* What a step of the channel does to the commands under way.
ChannelStep ==
  /\ UNCHANGED cmd
  /\ (Calling => cmd > 0)'
  /\ returnTo' \in {"idle", "sleep"}
  /\ toDevice' \in Seq(1..cmd)

LEMMA ConnectionStep ==
  ASSUME CommandInv, Connection PROVE ChannelStep
<1> USE DEF CommandInv, Calling, ChannelStep
<1>1. CASE Tcp!WriteOk
  BY <1>1 DEF Tcp!WriteOk
<1>2. CASE Tcp!WriteReset
  BY <1>2 DEF Tcp!WriteReset, Tcp!line
<1>3. CASE Tcp!WriteOther
  BY <1>3 DEF Tcp!WriteOther, Tcp!line
<1>4. CASE Tcp!Sleep
  BY <1>4 DEF Tcp!Sleep, Tcp!line
<1>5. CASE Tcp!ReadData
  BY <1>5 DEF Tcp!ReadData
<1>6. CASE Tcp!ReadEof
  BY <1>6 DEF Tcp!ReadEof, Tcp!line
<1>7. CASE Tcp!ReadReset
  BY <1>7 DEF Tcp!ReadReset, Tcp!ReadError, Tcp!line
<1>8. CASE Tcp!ReadTimedOut
  BY <1>8 DEF Tcp!ReadTimedOut, Tcp!ReadError, Tcp!line
<1>9. CASE Tcp!ConnectBegin
  BY <1>9 DEF Tcp!ConnectBegin
<1>10. CASE Tcp!ResolveFails
  BY <1>10 DEF Tcp!ResolveFails, Tcp!line
<1>11. CASE Tcp!ConnectFails
  BY <1>11 DEF Tcp!ConnectFails, Tcp!line
<1>12. CASE Tcp!ConnectOk
  BY <1>12 DEF Tcp!ConnectOk
<1>13. CASE Tcp!DeviceAck
  BY <1>13 DEF Tcp!DeviceAck, Tcp!driver
<1>14. CASE Tcp!PeerRejects
  BY <1>14 DEF Tcp!PeerRejects, Tcp!Undeliverable
<1>15. CASE Tcp!PeerUnreachable
  BY <1>15 DEF Tcp!PeerUnreachable, Tcp!Undeliverable
<1>16. CASE Tcp!DeviceClose
  BY <1>16 DEF Tcp!DeviceClose
<1>17. CASE Tcp!DeviceReset
  BY <1>17 DEF Tcp!DeviceReset
<1>18. CASE Tcp!DeviceBoot
  BY <1>18 DEF Tcp!DeviceBoot, Tcp!driver, Tcp!line
<1> QED
  BY <1>1, <1>2, <1>3, <1>4, <1>5, <1>6, <1>7, <1>8, <1>9, <1>10, <1>11, <1>12, <1>13,
     <1>14, <1>15, <1>16, <1>17, <1>18 DEF Connection, Tcp!Driver
-------------------------------------------------------------------------------
(* The application's calls *)

\* A new call adds the next command, and sends nothing yet.
LEMMA BeginStep ==
  ASSUME CommandInv, NEW kind, NEW asks \in {"stream", "stop", "set"}, Begin(kind, asks)
  PROVE  /\ CommandInv' /\ cmd' = cmd + 1 /\ toDevice' = toDevice
         /\ commands'[cmd + 1] = asks /\ \A c \in 1..cmd : commands'[c] = commands[c]
<1>1. /\ cmd' = cmd + 1 /\ UNCHANGED <<toDevice, returnTo>>
      /\ commands' = Append(commands, asks)
  BY DEF Begin, Tcp!SendCommand, Tcp!line
<1>2. toDevice \in Seq(1..cmd) /\ 1..cmd \subseteq 1..cmd + 1 /\ cmd + 1 > 0
  BY DEF CommandInv
<1>3. toDevice \in Seq(1..cmd + 1)
  BY <1>2, SeqGrows
<1>4. commands \in Seq({"stream", "stop", "set"}) /\ Len(commands) = cmd /\ cmd \in Nat
  BY DEF CommandInv
<1>5. /\ commands' \in Seq({"stream", "stop", "set"}) /\ Len(commands') = cmd + 1
      /\ commands'[cmd + 1] = asks /\ \A c \in 1..cmd : commands'[c] = commands[c]
  BY <1>1, <1>4
<1> QED
  BY <1>1, <1>2, <1>3, <1>4, <1>5 DEF CommandInv

LEMMA CommandStep ==
  ASSUME CommandInv, [Next]_vars PROVE CommandInv'
<1>1. CASE Connection
  BY <1>1, ConnectionStep DEF Connection, ChannelStep, CommandInv, app
<1>2. CASE Stream
  BY <1>2, BeginStep DEF Stream
<1>3. CASE StopStream
  BY <1>3, BeginStep DEF StopStream
<1>4. CASE Set
  BY <1>4, BeginStep DEF Set
<1>5. CASE Finish \/ Shutdown \/ SendFrame \/ Callback \/ UNCHANGED vars
  BY <1>5 DEF Finish, Shutdown, SendFrame, Callback, FirstDatagram, LastDatagram, NoCurrentFrame,
              Take, vars, tcp, app, CommandInv, Calling
<1>6. CASE Close
  <2>1. UNCHANGED <<cmd, commands, pc, returnTo>>
    BY <1>6 DEF Close, Tcp!Close, tcp
  <2>2. toDevice' = toDevice \/ toDevice' = <<>>
    BY <1>6 DEF Close, Tcp!Close, tcp
  <2>0. toDevice \in Seq(1..cmd) /\ <<>> \in Seq(1..cmd)
    BY DEF CommandInv
  <2>3. toDevice' \in Seq(1..cmd)
    BY <2>0, <2>2
  <2>4. (Calling => cmd > 0)'
    BY <2>1 DEF CommandInv, Calling
  <2> QED
    BY <2>1, <2>3, <2>4 DEF CommandInv
<1>7. CASE Serve
  BY <1>7 DEF Serve, Tcp!DeviceServe, Tcp!driver, app, CommandInv, Calling
<1>8. CASE Crash
  <2>1. UNCHANGED <<cmd, commands, pc, returnTo>>
    BY <1>8 DEF Crash, Tcp!DeviceCrash, Tcp!driver, app
  <2>2. toDevice' = toDevice \/ toDevice' = <<>>
    BY <1>8 DEF Crash, Tcp!DeviceCrash
  <2>0. toDevice \in Seq(1..cmd) /\ <<>> \in Seq(1..cmd)
    BY DEF CommandInv
  <2>3. toDevice' \in Seq(1..cmd)
    BY <2>0, <2>2
  <2>4. (Calling => cmd > 0)'
    BY <2>1 DEF CommandInv, Calling
  <2> QED
    BY <2>1, <2>3, <2>4 DEF CommandInv
<1> QED
  BY <1>1, <1>2, <1>3, <1>4, <1>5, <1>6, <1>7, <1>8 DEF Next, Application, Camera

-------------------------------------------------------------------------------
(* The camera *)

\* The camera obeys a stream command that was sent, and so do its frames.
LEMMA ModeStep ==
  ASSUME CommandInv, ModeInv, [Next]_vars PROVE ModeInv' /\ dataType <= dataType'
<1> USE DEF ModeInv
<1>1. CASE Connection \/ SendFrame \/ Callback \/ Finish \/ Shutdown \/ Close \/ UNCHANGED vars
  <2>1. UNCHANGED <<cmd, commands, dataType, mode>>
    BY <1>1, ConnectionStep
       DEF ChannelStep, Connection, SendFrame, Callback, FirstDatagram, LastDatagram,
           NoCurrentFrame, Take, Finish, Shutdown, Close, Tcp!Close, vars, tcp, app
  <2> QED
    BY <2>1
<1>2. CASE Stream
  <2>1. /\ cmd' = cmd + 1 /\ cmd \in Nat
        /\ \A c \in 1..cmd : commands'[c] = commands[c]
    BY <1>2, BeginStep DEF Stream, CommandInv
  <2>2. dataType' = cmd + 1 /\ mode' = mode
    BY <1>2 DEF Stream
  <2>3. ASSUME NEW c \in 1..cmd' PROVE c <= dataType'
    BY <2>1, <2>2
  <2> QED
    BY <2>1, <2>2, <2>3
<1>3. CASE StopStream \/ Set
  <2>1. PICK asks \in {"stop", "set"} :
          /\ cmd' = cmd + 1 /\ cmd \in Nat /\ commands'[cmd + 1] = asks
          /\ \A c \in 1..cmd : commands'[c] = commands[c]
    BY <1>3, BeginStep DEF StopStream, Set, CommandInv
  <2>2. UNCHANGED <<dataType, mode>>
    BY <1>3 DEF StopStream, Set
  <2> QED
    BY <2>1, <2>2
<1>4. CASE Serve
  <2> DEFINE c == Head(toDevice)
  <2>1. c \in 1..cmd /\ commands[c] \in {"stream", "stop", "set"}
    BY <1>4 DEF Serve, Tcp!DeviceServe, CommandInv
  <2>2. UNCHANGED <<cmd, commands, dataType>>
    BY <1>4 DEF Serve, Tcp!DeviceServe, Tcp!driver, app
  <2> HIDE DEF c
  <2>3. mode' = [stream |-> c, stop |-> 0, set |-> mode][commands[c]]
    BY <1>4 DEF Serve, c
  <2>4. \/ commands[c] = "stream" /\ mode' = c
        \/ mode' = 0
        \/ mode' = mode
    BY <2>1, <2>3
  <2> QED
    BY <2>1, <2>2, <2>4 DEF CommandInv
<1>5. CASE Crash
  BY <1>5 DEF Crash, Tcp!DeviceCrash, Tcp!driver, app
<1> QED
  BY <1>1, <1>2, <1>3, <1>4, <1>5 DEF Next, Application, Camera

-------------------------------------------------------------------------------
(* The frames *)

\* A frame is sent with the mode of the camera, its first datagram with its last.
LEMMA SendFrameStep ==
  ASSUME ModeInv, NetInv, SendFrame PROVE NetInv'
<1>1. /\ net' = net \cup Datagrams(frames + 1) /\ frames' = frames + 1
      /\ UNCHANGED <<dataType, currentFrame>>
  BY DEF SendFrame, app
<1>2. mode \in Nat /\ mode <= dataType /\ frames + 1 \in Nat
  BY DEF ModeInv, NetInv
<1>3. ASSUME NEW d \in Datagrams(frames + 1)
      PROVE  /\ d \in [part : {"first", "last"}, frame : Nat, mode : Nat] /\ d.mode = mode
             /\ [d EXCEPT !.part = "first"] \in Datagrams(frames + 1)
  BY <1>2, <1>3 DEF Datagrams
<1>4. \A d \in net : Headless(d) => Headless(d)'
  BY <1>1 DEF Headless
<1>5. \A d \in Datagrams(frames + 1) : [d EXCEPT !.part = "first"] \in net'
  BY <1>1, <1>3
<1>6. \A d \in net' : d.part = "last" => Headless(d)' \/ d.mode <= currentFrame'
  BY <1>1, <1>4, <1>5 DEF NetInv, Headless
<1>7. \A d \in net' : d.mode <= dataType'
  BY <1>1, <1>2, <1>3 DEF NetInv
<1>8. net' \subseteq [part : {"first", "last"}, frame : Nat, mode : Nat]
  BY <1>1, <1>3 DEF NetInv
<1> QED
  BY <1>1, <1>2, <1>6, <1>7, <1>8 DEF NetInv

\* A first datagram labels currentFrame with the type of its frame or a later
\* one, and a last one leaves the first ones of the others under way.
LEMMA CallbackStep ==
  ASSUME ModeInv, NetInv, Callback PROVE NetInv'
<1>1. PICK d \in net, part \in {"first", "last"} : Take(d, part)
  BY DEF Callback, FirstDatagram, LastDatagram, NoCurrentFrame
<1>2. net' = net \ {d} /\ d.part = part /\ UNCHANGED <<dataType, frames>>
  BY <1>1 DEF Take, app
<1>3. dataType \in Nat
  BY DEF ModeInv
<1>4. CASE FirstDatagram
  <2>1. currentFrame' = dataType
    BY <1>4 DEF FirstDatagram
  <2> QED
    BY <2>1, <1>2, <1>3 DEF NetInv
<1>5. CASE LastDatagram \/ NoCurrentFrame
  <2>1. PICK e \in net : e.part = "last" /\ net' = net \ {e}
    BY <1>5 DEF LastDatagram, NoCurrentFrame, Take
  <2>2. UNCHANGED currentFrame
    BY <1>5 DEF LastDatagram, NoCurrentFrame
  <2>3. ASSUME NEW x \in net', Headless(x) PROVE Headless(x)'
    <3>1. x \in [part : {"first", "last"}, frame : Nat, mode : Nat]
      BY <2>1 DEF NetInv
    <3>2. [x EXCEPT !.part = "first"].part = "first"
      BY <3>1
    <3>3. [x EXCEPT !.part = "first"] # e
      BY <3>2, <2>1
    <3> QED
      BY <3>3, <2>1, <2>3 DEF Headless
  <2> QED
    BY <2>1, <2>2, <2>3, <1>2, <1>3 DEF NetInv
<1> QED
  BY <1>4, <1>5 DEF Callback

LEMMA NetStep ==
  ASSUME CommandInv, ModeInv, NetInv, [Next]_vars PROVE NetInv'
<1>1. CASE Connection \/ Application \/ Serve \/ Crash \/ UNCHANGED vars
  <2>1. UNCHANGED <<net, currentFrame, frames>>
    BY <1>1 DEF Connection, Application, Stream, StopStream, Set, Finish, Shutdown, Close,
                Serve, Crash, video, vars
  <2>2. dataType \in Nat /\ dataType' \in Nat /\ dataType <= dataType'
    BY ModeStep DEF ModeInv
  <2>3. \A d \in net : d.mode \in Nat
    BY DEF NetInv
  <2>4. \A d \in net : Headless(d)' <=> Headless(d)
    BY <2>1 DEF Headless
  <2> QED
    BY <2>1, <2>2, <2>3, <2>4 DEF NetInv
<1> QED
  BY <1>1, SendFrameStep, CallbackStep DEF Next, Camera

\* A delivered frame is labelled as currentFrame is, which never goes back.
LEMMA LabelStep ==
  ASSUME ModeInv, NetInv, LabelInv, [Next]_vars PROVE LabelInv'
<1> DEFINE Label == [mode : Nat, dataType : Nat, headless : BOOLEAN]
<1>0. /\ currentFrame \in Nat /\ dataType \in Nat /\ currentFrame <= dataType
      /\ labels \in Seq(Label)
  BY DEF NetInv, ModeInv, LabelInv
<1>1. CASE LastDatagram
  <2>1. PICK d \in net :
          /\ d.part = "last"
          /\ labels' = Append(labels, [mode |-> d.mode, dataType |-> currentFrame,
                                       headless |-> Headless(d)])
    BY <1>1 DEF LastDatagram, Take
  <2> DEFINE e == [mode |-> d.mode, dataType |-> currentFrame, headless |-> Headless(d)]
  <2>2. d.mode \in Nat /\ (Headless(d) \/ d.mode <= currentFrame) /\ Headless(d) \in BOOLEAN
    BY <2>1 DEF NetInv, Headless
  <2>3. e \in Label /\ e.dataType = currentFrame /\ (e.dataType < e.mode => e.headless)
    BY <2>2, <1>0
  <2>4. labels' = Append(labels, e) /\ UNCHANGED currentFrame
    BY <2>1, <1>1 DEF LastDatagram
  <2> HIDE DEF e, Label
  <2>5. /\ labels' \in Seq(Label) /\ Len(labels) \in Nat
        /\ labels'[Len(labels) + 1] = e
        /\ \A i \in 1..Len(labels) : labels'[i] = labels[i]
        /\ DOMAIN labels = 1..Len(labels) /\ DOMAIN labels' = 1..Len(labels) + 1
    BY <2>3, <2>4, <1>0
  <2>6. \A i \in DOMAIN labels' : labels'[i].dataType <= currentFrame'
    <3> SUFFICES ASSUME NEW i \in DOMAIN labels' PROVE labels'[i].dataType <= currentFrame'
      OBVIOUS
    <3>1. CASE i = Len(labels) + 1
      BY <3>1, <2>3, <2>4, <2>5, <1>0
    <3>2. CASE i \in 1..Len(labels)
      BY <3>2, <2>4, <2>5 DEF LabelInv
    <3> QED
      BY <3>1, <3>2, <2>5
  <2>7. ASSUME NEW i \in DOMAIN labels'
        PROVE  /\ labels'[i].dataType < labels'[i].mode => labels'[i].headless
               /\ \A k \in 1..i : labels'[k].dataType <= labels'[i].dataType
    <3>1. CASE i = Len(labels) + 1
      <4>1. labels'[i] = e /\ 1..i = DOMAIN labels'
        BY <3>1, <2>5
      <4> QED
        BY <4>1, <2>3, <2>4, <2>6
    <3>2. CASE i \in 1..Len(labels)
      <4>1. labels'[i] = labels[i] /\ \A k \in 1..i : labels'[k] = labels[k]
        BY <3>2, <2>5
      <4> QED
        BY <4>1, <3>2, <2>5 DEF LabelInv, LabelNeverOlder
    <3> QED
      BY <3>1, <3>2, <2>5, <2>7
  <2> QED
    BY <2>5, <2>6, <2>7 DEF LabelInv, LabelNeverOlder, Label
<1>2. CASE ~LastDatagram
  <2>1. labels' = labels
    BY <1>2 DEF Next, Application, Connection, Camera, Callback, Stream, StopStream, Set, Finish,
                Shutdown, Close, Serve, Crash, SendFrame, FirstDatagram, NoCurrentFrame, video, vars
  <2>2. currentFrame' = currentFrame \/ currentFrame' = dataType
    BY DEF Next, Application, Connection, Camera, Callback, Stream, StopStream, Set, Finish,
           Shutdown, Close, Serve, Crash, SendFrame, FirstDatagram, LastDatagram, NoCurrentFrame,
           video, vars
  <2>3. \A i \in DOMAIN labels : labels[i].dataType \in Nat
    <3>1. \A e \in Label : e.dataType \in Nat
      OBVIOUS
    <3> HIDE DEF Label
    <3> QED
      BY <3>1, <1>0
  <2> QED
    BY <2>1, <2>2, <2>3, <1>0 DEF LabelInv, LabelNeverOlder
<1> QED
  BY <1>1, <1>2

-------------------------------------------------------------------------------
(* The theorem *)

LEMMA InvInit ==
  ASSUME Init PROVE IInv
<1>1. CommandInv
  BY DEF Init, Tcp!Init, CommandInv, Calling
<1>2. ModeInv
  BY DEF Init, Tcp!Init, ModeInv
<1>3. NetInv
  BY DEF Init, NetInv
<1>4. LabelInv
  BY DEF Init, LabelInv, LabelNeverOlder
<1> QED
  BY <1>1, <1>2, <1>3, <1>4 DEF IInv

THEOREM Invariance == Spec => []IInv
<1>1. IInv /\ [Next]_vars => IInv'
  BY CommandStep, ModeStep, NetStep, LabelStep DEF IInv
<1> QED
  BY <1>1, InvInit, PTL DEF Spec

\* Whatever datagrams are lost or late: a frame has a label that was asked for
\* before it was taken only if its first datagram had not come by the time of its
\* last one, and the labels of the delivered frames never go back.
THEOREM LabelsAreNotOlder == Spec => []LabelNeverOlder
<1>1. IInv => LabelNeverOlder
  BY DEF IInv, LabelInv
<1> QED
  BY <1>1, Invariance, PTL

-------------------------------------------------------------------------------
(* What the camera obeys *)

(***************************************************************************)
(* Over a connection that the camera holds, a command is under way only    *)
(* while waitAck waits for it, and an answer only after it was executed.   *)
(***************************************************************************)
AckInv ==
  /\ owed \in Nat /\ arrived \in Nat
  /\ devConn => sock \in {"established", "null"}
  /\ pc = "connect" => ~devConn /\ toDevice = <<>>
  /\ owed > 0 => devConn
  /\ devConn /\ toDevice # <<>> =>
       pc = "ack" /\ toDevice = <<cmd>> /\ owed = 0 /\ arrived = 0
  /\ owed + arrived <= 1
  /\ owed + arrived > 0 => pc = "ack"

\* The camera has executed the command of the call in progress.
Answered == owed + arrived > 0 \/ (pc = "idle" /\ outcome = "acked")

(***************************************************************************)
(* The call in progress sends what it says, and once it is answered the    *)
(* camera obeys it, or nothing after a crash.                              *)
(***************************************************************************)
CallInv ==
  /\ call \in {"none", "stream", "stop", "shutdown", "set", "close"}
  /\ call \in {"none", "close"} => ~Calling
  /\ call \notin {"none", "close"} => Calling \/ pc = "idle"
  /\ call = "stream" => commands[cmd] = "stream" /\ dataType = cmd
  /\ call \in {"stop", "shutdown"} => commands[cmd] = "stop"
  /\ call = "set" => commands[cmd] = "set"
  /\ Answered /\ call = "stream" => mode \in {0, cmd}
  /\ Answered /\ call \in {"stop", "shutdown"} => mode = 0

\* All of it is known of the connection.
LEMMA AckOfChannel == ASSUME Channel!IInv, Channel!AckInv PROVE AckInv
<1>1. owed \in Nat /\ arrived \in Nat
  BY DEF Channel!IInv, Channel!TypeOK
<1>2. /\ devConn => sock \in {"established", "null"}
      /\ pc = "connect" => ~devConn /\ toDevice = <<>>
      /\ owed > 0 => devConn
  BY DEF Channel!IInv, Channel!LineInv, Channel!StateInv
<1> QED
  BY <1>1, <1>2 DEF AckInv, Channel!AckInv

\* A step of the channel starts no call, and ends one as answered only if it was.
LEMMA ConnectionKeepsCall ==
  ASSUME AckPieces = 1, CommandInv, AckInv, Connection
  PROVE  /\ ~Calling => ~Calling'
         /\ Calling \/ pc = "idle" => (Calling \/ pc = "idle")' /\ (Answered' => Answered)
<1> USE DEF Calling, Answered, AckInv
<1>0. cmd \in Nat /\ returnTo \in {"idle", "sleep"}
  BY DEF CommandInv
<1>1. CASE Tcp!WriteOk
  BY <1>0, <1>1 DEF Tcp!WriteOk, Tcp!driver, Tcp!line
<1>2. CASE Tcp!WriteReset
  BY <1>0, <1>2 DEF Tcp!WriteReset, Tcp!driver, Tcp!line
<1>3. CASE Tcp!WriteOther
  BY <1>0, <1>3 DEF Tcp!WriteOther, Tcp!driver, Tcp!line
<1>4. CASE Tcp!Sleep
  BY <1>0, <1>4 DEF Tcp!Sleep, Tcp!driver, Tcp!line
<1>5. CASE Tcp!ReadData
  BY <1>0, <1>5 DEF Tcp!ReadData, Tcp!revertState, Tcp!driver, Tcp!line
<1>6. CASE Tcp!ReadEof
  BY <1>0, <1>6 DEF Tcp!ReadEof, Tcp!driver, Tcp!line
<1>7. CASE Tcp!ReadReset
  BY <1>0, <1>7 DEF Tcp!ReadReset, Tcp!ReadError, Tcp!driver, Tcp!line
<1>8. CASE Tcp!ReadTimedOut
  BY <1>0, <1>8 DEF Tcp!ReadTimedOut, Tcp!ReadError, Tcp!driver, Tcp!line
<1>9. CASE Tcp!ConnectBegin
  BY <1>0, <1>9 DEF Tcp!ConnectBegin, Tcp!driver, Tcp!line
<1>10. CASE Tcp!ResolveFails
  BY <1>0, <1>10 DEF Tcp!ResolveFails, Tcp!driver, Tcp!line
<1>11. CASE Tcp!ConnectFails
  BY <1>0, <1>11 DEF Tcp!ConnectFails, Tcp!driver, Tcp!line
<1>12. CASE Tcp!ConnectOk
  BY <1>0, <1>12 DEF Tcp!ConnectOk, Tcp!driver, Tcp!line
<1>13. CASE Tcp!DeviceAck
  BY <1>0, <1>13 DEF Tcp!DeviceAck, Tcp!driver, Tcp!line
<1>14. CASE Tcp!PeerRejects
  BY <1>0, <1>14 DEF Tcp!PeerRejects, Tcp!Undeliverable, Tcp!driver, Tcp!line
<1>15. CASE Tcp!PeerUnreachable
  BY <1>0, <1>15 DEF Tcp!PeerUnreachable, Tcp!Undeliverable, Tcp!driver, Tcp!line
<1>16. CASE Tcp!DeviceClose
  BY <1>0, <1>16 DEF Tcp!DeviceClose, Tcp!Fault, Tcp!driver, Tcp!line
<1>17. CASE Tcp!DeviceReset
  BY <1>0, <1>17 DEF Tcp!DeviceReset, Tcp!Fault, Tcp!driver, Tcp!line
<1>18. CASE Tcp!DeviceBoot
  BY <1>0, <1>18 DEF Tcp!DeviceBoot, Tcp!driver, Tcp!line
<1> QED
  BY <1>1, <1>2, <1>3, <1>4, <1>5, <1>6, <1>7, <1>8, <1>9, <1>10, <1>11, <1>12, <1>13,
     <1>14, <1>15, <1>16, <1>17, <1>18 DEF Connection, Tcp!Driver

\* The call in progress keeps its command, and its answer follows its execution.
LEMMA CallStep ==
  ASSUME AckPieces = 1, CommandInv, AckInv, CallInv, [Next]_vars PROVE CallInv'
<1>1. CASE Connection
  <2>1. UNCHANGED <<cmd, commands, call, dataType, mode>>
    BY <1>1, ConnectionStep DEF Connection, ChannelStep, app
  <2>2. /\ ~Calling => ~Calling'
        /\ Calling \/ pc = "idle" => (Calling \/ pc = "idle")' /\ (Answered' => Answered)
    BY <1>1, ConnectionKeepsCall
  <2> QED
    BY <2>1, <2>2 DEF CallInv
<1>2. CASE Stream \/ StopStream \/ Set
  <2>1. PICK kind \in {"stream", "stop", "shutdown", "set"}, asks \in {"stream", "stop", "set"} :
          /\ Begin(kind, asks)
          /\ kind = "stream" => asks = "stream" /\ dataType' = cmd + 1
          /\ kind \in {"stop", "shutdown"} => asks = "stop"
          /\ kind = "set" => asks = "set"
    BY <1>2 DEF Stream, StopStream, Set
  <2>2. cmd' = cmd + 1 /\ commands'[cmd + 1] = asks
    BY <2>1, BeginStep
  <2>3. call' = kind /\ pc' \in {"write", "idle"} /\ outcome' # "acked"
    BY <2>1 DEF Begin, Tcp!SendCommand
  <2>4. UNCHANGED <<owed, arrived>> /\ pc = "idle"
    BY <2>1 DEF Begin, Tcp!SendCommand, Tcp!line
  <2>5. ~Answered'
    BY <2>3, <2>4 DEF Answered, AckInv
  <2> QED
    BY <2>1, <2>2, <2>3, <2>5 DEF CallInv, Calling
<1>3. CASE Finish
  BY <1>3 DEF Finish, CallInv, Calling, tcp
<1>4. CASE Shutdown
  BY <1>4 DEF Shutdown, CallInv, Calling, tcp
<1>5. CASE Close
  BY <1>5 DEF Close, Tcp!Close, CallInv, Calling, tcp
<1>6. CASE SendFrame \/ Callback \/ UNCHANGED vars
  <2>1. UNCHANGED tcp /\ UNCHANGED app /\ UNCHANGED mode
    BY <1>6 DEF SendFrame, Callback, FirstDatagram, LastDatagram, NoCurrentFrame, Take, vars
  <2> QED
    BY <2>1 DEF CallInv, Calling, Answered, tcp, app
<1>7. CASE Serve
  <2>1. /\ pc = "ack" /\ Head(toDevice) = cmd
        /\ UNCHANGED <<pc, returnTo, outcome, cmd, commands, call, dataType>>
    BY <1>7 DEF Serve, Tcp!DeviceServe, Tcp!driver, app, AckInv
  <2>2. mode' = [stream |-> cmd, stop |-> 0, set |-> mode][commands[cmd]]
    BY <1>7, <2>1 DEF Serve
  <2>3. /\ commands[cmd] = "stream" => mode' = cmd
        /\ commands[cmd] = "stop" => mode' = 0
    BY <2>2
  <2> QED
    BY <2>1, <2>3 DEF CallInv, Calling
<1>8. CASE Crash
  <2>1. /\ mode' = 0 /\ owed' = 0
        /\ UNCHANGED <<pc, returnTo, outcome, cmd, commands, call, dataType>>
    BY <1>8 DEF Crash, Tcp!DeviceCrash, Tcp!Fault, Tcp!driver, app
  <2> QED
    BY <2>1 DEF CallInv, Calling
<1> QED
  BY <1>1, <1>2, <1>3, <1>4, <1>5, <1>6, <1>7, <1>8 DEF Next, Application, Camera

\* A call only ends as acknowledged when the camera has obeyed it.
LEMMA FollowStep ==
  ASSUME CommandInv, AckInv, CallInv, CameraFollowsDriver, [Next]_vars
  PROVE  CameraFollowsDriver'
<1> USE DEF CameraFollowsDriver
<1>1. CASE Connection \/ Shutdown \/ Close \/ SendFrame \/ Callback \/ UNCHANGED vars
  BY <1>1 DEF Connection, Shutdown, Close, SendFrame, Callback, FirstDatagram, LastDatagram,
              NoCurrentFrame, Take, vars, app
<1>2. CASE Stream \/ StopStream \/ Set
  BY <1>2 DEF Stream, StopStream, Set, Begin
<1>3. CASE Finish
  <2>1. pc = "idle" /\ (sure' = IF call = "set" THEN sure ELSE outcome = "acked")
        /\ (isStreaming' = IF Threw \/ call = "set" THEN isStreaming ELSE call = "stream")
        /\ UNCHANGED <<mode, dataType>> /\ call \in {"stream", "stop", "shutdown", "set"}
    BY <1>3 DEF Finish, CallInv
  <2>2. CASE call = "set"
    BY <2>1, <2>2
  <2>3. CASE call # "set" /\ outcome = "acked"
    BY <2>1, <2>3 DEF CallInv, Answered, Threw
  <2>4. CASE call # "set" /\ outcome # "acked"
    BY <2>1, <2>4
  <2> QED
    BY <2>2, <2>3, <2>4
<1>4. CASE Serve
  <2>1. /\ pc = "ack" /\ Head(toDevice) = cmd
        /\ UNCHANGED <<call, sure, isStreaming, dataType>>
    BY <1>4 DEF Serve, Tcp!DeviceServe, Tcp!driver, app, AckInv
  <2>2. mode' = [stream |-> cmd, stop |-> 0, set |-> mode][commands[cmd]]
    BY <1>4, <2>1 DEF Serve
  <2>3. call = "set" => mode' = mode
    BY <2>2 DEF CallInv
  <2> QED
    BY <2>1, <2>3 DEF CallInv, Calling
<1>5. CASE Crash
  BY <1>5 DEF Crash
<1> QED
  BY <1>1, <1>2, <1>3, <1>4, <1>5 DEF Next, Application, Camera

LEMMA FollowInit ==
  ASSUME Init PROVE CallInv /\ CameraFollowsDriver
BY DEF Init, Tcp!Init, CallInv, Calling, Answered, CameraFollowsDriver

\* With answers in one piece, the camera does what the object believes, from an
\* acknowledged stream or stop call to the next one: no late command of an
\* earlier call, no retry, no reconnection comes between.
THEOREM AcknowledgedIsObeyed ==
  ASSUME AckPieces = 1 PROVE Spec => []CameraFollowsDriver
<1> DEFINE Inv == CommandInv /\ CallInv /\ CameraFollowsDriver
<1>1. Init => Inv
  BY InvInit, FollowInit DEF IInv
<1>2. Spec => []AckInv
  <2>1. Channel!IInv /\ Channel!AckInv => AckInv
    BY AckOfChannel
  <2> QED
    BY <2>1, ChannelInvariance, ChannelImplementation, ChannelAssumptions, Channel!AnswersBelong, PTL
<1>3. Inv /\ AckInv /\ [Next]_vars => Inv'
  BY CommandStep, CallStep, FollowStep
<1>4. Inv => CameraFollowsDriver
  OBVIOUS
<1> QED
  BY <1>1, <1>2, <1>3, <1>4, PTL DEF Spec

-------------------------------------------------------------------------------
(* Types *)

\* The types of the object's own variables.
ObjectType ==
  /\ isStreaming \in BOOLEAN /\ sure \in BOOLEAN
  /\ call \in {"none", "stream", "stop", "shutdown", "set", "close"}
  /\ frames \in Nat /\ crashed \in BOOLEAN

VideoType ==
  /\ net \subseteq [part : {"first", "last"}, frame : 1..frames, mode : 1..cmd]
  /\ currentFrame \in 0..dataType
  /\ labels \in Seq([mode : 1..cmd, dataType : 1..dataType, headless : BOOLEAN])

LEMMA ObjectTypeStep ==
  ASSUME ObjectType, [Next]_vars PROVE ObjectType'
<1> USE DEF ObjectType
<1>1. CASE Connection \/ Serve \/ Crash \/ UNCHANGED vars
  BY <1>1 DEF Connection, Serve, Crash, app, video, vars
<1>4. CASE SendFrame
  BY <1>4 DEF SendFrame, app
<1>5. CASE Callback
  <2>1. UNCHANGED app /\ UNCHANGED frames /\ (UNCHANGED crashed \/ crashed' = TRUE)
    BY <1>5 DEF Callback, FirstDatagram, LastDatagram, NoCurrentFrame, Take
  <2> QED
    BY <2>1 DEF app
<1>2. CASE Stream \/ StopStream \/ Set \/ Shutdown \/ Close
  BY <1>2 DEF Stream, StopStream, Set, Shutdown, Close, Begin, video
<1>3. CASE Finish
  BY <1>3 DEF Finish, video
<1> QED
  BY <1>1, <1>2, <1>3, <1>4, <1>5 DEF Next, Application, Camera

\* Frames only carry modes that were asked for, labels only types that were set.
LEMMA VideoTypeStep ==
  ASSUME CommandInv, ModeInv, ObjectType, VideoType, [Next]_vars PROVE VideoType'
<1> DEFINE Part == [part : {"first", "last"}, frame : 1..frames, mode : 1..cmd]
           Label == [mode : 1..cmd, dataType : 1..dataType, headless : BOOLEAN]
           Part1 == [part : {"first", "last"}, frame : 1..frames', mode : 1..cmd']
           Label1 == [mode : 1..cmd', dataType : 1..dataType', headless : BOOLEAN]
<1>0. /\ cmd \in Nat /\ cmd' \in Nat /\ cmd <= cmd'
      /\ dataType \in 0..cmd /\ dataType' \in 0..cmd' /\ dataType <= dataType' /\ mode \in 0..dataType
  <2>1. CommandInv' /\ ModeInv' /\ dataType <= dataType'
    BY CommandStep, ModeStep
  <2>2. cmd' = cmd \/ cmd' = cmd + 1
    BY StepMovesChannel, ConnectionStep
       DEF ChannelMoves, ChannelStep, Tcp!SendCommand, Tcp!Close, Tcp!DeviceServe,
           Tcp!DeviceCrash, Tcp!driver, tcp
  <2> QED
    BY <2>1, <2>2 DEF ModeInv
<1>F. frames \in Nat /\ (frames' = frames \/ frames' = frames + 1)
  BY DEF ObjectType, Next, Application, Connection, Camera, Callback, Stream, StopStream, Set,
         Finish, Shutdown, Close, Serve, Crash, SendFrame, FirstDatagram, LastDatagram,
         NoCurrentFrame, Take, video, vars
<1>1. /\ Part \subseteq Part1 /\ Label \subseteq Label1
      /\ \A d \in Part : d.part \in {"first", "last"} /\ d.mode \in 1..cmd
  BY <1>0, <1>F
<1>2. /\ net \subseteq Part /\ labels \in Seq(Label)
      /\ currentFrame \in 0..dataType /\ currentFrame \in 0..dataType'
  BY <1>0 DEF VideoType
<1> HIDE DEF Part, Label, Label1
<1>3. net \subseteq Part1 /\ labels \in Seq(Label1)
  BY <1>1, <1>2, SeqGrows
<1>4. net' \subseteq Part1
  <2>1. CASE SendFrame
    <3>1. net' = net \cup Datagrams(frames + 1) /\ mode \in 1..cmd' /\ frames' = frames + 1
      BY <2>1, <1>0 DEF SendFrame
    <3>2. Datagrams(frames + 1) \subseteq Part1
      BY <3>1, <1>F DEF Datagrams
    <3> QED
      BY <1>3, <3>1, <3>2
  <2>2. CASE Callback
    <3>1. net' \subseteq net
      BY <2>2 DEF Callback, FirstDatagram, LastDatagram, NoCurrentFrame, Take
    <3> QED
      BY <3>1, <1>3
  <2>3. CASE ~SendFrame /\ ~Callback
    <3>1. net' = net
      BY <2>3 DEF Next, Application, Connection, Camera, Stream, StopStream, Set, Finish,
                  Shutdown, Close, Serve, Crash, video, vars
    <3> QED
      BY <3>1, <1>3
  <2> QED
    BY <2>1, <2>2, <2>3
<1>5. currentFrame' \in 0..dataType'
  <2>1. CASE FirstDatagram
    BY <2>1, <1>0 DEF FirstDatagram, Take, app
  <2>2. CASE ~FirstDatagram
    <3>1. currentFrame' = currentFrame
      BY <2>2 DEF Next, Application, Connection, Camera, Callback, Stream, StopStream, Set,
                  Finish, Shutdown, Close, Serve, Crash, SendFrame, LastDatagram, NoCurrentFrame,
                  video, vars
    <3> QED
      BY <3>1, <1>2
  <2> QED
    BY <2>1, <2>2
<1>6. labels' \in Seq(Label1)
  <2>1. CASE LastDatagram
    <3>1. PICK d \in net :
            labels' = Append(labels, [mode |-> d.mode, dataType |-> currentFrame,
                                      headless |-> Headless(d)])
      BY <2>1 DEF LastDatagram
    <3> DEFINE e == [mode |-> d.mode, dataType |-> currentFrame, headless |-> Headless(d)]
    <3>2. d.mode \in 1..cmd' /\ currentFrame \in 1..dataType' /\ Headless(d) \in BOOLEAN
      BY <2>1, <1>0, <1>1, <1>2 DEF LastDatagram, Headless
    <3>3. e \in Label1
      BY <3>2 DEF Label1
    <3>4. labels' = Append(labels, e)
      BY <3>1
    <3> HIDE DEF e
    <3> QED
      BY <3>3, <3>4, <1>3
  <2>2. CASE ~LastDatagram
    <3>1. labels' = labels
      BY <2>2 DEF Next, Application, Connection, Camera, Callback, Stream, StopStream, Set,
                  Finish, Shutdown, Close, Serve, Crash, SendFrame, FirstDatagram, NoCurrentFrame,
                  video, vars
    <3> QED
      BY <3>1, <1>3
  <2> QED
    BY <2>1, <2>2
<1> QED
  BY <1>4, <1>5, <1>6 DEF VideoType, Label1

\* Every variable of the object, of its channel and of its frames keeps its type.
THEOREM TypeCorrect == Spec => []TypeOK
<1> DEFINE Inv == CommandInv /\ ModeInv /\ ObjectType /\ VideoType
<1>1. Init => Inv
  <2> SUFFICES ASSUME Init PROVE ObjectType /\ VideoType
    BY InvInit DEF IInv
  <2>1. ObjectType
    BY DEF Init, ObjectType
  <2>2. VideoType
    BY DEF Init, Tcp!Init, VideoType
  <2> QED
    BY <2>1, <2>2
<1>2. Inv /\ [Next]_vars => Inv'
  BY CommandStep, ModeStep, ObjectTypeStep, VideoTypeStep
<1>3. Channel!IInv => Tcp!TypeOK
  BY DEF Channel!IInv, Channel!TypeOK, Tcp!TypeOK, Channel!States, Tcp!States,
     Channel!Socks, Tcp!Socks, Channel!Outcomes, Tcp!Outcomes
<1>4. Inv /\ Tcp!TypeOK => TypeOK
  <2> SUFFICES ASSUME CommandInv, ModeInv, ObjectType, VideoType, Tcp!TypeOK PROVE TypeOK
    OBVIOUS
  <2>1. Len(commands) = cmd /\ mode \in 0..cmd
    BY DEF CommandInv, ModeInv
  <2> QED
    BY <2>1 DEF TypeOK, CommandInv, ModeInv, ObjectType, VideoType
<1> QED
  BY <1>1, <1>2, <1>3, <1>4, ChannelInvariance, PTL DEF Spec
===============================================================================
