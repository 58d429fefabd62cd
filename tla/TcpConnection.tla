----------------------------- MODULE TcpConnection -----------------------------
(***************************************************************************)
(* The command channel of one camera (driver/src/tcp_connection.cpp): one  *)
(* thread calls connect, sendCommand and close; every blocking socket      *)
(* operation is a step of its own, and between two of them the camera may  *)
(* serve, acknowledge, hang up, reset the connection or crash.             *)
(*                                                                         *)
(* A command is the number of the sendCommand call that sends it.  Bytes,  *)
(* markers and lengths are left out.  The socket is its TCP state as the   *)
(* Linux kernel and Boost.Asio show it to this code.                       *)
(***************************************************************************)
EXTENDS Naturals, Sequences

CONSTANTS
  MaxAttempts,  \* COMMAND_MAX_ATTEMPTS
  MaxCalls,     \* bound: calls of sendCommand
  MaxFaults,    \* bound: faults of the camera, the network and the resolver
  AckPieces,    \* TCP segments one acknowledgement arrives in
  Faults        \* the kinds of fault that may happen

ASSUME MaxAttemptsIsPositive == MaxAttempts \in Nat \ {0}
ASSUME BoundsAreNat == MaxCalls \in Nat /\ MaxFaults \in Nat
ASSUME AckPiecesIsPositive == AckPieces \in Nat \ {0}
ASSUME FaultsAreKnown == Faults \subseteq {"close", "reset", "crash", "resolve"}

VARIABLES
  state, previousState,  \* TcpConnection::state, previousState
  sock,        \* TcpConnection::socket
  pc,          \* the blocking operation the calling thread is about to make
  returnTo,    \* where connect returns to
  cmd,         \* the last command passed to sendCommand
  attempts,    \* the local of sendCommand
  outcome,     \* how the last sendCommand ended
  devUp,       \* the camera is running
  devConn,     \* the camera holds its end of the connection
  conn,        \* number of connections made so far
  toDevice,    \* commands written and not yet read by the camera
  owed,        \* pieces of acknowledgements the camera has still to send
  arrived,     \* pieces in the receive queue of the socket
  log,         \* what the camera executed: command and connection
  faults       \* faults so far

driver == <<state, previousState, sock, pc, returnTo, cmd, attempts, outcome>>
line == <<devConn, conn, toDevice, owed, arrived>>
vars == <<driver, line, devUp, log, faults>>

States == {"CLOSING", "DISCONNECTED", "CONNECTING", "CONNECTED", "WAIT_ACK"}

(***************************************************************************)
(* null: no object.  closed: an object that was never opened.              *)
(* unconnected: opened by a connect that failed.  finished: the peer hung  *)
(* up.  reset, timedout: the error is pending.  dead: it was reported.     *)
(***************************************************************************)
Socks == {"null", "closed", "unconnected", "established",
          "finished", "reset", "timedout", "dead"}
Outcomes == {"none", "acked", "skipped", "threwBadDescriptor",
             "exhausted", "threwClosed"}

updateState(newState) == previousState' = state /\ state' = newState

\* Faulty variant of revertState: the state is not restored.
KeepState == UNCHANGED <<state, previousState>>

revertState == state' = previousState /\ UNCHANGED previousState

\* getpeername succeeds on these sockets only.
IsConnected == sock \in {"established", "finished"} /\ state = "CONNECTED"

\* non_blocking(true) throws bad_descriptor on an object that is not open.
IsConnectedThrows == sock = "closed"

Init ==
  /\ state = "DISCONNECTED" /\ previousState = "DISCONNECTED"
  /\ sock = "null"
  /\ pc = "ctor" /\ returnTo = "idle"
  /\ cmd = 0 /\ attempts = 0 /\ outcome = "none"
  /\ devUp \in (IF "crash" \in Faults THEN BOOLEAN ELSE {TRUE})
  /\ devConn = FALSE /\ conn = 0 /\ toDevice = <<>> /\ owed = 0 /\ arrived = 0
  /\ log = <<>> /\ faults = 0

-------------------------------------------------------------------------------
(* sendCommand *)

\* Faulty variant of SendCommand: without a connection it makes a new one.
SendCommandReconnects ==
  /\ pc = "idle"
  /\ cmd < MaxCalls
  /\ cmd' = cmd + 1
  /\ attempts' = 0
  /\ IF IsConnected
       THEN pc' = "write" /\ outcome' = "none"
       ELSE pc' = "reconnect" /\ outcome' = "skipped"
  /\ UNCHANGED <<state, previousState, sock, returnTo, line, devUp, log, faults>>

SendCommand ==
  /\ pc = "idle"
  /\ cmd < MaxCalls
  /\ cmd' = cmd + 1
  /\ IF IsConnected
       THEN pc' = "write" /\ attempts' = 0 /\ outcome' = "none"
       ELSE /\ outcome' = IF IsConnectedThrows THEN "threwBadDescriptor" ELSE "skipped"
            /\ UNCHANGED <<pc, attempts>>
  /\ UNCHANGED <<state, previousState, sock, returnTo, line, devUp, log, faults>>

\* Faulty variant of WriteOk: the answer is not awaited.
WriteNoWait ==
  /\ pc = "write"
  /\ sock \in {"established", "finished"}
  /\ toDevice' = Append(toDevice, cmd)
  /\ pc' = "idle" /\ outcome' = "acked"
  /\ UNCHANGED <<state, previousState, sock, returnTo, cmd, attempts, devConn,
                 conn, owed, arrived, devUp, log, faults>>

\* write succeeds, and waitAck starts.
WriteOk ==
  /\ pc = "write"
  /\ sock \in {"established", "finished"}
  /\ toDevice' = Append(toDevice, cmd)
  /\ updateState("WAIT_ACK")
  /\ pc' = "ack"
  /\ UNCHANGED <<sock, returnTo, cmd, attempts, outcome, devConn, conn, owed,
                 arrived, devUp, log, faults>>

\* connection_reset is one of the two errors that lead to connect.
WriteReset ==
  /\ pc = "write"
  /\ sock = "reset"
  /\ sock' = "dead"
  /\ pc' = "reconnect"
  /\ UNCHANGED <<state, previousState, returnTo, cmd, attempts, outcome, line,
                 devUp, log, faults>>

\* Any other error (timed out, broken pipe, not connected, bad descriptor).
WriteOther ==
  /\ pc = "write"
  /\ sock \in {"timedout", "dead", "unconnected", "closed"}
  /\ sock' = IF sock = "timedout" THEN "dead" ELSE sock
  /\ pc' = "sleep"
  /\ UNCHANGED <<state, previousState, returnTo, cmd, attempts, outcome, line,
                 devUp, log, faults>>

\* Faulty variants of Sleep: the attempt is counted down, or not at all, or
\* one more is made.
SleepCountsDown ==
  /\ pc = "sleep"
  /\ attempts' = attempts - 1
  /\ pc' = "write"
  /\ UNCHANGED <<state, previousState, sock, returnTo, cmd, outcome, line,
                 devUp, log, faults>>

SleepForgetsAttempt ==
  /\ pc = "sleep"
  /\ pc' = "write"
  /\ UNCHANGED <<state, previousState, sock, returnTo, cmd, attempts, outcome,
                 line, devUp, log, faults>>

SleepOnceMore ==
  /\ pc = "sleep"
  /\ attempts' = attempts + 1
  /\ IF attempts < MaxAttempts
       THEN pc' = "write" /\ UNCHANGED outcome
       ELSE pc' = "idle" /\ outcome' = "exhausted"
  /\ UNCHANGED <<state, previousState, sock, returnTo, cmd, line, devUp, log, faults>>

\* Sleep, count the attempt, and leave or repeat the loop.
Sleep ==
  /\ pc = "sleep"
  /\ attempts' = attempts + 1
  /\ IF attempts + 1 < MaxAttempts
       THEN pc' = "write" /\ UNCHANGED outcome
       ELSE pc' = "idle" /\ outcome' = "exhausted"
  /\ UNCHANGED <<state, previousState, sock, returnTo, cmd, line, devUp, log, faults>>

-------------------------------------------------------------------------------
(* waitAck: read_some returns *)

\* One read takes all that has arrived; any bytes count as the answer.
ReadData ==
  /\ pc = "ack"
  /\ arrived > 0
  /\ arrived' = 0
  /\ revertState
  /\ pc' = "idle" /\ outcome' = "acked"
  /\ UNCHANGED <<sock, returnTo, cmd, attempts, devConn, conn, toDevice, owed,
                 devUp, log, faults>>

\* The runtime_error thrown at end of file passes both handlers.
ReadEof ==
  /\ pc = "ack"
  /\ arrived = 0
  /\ sock \in {"finished", "dead"}
  /\ updateState("DISCONNECTED")
  /\ pc' = "idle" /\ outcome' = "threwClosed"
  /\ UNCHANGED <<sock, returnTo, cmd, attempts, line, devUp, log, faults>>

ReadError(pending, next) ==
  /\ pc = "ack"
  /\ arrived = 0
  /\ sock = pending
  /\ sock' = "dead"
  /\ revertState
  /\ pc' = next
  /\ UNCHANGED <<returnTo, cmd, attempts, outcome, line, devUp, log, faults>>

\* Faulty variants of ReadTimedOut: a receive timeout that leaves the
\* connection as it is, and an error that is taken for an answer.
ReadGivesUp ==
  /\ pc = "ack" /\ arrived = 0 /\ sock = "established"
  /\ revertState
  /\ pc' = "sleep"
  /\ UNCHANGED <<sock, returnTo, cmd, attempts, outcome, line, devUp, log, faults>>

ReadErrorAsAck ==
  /\ pc = "ack" /\ arrived = 0 /\ sock = "timedout"
  /\ revertState
  /\ pc' = "idle" /\ outcome' = "acked"
  /\ UNCHANGED <<sock, returnTo, cmd, attempts, line, devUp, log, faults>>

ReadReset == ReadError("reset", "reconnect")
ReadTimedOut == ReadError("timedout", "sleep")

-------------------------------------------------------------------------------
(* connect, called by the constructor of ToF320 and by sendCommand *)

\* The old socket is closed and a new, unopened one takes its place.
ConnectBegin ==
  /\ pc \in {"ctor", "reconnect"}
  /\ ~IsConnected
  /\ updateState("CONNECTING")
  /\ sock' = "closed"
  /\ returnTo' = IF pc = "ctor" THEN "idle" ELSE "sleep"
  /\ pc' = "connect"
  /\ devConn' = FALSE /\ toDevice' = <<>> /\ owed' = 0 /\ arrived' = 0
  /\ UNCHANGED <<cmd, attempts, outcome, conn, devUp, log, faults>>

ResolveFails ==
  /\ pc = "connect"
  /\ "resolve" \in Faults /\ faults < MaxFaults
  /\ faults' = faults + 1
  /\ updateState("DISCONNECTED")
  /\ pc' = returnTo
  /\ UNCHANGED <<sock, returnTo, cmd, attempts, outcome, line, devUp, log>>

ConnectFails ==
  /\ pc = "connect"
  /\ ~devUp
  /\ sock' = "unconnected"
  /\ updateState("DISCONNECTED")
  /\ pc' = returnTo
  /\ UNCHANGED <<returnTo, cmd, attempts, outcome, line, devUp, log, faults>>

ConnectOk ==
  /\ pc = "connect"
  /\ devUp
  /\ sock' = "established"
  /\ updateState("CONNECTED")
  /\ pc' = returnTo
  /\ devConn' = TRUE /\ conn' = conn + 1
  /\ UNCHANGED <<returnTo, cmd, attempts, outcome, toDevice, owed, arrived,
                 devUp, log, faults>>

\* close: disconnect passes through CLOSING; what is in flight may be lost.
Close ==
  /\ pc = "idle"
  /\ sock # "null"
  /\ sock' = "null"
  /\ IF state = "DISCONNECTED"
       THEN UNCHANGED <<state, previousState>>
       ELSE previousState' = "CLOSING" /\ state' = "DISCONNECTED"
  /\ arrived' = 0
  /\ UNCHANGED toDevice \/ toDevice' = <<>>
  /\ UNCHANGED <<pc, returnTo, cmd, attempts, outcome, devConn, conn, owed,
                 devUp, log, faults>>

-------------------------------------------------------------------------------
(* The camera and the network (external) *)

DeviceServe ==
  /\ devConn
  /\ toDevice # <<>>
  /\ toDevice' = Tail(toDevice)
  /\ log' = Append(log, [cmd |-> Head(toDevice), conn |-> conn])
  /\ owed' = owed + AckPieces
  /\ UNCHANGED <<driver, devConn, conn, arrived, devUp, faults>>

DeviceAck ==
  /\ devConn
  /\ owed > 0
  /\ owed' = owed - 1
  /\ arrived' = IF sock = "null" THEN 0 ELSE arrived + 1
  /\ UNCHANGED <<driver, devConn, conn, toDevice, devUp, log, faults>>

Fault(kind) ==
  /\ kind \in Faults /\ faults < MaxFaults
  /\ faults' = faults + 1
  /\ devConn' = FALSE
  /\ owed' = 0

\* An orderly close; a close with commands unread would be a reset.
DeviceClose ==
  /\ devConn /\ sock = "established" /\ toDevice = <<>>
  /\ Fault("close")
  /\ sock' = "finished"
  /\ UNCHANGED <<state, previousState, pc, returnTo, cmd, attempts, outcome,
                 conn, toDevice, arrived, devUp, log>>

DeviceReset ==
  /\ devConn /\ sock = "established"
  /\ Fault("reset")
  /\ sock' = "reset"
  /\ toDevice' = <<>>
  /\ UNCHANGED <<state, previousState, pc, returnTo, cmd, attempts, outcome,
                 conn, arrived, devUp, log>>

\* The host learns nothing; what it wrote is lost or still to be retransmitted.
DeviceCrash ==
  /\ devUp
  /\ Fault("crash")
  /\ devUp' = FALSE
  /\ UNCHANGED toDevice \/ toDevice' = <<>>
  /\ UNCHANGED <<driver, conn, arrived, log>>

DeviceBoot ==
  /\ ~devUp
  /\ devUp' = TRUE
  /\ UNCHANGED <<driver, line, log, faults>>

\* Data that reaches a camera without the connection is answered by a reset,
\* and retransmission to a camera that is down ends in a timeout.
Undeliverable(error) ==
  /\ ~devConn /\ toDevice # <<>>
  /\ sock \in {"established", "finished"}
  /\ toDevice' = <<>>
  /\ sock' = IF sock = "finished" THEN "dead" ELSE error
  /\ UNCHANGED <<state, previousState, pc, returnTo, cmd, attempts, outcome,
                 devConn, conn, owed, arrived, devUp, log, faults>>

PeerRejects == devUp /\ Undeliverable("reset")
PeerUnreachable == ~devUp /\ Undeliverable("timedout")

-------------------------------------------------------------------------------
Driver ==
  \/ WriteOk \/ WriteReset \/ WriteOther \/ Sleep
  \/ ReadData \/ ReadEof \/ ReadReset \/ ReadTimedOut
  \/ ConnectBegin \/ ResolveFails \/ ConnectFails \/ ConnectOk

Calls == SendCommand \/ Close

Network == DeviceServe \/ DeviceAck \/ PeerRejects \/ PeerUnreachable

Env == DeviceClose \/ DeviceReset \/ DeviceCrash \/ DeviceBoot

Next == Driver \/ Calls \/ Network \/ Env

Spec == Init /\ [][Next]_vars

\* The calling thread runs, TCP delivers or reports, a camera that runs serves.
Fairness ==
  /\ WF_vars(Driver)
  /\ WF_vars(DeviceServe) /\ WF_vars(DeviceAck)
  /\ WF_vars(PeerRejects) /\ WF_vars(PeerUnreachable)

FairSpec == Spec /\ Fairness

-------------------------------------------------------------------------------
TypeOK ==
  /\ state \in States /\ previousState \in States
  /\ sock \in Socks
  /\ pc \in {"ctor", "idle", "write", "ack", "reconnect", "connect", "sleep"}
  /\ returnTo \in {"idle", "sleep"}
  /\ cmd \in Nat /\ attempts \in Nat /\ outcome \in Outcomes
  /\ devUp \in BOOLEAN /\ devConn \in BOOLEAN /\ conn \in Nat
  /\ toDevice \in Seq(Nat) /\ owed \in Nat /\ arrived \in Nat
  /\ log \in Seq([cmd : Nat, conn : Nat]) /\ faults \in Nat

(***************************************************************************)
(* After updateState and revertState have been called along any path, the  *)
(* state is the one the operation in progress calls for: waitAck is left   *)
(* in the state it was entered in, and a thread outside connect and        *)
(* waitAck never sees CONNECTING, WAIT_ACK or CLOSING.  CONNECTED is only  *)
(* shown over a socket that was connected.                                 *)
(***************************************************************************)
StateFollowsOperation ==
  /\ state = "WAIT_ACK" <=> pc = "ack"
  /\ state = "CONNECTING" <=> pc = "connect"
  /\ state # "CLOSING"
  /\ pc = "ack" => previousState = "CONNECTED"
  /\ state = "CONNECTED" =>
       sock \in {"established", "finished", "reset", "timedout", "dead"}

(***************************************************************************)
(* The retry loop of sendCommand never hands the camera the same command   *)
(* twice over one connection: a command is written again only after the    *)
(* connection that may have carried it is gone.                            *)
(***************************************************************************)
AtMostOncePerConnection ==
  \A i, j \in DOMAIN log : i # j => log[i] # log[j]

(***************************************************************************)
(* The whole protocol is the one of CommandRpc, if an acknowledgement      *)
(* arrives in one piece: no command is executed outside its call, an       *)
(* acknowledged one has been executed, a refused one has not.              *)
(***************************************************************************)
InCall == pc \in {"write", "ack", "reconnect", "sleep"}
          \/ (pc = "connect" /\ returnTo = "sleep")

Rpc == INSTANCE CommandRpc WITH
         call <- IF InCall THEN cmd ELSE 0,
         last <- cmd,
         log <- [i \in DOMAIN log |-> log[i].cmd]

RpcSpec == Rpc!Spec

(***************************************************************************)
(* A call of sendCommand ends, by an acknowledgement, an exception or      *)
(* after COMMAND_MAX_ATTEMPTS attempts.                                    *)
(***************************************************************************)
CallReturns == (pc # "idle") ~> (pc = "idle")

(***************************************************************************)
(* The same for cameras that may lose power: a call ends, unless the       *)
(* camera went away with the answer while waitAck was reading.             *)
(***************************************************************************)
AckIsLost == pc = "ack" /\ arrived = 0 /\ sock = "established" /\ ~devConn

CallReturnsOrAckIsLost == (pc # "idle") ~> (pc = "idle" \/ AckIsLost)

(***************************************************************************)
(* The loop runs down, whatever the camera and the network do: every step  *)
(* of the calling thread brings its end nearer, five steps to an attempt   *)
(* (write, waitAck, isConnected, connect and the sleep), and only a new    *)
(* call takes it back.  So nothing but a read_some that waits for ever     *)
(* keeps a call from returning.                                            *)
(***************************************************************************)
StepOf == [write |-> 0, ack |-> 1, ctor |-> 2, reconnect |-> 2, connect |-> 3, sleep |-> 4]

StepsLeft == IF pc = "idle" THEN 0 ELSE 5 * (MaxAttempts - attempts) - StepOf[pc]

CallRunsDown ==
  [][/\ Driver => StepsLeft' \in 0..StepsLeft - 1
     /\ Network \/ Env => StepsLeft' = StepsLeft]_vars

(***************************************************************************)
(* The connection is only replaced inside the call that finds it reset: a  *)
(* call that was refused because there is no connection, whether it was    *)
(* skipped or ended by the exception of an object that never was open, is  *)
(* followed by refused calls only, for the rest of the object's life.      *)
(***************************************************************************)
Refused == {"skipped", "threwBadDescriptor"}

RefusedForGood == [][(outcome \in Refused) => outcome' \in {outcome, "skipped"}]_vars

(***************************************************************************)
(* A connection that the camera closed while a command waits for its       *)
(* answer is replaced, as the comment on the handler of sendCommand says.  *)
(***************************************************************************)
LostConnectionReconnects ==
  [][pc = "ack" /\ sock = "finished" /\ pc' # "ack" /\ arrived = 0
       => pc' = "reconnect"]_vars
===============================================================================
