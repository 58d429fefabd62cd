-------------------------- MODULE TcpConnectionProofs --------------------------
(***************************************************************************)
(* For every number of attempts, calls, faults and acknowledgement pieces: *)
(* the state of a TcpConnection follows the operation in progress, and no  *)
(* connection carries a command twice.  For acknowledgements of one piece: *)
(* TcpConnection implements CommandRpc.                                    *)
(***************************************************************************)
EXTENDS TcpConnection, TLAPS

(***************************************************************************)
(* Where the thread is determines the socket and the state.                *)
(***************************************************************************)
Connected == {"established", "finished", "reset", "timedout", "dead"}

StateInv ==
  /\ state \in {"CONNECTED", "DISCONNECTED", "CONNECTING", "WAIT_ACK"}
  /\ state = "WAIT_ACK" <=> pc = "ack"
  /\ state = "CONNECTING" <=> pc = "connect"
  /\ state = "CONNECTED" => sock \in Connected
  /\ pc = "ctor" => sock = "null"
  /\ pc = "connect" => sock = "closed"
  /\ pc = "reconnect" => sock = "dead"
  /\ pc \in {"write", "sleep", "reconnect"} /\ sock \in Connected => state = "CONNECTED"
  /\ pc = "ack" => sock \in Connected /\ previousState = "CONNECTED"

\* The camera's end of the connection is gone once the host has seen an error.
LineInv ==
  /\ devConn => sock \in {"established", "null"} /\ pc # "ctor"
  /\ owed > 0 => devConn
  /\ pc = "connect" => toDevice = <<>>

\* The commands of the current connection are written once each.
OnceInv ==
  /\ \A i \in DOMAIN log : log[i].cmd <= cmd /\ log[i].conn <= conn
  /\ \A i, j \in DOMAIN log : i # j => log[i] # log[j]
  /\ devConn =>
       /\ \A k \in DOMAIN toDevice :
            /\ toDevice[k] <= cmd
            /\ \A i \in DOMAIN log : log[i] # [cmd |-> toDevice[k], conn |-> conn]
       /\ \A k, l \in DOMAIN toDevice : k # l => toDevice[k] # toDevice[l]
  /\ devConn /\ pc \in {"write", "sleep"} =>
       /\ \A k \in DOMAIN toDevice : toDevice[k] # cmd
       /\ \A i \in DOMAIN log : log[i] # [cmd |-> cmd, conn |-> conn]

IInv == TypeOK /\ StateInv /\ LineInv /\ OnceInv

THEOREM IInvImplies ==
  IInv => StateFollowsOperation /\ AtMostOncePerConnection
  BY DEF IInv, TypeOK, StateInv, OnceInv, StateFollowsOperation,
         AtMostOncePerConnection, Connected, States

\* TypeOK by kind of variable.
DriverType ==
  /\ state \in States /\ previousState \in States
  /\ sock \in Socks
  /\ pc \in {"ctor", "idle", "write", "ack", "reconnect", "connect", "sleep"}
  /\ returnTo \in {"idle", "sleep"}
  /\ outcome \in Outcomes /\ devUp \in BOOLEAN /\ devConn \in BOOLEAN

CounterType ==
  /\ cmd \in Nat /\ attempts \in Nat /\ conn \in Nat
  /\ owed \in Nat /\ arrived \in Nat /\ faults \in Nat

QueueType == toDevice \in Seq(Nat) /\ log \in Seq([cmd : Nat, conn : Nat])

LEMMA TypeParts == TypeOK <=> DriverType /\ CounterType /\ QueueType
  BY DEF TypeOK, DriverType, CounterType, QueueType

\* Every action keeps the types of the driver's variables.
LEMMA DriverTypeStep == DriverType /\ [Next]_vars => DriverType'
<1> SUFFICES ASSUME DriverType, [Next]_vars PROVE DriverType'
  OBVIOUS
<1> USE DEF DriverType, States, Socks, Outcomes, driver, line
<1>1. CASE SendCommand
  BY <1>1 DEF SendCommand
<1>2. CASE Close
  BY <1>2 DEF Close
<1>3. CASE WriteOk
  BY <1>3 DEF WriteOk, updateState
<1>4. CASE WriteReset
  BY <1>4 DEF WriteReset
<1>5. CASE WriteOther
  BY <1>5 DEF WriteOther
<1>6. CASE Sleep
  BY <1>6 DEF Sleep
<1>7. CASE ReadData
  BY <1>7 DEF ReadData, revertState
<1>8. CASE ReadEof
  BY <1>8 DEF ReadEof, updateState
<1>9. CASE ReadReset
  BY <1>9 DEF ReadReset, ReadError, revertState
<1>10. CASE ReadTimedOut
  BY <1>10 DEF ReadTimedOut, ReadError, revertState
<1>11. CASE ConnectBegin
  BY <1>11 DEF ConnectBegin, updateState
<1>12. CASE ResolveFails
  BY <1>12 DEF ResolveFails, updateState
<1>13. CASE ConnectFails
  BY <1>13 DEF ConnectFails, updateState
<1>14. CASE ConnectOk
  BY <1>14 DEF ConnectOk, updateState
<1>15. CASE DeviceServe
  BY <1>15 DEF DeviceServe
<1>16. CASE DeviceAck
  BY <1>16 DEF DeviceAck
<1>17. CASE PeerRejects
  BY <1>17 DEF PeerRejects, Undeliverable
<1>18. CASE PeerUnreachable
  BY <1>18 DEF PeerUnreachable, Undeliverable
<1>19. CASE DeviceClose
  BY <1>19 DEF DeviceClose, Fault
<1>20. CASE DeviceReset
  BY <1>20 DEF DeviceReset, Fault
<1>21. CASE DeviceCrash
  <2>1. UNCHANGED <<state, previousState, sock, pc, returnTo, outcome>>
    BY <1>21 DEF DeviceCrash
  <2>2. devUp' \in BOOLEAN /\ devConn' \in BOOLEAN
    BY <1>21 DEF DeviceCrash, Fault
  <2> QED
    BY <2>1, <2>2
<1>22. CASE DeviceBoot
  BY <1>22 DEF DeviceBoot
<1>23. CASE UNCHANGED vars
  BY <1>23 DEF vars
<1> QED
  BY <1>1, <1>2, <1>3, <1>4, <1>5, <1>6, <1>7, <1>8, <1>9, <1>10, <1>11, <1>12, <1>13, <1>14, <1>15, <1>16, <1>17, <1>18, <1>19, <1>20, <1>21, <1>22, <1>23
  DEF Next, Driver, Calls, Network, Env

\* Every counter stays a natural number.
LEMMA CounterTypeStep == CounterType /\ [Next]_vars => CounterType'
<1> SUFFICES ASSUME CounterType, [Next]_vars PROVE CounterType'
  OBVIOUS
<1> USE AckPiecesIsPositive DEF CounterType, driver, line
<1>1. CASE SendCommand
  BY <1>1 DEF SendCommand
<1>2. CASE Close
  BY <1>2 DEF Close
<1>3. CASE WriteOk
  BY <1>3 DEF WriteOk, updateState
<1>4. CASE WriteReset
  BY <1>4 DEF WriteReset
<1>5. CASE WriteOther
  BY <1>5 DEF WriteOther
<1>6. CASE Sleep
  BY <1>6 DEF Sleep
<1>7. CASE ReadData
  BY <1>7 DEF ReadData, revertState
<1>8. CASE ReadEof
  BY <1>8 DEF ReadEof, updateState
<1>9. CASE ReadReset
  BY <1>9 DEF ReadReset, ReadError, revertState
<1>10. CASE ReadTimedOut
  BY <1>10 DEF ReadTimedOut, ReadError, revertState
<1>11. CASE ConnectBegin
  BY <1>11 DEF ConnectBegin, updateState
<1>12. CASE ResolveFails
  BY <1>12 DEF ResolveFails, updateState
<1>13. CASE ConnectFails
  BY <1>13 DEF ConnectFails, updateState
<1>14. CASE ConnectOk
  BY <1>14 DEF ConnectOk, updateState
<1>15. CASE DeviceServe
  BY <1>15 DEF DeviceServe
<1>16. CASE DeviceAck
  BY <1>16 DEF DeviceAck
<1>17. CASE PeerRejects
  BY <1>17 DEF PeerRejects, Undeliverable
<1>18. CASE PeerUnreachable
  BY <1>18 DEF PeerUnreachable, Undeliverable
<1>19. CASE DeviceClose
  BY <1>19 DEF DeviceClose, Fault
<1>20. CASE DeviceReset
  BY <1>20 DEF DeviceReset, Fault
<1>21. CASE DeviceCrash
  BY <1>21 DEF DeviceCrash, Fault
<1>22. CASE DeviceBoot
  BY <1>22 DEF DeviceBoot
<1>23. CASE UNCHANGED vars
  BY <1>23 DEF vars
<1> QED
  BY <1>1, <1>2, <1>3, <1>4, <1>5, <1>6, <1>7, <1>8, <1>9, <1>10, <1>11, <1>12, <1>13, <1>14, <1>15, <1>16, <1>17, <1>18, <1>19, <1>20, <1>21, <1>22, <1>23
  DEF Next, Driver, Calls, Network, Env

\* The queue and the log stay sequences.
LEMMA QueueTypeStep == CounterType /\ QueueType /\ [Next]_vars => QueueType'
<1> SUFFICES ASSUME CounterType, QueueType, [Next]_vars PROVE QueueType'
  OBVIOUS
<1> USE DEF CounterType, QueueType, driver, line
<1>1. CASE SendCommand
  BY <1>1 DEF SendCommand
<1>2. CASE Close
  <2>1. log' = log /\ (toDevice' = toDevice \/ toDevice' = <<>>)
    BY <1>2 DEF Close
  <2>2. CASE toDevice' = toDevice
    BY <2>1, <2>2
  <2>3. CASE toDevice' = <<>>
    BY <2>1, <2>3
  <2> QED
    BY <2>1, <2>2, <2>3
<1>3. CASE WriteOk
  BY <1>3 DEF WriteOk, updateState
<1>4. CASE WriteReset
  BY <1>4 DEF WriteReset
<1>5. CASE WriteOther
  BY <1>5 DEF WriteOther
<1>6. CASE Sleep
  BY <1>6 DEF Sleep
<1>7. CASE ReadData
  BY <1>7 DEF ReadData, revertState
<1>8. CASE ReadEof
  BY <1>8 DEF ReadEof, updateState
<1>9. CASE ReadReset
  BY <1>9 DEF ReadReset, ReadError, revertState
<1>10. CASE ReadTimedOut
  BY <1>10 DEF ReadTimedOut, ReadError, revertState
<1>11. CASE ConnectBegin
  BY <1>11 DEF ConnectBegin, updateState
<1>12. CASE ResolveFails
  BY <1>12 DEF ResolveFails, updateState
<1>13. CASE ConnectFails
  BY <1>13 DEF ConnectFails, updateState
<1>14. CASE ConnectOk
  BY <1>14 DEF ConnectOk, updateState
<1>15. CASE DeviceServe
  <2>1. Head(toDevice) \in Nat /\ Tail(toDevice) \in Seq(Nat)
    BY <1>15 DEF DeviceServe
  <2>2. [cmd |-> Head(toDevice), conn |-> conn] \in [cmd : Nat, conn : Nat]
    BY <2>1
  <2> DEFINE Entry == [cmd : Nat, conn : Nat]
             entry == [cmd |-> Head(toDevice), conn |-> conn]
  <2>3. log \in Seq(Entry) /\ entry \in Entry /\ log' = Append(log, entry)
    BY <1>15, <2>2 DEF DeviceServe
  <2>4. toDevice' = Tail(toDevice)
    BY <1>15 DEF DeviceServe
  <2>5. log' \in Seq(Entry)
    <3> HIDE DEF Entry, entry
    <3> QED
      BY <2>3
  <2> QED
    BY <2>1, <2>4, <2>5
<1>16. CASE DeviceAck
  BY <1>16 DEF DeviceAck
<1>17. CASE PeerRejects
  BY <1>17 DEF PeerRejects, Undeliverable
<1>18. CASE PeerUnreachable
  BY <1>18 DEF PeerUnreachable, Undeliverable
<1>19. CASE DeviceClose
  BY <1>19 DEF DeviceClose, Fault
<1>20. CASE DeviceReset
  BY <1>20 DEF DeviceReset, Fault
<1>21. CASE DeviceCrash
  <2>1. log' = log /\ (toDevice' = toDevice \/ toDevice' = <<>>)
    BY <1>21 DEF DeviceCrash
  <2>2. CASE toDevice' = toDevice
    BY <2>1, <2>2
  <2>3. CASE toDevice' = <<>>
    BY <2>1, <2>3
  <2> QED
    BY <2>1, <2>2, <2>3
<1>22. CASE DeviceBoot
  BY <1>22 DEF DeviceBoot
<1>23. CASE UNCHANGED vars
  BY <1>23 DEF vars
<1> QED
  BY <1>1, <1>2, <1>3, <1>4, <1>5, <1>6, <1>7, <1>8, <1>9, <1>10, <1>11, <1>12, <1>13, <1>14, <1>15, <1>16, <1>17, <1>18, <1>19, <1>20, <1>21, <1>22, <1>23
  DEF Next, Driver, Calls, Network, Env

\* Every action keeps the types.
LEMMA TypeStep == TypeOK /\ [Next]_vars => TypeOK'
<1>1. TypeOK' <=> DriverType' /\ CounterType' /\ QueueType'
  BY DEF TypeOK, DriverType, CounterType, QueueType
<1> QED
  BY <1>1, TypeParts, DriverTypeStep, CounterTypeStep, QueueTypeStep

\* Every action keeps the state in step with the operation.
LEMMA StateStep == TypeOK /\ StateInv /\ [Next]_vars => StateInv'
<1> SUFFICES ASSUME TypeOK /\ StateInv, [Next]_vars PROVE StateInv'
  OBVIOUS
<1> USE DEF TypeOK, StateInv, Connected, States, Socks, IsConnected, driver, line
<1>1. CASE SendCommand
  BY <1>1 DEF SendCommand
<1>2. CASE Close
  BY <1>2 DEF Close
<1>3. CASE WriteOk
  BY <1>3 DEF WriteOk, updateState
<1>4. CASE WriteReset
  BY <1>4 DEF WriteReset
<1>5. CASE WriteOther
  BY <1>5 DEF WriteOther
<1>6. CASE Sleep
  BY <1>6 DEF Sleep
<1>7. CASE ReadData
  BY <1>7 DEF ReadData, revertState
<1>8. CASE ReadEof
  BY <1>8 DEF ReadEof, updateState
<1>9. CASE ReadReset
  BY <1>9 DEF ReadReset, ReadError, revertState
<1>10. CASE ReadTimedOut
  BY <1>10 DEF ReadTimedOut, ReadError, revertState
<1>11. CASE ConnectBegin
  BY <1>11 DEF ConnectBegin, updateState
<1>12. CASE ResolveFails
  BY <1>12 DEF ResolveFails, updateState
<1>13. CASE ConnectFails
  BY <1>13 DEF ConnectFails, updateState
<1>14. CASE ConnectOk
  BY <1>14 DEF ConnectOk, updateState
<1>15. CASE DeviceServe
  BY <1>15 DEF DeviceServe
<1>16. CASE DeviceAck
  BY <1>16 DEF DeviceAck
<1>17. CASE PeerRejects
  BY <1>17 DEF PeerRejects, Undeliverable
<1>18. CASE PeerUnreachable
  BY <1>18 DEF PeerUnreachable, Undeliverable
<1>19. CASE DeviceClose
  BY <1>19 DEF DeviceClose, Fault
<1>20. CASE DeviceReset
  BY <1>20 DEF DeviceReset, Fault
<1>21. CASE DeviceCrash
  BY <1>21 DEF DeviceCrash, Fault
<1>22. CASE DeviceBoot
  BY <1>22 DEF DeviceBoot
<1>23. CASE UNCHANGED vars
  BY <1>23 DEF vars
<1> QED
  BY <1>1, <1>2, <1>3, <1>4, <1>5, <1>6, <1>7, <1>8, <1>9, <1>10, <1>11, <1>12, <1>13, <1>14, <1>15, <1>16, <1>17, <1>18, <1>19, <1>20, <1>21, <1>22, <1>23
  DEF Next, Driver, Calls, Network, Env

\* Every action keeps what the host knows of the camera's end.
LEMMA LineStep == TypeOK /\ StateInv /\ LineInv /\ [Next]_vars => LineInv'
<1> SUFFICES ASSUME TypeOK /\ StateInv /\ LineInv, [Next]_vars PROVE LineInv'
  OBVIOUS
<1> USE DEF TypeOK, StateInv, LineInv, Connected, driver, line
<1>1. CASE SendCommand
  BY <1>1 DEF SendCommand
<1>2. CASE Close
  BY <1>2 DEF Close
<1>3. CASE WriteOk
  BY <1>3 DEF WriteOk, updateState
<1>4. CASE WriteReset
  BY <1>4 DEF WriteReset
<1>5. CASE WriteOther
  BY <1>5 DEF WriteOther
<1>6. CASE Sleep
  BY <1>6 DEF Sleep
<1>7. CASE ReadData
  BY <1>7 DEF ReadData, revertState
<1>8. CASE ReadEof
  BY <1>8 DEF ReadEof, updateState
<1>9. CASE ReadReset
  BY <1>9 DEF ReadReset, ReadError, revertState
<1>10. CASE ReadTimedOut
  BY <1>10 DEF ReadTimedOut, ReadError, revertState
<1>11. CASE ConnectBegin
  BY <1>11 DEF ConnectBegin, updateState
<1>12. CASE ResolveFails
  BY <1>12 DEF ResolveFails, updateState
<1>13. CASE ConnectFails
  BY <1>13 DEF ConnectFails, updateState
<1>14. CASE ConnectOk
  BY <1>14 DEF ConnectOk, updateState
<1>15. CASE DeviceServe
  BY <1>15 DEF DeviceServe
<1>16. CASE DeviceAck
  BY <1>16 DEF DeviceAck
<1>17. CASE PeerRejects
  BY <1>17 DEF PeerRejects, Undeliverable
<1>18. CASE PeerUnreachable
  BY <1>18 DEF PeerUnreachable, Undeliverable
<1>19. CASE DeviceClose
  BY <1>19 DEF DeviceClose, Fault
<1>20. CASE DeviceReset
  BY <1>20 DEF DeviceReset, Fault
<1>21. CASE DeviceCrash
  BY <1>21 DEF DeviceCrash, Fault
<1>22. CASE DeviceBoot
  BY <1>22 DEF DeviceBoot
<1>23. CASE UNCHANGED vars
  BY <1>23 DEF vars
<1> QED
  BY <1>1, <1>2, <1>3, <1>4, <1>5, <1>6, <1>7, <1>8, <1>9, <1>10, <1>11, <1>12, <1>13, <1>14, <1>15, <1>16, <1>17, <1>18, <1>19, <1>20, <1>21, <1>22, <1>23
  DEF Next, Driver, Calls, Network, Env

LEMMA SeqEntry == ASSUME NEW S, NEW s \in Seq(S), NEW i \in DOMAIN s PROVE s[i] \in S
  OBVIOUS

LEMMA LogEntry ==
  ASSUME log \in Seq([cmd : Nat, conn : Nat]), NEW i \in DOMAIN log
  PROVE  log[i].cmd \in Nat /\ log[i].conn \in Nat
<1>1. log[i] \in [cmd : Nat, conn : Nat]
  BY SeqEntry
<1> QED
  BY <1>1

\* Serving a command moves it from the connection to the log.
LEMMA ServeOnce ==
  TypeOK /\ OnceInv /\ DeviceServe => OnceInv'
<1> SUFFICES ASSUME TypeOK, OnceInv, DeviceServe PROVE OnceInv'
  OBVIOUS
<1> DEFINE served == [cmd |-> toDevice[1], conn |-> conn]
<1>1. /\ toDevice \in Seq(Nat) /\ log \in Seq([cmd : Nat, conn : Nat])
      /\ cmd \in Nat /\ conn \in Nat
  BY DEF TypeOK
<1>2. /\ devConn /\ devConn' /\ UNCHANGED <<cmd, conn, pc>>
      /\ toDevice # <<>> /\ toDevice' = Tail(toDevice)
      /\ log' = Append(log, [cmd |-> Head(toDevice), conn |-> conn])
  BY DEF DeviceServe, driver
<1>3. /\ 1 \in DOMAIN toDevice /\ toDevice[1] \in Nat
      /\ \A k \in DOMAIN toDevice' :
           /\ k \in Nat \ {0} /\ k + 1 \in DOMAIN toDevice
           /\ toDevice'[k] = toDevice[k + 1]
  BY <1>1, <1>2
<1>4. \A i \in DOMAIN log' :
        \/ i \in DOMAIN log /\ log'[i] = log[i]
        \/ i = Len(log) + 1 /\ log'[i] = served
  BY <1>1, <1>2
<1>5. /\ \A k \in DOMAIN toDevice : toDevice[k] <= cmd
      /\ \A k \in DOMAIN toDevice : \A i \in DOMAIN log :
           log[i] # [cmd |-> toDevice[k], conn |-> conn]
      /\ \A k, l \in DOMAIN toDevice : k # l => toDevice[k] # toDevice[l]
  BY <1>2 DEF OnceInv
<1>6. \A i \in DOMAIN log' : log'[i].cmd <= cmd /\ log'[i].conn <= conn
  <2>1. served.cmd <= cmd /\ served.conn <= conn
    BY <1>1, <1>3, <1>5
  <2>2. \A i \in DOMAIN log : log[i].cmd <= cmd /\ log[i].conn <= conn
    BY DEF OnceInv
  <2> HIDE DEF served
  <2> QED
    BY <1>4, <2>1, <2>2
<1>7. \A i \in DOMAIN log : log[i] # served
  BY <1>3, <1>5
<1>8. \A i, j \in DOMAIN log' : i # j => log'[i] # log'[j]
  <2>1. \A i, j \in DOMAIN log : i # j => log[i] # log[j]
    BY DEF OnceInv
  <2> HIDE DEF served
  <2> QED
    BY <1>4, <1>7, <2>1
<1>9. ASSUME NEW k \in DOMAIN toDevice'
      PROVE  /\ toDevice'[k] <= cmd
             /\ \A i \in DOMAIN log' : log'[i] # [cmd |-> toDevice'[k], conn |-> conn]
  <2>1. served # [cmd |-> toDevice'[k], conn |-> conn]
    BY <1>3, <1>5
  <2>2. \A i \in DOMAIN log : log[i] # [cmd |-> toDevice'[k], conn |-> conn]
    BY <1>3, <1>5
  <2> HIDE DEF served
  <2> QED
    BY <1>3, <1>4, <1>5, <2>1, <2>2
<1>10. \A k, l \in DOMAIN toDevice' : k # l => toDevice'[k] # toDevice'[l]
  <2> TAKE k, l \in DOMAIN toDevice'
  <2>1. k # l => k + 1 # l + 1
    BY <1>3
  <2> QED
    BY <1>3, <1>5, <2>1
<1>11. ASSUME pc \in {"write", "sleep"}
       PROVE  /\ \A k \in DOMAIN toDevice' : toDevice'[k] # cmd
              /\ \A i \in DOMAIN log' : log'[i] # [cmd |-> cmd, conn |-> conn]
  <2>1. /\ \A k \in DOMAIN toDevice : toDevice[k] # cmd
        /\ \A i \in DOMAIN log : log[i] # [cmd |-> cmd, conn |-> conn]
    BY <1>2, <1>11 DEF OnceInv
  <2>2. served # [cmd |-> cmd, conn |-> conn]
    BY <1>3, <2>1
  <2> HIDE DEF served
  <2> QED
    BY <1>3, <1>4, <2>1, <2>2
<1> QED
  BY <1>2, <1>6, <1>8, <1>9, <1>10, <1>11 DEF OnceInv

\* What an action that writes, serves and connects nothing does to OnceInv.
LEMMA OnceKept ==
  ASSUME OnceInv, UNCHANGED <<cmd, conn, log>>,
         devConn' => devConn /\ (toDevice' = toDevice \/ toDevice' = <<>>),
         devConn' /\ pc' \in {"write", "sleep"} => pc \in {"write", "sleep"}
  PROVE  OnceInv'
<1>1. CASE devConn'
  <2>1. CASE toDevice' = toDevice
    BY <1>1, <2>1 DEF OnceInv
  <2>2. CASE toDevice' = <<>>
    BY <1>1, <2>2 DEF OnceInv
  <2> QED
    BY <1>1, <2>1, <2>2
<1>2. CASE ~devConn'
  BY <1>2 DEF OnceInv
<1> QED
  BY <1>1, <1>2

\* Every action keeps the commands of a connection apart.
LEMMA OnceStep ==
  TypeOK /\ StateInv /\ LineInv /\ OnceInv /\ [Next]_vars => OnceInv'
<1> SUFFICES ASSUME TypeOK, StateInv, LineInv, OnceInv, [Next]_vars PROVE OnceInv'
  OBVIOUS
<1>1. CASE SendCommand
  <2>1. /\ UNCHANGED <<toDevice, devConn, conn, log>> /\ cmd' = cmd + 1 /\ cmd \in Nat
        /\ toDevice \in Seq(Nat) /\ log \in Seq([cmd : Nat, conn : Nat])
    BY <1>1 DEF SendCommand, line, TypeOK
  <2>2. \A i \in DOMAIN log : log[i].cmd \in Nat /\ log[i].cmd <= cmd /\ log[i].conn <= conn
    BY <2>1, LogEntry DEF OnceInv
  <2>3. devConn => \A k \in DOMAIN toDevice : toDevice[k] \in Nat /\ toDevice[k] <= cmd
    BY <2>1 DEF OnceInv
  <2>4. \A i \in DOMAIN log : log[i] # [cmd |-> cmd + 1, conn |-> conn]
    BY <2>1, <2>2
  <2>5. devConn => \A k \in DOMAIN toDevice : toDevice[k] # cmd + 1 /\ toDevice[k] <= cmd + 1
    BY <2>1, <2>3
  <2>6. \A i \in DOMAIN log : log[i].cmd <= cmd + 1 /\ log[i].conn <= conn
    BY <2>1, <2>2
  <2> QED
    BY <2>1, <2>4, <2>5, <2>6 DEF OnceInv
<1>2. CASE WriteOk
  <2>1. /\ UNCHANGED <<devConn, conn, log, cmd>> /\ pc = "write" /\ pc' = "ack"
        /\ toDevice \in Seq(Nat) /\ cmd \in Nat /\ toDevice' = Append(toDevice, cmd)
    BY <1>2 DEF WriteOk, TypeOK
  <2>2. \A k \in DOMAIN toDevice' :
          \/ k \in DOMAIN toDevice /\ toDevice'[k] = toDevice[k]
          \/ k = Len(toDevice) + 1 /\ toDevice'[k] = cmd
    BY <2>1
  <2> QED
    BY <2>1, <2>2 DEF OnceInv
<1>3. CASE ConnectOk
  <2>1. /\ UNCHANGED <<cmd, log, toDevice>> /\ conn' = conn + 1 /\ conn \in Nat
        /\ cmd \in Nat /\ log \in Seq([cmd : Nat, conn : Nat]) /\ toDevice = <<>>
    BY <1>3 DEF ConnectOk, TypeOK, LineInv
  <2>2. \A i \in DOMAIN log : log[i].conn \in Nat /\ log[i].cmd <= cmd /\ log[i].conn <= conn
    BY <2>1, LogEntry DEF OnceInv
  <2>3. \A i \in DOMAIN log : log[i].conn <= conn + 1 /\ log[i].conn # conn + 1
    BY <2>1, <2>2
  <2>4. \A i \in DOMAIN log : log[i] # [cmd |-> cmd, conn |-> conn + 1]
    BY <2>3
  <2> QED
    BY <2>1, <2>2, <2>3, <2>4 DEF OnceInv
<1>4. CASE DeviceServe
  BY <1>4, ServeOnce
<1>5. CASE Close
  BY <1>5, OnceKept DEF Close, LineInv, StateInv, line, driver
<1>6. CASE WriteReset
  BY <1>6, OnceKept DEF WriteReset, LineInv, StateInv, line, driver
<1>7. CASE WriteOther
  BY <1>7, OnceKept DEF WriteOther, LineInv, StateInv, line, driver
<1>8. CASE Sleep
  BY <1>8, OnceKept DEF Sleep, LineInv, StateInv, line, driver
<1>9. CASE ReadData
  BY <1>9, OnceKept DEF ReadData, LineInv, StateInv, line, driver
<1>10. CASE ReadEof
  BY <1>10, OnceKept DEF ReadEof, LineInv, StateInv, line, driver
<1>11. CASE ReadReset
  BY <1>11, OnceKept DEF ReadReset, ReadError, LineInv, StateInv, line, driver
<1>12. CASE ReadTimedOut
  BY <1>12, OnceKept DEF ReadTimedOut, ReadError, LineInv, StateInv, line, driver
<1>13. CASE ConnectBegin
  BY <1>13, OnceKept DEF ConnectBegin, LineInv, StateInv, line, driver
<1>14. CASE ResolveFails
  BY <1>14, OnceKept DEF ResolveFails, LineInv, StateInv, line, driver
<1>15. CASE ConnectFails
  BY <1>15, OnceKept DEF ConnectFails, LineInv, StateInv, line, driver
<1>16. CASE DeviceAck
  BY <1>16, OnceKept DEF DeviceAck, LineInv, StateInv, line, driver
<1>17. CASE PeerRejects
  BY <1>17, OnceKept DEF PeerRejects, Undeliverable, LineInv, StateInv, line, driver
<1>18. CASE PeerUnreachable
  BY <1>18, OnceKept DEF PeerUnreachable, Undeliverable, LineInv, StateInv, line, driver
<1>19. CASE DeviceClose
  BY <1>19, OnceKept DEF DeviceClose, Fault, LineInv, StateInv, line, driver
<1>20. CASE DeviceReset
  BY <1>20, OnceKept DEF DeviceReset, Fault, LineInv, StateInv, line, driver
<1>21. CASE DeviceCrash
  BY <1>21, OnceKept DEF DeviceCrash, Fault, LineInv, StateInv, line, driver
<1>22. CASE DeviceBoot
  BY <1>22, OnceKept DEF DeviceBoot, LineInv, StateInv, line, driver
<1>23. CASE UNCHANGED vars
  BY <1>23, OnceKept DEF vars, driver, line
<1> QED
  BY <1>1, <1>2, <1>3, <1>4, <1>5, <1>6, <1>7, <1>8, <1>9, <1>10, <1>11, <1>12, <1>13, <1>14, <1>15, <1>16, <1>17, <1>18, <1>19, <1>20, <1>21, <1>22, <1>23
  DEF Next, Driver, Calls, Network, Env

\* The inductive invariant, for every value of the constants.
THEOREM Invariance == Spec => []IInv
<1>1. Init => IInv
  <2> SUFFICES ASSUME Init PROVE IInv
    OBVIOUS
  <2>1. TypeOK
    <3>1. devUp \in BOOLEAN
      BY DEF Init
    <3>2. toDevice \in Seq(Nat) /\ log \in Seq([cmd : Nat, conn : Nat])
      BY DEF Init
    <3> QED
      BY <3>1, <3>2 DEF Init, TypeOK, States, Socks, Outcomes
  <2>2. StateInv /\ LineInv
    BY DEF Init, StateInv, LineInv
  <2>3. OnceInv
    BY DEF Init, OnceInv
  <2> QED
    BY <2>1, <2>2, <2>3 DEF IInv
<1>2. IInv /\ [Next]_vars => IInv'
  BY TypeStep, StateStep, LineStep, OnceStep DEF IInv
<1> QED
  BY <1>1, <1>2, PTL DEF Spec

\* The state follows the operation and no connection carries a command twice,
\* whatever the camera and the network do.
THEOREM Safety == Spec => [](TypeOK /\ StateFollowsOperation /\ AtMostOncePerConnection)
<1>1. IInv => TypeOK /\ StateFollowsOperation /\ AtMostOncePerConnection
  BY IInvImplies DEF IInv
<1> QED
  BY <1>1, Invariance, PTL

\* The types of the channel, the line and the camera.
THEOREM TypeCorrect == Spec => []TypeOK
BY Safety, PTL

\* The state of the connection is the one its operation is in, through every
\* nesting of updateState and revertState.
THEOREM StateIsOperation == Spec => []StateFollowsOperation
BY Safety, PTL

(***************************************************************************)
(* With acknowledgements of one piece, the camera's answer and the command *)
(* it belongs to are never both under way, and neither outlives the call.  *)
(***************************************************************************)
AckInv ==
  /\ InCall => cmd > 0
  /\ devConn /\ toDevice # <<>> =>
       pc = "ack" /\ toDevice = <<cmd>> /\ owed = 0 /\ arrived = 0
  /\ owed + arrived <= 1
  /\ owed + arrived > 0 => pc = "ack" /\ \E i \in DOMAIN log : log[i].cmd = cmd

\* Every action keeps answers and commands together.
LEMMA AckStep ==
  ASSUME AckPieces = 1, IInv, AckInv, [Next]_vars PROVE AckInv'
<1> USE AckPieces = 1
<1>0. TypeOK /\ StateInv /\ LineInv
  BY DEF IInv
<1>a. /\ cmd \in Nat /\ owed \in Nat /\ arrived \in Nat
      /\ LineInv /\ StateInv /\ returnTo \in {"idle", "sleep"}
  BY <1>0 DEF TypeOK
<1>b. TypeOK
  BY <1>0
<1>1. CASE SendCommand
  BY <1>a, <1>1 DEF SendCommand, AckInv, LineInv, StateInv, Connected, InCall, driver, line
<1>2. CASE Close
  BY <1>a, <1>2 DEF Close, AckInv, LineInv, StateInv, Connected, InCall, driver, line
<1>3. CASE WriteOk
  <2>1. /\ pc = "write" /\ pc' = "ack" /\ toDevice' = Append(toDevice, cmd)
        /\ UNCHANGED <<cmd, devConn, owed, arrived>>
    BY <1>3 DEF WriteOk
  <2>2. owed + arrived = 0 /\ owed \in Nat /\ arrived \in Nat /\ cmd > 0
    BY <1>b, <2>1 DEF AckInv, TypeOK, InCall
  <2>3. devConn => toDevice = <<>>
    BY <2>1 DEF AckInv
  <2>4. devConn => toDevice' = <<cmd>>
    BY <2>1, <2>3
  <2> QED
    BY <2>1, <2>2, <2>4 DEF AckInv, InCall
<1>4. CASE WriteReset
  BY <1>a, <1>4 DEF WriteReset, AckInv, LineInv, StateInv, Connected, InCall, driver, line
<1>5. CASE WriteOther
  BY <1>a, <1>5 DEF WriteOther, AckInv, LineInv, StateInv, Connected, InCall, driver, line
<1>6. CASE Sleep
  BY <1>a, <1>6 DEF Sleep, AckInv, LineInv, StateInv, Connected, InCall, driver, line
<1>7. CASE ReadData
  BY <1>a, <1>7 DEF ReadData, AckInv, LineInv, StateInv, Connected, InCall, driver, line
<1>8. CASE ReadEof
  BY <1>a, <1>8 DEF ReadEof, AckInv, LineInv, StateInv, Connected, InCall, driver, line
<1>9. CASE ReadReset
  BY <1>a, <1>9 DEF ReadReset, ReadError, AckInv, LineInv, StateInv, Connected, InCall, driver, line
<1>10. CASE ReadTimedOut
  BY <1>a, <1>10 DEF ReadTimedOut, ReadError, AckInv, LineInv, StateInv, Connected, InCall, driver, line
<1>11. CASE ConnectBegin
  BY <1>a, <1>11 DEF ConnectBegin, AckInv, LineInv, StateInv, Connected, InCall, driver, line
<1>12. CASE ResolveFails
  BY <1>a, <1>12 DEF ResolveFails, AckInv, LineInv, StateInv, Connected, InCall, driver, line
<1>13. CASE ConnectFails
  BY <1>a, <1>13 DEF ConnectFails, AckInv, LineInv, StateInv, Connected, InCall, driver, line
<1>14. CASE ConnectOk
  BY <1>a, <1>14 DEF ConnectOk, AckInv, LineInv, StateInv, Connected, InCall, driver, line
<1>15. CASE DeviceServe
  <2>1. /\ devConn /\ toDevice # <<>> /\ toDevice' = Tail(toDevice) /\ owed' = owed + 1
        /\ log' = Append(log, [cmd |-> Head(toDevice), conn |-> conn])
        /\ UNCHANGED <<pc, returnTo, cmd, arrived, devConn>>
    BY <1>15 DEF DeviceServe, driver
  <2>2. pc = "ack" /\ toDevice = <<cmd>> /\ owed = 0 /\ arrived = 0
    BY <2>1 DEF AckInv
  <2>3. Head(toDevice) = cmd /\ toDevice' = <<>>
    BY <2>1, <2>2
  <2>4. log \in Seq([cmd : Nat, conn : Nat])
    BY <1>b DEF TypeOK
  <2>5. Len(log) + 1 \in DOMAIN log' /\ log'[Len(log) + 1] = [cmd |-> cmd, conn |-> conn]
    BY <2>1, <2>3, <2>4
  <2>6. \E i \in DOMAIN log' : log'[i].cmd = cmd
    BY <2>5
  <2> QED
    BY <2>1, <2>2, <2>3, <2>6 DEF AckInv, InCall
<1>16. CASE DeviceAck
  BY <1>a, <1>16 DEF DeviceAck, AckInv, LineInv, StateInv, Connected, InCall, driver, line
<1>17. CASE PeerRejects
  BY <1>a, <1>17 DEF PeerRejects, Undeliverable, AckInv, LineInv, StateInv, Connected, InCall, driver, line
<1>18. CASE PeerUnreachable
  BY <1>a, <1>18 DEF PeerUnreachable, Undeliverable, AckInv, LineInv, StateInv, Connected, InCall, driver, line
<1>19. CASE DeviceClose
  <2>1. /\ ~devConn' /\ owed' = 0 /\ (arrived' = arrived)
        /\ UNCHANGED <<pc, returnTo, cmd, log>>
    BY <1>19 DEF DeviceClose, Fault, driver
  <2> QED
    BY <1>a, <2>1 DEF AckInv, InCall
<1>20. CASE DeviceReset
  <2>1. /\ ~devConn' /\ owed' = 0 /\ (arrived' = arrived)
        /\ UNCHANGED <<pc, returnTo, cmd, log>>
    BY <1>20 DEF DeviceReset, Fault, driver
  <2> QED
    BY <1>a, <2>1 DEF AckInv, InCall
<1>21. CASE DeviceCrash
  <2>1. /\ ~devConn' /\ owed' = 0 /\ (arrived' = arrived)
        /\ UNCHANGED <<pc, returnTo, cmd, log>>
    BY <1>21 DEF DeviceCrash, Fault, driver
  <2> QED
    BY <1>a, <2>1 DEF AckInv, InCall
<1>22. CASE DeviceBoot
  BY <1>a, <1>22 DEF DeviceBoot, AckInv, LineInv, StateInv, Connected, InCall, driver, line
<1>23. CASE UNCHANGED vars
  BY <1>23 DEF vars, AckInv, LineInv, StateInv, Connected, InCall, driver, line
<1> QED
  BY <1>1, <1>2, <1>3, <1>4, <1>5, <1>6, <1>7, <1>8, <1>9, <1>10, <1>11, <1>12, <1>13, <1>14, <1>15, <1>16, <1>17, <1>18, <1>19, <1>20, <1>21, <1>22, <1>23
  DEF Next, Driver, Calls, Network, Env

\* The executed commands, as CommandRpc sees them.
Executed == [i \in DOMAIN log |-> log[i].cmd]

LEMMA ExecutedAppend ==
  ASSUME TypeOK, NEW e \in [cmd : Nat, conn : Nat], log' = Append(log, e)
  PROVE  Executed' = Append(Executed, e.cmd)
<1>1. log \in Seq([cmd : Nat, conn : Nat])
  BY DEF TypeOK
<1>2. /\ DOMAIN log = 1..Len(log) /\ Len(log) \in Nat
      /\ DOMAIN log' = 1..(Len(log) + 1)
      /\ \A i \in DOMAIN log : log'[i] = log[i]
      /\ log'[Len(log) + 1] = e
  BY <1>1
<1>3. \A i \in DOMAIN log : log[i].cmd \in Nat
  BY <1>1, LogEntry
<1>4. Executed \in Seq(Nat) /\ Len(Executed) = Len(log)
  BY <1>2, <1>3 DEF Executed
<1>5. Append(Executed, e.cmd) =
        [i \in 1..(Len(log) + 1) |-> IF i = Len(log) + 1 THEN e.cmd ELSE log[i].cmd]
  BY <1>2, <1>4 DEF Executed
<1>6. Executed' =
        [i \in 1..(Len(log) + 1) |-> IF i = Len(log) + 1 THEN e.cmd ELSE log[i].cmd]
  BY <1>2 DEF Executed
<1> QED
  BY <1>5, <1>6

\* A step of TcpConnection is a step of CommandRpc or changes nothing there.
LEMMA StepSimulation ==
  ASSUME AckPieces = 1, IInv, AckInv, [Next]_vars PROVE [Rpc!Next]_(Rpc!vars)
<1> DEFINE call == IF InCall THEN cmd ELSE 0
           same == /\ InCall' = InCall
                   /\ UNCHANGED <<cmd, outcome, log>>
<1>a. /\ cmd \in Nat /\ returnTo \in {"idle", "sleep"}
      /\ InCall => call = cmd /\ cmd # 0
      /\ ~InCall => call = 0
  BY DEF IInv, TypeOK, AckInv
<1>b. same => UNCHANGED Rpc!vars
  BY DEF Rpc!vars
<1>1. CASE SendCommand
  <2>1. /\ pc = "idle" /\ cmd < MaxCalls /\ cmd' = cmd + 1 /\ ~InCall
        /\ UNCHANGED log /\ Executed' = Executed
    BY <1>1 DEF SendCommand, InCall, Executed
  <2>2. CASE IsConnected
    <3>1. InCall' /\ outcome' = "none"
      BY <1>1, <2>2 DEF SendCommand, InCall
    <3>2. Rpc!Begin
      BY <1>a, <2>1, <3>1 DEF Rpc!Begin, Executed
    <3> QED
      BY <3>2 DEF Rpc!Next
  <2>3. CASE ~IsConnected
    <3>1. ~InCall' /\ outcome' \in {"skipped", "threwBadDescriptor"}
      BY <1>1, <2>3 DEF SendCommand, InCall
    <3>2. Rpc!Refuse
      BY <1>a, <2>1, <3>1 DEF Rpc!Refuse, Rpc!Refusals, Executed
    <3> QED
      BY <3>2 DEF Rpc!Next
  <2> QED
    BY <2>2, <2>3
<1>2. CASE DeviceServe
  <2>1. /\ devConn /\ toDevice # <<>> /\ UNCHANGED <<pc, returnTo, cmd, outcome>>
        /\ log' = Append(log, [cmd |-> Head(toDevice), conn |-> conn])
    BY <1>2 DEF DeviceServe, driver
  <2>2. pc = "ack" /\ Head(toDevice) = cmd /\ conn \in Nat /\ TypeOK
    BY <2>1 DEF AckInv, IInv, TypeOK
  <2>3. Executed' = Append(Executed, cmd)
    <3>1. [cmd |-> cmd, conn |-> conn] \in [cmd : Nat, conn : Nat]
      BY <1>a, <2>2
    <3> QED
      BY <2>1, <2>2, <3>1, ExecutedAppend
  <2>4. InCall /\ InCall'
    BY <2>1, <2>2 DEF InCall
  <2>5. Rpc!Execute
    BY <1>a, <2>1, <2>3, <2>4 DEF Rpc!Execute, Executed
  <2> QED
    BY <2>5 DEF Rpc!Next
<1>3. CASE ReadData
  <2>1. /\ pc = "ack" /\ arrived > 0 /\ pc' = "idle" /\ outcome' = "acked"
        /\ UNCHANGED <<cmd, log>>
    BY <1>3 DEF ReadData
  <2>2. \E i \in DOMAIN log : log[i].cmd = cmd
    BY <2>1 DEF AckInv, IInv, TypeOK
  <2>3. InCall /\ ~InCall' /\ UNCHANGED Executed
    BY <2>1 DEF InCall, Executed
  <2>4. Rpc!ReturnAcked
    BY <1>a, <2>1, <2>2, <2>3 DEF Rpc!ReturnAcked, Executed
  <2> QED
    BY <2>4 DEF Rpc!Next
<1>4. CASE ReadEof
  <2>1. InCall /\ ~InCall' /\ outcome' = "threwClosed" /\ UNCHANGED <<cmd, log>>
    BY <1>4 DEF ReadEof, InCall
  <2>2. Rpc!GiveUp
    BY <1>a, <2>1 DEF Rpc!GiveUp, Rpc!Failures
  <2> QED
    BY <2>2 DEF Rpc!Next
<1>5. CASE Sleep
  <2>1. InCall /\ UNCHANGED <<cmd, log>>
    BY <1>5 DEF Sleep, InCall
  <2>2. CASE attempts + 1 < MaxAttempts
    <3>1. same
      BY <1>5, <2>1, <2>2 DEF Sleep, InCall
    <3> QED
      BY <1>b, <3>1
  <2>3. CASE ~(attempts + 1 < MaxAttempts)
    <3>1. ~InCall' /\ outcome' = "exhausted"
      BY <1>5, <2>3 DEF Sleep, InCall
    <3>2. Rpc!GiveUp
      BY <1>a, <2>1, <3>1 DEF Rpc!GiveUp, Rpc!Failures
    <3> QED
      BY <3>2 DEF Rpc!Next
  <2> QED
    BY <2>2, <2>3
<1>6. CASE WriteOk
  <2>1. same
    BY <1>a, <1>6 DEF WriteOk, InCall, driver
  <2> QED
    BY <1>b, <2>1
<1>7. CASE WriteReset
  <2>1. same
    BY <1>a, <1>7 DEF WriteReset, InCall, driver
  <2> QED
    BY <1>b, <2>1
<1>8. CASE WriteOther
  <2>1. same
    BY <1>a, <1>8 DEF WriteOther, InCall, driver
  <2> QED
    BY <1>b, <2>1
<1>9. CASE ReadReset
  <2>1. same
    BY <1>a, <1>9 DEF ReadReset, ReadError, InCall, driver
  <2> QED
    BY <1>b, <2>1
<1>10. CASE ReadTimedOut
  <2>1. same
    BY <1>a, <1>10 DEF ReadTimedOut, ReadError, InCall, driver
  <2> QED
    BY <1>b, <2>1
<1>11. CASE ConnectBegin
  <2>1. same
    BY <1>a, <1>11 DEF ConnectBegin, InCall, driver
  <2> QED
    BY <1>b, <2>1
<1>12. CASE ResolveFails
  <2>1. same
    BY <1>a, <1>12 DEF ResolveFails, InCall, driver
  <2> QED
    BY <1>b, <2>1
<1>13. CASE ConnectFails
  <2>1. same
    BY <1>a, <1>13 DEF ConnectFails, InCall, driver
  <2> QED
    BY <1>b, <2>1
<1>14. CASE ConnectOk
  <2>1. same
    BY <1>a, <1>14 DEF ConnectOk, InCall, driver
  <2> QED
    BY <1>b, <2>1
<1>15. CASE Close
  <2>1. same
    BY <1>a, <1>15 DEF Close, InCall, driver
  <2> QED
    BY <1>b, <2>1
<1>16. CASE DeviceAck
  <2>1. same
    BY <1>a, <1>16 DEF DeviceAck, InCall, driver
  <2> QED
    BY <1>b, <2>1
<1>17. CASE PeerRejects
  <2>1. same
    BY <1>a, <1>17 DEF PeerRejects, Undeliverable, InCall, driver
  <2> QED
    BY <1>b, <2>1
<1>18. CASE PeerUnreachable
  <2>1. same
    BY <1>a, <1>18 DEF PeerUnreachable, Undeliverable, InCall, driver
  <2> QED
    BY <1>b, <2>1
<1>19. CASE DeviceClose
  <2>1. same
    BY <1>a, <1>19 DEF DeviceClose, Fault, InCall, driver
  <2> QED
    BY <1>b, <2>1
<1>20. CASE DeviceReset
  <2>1. same
    BY <1>a, <1>20 DEF DeviceReset, Fault, InCall, driver
  <2> QED
    BY <1>b, <2>1
<1>21. CASE DeviceCrash
  <2>1. same
    BY <1>a, <1>21 DEF DeviceCrash, Fault, InCall, driver
  <2> QED
    BY <1>b, <2>1
<1>22. CASE DeviceBoot
  <2>1. same
    BY <1>a, <1>22 DEF DeviceBoot, InCall, driver
  <2> QED
    BY <1>b, <2>1
<1>23. CASE UNCHANGED vars
  <2>1. same
    BY <1>23 DEF vars, driver, InCall
  <2> QED
    BY <1>b, <2>1
<1> QED
  BY <1>1, <1>2, <1>3, <1>4, <1>5, <1>6, <1>7, <1>8, <1>9, <1>10, <1>11, <1>12, <1>13, <1>14, <1>15, <1>16, <1>17, <1>18, <1>19, <1>20, <1>21, <1>22, <1>23
  DEF Next, Driver, Calls, Network, Env

\* Over one connection there is at most one answer on its way, that of the
\* command waitAck waits for, if the camera answers in one piece.
THEOREM AnswersBelong ==
  ASSUME AckPieces = 1 PROVE Spec => []AckInv
<1>1. Init => AckInv
  BY DEF Init, AckInv, InCall
<1>2. IInv /\ AckInv /\ [Next]_vars => AckInv'
  BY AckStep
<1> QED
  BY <1>1, <1>2, Invariance, PTL DEF Spec

\* TcpConnection implements CommandRpc: no command is executed outside its
\* call, an acknowledged one has been executed, a refused one has not.
THEOREM Implementation ==
  ASSUME AckPieces = 1 PROVE Spec => RpcSpec
<1>1. Init => Rpc!Init
  BY DEF Init, Rpc!Init, InCall
<1>2. IInv /\ AckInv /\ [Next]_vars => [Rpc!Next]_(Rpc!vars)
  BY StepSimulation
<1> QED
  BY <1>1, <1>2, AnswersBelong, Invariance, PTL DEF Spec, RpcSpec, Rpc!Spec

-------------------------------------------------------------------------------
(* What is lost stays lost *)

(***************************************************************************)
(* A call is refused because the socket is gone, is not open or the state  *)
(* is not CONNECTED, and no event at an idle object makes up for it; nor   *)
(* does any take a socket back to one that is not open.                    *)
(***************************************************************************)
Lost ==
  /\ outcome \in Refused => pc = "idle" /\ ~IsConnected
  /\ outcome = "skipped" => sock # "closed"

\* Without a connection every step leaves the object without one.
LEMMA LostStep ==
  ASSUME TypeOK, StateInv, Lost, [Next]_vars
  PROVE  Lost' /\ (outcome \in Refused => outcome' \in {outcome, "skipped"})
<1> USE DEF Lost, Refused, IsConnected, IsConnectedThrows, StateInv, Connected, driver, line
<1>1. CASE SendCommand
  BY <1>1 DEF SendCommand
<1>2. CASE Close
  BY <1>2 DEF Close
<1>3. CASE WriteOk
  BY <1>3 DEF WriteOk
<1>4. CASE WriteReset
  BY <1>4 DEF WriteReset
<1>5. CASE WriteOther
  BY <1>5 DEF WriteOther
<1>6. CASE Sleep
  BY <1>6 DEF Sleep
<1>7. CASE ReadData
  BY <1>7 DEF ReadData
<1>8. CASE ReadEof
  BY <1>8 DEF ReadEof
<1>9. CASE ReadReset
  BY <1>9 DEF ReadReset, ReadError
<1>10. CASE ReadTimedOut
  BY <1>10 DEF ReadTimedOut, ReadError
<1>11. CASE ConnectBegin
  BY <1>11 DEF ConnectBegin
<1>12. CASE ResolveFails
  BY <1>12 DEF ResolveFails
<1>13. CASE ConnectFails
  BY <1>13 DEF ConnectFails
<1>14. CASE ConnectOk
  BY <1>14 DEF ConnectOk
<1>15. CASE DeviceServe
  BY <1>15 DEF DeviceServe
<1>16. CASE DeviceAck
  BY <1>16 DEF DeviceAck
<1>17. CASE PeerRejects
  BY <1>17 DEF PeerRejects, Undeliverable
<1>18. CASE PeerUnreachable
  BY <1>18 DEF PeerUnreachable, Undeliverable
<1>19. CASE DeviceClose
  BY <1>19 DEF DeviceClose, Fault
<1>20. CASE DeviceReset
  BY <1>20 DEF DeviceReset, Fault
<1>21. CASE DeviceCrash
  BY <1>21 DEF DeviceCrash, Fault
<1>22. CASE DeviceBoot
  BY <1>22 DEF DeviceBoot
<1>23. CASE UNCHANGED vars
  BY <1>23 DEF vars
<1> QED
  BY <1>1, <1>2, <1>3, <1>4, <1>5, <1>6, <1>7, <1>8, <1>9, <1>10, <1>11, <1>12, <1>13,
     <1>14, <1>15, <1>16, <1>17, <1>18, <1>19, <1>20, <1>21, <1>22, <1>23 DEF Next,
     Driver, Calls, Network, Env

\* The connection is only replaced inside the call that finds it reset: a call
\* that was refused is followed by refused calls only.
THEOREM NoReconnection == Spec => RefusedForGood
<1>1. Init => Lost
  BY DEF Init, Lost, Refused
<1>2. IInv /\ Lost /\ [Next]_vars
        => Lost' /\ [(outcome \in Refused) => outcome' \in {outcome, "skipped"}]_vars
  BY LostStep DEF IInv
<1> QED
  BY <1>1, <1>2, Invariance, PTL DEF Spec, RefusedForGood

-------------------------------------------------------------------------------
(* The loop runs down *)

\* Inside a call there is an attempt left.
AttemptsLeft == pc # "idle" => attempts < MaxAttempts

Runs ==
  /\ Driver => StepsLeft' \in 0..StepsLeft - 1
  /\ Network \/ Env => StepsLeft' = StepsLeft

\* Every step of the thread goes on in the attempt, or to the next one.
LEMMA RunsStep ==
  ASSUME TypeOK, AttemptsLeft, [Next]_vars
  PROVE  AttemptsLeft' /\ [Runs]_vars
<1>0. /\ attempts \in Nat /\ MaxAttempts \in Nat \ {0}
      /\ pc \in {"ctor", "idle", "write", "ack", "reconnect", "connect", "sleep"}
      /\ returnTo \in {"idle", "sleep"}
  BY MaxAttemptsIsPositive DEF TypeOK
<1>1. ASSUME Network \/ Env PROVE UNCHANGED <<pc, attempts>>
  BY <1>1 DEF Network, Env, DeviceServe, DeviceAck, PeerRejects, PeerUnreachable, Undeliverable,
              DeviceClose, DeviceReset, DeviceCrash, DeviceBoot, Fault, driver
<1>2. CASE UNCHANGED vars
  BY <1>2 DEF vars, driver, AttemptsLeft
<1>3. CASE (Network \/ Env) /\ ~Driver
  BY <1>1, <1>3 DEF AttemptsLeft, Runs, StepsLeft
<1>4. CASE Calls /\ ~Driver /\ ~Network /\ ~Env
  BY <1>0, <1>4 DEF Calls, SendCommand, Close, AttemptsLeft, Runs
<1>5. CASE Driver
  <2> DEFINE Goes(p) == pc # "idle" /\ pc' = p /\ attempts' = attempts
  <2>1. \/ pc = "write" /\ (Goes("ack") \/ Goes("reconnect") \/ Goes("sleep"))
        \/ pc = "ack" /\ (Goes("idle") \/ Goes("reconnect") \/ Goes("sleep"))
        \/ pc \in {"ctor", "reconnect"} /\ Goes("connect")
        \/ pc = "connect" /\ (Goes("idle") \/ Goes("sleep"))
        \/ /\ pc = "sleep" /\ attempts' = attempts + 1
           /\ \/ pc' = "write" /\ attempts + 1 < MaxAttempts
              \/ pc' = "idle"
    BY <1>0, <1>5 DEF Driver, WriteOk, WriteReset, WriteOther, Sleep, ReadData, ReadEof,
           ReadReset, ReadTimedOut, ReadError, ConnectBegin, ResolveFails, ConnectFails, ConnectOk
  <2>2. ~(Network \/ Env) \/ UNCHANGED <<pc, attempts>>
    BY <1>1
  <2>3. AttemptsLeft'
    BY <2>1, <1>0 DEF AttemptsLeft
  <2>4. pc # pc'
    BY <2>1
  <2>5. StepsLeft' \in 0..StepsLeft - 1
    BY <2>1, <1>0 DEF AttemptsLeft, StepsLeft, StepOf
  <2> QED
    BY <2>2, <2>3, <2>4, <2>5 DEF Runs
<1> QED
  BY <1>2, <1>3, <1>4, <1>5 DEF Next

\* A call of sendCommand takes at most five steps of its thread to an attempt,
\* for any number of attempts.
THEOREM CallsRunDown == Spec => CallRunsDown
<1>1. Init => AttemptsLeft
  BY MaxAttemptsIsPositive DEF Init, AttemptsLeft
<1>2. IInv /\ AttemptsLeft /\ [Next]_vars => AttemptsLeft' /\ [Runs]_vars
  BY RunsStep DEF IInv
<1> QED
  BY <1>1, <1>2, Invariance, PTL DEF Spec, CallRunsDown, Runs
===============================================================================
