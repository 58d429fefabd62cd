------------------------ MODULE UdpServerManagerProofs ------------------------
(***************************************************************************)
(* For any number of camera objects and cameras, any queue and any number  *)
(* of datagrams: no callback runs once its object is unsubscribed, the     *)
(* receive loop does not break unless a callback throws, and the server    *)
(* implements PacketRouter.                                                *)
(***************************************************************************)
EXTENDS UdpServerManager, TLAPS

(***************************************************************************)
(* The lock is held exactly while slots are called, and what is still to   *)
(* be called is connected.                                                 *)
(***************************************************************************)
LockInv ==
  /\ mutex = "io" <=> ioPc = "calling"
  /\ todo # {} => ioPc = "calling" /\ todo \subseteq callbacks[packet.ip]

\* Only objects that have not been unsubscribed are connected.
ConnectedInv ==
  \A ip \in Ips : \A o \in callbacks[ip] :
    IpOf[o] = ip /\ life[o] \in {"live", "unsubscribing", "freed"}

\* Objects are freed only where the program deletes them.
FreedInv == "delete" \notin AppCalls => \A o \in Objs : life[o] # "freed"

(***************************************************************************)
(* Numbers grow along the way of a datagram: handed on, in the handler,    *)
(* queued, sent.                                                           *)
(***************************************************************************)
QueueInv ==
  /\ \A i \in DOMAIN kernel : kernel[i].n <= sent[kernel[i].ip]
  /\ \A i, j \in DOMAIN kernel :
       i < j /\ kernel[i].ip = kernel[j].ip => kernel[i].n < kernel[j].n

HandlerInv ==
  ioPc \in {"received", "calling"} =>
    /\ packet.n <= sent[packet.ip]
    /\ \A i \in DOMAIN kernel : kernel[i].ip = packet.ip => packet.n < kernel[i].n

LastInv ==
  /\ \A o \in Objs : last[o] <= sent[IpOf[o]]
  /\ \A o \in Objs : \A i \in DOMAIN kernel :
       kernel[i].ip = IpOf[o] => last[o] < kernel[i].n
  /\ ioPc = "received" => \A o \in Objs : IpOf[o] = packet.ip => last[o] < packet.n
  /\ \A o \in todo : last[o] < packet.n

OrderInv == QueueInv /\ HandlerInv /\ LastInv

(***************************************************************************)
(* What must hold around the receive loop for it not to break.             *)
(***************************************************************************)
LoopInv ==
  /\ RunningMeansReceiving
  /\ running => sock = "open"
  /\ sock = "none" => \A o \in Objs : life[o] = "absent"
  /\ \A o \in Objs : life[o] \in {"closing", "stopped", "gone"} => ~running
  /\ ioStopped => sock # "none"
  /\ sock = "none" => op = "none" /\ ioPc = "wait"
  /\ op = "aborted" => ~running
  /\ ioPc # "wait" => op = "none"

IInv == TypeOK /\ LockInv /\ ConnectedInv /\ FreedInv /\ OrderInv

-------------------------------------------------------------------------------
\* TypeOK by part.
ManagerType ==
  /\ running \in BOOLEAN /\ sock \in {"none", "open", "closed"}
  /\ callbacks \in [Ips -> SUBSET Objs] /\ mutex \in {"none", "io"}
  /\ life \in [Objs -> Stages]

IoType ==
  /\ op \in {"none", "receive", "aborted", "failed"}
  /\ ioThread \in {"none", "running", "exited", "threw"} /\ ioStopped \in BOOLEAN
  /\ ioPc \in {"wait", "received", "calling", "startReceive", "receive"}

CounterType == sent \in [Ips -> Nat] /\ errors \in Nat

PacketType ==
  /\ ioPc \in {"received", "calling"} => packet \in Packets
  /\ todo \in SUBSET Objs
  /\ kernel \in Seq(Packets)
  /\ last \in [Objs -> Nat]

LEMMA TypeParts ==
  TypeOK <=> ManagerType /\ IoType /\ CounterType /\ PacketType
  BY DEF TypeOK, ManagerType, IoType, CounterType, PacketType

\* Every action keeps the types of the manager and of the objects' stages.
LEMMA ManagerTypeStep ==
  ASSUME ManagerType, [Next]_vars PROVE ManagerType'
<1> USE IpOfIsFunction
<1> USE DEF ManagerType, Stages, Becomes, manager, io, net
<1>1. CASE HandleReceive
  BY <1>1 DEF HandleReceive, IoRuns
<1>2. CASE LookUp
  BY <1>2 DEF LookUp
<1>3. CASE Unlock
  BY <1>3 DEF Unlock
<1>4. CASE StartReceive
  BY <1>4 DEF StartReceive
<1>5. CASE AsyncReceive
  BY <1>5 DEF AsyncReceive
<1>6. CASE HandleAborted
  BY <1>6 DEF HandleAborted, IoRuns
<1>7. CASE HandleError
  BY <1>7 DEF HandleError, IoRuns
<1>8. CASE RunReturns
  BY <1>8 DEF RunReturns
<1>9. CASE ReceiveFails
  BY <1>9 DEF ReceiveFails
<1>10. ASSUME NEW o \in Objs, Call(o) PROVE ManagerType'
  BY <1>10 DEF Call
<1>11. ASSUME NEW o \in Objs, CallThrows(o) PROVE ManagerType'
  BY <1>11 DEF CallThrows
<1>12. ASSUME NEW o \in Objs, GetInstance(o) PROVE ManagerType'
  BY <1>12 DEF GetInstance
<1>13. ASSUME NEW o \in Objs, Subscribe(o) PROVE ManagerType'
  BY <1>13 DEF Subscribe
<1>14. ASSUME NEW o \in Objs, Shutdown(o) PROVE ManagerType'
  BY <1>14 DEF Shutdown
<1>15. ASSUME NEW o \in Objs, Unsubscribe(o) PROVE ManagerType'
  BY <1>15 DEF Unsubscribe
<1>16. ASSUME NEW o \in Objs, TestRunning(o) PROVE ManagerType'
  BY <1>16 DEF TestRunning
<1>22. ASSUME NEW o \in Objs, ClearRunning(o) PROVE ManagerType'
  BY <1>22 DEF ClearRunning
<1>17. ASSUME NEW o \in Objs, CloseSocket(o) PROVE ManagerType'
  BY <1>17 DEF CloseSocket
<1>18. ASSUME NEW o \in Objs, StopIoService(o) PROVE ManagerType'
  BY <1>18 DEF StopIoService
<1>19. ASSUME NEW o \in Objs, Delete(o) PROVE ManagerType'
  BY <1>19 DEF Delete
<1>20. ASSUME NEW ip \in Ips, Send(ip) PROVE ManagerType'
  BY <1>20 DEF Send
<1>21. CASE UNCHANGED vars
  BY <1>21 DEF vars
<1> QED
  BY <1>1, <1>2, <1>3, <1>4, <1>5, <1>6, <1>7, <1>8, <1>9, <1>10, <1>11, <1>12, <1>13, <1>14, <1>15, <1>16, <1>17, <1>18, <1>19, <1>20, <1>21, <1>22
  DEF Next, Io, Network, App, Continue

\* Every action keeps the types of the io thread.
LEMMA IoTypeStep ==
  ASSUME IoType, [Next]_vars PROVE IoType'
<1> USE DEF IoType, manager, io, net
<1>1. CASE HandleReceive
  BY <1>1 DEF HandleReceive, IoRuns
<1>2. CASE LookUp
  BY <1>2 DEF LookUp
<1>3. CASE Unlock
  BY <1>3 DEF Unlock
<1>4. CASE StartReceive
  BY <1>4 DEF StartReceive
<1>5. CASE AsyncReceive
  BY <1>5 DEF AsyncReceive
<1>6. CASE HandleAborted
  BY <1>6 DEF HandleAborted, IoRuns
<1>7. CASE HandleError
  BY <1>7 DEF HandleError, IoRuns
<1>8. CASE RunReturns
  BY <1>8 DEF RunReturns
<1>9. CASE ReceiveFails
  BY <1>9 DEF ReceiveFails
<1>10. ASSUME NEW o \in Objs, Call(o) PROVE IoType'
  BY <1>10 DEF Call
<1>11. ASSUME NEW o \in Objs, CallThrows(o) PROVE IoType'
  BY <1>11 DEF CallThrows
<1>12. ASSUME NEW o \in Objs, GetInstance(o) PROVE IoType'
  BY <1>12 DEF GetInstance
<1>13. ASSUME NEW o \in Objs, Subscribe(o) PROVE IoType'
  BY <1>13 DEF Subscribe
<1>14. ASSUME NEW o \in Objs, Shutdown(o) PROVE IoType'
  BY <1>14 DEF Shutdown
<1>15. ASSUME NEW o \in Objs, Unsubscribe(o) PROVE IoType'
  BY <1>15 DEF Unsubscribe
<1>16. ASSUME NEW o \in Objs, TestRunning(o) PROVE IoType'
  BY <1>16 DEF TestRunning
<1>22. ASSUME NEW o \in Objs, ClearRunning(o) PROVE IoType'
  BY <1>22 DEF ClearRunning
<1>17. ASSUME NEW o \in Objs, CloseSocket(o) PROVE IoType'
  BY <1>17 DEF CloseSocket
<1>18. ASSUME NEW o \in Objs, StopIoService(o) PROVE IoType'
  BY <1>18 DEF StopIoService
<1>19. ASSUME NEW o \in Objs, Delete(o) PROVE IoType'
  BY <1>19 DEF Delete
<1>20. ASSUME NEW ip \in Ips, Send(ip) PROVE IoType'
  BY <1>20 DEF Send
<1>21. CASE UNCHANGED vars
  BY <1>21 DEF vars
<1> QED
  BY <1>1, <1>2, <1>3, <1>4, <1>5, <1>6, <1>7, <1>8, <1>9, <1>10, <1>11, <1>12, <1>13, <1>14, <1>15, <1>16, <1>17, <1>18, <1>19, <1>20, <1>21, <1>22
  DEF Next, Io, Network, App, Continue

\* Every counter stays a natural number.
LEMMA CounterTypeStep ==
  ASSUME CounterType, [Next]_vars PROVE CounterType'
<1> USE DEF CounterType, manager, io, net
<1>1. CASE HandleReceive
  BY <1>1 DEF HandleReceive, IoRuns
<1>2. CASE LookUp
  BY <1>2 DEF LookUp
<1>3. CASE Unlock
  BY <1>3 DEF Unlock
<1>4. CASE StartReceive
  BY <1>4 DEF StartReceive
<1>5. CASE AsyncReceive
  BY <1>5 DEF AsyncReceive
<1>6. CASE HandleAborted
  BY <1>6 DEF HandleAborted, IoRuns
<1>7. CASE HandleError
  BY <1>7 DEF HandleError, IoRuns
<1>8. CASE RunReturns
  BY <1>8 DEF RunReturns
<1>9. CASE ReceiveFails
  BY <1>9 DEF ReceiveFails
<1>10. ASSUME NEW o \in Objs, Call(o) PROVE CounterType'
  BY <1>10 DEF Call
<1>11. ASSUME NEW o \in Objs, CallThrows(o) PROVE CounterType'
  BY <1>11 DEF CallThrows
<1>12. ASSUME NEW o \in Objs, GetInstance(o) PROVE CounterType'
  BY <1>12 DEF GetInstance
<1>13. ASSUME NEW o \in Objs, Subscribe(o) PROVE CounterType'
  BY <1>13 DEF Subscribe
<1>14. ASSUME NEW o \in Objs, Shutdown(o) PROVE CounterType'
  BY <1>14 DEF Shutdown
<1>15. ASSUME NEW o \in Objs, Unsubscribe(o) PROVE CounterType'
  BY <1>15 DEF Unsubscribe
<1>16. ASSUME NEW o \in Objs, TestRunning(o) PROVE CounterType'
  BY <1>16 DEF TestRunning
<1>22. ASSUME NEW o \in Objs, ClearRunning(o) PROVE CounterType'
  BY <1>22 DEF ClearRunning
<1>17. ASSUME NEW o \in Objs, CloseSocket(o) PROVE CounterType'
  BY <1>17 DEF CloseSocket
<1>18. ASSUME NEW o \in Objs, StopIoService(o) PROVE CounterType'
  BY <1>18 DEF StopIoService
<1>19. ASSUME NEW o \in Objs, Delete(o) PROVE CounterType'
  BY <1>19 DEF Delete
<1>20. ASSUME NEW ip \in Ips, Send(ip) PROVE CounterType'
  BY <1>20 DEF Send
<1>21. CASE UNCHANGED vars
  BY <1>21 DEF vars
<1> QED
  BY <1>1, <1>2, <1>3, <1>4, <1>5, <1>6, <1>7, <1>8, <1>9, <1>10, <1>11, <1>12, <1>13, <1>14, <1>15, <1>16, <1>17, <1>18, <1>19, <1>20, <1>21, <1>22
  DEF Next, Io, Network, App, Continue

\* Datagrams stay datagrams.
LEMMA PacketTypeStep ==
  ASSUME ManagerType, IoType, CounterType, PacketType, [Next]_vars PROVE PacketType'
<1> USE DEF PacketType, manager, io, net
<1>1. CASE HandleReceive
  <2>1. /\ kernel \in Seq(Packets) /\ kernel # <<>> /\ packet' = Head(kernel)
        /\ kernel' = Tail(kernel) /\ UNCHANGED <<todo, last>>
    BY <1>1 DEF HandleReceive
  <2>2. packet' \in Packets /\ kernel' \in Seq(Packets)
    BY <2>1
  <2> QED
    BY <2>1, <2>2
<1>2. CASE LookUp
  <2>1. packet \in Packets
    BY <1>2 DEF LookUp
  <2>2. callbacks[packet.ip] \in SUBSET Objs
    BY <2>1 DEF Packets, ManagerType
  <2> QED
    BY <1>2, <2>2 DEF LookUp
<1>3. CASE Unlock
  BY <1>3 DEF Unlock
<1>4. CASE StartReceive
  BY <1>4 DEF StartReceive
<1>5. CASE AsyncReceive
  BY <1>5 DEF AsyncReceive
<1>6. CASE HandleAborted
  BY <1>6 DEF HandleAborted, IoRuns
<1>7. CASE HandleError
  BY <1>7 DEF HandleError, IoRuns
<1>8. CASE RunReturns
  BY <1>8 DEF RunReturns
<1>9. CASE ReceiveFails
  BY <1>9 DEF ReceiveFails
<1>10. ASSUME NEW o \in Objs, Call(o) PROVE PacketType'
  <2>1. packet.n \in Nat
    BY <1>10 DEF Call, Packets
  <2> QED
    BY <1>10, <2>1 DEF Call
<1>11. ASSUME NEW o \in Objs, CallThrows(o) PROVE PacketType'
  <2>1. packet.n \in Nat
    BY <1>11 DEF CallThrows, Packets
  <2> QED
    BY <1>11, <2>1 DEF CallThrows
<1>12. ASSUME NEW o \in Objs, GetInstance(o) PROVE PacketType'
  BY <1>12 DEF GetInstance
<1>13. ASSUME NEW o \in Objs, Subscribe(o) PROVE PacketType'
  BY <1>13 DEF Subscribe
<1>14. ASSUME NEW o \in Objs, Shutdown(o) PROVE PacketType'
  BY <1>14 DEF Shutdown
<1>15. ASSUME NEW o \in Objs, Unsubscribe(o) PROVE PacketType'
  BY <1>15 DEF Unsubscribe
<1>16. ASSUME NEW o \in Objs, TestRunning(o) PROVE PacketType'
  BY <1>16 DEF TestRunning
<1>22. ASSUME NEW o \in Objs, ClearRunning(o) PROVE PacketType'
  BY <1>22 DEF ClearRunning
<1>17. ASSUME NEW o \in Objs, CloseSocket(o) PROVE PacketType'
  BY <1>17 DEF CloseSocket
<1>18. ASSUME NEW o \in Objs, StopIoService(o) PROVE PacketType'
  BY <1>18 DEF StopIoService
<1>19. ASSUME NEW o \in Objs, Delete(o) PROVE PacketType'
  BY <1>19 DEF Delete
<1>20. ASSUME NEW ip \in Ips, Send(ip) PROVE PacketType'
  <2>1. [ip |-> ip, n |-> sent[ip] + 1] \in Packets
    BY DEF Packets, CounterType
  <2>2. kernel' \in Seq(Packets)
    <3> DEFINE p == [ip |-> ip, n |-> sent[ip] + 1]
    <3>1. kernel' = kernel \/ kernel' = Append(kernel, p)
      BY <1>20 DEF Send
    <3> HIDE DEF p
    <3> QED
      BY <2>1, <3>1 DEF p
  <2> QED
    BY <1>20, <2>2 DEF Send
<1>21. CASE UNCHANGED vars
  BY <1>21 DEF vars
<1> QED
  BY <1>1, <1>2, <1>3, <1>4, <1>5, <1>6, <1>7, <1>8, <1>9, <1>10, <1>11, <1>12, <1>13, <1>14, <1>15, <1>16, <1>17, <1>18, <1>19, <1>20, <1>21, <1>22
  DEF Next, Io, Network, App, Continue

\* Every action keeps the types.
LEMMA TypeStep == TypeOK /\ [Next]_vars => TypeOK'
<1>1. TypeOK' <=> ManagerType' /\ IoType' /\ CounterType' /\ PacketType'
  BY DEF TypeOK, ManagerType, IoType, CounterType, PacketType
<1> QED
  BY <1>1, TypeParts, ManagerTypeStep, IoTypeStep, CounterTypeStep, PacketTypeStep

\* Every action keeps what the lock protects.
LEMMA LockStep ==
  ASSUME TypeOK, LockInv, [Next]_vars PROVE LockInv'
<1> USE DEF TypeOK, LockInv, manager, io, net
<1>1. CASE HandleReceive
  BY <1>1 DEF HandleReceive, IoRuns
<1>2. CASE LookUp
  BY <1>2 DEF LookUp
<1>3. CASE Unlock
  BY <1>3 DEF Unlock
<1>4. CASE StartReceive
  BY <1>4 DEF StartReceive
<1>5. CASE AsyncReceive
  BY <1>5 DEF AsyncReceive
<1>6. CASE HandleAborted
  BY <1>6 DEF HandleAborted, IoRuns
<1>7. CASE HandleError
  BY <1>7 DEF HandleError, IoRuns
<1>8. CASE RunReturns
  BY <1>8 DEF RunReturns
<1>9. CASE ReceiveFails
  BY <1>9 DEF ReceiveFails
<1>10. ASSUME NEW o \in Objs, Call(o) PROVE LockInv'
  BY <1>10 DEF Call
<1>11. ASSUME NEW o \in Objs, CallThrows(o) PROVE LockInv'
  BY <1>11 DEF CallThrows
<1>12. ASSUME NEW o \in Objs, GetInstance(o) PROVE LockInv'
  BY <1>12 DEF GetInstance
<1>13. ASSUME NEW o \in Objs, Subscribe(o) PROVE LockInv'
  <2>1. todo = {} /\ ioPc # "calling" /\ UNCHANGED <<mutex, ioPc, todo>>
    BY <1>13 DEF Subscribe
  <2> QED
    BY <1>13, <2>1
<1>14. ASSUME NEW o \in Objs, Shutdown(o) PROVE LockInv'
  BY <1>14 DEF Shutdown
<1>15. ASSUME NEW o \in Objs, Unsubscribe(o) PROVE LockInv'
  <2>1. todo = {} /\ ioPc # "calling" /\ UNCHANGED <<mutex, ioPc, todo>>
    BY <1>15 DEF Unsubscribe
  <2> QED
    BY <1>15, <2>1
<1>16. ASSUME NEW o \in Objs, TestRunning(o) PROVE LockInv'
  BY <1>16 DEF TestRunning
<1>22. ASSUME NEW o \in Objs, ClearRunning(o) PROVE LockInv'
  BY <1>22 DEF ClearRunning
<1>17. ASSUME NEW o \in Objs, CloseSocket(o) PROVE LockInv'
  <2>1. todo = {} /\ ioPc # "calling" /\ UNCHANGED <<mutex, ioPc, todo>>
    BY <1>17 DEF CloseSocket
  <2> QED
    BY <1>17, <2>1
<1>18. ASSUME NEW o \in Objs, StopIoService(o) PROVE LockInv'
  BY <1>18 DEF StopIoService
<1>19. ASSUME NEW o \in Objs, Delete(o) PROVE LockInv'
  BY <1>19 DEF Delete
<1>20. ASSUME NEW ip \in Ips, Send(ip) PROVE LockInv'
  BY <1>20 DEF Send
<1>21. CASE UNCHANGED vars
  BY <1>21 DEF vars
<1> QED
  BY <1>1, <1>2, <1>3, <1>4, <1>5, <1>6, <1>7, <1>8, <1>9, <1>10, <1>11, <1>12, <1>13, <1>14, <1>15, <1>16, <1>17, <1>18, <1>19, <1>20, <1>21, <1>22
  DEF Next, Io, Network, App, Continue

\* Every action keeps unsubscribed objects out of the map.
LEMMA ConnectedStep ==
  ASSUME TypeOK, ConnectedInv, [Next]_vars PROVE ConnectedInv'
<1> USE IpOfIsFunction
<1> USE DEF ConnectedInv, TypeOK, Becomes, manager, io, net
<1>1. CASE HandleReceive
  BY <1>1 DEF HandleReceive, IoRuns
<1>2. CASE LookUp
  BY <1>2 DEF LookUp
<1>3. CASE Unlock
  BY <1>3 DEF Unlock
<1>4. CASE StartReceive
  BY <1>4 DEF StartReceive
<1>5. CASE AsyncReceive
  BY <1>5 DEF AsyncReceive
<1>6. CASE HandleAborted
  BY <1>6 DEF HandleAborted, IoRuns
<1>7. CASE HandleError
  BY <1>7 DEF HandleError, IoRuns
<1>8. CASE RunReturns
  BY <1>8 DEF RunReturns
<1>9. CASE ReceiveFails
  BY <1>9 DEF ReceiveFails
<1>10. ASSUME NEW o \in Objs, Call(o) PROVE ConnectedInv'
  BY <1>10 DEF Call
<1>11. ASSUME NEW o \in Objs, CallThrows(o) PROVE ConnectedInv'
  BY <1>11 DEF CallThrows
<1>12. ASSUME NEW o \in Objs, GetInstance(o) PROVE ConnectedInv'
  BY <1>12 DEF GetInstance
<1>13. ASSUME NEW o \in Objs, Subscribe(o) PROVE ConnectedInv'
  BY <1>13 DEF Subscribe
<1>14. ASSUME NEW o \in Objs, Shutdown(o) PROVE ConnectedInv'
  BY <1>14 DEF Shutdown
<1>15. ASSUME NEW o \in Objs, Unsubscribe(o) PROVE ConnectedInv'
  BY <1>15 DEF Unsubscribe
<1>16. ASSUME NEW o \in Objs, TestRunning(o) PROVE ConnectedInv'
  BY <1>16 DEF TestRunning
<1>22. ASSUME NEW o \in Objs, ClearRunning(o) PROVE ConnectedInv'
  BY <1>22 DEF ClearRunning
<1>17. ASSUME NEW o \in Objs, CloseSocket(o) PROVE ConnectedInv'
  BY <1>17 DEF CloseSocket
<1>18. ASSUME NEW o \in Objs, StopIoService(o) PROVE ConnectedInv'
  BY <1>18 DEF StopIoService
<1>19. ASSUME NEW o \in Objs, Delete(o) PROVE ConnectedInv'
  BY <1>19 DEF Delete
<1>20. ASSUME NEW ip \in Ips, Send(ip) PROVE ConnectedInv'
  BY <1>20 DEF Send
<1>21. CASE UNCHANGED vars
  BY <1>21 DEF vars
<1> QED
  BY <1>1, <1>2, <1>3, <1>4, <1>5, <1>6, <1>7, <1>8, <1>9, <1>10, <1>11, <1>12, <1>13, <1>14, <1>15, <1>16, <1>17, <1>18, <1>19, <1>20, <1>21, <1>22
  DEF Next, Io, Network, App, Continue

\* Only Delete frees an object.
LEMMA FreedStep ==
  ASSUME TypeOK, FreedInv, [Next]_vars PROVE FreedInv'
<1> USE DEF FreedInv, TypeOK, Becomes, manager, io, net
<1>1. CASE HandleReceive
  BY <1>1 DEF HandleReceive, IoRuns
<1>2. CASE LookUp
  BY <1>2 DEF LookUp
<1>3. CASE Unlock
  BY <1>3 DEF Unlock
<1>4. CASE StartReceive
  BY <1>4 DEF StartReceive
<1>5. CASE AsyncReceive
  BY <1>5 DEF AsyncReceive
<1>6. CASE HandleAborted
  BY <1>6 DEF HandleAborted, IoRuns
<1>7. CASE HandleError
  BY <1>7 DEF HandleError, IoRuns
<1>8. CASE RunReturns
  BY <1>8 DEF RunReturns
<1>9. CASE ReceiveFails
  BY <1>9 DEF ReceiveFails
<1>10. ASSUME NEW o \in Objs, Call(o) PROVE FreedInv'
  BY <1>10 DEF Call
<1>11. ASSUME NEW o \in Objs, CallThrows(o) PROVE FreedInv'
  BY <1>11 DEF CallThrows
<1>12. ASSUME NEW o \in Objs, GetInstance(o) PROVE FreedInv'
  BY <1>12 DEF GetInstance
<1>13. ASSUME NEW o \in Objs, Subscribe(o) PROVE FreedInv'
  BY <1>13 DEF Subscribe
<1>14. ASSUME NEW o \in Objs, Shutdown(o) PROVE FreedInv'
  BY <1>14 DEF Shutdown
<1>15. ASSUME NEW o \in Objs, Unsubscribe(o) PROVE FreedInv'
  BY <1>15 DEF Unsubscribe
<1>16. ASSUME NEW o \in Objs, TestRunning(o) PROVE FreedInv'
  BY <1>16 DEF TestRunning
<1>22. ASSUME NEW o \in Objs, ClearRunning(o) PROVE FreedInv'
  BY <1>22 DEF ClearRunning
<1>17. ASSUME NEW o \in Objs, CloseSocket(o) PROVE FreedInv'
  BY <1>17 DEF CloseSocket
<1>18. ASSUME NEW o \in Objs, StopIoService(o) PROVE FreedInv'
  BY <1>18 DEF StopIoService
<1>19. ASSUME NEW o \in Objs, Delete(o) PROVE FreedInv'
  BY <1>19 DEF Delete
<1>20. ASSUME NEW ip \in Ips, Send(ip) PROVE FreedInv'
  BY <1>20 DEF Send
<1>21. CASE UNCHANGED vars
  BY <1>21 DEF vars
<1> QED
  BY <1>1, <1>2, <1>3, <1>4, <1>5, <1>6, <1>7, <1>8, <1>9, <1>10, <1>11, <1>12, <1>13, <1>14, <1>15, <1>16, <1>17, <1>18, <1>19, <1>20, <1>21, <1>22
  DEF Next, Io, Network, App, Continue

\* What an action that moves no datagram does to OrderInv.
LEMMA OrderKept ==
  ASSUME OrderInv, UNCHANGED <<packet, kernel, sent, last>>,
         todo' \subseteq todo,
         ioPc' \in {"received", "calling"} => ioPc' = ioPc
  PROVE  OrderInv'
<1>1. QueueInv'
  BY DEF OrderInv, QueueInv
<1>2. HandlerInv'
  BY DEF OrderInv, HandlerInv
<1>3. LastInv'
  BY DEF OrderInv, LastInv
<1> QED
  BY <1>1, <1>2, <1>3 DEF OrderInv

\* A datagram that is handed to a slot is newer than all that object had.
LEMMA DeliverOrder ==
  ASSUME TypeOK, OrderInv, NEW o \in Objs, o \in todo, ioPc = "calling",
         IpOf[o] = packet.ip,
         last' = [last EXCEPT ![o] = packet.n], todo' \subseteq todo \ {o},
         UNCHANGED <<packet, kernel, sent>>, ioPc' \in {"calling", "wait"}
  PROVE  OrderInv'
<1>1. QueueInv' /\ HandlerInv'
  BY DEF OrderInv, QueueInv, HandlerInv
<1>2. /\ last'[o] = packet.n /\ \A u \in Objs \ {o} : last'[u] = last[u]
      /\ todo \in SUBSET Objs
  BY DEF TypeOK
<1>3. /\ packet.n <= sent[packet.ip]
      /\ \A i \in DOMAIN kernel : kernel[i].ip = packet.ip => packet.n < kernel[i].n
  BY DEF OrderInv, HandlerInv
<1>4. LastInv'
  <2>1. \A u \in Objs : last'[u] <= sent'[IpOf[u]]
    BY <1>2, <1>3 DEF OrderInv, LastInv
  <2>2. \A u \in Objs : \A i \in DOMAIN kernel' :
          kernel'[i].ip = IpOf[u] => last'[u] < kernel'[i].n
    BY <1>2, <1>3 DEF OrderInv, LastInv
  <2>3. \A u \in todo' : last'[u] < packet'.n
    BY <1>2 DEF OrderInv, LastInv
  <2> QED
    BY <2>1, <2>2, <2>3 DEF LastInv
<1> QED
  BY <1>1, <1>4 DEF OrderInv

\* The datagram that leaves the queue is older than those that stay.
LEMMA ReceiveOrder ==
  ASSUME TypeOK, OrderInv, LockInv, HandleReceive PROVE OrderInv'
<1>1. /\ kernel \in Seq(Packets) /\ kernel # <<>> /\ packet' = Head(kernel)
      /\ kernel' = Tail(kernel) /\ ioPc' = "received" /\ UNCHANGED <<sent, last, todo>>
      /\ todo = {}
  BY DEF HandleReceive, IoRuns, TypeOK, LockInv
<1>2. /\ 1 \in DOMAIN kernel /\ packet' = kernel[1]
      /\ \A i \in DOMAIN kernel' :
           /\ i \in Nat \ {0} /\ i + 1 \in DOMAIN kernel
           /\ kernel'[i] = kernel[i + 1]
  BY <1>1
<1>3. QueueInv'
  <2>1. \A i \in DOMAIN kernel' : kernel'[i].n <= sent'[kernel'[i].ip]
    BY <1>1, <1>2 DEF OrderInv, QueueInv
  <2>2. ASSUME NEW i \in DOMAIN kernel', NEW j \in DOMAIN kernel',
               i < j, kernel'[i].ip = kernel'[j].ip
        PROVE  kernel'[i].n < kernel'[j].n
    <3>1. i + 1 < j + 1
      BY <1>2, <2>2
    <3> QED
      BY <1>2, <2>2, <3>1 DEF OrderInv, QueueInv
  <2> QED
    BY <2>1, <2>2 DEF QueueInv
<1>4. HandlerInv'
  <2>1. packet'.n <= sent'[packet'.ip]
    BY <1>1, <1>2 DEF OrderInv, QueueInv
  <2>2. ASSUME NEW i \in DOMAIN kernel', kernel'[i].ip = packet'.ip
        PROVE  packet'.n < kernel'[i].n
    <3>1. 1 < i + 1
      BY <1>2
    <3> QED
      BY <1>2, <2>2, <3>1 DEF OrderInv, QueueInv
  <2> QED
    BY <2>1, <2>2 DEF HandlerInv
<1>5. LastInv'
  <2>1. \A o \in Objs : \A i \in DOMAIN kernel' :
          kernel'[i].ip = IpOf[o] => last'[o] < kernel'[i].n
    BY <1>1, <1>2 DEF OrderInv, LastInv
  <2>2. \A o \in Objs : IpOf[o] = packet'.ip => last'[o] < packet'.n
    BY <1>1, <1>2 DEF OrderInv, LastInv
  <2> QED
    BY <1>1, <2>1, <2>2 DEF OrderInv, LastInv
<1> QED
  BY <1>3, <1>4, <1>5 DEF OrderInv

\* A new datagram has the highest number.
LEMMA SendOrder ==
  ASSUME TypeOK, OrderInv, NEW ip \in Ips, Send(ip) PROVE OrderInv'
<1> DEFINE p == [ip |-> ip, n |-> sent[ip] + 1]
<1>1. /\ kernel \in Seq(Packets) /\ sent \in [Ips -> Nat] /\ last \in [Objs -> Nat]
      /\ UNCHANGED <<ioPc, packet, todo, last>>
      /\ sent' = [sent EXCEPT ![ip] = @ + 1]
      /\ kernel' = kernel \/ kernel' = Append(kernel, p)
  BY DEF Send, TypeOK, io
<1>2. \A x \in Ips : sent[x] \in Nat /\ sent'[x] \in Nat /\ sent[x] <= sent'[x]
  BY <1>1
<1>3. \A i \in DOMAIN kernel' :
        \/ i \in DOMAIN kernel /\ kernel'[i] = kernel[i]
        \/ i = Len(kernel) + 1 /\ kernel'[i] = p
  <2> HIDE DEF p
  <2>1. CASE kernel' = kernel
    BY <2>1
  <2>2. CASE kernel' = Append(kernel, p)
    BY <1>1, <2>2
  <2> QED
    BY <1>1, <2>1, <2>2
<1>4. /\ \A i \in DOMAIN kernel : i \in Nat /\ i < Len(kernel) + 1
      /\ \A i \in DOMAIN kernel : kernel[i].ip \in Ips /\ kernel[i].n \in Nat
  <2>1. \A i \in DOMAIN kernel : i \in Nat /\ i < Len(kernel) + 1
    BY <1>1
  <2>2. \A i \in DOMAIN kernel : kernel[i] \in Packets
    BY <1>1
  <2> QED
    BY <2>1, <2>2 DEF Packets
<1>5. p.ip = ip /\ p.n = sent'[ip] /\ p.n > sent[ip]
  BY <1>1, <1>2
<1> HIDE DEF p
<1>6. \A i \in DOMAIN kernel : kernel[i].n <= sent[kernel[i].ip]
  BY DEF OrderInv, QueueInv
<1>7. QueueInv'
  <2>1. \A i \in DOMAIN kernel' : kernel'[i].n <= sent'[kernel'[i].ip]
    BY <1>2, <1>3, <1>4, <1>5, <1>6
  <2>2. ASSUME NEW i \in DOMAIN kernel', NEW j \in DOMAIN kernel',
               i < j, kernel'[i].ip = kernel'[j].ip
        PROVE  kernel'[i].n < kernel'[j].n
    <3>1. i \in DOMAIN kernel /\ kernel'[i] = kernel[i]
      BY <1>3, <1>4, <2>2
    <3>2. CASE j \in DOMAIN kernel /\ kernel'[j] = kernel[j]
      BY <2>2, <3>1, <3>2 DEF OrderInv, QueueInv
    <3>3. CASE kernel'[j] = p
      BY <1>2, <1>4, <1>5, <1>6, <2>2, <3>1, <3>3
    <3> QED
      BY <1>3, <3>2, <3>3
  <2> QED
    BY <2>1, <2>2 DEF QueueInv
<1>8. HandlerInv'
  <2> SUFFICES ASSUME ioPc \in {"received", "calling"}
               PROVE  /\ packet.n <= sent'[packet.ip]
                      /\ \A i \in DOMAIN kernel' :
                           kernel'[i].ip = packet.ip => packet.n < kernel'[i].n
    BY <1>1 DEF HandlerInv
  <2>1. packet.ip \in Ips /\ packet.n \in Nat
    BY DEF TypeOK, Packets
  <2>2. packet.n <= sent[packet.ip]
    BY DEF OrderInv, HandlerInv
  <2>3. packet.n <= sent'[packet.ip]
    BY <1>2, <2>1, <2>2
  <2>4. \A i \in DOMAIN kernel : kernel[i].ip = packet.ip => packet.n < kernel[i].n
    BY DEF OrderInv, HandlerInv
  <2> QED
    BY <1>2, <1>3, <1>5, <2>1, <2>2, <2>3, <2>4
<1>9. LastInv'
  <2>1. \A o \in Objs : last[o] \in Nat /\ IpOf[o] \in Ips /\ last[o] <= sent[IpOf[o]]
    BY <1>1, IpOfIsFunction DEF OrderInv, LastInv
  <2>2. \A o \in Objs : last[o] <= sent'[IpOf[o]]
    BY <1>2, <2>1
  <2>3. ASSUME NEW o \in Objs, NEW i \in DOMAIN kernel', kernel'[i].ip = IpOf[o]
        PROVE  last[o] < kernel'[i].n
    <3>1. CASE i \in DOMAIN kernel /\ kernel'[i] = kernel[i]
      BY <2>3, <3>1 DEF OrderInv, LastInv
    <3>2. CASE kernel'[i] = p
      BY <1>2, <1>5, <2>1, <2>3, <3>2
    <3> QED
      BY <1>3, <3>1, <3>2
  <2> QED
    BY <1>1, <2>2, <2>3 DEF OrderInv, LastInv
<1> QED
  BY <1>7, <1>8, <1>9 DEF OrderInv

\* Every action keeps the numbers in order.
LEMMA OrderStep ==
  ASSUME TypeOK, LockInv, ConnectedInv, OrderInv, [Next]_vars PROVE OrderInv'
<1>1. CASE HandleReceive
  BY <1>1, ReceiveOrder
<1>2. CASE LookUp
  <2>1. /\ ioPc = "received" /\ ioPc' = "calling" /\ todo' = callbacks[packet.ip]
        /\ UNCHANGED <<packet, kernel, sent, last>> /\ packet \in Packets
    BY <1>2 DEF LookUp, net, TypeOK
  <2>2. \A o \in todo' : o \in Objs /\ IpOf[o] = packet.ip
    BY <2>1 DEF Packets, ConnectedInv, TypeOK
  <2>3. QueueInv' /\ HandlerInv'
    BY <2>1 DEF OrderInv, QueueInv, HandlerInv
  <2>4. LastInv'
    BY <2>1, <2>2 DEF OrderInv, LastInv
  <2> QED
    BY <2>3, <2>4 DEF OrderInv
<1>3. CASE Unlock
  BY <1>3, OrderKept DEF Unlock, io, net
<1>4. CASE StartReceive
  BY <1>4, OrderKept DEF StartReceive, io, net
<1>5. CASE AsyncReceive
  BY <1>5, OrderKept DEF AsyncReceive, io, net
<1>6. CASE HandleAborted
  BY <1>6, OrderKept DEF HandleAborted, io, net
<1>7. CASE HandleError
  BY <1>7, OrderKept DEF HandleError, io, net
<1>8. CASE RunReturns
  BY <1>8, OrderKept DEF RunReturns, io, net
<1>9. CASE ReceiveFails
  BY <1>9, OrderKept DEF ReceiveFails, io, net
<1>10. ASSUME NEW o \in Objs, Call(o) PROVE OrderInv'
  <2>1. /\ ioPc = "calling" /\ o \in todo /\ todo' \subseteq todo \ {o}
        /\ last' = [last EXCEPT ![o] = packet.n] /\ ioPc' \in {"calling", "wait"}
        /\ UNCHANGED <<packet, kernel, sent>>
    BY <1>10 DEF Call, net
  <2>2. IpOf[o] = packet.ip
    BY <2>1 DEF LockInv, ConnectedInv, TypeOK, Packets
  <2> QED
    BY <2>1, <2>2, DeliverOrder
<1>11. ASSUME NEW o \in Objs, CallThrows(o) PROVE OrderInv'
  <2>1. /\ ioPc = "calling" /\ o \in todo /\ todo' \subseteq todo \ {o}
        /\ last' = [last EXCEPT ![o] = packet.n] /\ ioPc' \in {"calling", "wait"}
        /\ UNCHANGED <<packet, kernel, sent>>
    BY <1>11 DEF CallThrows, net
  <2>2. IpOf[o] = packet.ip
    BY <2>1 DEF LockInv, ConnectedInv, TypeOK, Packets
  <2> QED
    BY <2>1, <2>2, DeliverOrder
<1>12. ASSUME NEW o \in Objs, GetInstance(o) PROVE OrderInv'
  BY <1>12, OrderKept DEF GetInstance, io, net
<1>13. ASSUME NEW o \in Objs, Subscribe(o) PROVE OrderInv'
  BY <1>13, OrderKept DEF Subscribe, io, net
<1>14. ASSUME NEW o \in Objs, Shutdown(o) PROVE OrderInv'
  BY <1>14, OrderKept DEF Shutdown, io, net
<1>15. ASSUME NEW o \in Objs, Unsubscribe(o) PROVE OrderInv'
  BY <1>15, OrderKept DEF Unsubscribe, io, net
<1>16. ASSUME NEW o \in Objs, TestRunning(o) PROVE OrderInv'
  BY <1>16, OrderKept DEF TestRunning, io, net
<1>22. ASSUME NEW o \in Objs, ClearRunning(o) PROVE OrderInv'
  BY <1>22, OrderKept DEF ClearRunning, io, net
<1>17. ASSUME NEW o \in Objs, CloseSocket(o) PROVE OrderInv'
  <2>1. /\ kernel' = <<>> /\ UNCHANGED <<ioPc, packet, todo, sent, last>>
    BY <1>17 DEF CloseSocket
  <2> QED
    BY <2>1 DEF OrderInv, QueueInv, HandlerInv, LastInv
<1>18. ASSUME NEW o \in Objs, StopIoService(o) PROVE OrderInv'
  BY <1>18, OrderKept DEF StopIoService, io, net
<1>19. ASSUME NEW o \in Objs, Delete(o) PROVE OrderInv'
  BY <1>19, OrderKept DEF Delete, io, net
<1>20. ASSUME NEW ip \in Ips, Send(ip) PROVE OrderInv'
  BY <1>20, SendOrder
<1>21. CASE UNCHANGED vars
  BY <1>21, OrderKept DEF vars, io, net
<1> QED
  BY <1>1, <1>2, <1>3, <1>4, <1>5, <1>6, <1>7, <1>8, <1>9, <1>10, <1>11, <1>12, <1>13, <1>14, <1>15, <1>16, <1>17, <1>18, <1>19, <1>20, <1>21, <1>22
  DEF Next, Io, Network, App, Continue

THEOREM Invariance == Spec => []IInv
<1>1. Init => IInv
  <2> SUFFICES ASSUME Init PROVE IInv
    OBVIOUS
  <2>1. ManagerType /\ IoType /\ CounterType /\ PacketType
    <3>1. ManagerType /\ IoType
      BY DEF Init, ManagerType, IoType, Stages
    <3>2. CounterType
      BY DEF Init, CounterType
    <3>3. kernel \in Seq(Packets) /\ last \in [Objs -> Nat] /\ todo \in SUBSET Objs
      BY DEF Init
    <3> QED
      BY <3>1, <3>2, <3>3 DEF Init, PacketType
  <2>2. LockInv /\ ConnectedInv /\ FreedInv
    BY DEF Init, LockInv, ConnectedInv, FreedInv
  <2>3. OrderInv
    BY IpOfIsFunction DEF Init, OrderInv, QueueInv, HandlerInv, LastInv
  <2> QED
    BY <2>1, <2>2, <2>3, TypeParts DEF IInv
<1>2. IInv /\ [Next]_vars => IInv'
  BY TypeStep, LockStep, ConnectedStep, FreedStep, OrderStep DEF IInv
<1> QED
  BY <1>1, <1>2, PTL DEF Spec

\* The types of the server, the io thread, the objects and the datagrams, callbacks
\* that throw and deletions included.
THEOREM TypeCorrect == Spec => []TypeOK
<1>1. IInv => TypeOK
  BY DEF IInv
<1> QED
  BY <1>1, Invariance, PTL

\* No callback of an object runs after its unsubscribe has returned, in a
\* program that ends its objects' lives by shutdown.
THEOREM NoLateCallback ==
  ASSUME "delete" \notin AppCalls
  PROVE  Spec => [](TypeOK /\ NoCallbackAfterUnsubscribe)
<1>1. IInv => TypeOK /\ NoCallbackAfterUnsubscribe
  <2> SUFFICES ASSUME IInv, ioPc = "calling", NEW o \in todo
               PROVE  life[o] \in {"live", "unsubscribing"}
    BY DEF IInv, NoCallbackAfterUnsubscribe
  <2>1. o \in callbacks[packet.ip] /\ packet.ip \in Ips /\ o \in Objs
    BY DEF IInv, LockInv, TypeOK, Packets
  <2>2. life[o] \in {"live", "unsubscribing", "freed"} /\ life[o] # "freed"
    BY <2>1 DEF IInv, ConnectedInv, FreedInv
  <2> QED
    BY <2>2
<1> QED
  BY <1>1, Invariance, PTL

-------------------------------------------------------------------------------
\* Every action keeps the receive loop going, if no callback throws.
LEMMA LoopStep ==
  ASSUME TypeOK, LoopInv, Throws = FALSE, [Next]_vars PROVE LoopInv'
<1> USE DEF LoopInv, TypeOK, RunningMeansReceiving, Becomes, manager, io, net
<1>1. CASE HandleReceive
  BY <1>1 DEF HandleReceive, IoRuns
<1>2. CASE LookUp
  BY <1>2 DEF LookUp
<1>3. CASE Unlock
  BY <1>3 DEF Unlock
<1>4. CASE StartReceive
  BY <1>4 DEF StartReceive
<1>5. CASE AsyncReceive
  BY <1>5 DEF AsyncReceive
<1>6. CASE HandleAborted
  BY <1>6 DEF HandleAborted, IoRuns
<1>7. CASE HandleError
  BY <1>7 DEF HandleError, IoRuns
<1>8. CASE RunReturns
  BY <1>8 DEF RunReturns
<1>9. CASE ReceiveFails
  BY <1>9 DEF ReceiveFails
<1>10. ASSUME NEW o \in Objs, Call(o) PROVE LoopInv'
  BY <1>10 DEF Call
<1>11. ASSUME NEW o \in Objs, CallThrows(o) PROVE LoopInv'
  BY <1>11 DEF CallThrows
<1>12. ASSUME NEW o \in Objs, GetInstance(o) PROVE LoopInv'
  BY <1>12 DEF GetInstance
<1>13. ASSUME NEW o \in Objs, Subscribe(o) PROVE LoopInv'
  BY <1>13 DEF Subscribe
<1>14. ASSUME NEW o \in Objs, Shutdown(o) PROVE LoopInv'
  BY <1>14 DEF Shutdown
<1>15. ASSUME NEW o \in Objs, Unsubscribe(o) PROVE LoopInv'
  BY <1>15 DEF Unsubscribe
<1>16. ASSUME NEW o \in Objs, TestRunning(o) PROVE LoopInv'
  BY <1>16 DEF TestRunning
<1>22. ASSUME NEW o \in Objs, ClearRunning(o) PROVE LoopInv'
  BY <1>22 DEF ClearRunning
<1>17. ASSUME NEW o \in Objs, CloseSocket(o) PROVE LoopInv'
  BY <1>17 DEF CloseSocket
<1>18. ASSUME NEW o \in Objs, StopIoService(o) PROVE LoopInv'
  BY <1>18 DEF StopIoService
<1>19. ASSUME NEW o \in Objs, Delete(o) PROVE LoopInv'
  BY <1>19 DEF Delete
<1>20. ASSUME NEW ip \in Ips, Send(ip) PROVE LoopInv'
  BY <1>20 DEF Send
<1>21. CASE UNCHANGED vars
  BY <1>21 DEF vars
<1> QED
  BY <1>1, <1>2, <1>3, <1>4, <1>5, <1>6, <1>7, <1>8, <1>9, <1>10, <1>11, <1>12, <1>13, <1>14, <1>15, <1>16, <1>17, <1>18, <1>19, <1>20, <1>21, <1>22
  DEF Next, Io, Network, App, Continue

\* The receive loop goes on as long as running holds, if no callback throws.
THEOREM ReceiverSurvives ==
  ASSUME Throws = FALSE PROVE Spec => []RunningMeansReceiving
<1>1. Init => LoopInv
  BY DEF Init, LoopInv, RunningMeansReceiving
<1>2. TypeOK /\ LoopInv /\ [Next]_vars => LoopInv'
  BY LoopStep
<1>3. IInv => TypeOK
  BY DEF IInv
<1>4. LoopInv => RunningMeansReceiving
  BY DEF LoopInv
<1> QED
  BY <1>1, <1>2, <1>3, <1>4, Invariance, PTL DEF Spec

\* The bound on datagrams that PacketRouter states.
SentInv == \A ip \in Ips : sent[ip] <= MaxPackets

\* Every action keeps the bound.
LEMMA SentStep ==
  ASSUME TypeOK, SentInv, [Next]_vars PROVE SentInv'
<1> USE BoundsAreNat
<1> USE DEF SentInv, TypeOK, manager, io, net
<1>1. CASE HandleReceive
  BY <1>1 DEF HandleReceive, IoRuns
<1>2. CASE LookUp
  BY <1>2 DEF LookUp
<1>3. CASE Unlock
  BY <1>3 DEF Unlock
<1>4. CASE StartReceive
  BY <1>4 DEF StartReceive
<1>5. CASE AsyncReceive
  BY <1>5 DEF AsyncReceive
<1>6. CASE HandleAborted
  BY <1>6 DEF HandleAborted, IoRuns
<1>7. CASE HandleError
  BY <1>7 DEF HandleError, IoRuns
<1>8. CASE RunReturns
  BY <1>8 DEF RunReturns
<1>9. CASE ReceiveFails
  BY <1>9 DEF ReceiveFails
<1>10. ASSUME NEW o \in Objs, Call(o) PROVE SentInv'
  BY <1>10 DEF Call
<1>11. ASSUME NEW o \in Objs, CallThrows(o) PROVE SentInv'
  BY <1>11 DEF CallThrows
<1>12. ASSUME NEW o \in Objs, GetInstance(o) PROVE SentInv'
  BY <1>12 DEF GetInstance
<1>13. ASSUME NEW o \in Objs, Subscribe(o) PROVE SentInv'
  BY <1>13 DEF Subscribe
<1>14. ASSUME NEW o \in Objs, Shutdown(o) PROVE SentInv'
  BY <1>14 DEF Shutdown
<1>15. ASSUME NEW o \in Objs, Unsubscribe(o) PROVE SentInv'
  BY <1>15 DEF Unsubscribe
<1>16. ASSUME NEW o \in Objs, TestRunning(o) PROVE SentInv'
  BY <1>16 DEF TestRunning
<1>22. ASSUME NEW o \in Objs, ClearRunning(o) PROVE SentInv'
  BY <1>22 DEF ClearRunning
<1>17. ASSUME NEW o \in Objs, CloseSocket(o) PROVE SentInv'
  BY <1>17 DEF CloseSocket
<1>18. ASSUME NEW o \in Objs, StopIoService(o) PROVE SentInv'
  BY <1>18 DEF StopIoService
<1>19. ASSUME NEW o \in Objs, Delete(o) PROVE SentInv'
  BY <1>19 DEF Delete
<1>20. ASSUME NEW ip \in Ips, Send(ip) PROVE SentInv'
  BY <1>20 DEF Send
<1>21. CASE UNCHANGED vars
  BY <1>21 DEF vars
<1> QED
  BY <1>1, <1>2, <1>3, <1>4, <1>5, <1>6, <1>7, <1>8, <1>9, <1>10, <1>11, <1>12, <1>13, <1>14, <1>15, <1>16, <1>17, <1>18, <1>19, <1>20, <1>21, <1>22
  DEF Next, Io, Network, App, Continue

Subscribed == {o \in Objs : o \in callbacks[IpOf[o]]}

\* A step of the server is a step of PacketRouter or changes nothing there.
LEMMA RouterStep ==
  ASSUME IInv, SentInv, [Next]_vars PROVE [Router!Next]_(Router!vars)
<1>a. /\ callbacks \in [Ips -> SUBSET Objs] /\ sent \in [Ips -> Nat]
      /\ last \in [Objs -> Nat] /\ todo \in SUBSET Objs
      /\ ConnectedInv /\ LockInv /\ OrderInv
  BY DEF IInv, TypeOK
<1>b. UNCHANGED <<callbacks, sent, last>> => UNCHANGED Router!vars
  BY DEF Router!vars
<1> USE IpOfIsFunction
<1>1. CASE HandleReceive
  BY <1>b, <1>1 DEF manager, io, net, HandleReceive
<1>2. CASE LookUp
  BY <1>b, <1>2 DEF manager, io, net, LookUp
<1>3. CASE Unlock
  BY <1>b, <1>3 DEF manager, io, net, Unlock
<1>4. CASE StartReceive
  BY <1>b, <1>4 DEF manager, io, net, StartReceive
<1>5. CASE AsyncReceive
  BY <1>b, <1>5 DEF manager, io, net, AsyncReceive
<1>6. CASE HandleAborted
  BY <1>b, <1>6 DEF manager, io, net, HandleAborted
<1>7. CASE HandleError
  BY <1>b, <1>7 DEF manager, io, net, HandleError
<1>8. CASE RunReturns
  BY <1>b, <1>8 DEF manager, io, net, RunReturns
<1>9. CASE ReceiveFails
  BY <1>b, <1>9 DEF manager, io, net, ReceiveFails
<1>10. ASSUME NEW o \in Objs, Call(o) PROVE [Router!Next]_(Router!vars)
  <2>1. /\ ioPc = "calling" /\ o \in todo /\ UNCHANGED <<callbacks, sent>>
        /\ last' = [last EXCEPT ![o] = packet.n]
    BY <1>10 DEF Call, manager, net
  <2>2. packet.ip \in Ips /\ packet.n \in Nat /\ o \in callbacks[packet.ip]
    BY <1>a, <2>1 DEF IInv, TypeOK, Packets, LockInv
  <2>3. IpOf[o] = packet.ip /\ packet.n <= sent[packet.ip] /\ last[o] < packet.n
    BY <1>a, <2>1, <2>2 DEF ConnectedInv, OrderInv, HandlerInv, LastInv
  <2>4. packet.n \in 1..MaxPackets
    BY <1>a, <2>2, <2>3, BoundsAreNat DEF SentInv
  <2>5. Router!Deliver(o, packet.n)
    BY <2>1, <2>2, <2>3 DEF Router!Deliver
  <2> QED
    BY <2>4, <2>5 DEF Router!Next
<1>11. ASSUME NEW o \in Objs, CallThrows(o) PROVE [Router!Next]_(Router!vars)
  <2>1. /\ ioPc = "calling" /\ o \in todo /\ UNCHANGED <<callbacks, sent>>
        /\ last' = [last EXCEPT ![o] = packet.n]
    BY <1>11 DEF CallThrows, manager, net
  <2>2. packet.ip \in Ips /\ packet.n \in Nat /\ o \in callbacks[packet.ip]
    BY <1>a, <2>1 DEF IInv, TypeOK, Packets, LockInv
  <2>3. IpOf[o] = packet.ip /\ packet.n <= sent[packet.ip] /\ last[o] < packet.n
    BY <1>a, <2>1, <2>2 DEF ConnectedInv, OrderInv, HandlerInv, LastInv
  <2>4. packet.n \in 1..MaxPackets
    BY <1>a, <2>2, <2>3, BoundsAreNat DEF SentInv
  <2>5. Router!Deliver(o, packet.n)
    BY <2>1, <2>2, <2>3 DEF Router!Deliver
  <2> QED
    BY <2>4, <2>5 DEF Router!Next
<1>12. ASSUME NEW o \in Objs, GetInstance(o) PROVE [Router!Next]_(Router!vars)
  BY <1>b, <1>12 DEF GetInstance, manager, io, net
<1>13. ASSUME NEW o \in Objs, Subscribe(o) PROVE [Router!Next]_(Router!vars)
  <2>1. Subscribed' = Subscribed \cup {o} /\ UNCHANGED <<sent, last>>
    BY <1>a, <1>13 DEF Subscribe, Subscribed, net
  <2>2. Router!Subscribe(o)
    BY <2>1 DEF Router!Subscribe, Subscribed
  <2> QED
    BY <2>2 DEF Router!Next
<1>14. ASSUME NEW o \in Objs, Shutdown(o) PROVE [Router!Next]_(Router!vars)
  BY <1>b, <1>14 DEF Shutdown, manager, io, net
<1>15. ASSUME NEW o \in Objs, Unsubscribe(o) PROVE [Router!Next]_(Router!vars)
  <2> DEFINE S == {u \in Objs : IpOf[u] = IpOf[o]}
  <2>1. Subscribed' = Subscribed \ S /\ UNCHANGED <<sent, last>>
    BY <1>a, <1>15 DEF Unsubscribe, Subscribed, net
  <2>2. Router!Unsubscribe(S)
    BY <2>1 DEF Router!Unsubscribe, Subscribed
  <2> QED
    BY <2>2 DEF Router!Next
<1>16. ASSUME NEW o \in Objs, TestRunning(o) PROVE [Router!Next]_(Router!vars)
  BY <1>b, <1>16 DEF TestRunning, manager, io, net
<1>22. ASSUME NEW o \in Objs, ClearRunning(o) PROVE [Router!Next]_(Router!vars)
  BY <1>b, <1>22 DEF ClearRunning, manager, io, net
<1>17. ASSUME NEW o \in Objs, CloseSocket(o) PROVE [Router!Next]_(Router!vars)
  <2>1. Subscribed' = Subscribed \ Objs /\ UNCHANGED <<sent, last>>
    BY <1>a, <1>17 DEF CloseSocket, Subscribed, net
  <2>2. Router!Unsubscribe(Objs)
    BY <2>1 DEF Router!Unsubscribe, Subscribed
  <2> QED
    BY <2>2 DEF Router!Next
<1>18. ASSUME NEW o \in Objs, StopIoService(o) PROVE [Router!Next]_(Router!vars)
  BY <1>b, <1>18 DEF StopIoService, manager, io, net
<1>19. ASSUME NEW o \in Objs, Delete(o) PROVE [Router!Next]_(Router!vars)
  BY <1>b, <1>19 DEF Delete, manager, io, net
<1>20. ASSUME NEW ip \in Ips, Send(ip) PROVE [Router!Next]_(Router!vars)
  <2>1. /\ sent[ip] < MaxPackets /\ sent' = [sent EXCEPT ![ip] = @ + 1]
        /\ UNCHANGED <<callbacks, last>>
    BY <1>20 DEF Send, manager
  <2>2. Router!Send(ip)
    BY <2>1 DEF Router!Send
  <2> QED
    BY <2>2 DEF Router!Next
<1>21. CASE UNCHANGED vars
  BY <1>b, <1>21 DEF vars, manager, net
<1> QED
  BY <1>1, <1>2, <1>3, <1>4, <1>5, <1>6, <1>7, <1>8, <1>9, <1>10, <1>11, <1>12, <1>13, <1>14, <1>15, <1>16, <1>17, <1>18, <1>19, <1>20, <1>21, <1>22
  DEF Next, Io, Network, App, Continue

\* The server hands each datagram to subscribed objects of its sender only, in
\* order and once.
THEOREM Implementation == Spec => RouterSpec
<1>1. Init => SentInv
  BY BoundsAreNat DEF Init, SentInv
<1>2. TypeOK /\ SentInv /\ [Next]_vars => SentInv'
  BY SentStep
<1>3. IInv => TypeOK
  BY DEF IInv
<1>4. Init => Router!Init
  BY IpOfIsFunction DEF Init, Router!Init
<1>5. IInv /\ SentInv /\ [Next]_vars => [Router!Next]_(Router!vars)
  BY RouterStep
<1> QED
  BY <1>1, <1>2, <1>3, <1>4, <1>5, Invariance, PTL DEF Spec, RouterSpec, Router!Spec

===============================================================================
