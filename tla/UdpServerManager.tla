--------------------------- MODULE UdpServerManager ---------------------------
(***************************************************************************)
(* The UDP server shared by all camera objects of a process                *)
(* (driver/src/udp_server_manager.cpp) and the part of a ToF320's life     *)
(* that uses it: the constructor's getInstance and subscribe, and the      *)
(* unsubscribe, shutdown and ioServiceUDP.stop of ToF320::shutdown.        *)
(*                                                                         *)
(* One thread runs the io_service and all its handlers; every camera       *)
(* object is used by a thread of its own.  A datagram is its sender and a  *)
(* number: the n-th datagram of that camera to reach the host.             *)
(***************************************************************************)
EXTENDS Naturals, Sequences

CONSTANTS
  Objs,        \* the ToF320 objects the program may create
  Ips,         \* the cameras
  IpOf,        \* ToF320::cameraIP
  MaxPackets,  \* bound: datagrams of each camera
  QueueCap,    \* datagrams the kernel queues on the socket
  MaxErrors,   \* bound: receive errors other than operation_aborted
  AppCalls,    \* how the program ends an object's life
  Throws       \* whether a subscriber's callback may throw

ASSUME IpOfIsFunction == IpOf \in [Objs -> Ips]
ASSUME BoundsAreNat == MaxPackets \in Nat /\ QueueCap \in Nat /\ MaxErrors \in Nat
ASSUME AppCallsAreKnown == AppCalls \subseteq {"shutdown", "delete"}
ASSUME ThrowsIsBoolean == Throws \in BOOLEAN

VARIABLES
  running,    \* UdpServerManager::running
  sock,       \* the socket: none before the instance is made
  callbacks,  \* cameraCallbacks: the objects connected to each camera's signal
  mutex,      \* the owner of callbackMutex, between two steps: io or none
  op,         \* the receive operation of the io_service
  ioThread,   \* serverThreadUDP
  ioStopped,  \* ioServiceUDP.stop was called
  ioPc,       \* where the io thread is in handleReceive
  packet,     \* packetCopy
  todo,       \* slots of the signal that are still to be called
  life,       \* where each object is in its life
  kernel,     \* the queue of the socket
  sent,       \* datagrams of each camera that reached the host
  last,       \* the last datagram handed to each object
  errors      \* receive errors so far

manager == <<running, sock, callbacks, mutex>>
io == <<op, ioThread, ioStopped, ioPc, packet, todo>>
net == <<kernel, sent, errors>>
vars == <<manager, io, net, life, last>>

Packets == [ip : Ips, n : Nat]

Init ==
  /\ running = FALSE /\ sock = "none"
  /\ callbacks = [ip \in Ips |-> {}] /\ mutex = "none"
  /\ op = "none" /\ ioThread = "none" /\ ioStopped = FALSE
  /\ ioPc = "wait" /\ packet = <<>> /\ todo = {}
  /\ life = [o \in Objs |-> "absent"]
  /\ kernel = <<>> /\ sent = [ip \in Ips |-> 0]
  /\ last = [o \in Objs |-> 0] /\ errors = 0

Becomes(o, stage) == life' = [life EXCEPT ![o] = stage]

-------------------------------------------------------------------------------
(* A camera object *)

\* getInstance: only the first call makes the manager and starts the thread.
GetInstance(o) ==
  /\ life[o] = "absent"
  /\ Becomes(o, "subscribing")
  /\ IF sock = "none"
       THEN /\ running' = TRUE /\ sock' = "open"
            /\ op' = "receive" /\ ioThread' = "running"
       ELSE UNCHANGED <<running, sock, op, ioThread>>
  /\ UNCHANGED <<callbacks, mutex, ioStopped, ioPc, packet, todo, net, last>>

\* Faulty variant of Subscribe: the new signal is not kept in the map.
SubscribeLost(o) ==
  /\ life[o] = "subscribing"
  /\ mutex = "none"
  /\ Becomes(o, "live")
  /\ UNCHANGED <<manager, io, net, last>>

Subscribe(o) ==
  /\ life[o] = "subscribing"
  /\ mutex = "none"
  /\ callbacks' = [callbacks EXCEPT ![IpOf[o]] = @ \cup {o}]
  /\ Becomes(o, "live")
  /\ UNCHANGED <<running, sock, mutex, io, net, last>>

\* shutdown has come back from stopStream.  One that waits for its answer without
\* limit, or throws, leaves the object live.
Shutdown(o) ==
  /\ "shutdown" \in AppCalls
  /\ life[o] = "live"
  /\ Becomes(o, "unsubscribing")
  /\ UNCHANGED <<manager, io, net, last>>

\* Faulty variant of Unsubscribe: the lock is not taken.
UnsubscribeUnlocked(o) ==
  /\ life[o] = "unsubscribing"
  /\ callbacks' = [callbacks EXCEPT ![IpOf[o]] = {}]
  /\ Becomes(o, "stopping")
  /\ UNCHANGED <<running, sock, mutex, io, net, last>>

\* The signal of the camera goes, with every object connected to it.
Unsubscribe(o) ==
  /\ life[o] = "unsubscribing"
  /\ mutex = "none"
  /\ callbacks' = [callbacks EXCEPT ![IpOf[o]] = {}]
  /\ Becomes(o, "stopping")
  /\ UNCHANGED <<running, sock, mutex, io, net, last>>

\* UdpServerManager::shutdown tests running and clears it without the lock, so
\* that two threads may both go on to close the socket.
TestRunning(o) ==
  /\ life[o] = "stopping"
  /\ Becomes(o, IF running THEN "clearing" ELSE "stopped")
  /\ UNCHANGED <<manager, io, net, last>>

ClearRunning(o) ==
  /\ life[o] = "clearing"
  /\ running' = FALSE
  /\ Becomes(o, "closing")
  /\ UNCHANGED <<sock, callbacks, mutex, io, net, last>>

\* UdpServerManager::shutdown under the lock.
CloseSocket(o) ==
  /\ life[o] = "closing"
  /\ mutex = "none"
  /\ callbacks' = [ip \in Ips |-> {}]
  /\ sock' = "closed" /\ kernel' = <<>>
  /\ op' = IF op = "receive" THEN "aborted" ELSE op
  /\ Becomes(o, "stopped")
  /\ UNCHANGED <<running, mutex, ioThread, ioStopped, ioPc, packet, todo,
                 sent, errors, last>>

\* ioServiceUDP.stop, the last step of ToF320::shutdown that matters here.
StopIoService(o) ==
  /\ life[o] = "stopped"
  /\ ioStopped' = TRUE
  /\ Becomes(o, "gone")
  /\ UNCHANGED <<manager, op, ioThread, ioPc, packet, todo, net, last>>

\* delete through a ToF pointer: ToF has no virtual destructor, so that of
\* ToF320, and with it shutdown, does not run.
Delete(o) ==
  /\ "delete" \in AppCalls
  /\ life[o] \in {"live", "gone"}
  /\ Becomes(o, "freed")
  /\ UNCHANGED <<manager, io, net, last>>

-------------------------------------------------------------------------------
(* The io thread *)

IoRuns == ioThread = "running" /\ ioPc = "wait" /\ ~ioStopped

\* Faulty variant of HandleReceive: the buffer is not copied.
HandleReceiveNoCopy ==
  /\ IoRuns
  /\ op = "receive" /\ kernel # <<>>
  /\ kernel' = Tail(kernel)
  /\ op' = "none" /\ ioPc' = "received"
  /\ UNCHANGED <<manager, ioThread, ioStopped, packet, todo, sent, errors, life, last>>

\* handleReceive starts with a datagram in recvBuffer, and copies it.
HandleReceive ==
  /\ IoRuns
  /\ op = "receive" /\ kernel # <<>>
  /\ packet' = Head(kernel)
  /\ kernel' = Tail(kernel)
  /\ op' = "none"
  /\ ioPc' = "received"
  /\ UNCHANGED <<manager, ioThread, ioStopped, todo, sent, errors, life, last>>

\* Faulty variant of LookUp: the sender is not looked at.
LookUpAll ==
  /\ ioPc = "received"
  /\ mutex = "none"
  /\ mutex' = "io"
  /\ todo' = UNION {callbacks[ip] : ip \in Ips}
  /\ ioPc' = "calling"
  /\ UNCHANGED <<running, sock, callbacks, op, ioThread, ioStopped, packet, net,
                 life, last>>

LookUp ==
  /\ ioPc = "received"
  /\ mutex = "none"
  /\ mutex' = "io"
  /\ todo' = callbacks[packet.ip]
  /\ ioPc' = "calling"
  /\ UNCHANGED <<running, sock, callbacks, op, ioThread, ioStopped, packet, net,
                 life, last>>

Call(o) ==
  /\ ioPc = "calling"
  /\ o \in todo
  /\ todo' = todo \ {o}
  /\ last' = [last EXCEPT ![o] = packet.n]
  /\ UNCHANGED <<manager, op, ioThread, ioStopped, ioPc, packet, net, life>>

\* Faulty variant of CallThrows: the lock outlives the exception.
CallThrowsLocked(o) ==
  /\ Throws
  /\ ioPc = "calling"
  /\ o \in todo
  /\ last' = [last EXCEPT ![o] = packet.n]
  /\ todo' = {} /\ ioPc' = "wait" /\ ioThread' = "threw"
  /\ UNCHANGED <<manager, op, ioStopped, packet, net, life>>

\* The exception unwinds the handler and the thread's run.
CallThrows(o) ==
  /\ Throws
  /\ ioPc = "calling"
  /\ o \in todo
  /\ last' = [last EXCEPT ![o] = packet.n]
  /\ todo' = {} /\ mutex' = "none"
  /\ ioPc' = "wait" /\ ioThread' = "threw"
  /\ UNCHANGED <<running, sock, callbacks, op, ioStopped, packet, net, life>>

\* Faulty variant of Unlock: the handler returns without startReceive.
UnlockOnly ==
  /\ ioPc = "calling" /\ todo = {}
  /\ mutex' = "none" /\ ioPc' = "wait"
  /\ UNCHANGED <<running, sock, callbacks, op, ioThread, ioStopped, packet, todo,
                 net, life, last>>

Unlock ==
  /\ ioPc = "calling"
  /\ todo = {}
  /\ mutex' = "none"
  /\ ioPc' = "startReceive"
  /\ UNCHANGED <<running, sock, callbacks, op, ioThread, ioStopped, packet, todo,
                 net, life, last>>

\* startReceive reads running without the lock, and then starts the operation.
StartReceive ==
  /\ ioPc = "startReceive"
  /\ ioPc' = IF running THEN "receive" ELSE "wait"
  /\ UNCHANGED <<manager, op, ioThread, ioStopped, packet, todo, net, life, last>>

AsyncReceive ==
  /\ ioPc = "receive"
  /\ op' = IF sock = "open" THEN "receive" ELSE "failed"
  /\ ioPc' = "wait"
  /\ UNCHANGED <<manager, ioThread, ioStopped, packet, todo, net, life, last>>

HandleAborted ==
  /\ IoRuns
  /\ op = "aborted"
  /\ op' = "none"
  /\ UNCHANGED <<manager, ioThread, ioStopped, ioPc, packet, todo, net, life, last>>

\* Faulty variant of HandleError: no new receive after an error.
HandleErrorAsAborted ==
  /\ IoRuns
  /\ op = "failed"
  /\ op' = "none"
  /\ UNCHANGED <<manager, ioThread, ioStopped, ioPc, packet, todo, net, life, last>>

HandleError ==
  /\ IoRuns
  /\ op = "failed"
  /\ op' = "none"
  /\ ioPc' = IF running THEN "startReceive" ELSE "wait"
  /\ UNCHANGED <<manager, ioThread, ioStopped, packet, todo, net, life, last>>

\* run returns when it is stopped or has nothing to wait for.
RunReturns ==
  /\ ioThread = "running" /\ ioPc = "wait"
  /\ ioStopped \/ op = "none"
  /\ ioThread' = "exited"
  /\ UNCHANGED <<manager, op, ioStopped, ioPc, packet, todo, net, life, last>>

-------------------------------------------------------------------------------
(* The network (external) *)

\* A datagram is dropped when the queue is full or there is no socket.
Send(ip) ==
  /\ sent[ip] < MaxPackets
  /\ sent' = [sent EXCEPT ![ip] = @ + 1]
  /\ kernel' = IF sock = "open" /\ Len(kernel) < QueueCap
                 THEN Append(kernel, [ip |-> ip, n |-> sent[ip] + 1])
                 ELSE kernel
  /\ UNCHANGED <<manager, io, errors, life, last>>

ReceiveFails ==
  /\ op = "receive"
  /\ errors < MaxErrors
  /\ op' = "failed" /\ errors' = errors + 1
  /\ UNCHANGED <<manager, ioThread, ioStopped, ioPc, packet, todo, kernel, sent,
                 life, last>>

-------------------------------------------------------------------------------
Io ==
  \/ HandleReceive \/ LookUp \/ Unlock \/ StartReceive \/ AsyncReceive
  \/ HandleAborted \/ HandleError \/ RunReturns
  \/ \E o \in Objs : Call(o) \/ CallThrows(o)

\* What follows once a constructor or a shutdown has begun.
Continue(o) ==
  \/ Subscribe(o) \/ Unsubscribe(o) \/ TestRunning(o) \/ ClearRunning(o)
  \/ CloseSocket(o) \/ StopIoService(o)

App(o) == GetInstance(o) \/ Shutdown(o) \/ Delete(o) \/ Continue(o)

Network == ReceiveFails \/ \E ip \in Ips : Send(ip)

Next == Io \/ Network \/ \E o \in Objs : App(o)

Spec == Init /\ [][Next]_vars

\* The io thread and the threads inside a constructor or a shutdown run; a
\* thread waiting for callbackMutex gets it if it is released again and again.
Fairness == WF_vars(Io) /\ \A o \in Objs : SF_vars(Continue(o))

FairSpec == Spec /\ Fairness

-------------------------------------------------------------------------------
Stages == {"absent", "subscribing", "live", "unsubscribing", "stopping",
           "clearing", "closing", "stopped", "gone", "freed"}

TypeOK ==
  /\ running \in BOOLEAN /\ sock \in {"none", "open", "closed"}
  /\ callbacks \in [Ips -> SUBSET Objs] /\ mutex \in {"none", "io"}
  /\ op \in {"none", "receive", "aborted", "failed"}
  /\ ioThread \in {"none", "running", "exited", "threw"} /\ ioStopped \in BOOLEAN
  /\ ioPc \in {"wait", "received", "calling", "startReceive", "receive"}
  /\ ioPc \in {"received", "calling"} => packet \in Packets
  /\ todo \in SUBSET Objs
  /\ life \in [Objs -> Stages]
  /\ kernel \in Seq(Packets) /\ sent \in [Ips -> Nat]
  /\ last \in [Objs -> Nat] /\ errors \in Nat

(***************************************************************************)
(* No callback of an object is running or about to run once unsubscribe    *)
(* has returned in its shutdown, however the datagrams of its camera and   *)
(* of others interleave with it: handleReceive calls under the lock that   *)
(* unsubscribe takes.                                                      *)
(***************************************************************************)
NoCallbackAfterUnsubscribe ==
  ioPc = "calling" => \A o \in todo : life[o] \in {"live", "unsubscribing"}

(***************************************************************************)
(* The receive loop never breaks: as long as isRunning holds, a receive is *)
(* pending, has failed and will be handled, or the handler that starts the *)
(* next one is at work, in a thread that still runs.                       *)
(***************************************************************************)
RunningMeansReceiving ==
  running => /\ ioThread = "running" /\ ~ioStopped
             /\ op \in {"receive", "failed"} \/ ioPc # "wait"

(***************************************************************************)
(* Every datagram handed on goes to a subscribed object of its sender, in  *)
(* order and once: the server is a PacketRouter.                           *)
(***************************************************************************)
Router == INSTANCE PacketRouter WITH
            subscribed <- {o \in Objs : o \in callbacks[IpOf[o]]}

RouterSpec == Router!Spec

(***************************************************************************)
(* A datagram queued for a live object is handed to it, through receive    *)
(* errors and full queues, unless an object is shut down or a callback     *)
(* throws before its turn comes.                                           *)
(***************************************************************************)
Queued(o, n) == \E i \in DOMAIN kernel : kernel[i] = [ip |-> IpOf[o], n |-> n]

Undisturbed ==
  /\ ioThread # "threw"
  /\ \A o \in Objs : life[o] \in {"absent", "subscribing", "live", "freed"}

QueuedIsDelivered ==
  \A o \in Objs : \A n \in 1..MaxPackets :
    life[o] = "live" /\ Queued(o, n) ~> last[o] >= n \/ ~Undisturbed

\* A shutdown that has come to unsubscribe returns, whoever holds the lock
\* meanwhile and whatever the callbacks throw.
ShutdownReturns ==
  \A o \in Objs : life[o] = "unsubscribing" ~> life[o] \in {"gone", "freed"}

(***************************************************************************)
(* An object whose constructor has returned and that was not shut down is  *)
(* subscribed at a server that receives.                                   *)
(***************************************************************************)
LiveMeansServed ==
  \A o \in Objs : life[o] = "live" => running /\ o \in callbacks[IpOf[o]]
===============================================================================
