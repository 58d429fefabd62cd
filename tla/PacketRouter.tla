----------------------------- MODULE PacketRouter -----------------------------
(***************************************************************************)
(* What a camera object may rely on once it has subscribed to the UDP      *)
(* server: it is handed datagrams of its own camera only, in the order     *)
(* they reached the host, none of them twice, and none after its camera    *)
(* was unsubscribed.  Any datagram may be lost.                            *)
(***************************************************************************)
EXTENDS Naturals

CONSTANTS Objs, Ips, IpOf, MaxPackets

VARIABLES
  sent,        \* datagrams of each camera that reached the host
  subscribed,  \* the objects that are subscribed
  last         \* the number of the last datagram handed to each object

vars == <<sent, subscribed, last>>

Init ==
  /\ sent = [ip \in Ips |-> 0]
  /\ subscribed = {}
  /\ last = [o \in Objs |-> 0]

Send(ip) ==
  /\ sent[ip] < MaxPackets
  /\ sent' = [sent EXCEPT ![ip] = @ + 1]
  /\ UNCHANGED <<subscribed, last>>

Subscribe(o) ==
  /\ subscribed' = subscribed \cup {o}
  /\ UNCHANGED <<sent, last>>

Unsubscribe(S) ==
  /\ subscribed' = subscribed \ S
  /\ UNCHANGED <<sent, last>>

Deliver(o, n) ==
  /\ o \in subscribed
  /\ last[o] < n /\ n <= sent[IpOf[o]]
  /\ last' = [last EXCEPT ![o] = n]
  /\ UNCHANGED <<sent, subscribed>>

Next ==
  \/ \E ip \in Ips : Send(ip)
  \/ \E o \in Objs : Subscribe(o)
  \/ \E S \in SUBSET Objs : Unsubscribe(S)
  \/ \E o \in Objs, n \in 1..MaxPackets : Deliver(o, n)

Spec == Init /\ [][Next]_vars
===============================================================================
