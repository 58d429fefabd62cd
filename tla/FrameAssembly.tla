----------------------------- MODULE FrameAssembly -----------------------------
(***************************************************************************)
(* How the datagrams of one camera become frames: the callback that the    *)
(* constructor of ToF320 subscribes (driver/src/tof320.cpp) with the parts *)
(* of Frame (driver/src/frame.cpp) that move data.                         *)
(*                                                                         *)
(* The payload of a datagram is the number of the frame it was taken from. *)
(* ToF320::data is one cell per datagram of a frame (a camera writes the   *)
(* k-th datagram at the k-th offset); a Frame object is what sortData has  *)
(* copied into it.  Every callback is a single step: the io thread runs it *)
(* to its end, with the subscribers of frameReady.                         *)
(***************************************************************************)
EXTENDS Naturals, Sequences, FiniteSets

CONSTANTS
  Sizes,      \* the numbers of datagrams a frame may take
  MaxFrames,  \* bound: frames the camera starts
  MaxFaults,  \* bound: datagrams lost or overtaken
  Faults      \* the kinds of fault that may happen

ASSUME SizesArePositive == Sizes \subseteq Nat \ {0} /\ \E m \in Sizes : \A s \in Sizes : s <= m
ASSUME BoundsAreNat == MaxFrames \in Nat \ {0} /\ MaxFaults \in Nat
ASSUME FaultsAreKnown == Faults \subseteq {"join", "first", "middle", "last", "swap", "cross"}

VARIABLES
  frame,      \* the frame the camera is sending, 0 before the first
  size,       \* its number of datagrams
  next,       \* the datagram it sends next
  net,        \* datagrams under way
  faults,     \* faults so far
  heads,      \* how many of them took the first datagram of a frame
  data,       \* ToF320::data: the frame each cell was written for
  heap,       \* the Frame objects made so far
  currentFrame,  \* ToF320::currentFrame: an index of heap, 0 for null
  delivered,  \* what frameReady has passed on: the object and its content then
  infos,      \* how often cameraInfoReady was called
  crashed     \* a null currentFrame was used

camera == <<frame, size, next>>
trouble == <<faults, heads>>
driver == <<data, heap, currentFrame, delivered, infos, crashed>>
vars == <<camera, net, trouble, driver>>

Cells == 0..(CHOOSE m \in Sizes : \A s \in Sizes : s <= m) - 1

Init ==
  /\ size \in Sizes
  /\ \/ frame = 0 /\ next = size
     \/ "join" \in Faults /\ MaxFaults > 0 /\ frame = 1 /\ next \in 1..size - 1
  /\ net = <<>>
  /\ faults = frame /\ heads = frame
  /\ data = [k \in Cells |-> 0]
  /\ heap = <<>> /\ currentFrame = 0
  /\ delivered = <<>> /\ infos = 0 /\ crashed = FALSE

-------------------------------------------------------------------------------
(* The camera and the network (external) *)

StartFrame ==
  /\ next = size
  /\ frame < MaxFrames
  /\ frame' = frame + 1
  /\ size' \in Sizes
  /\ next' = 0
  /\ UNCHANGED <<net, trouble, driver>>

Datagram == [frame |-> frame, num |-> next, of |-> size]

Place == IF next = 0 THEN "first" ELSE IF next = size - 1 THEN "last" ELSE "middle"

SendDatagram ==
  /\ next < size
  /\ next' = next + 1
  /\ net' = Append(net, Datagram)
  /\ UNCHANGED <<frame, size, trouble, driver>>

LoseDatagram ==
  /\ next < size
  /\ Place \in Faults /\ faults < MaxFaults
  /\ next' = next + 1 /\ faults' = faults + 1
  /\ heads' = IF next = 0 THEN heads + 1 ELSE heads
  /\ UNCHANGED <<frame, size, net, driver>>

IsLast(d) == d.num # 0 /\ d.num = d.of - 1

\* Two neighbours of one frame change places; "cross" is the harsher kind, in
\* which a last datagram comes before the first of its frame or after the
\* first of the next.
Overtake ==
  /\ faults < MaxFaults
  /\ \E i \in 1..Len(net) - 1 :
       /\ "cross" \in Faults
          \/ /\ "swap" \in Faults
             /\ net[i].frame = net[i + 1].frame
             /\ ~(net[i].num = 0 /\ IsLast(net[i + 1]))
       /\ net' = [net EXCEPT ![i] = net[i + 1], ![i + 1] = net[i]]
  /\ faults' = faults + 1
  /\ UNCHANGED <<camera, heads, driver>>

-------------------------------------------------------------------------------
(* The callback *)

Receive == ~crashed /\ net # <<>> /\ net' = Tail(net)

Store(d) == data' = [data EXCEPT ![d.num] = d.frame]

\* Faulty variant of SortData: the first cell is forgotten.
SortDataLate(f, from) == [f EXCEPT !.content = [k \in 1..f.of - 1 |-> from[k]]]

\* sortData copies what the frame's size covers.
SortData(f, from) == [f EXCEPT !.content = [k \in 0..f.of - 1 |-> from[k]]]

\* The last datagram of a frame: sortData, computeFrame and frameReady.
Complete(from) ==
  IF currentFrame = 0
    THEN crashed' = TRUE /\ UNCHANGED <<heap, delivered>>
    ELSE LET f == SortData(heap[currentFrame], from)
         IN  /\ heap' = [heap EXCEPT ![currentFrame] = f]
             /\ delivered' = Append(delivered, [object |-> currentFrame, frame |-> f])
             /\ UNCHANGED crashed

\* Faulty variants of FirstDatagram: the object of the last frame is used
\* again, and the buffer is cleared.
FirstDatagramReuse ==
  LET d == Head(net) IN
    /\ Receive /\ d.num = 0
    /\ Store(d)
    /\ heap' = IF heap = <<>> THEN <<[of |-> d.of, content |-> <<>>]>> ELSE heap
    /\ currentFrame' = 1
    /\ infos' = infos + 1
    /\ UNCHANGED <<camera, trouble, delivered, crashed>>

FirstDatagramClears ==
  LET d == Head(net) IN
    /\ Receive /\ d.num = 0
    /\ data' = [k \in Cells |-> IF k = 0 THEN d.frame ELSE 0]
    /\ heap' = Append(heap, [of |-> d.of, content |-> <<>>])
    /\ currentFrame' = Len(heap) + 1
    /\ infos' = infos + 1
    /\ UNCHANGED <<camera, trouble, delivered, crashed>>

\* A new frame: an object of the size its header gives, and its CameraInfo.
FirstDatagram ==
  LET d == Head(net) IN
    /\ Receive /\ d.num = 0
    /\ Store(d)
    /\ heap' = Append(heap, [of |-> d.of, content |-> <<>>])
    /\ currentFrame' = Len(heap) + 1
    /\ infos' = infos + 1
    /\ UNCHANGED <<camera, trouble, delivered, crashed>>

\* Faulty variant of MiddleDatagram: the payload is not stored.
MiddleDatagramSkipped ==
  LET d == Head(net) IN
    /\ Receive /\ d.num # 0 /\ ~IsLast(d)
    /\ UNCHANGED <<camera, trouble, driver>>

MiddleDatagram ==
  LET d == Head(net) IN
    /\ Receive /\ d.num # 0 /\ ~IsLast(d)
    /\ Store(d)
    /\ UNCHANGED <<camera, trouble, heap, currentFrame, delivered, infos, crashed>>

\* Faulty variant of LastDatagram: the frame is sorted before its last payload
\* is stored.
LastDatagramStale ==
  LET d == Head(net) IN
    /\ Receive /\ IsLast(d)
    /\ Store(d)
    /\ Complete(data)
    /\ UNCHANGED <<camera, trouble, currentFrame, infos>>

LastDatagram ==
  LET d == Head(net) IN
    /\ Receive /\ IsLast(d)
    /\ Store(d)
    /\ Complete(data')
    /\ UNCHANGED <<camera, trouble, currentFrame, infos>>

-------------------------------------------------------------------------------
Callback == FirstDatagram \/ MiddleDatagram \/ LastDatagram

Camera == StartFrame \/ SendDatagram \/ LoseDatagram \/ Overtake

Next == Callback \/ Camera

Spec == Init /\ [][Next]_vars

\* The io thread handles what arrives, and a camera finishes what it starts.
FairSpec == Spec /\ WF_vars(Callback) /\ WF_vars(SendDatagram)

-------------------------------------------------------------------------------
Contents(f) == {f.content[k] : k \in DOMAIN f.content}

Datagrams == [frame : 1..MaxFrames, num : Cells, of : Sizes]
FrameObjects == [of : Sizes, content : {<<>>} \cup UNION {[0..s - 1 -> 0..MaxFrames] : s \in Sizes}]

TypeOK ==
  /\ frame \in 0..MaxFrames /\ size \in Sizes /\ next \in 0..size
  /\ net \in Seq(Datagrams)
  /\ faults \in 0..MaxFaults /\ heads \in 0..faults
  /\ data \in [Cells -> 0..MaxFrames]
  /\ heap \in Seq(FrameObjects) /\ currentFrame \in 0..Len(heap)
  /\ delivered \in Seq([object : 1..Len(heap), frame : FrameObjects])
  /\ infos \in Nat /\ crashed \in BOOLEAN

(***************************************************************************)
(* A Frame that a subscriber has been given is its own from then on: later *)
(* datagrams neither change its content nor bring it a second time.  The   *)
(* exceptions are as many as frames whose first datagram was lost: each    *)
(* makes the io thread fill the object of the frame before once more.      *)
(***************************************************************************)
TakenBack ==
  {i \in DOMAIN delivered :
     \/ heap[delivered[i].object] # delivered[i].frame
     \/ \E j \in DOMAIN delivered : i < j /\ delivered[i].object = delivered[j].object}

OneTakenBackPerHead == Cardinality(TakenBack) <= heads

(***************************************************************************)
(* Lost datagrams leave holes that show older frames, and yet a subscriber *)
(* never sees time run backwards: whatever is delivered later is nowhere   *)
(* older than what was delivered before.  Unless a first datagram was      *)
(* lost, the last datagram of what is delivered is new.                    *)
(***************************************************************************)
NeverOlder ==
  \A i, j \in DOMAIN delivered : i < j =>
    \A k \in DOMAIN delivered[i].frame.content \cap DOMAIN delivered[j].frame.content :
      delivered[i].frame.content[k] <= delivered[j].frame.content[k]

LastCellIsNewest ==
  heads = 0 =>
    \A i \in DOMAIN delivered :
      LET f == delivered[i].frame
      IN  \A k \in DOMAIN f.content : f.content[k] <= f.content[f.of - 1]

(***************************************************************************)
(* Where nothing is lost and a frame has two datagrams at least, the       *)
(* subscriber sees the frames of the camera, whole, once and in order.     *)
(***************************************************************************)
FrameOf(f) == IF \E n \in Contents(f) : Contents(f) = {n}
                THEN CHOOSE n \in Contents(f) : TRUE ELSE 0

Delivery == INSTANCE FrameDelivery WITH
              started <- frame,
              announced <- infos,
              out <- [i \in DOMAIN delivered |-> FrameOf(delivered[i].frame)]

\* As long as nothing is lost or overtaken, every step is one of the service.
DeliverySpec ==
  /\ faults = 0 => Delivery!Init
  /\ [][faults' = 0 => Delivery!Next \/ UNCHANGED Delivery!vars]_vars

\* Every frame the camera starts is delivered in the end, unless there was a fault.
EveryFrameArrives ==
  \A n \in 1..MaxFrames :
    frame = n ~> \/ \E i \in DOMAIN delivered : Contents(delivered[i].frame) = {n}
                 \/ faults > 0
===============================================================================
