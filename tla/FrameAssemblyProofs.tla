-------------------------- MODULE FrameAssemblyProofs --------------------------
(***************************************************************************)
(* For frames of any sizes, any number of frames and of faults, as long as *)
(* a last datagram does not come before the first of its frame ("cross"):  *)
(* time never runs backwards for a subscriber, and unless a first datagram *)
(* was lost, a frame ends with its newest data and is never taken back.    *)
(* Up to the first fault, of whatever kind, the driver implements          *)
(* FrameDelivery, if a frame has two datagrams at least.                   *)
(***************************************************************************)
EXTENDS FrameAssembly, FiniteSetTheorems, TLAPS

-------------------------------------------------------------------------------
(* Types *)

CameraType ==
  /\ frame \in 0..MaxFrames /\ size \in Sizes /\ next \in 0..size
  /\ faults \in 0..MaxFaults /\ heads \in 0..faults
  /\ frame = 0 => next = size

NetType == net \in Seq(Datagrams)

DriverType ==
  /\ data \in [Cells -> 0..MaxFrames]
  /\ heap \in Seq(FrameObjects) /\ currentFrame \in 0..Len(heap)
  /\ infos \in Nat /\ crashed \in BOOLEAN

DeliveredType == delivered \in Seq([object : 1..Len(heap), frame : FrameObjects])

TInv == CameraType /\ NetType /\ DriverType /\ DeliveredType

LEMMA SeqGrows ==
  ASSUME NEW S, NEW T, S \subseteq T, NEW s \in Seq(S) PROVE s \in Seq(T)
  OBVIOUS

LEMMA TypeParts == TInv => TypeOK
  BY DEF TInv, CameraType, NetType, DriverType, DeliveredType, TypeOK

\* Every datagram of a frame has its cell.
LEMMA CellsCover ==
  /\ Cells \subseteq Nat
  /\ 0 \in Cells
  /\ \A s \in Sizes : s \in Nat /\ s > 0
  /\ \A s \in Sizes : 0..s - 1 \subseteq Cells
<1> DEFINE biggest == CHOOSE m \in Sizes : \A s \in Sizes : s <= m
<1>1. biggest \in Sizes /\ \A s \in Sizes : s <= biggest
  BY SizesArePositive
<1>2. Cells = 0..biggest - 1
  BY DEF Cells
<1> HIDE DEF biggest
<1>3. \A s \in Sizes : s \in Nat /\ s > 0
  BY SizesArePositive
<1> QED
  BY <1>1, <1>2, <1>3

\* Every action keeps the types of the camera.
LEMMA CameraTypeStep ==
  ASSUME CameraType, [Next]_vars PROVE CameraType'
<1> USE CellsCover, BoundsAreNat
<1> USE DEF CameraType, camera, trouble, driver
<1>1. CASE StartFrame
  BY <1>1 DEF StartFrame
<1>2. CASE SendDatagram
  BY <1>2 DEF SendDatagram
<1>3. CASE LoseDatagram
  BY <1>3 DEF LoseDatagram
<1>4. CASE Overtake
  BY <1>4 DEF Overtake
<1>5. CASE FirstDatagram
  BY <1>5 DEF FirstDatagram
<1>6. CASE MiddleDatagram
  BY <1>6 DEF MiddleDatagram
<1>7. CASE LastDatagram
  BY <1>7 DEF LastDatagram
<1>8. CASE UNCHANGED vars
  BY <1>8 DEF vars
<1> QED
  BY <1>1, <1>2, <1>3, <1>4, <1>5, <1>6, <1>7, <1>8 DEF Next, Callback, Camera

\* A camera that is in a frame sends a datagram of it.
LEMMA DatagramType ==
  ASSUME CameraType, next < size
  PROVE  Datagram \in Datagrams
<1>1. frame \in 1..MaxFrames
  BY CellsCover, BoundsAreNat DEF CameraType
<1>2. next \in Cells /\ size \in Sizes
  BY CellsCover DEF CameraType
<1> QED
  BY <1>1, <1>2 DEF Datagram, Datagrams

\* What the first datagram under way is.
LEMMA HeadType ==
  ASSUME NetType, net # <<>>
  PROVE  /\ Head(net) \in Datagrams /\ Head(net) = net[1]
         /\ Tail(net) \in Seq(Datagrams)
         /\ Len(Tail(net)) = Len(net) - 1 /\ Len(net) \in Nat /\ Len(net) > 0
         /\ \A i \in 1..Len(Tail(net)) : Tail(net)[i] = net[i + 1] /\ i + 1 \in 1..Len(net)
  BY DEF NetType

LEMMA NetTypeStep ==
  ASSUME TInv, [Next]_vars PROVE NetType'
<1> USE DEF TInv, NetType
<1>1. CASE StartFrame
  BY <1>1 DEF StartFrame
<1>2. CASE SendDatagram
  BY <1>2, DatagramType DEF SendDatagram
<1>3. CASE LoseDatagram
  BY <1>3 DEF LoseDatagram
<1>4. CASE Overtake
  BY <1>4 DEF Overtake
<1>5. CASE FirstDatagram
  BY <1>5 DEF FirstDatagram, Receive
<1>6. CASE MiddleDatagram
  BY <1>6 DEF MiddleDatagram, Receive
<1>7. CASE LastDatagram
  BY <1>7 DEF LastDatagram, Receive
<1>8. CASE UNCHANGED vars
  BY <1>8 DEF vars
<1> QED
  BY <1>1, <1>2, <1>3, <1>4, <1>5, <1>6, <1>7, <1>8 DEF Next, Callback, Camera

\* Storing a datagram keeps the type of the buffer.
LEMMA StoreType ==
  ASSUME DriverType, NEW d \in Datagrams, Store(d)
  PROVE  data' \in [Cells -> 0..MaxFrames]
<1>1. d.num \in Cells /\ d.frame \in 0..MaxFrames
  BY BoundsAreNat DEF Datagrams
<1> QED
  BY <1>1 DEF DriverType, Store

\* What sortData copies.
LEMMA SortDataType ==
  ASSUME NEW f \in FrameObjects, NEW from \in [Cells -> 0..MaxFrames]
  PROVE  /\ SortData(f, from) \in FrameObjects
         /\ SortData(f, from).of = f.of /\ f.of \in Sizes
         /\ DOMAIN SortData(f, from).content = 0..f.of - 1
         /\ \A k \in 0..f.of - 1 : k \in Cells /\ SortData(f, from).content[k] = from[k]
<1>1. f.of \in Sizes
  BY DEF FrameObjects
<1>2. 0..f.of - 1 \subseteq Cells
  BY <1>1, CellsCover
<1> DEFINE copy == [k \in 0..f.of - 1 |-> from[k]]
<1>3. copy \in [0..f.of - 1 -> 0..MaxFrames]
  BY <1>2
<1>4. SortData(f, from) = [of |-> f.of, content |-> copy]
  <2>1. f = [of |-> f.of, content |-> f.content]
    BY Zenon DEF FrameObjects
  <2>2. SortData(f, from) = [f EXCEPT !.content = copy]
    BY DEF SortData
  <2> HIDE DEF copy
  <2>3. [f EXCEPT !.content = copy] = [of |-> f.of, content |-> copy]
    BY <2>1
  <2> QED
    BY <2>2, <2>3
<1> HIDE DEF copy
<1>5. SortData(f, from) \in FrameObjects
  BY <1>1, <1>3, <1>4 DEF FrameObjects
<1>6. DOMAIN copy = 0..f.of - 1 /\ \A k \in 0..f.of - 1 : copy[k] = from[k]
  BY DEF copy
<1> QED
  BY <1>1, <1>2, <1>4, <1>5, <1>6

\* A new frame object is one.
LEMMA NewFrameType ==
  ASSUME NEW d \in Datagrams
  PROVE  [of |-> d.of, content |-> <<>>] \in FrameObjects /\ d.of \in Sizes
  BY DEF Datagrams, FrameObjects
(***************************************************************************)
(* The callback of a last datagram, in a form that the steps below share.  *)
(***************************************************************************)
LEMMA LastEffect ==
  ASSUME TInv, LastDatagram, currentFrame # 0
  PROVE  /\ currentFrame \in 1..Len(heap) /\ heap[currentFrame] \in FrameObjects
         /\ data' \in [Cells -> 0..MaxFrames]
         /\ SortData(heap[currentFrame], data') \in FrameObjects
         /\ heap' = [heap EXCEPT ![currentFrame] = SortData(heap[currentFrame], data')]
         /\ delivered' = Append(delivered, [object |-> currentFrame,
                                            frame |-> SortData(heap[currentFrame], data')])
         /\ crashed' = crashed
<1>1. data' \in [Cells -> 0..MaxFrames]
  BY HeadType, StoreType DEF TInv, LastDatagram, Receive
<1>2. heap[currentFrame] \in FrameObjects /\ currentFrame \in 1..Len(heap)
  BY DEF TInv, DriverType
<1>3. SortData(heap[currentFrame], data') \in FrameObjects
  BY <1>1, <1>2, SortDataType
<1> QED
  BY <1>1, <1>2, <1>3 DEF LastDatagram, Complete

LEMMA LastNull ==
  ASSUME LastDatagram, currentFrame = 0
  PROVE  crashed' = TRUE /\ UNCHANGED <<heap, delivered>>
  BY DEF LastDatagram, Complete

LEMMA DriverTypeStep ==
  ASSUME TInv, [Next]_vars PROVE DriverType'
<1> USE DEF TInv, camera, trouble, driver
<1>1. CASE StartFrame
  BY <1>1 DEF StartFrame, DriverType
<1>2. CASE SendDatagram
  BY <1>2 DEF SendDatagram, DriverType
<1>3. CASE LoseDatagram
  BY <1>3 DEF LoseDatagram, DriverType
<1>4. CASE Overtake
  BY <1>4 DEF Overtake, DriverType
<1>5. CASE FirstDatagram
  <2> DEFINE d == Head(net)
  <2>1. d \in Datagrams /\ Store(d)
    BY <1>5, HeadType DEF FirstDatagram, Receive
  <2>2. data' \in [Cells -> 0..MaxFrames]
    BY <2>1, StoreType
  <2>3. [of |-> d.of, content |-> <<>>] \in FrameObjects
    BY <2>1, NewFrameType
  <2> QED
    BY <2>2, <2>3, <1>5 DEF FirstDatagram, DriverType
<1>6. CASE MiddleDatagram
  <2> DEFINE d == Head(net)
  <2>1. d \in Datagrams /\ Store(d)
    BY <1>6, HeadType DEF MiddleDatagram, Receive
  <2>2. data' \in [Cells -> 0..MaxFrames]
    BY <2>1, StoreType
  <2> QED
    BY <2>2, <1>6 DEF MiddleDatagram, DriverType
<1>7. CASE LastDatagram
  <2> DEFINE d == Head(net)
  <2>1. d \in Datagrams /\ Store(d)
    BY <1>7, HeadType DEF LastDatagram, Receive
  <2>2. data' \in [Cells -> 0..MaxFrames]
    BY <2>1, StoreType
  <2>3. CASE currentFrame = 0
    BY <2>2, <2>3, <1>7 DEF LastDatagram, Complete, DriverType
  <2>4. CASE currentFrame # 0
    <3> DEFINE f == SortData(heap[currentFrame], data')
    <3>1. /\ currentFrame \in 1..Len(heap) /\ f \in FrameObjects
          /\ heap' = [heap EXCEPT ![currentFrame] = f] /\ crashed' = crashed
      BY <2>4, <1>7, LastEffect
    <3> HIDE DEF f
    <3>2. heap' \in Seq(FrameObjects) /\ Len(heap') = Len(heap)
      BY <3>1 DEF DriverType
    <3> QED
      BY <2>2, <3>1, <3>2, <1>7 DEF LastDatagram, DriverType
  <2> QED
    BY <2>3, <2>4
<1>8. CASE UNCHANGED vars
  BY <1>8 DEF vars, DriverType
<1> QED
  BY <1>1, <1>2, <1>3, <1>4, <1>5, <1>6, <1>7, <1>8 DEF Next, Callback, Camera

\* The objects stay, and the sequence of delivered frames grows at its end.
LEMMA DeliveredTypeStep ==
  ASSUME TInv, [Next]_vars PROVE DeliveredType'
<1> USE DEF TInv, DeliveredType, camera, trouble, driver
<1>1. CASE StartFrame
  BY <1>1 DEF StartFrame
<1>2. CASE SendDatagram
  BY <1>2 DEF SendDatagram
<1>3. CASE LoseDatagram
  BY <1>3 DEF LoseDatagram
<1>4. CASE Overtake
  BY <1>4 DEF Overtake
<1>5. CASE FirstDatagram
  <2>1. Len(heap') = Len(heap) + 1 /\ Len(heap) \in Nat /\ delivered' = delivered
    BY <1>5 DEF FirstDatagram, DriverType
  <2>2. 1..Len(heap) \subseteq 1..Len(heap')
    BY <2>1
  <2>3. [object : 1..Len(heap), frame : FrameObjects]
          \subseteq [object : 1..Len(heap'), frame : FrameObjects]
    BY <2>2
  <2> QED
    BY <2>1, <2>3, SeqGrows
<1>6. CASE MiddleDatagram
  BY <1>6 DEF MiddleDatagram
<1>7. CASE LastDatagram
  <2>1. CASE currentFrame = 0
    BY <2>1, <1>7, LastNull
  <2>2. CASE currentFrame # 0
    <3> DEFINE f == SortData(heap[currentFrame], data')
    <3>1. /\ currentFrame \in 1..Len(heap) /\ f \in FrameObjects
          /\ heap' = [heap EXCEPT ![currentFrame] = f]
          /\ delivered' = Append(delivered, [object |-> currentFrame, frame |-> f])
      BY <2>2, <1>7, LastEffect
    <3> HIDE DEF f
    <3>2. Len(heap') = Len(heap)
      BY <3>1 DEF DriverType
    <3>3. [object |-> currentFrame, frame |-> f] \in [object : 1..Len(heap), frame : FrameObjects]
      BY <3>1
    <3> QED
      BY <3>1, <3>2, <3>3
  <2> QED
    BY <2>1, <2>2
<1>8. CASE UNCHANGED vars
  BY <1>8 DEF vars
<1> QED
  BY <1>1, <1>2, <1>3, <1>4, <1>5, <1>6, <1>7, <1>8 DEF Next, Callback, Camera

LEMMA TypeInit ==
  ASSUME Init PROVE TInv
<1> USE CellsCover, BoundsAreNat
<1>1. CameraType
  BY DEF Init, CameraType
<1>2. NetType
  BY DEF Init, NetType
<1>3. DriverType
  <2>1. data \in [Cells -> 0..MaxFrames]
    BY DEF Init
  <2>2. heap \in Seq(FrameObjects) /\ Len(heap) = 0
    BY DEF Init
  <2> QED
    BY <2>1, <2>2 DEF Init, DriverType
<1>4. DeliveredType
  BY DEF Init, DeliveredType
<1> QED
  BY <1>1, <1>2, <1>3, <1>4 DEF TInv

LEMMA TypeStep ==
  ASSUME TInv, [Next]_vars PROVE TInv'
  BY CameraTypeStep, NetTypeStep, DriverTypeStep, DeliveredTypeStep DEF TInv

\* The types of camera, network, driver and what was delivered, with any faults.
THEOREM TypeCorrect == Spec => []TypeOK
<1>1. Spec => []TInv
  BY TypeInit, TypeStep, PTL DEF Spec
<1> QED
  BY <1>1, TypeParts, PTL
-------------------------------------------------------------------------------
(* The inductive invariant *)

(***************************************************************************)
(* Datagrams stay in the order of their frames; within a frame there is    *)
(* one first and one last datagram, the last never before the first.       *)
(***************************************************************************)
InOrder(a, b) ==
  \/ a.frame < b.frame
  \/ /\ a.frame = b.frame
     /\ b.num = 0 => a.num # 0 /\ ~IsLast(a)
     /\ ~(IsLast(a) /\ IsLast(b))

\* What is under way belongs to the frame being sent or to an earlier one.
Sent(d) ==
  /\ d.frame <= frame
  /\ next = 0 => d.frame < frame
  /\ IsLast(d) /\ next < size => d.frame < frame

OrderInv ==
  /\ \A i \in 1..Len(net) : Sent(net[i])
  /\ \A i, j \in 1..Len(net) : i < j => InOrder(net[i], net[j])

(***************************************************************************)
(* Nothing in the buffer is newer than what is still to come, and nothing  *)
(* that was delivered is newer than the buffer.                            *)
(***************************************************************************)
DataInv ==
  /\ \A k \in Cells : data[k] <= frame
  /\ \A k \in Cells : \A i \in 1..Len(net) : data[k] <= net[i].frame

DeliveredInv ==
  \A n \in DOMAIN delivered : \A k \in DOMAIN delivered[n].frame.content :
    k \in Cells /\ delivered[n].frame.content[k] <= data[k]

(***************************************************************************)
(* Before its last datagram comes, a frame has an object of its own that   *)
(* was not delivered yet, or will have: its first datagram is among the    *)
(* first n under way.                                                      *)
(***************************************************************************)
Coming(f, s, n) ==
  \E j \in 1..n : net[j].num = 0 /\ net[j].frame = f /\ net[j].of = s

Begun(f, s, n) ==
  /\ \A j \in 1..n : net[j].num # 0
  /\ currentFrame # 0 /\ heap[currentFrame].of = s /\ data[0] = f
  /\ \A m \in DOMAIN delivered : delivered[m].object # currentFrame

Ready(f, s, n) == Coming(f, s, n) \/ Begun(f, s, n)

Served(f) ==
  /\ f = frame /\ 0 < next /\ next < size => Ready(frame, size, Len(net))
  /\ \A i \in 1..Len(net) :
       IsLast(net[i]) /\ net[i].frame = f => Ready(net[i].frame, net[i].of, i - 1)

\* The frames whose last datagram will come to an object that is not theirs.
Unserved == {f \in 1..frame : ~Served(f)}

\* The deliveries that a later one of the same object took back.
Again ==
  {i \in DOMAIN delivered :
     \E j \in DOMAIN delivered : i < j /\ delivered[i].object = delivered[j].object}

\* An object holds what it was last delivered with, ...
ObjectInv ==
  \A i \in DOMAIN delivered : heap[delivered[i].object] # delivered[i].frame => i \in Again

(***************************************************************************)
(* ... and a lost first datagram pays for one delivery that was taken back *)
(* or will be.                                                             *)
(***************************************************************************)
CountInv == Cardinality(Again) + Cardinality(Unserved) <= heads

IInv ==
  /\ TInv /\ OrderInv /\ DataInv /\ DeliveredInv /\ ObjectInv /\ CountInv
  /\ NeverOlder /\ LastCellIsNewest

-------------------------------------------------------------------------------
(* The order of the datagrams *)

\* What a callback and SendDatagram do with the datagrams under way, ...
LEMMA CallbackTakes ==
  ASSUME TInv, Callback
  PROVE  /\ Len(net) \in Nat /\ Len(net) > 0 /\ Head(net) = net[1] /\ net[1] \in Datagrams
         /\ net' = Tail(net) /\ Len(net') = Len(net) - 1 /\ net' \in Seq(Datagrams)
         /\ \A i \in 1..Len(net') : net'[i] = net[i + 1] /\ i + 1 \in 1..Len(net)
         /\ UNCHANGED camera /\ UNCHANGED trouble
<1>1. net # <<>> /\ net' = Tail(net) /\ UNCHANGED camera /\ UNCHANGED trouble
  BY DEF Callback, FirstDatagram, MiddleDatagram, LastDatagram, Receive
<1> QED
  BY <1>1, HeadType DEF TInv

LEMMA SendAppends ==
  ASSUME TInv, SendDatagram
  PROVE  /\ Len(net) \in Nat /\ net' = Append(net, Datagram) /\ Len(net') = Len(net) + 1
         /\ net'[Len(net) + 1] = Datagram
         /\ \A i \in 1..Len(net) : net'[i] = net[i] /\ net'[i] \in Datagrams
         /\ Datagram.frame = frame /\ Datagram.num = next /\ Datagram.of = size
         /\ Datagram \in Datagrams
         /\ frame \in Nat /\ size \in Nat /\ next \in Nat /\ next < size
         /\ frame' = frame /\ size' = size /\ next' = next + 1
<1>1. Datagram \in Datagrams
  BY DatagramType DEF TInv, SendDatagram
<1>2. frame \in Nat /\ size \in Nat /\ next \in Nat
  BY CellsCover, BoundsAreNat DEF TInv, CameraType
<1>3. net \in Seq(Datagrams)
  BY DEF TInv, NetType
<1> QED
  BY <1>1, <1>2, <1>3 DEF SendDatagram, Datagram

\* ... and the place that an overtaken datagram changes with its neighbour.
Swapped(i, j) == IF j = i THEN i + 1 ELSE IF j = i + 1 THEN i ELSE j

LEMMA OvertakeSwaps ==
  ASSUME TInv, Overtake, "cross" \notin Faults
  PROVE  \E i \in 1..Len(net) - 1 :
           /\ Len(net) \in Nat /\ Len(net') = Len(net)
           /\ net[i].frame = net[i + 1].frame
           /\ ~(net[i].num = 0 /\ IsLast(net[i + 1]))
           /\ \A j \in 1..Len(net) : /\ Swapped(i, j) \in 1..Len(net)
                                     /\ net'[j] = net[Swapped(i, j)]
           /\ UNCHANGED camera /\ UNCHANGED driver /\ heads' = heads
<1>1. PICK i \in 1..Len(net) - 1 :
        /\ net[i].frame = net[i + 1].frame
        /\ ~(net[i].num = 0 /\ IsLast(net[i + 1]))
        /\ net' = [net EXCEPT ![i] = net[i + 1], ![i + 1] = net[i]]
  BY DEF Overtake
<1>2. net \in Seq(Datagrams) /\ Len(net) \in Nat
  BY DEF TInv, NetType
<1>3. Len(net') = Len(net)
  BY <1>1, <1>2
<1>4. \A j \in 1..Len(net) : net'[j] = net[Swapped(i, j)] /\ Swapped(i, j) \in 1..Len(net)
  BY <1>1, <1>2 DEF Swapped
<1> QED
  BY <1>1, <1>2, <1>3, <1>4 DEF Overtake

LEMMA NumbersOf ==
  ASSUME NEW d \in Datagrams
  PROVE  d.frame \in Nat /\ d.num \in Nat /\ d.of \in Nat /\ d.of > 0 /\ d.num \in Cells
         /\ d.of \in Sizes /\ d.frame > 0
<1>1. d.frame \in 1..MaxFrames /\ d.num \in Cells /\ d.of \in Sizes
  BY DEF Datagrams
<1>2. d.frame \in Nat /\ d.frame > 0
  BY <1>1, BoundsAreNat
<1>3. d.num \in Nat
  BY <1>1, CellsCover
<1>4. d.of \in Nat /\ d.of > 0
  BY <1>1, CellsCover
<1> QED
  BY <1>1, <1>2, <1>3, <1>4

LEMMA NetIsTyped ==
  ASSUME TInv
  PROVE  /\ Len(net) \in Nat
         /\ \A i \in 1..Len(net) : net[i] \in Datagrams
         /\ frame \in Nat /\ size \in Nat /\ size > 0 /\ next \in Nat /\ next <= size
  BY CellsCover, BoundsAreNat DEF TInv, CameraType, NetType

\* Every step keeps the order.
LEMMA OrderStep ==
  ASSUME TInv, OrderInv, [Next]_vars, "cross" \notin Faults PROVE OrderInv'
<1>n. /\ Len(net) \in Nat /\ \A i \in 1..Len(net) : net[i] \in Datagrams
      /\ frame \in Nat /\ size \in Nat /\ size > 0 /\ next \in Nat /\ next <= size
  BY NetIsTyped
<1>m. \A i \in 1..Len(net) : net[i].frame \in Nat /\ net[i].num \in Nat /\ net[i].of \in Nat
  BY <1>n, NumbersOf
<1>1. CASE StartFrame
  <2>1. \A i \in 1..Len(net) : Sent(net[i])'
    BY <1>1, <1>n, <1>m DEF StartFrame, OrderInv, Sent, IsLast
  <2> QED
    BY <1>1, <2>1 DEF StartFrame, OrderInv, InOrder, IsLast
<1>2. CASE SendDatagram
  <2>1. /\ Len(net') = Len(net) + 1 /\ net'[Len(net) + 1] = Datagram
        /\ \A i \in 1..Len(net) : net'[i] = net[i]
        /\ Datagram.frame = frame /\ Datagram.num = next /\ Datagram.of = size
        /\ next < size /\ frame' = frame /\ size' = size /\ next' = next + 1
    BY <1>2, SendAppends
  <2>2. \A i \in 1..Len(net) : Sent(net[i])'
    BY <2>1, <1>n, <1>m DEF OrderInv, Sent, IsLast
  <2>3. Sent(net[Len(net)])'
    BY <2>1, <1>n DEF Sent, IsLast
  <2>4. \A i \in 1..Len(net) : InOrder(net[i], Datagram)
    BY <2>1, <1>n, <1>m DEF OrderInv, Sent, InOrder, IsLast
  <2>5. ASSUME NEW i \in 1..Len(net'), NEW j \in 1..Len(net'), i < j
        PROVE  InOrder(net[i], net[j])'
    <3>1. i \in 1..Len(net)
      BY <2>1, <2>5, <1>n
    <3>2. CASE j = Len(net) + 1
      BY <3>1, <3>2, <2>1, <2>4 DEF InOrder, IsLast
    <3>3. CASE j # Len(net) + 1
      <4>1. j \in 1..Len(net)
        BY <3>3, <2>1, <1>n
      <4> QED
        BY <4>1, <3>1, <2>1, <2>5 DEF OrderInv, InOrder, IsLast
    <3> QED
      BY <3>2, <3>3
  <2>6. \A i \in 1..Len(net') : i \in 1..Len(net) \/ i = Len(net')
    BY <2>1, <1>n
  <2> QED
    BY <2>2, <2>3, <2>5, <2>6 DEF OrderInv
<1>3. CASE LoseDatagram
  BY <1>3, <1>n, <1>m DEF LoseDatagram, OrderInv, Sent, InOrder, IsLast
<1>4. CASE Overtake
  <2>1. PICK i \in 1..Len(net) - 1 :
           /\ Len(net') = Len(net)
           /\ net[i].frame = net[i + 1].frame
           /\ ~(net[i].num = 0 /\ IsLast(net[i + 1]))
           /\ \A j \in 1..Len(net) : /\ Swapped(i, j) \in 1..Len(net)
                                     /\ net'[j] = net[Swapped(i, j)]
           /\ UNCHANGED camera
    BY <1>4, OvertakeSwaps
  <2>2. \A j \in 1..Len(net') : Sent(net[j])'
    BY <2>1, <1>n, <1>m DEF OrderInv, Sent, IsLast, camera
  <2>3. ASSUME NEW p \in 1..Len(net'), NEW q \in 1..Len(net'), p < q
        PROVE  InOrder(net[p], net[q])'
    <3>1. CASE p = i /\ q = i + 1
      <4>1. InOrder(net[i], net[i + 1])
        BY <2>1, <1>n DEF OrderInv
      <4>2. net'[p] = net[i + 1] /\ net'[q] = net[i]
        BY <2>1, <3>1, <1>n DEF Swapped
      <4> QED
        BY <4>1, <4>2, <2>1, <1>n, <1>m DEF InOrder, IsLast
    <3>2. CASE ~(p = i /\ q = i + 1)
      <4>1. Swapped(i, p) < Swapped(i, q) /\ Swapped(i, p) \in 1..Len(net) /\ Swapped(i, q) \in 1..Len(net)
        BY <2>1, <3>2, <2>3, <1>n DEF Swapped
      <4>2. InOrder(net[Swapped(i, p)], net[Swapped(i, q)])
        BY <4>1 DEF OrderInv
      <4>3. net'[p] = net[Swapped(i, p)] /\ net'[q] = net[Swapped(i, q)]
        BY <2>1
      <4> QED
        BY <4>2, <4>3 DEF InOrder, IsLast
    <3> QED
      BY <3>1, <3>2
  <2> QED
    BY <2>2, <2>3 DEF OrderInv
<1>5. CASE Callback
  <2>1. /\ Len(net') = Len(net) - 1 /\ UNCHANGED camera
        /\ \A i \in 1..Len(net') : net'[i] = net[i + 1] /\ i + 1 \in 1..Len(net)
    BY <1>5, CallbackTakes
  <2>2. \A i \in 1..Len(net') : Sent(net[i])'
    BY <2>1, <1>n DEF OrderInv, Sent, IsLast, camera
  <2>3. ASSUME NEW i \in 1..Len(net'), NEW j \in 1..Len(net'), i < j
        PROVE  InOrder(net[i], net[j])'
    <3>1. InOrder(net[i + 1], net[j + 1])
      BY <2>1, <2>3, <1>n DEF OrderInv
    <3> QED
      BY <3>1, <2>1 DEF InOrder, IsLast
  <2> QED
    BY <2>2, <2>3 DEF OrderInv
<1>6. CASE UNCHANGED vars
  BY <1>6 DEF vars, camera, OrderInv, Sent, InOrder, IsLast
<1> QED
  BY <1>1, <1>2, <1>3, <1>4, <1>5, <1>6 DEF Next, Camera

-------------------------------------------------------------------------------
(* Time in the buffer and in what was delivered *)

LEMMA CallbackStores ==
  ASSUME TInv, Callback
  PROVE  /\ data' \in [Cells -> 0..MaxFrames]
         /\ \A k \in Cells : data'[k] = IF k = net[1].num THEN net[1].frame ELSE data[k]
<1>1. net # <<>> /\ Store(Head(net))
  BY DEF Callback, FirstDatagram, MiddleDatagram, LastDatagram, Receive
<1>2. Head(net) = net[1] /\ net[1] \in Datagrams
  BY <1>1, HeadType DEF TInv
<1>3. data' \in [Cells -> 0..MaxFrames]
  BY <1>1, <1>2, StoreType DEF TInv
<1>4. data \in [Cells -> 0..MaxFrames]
  BY DEF TInv, DriverType
<1> QED
  BY <1>1, <1>2, <1>3, <1>4 DEF Store

LEMMA CameraKeepsDriver ==
  ASSUME Camera \/ UNCHANGED vars PROVE UNCHANGED driver
  BY DEF Camera, StartFrame, SendDatagram, LoseDatagram, Overtake, vars

LEMMA DataNumbers ==
  ASSUME TInv PROVE \A k \in Cells : data[k] \in Nat
  BY DEF TInv, DriverType

\* Every step keeps the buffer behind what is to come.
LEMMA DataStep ==
  ASSUME TInv, OrderInv, DataInv, [Next]_vars, "cross" \notin Faults PROVE DataInv'
<1>n. /\ Len(net) \in Nat /\ \A i \in 1..Len(net) : net[i] \in Datagrams
      /\ frame \in Nat /\ size \in Nat /\ size > 0 /\ next \in Nat /\ next <= size
  BY NetIsTyped
<1>m. \A i \in 1..Len(net) : net[i].frame \in Nat
  BY <1>n, NumbersOf
<1>k. \A k \in Cells : data[k] \in Nat
  BY DataNumbers
<1>1. CASE StartFrame
  BY <1>1, <1>n, <1>k DEF StartFrame, DataInv, driver
<1>2. CASE SendDatagram
  <2>1. /\ Len(net') = Len(net) + 1 /\ net'[Len(net) + 1] = Datagram
        /\ \A i \in 1..Len(net) : net'[i] = net[i]
        /\ Datagram.frame = frame /\ frame' = frame
    BY <1>2, SendAppends
  <2>2. data' = data
    BY <1>2 DEF SendDatagram, driver
  <2>3. \A i \in 1..Len(net') : i \in 1..Len(net) \/ i = Len(net) + 1
    BY <2>1, <1>n
  <2> QED
    BY <2>1, <2>2, <2>3 DEF DataInv
<1>3. CASE LoseDatagram
  BY <1>3 DEF LoseDatagram, DataInv, driver
<1>4. CASE Overtake
  <2>1. PICK i \in 1..Len(net) - 1 :
           /\ Len(net') = Len(net)
           /\ \A j \in 1..Len(net) : /\ Swapped(i, j) \in 1..Len(net)
                                     /\ net'[j] = net[Swapped(i, j)]
           /\ UNCHANGED camera /\ UNCHANGED driver
    BY <1>4, OvertakeSwaps
  <2> QED
    BY <2>1 DEF DataInv, camera, driver
<1>5. CASE Callback
  <2>1. /\ Len(net') = Len(net) - 1 /\ UNCHANGED camera /\ Len(net) > 0
        /\ \A i \in 1..Len(net') : net'[i] = net[i + 1] /\ i + 1 \in 1..Len(net)
    BY <1>5, CallbackTakes
  <2>2. \A k \in Cells : data'[k] = net[1].frame \/ data'[k] = data[k]
    BY <1>5, CallbackStores
  <2>3. net[1].frame <= frame
    BY <2>1, <1>n DEF OrderInv, Sent
  <2>4. ASSUME NEW i \in 1..Len(net') PROVE net[1].frame <= net'[i].frame
    <3>1. 1 \in 1..Len(net) /\ i + 1 \in 1..Len(net) /\ 1 < i + 1
      BY <2>1, <1>n
    <3>2. InOrder(net[1], net[i + 1])
      BY <3>1 DEF OrderInv
    <3> QED
      BY <3>1, <3>2, <2>1, <1>m DEF InOrder
  <2> QED
    BY <2>1, <2>2, <2>3, <2>4 DEF DataInv, camera
<1>6. CASE UNCHANGED vars
  BY <1>6 DEF vars, camera, driver, DataInv
<1> QED
  BY <1>1, <1>2, <1>3, <1>4, <1>5, <1>6 DEF Next, Camera

\* A cell never gets older.
LEMMA CellsGrow ==
  ASSUME TInv, DataInv, [Next]_vars
  PROVE  \A k \in Cells : data[k] <= data'[k] /\ data[k] \in Nat /\ data'[k] \in Nat
<1>k. \A k \in Cells : data[k] \in Nat
  BY DataNumbers
<1>1. CASE Callback
  <2>1. Len(net) \in Nat /\ Len(net) > 0 /\ net[1] \in Datagrams
    BY <1>1, CallbackTakes
  <2>2. 1 \in 1..Len(net)
    BY <2>1
  <2>3. \A k \in Cells : data[k] <= net[1].frame /\ net[1].frame \in Nat
    BY <2>1, <2>2, NumbersOf DEF DataInv
  <2>4. \A k \in Cells : data'[k] = net[1].frame \/ data'[k] = data[k]
    BY <1>1, CallbackStores
  <2> QED
    BY <2>3, <2>4, <1>k
<1>2. CASE Camera \/ UNCHANGED vars
  <2>1. data' = data
    BY <1>2, CameraKeepsDriver DEF driver
  <2> QED
    BY <2>1, <1>k
<1> QED
  BY <1>1, <1>2 DEF Next

(***************************************************************************)
(* A step delivers nothing, or a Frame that holds the cells of the buffer. *)
(***************************************************************************)
Delivers(n, f) ==
  /\ delivered' = Append(delivered, [object |-> n, frame |-> f])
  /\ DOMAIN f.content = 0..f.of - 1
  /\ \A k \in 0..f.of - 1 : k \in Cells /\ f.content[k] = data'[k]

LEMMA WhatIsDelivered ==
  ASSUME TInv, [Next]_vars
  PROVE  \/ delivered' = delivered
         \/ LastDatagram /\ currentFrame # 0
              /\ Delivers(currentFrame, SortData(heap[currentFrame], data'))
<1>1. CASE Camera \/ UNCHANGED vars
  BY <1>1, CameraKeepsDriver DEF driver
<1>2. CASE FirstDatagram \/ MiddleDatagram
  BY <1>2 DEF FirstDatagram, MiddleDatagram
<1>3. CASE LastDatagram
  <2>1. CASE currentFrame = 0
    BY <2>1, <1>3, LastNull
  <2>2. CASE currentFrame # 0
    <3> DEFINE f == SortData(heap[currentFrame], data')
    <3>1. /\ currentFrame \in 1..Len(heap) /\ heap[currentFrame] \in FrameObjects
          /\ data' \in [Cells -> 0..MaxFrames]
          /\ delivered' = Append(delivered, [object |-> currentFrame, frame |-> f])
      BY <1>3, <2>2, LastEffect
    <3>2. /\ f.of = heap[currentFrame].of
          /\ DOMAIN f.content = 0..heap[currentFrame].of - 1
          /\ \A k \in 0..heap[currentFrame].of - 1 : k \in Cells /\ f.content[k] = data'[k]
      BY <3>1, SortDataType
    <3> HIDE DEF f
    <3>3. Delivers(currentFrame, f)
      BY <3>1, <3>2 DEF Delivers
    <3> QED
      BY <3>3, <2>2, <1>3 DEF f
  <2> QED
    BY <2>1, <2>2
<1> QED
  BY <1>1, <1>2, <1>3 DEF Next, Callback

LEMMA AppendsOne ==
  ASSUME NEW S, NEW s \in Seq(S), NEW e, NEW t, t = Append(s, e)
  PROVE  /\ DOMAIN s = 1..Len(s) /\ Len(s) \in Nat
         /\ DOMAIN t = 1..Len(s) + 1 /\ t[Len(s) + 1] = e
         /\ \A i \in DOMAIN s : t[i] = s[i]
         /\ \A i \in DOMAIN t : i \in DOMAIN s \/ i = Len(s) + 1
  OBVIOUS

LEMMA ContentNumbers ==
  ASSUME TInv
  PROVE  \A n \in DOMAIN delivered :
           /\ delivered[n].object \in 1..Len(heap) /\ delivered[n].frame \in FrameObjects
           /\ \A k \in DOMAIN delivered[n].frame.content :
                delivered[n].frame.content[k] \in Nat
<1> SUFFICES ASSUME NEW n \in DOMAIN delivered
             PROVE  /\ delivered[n].object \in 1..Len(heap)
                    /\ delivered[n].frame \in FrameObjects
                    /\ \A k \in DOMAIN delivered[n].frame.content :
                         delivered[n].frame.content[k] \in Nat
  OBVIOUS
<1> DEFINE f == delivered[n].frame
<1> DEFINE R == [object : 1..Len(heap), frame : FrameObjects]
<1>0. delivered[n] \in R
  <2> HIDE DEF R
  <2>1. delivered \in Seq(R)
    BY DEF TInv, DeliveredType, R
  <2> QED
    BY <2>1
<1>1. delivered[n].object \in 1..Len(heap) /\ f \in FrameObjects
  BY <1>0
<1> HIDE DEF f, R
<1>2. f.content = <<>> \/ \E s \in Sizes : f.content \in [0..s - 1 -> 0..MaxFrames]
  BY <1>1 DEF FrameObjects
<1>3. \A k \in DOMAIN f.content : f.content[k] \in Nat
  <2>1. CASE f.content = <<>>
    <3>1. DOMAIN f.content = {}
      BY <2>1
    <3> QED
      BY <3>1
  <2>2. ASSUME NEW s \in Sizes, f.content \in [0..s - 1 -> 0..MaxFrames]
        PROVE  \A k \in DOMAIN f.content : f.content[k] \in Nat
    <3>1. DOMAIN f.content = 0..s - 1
      BY <2>2
    <3>2. \A k \in 0..s - 1 : f.content[k] \in 0..MaxFrames
      BY <2>2
    <3>3. 0..MaxFrames \subseteq Nat
      OBVIOUS
    <3> QED
      BY <3>1, <3>2, <3>3
  <2> QED
    BY <1>2, <2>1, <2>2
<1> QED
  BY <1>1, <1>3 DEF f

LEMMA DeliveredStep ==
  ASSUME TInv, DataInv, DeliveredInv, [Next]_vars PROVE DeliveredInv'
<1>1. \A k \in Cells : data[k] <= data'[k] /\ data[k] \in Nat /\ data'[k] \in Nat
  BY CellsGrow
<1>t. \A n \in DOMAIN delivered : \A k \in DOMAIN delivered[n].frame.content :
        delivered[n].frame.content[k] \in Nat
  BY ContentNumbers
<1>2. \A n \in DOMAIN delivered : \A k \in DOMAIN delivered[n].frame.content :
        k \in Cells /\ delivered[n].frame.content[k] <= data'[k]
  BY <1>1, <1>t DEF DeliveredInv
<1>3. CASE delivered' = delivered
  BY <1>2, <1>3 DEF DeliveredInv
<1>4. ASSUME NEW n, NEW f, Delivers(n, f) PROVE DeliveredInv'
  <2>1. /\ DOMAIN delivered' = 1..Len(delivered) + 1
        /\ delivered'[Len(delivered) + 1] = [object |-> n, frame |-> f]
        /\ \A i \in DOMAIN delivered : delivered'[i] = delivered[i]
        /\ \A i \in DOMAIN delivered' : i \in DOMAIN delivered \/ i = Len(delivered) + 1
    BY <1>4, AppendsOne DEF TInv, DeliveredType, Delivers
  <2>2. \A k \in DOMAIN f.content : k \in Cells /\ f.content[k] <= data'[k]
    BY <1>4, <1>1 DEF Delivers
  <2> QED
    BY <2>1, <2>2, <1>2 DEF DeliveredInv
<1> QED
  BY <1>3, <1>4, WhatIsDelivered

\* No step makes time run backwards for a subscriber.
LEMMA NeverOlderStep ==
  ASSUME TInv, DataInv, DeliveredInv, NeverOlder, [Next]_vars PROVE NeverOlder'
<1>1. \A k \in Cells : data[k] <= data'[k] /\ data[k] \in Nat /\ data'[k] \in Nat
  BY CellsGrow
<1>t. \A n \in DOMAIN delivered : \A k \in DOMAIN delivered[n].frame.content :
        delivered[n].frame.content[k] \in Nat
  BY ContentNumbers
<1>2. \A n \in DOMAIN delivered : \A k \in DOMAIN delivered[n].frame.content :
        k \in Cells /\ delivered[n].frame.content[k] <= data'[k]
  BY <1>1, <1>t DEF DeliveredInv
<1>3. CASE delivered' = delivered
  BY <1>3 DEF NeverOlder
<1>4. ASSUME NEW n, NEW f, Delivers(n, f) PROVE NeverOlder'
  <2>1. /\ DOMAIN delivered = 1..Len(delivered) /\ Len(delivered) \in Nat
        /\ delivered'[Len(delivered) + 1] = [object |-> n, frame |-> f]
        /\ \A i \in DOMAIN delivered : delivered'[i] = delivered[i]
        /\ \A i \in DOMAIN delivered' : i \in DOMAIN delivered \/ i = Len(delivered) + 1
    BY <1>4, AppendsOne DEF TInv, DeliveredType, Delivers
  <2> SUFFICES ASSUME NEW i \in DOMAIN delivered', NEW j \in DOMAIN delivered', i < j,
                      NEW k \in DOMAIN delivered'[i].frame.content
                                  \cap DOMAIN delivered'[j].frame.content
               PROVE  delivered'[i].frame.content[k] <= delivered'[j].frame.content[k]
    BY DEF NeverOlder
  <2>2. i \in DOMAIN delivered
    BY <2>1
  <2>3. CASE j \in DOMAIN delivered
    BY <2>1, <2>2, <2>3 DEF NeverOlder
  <2>4. CASE j = Len(delivered) + 1
    <3>1. delivered'[j].frame = f /\ delivered'[i].frame = delivered[i].frame
      BY <2>1, <2>2, <2>4
    <3>2. f.content[k] = data'[k] /\ k \in Cells
      BY <3>1, <1>4 DEF Delivers
    <3> QED
      BY <3>1, <3>2, <2>2, <1>2
  <2> QED
    BY <2>1, <2>3, <2>4
<1> QED
  BY <1>3, <1>4, WhatIsDelivered

-------------------------------------------------------------------------------
(* Every frame has an object of its own *)

\* A step of the camera, the network or nothing leaves Begun to the datagrams.
LEMMA BegunKept ==
  ASSUME UNCHANGED driver, NEW f, NEW s, NEW n, Begun(f, s, n),
         \A j \in 1..n : net'[j].num # 0
  PROVE  Begun(f, s, n)'
  BY DEF Begun, driver

LEMMA ServedByStart ==
  ASSUME TInv, StartFrame, NEW f, Served(f) PROVE Served(f)'
<1>1. UNCHANGED driver /\ net' = net /\ next' = 0
  BY DEF StartFrame
<1>2. \A g, s, n : Ready(g, s, n) => Ready(g, s, n)'
  BY <1>1 DEF Ready, Coming, Begun, driver
<1> QED
  BY <1>1, <1>2 DEF Served, IsLast

LEMMA ServedBySend ==
  ASSUME TInv, SendDatagram, NEW f, Served(f) PROVE Served(f)'
<1>1. /\ Len(net) \in Nat /\ Len(net') = Len(net) + 1 /\ net'[Len(net) + 1] = Datagram
      /\ \A i \in 1..Len(net) : net'[i] = net[i]
      /\ Datagram.frame = frame /\ Datagram.num = next /\ Datagram.of = size
      /\ next < size /\ frame' = frame /\ size' = size /\ next' = next + 1
      /\ frame \in Nat /\ size \in Nat /\ next \in Nat
  BY SendAppends
<1>2. UNCHANGED driver
  BY DEF SendDatagram
<1>3. ASSUME NEW g, NEW s, NEW n \in 0..Len(net), Ready(g, s, n)
      PROVE  Ready(g, s, n)'
  <2>1. 1..n \subseteq 1..Len(net)
    BY <1>1
  <2>2. CASE Coming(g, s, n)
    <3>1. \A j \in 1..n : net'[j] = net[j]
      BY <2>1, <1>1
    <3>2. Coming(g, s, n)'
      BY <3>1, <2>2 DEF Coming
    <3> QED
      BY <3>2 DEF Ready
  <2>3. CASE Begun(g, s, n)
    <3>1. \A j \in 1..n : net'[j].num # 0
      BY <2>1, <2>3, <1>1 DEF Begun
    <3>2. Begun(g, s, n)'
      BY <3>1, <2>3, <1>2, BegunKept
    <3> QED
      BY <3>2 DEF Ready
  <2> QED
    BY <1>3, <2>2, <2>3 DEF Ready
<1>4. ASSUME f = frame, 0 < next', next' < size' PROVE Ready(frame, size, Len(net))'
  <2>1. CASE next = 0
    <3>1. Len(net') \in 1..Len(net') /\ net'[Len(net')] = Datagram
      BY <1>1
    <3> QED
      BY <3>1, <2>1, <1>1 DEF Ready, Coming
  <2>2. CASE next # 0
    <3>1. Ready(frame, size, Len(net))
      BY <2>2, <1>1, <1>4 DEF Served
    <3>2. PICK g, s, n : g = frame /\ s = size /\ n = Len(net)
      OBVIOUS
    <3>3. Ready(g, s, n)'
      BY <3>1, <3>2, <1>1, <1>3
    <3>4. CASE Coming(g, s, n)'
      BY <3>4, <3>2, <1>1 DEF Ready, Coming
    <3>5. CASE Begun(g, s, n)'
      <4>1. \A j \in 1..Len(net') : j \in 1..n \/ j = Len(net) + 1
        BY <3>2, <1>1
      <4>2. \A j \in 1..Len(net') : net'[j].num # 0
        BY <4>1, <3>5, <2>2, <1>1 DEF Begun
      <4> QED
        BY <4>2, <3>5, <3>2, <1>1 DEF Ready, Begun
    <3> QED
      BY <3>3, <3>4, <3>5 DEF Ready
  <2> QED
    BY <2>1, <2>2
<1>5. ASSUME NEW i \in 1..Len(net'), IsLast(net'[i]), net'[i].frame = f
      PROVE  Ready(net[i].frame, net[i].of, i - 1)'
  <2>1. PICK s, n : s = net'[i].of /\ n = i - 1
    OBVIOUS
  <2>2. CASE i \in 1..Len(net)
    <3>1. Ready(net[i].frame, net[i].of, i - 1)
      BY <2>2, <1>1, <1>5 DEF Served, IsLast
    <3>2. Ready(f, s, n) /\ n \in 0..Len(net)
      BY <3>1, <2>1, <2>2, <1>1, <1>5
    <3> QED
      BY <3>2, <1>3, <1>5, <2>1
  <2>3. CASE i = Len(net) + 1
    <3>1. next # 0 /\ next > 0
      BY <2>3, <1>1, <1>5 DEF IsLast
    <3>2. Ready(f, s, n) /\ n \in 0..Len(net)
      BY <3>1, <2>1, <2>3, <1>1, <1>5 DEF Served
    <3> QED
      BY <3>2, <1>3, <1>5, <2>1
  <2> QED
    BY <2>2, <2>3, <1>1
<1> QED
  BY <1>1, <1>4, <1>5 DEF Served

\* Losing the first datagram of a frame is the only step that does not.
LEMMA ServedByLoss ==
  ASSUME TInv, LoseDatagram, NEW f, Served(f), next # 0 \/ f # frame PROVE Served(f)'
<1>0. next \in Nat /\ size \in Nat
  BY CellsCover DEF TInv, CameraType
<1>1. /\ UNCHANGED driver /\ net' = net /\ next' = next + 1 /\ next < size
      /\ frame' = frame /\ size' = size
  BY <1>0 DEF LoseDatagram
<1>2. \A g, s, n : Ready(g, s, n) => Ready(g, s, n)'
  BY <1>1 DEF Ready, Coming, Begun, driver
<1>3. f = frame' /\ 0 < next' /\ next' < size' => Ready(frame, size, Len(net))'
  <2>1. PICK g, s, n : g = frame /\ s = size /\ n = Len(net)
    OBVIOUS
  <2>2. f = frame => Ready(g, s, n)'
    BY <2>1, <1>0, <1>1, <1>2 DEF Served
  <2> QED
    BY <2>1, <2>2, <1>1
<1>4. \A i \in 1..Len(net') :
        IsLast(net'[i]) /\ net'[i].frame = f => Ready(net[i].frame, net[i].of, i - 1)'
  BY <1>1, <1>2 DEF Served
<1> QED
  BY <1>3, <1>4 DEF Served

LEMMA ServedByOvertake ==
  ASSUME TInv, OrderInv, Overtake, "cross" \notin Faults, NEW f, Served(f) PROVE Served(f)'
<1>1. PICK i \in 1..Len(net) - 1 :
         /\ Len(net) \in Nat /\ Len(net') = Len(net)
         /\ net[i].frame = net[i + 1].frame
         /\ ~(net[i].num = 0 /\ IsLast(net[i + 1]))
         /\ \A j \in 1..Len(net) : /\ Swapped(i, j) \in 1..Len(net)
                                   /\ net'[j] = net[Swapped(i, j)]
         /\ UNCHANGED camera /\ UNCHANGED driver /\ heads' = heads
  BY OvertakeSwaps
<1>2. ASSUME NEW g, NEW s, NEW n \in 0..Len(net), n # i, Ready(g, s, n)
      PROVE  Ready(g, s, n)'
  <2>1. \A j \in 1..n : /\ Swapped(i, j) \in 1..n /\ Swapped(i, Swapped(i, j)) = j
                        /\ j \in 1..Len(net)
    BY <1>1, <1>2 DEF Swapped
  <2>2. CASE Coming(g, s, n)
    <3>1. PICK j \in 1..n : net[j].num = 0 /\ net[j].frame = g /\ net[j].of = s
      BY <2>2 DEF Coming
    <3>2. Swapped(i, j) \in 1..n /\ net'[Swapped(i, j)] = net[j]
      BY <2>1, <1>1
    <3> QED
      BY <3>1, <3>2 DEF Ready, Coming
  <2>3. CASE Begun(g, s, n)
    <3>1. \A j \in 1..n : net'[j].num # 0
      BY <2>1, <2>3, <1>1 DEF Begun
    <3> QED
      BY <3>1, <2>3, <1>1, BegunKept DEF Ready
  <2> QED
    BY <1>2, <2>2, <2>3 DEF Ready
<1>3. f = frame' /\ 0 < next' /\ next' < size' => Ready(frame, size, Len(net))'
  <2>1. PICK g, s, n : g = frame /\ s = size /\ n = Len(net)
    OBVIOUS
  <2>2. f = frame /\ 0 < next /\ next < size => Ready(g, s, n)
    BY <2>1, <1>1 DEF Served
  <2>3. n # i /\ n \in 0..Len(net)
    BY <2>1, <1>1
  <2>4. f = frame /\ 0 < next /\ next < size => Ready(g, s, n)'
    BY <2>2, <2>3, <1>2
  <2> QED
    BY <2>1, <2>4, <1>1 DEF camera
<1>4. ASSUME NEW p \in 1..Len(net'), IsLast(net'[p]), net'[p].frame = f
      PROVE  Ready(net[p].frame, net[p].of, p - 1)'
  <2>1. PICK g, s, n : g = net'[p].frame /\ s = net'[p].of /\ n = p - 1
    OBVIOUS
  <2>2. p \in 1..Len(net) /\ i \in 1..Len(net) /\ i + 1 \in 1..Len(net)
    BY <1>1
  <2>3. CASE p # i /\ p # i + 1
    <3>1. net'[p] = net[p]
      BY <2>2, <2>3, <1>1 DEF Swapped
    <3>2. Ready(g, s, n)
      BY <3>1, <2>1, <2>2, <1>1, <1>4 DEF Served
    <3>3. n \in 0..Len(net) /\ n # i
      BY <2>1, <2>2, <2>3, <1>1
    <3> QED
      BY <3>2, <3>3, <2>1, <1>2
  <2>4. CASE p = i
    <3>1. net'[p] = net[i + 1] /\ IsLast(net[i + 1])
      BY <2>2, <2>4, <1>1, <1>4 DEF Swapped
    <3>2. Ready(g, s, i) /\ net[i].num # 0
      <4>1. net[i + 1].frame = f /\ g = net[i + 1].frame /\ s = net[i + 1].of
        BY <3>1, <2>1, <2>4, <1>4
      <4>2. Ready(net[i + 1].frame, net[i + 1].of, (i + 1) - 1)
        BY <4>1, <3>1, <2>2 DEF Served
      <4>3. (i + 1) - 1 = i
        BY <1>1
      <4> QED
        BY <4>1, <4>2, <4>3, <3>1, <1>1
    <3>3. \A j \in 1..i : j \in 1..i - 1 \/ j = i
      BY <1>1
    <3>4. Ready(g, s, i - 1)
      BY <3>2, <3>3 DEF Ready, Coming, Begun
    <3>5. i - 1 \in 0..Len(net) /\ i - 1 # i
      BY <1>1
    <3> QED
      BY <3>4, <3>5, <2>1, <2>4, <1>2
  <2>5. CASE p = i + 1
    <3>1. net'[p] = net[i] /\ IsLast(net[i]) /\ net'[i] = net[i + 1]
      BY <2>2, <2>5, <1>1, <1>4 DEF Swapped
    <3>2. Ready(g, s, i - 1)
      <4>1. net[i].frame = f /\ g = net[i].frame /\ s = net[i].of
        BY <3>1, <2>1, <2>5, <1>4
      <4> QED
        BY <4>1, <3>1, <2>2 DEF Served
    <3>3. i - 1 \in 0..Len(net) /\ i - 1 # i
      BY <1>1
    <3>4. Ready(g, s, i - 1)'
      BY <3>2, <3>3, <1>2
    <3>5. net'[i].num # 0
      <4>1. InOrder(net[i], net[i + 1])
        BY <2>2, <1>1 DEF OrderInv
      <4>2. net[i].frame \in Nat
        BY <2>2, NetIsTyped, NumbersOf
      <4>3. ~(net[i].frame < net[i + 1].frame)
        BY <4>2, <1>1
      <4>4. net[i + 1].num = 0 => ~IsLast(net[i])
        BY <4>1, <4>3, Zenon DEF InOrder
      <4> QED
        BY <4>4, <3>1
    <3>6. \A j \in 1..i : j \in 1..i - 1 \/ j = i
      BY <1>1
    <3>7. 1..i - 1 \subseteq 1..i
      BY <1>1
    <3>8. Ready(g, s, i)'
      BY <3>4, <3>5, <3>6, <3>7 DEF Ready, Coming, Begun
    <3>9. n = i
      BY <2>1, <2>5, <1>1
    <3> QED
      BY <3>8, <3>9, <2>1
  <2> QED
    BY <2>3, <2>4, <2>5
<1> QED
  BY <1>3, <1>4 DEF Served
(***************************************************************************)
(* A callback takes the first datagram away.  What is asked for behind it  *)
(* is not of an earlier frame, nor of that of a last datagram.             *)
(***************************************************************************)
Behind(f, n) ==
  /\ n \in 1..Len(net)
  /\ \A j \in 1..n : net[j].frame <= f
  /\ IsLast(net[1]) => net[1].frame < f

LEMMA ComingShifts ==
  ASSUME TInv, Callback, NEW f, NEW s, NEW n \in 1..Len(net),
         NEW j \in 2..n, net[j].num = 0, net[j].frame = f, net[j].of = s
  PROVE  Ready(f, s, n - 1)'
<1>1. /\ Len(net) \in Nat /\ Len(net') = Len(net) - 1
      /\ \A i \in 1..Len(net') : net'[i] = net[i + 1]
  BY CallbackTakes
<1>2. j - 1 \in 1..n - 1 /\ j - 1 \in 1..Len(net') /\ (j - 1) + 1 = j
  BY <1>1
<1>3. net'[j - 1] = net[j]
  BY <1>1, <1>2
<1> QED
  BY <1>2, <1>3 DEF Ready, Coming

LEMMA ReadyOfMiddle ==
  ASSUME TInv, MiddleDatagram, NEW f, NEW s, NEW n \in 1..Len(net), Ready(f, s, n)
  PROVE  Ready(f, s, n - 1)'
<1>1. /\ Len(net) \in Nat /\ Len(net) > 0 /\ Head(net) = net[1] /\ Len(net') = Len(net) - 1
      /\ \A i \in 1..Len(net') : net'[i] = net[i + 1]
  BY CallbackTakes DEF Callback
<1>2. net[1].num # 0 /\ UNCHANGED <<heap, currentFrame, delivered>>
  BY <1>1 DEF MiddleDatagram
<1>3. CASE Coming(f, s, n)
  <2>1. PICK j \in 1..n : net[j].num = 0 /\ net[j].frame = f /\ net[j].of = s
    BY <1>3 DEF Coming
  <2>2. j \in 2..n
    BY <2>1, <1>1, <1>2
  <2> QED
    BY <2>1, <2>2, ComingShifts DEF Callback
<1>4. CASE Begun(f, s, n)
  <2>1. data'[0] = data[0]
    BY <1>2, CallbackStores, CellsCover DEF Callback
  <2>2. ASSUME NEW j \in 1..n - 1 PROVE net'[j].num # 0
    <3>1. j \in 1..Len(net') /\ j + 1 \in 1..n
      BY <1>1
    <3> QED
      BY <3>1, <1>1, <1>4 DEF Begun
  <2> QED
    BY <2>1, <2>2, <1>2, <1>4 DEF Ready, Begun
<1> QED
  BY <1>3, <1>4 DEF Ready

\* What comes after a last datagram belongs to frames that have not begun.
LEMMA ReadyOfLast ==
  ASSUME TInv, DataInv, LastDatagram, NEW f \in Nat, NEW s, NEW n, Behind(f, n), Ready(f, s, n)
  PROVE  Ready(f, s, n - 1)'
<1>1. /\ Len(net) \in Nat /\ Len(net) > 0 /\ Head(net) = net[1] /\ net[1] \in Datagrams
  BY CallbackTakes DEF Callback
<1>2. IsLast(net[1])
  BY <1>1 DEF LastDatagram
<1>3. data[0] \in Nat /\ data[0] <= net[1].frame
  <2>1. 0 \in Cells /\ 1 \in 1..Len(net)
    BY <1>1, CellsCover
  <2> QED
    BY <2>1, DataNumbers DEF DataInv
<1>4. net[1].frame < f /\ n \in 1..Len(net)
  BY <1>2 DEF Behind
<1>5. net[1].frame \in Nat
  BY <1>1, NumbersOf
<1>6. Coming(f, s, n)
  BY <1>3, <1>4, <1>5 DEF Ready, Begun
<1>7. PICK j \in 1..n : net[j].num = 0 /\ net[j].frame = f /\ net[j].of = s
  BY <1>6 DEF Coming
<1>8. j # 1
  BY <1>7, <1>2 DEF IsLast
<1>9. j \in 2..n
  BY <1>8, <1>1, <1>4
<1> QED
  BY <1>4, <1>7, <1>9, ComingShifts DEF Callback

\* A first datagram begins its frame.
LEMMA ReadyOfFirst ==
  ASSUME TInv, OrderInv, FirstDatagram, NEW f, NEW s, NEW n, Behind(f, n), Ready(f, s, n)
  PROVE  Ready(f, s, n - 1)'
<1>1. /\ Len(net) \in Nat /\ Len(net) > 0 /\ Head(net) = net[1] /\ net[1] \in Datagrams
      /\ Len(net') = Len(net) - 1 /\ \A i \in 1..Len(net') : net'[i] = net[i + 1]
  BY CallbackTakes DEF Callback
<1>2. net[1].num = 0
  BY <1>1 DEF FirstDatagram
<1>3. n \in 1..Len(net) /\ \A j \in 1..n : net[j].frame <= f
  BY DEF Behind
<1>4. Coming(f, s, n)
  BY <1>2, <1>3 DEF Ready, Begun
<1>5. PICK j \in 1..n : net[j].num = 0 /\ net[j].frame = f /\ net[j].of = s
  BY <1>4 DEF Coming
<1>6. CASE j # 1
  <2>1. j \in 2..n
    BY <1>6, <1>3
  <2> QED
    BY <2>1, <1>3, <1>5, ComingShifts DEF Callback
<1>7. CASE j = 1
  <2>1. ASSUME NEW i \in 1..n - 1 PROVE net'[i].num # 0
    <3>1. i \in 1..Len(net') /\ i + 1 \in 1..n /\ i + 1 \in 1..Len(net) /\ 1 < i + 1
          /\ 1 \in 1..Len(net)
      BY <1>1, <1>3
    <3>2. InOrder(net[1], net[i + 1])
      BY <3>1 DEF OrderInv
    <3>3. net[i + 1].frame <= net[1].frame
      BY <3>1, <1>3, <1>5, <1>7
    <3>6. net[i + 1].frame \in Nat /\ net[1].frame \in Nat
      BY <3>1, NetIsTyped, NumbersOf
    <3>4. ~(net[1].frame < net[i + 1].frame)
      BY <3>3, <3>6
    <3>5. net[i + 1].num = 0 => net[1].num # 0
      BY <3>2, <3>4 DEF InOrder
    <3> QED
      BY <3>1, <3>5, <1>1, <1>2
  <2>2. data'[0] = f
    BY <1>2, <1>5, <1>7, CallbackStores, CellsCover DEF Callback
  <2>3. /\ heap' = Append(heap, [of |-> net[1].of, content |-> <<>>])
        /\ currentFrame' = Len(heap) + 1 /\ delivered' = delivered
    BY <1>1 DEF FirstDatagram
  <2>4. heap \in Seq(FrameObjects) /\ Len(heap) \in Nat
    BY DEF TInv, DriverType
  <2>5. heap'[currentFrame'] = [of |-> net[1].of, content |-> <<>>]
    BY <2>3, <2>4
  <2>6. heap'[currentFrame'].of = s /\ currentFrame' # 0
    BY <2>3, <2>4, <2>5, <1>5, <1>7
  <2>7. \A m \in DOMAIN delivered' : delivered'[m].object # currentFrame'
    BY <2>3, <2>4, ContentNumbers
  <2> QED
    BY <2>1, <2>2, <2>6, <2>7 DEF Ready, Begun
<1> QED
  BY <1>6, <1>7
\* Whatever a callback does, what is asked for behind its datagram stays.
LEMMA ServedByCallback ==
  ASSUME TInv, OrderInv, DataInv, Callback, NEW f, Served(f) PROVE Served(f)'
<1>1. /\ Len(net) \in Nat /\ Len(net) > 0 /\ net[1] \in Datagrams /\ Head(net) = net[1]
      /\ Len(net') = Len(net) - 1
      /\ \A i \in 1..Len(net') : net'[i] = net[i + 1] /\ i + 1 \in 1..Len(net)
      /\ UNCHANGED camera
  BY CallbackTakes
<1>m. /\ \A i \in 1..Len(net) : net[i].frame \in Nat
      /\ frame \in Nat /\ next \in Nat /\ size \in Nat
  BY NetIsTyped, NumbersOf
<1>3. ASSUME NEW g \in Nat, NEW s, NEW n, Behind(g, n), Ready(g, s, n)
      PROVE  Ready(g, s, n - 1)'
  <2>1. CASE FirstDatagram
    BY <2>1, <1>3, ReadyOfFirst
  <2>2. CASE MiddleDatagram
    BY <2>2, <1>3, ReadyOfMiddle DEF Behind
  <2>3. CASE LastDatagram
    BY <2>3, <1>3, ReadyOfLast
  <2> QED
    BY <2>1, <2>2, <2>3 DEF Callback
<1>4. ASSUME f = frame', 0 < next', next' < size' PROVE Ready(frame, size, Len(net))'
  <2>1. PICK g, s, n : g = frame /\ s = size /\ n = Len(net)
    OBVIOUS
  <2>2. f = frame /\ next < size /\ 0 < next /\ g \in Nat
    BY <1>1, <1>4, <1>m, <2>1 DEF camera
  <2>3. Ready(g, s, n)
    BY <2>1, <2>2 DEF Served
  <2>4. \A j \in 1..Len(net) : net[j].frame <= frame
    BY DEF OrderInv, Sent
  <2>5. IsLast(net[1]) => net[1].frame < frame
    BY <2>2, <1>1 DEF OrderInv, Sent
  <2>6. Behind(g, n)
    BY <2>1, <2>4, <2>5, <1>1 DEF Behind
  <2>7. Ready(g, s, n - 1)'
    BY <2>2, <2>3, <2>6, <1>3
  <2>8. g = frame' /\ s = size' /\ n - 1 = Len(net')
    BY <2>1, <1>1 DEF camera
  <2> QED
    BY <2>7, <2>8
<1>5. ASSUME NEW i \in 1..Len(net'), IsLast(net'[i]), net'[i].frame = f
      PROVE  Ready(net[i].frame, net[i].of, i - 1)'
  <2>1. net'[i] = net[i + 1] /\ i + 1 \in 1..Len(net) /\ i \in 1..Len(net) /\ (i + 1) - 1 = i
    BY <1>1
  <2>2. PICK g, s : g = net[i + 1].frame /\ s = net[i + 1].of
    OBVIOUS
  <2>3. Ready(net[i + 1].frame, net[i + 1].of, (i + 1) - 1)
    BY <2>1, <1>5 DEF Served
  <2>4. Ready(g, s, i) /\ g \in Nat
    BY <2>1, <2>2, <2>3, <1>m
  <2>5. \A j \in 1..i : net[j].frame <= g
    <3> TAKE j \in 1..i
    <3>1. j \in 1..Len(net) /\ j < i + 1
      BY <2>1
    <3>2. InOrder(net[j], net[i + 1])
      BY <3>1, <2>1 DEF OrderInv
    <3>3. net[j].frame < net[i + 1].frame \/ net[j].frame = net[i + 1].frame
      BY <3>2 DEF InOrder
    <3>4. net[j].frame \in Nat /\ net[i + 1].frame \in Nat
      BY <3>1, <2>1, <1>m
    <3>5. net[j].frame <= net[i + 1].frame
      BY <3>3, <3>4
    <3> QED
      BY <3>5, <2>2
  <2>6. IsLast(net[1]) => net[1].frame < g
    <3>1. 1 \in 1..Len(net) /\ 1 < i + 1
      BY <1>1
    <3>2. InOrder(net[1], net[i + 1])
      BY <3>1, <2>1 DEF OrderInv
    <3>3. IsLast(net[1]) => net[1].frame < net[i + 1].frame
      BY <3>2, <2>1, <1>5 DEF InOrder
    <3> QED
      BY <3>3, <2>2
  <2>7. Behind(g, i)
    BY <2>1, <2>5, <2>6 DEF Behind
  <2>8. Ready(g, s, i - 1)'
    BY <2>4, <2>7, <1>3
  <2>9. g = net'[i].frame /\ s = net'[i].of
    BY <2>1, <2>2
  <2> QED
    BY <2>8, <2>9
<1> QED
  BY <1>4, <1>5 DEF Served

LEMMA ServedStep ==
  ASSUME TInv, OrderInv, DataInv, [Next]_vars, "cross" \notin Faults, NEW f, Served(f),
         ~(LoseDatagram /\ next = 0 /\ f = frame)
  PROVE  Served(f)'
<1>1. CASE UNCHANGED vars
  <2>1. UNCHANGED camera /\ UNCHANGED driver /\ net' = net
    BY <1>1 DEF vars
  <2>2. \A g, s, n : Ready(g, s, n) => Ready(g, s, n)'
    BY <2>1 DEF Ready, Coming, Begun, driver
  <2> QED
    BY <2>1, <2>2 DEF Served, camera
<1> QED
  BY <1>1, ServedByStart, ServedBySend, ServedByLoss, ServedByOvertake, ServedByCallback
     DEF Next, Camera

-------------------------------------------------------------------------------
(* What a subscriber was given is its own *)

LEMMA Finite ==
  ASSUME TInv
  PROVE  /\ IsFiniteSet(Again) /\ Cardinality(Again) \in Nat
         /\ IsFiniteSet(Unserved) /\ Cardinality(Unserved) \in Nat
         /\ heads \in Nat
<1>1. IsFiniteSet(1..Len(delivered)) /\ Again \in SUBSET (1..Len(delivered))
  <2>1. Len(delivered) \in Nat /\ DOMAIN delivered = 1..Len(delivered)
    BY DEF TInv, DeliveredType
  <2>2. IsFiniteSet(1..Len(delivered))
    BY <2>1, FS_Interval
  <2> QED
    BY <2>1, <2>2 DEF Again
<1>2. IsFiniteSet(1..frame) /\ Unserved \in SUBSET (1..frame)
  <2>1. IsFiniteSet(1..frame)
    BY NetIsTyped, FS_Interval
  <2> QED
    BY <2>1 DEF Unserved
<1>3. IsFiniteSet(Again) /\ IsFiniteSet(Unserved)
  BY <1>1, <1>2, FS_Subset
<1>4. heads \in Nat
  BY DEF TInv, CameraType
<1> QED
  BY <1>3, <1>4, FS_CardinalityType

LEMMA CardinalityStep ==
  ASSUME NEW S, NEW T, NEW e, IsFiniteSet(S)
  PROVE  /\ T \subseteq S => IsFiniteSet(T) /\ Cardinality(T) <= Cardinality(S)
         /\ T \subseteq S \cup {e} => IsFiniteSet(T) /\ Cardinality(T) <= Cardinality(S) + 1
         /\ T \subseteq S \ {e} /\ e \in S => IsFiniteSet(T) /\ Cardinality(T) <= Cardinality(S) - 1
<1>1. Cardinality(S) \in Nat
  BY FS_CardinalityType
<1>2. T \subseteq S => IsFiniteSet(T) /\ Cardinality(T) <= Cardinality(S)
  BY FS_Subset
<1>3. ASSUME T \subseteq S \cup {e}
      PROVE  IsFiniteSet(T) /\ Cardinality(T) <= Cardinality(S) + 1
  <2>1. /\ IsFiniteSet(S \cup {e}) /\ Cardinality(S \cup {e}) \in Nat
        /\ Cardinality(S \cup {e}) <= Cardinality(S) + 1
    BY <1>1, FS_AddElement
  <2>2. IsFiniteSet(T) /\ Cardinality(T) <= Cardinality(S \cup {e})
    BY <1>3, <2>1, FS_Subset
  <2>3. Cardinality(T) \in Nat
    BY <2>2, FS_CardinalityType
  <2> QED
    BY <1>1, <2>1, <2>2, <2>3
<1>4. ASSUME T \subseteq S \ {e}, e \in S
      PROVE  IsFiniteSet(T) /\ Cardinality(T) <= Cardinality(S) - 1
  <2>1. IsFiniteSet(S \ {e}) /\ Cardinality(S \ {e}) = Cardinality(S) - 1
    BY <1>4, FS_RemoveElement
  <2>2. IsFiniteSet(T) /\ Cardinality(T) <= Cardinality(S \ {e})
    BY <1>4, <2>1, FS_Subset
  <2> QED
    BY <2>1, <2>2
<1> QED
  BY <1>2, <1>3, <1>4

\* A delivery takes back one earlier one at most: the last of its object.
LEMMA AgainOfLast ==
  ASSUME TInv, LastDatagram
  PROVE  /\ \E e : Again' \subseteq Again \cup {e}
         /\ (\A m \in DOMAIN delivered : delivered[m].object # currentFrame)
              => Again' \subseteq Again
<1>1. CASE currentFrame = 0
  <2>1. delivered' = delivered
    BY <1>1, LastNull
  <2> QED
    BY <2>1 DEF Again
<1>2. CASE currentFrame # 0
  <2> DEFINE f == SortData(heap[currentFrame], data')
  <2>1. delivered' = Append(delivered, [object |-> currentFrame, frame |-> f])
    BY <1>2, LastEffect
  <2> HIDE DEF f
  <2>2. /\ DOMAIN delivered = 1..Len(delivered) /\ Len(delivered) \in Nat
        /\ delivered'[Len(delivered) + 1] = [object |-> currentFrame, frame |-> f]
        /\ \A i \in DOMAIN delivered : delivered'[i] = delivered[i]
        /\ \A i \in DOMAIN delivered' : i \in DOMAIN delivered \/ i = Len(delivered) + 1
    BY <2>1, AppendsOne DEF TInv, DeliveredType
  <2>3. ASSUME NEW i \in Again', i \notin Again
        PROVE  i \in DOMAIN delivered /\ delivered[i].object = currentFrame
    <3>1. PICK j \in DOMAIN delivered' :
            i \in DOMAIN delivered' /\ i < j /\ delivered'[i].object = delivered'[j].object
      BY <2>3 DEF Again
    <3>2. i \in DOMAIN delivered
      BY <3>1, <2>2
    <3>3. j \notin DOMAIN delivered
      BY <3>1, <3>2, <2>2, <2>3 DEF Again
    <3> QED
      BY <3>1, <3>2, <3>3, <2>2
  <2>4. ASSUME NEW i \in Again', NEW k \in Again', i \notin Again, k \notin Again PROVE i = k
    <3>1. i \in DOMAIN delivered /\ k \in DOMAIN delivered
          /\ delivered[i].object = delivered[k].object
      BY <2>3, <2>4
    <3>2. ~(i < k) /\ ~(k < i)
      BY <3>1, <2>4 DEF Again
    <3> QED
      BY <3>1, <3>2, <2>2
  <2> QED
    BY <2>3, <2>4
<1> QED
  BY <1>1, <1>2

\* An object changes only when it is delivered.
LEMMA ObjectStep ==
  ASSUME TInv, ObjectInv, [Next]_vars PROVE ObjectInv'
<1>t. heap \in Seq(FrameObjects) /\ Len(heap) \in Nat
  BY DEF TInv, DriverType
<1>1. CASE heap' = heap /\ delivered' = delivered
  BY <1>1 DEF ObjectInv, Again
<1>2. CASE FirstDatagram
  <2>1. delivered' = delivered /\ \E o : heap' = Append(heap, o)
    BY <1>2 DEF FirstDatagram
  <2>2. \A i \in 1..Len(heap) : heap'[i] = heap[i]
    BY <2>1, <1>t
  <2> QED
    BY <2>1, <2>2, ContentNumbers DEF ObjectInv, Again
<1>3. CASE LastDatagram /\ currentFrame # 0
  <2> DEFINE f == SortData(heap[currentFrame], data')
  <2>1. /\ currentFrame \in 1..Len(heap)
        /\ heap' = [heap EXCEPT ![currentFrame] = f]
        /\ delivered' = Append(delivered, [object |-> currentFrame, frame |-> f])
    BY <1>3, LastEffect
  <2> HIDE DEF f
  <2>2. /\ DOMAIN delivered = 1..Len(delivered) /\ Len(delivered) \in Nat
        /\ DOMAIN delivered' = 1..Len(delivered) + 1
        /\ delivered'[Len(delivered) + 1] = [object |-> currentFrame, frame |-> f]
        /\ \A i \in DOMAIN delivered : delivered'[i] = delivered[i]
        /\ \A i \in DOMAIN delivered' : i \in DOMAIN delivered \/ i = Len(delivered) + 1
    BY <2>1, AppendsOne DEF TInv, DeliveredType
  <2>3. heap'[currentFrame] = f /\ \A i \in 1..Len(heap) : i # currentFrame => heap'[i] = heap[i]
    BY <2>1, <1>t
  <2>4. ASSUME NEW i \in DOMAIN delivered', heap'[delivered'[i].object] # delivered'[i].frame
        PROVE  i \in Again'
    <3>1. i \in DOMAIN delivered
      BY <2>2, <2>3, <2>4
    <3>2. CASE delivered[i].object = currentFrame
      <4>1. i < Len(delivered) + 1 /\ Len(delivered) + 1 \in DOMAIN delivered'
        BY <3>1, <2>2
      <4> QED
        BY <4>1, <3>1, <3>2, <2>2 DEF Again
    <3>3. CASE delivered[i].object # currentFrame
      <4>1. delivered[i].object \in 1..Len(heap)
        BY <3>1, ContentNumbers
      <4>2. i \in Again
        BY <4>1, <3>1, <3>3, <2>2, <2>3, <2>4 DEF ObjectInv
      <4>3. DOMAIN delivered \subseteq DOMAIN delivered'
        BY <2>2
      <4> QED
        BY <4>2, <4>3, <2>2 DEF Again
    <3> QED
      BY <3>2, <3>3
  <2> QED
    BY <2>4 DEF ObjectInv
<1>4. LastDatagram /\ currentFrame = 0 => heap' = heap /\ delivered' = delivered
  BY LastNull
<1>5. Camera \/ MiddleDatagram \/ UNCHANGED vars => heap' = heap /\ delivered' = delivered
  BY CameraKeepsDriver DEF MiddleDatagram, driver
<1> QED
  BY <1>1, <1>2, <1>3, <1>4, <1>5 DEF Next, Callback

LEMMA UnservedStep ==
  ASSUME TInv, OrderInv, DataInv, [Next]_vars, "cross" \notin Faults
  PROVE  /\ ~(LoseDatagram /\ next = 0) => Unserved' \subseteq Unserved
         /\ LoseDatagram => Unserved' \subseteq Unserved \cup {frame}
<1>1. frame \in Nat /\ (StartFrame => frame' = frame + 1) /\ (~StartFrame => frame' = frame)
  BY NetIsTyped DEF Next, Callback, Camera, FirstDatagram, MiddleDatagram, LastDatagram,
                    SendDatagram, LoseDatagram, Overtake, StartFrame, camera, vars
<1>2. ASSUME NEW f \in Unserved', ~(LoseDatagram /\ next = 0 /\ f = frame)
      PROVE  f \in Unserved
  <2>1. ~Served(f)' /\ f \in 1..frame'
    BY <1>2 DEF Unserved
  <2>2. ~Served(f)
    BY <1>2, <2>1, ServedStep
  <2>3. CASE f \in 1..frame
    BY <2>2, <2>3 DEF Unserved
  <2>4. CASE f \notin 1..frame
    \* Nothing of the frame that is being started is under way.
    <3>1. StartFrame /\ f = frame + 1
      BY <1>1, <2>1, <2>4
    <3>2. \A i \in 1..Len(net) : net[i].frame <= frame /\ net[i].frame \in Nat
      BY NetIsTyped, NumbersOf DEF OrderInv, Sent
    <3>3. Served(f)
      BY <1>1, <3>1, <3>2 DEF Served
    <3> QED
      BY <2>2, <3>3
  <2> QED
    BY <2>3, <2>4
<1> QED
  BY <1>2

(***************************************************************************)
(* A last datagram that comes for a frame without an object of its own is  *)
(* the one that this frame was counted for.                                *)
(***************************************************************************)
LEMMA LastPays ==
  ASSUME TInv, OrderInv, DataInv, LastDatagram, "cross" \notin Faults
  PROVE  \/ \A m \in DOMAIN delivered : delivered[m].object # currentFrame
         \/ \E f \in Unserved : Unserved' \subseteq Unserved \ {f}
<1>1. /\ Len(net) \in Nat /\ Len(net) > 0 /\ Head(net) = net[1] /\ net[1] \in Datagrams
      /\ Len(net') = Len(net) - 1 /\ UNCHANGED camera
      /\ \A i \in 1..Len(net') : net'[i] = net[i + 1] /\ i + 1 \in 1..Len(net)
  BY CallbackTakes DEF Callback
<1>2. IsLast(net[1]) /\ 1 \in 1..Len(net)
  BY <1>1 DEF LastDatagram
<1>3. PICK f, s, n : f = net[1].frame /\ s = net[1].of /\ n = 0
  OBVIOUS
<1>4. CASE Ready(f, s, n)
  BY <1>3, <1>4 DEF Ready, Coming, Begun
<1>5. CASE ~Ready(f, s, n)
  <2>1. ~Served(f)
    BY <1>2, <1>3, <1>5 DEF Served
  <2>2. f \in Nat /\ f > 0 /\ f <= frame /\ frame \in Nat /\ (next < size => f < frame)
    BY <1>1, <1>2, <1>3, NetIsTyped, NumbersOf DEF OrderInv, Sent
  <2>3. f \in Unserved
    BY <2>1, <2>2 DEF Unserved
  <2>4. ASSUME NEW i \in 1..Len(net'), IsLast(net'[i]) PROVE net'[i].frame # f
    <3>1. i + 1 \in 1..Len(net) /\ net'[i] = net[i + 1] /\ 1 < i + 1
      BY <1>1
    <3>2. InOrder(net[1], net[i + 1])
      BY <1>2, <3>1 DEF OrderInv
    <3>3. net[1].frame < net[i + 1].frame
      BY <3>1, <3>2, <1>2, <2>4 DEF InOrder
    <3> QED
      BY <3>1, <3>3, <1>3, <2>2
  <2>5. Served(f)'
    BY <1>1, <2>2, <2>4 DEF Served, camera
  <2>6. f \notin Unserved'
    BY <2>5 DEF Unserved
  <2>7. Unserved' \subseteq Unserved
    BY UnservedStep DEF Next, Callback, LastDatagram, LoseDatagram, camera
  <2> QED
    BY <2>3, <2>6, <2>7
<1> QED
  BY <1>4, <1>5

LEMMA CountStep ==
  ASSUME TInv, OrderInv, DataInv, CountInv, [Next]_vars, "cross" \notin Faults
  PROVE  CountInv'
<1>f. /\ IsFiniteSet(Again) /\ Cardinality(Again) \in Nat
      /\ IsFiniteSet(Unserved) /\ Cardinality(Unserved) \in Nat /\ heads \in Nat
  BY Finite
<1>g. /\ Cardinality(Again') \in Nat /\ Cardinality(Unserved') \in Nat
      /\ TInv'
  <2>1. TInv'
    BY TypeStep
  <2>2. (/\ IsFiniteSet(Again) /\ Cardinality(Again) \in Nat
         /\ IsFiniteSet(Unserved) /\ Cardinality(Unserved) \in Nat /\ heads \in Nat)'
    BY <2>1, Finite, PTL
  <2> QED
    BY <2>1, <2>2
<1>1. CASE LastDatagram
  <2>1. heads' = heads
    BY <1>1 DEF LastDatagram, trouble
  <2>2. Unserved' \subseteq Unserved
    BY <1>1, UnservedStep DEF LastDatagram, LoseDatagram, camera
  <2>3. CASE \A m \in DOMAIN delivered : delivered[m].object # currentFrame
    <3>1. Cardinality(Again') <= Cardinality(Again)
      BY <1>f, <1>1, <2>3, AgainOfLast, CardinalityStep
    <3>2. Cardinality(Unserved') <= Cardinality(Unserved)
      BY <1>f, <2>2, CardinalityStep
    <3> QED
      BY <1>f, <1>g, <2>1, <3>1, <3>2 DEF CountInv
  <2>4. ASSUME NEW f \in Unserved, Unserved' \subseteq Unserved \ {f} PROVE CountInv'
    <3>1. Cardinality(Again') <= Cardinality(Again) + 1
      BY <1>f, <1>1, AgainOfLast, CardinalityStep
    <3>2. Cardinality(Unserved') <= Cardinality(Unserved) - 1
      BY <1>f, <2>4, CardinalityStep
    <3> QED
      BY <1>f, <1>g, <2>1, <3>1, <3>2 DEF CountInv
  <2> QED
    BY <1>1, <2>3, <2>4, LastPays
<1>2. CASE ~LastDatagram
  <2>1. Again' = Again
    <3>1. delivered' = delivered
      BY <1>2, WhatIsDelivered
    <3> QED
      BY <3>1 DEF Again
  <2>2. CASE LoseDatagram /\ next = 0
    <3>1. heads' = heads + 1
      BY <2>2 DEF LoseDatagram
    <3>2. Cardinality(Unserved') <= Cardinality(Unserved) + 1
      BY <1>f, <2>2, UnservedStep, CardinalityStep
    <3> QED
      BY <1>f, <1>g, <2>1, <3>1, <3>2 DEF CountInv
  <2>3. CASE ~(LoseDatagram /\ next = 0)
    <3>1. heads' = heads
      BY <1>2, <2>3 DEF Next, Callback, Camera, FirstDatagram, MiddleDatagram, LoseDatagram,
                        StartFrame, SendDatagram, Overtake, trouble, vars
    <3>2. Cardinality(Unserved') <= Cardinality(Unserved)
      BY <1>f, <2>3, UnservedStep, CardinalityStep
    <3> QED
      BY <1>f, <1>g, <2>1, <3>1, <3>2 DEF CountInv
  <2> QED
    BY <2>2, <2>3
<1> QED
  BY <1>1, <1>2

\* A first datagram that is lost stays lost.
LEMMA HeadsGrow ==
  ASSUME TInv, [Next]_vars, heads' = 0 PROVE heads = 0
<1>1. heads \in Nat
  BY DEF TInv, CameraType
<1>2. CASE LoseDatagram
  BY <1>1, <1>2 DEF LoseDatagram
<1>3. CASE ~LoseDatagram
  BY <1>3 DEF Next, Callback, Camera, FirstDatagram, MiddleDatagram, LastDatagram,
              StartFrame, SendDatagram, Overtake, trouble, vars
<1> QED
  BY <1>2, <1>3

(***************************************************************************)
(* Unless a first datagram was lost, a last datagram finds the object of   *)
(* its own frame.                                                          *)
(***************************************************************************)
LEMMA LastFindsItsFrame ==
  ASSUME TInv, OrderInv, CountInv, heads = 0, LastDatagram
  PROVE  /\ Len(net) \in Nat /\ Len(net) > 0 /\ net[1] \in Datagrams /\ IsLast(net[1])
         /\ heap[currentFrame].of = net[1].of
<1>1. Len(net) \in Nat /\ Len(net) > 0 /\ Head(net) = net[1] /\ net[1] \in Datagrams
  BY CallbackTakes DEF Callback
<1>2. IsLast(net[1]) /\ 1 \in 1..Len(net)
  BY <1>1 DEF LastDatagram
<1>3. Unserved = {}
  BY Finite, FS_EmptySet DEF CountInv
<1>4. Served(net[1].frame)
  <2>1. net[1].frame \in 1..frame
    BY <1>1, <1>2, NetIsTyped, NumbersOf DEF OrderInv, Sent
  <2> QED
    BY <1>3, <2>1 DEF Unserved
<1>5. \E n : n = 0 /\ Ready(net[1].frame, net[1].of, n)
  BY <1>2, <1>4 DEF Served
<1>6. Begun(net[1].frame, net[1].of, 0)
  BY <1>5 DEF Ready, Coming
<1> QED
  BY <1>1, <1>2, <1>6 DEF Begun

LEMMA LastCellStep ==
  ASSUME TInv, OrderInv, DataInv, CountInv, LastCellIsNewest, [Next]_vars PROVE LastCellIsNewest'
<1> SUFFICES ASSUME heads' = 0 PROVE LastCellIsNewest'
  BY DEF LastCellIsNewest
<1>0. heads = 0
  BY HeadsGrow
<1>1. CASE delivered' = delivered
  BY <1>0, <1>1 DEF LastCellIsNewest
<1>2. ASSUME LastDatagram, currentFrame # 0,
             NEW f, f = SortData(heap[currentFrame], data'), Delivers(currentFrame, f)
      PROVE  LastCellIsNewest'
  <2>1. /\ net[1] \in Datagrams /\ IsLast(net[1]) /\ 1 \in 1..Len(net)
        /\ heap[currentFrame].of = net[1].of
    BY <1>0, <1>2, LastFindsItsFrame
  <2>2. f.of = net[1].of
    <3>1. heap[currentFrame] \in FrameObjects /\ data' \in [Cells -> 0..MaxFrames]
      BY <1>2, LastEffect
    <3> QED
      BY <3>1, <2>1, <1>2, SortDataType
  <2>3. net[1].num = f.of - 1 /\ net[1].num \in 0..f.of - 1 /\ net[1].frame \in Nat
    BY <2>1, <2>2, NumbersOf DEF IsLast
  <2>4. \A k \in Cells : data'[k] = IF k = net[1].num THEN net[1].frame ELSE data[k]
    BY <1>2, CallbackStores DEF Callback
  <2>5. \A k \in Cells : data[k] <= net[1].frame
    BY <2>1 DEF DataInv
  <2>6. \A k \in Cells : data'[k] <= net[1].frame
    BY <2>3, <2>4, <2>5
  <2>7. f.content[f.of - 1] = net[1].frame
    <3>1. f.of - 1 \in Cells /\ f.content[f.of - 1] = data'[f.of - 1]
      BY <1>2, <2>3 DEF Delivers
    <3> QED
      BY <3>1, <2>3, <2>4
  <2>8. \A k \in DOMAIN f.content : f.content[k] <= f.content[f.of - 1]
    BY <1>2, <2>6, <2>7 DEF Delivers
  <2>9. /\ delivered'[Len(delivered) + 1] = [object |-> currentFrame, frame |-> f]
        /\ \A i \in DOMAIN delivered : delivered'[i] = delivered[i]
        /\ \A i \in DOMAIN delivered' : i \in DOMAIN delivered \/ i = Len(delivered) + 1
    BY <1>2, AppendsOne DEF TInv, DeliveredType, Delivers
  <2>10. ASSUME NEW i \in DOMAIN delivered'
         PROVE  LET g == delivered'[i].frame
                IN  \A k \in DOMAIN g.content : g.content[k] <= g.content[g.of - 1]
    <3>1. CASE i \in DOMAIN delivered
      BY <3>1, <2>9, <1>0 DEF LastCellIsNewest
    <3>2. CASE i = Len(delivered) + 1
      <4>1. delivered'[i].frame = f
        BY <3>2, <2>9
      <4> QED
        BY <4>1, <2>8
    <3> QED
      BY <3>1, <3>2, <2>9
  <2> QED
    BY <2>10 DEF LastCellIsNewest
<1> QED
  BY <1>1, <1>2, WhatIsDelivered

-------------------------------------------------------------------------------
(* The theorems *)

LEMMA InvInit ==
  ASSUME Init PROVE IInv
<1>1. TInv
  BY TypeInit
<1>2. Len(net) = 0 /\ DOMAIN delivered = {} /\ heads = frame
  BY DEF Init
<1>3. OrderInv
  BY <1>2 DEF OrderInv
<1>4. DataInv
  <2>1. \A k \in Cells : data[k] = 0
    BY DEF Init
  <2>2. frame \in Nat
    BY <1>1, NetIsTyped
  <2> QED
    BY <1>2, <2>1, <2>2 DEF DataInv
<1>5. DeliveredInv
  BY <1>2 DEF DeliveredInv
<1>6. ObjectInv
  BY <1>2 DEF ObjectInv
<1>7. CountInv
  <2>1. Again = {}
    BY <1>2 DEF Again
  <2>2. CASE frame = 0
    <3>1. Unserved = {}
      BY <2>2 DEF Unserved
    <3> QED
      BY <1>2, <2>1, <2>2, <3>1, FS_EmptySet DEF CountInv
  <2>3. CASE frame = 1
    <3>1. Unserved = {} \/ Unserved = {1}
      BY <2>3 DEF Unserved
    <3>2. Cardinality({1}) = 1 /\ Cardinality({}) = 0
      BY FS_EmptySet, FS_Singleton
    <3>3. Cardinality(Again) = 0 /\ Cardinality(Unserved) \in {0, 1}
      BY <2>1, <3>1, <3>2
    <3> QED
      BY <1>2, <2>3, <3>3 DEF CountInv
  <2> QED
    BY <2>2, <2>3 DEF Init
<1>8. NeverOlder
  BY <1>2 DEF NeverOlder
<1>9. LastCellIsNewest
  BY <1>2 DEF LastCellIsNewest
<1> QED
  BY <1>1, <1>3, <1>4, <1>5, <1>6, <1>7, <1>8, <1>9 DEF IInv

LEMMA InvStep ==
  ASSUME IInv, [Next]_vars, "cross" \notin Faults PROVE IInv'
  BY TypeStep, OrderStep, DataStep, DeliveredStep, ObjectStep, CountStep, NeverOlderStep,
     LastCellStep DEF IInv

THEOREM Invariance ==
  ASSUME "cross" \notin Faults PROVE Spec => []IInv
  BY InvInit, InvStep, PTL DEF Spec

\* Whatever is lost and whichever datagrams of a frame change places, what a
\* subscriber is given later is nowhere older than what it was given before.
THEOREM NoTimeTravel ==
  ASSUME "cross" \notin Faults PROVE Spec => []NeverOlder
<1>1. IInv => NeverOlder
  BY DEF IInv
<1> QED
  BY <1>1, Invariance, PTL

\* Unless a first datagram was lost, the last data of a frame is its newest.
THEOREM EndsWithItsNewest ==
  ASSUME "cross" \notin Faults PROVE Spec => []LastCellIsNewest
<1>1. IInv => LastCellIsNewest
  BY DEF IInv
<1> QED
  BY <1>1, Invariance, PTL

\* What a subscriber was given is its own, but for one frame at most for every
\* first datagram that was lost.
THEOREM TakenBackIsPaidFor ==
  ASSUME "cross" \notin Faults PROVE Spec => []OneTakenBackPerHead
<1>1. ASSUME IInv PROVE OneTakenBackPerHead
  <2>1. TakenBack = Again
    BY <1>1 DEF IInv, ObjectInv, TakenBack, Again
  <2>2. Cardinality(Again) \in Nat /\ Cardinality(Unserved) \in Nat /\ heads \in Nat
    BY <1>1, Finite DEF IInv
  <2> QED
    BY <1>1, <2>1, <2>2 DEF IInv, CountInv, OneTakenBackPerHead
<1> QED
  BY <1>1, Invariance, PTL
-------------------------------------------------------------------------------
(* The driver implements FrameDelivery as long as there is no fault *)

(***************************************************************************)
(* The place (f, n, s) of a stream is datagram n of s of frame f, or the   *)
(* end of that frame (n = s).  After(d, f, n, s): it comes after d.        *)
(***************************************************************************)
After(d, f, n, s) ==
  \/ f = d.frame /\ n = d.num + 1 /\ s = d.of
  \/ f = d.frame + 1 /\ n = 0 /\ d.num = d.of - 1

\* The driver has taken all that comes before a place.
Expects(f, n, s) ==
  /\ n = 0 => infos = f - 1 /\ Len(delivered) = f - 1
  /\ 0 < n /\ n < s =>
       /\ infos = f /\ Len(delivered) = f - 1
       /\ currentFrame # 0 /\ heap[currentFrame].of = s
       /\ \A k \in 0..n - 1 : data[k] = f
  /\ 0 < n /\ n = s => infos = f /\ Len(delivered) = f

\* The datagrams under way follow each other up to the camera.
LineInv ==
  /\ \A i \in 1..Len(net) : net[i].num < net[i].of /\ net[i].frame <= frame
  /\ \A i \in 1..Len(net) - 1 :
       After(net[i], net[i + 1].frame, net[i + 1].num, net[i + 1].of)
  /\ Len(net) > 0 => After(net[Len(net)], frame, next, size)

Flawless ==
  faults = 0 =>
    /\ LineInv
    /\ Len(net) > 0 => Expects(net[1].frame, net[1].num, net[1].of)
    /\ Len(net) = 0 => Expects(frame, next, size)

LEMMA FlawlessInit ==
  ASSUME Init PROVE Flawless
<1> SUFFICES ASSUME faults = 0 PROVE Flawless
  BY DEF Flawless
<1>1. frame = 0 /\ next = size /\ Len(net) = 0 /\ infos = 0 /\ Len(delivered) = 0
  BY DEF Init
<1>2. size \in Nat /\ size > 0
  BY TypeInit, NetIsTyped
<1>3. LineInv
  BY <1>1 DEF LineInv
<1>4. Expects(frame, next, size)
  BY <1>1, <1>2 DEF Expects
<1> QED
  BY <1>1, <1>3, <1>4 DEF Flawless

LEMMA FaultsGrow ==
  ASSUME TInv, [Next]_vars, faults' = 0
  PROVE  /\ faults = 0
         /\ StartFrame \/ SendDatagram \/ Callback \/ UNCHANGED vars
<1>1. faults \in Nat
  BY BoundsAreNat DEF TInv, CameraType
<1>2. ~LoseDatagram /\ ~Overtake
  BY <1>1 DEF LoseDatagram, Overtake
<1>3. StartFrame \/ SendDatagram \/ Callback \/ UNCHANGED vars
  BY <1>2 DEF Next, Camera
<1>4. faults' = faults
  BY <1>3, CallbackTakes DEF StartFrame, SendDatagram, trouble, vars
<1> QED
  BY <1>3, <1>4

\* A step that leaves the driver leaves what it expects.
LEMMA ExpectsKept ==
  ASSUME UNCHANGED driver, NEW f, NEW n, NEW s, Expects(f, n, s)
  PROVE  Expects(f, n, s)'
  BY DEF Expects, driver

LEMMA FlawlessStart ==
  ASSUME TInv, Flawless, StartFrame, faults = 0 PROVE Flawless'
<1>1. /\ UNCHANGED driver /\ net' = net /\ next' = 0 /\ next = size /\ frame' = frame + 1
  BY DEF StartFrame
<1>n. /\ Len(net) \in Nat /\ \A i \in 1..Len(net) : net[i] \in Datagrams
      /\ frame \in Nat /\ size \in Nat /\ size > 0
  BY NetIsTyped
<1>m. \A i \in 1..Len(net) : net[i].frame \in Nat /\ net[i].num \in Nat /\ net[i].of \in Nat
  BY <1>n, NumbersOf
<1>2. LineInv
  BY DEF Flawless
<1>3. LineInv'
  <2>1. \A i \in 1..Len(net') : net'[i].num < net'[i].of /\ net'[i].frame <= frame'
    BY <1>1, <1>2, <1>n, <1>m DEF LineInv
  <2>2. \A i \in 1..Len(net') - 1 :
          After(net'[i], net'[i + 1].frame, net'[i + 1].num, net'[i + 1].of)
    BY <1>1, <1>2 DEF LineInv
  <2>3. ASSUME Len(net) > 0 PROVE After(net[Len(net)], frame', next', size')
    <3>1. After(net[Len(net)], frame, next, size) /\ Len(net) \in 1..Len(net)
      BY <1>2, <1>n, <2>3 DEF LineInv
    <3>2. PICK d : d = net[Len(net)]
      OBVIOUS
    <3>3. d.frame \in Nat /\ d.num \in Nat /\ d.of \in Nat
      BY <3>1, <3>2, <1>m
    <3>4. frame = d.frame /\ d.num = d.of - 1
      <4>1. After(d, frame, next, size)
        BY <3>1, <3>2
      <4>2. next # 0
        BY <1>1, <1>n
      <4>3. frame = d.frame /\ next = d.num + 1 /\ size = d.of
        BY <4>1, <4>2 DEF After
      <4> QED
        BY <4>3, <3>3, <1>1
    <3>5. After(d, frame', next', size')
      BY <3>4, <1>1 DEF After
    <3> QED
      BY <3>2, <3>5
  <2> QED
    BY <1>1, <2>1, <2>2, <2>3 DEF LineInv, After
<1>4. ASSUME Len(net) > 0 PROVE Expects(net[1].frame, net[1].num, net[1].of)'
  <2>1. PICK f, n, s : f = net[1].frame /\ n = net[1].num /\ s = net[1].of
    OBVIOUS
  <2>2. Expects(f, n, s)'
    BY <2>1, <1>1, <1>4, ExpectsKept DEF Flawless
  <2> QED
    BY <2>1, <2>2, <1>1
<1>5. ASSUME Len(net) = 0 PROVE Expects(frame, next, size)'
  <2>1. Expects(frame, next, size)
    BY <1>5 DEF Flawless
  <2>2. infos = frame /\ Len(delivered) = frame
    BY <2>1, <1>1, <1>n DEF Expects
  <2> QED
    BY <2>2, <1>1, <1>n DEF Expects, driver
<1> QED
  BY <1>1, <1>3, <1>4, <1>5 DEF Flawless

LEMMA FlawlessSend ==
  ASSUME TInv, Flawless, SendDatagram, faults = 0 PROVE Flawless'
<1>1. /\ Len(net) \in Nat /\ Len(net') = Len(net) + 1 /\ net'[Len(net) + 1] = Datagram
      /\ \A i \in 1..Len(net) : net'[i] = net[i]
      /\ Datagram.frame = frame /\ Datagram.num = next /\ Datagram.of = size
      /\ next < size /\ frame' = frame /\ size' = size /\ next' = next + 1
      /\ frame \in Nat /\ size \in Nat /\ next \in Nat
  BY SendAppends
<1>2. UNCHANGED driver
  BY DEF SendDatagram
<1>3. LineInv
  BY DEF Flawless
<1>4. LineInv'
  <2>1. \A i \in 1..Len(net') : i \in 1..Len(net) \/ i = Len(net) + 1
    BY <1>1
  <2>2. \A i \in 1..Len(net') : net'[i].num < net'[i].of /\ net'[i].frame <= frame'
    BY <2>1, <1>1, <1>3 DEF LineInv
  <2>3. ASSUME NEW i \in 1..Len(net') - 1
        PROVE  After(net'[i], net'[i + 1].frame, net'[i + 1].num, net'[i + 1].of)
    <3>1. i \in 1..Len(net) /\ net'[i] = net[i]
      BY <1>1
    <3>2. CASE i = Len(net)
      <4>1. After(net[Len(net)], frame, next, size)
        BY <3>1, <3>2, <1>1, <1>3 DEF LineInv
      <4> QED
        BY <4>1, <3>1, <3>2, <1>1
    <3>3. CASE i # Len(net)
      <4>1. i \in 1..Len(net) - 1 /\ i + 1 \in 1..Len(net)
        BY <3>1, <3>3, <1>1
      <4> QED
        BY <4>1, <3>1, <1>1, <1>3 DEF LineInv
    <3> QED
      BY <3>2, <3>3
  <2>4. After(net'[Len(net')], frame', next', size')
    BY <1>1 DEF After
  <2> QED
    BY <2>2, <2>3, <2>4 DEF LineInv, After
<1>5. Expects(net[1].frame, net[1].num, net[1].of)'
  <2>1. PICK f, n, s : f = net'[1].frame /\ n = net'[1].num /\ s = net'[1].of
    OBVIOUS
  <2>2. CASE Len(net) > 0
    <3>1. 1 \in 1..Len(net)
      BY <1>1, <2>2
    <3>2. Expects(f, n, s)
      BY <2>1, <2>2, <3>1, <1>1 DEF Flawless
    <3>3. Expects(f, n, s)'
      BY <3>2, <1>2, ExpectsKept
    <3> QED
      BY <3>3, <2>1
  <2>3. CASE Len(net) = 0
    <3>1. f = frame /\ n = next /\ s = size
      BY <2>1, <2>3, <1>1
    <3>2. Expects(f, n, s)'
      BY <3>1, <2>3, <1>2, ExpectsKept DEF Flawless
    <3> QED
      BY <3>2, <2>1
  <2> QED
    BY <2>2, <2>3, <1>1
<1> QED
  BY <1>1, <1>4, <1>5 DEF Flawless

(***************************************************************************)
(* A callback that takes what the driver expects leaves it to expect what  *)
(* comes after.  A frame has two datagrams at least.                       *)
(***************************************************************************)
LEMMA ExpectsNext ==
  ASSUME TInv, Callback, \A s \in Sizes : s # 1,
         Expects(net[1].frame, net[1].num, net[1].of), net[1].num < net[1].of,
         NEW f, NEW n, NEW s, After(net[1], f, n, s)
  PROVE  Expects(f, n, s)'
<1> DEFINE d == net[1]
<1>1. d \in Datagrams /\ Head(net) = d
  BY CallbackTakes
<1>2. d.frame \in Nat /\ d.num \in Nat /\ d.of \in Nat /\ d.of > 1 /\ d.num \in Cells
  <2> HIDE DEF d
  <2>1. d.frame \in Nat /\ d.num \in Nat /\ d.of \in Nat /\ d.of > 0 /\ d.num \in Cells
        /\ d.of \in Sizes
    BY <1>1, NumbersOf
  <2>2. d.of # 1
    BY <2>1
  <2> QED
    BY <2>1, <2>2
<1>3. \A k \in Cells : data'[k] = IF k = d.num THEN d.frame ELSE data[k]
  BY CallbackStores
<1>4. infos \in Nat /\ Len(delivered) \in Nat /\ heap \in Seq(FrameObjects) /\ Len(heap) \in Nat
  BY DEF TInv, DriverType, DeliveredType
<1>5. 0..d.of - 1 \subseteq Cells
  BY <1>1, NumbersOf, CellsCover
<1> HIDE DEF d
<1>e. Expects(d.frame, d.num, d.of) /\ After(d, f, n, s) /\ d.num < d.of
  BY DEF d
<1>6. CASE FirstDatagram
  <2>1. /\ d.num = 0 /\ infos' = infos + 1 /\ delivered' = delivered
        /\ heap' = Append(heap, [of |-> d.of, content |-> <<>>])
        /\ currentFrame' = Len(heap) + 1
    BY <1>1, <1>6 DEF FirstDatagram
  <2>2. f = d.frame /\ n = 1 /\ s = d.of
    BY <2>1, <1>2, <1>e DEF After
  <2>3. infos = f - 1 /\ Len(delivered) = f - 1
    BY <2>1, <2>2, <1>e DEF Expects
  <2>4. heap'[currentFrame'] = [of |-> d.of, content |-> <<>>] /\ currentFrame' # 0
    BY <2>1, <1>4
  <2>5. heap'[currentFrame'].of = s
    BY <2>2, <2>4
  <2>6. data'[0] = f
    BY <2>1, <2>2, <1>2, <1>3
  <2>7. \A k \in 0..n - 1 : data'[k] = f
    BY <2>2, <2>6
  <2>8. infos' = f /\ Len(delivered') = f - 1
    BY <2>1, <2>2, <2>3, <1>2
  <2> QED
    BY <2>2, <2>4, <2>5, <2>7, <2>8, <1>2 DEF Expects
<1>7. CASE MiddleDatagram
  <2>1. /\ d.num # 0 /\ d.num # d.of - 1
        /\ UNCHANGED <<heap, currentFrame, delivered, infos>>
    BY <1>1, <1>7 DEF MiddleDatagram, IsLast
  <2>2. f = d.frame /\ n = d.num + 1 /\ s = d.of /\ 0 < n /\ n < s /\ 0 < d.num
    BY <2>1, <1>2, <1>e DEF After
  <2>3. /\ infos = f /\ Len(delivered) = f - 1
        /\ currentFrame # 0 /\ heap[currentFrame].of = s
        /\ \A k \in 0..d.num - 1 : data[k] = f
    BY <2>2, <1>e DEF Expects
  <2>4. ASSUME NEW k \in 0..n - 1 PROVE data'[k] = f
    <3>1. k \in Cells /\ (k = d.num \/ k \in 0..d.num - 1)
      BY <2>2, <1>2, <1>5
    <3> QED
      BY <3>1, <2>2, <2>3, <1>3
  <2> QED
    BY <2>1, <2>2, <2>3, <2>4, <1>2 DEF Expects
<1>8. CASE LastDatagram
  <2>1. /\ d.num # 0 /\ d.num = d.of - 1 /\ infos' = infos
    BY <1>1, <1>8 DEF LastDatagram, IsLast
  <2>2. infos = d.frame /\ Len(delivered) = d.frame - 1 /\ currentFrame # 0
    BY <2>1, <1>2, <1>e DEF Expects
  <2>3. \E e : delivered' = Append(delivered, e)
    BY <2>2, <1>8, LastEffect
  <2>4. Len(delivered') = d.frame
    BY <2>2, <2>3, <1>2 DEF TInv, DeliveredType
  <2>5. \/ f = d.frame /\ n = s /\ 0 < n /\ n \in Nat
        \/ f = d.frame + 1 /\ n = 0
    BY <2>1, <1>2, <1>e DEF After
  <2>6. CASE f = d.frame /\ n = s /\ 0 < n /\ n \in Nat
    BY <2>1, <2>2, <2>4, <2>6, <1>2 DEF Expects
  <2>7. CASE f = d.frame + 1 /\ n = 0
    BY <2>1, <2>2, <2>4, <2>7, <1>2 DEF Expects
  <2> QED
    BY <2>5, <2>6, <2>7
<1> QED
  BY <1>6, <1>7, <1>8 DEF Callback
LEMMA FlawlessCallback ==
  ASSUME TInv, Flawless, Callback, faults = 0, \A s \in Sizes : s # 1 PROVE Flawless'
<1>1. /\ Len(net) \in Nat /\ Len(net) > 0 /\ Len(net') = Len(net) - 1
      /\ \A i \in 1..Len(net') : net'[i] = net[i + 1] /\ i + 1 \in 1..Len(net)
      /\ UNCHANGED camera
  BY CallbackTakes
<1>2. LineInv
  BY DEF Flawless
<1>3. LineInv'
  <2>1. \A i \in 1..Len(net') : net'[i].num < net'[i].of /\ net'[i].frame <= frame'
    BY <1>1, <1>2 DEF LineInv, camera
  <2>2. ASSUME NEW i \in 1..Len(net') - 1
        PROVE  After(net'[i], net'[i + 1].frame, net'[i + 1].num, net'[i + 1].of)
    <3>1. i \in 1..Len(net') /\ i + 1 \in 1..Len(net') /\ i + 1 \in 1..Len(net) - 1
      BY <1>1
    <3>2. net'[i] = net[i + 1] /\ net'[i + 1] = net[(i + 1) + 1]
      BY <3>1, <1>1
    <3> QED
      BY <3>1, <3>2, <1>2 DEF LineInv
  <2>3. ASSUME Len(net') > 0 PROVE After(net'[Len(net')], frame', next', size')
    <3>1. net'[Len(net')] = net[Len(net)]
      BY <1>1, <2>3
    <3> QED
      BY <3>1, <1>1, <1>2 DEF LineInv, camera
  <2> QED
    BY <2>1, <2>2, <2>3 DEF LineInv, After
<1>4. Expects(net[1].frame, net[1].num, net[1].of) /\ net[1].num < net[1].of
  BY <1>1, <1>2 DEF Flawless, LineInv
<1>5. ASSUME Len(net') > 0 PROVE Expects(net[1].frame, net[1].num, net[1].of)'
  <2>1. net'[1] = net[2] /\ 1 \in 1..Len(net) - 1
    BY <1>1, <1>5
  <2>2. After(net[1], net[1 + 1].frame, net[1 + 1].num, net[1 + 1].of)
    BY <2>1, <1>2 DEF LineInv
  <2>3. PICK f, n, s : f = net'[1].frame /\ n = net'[1].num /\ s = net'[1].of
    OBVIOUS
  <2>4. After(net[1], f, n, s)
    BY <2>1, <2>2, <2>3
  <2>5. Expects(f, n, s)'
    BY <2>4, <1>4, ExpectsNext
  <2> QED
    BY <2>3, <2>5
<1>6. ASSUME Len(net') = 0 PROVE Expects(frame, next, size)'
  <2>1. Len(net) = 1
    BY <1>1, <1>6
  <2>2. PICK f, n, s : f = frame /\ n = next /\ s = size
    OBVIOUS
  <2>3. After(net[1], f, n, s)
    BY <2>1, <2>2, <1>2 DEF LineInv
  <2>4. Expects(f, n, s)'
    BY <2>3, <1>4, ExpectsNext
  <2> QED
    BY <2>2, <2>4, <1>1 DEF camera
<1> QED
  BY <1>3, <1>5, <1>6 DEF Flawless

LEMMA FlawlessStep ==
  ASSUME TInv, Flawless, [Next]_vars, \A s \in Sizes : s # 1 PROVE Flawless'
<1> SUFFICES ASSUME faults' = 0 PROVE Flawless'
  BY DEF Flawless
<1>1. faults = 0 /\ (StartFrame \/ SendDatagram \/ Callback \/ UNCHANGED vars)
  BY FaultsGrow
<1>2. CASE UNCHANGED vars
  <2>1. UNCHANGED camera /\ UNCHANGED driver /\ net' = net /\ faults' = faults
    BY <1>2 DEF vars, trouble
  <2>2. LineInv'
    BY <2>1, <1>1 DEF Flawless, LineInv, camera, After
  <2>3. \A f, n, s : Expects(f, n, s) => Expects(f, n, s)'
    BY <2>1, ExpectsKept
  <2>4. Len(net) > 0 => Expects(net[1].frame, net[1].num, net[1].of)'
    BY <2>1, <2>3, <1>1 DEF Flawless
  <2>5. Len(net) = 0 => Expects(frame, next, size)'
    BY <2>1, <2>3, <1>1 DEF Flawless, camera
  <2> QED
    BY <2>1, <2>2, <2>4, <2>5 DEF Flawless
<1> QED
  BY <1>1, <1>2, FlawlessStart, FlawlessSend, FlawlessCallback

\* The frames that a subscriber was given, as FrameDelivery counts them.
Out == [i \in DOMAIN delivered |-> FrameOf(delivered[i].frame)]

LEMMA OutLength ==
  ASSUME DeliveredType
  PROVE  Len(Out) = Len(delivered) /\ Len(delivered) \in Nat /\ DOMAIN Out = 1..Len(delivered)
  BY DEF DeliveredType, Out

LEMMA AppendFunction ==
  ASSUME NEW n \in Nat, NEW f, f = [i \in 1..n |-> f[i]], NEW e
  PROVE  Append(f, e) = [i \in 1..n + 1 |-> IF i = n + 1 THEN e ELSE f[i]]
<1> DEFINE S == {f[i] : i \in 1..n}
<1>1. f \in [1..n -> S]
  OBVIOUS
<1> HIDE DEF S
<1>2. f \in Seq(S) /\ Len(f) = n
  BY <1>1
<1> QED
  BY <1>2

\* A frame all of whose cells come from frame n is frame n.
LEMMA WholeFrame ==
  ASSUME NEW f, NEW n, DOMAIN f.content # {}, \A k \in DOMAIN f.content : f.content[k] = n
  PROVE  FrameOf(f) = n
<1>1. Contents(f) = {n}
  BY DEF Contents
<1> QED
  BY <1>1 DEF FrameOf

\* Every step without a fault is one of FrameDelivery, or none.
LEMMA Simulation ==
  ASSUME TInv, Flawless, [Next]_vars, \A s \in Sizes : s # 1, faults' = 0
  PROVE  Delivery!Next \/ UNCHANGED Delivery!vars
<1>0. faults = 0 /\ (StartFrame \/ SendDatagram \/ Callback \/ UNCHANGED vars)
  BY FaultsGrow
<1>1. UNCHANGED delivered => Out' = Out
  BY DEF Out
<1>2. CASE StartFrame
  BY <1>1, <1>2 DEF StartFrame, driver, Delivery!Next, Delivery!Start, Out
<1>3. CASE SendDatagram \/ MiddleDatagram \/ UNCHANGED vars
  <2>1. UNCHANGED <<frame, infos, delivered>>
    BY <1>3 DEF SendDatagram, MiddleDatagram, vars, camera, driver
  <2> QED
    BY <2>1, <1>1 DEF Delivery!vars, Out
<1>n. /\ Len(net) \in Nat /\ \A i \in 1..Len(net) : net[i] \in Datagrams
      /\ frame \in Nat
  BY NetIsTyped
<1>4. CASE FirstDatagram
  <2>1. /\ Len(net) > 0 /\ net[1] \in Datagrams /\ net[1].num = 0
        /\ infos' = infos + 1 /\ UNCHANGED <<frame, delivered>>
    BY <1>4, CallbackTakes DEF Callback, FirstDatagram, camera
  <2>2. infos = net[1].frame - 1 /\ Len(delivered) = net[1].frame - 1
    BY <2>1, <1>0 DEF Flawless, Expects
  <2>3. net[1].frame <= frame /\ net[1].frame \in Nat
    BY <2>1, <1>0, <1>n, NumbersOf DEF Flawless, LineInv
  <2>4. infos < frame
    BY <2>2, <2>3, <1>n
  <2>5. infos = Len(Out)
    BY <2>2, OutLength DEF TInv
  <2> QED
    BY <2>1, <2>4, <2>5, <1>1 DEF Delivery!Next, Delivery!Announce, Out
<1>5. CASE LastDatagram
  <2> DEFINE d == net[1]
  <2>1. /\ Len(net) > 0 /\ d \in Datagrams /\ Head(net) = d /\ UNCHANGED <<frame, infos>>
    BY <1>5, CallbackTakes DEF Callback, LastDatagram, camera
  <2>2. IsLast(d)
    BY <2>1, <1>5 DEF LastDatagram
  <2>3. d.num \in Nat /\ d.of \in Nat /\ d.of > 0 /\ d.frame \in Nat /\ d.num \in Cells
    BY <2>1, NumbersOf
  <2>4. Expects(d.frame, d.num, d.of)
    BY <2>1, <1>0 DEF Flawless
  <2> HIDE DEF d
  <2>5. /\ infos = d.frame /\ Len(delivered) = d.frame - 1
        /\ currentFrame # 0 /\ heap[currentFrame].of = d.of
        /\ \A k \in 0..d.num - 1 : data[k] = d.frame
    BY <2>2, <2>3, <2>4 DEF Expects, IsLast
  <2> DEFINE f == SortData(heap[currentFrame], data')
  <2>6. /\ delivered' = Append(delivered, [object |-> currentFrame, frame |-> f])
        /\ heap[currentFrame] \in FrameObjects /\ data' \in [Cells -> 0..MaxFrames]
    BY <2>5, <1>5, LastEffect
  <2>7. /\ DOMAIN f.content = 0..d.of - 1
        /\ \A k \in 0..d.of - 1 : k \in Cells /\ f.content[k] = data'[k]
    BY <2>5, <2>6, SortDataType
  <2> HIDE DEF f
  <2>8. \A k \in Cells : data'[k] = IF k = d.num THEN d.frame ELSE data[k]
    BY <1>5, CallbackStores DEF Callback, d
  <2>9. ASSUME NEW k \in 0..d.of - 1 PROVE f.content[k] = d.frame
    <3>1. k = d.num \/ k \in 0..d.num - 1
      BY <2>2, <2>3 DEF IsLast
    <3> QED
      BY <3>1, <2>5, <2>7, <2>8
  <2>10. FrameOf(f) = infos
    <3>1. 0 \in 0..d.of - 1
      BY <2>3
    <3>2. DOMAIN f.content # {} /\ \A k \in DOMAIN f.content : f.content[k] = d.frame
      BY <3>1, <2>7, <2>9
    <3>3. FrameOf(f) = d.frame
      BY <3>2, WholeFrame
    <3> QED
      BY <3>3, <2>5
  <2>11. Out' = Append(Out, infos)
    <3>1. /\ DOMAIN delivered = 1..Len(delivered) /\ Len(delivered) \in Nat
          /\ DOMAIN delivered' = 1..Len(delivered) + 1
          /\ delivered'[Len(delivered) + 1] = [object |-> currentFrame, frame |-> f]
          /\ \A i \in DOMAIN delivered : delivered'[i] = delivered[i]
      BY <2>6, AppendsOne DEF TInv, DeliveredType
    <3> DEFINE n == Len(delivered)
    <3>2. Out = [i \in 1..n |-> Out[i]]
      BY <3>1 DEF Out
    <3>3. Append(Out, infos) = [i \in 1..n + 1 |-> IF i = n + 1 THEN infos ELSE Out[i]]
      BY <3>1, <3>2, AppendFunction
    <3>4. Out' = [i \in 1..n + 1 |-> FrameOf(delivered'[i].frame)]
      BY <3>1 DEF Out, FrameOf, Contents
    <3>5. ASSUME NEW i \in 1..n + 1
          PROVE  FrameOf(delivered'[i].frame) = IF i = n + 1 THEN infos ELSE Out[i]
      <4>1. CASE i = n + 1
        BY <4>1, <3>1, <2>10
      <4>2. CASE i # n + 1
        <5>1. i \in DOMAIN delivered /\ delivered'[i] = delivered[i]
          BY <4>2, <3>1
        <5> QED
          BY <5>1, <4>2 DEF Out
      <4> QED
        BY <4>1, <4>2
    <3> QED
      BY <3>3, <3>4, <3>5
  <2>12. Len(Out) < infos
    BY <2>3, <2>5, OutLength DEF TInv
  <2> QED
    BY <2>1, <2>11, <2>12 DEF Delivery!Next, Delivery!Deliver, Out
<1> QED
  BY <1>0, <1>2, <1>3, <1>4, <1>5 DEF Callback

\* For frames of two datagrams or more, any of them lost or overtaken later on:
\* up to the first fault, a subscriber is given the frames that the camera
\* started, whole, once and in order, each announced before.
THEOREM Implementation ==
  ASSUME \A s \in Sizes : s # 1 PROVE Spec => DeliverySpec
<1>1. Spec => [](TInv /\ Flawless)
  <2>1. Init => TInv /\ Flawless
    BY TypeInit, FlawlessInit
  <2>2. TInv /\ Flawless /\ [Next]_vars => (TInv /\ Flawless)'
    BY TypeStep, FlawlessStep
  <2> QED
    BY <2>1, <2>2, PTL DEF Spec
<1>2. Init => (faults = 0 => Delivery!Init)
  <2> SUFFICES ASSUME Init, faults = 0 PROVE Delivery!Init
    OBVIOUS
  <2>1. frame = 0 /\ infos = 0 /\ delivered = <<>>
    BY DEF Init
  <2>2. Out = <<>>
    BY <2>1 DEF Out
  <2> QED
    BY <2>1, <2>2 DEF Delivery!Init, Out
<1>3. TInv /\ Flawless /\ [Next]_vars
        => [faults' = 0 => Delivery!Next \/ UNCHANGED Delivery!vars]_vars
  BY Simulation
<1> QED
  BY <1>1, <1>2, <1>3, PTL DEF Spec, DeliverySpec
===============================================================================
