------------------------------ MODULE ImuParser -------------------------------
(***************************************************************************)
(* The reader of the inertial sensor (wt901c_ttl.cpp): IMU::start takes    *)
(* bytes from the serial line, which may lose or change some of them, and  *)
(* parseData looks for messages through a window of eleven bytes.          *)
(*                                                                         *)
(* The memcpy of line 237 overlaps itself; for ten bytes every build loads *)
(* before it stores or copies forwards, and the window moves by one.       *)
(***************************************************************************)
EXTENDS ImuMessage

CONSTANTS
  Messages,      \* what the sensor sends
  Garbage,       \* what the line changes a byte to, and chrBuf may hold at first
  MaxMessages,   \* bound: messages sent
  MaxFaults      \* bound: bytes lost or changed

ASSUME MessagesAreMessages ==
  \A m \in Messages : m \in Seq(Bytes) /\ Len(m) = Size /\ IsMessage(m)
ASSUME GarbageIsBytes == Garbage \subseteq Bytes
ASSUME BoundsAreNat == MaxMessages \in Nat /\ MaxFaults \in Nat

VARIABLES
  chrBuf, chrCnt,  \* the window
  readings,        \* a, w, Angle, h
  line,            \* the rest of the message that is being sent
  sent, faults,
  last, whole,     \* history: the last message, and whether all of it came
  fresh,           \* history: the bytes since the last message taken
  cut              \* history: a message was taken that ends inside the last one

window == <<chrBuf, chrCnt, readings, fresh>>
sensor == <<sent, faults, last, whole>>
vars == <<window, sensor, line, cut>>

\* The reader may start in the middle of a message.  chrBuf and the readings
\* are not initialised; <<>> stands for what the readings hold then.
Init ==
  /\ chrBuf \in {[i \in 0..Size - 1 |-> g] : g \in Garbage} /\ chrCnt = 0
  /\ readings = [k \in Kinds |-> <<>>]
  /\ last \in Messages /\ whole = FALSE
  /\ line \in {SubSeq(last, n, Size) : n \in 2..Size + 1}
  /\ sent = 0 /\ faults = 0
  /\ fresh = <<>> /\ cut = FALSE

-------------------------------------------------------------------------------
(* parseData, for the byte at the head of the line *)

Stored == [chrBuf EXCEPT ![chrCnt] = Head(line)]
WindowOf(buf) == [i \in 1..Size |-> buf[i - 1]]

\* Faulty variant of HoldsMessage: messages of other types are not taken.
HoldsKnownMessage == IsMessage(WindowOf(Stored)) /\ Stored[1] \in Kinds

HoldsMessage == IsMessage(WindowOf(Stored))

\* The window is not full yet.
Collect ==
  /\ line # <<>> /\ chrCnt + 1 < Size
  /\ chrBuf' = Stored /\ chrCnt' = chrCnt + 1
  /\ line' = Tail(line)
  /\ fresh' = Append(fresh, Head(line))
  /\ UNCHANGED <<readings, sensor, cut>>

\* Faulty variant of Moved: one byte too few is moved.
MovedShort(buf) == [i \in 0..Size - 1 |-> IF i < Size - 2 THEN buf[i + 1] ELSE buf[i]]

\* The first ten bytes become the last ten.
Moved(buf) == [i \in 0..Size - 1 |-> IF i < Size - 1 THEN buf[i + 1] ELSE buf[i]]

\* Faulty variant of CountAfterReject: the count is not taken back.
CountAfterRejectForgotten == chrCnt + 1

CountAfterReject == chrCnt

\* The window holds no message and moves by one byte.
Reject ==
  /\ line # <<>> /\ chrCnt + 1 >= Size
  /\ ~HoldsMessage
  /\ chrBuf' = Moved(Stored) /\ chrCnt' = CountAfterReject
  /\ line' = Tail(line)
  /\ fresh' = Append(fresh, Head(line))
  /\ UNCHANGED <<readings, sensor, cut>>

\* The window holds a message.
Accept ==
  /\ line # <<>> /\ chrCnt + 1 >= Size
  /\ HoldsMessage
  /\ readings' = Read(readings, WindowOf(Stored))
  /\ chrBuf' = Stored /\ chrCnt' = 0
  /\ line' = Tail(line)
  /\ fresh' = <<>>
  /\ cut' = (cut \/ line' # <<>>)
  /\ UNCHANGED sensor

-------------------------------------------------------------------------------
(* The sensor and the line (external) *)

\* When the line is empty the next message comes, whole unless a fault hits it.
Send ==
  /\ line = <<>> /\ sent < MaxMessages
  /\ \E m \in Messages : last' = m /\ line' = m
  /\ sent' = sent + 1 /\ whole' = TRUE /\ cut' = FALSE
  /\ UNCHANGED <<window, faults>>

Lose ==
  /\ line # <<>> /\ faults < MaxFaults
  /\ line' = Tail(line)
  /\ faults' = faults + 1 /\ whole' = FALSE
  /\ UNCHANGED <<window, sent, last, cut>>

Garble ==
  /\ line # <<>> /\ faults < MaxFaults
  /\ \E g \in Garbage : line' = [line EXCEPT ![1] = g]
  /\ faults' = faults + 1 /\ whole' = FALSE
  /\ UNCHANGED <<window, sent, last, cut>>

Next == Collect \/ Reject \/ Accept \/ Send \/ Lose \/ Garble

Spec == Init /\ [][Next]_vars

-------------------------------------------------------------------------------
Readings == [Kinds -> {<<>>} \cup (Bytes \X Bytes \X Bytes \X Bytes \X Bytes \X Bytes)]

TypeOK ==
  /\ chrBuf \in [0..Size - 1 -> Bytes] /\ chrCnt \in 0..Size - 1
  /\ readings \in Readings
  /\ line \in Seq(Bytes) /\ Len(line) <= Size
  /\ fresh \in Seq(Bytes)
  /\ sent \in Nat /\ faults \in Nat
  /\ last \in Messages /\ whole \in BOOLEAN /\ cut \in BOOLEAN

(***************************************************************************)
(* After a message that arrived undamaged its data is what the reader      *)
(* shows, whatever happened to the bytes before it, unless these made up a *)
(* message together with its first bytes.                                  *)
(***************************************************************************)
MessageGetsThrough ==
  line = <<>> /\ whole /\ ~cut /\ last[2] \in Kinds => readings[last[2]] = Data(last)

(***************************************************************************)
(* The parser, with its window of eleven bytes, takes exactly the messages *)
(* that ImuFraming takes, which remembers all bytes.                       *)
(***************************************************************************)
Framing == INSTANCE ImuFraming
FramingSpec == Framing!Spec
===============================================================================
