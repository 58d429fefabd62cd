--------------------------- MODULE ImuParserProofs ----------------------------
(***************************************************************************)
(* Theorems about ImuParser, for any messages, any disturbance of the line *)
(* and any number of messages and faults.                                  *)
(*                                                                         *)
(* WindowInv: the window is the end of what came since the last message.   *)
(* WholeInv: while a whole message comes in, what came of it is the end of *)
(* fresh, unless a message was taken in the middle of it.                  *)
(***************************************************************************)
EXTENDS ImuParser, SequenceTheorems, TLAPS

\* How many bytes have come since the last message taken, how many of the last
\* message are still to come, and how many have come.
Came == Len(fresh)
Left == Len(line)
Known == Size - Left

CountInv == chrCnt = IF Came < Size THEN Came ELSE Size - 1
BytesInv == \A i \in 1..chrCnt : chrBuf[i - 1] = fresh[Came - chrCnt + i]
WindowInv == CountInv /\ BytesInv

KnownBytes ==
  \A i \in 1..Size : last[i] = IF i <= Known THEN fresh[Came - Known + i] ELSE line[i - Known]
WholeInv == whole /\ ~cut /\ line # <<>> => Known <= Came /\ KnownBytes

IInv == TypeOK /\ WindowInv /\ WholeInv /\ MessageGetsThrough

-------------------------------------------------------------------------------
(* The bytes that come *)

\* What the type invariant says of numbers.
LEMMA Lengths ==
  ASSUME TypeOK
  PROVE  /\ chrCnt \in 0..Size - 1 /\ Came \in Nat /\ Left \in 0..Size
         /\ chrBuf \in [0..Size - 1 -> Bytes]
         /\ last \in Seq(Bytes) /\ Len(last) = Size /\ IsMessage(last)
<1>1. fresh \in Seq(Bytes) /\ line \in Seq(Bytes)
  BY DEF TypeOK
<1>2. Came \in Nat /\ Left \in Nat
  BY <1>1, LenProperties DEF Came, Left
<1>3. Left <= Size
  BY DEF TypeOK, Left
<1>4. Left \in 0..Size
  BY <1>2, <1>3 DEF Size
<1>5. chrCnt \in 0..Size - 1 /\ chrBuf \in [0..Size - 1 -> Bytes] /\ last \in Messages
  BY DEF TypeOK
<1>6. QED
  BY <1>2, <1>4, <1>5, MessagesAreMessages

\* What the next byte adds to the bytes that came.
LEMMA NextByte ==
  ASSUME TypeOK, line # <<>>, NEW s, s = Append(fresh, Head(line))
  PROVE  /\ Head(line) \in Bytes /\ Head(line) = line[1] /\ Left \in 1..Size
         /\ s \in Seq(Bytes) /\ Len(s) = Came + 1 /\ s[Came + 1] = Head(line)
         /\ \A i \in 1..Came : s[i] = fresh[i]
         /\ Tail(line) \in Seq(Bytes) /\ Len(Tail(line)) = Left - 1
         /\ \A i \in 1..Left - 1 : Tail(line)[i] = line[i + 1]
<1>1. fresh \in Seq(Bytes) /\ line \in Seq(Bytes)
  BY DEF TypeOK
<1>2. /\ Head(line) \in Bytes /\ Head(line) = line[1]
      /\ Tail(line) \in Seq(Bytes) /\ Len(Tail(line)) = Left - 1
      /\ \A i \in 1..Len(Tail(line)) : Tail(line)[i] = line[i + 1]
  BY <1>1, HeadTailProperties DEF Left
<1>3. /\ s \in Seq(Bytes) /\ Len(s) = Came + 1 /\ s[Came + 1] = Head(line)
      /\ \A i \in 1..Came : s[i] = fresh[i]
  BY <1>1, <1>2, AppendProperties DEF Came
<1>4. Left \in Nat \ {0}
  BY <1>1, EmptySeq DEF Left
<1>5. Left \in 1..Size
  BY <1>4, Lengths DEF Size
<1>6. QED
  BY <1>2, <1>3, <1>5

\* A new window is the last eleven bytes, as soon as there are eleven.
LEMMA FullWindow ==
  ASSUME TypeOK, WindowInv, line # <<>>, chrCnt + 1 >= Size,
         NEW s, s = Append(fresh, Head(line))
  PROVE  /\ chrCnt = Size - 1 /\ Came >= Size - 1 /\ Len(s) >= Size
         /\ \A i \in 1..Size : Stored[i - 1] = s[Len(s) - Size + i]
         /\ WindowOf(Stored) = Framing!LastBytes(s)
<1>1. /\ Len(s) = Came + 1 /\ s[Came + 1] = Head(line)
      /\ \A i \in 1..Came : s[i] = fresh[i]
  BY NextByte
<1>2. chrCnt = Size - 1 /\ Came \in Nat /\ Came >= Size - 1
  BY Lengths DEF WindowInv, CountInv, Size
<1>3. ASSUME NEW i \in 1..Size
      PROVE  Stored[i - 1] = s[Len(s) - Size + i]
  <2>1. CASE i = Size
    BY <2>1, <1>1, <1>2, Lengths DEF Stored, Size
  <2>2. CASE i # Size
    <3>1. Stored[i - 1] = chrBuf[i - 1]
      BY <2>2, <1>2, Lengths DEF Stored, Size
    <3>2. chrBuf[i - 1] = fresh[Came - chrCnt + i]
      <4>1. i \in 1..chrCnt
        BY <2>2, <1>2 DEF Size
      <4>2. QED
        BY <4>1 DEF WindowInv, BytesInv
    <3>3. Came - chrCnt + i = Len(s) - Size + i /\ Came - chrCnt + i \in 1..Came
      BY <2>2, <1>1, <1>2 DEF Size
    <3>4. QED
      BY <3>1, <3>2, <3>3, <1>1
  <2>3. QED
    BY <2>1, <2>2
<1>4. WindowOf(Stored) = Framing!LastBytes(s)
  BY <1>3 DEF WindowOf, Framing!LastBytes, Framing!Size, Size
<1>5. Len(s) >= Size
  BY <1>1, <1>2 DEF Size
<1>6. QED
  BY <1>2, <1>3, <1>4, <1>5

\* Short of eleven bytes the window has them all.
LEMMA ShortWindow ==
  ASSUME TypeOK, WindowInv, chrCnt + 1 < Size
  PROVE  Came = chrCnt
BY Lengths DEF WindowInv, CountInv, Size

\* With one byte of a whole message to come, the new window is the message.
LEMMA WholeWindow ==
  ASSUME TypeOK, WindowInv, WholeInv, whole, ~cut, line # <<>>, Tail(line) = <<>>
  PROVE  chrCnt + 1 >= Size /\ WindowOf(Stored) = last
<1> DEFINE s == Append(fresh, Head(line))
<1>1. /\ Len(s) = Came + 1 /\ s[Came + 1] = line[1]
      /\ \A i \in 1..Came : s[i] = fresh[i]
      /\ Left \in 1..Size /\ Len(Tail(line)) = Left - 1
  BY NextByte
<1>2. Left = 1
  <2>1. Len(Tail(line)) = 0
    BY EmptySeq
  <2>2. Left - 1 = 0 /\ Left \in 1..Size
    BY <1>1, <2>1
  <2>3. QED
    BY <2>2 DEF Size
<1>3. Known = Size - 1 /\ Came \in Nat /\ Known <= Came /\ KnownBytes
  BY <1>2, Lengths DEF WholeInv, Known
<1>4. chrCnt + 1 >= Size
  BY <1>3, Lengths DEF WindowInv, CountInv, Size
<1>5. \A i \in 1..Size : Stored[i - 1] = s[Len(s) - Size + i]
  BY <1>4, FullWindow
<1> HIDE DEF s
<1>6. ASSUME NEW i \in 1..Size
      PROVE  last[i] = s[Len(s) - Size + i]
  <2>1. CASE i = Size
    <3>1. last[i] = line[i - Known]
      BY <1>3, <2>1 DEF KnownBytes, Size
    <3>2. i - Known = 1 /\ Len(s) - Size + i = Came + 1
      BY <1>1, <1>3, <2>1 DEF Size
    <3>3. QED
      BY <1>1, <3>1, <3>2
  <2>2. CASE i # Size
    <3>1. i <= Known
      BY <1>3, <2>2 DEF Size
    <3>2. last[i] = fresh[Came - Known + i]
      BY <1>3, <3>1 DEF KnownBytes
    <3>3. Came - Known + i = Len(s) - Size + i /\ Came - Known + i \in 1..Came
      BY <1>1, <1>3, <2>2 DEF Size
    <3>4. QED
      BY <1>1, <3>2, <3>3
  <2>3. QED
    BY <2>1, <2>2
<1>7. WindowOf(Stored) = last
  <2>1. last = [i \in 1..Size |-> last[i]]
    BY Lengths, LenProperties
  <2>2. \A i \in 1..Size : Stored[i - 1] = last[i]
    BY <1>5, <1>6
  <2>3. QED
    BY <2>1, <2>2 DEF WindowOf
<1>8. QED
  BY <1>4, <1>7

-------------------------------------------------------------------------------
(* What the steps keep *)

\* The variables keep their types.
LEMMA TypeStep == TypeOK /\ [Next]_vars => TypeOK'
<1> SUFFICES ASSUME TypeOK, [Next]_vars PROVE TypeOK'
  OBVIOUS
<1>1. ASSUME line # <<>>
      PROVE  /\ Head(line) \in Bytes /\ Tail(line) \in Seq(Bytes)
             /\ Len(Tail(line)) <= Size
             /\ Append(fresh, Head(line)) \in Seq(Bytes)
             /\ Stored \in [0..Size - 1 -> Bytes]
  <2>1. /\ Head(line) \in Bytes /\ Tail(line) \in Seq(Bytes)
        /\ Len(Tail(line)) = Left - 1 /\ Left \in 1..Size
        /\ Append(fresh, Head(line)) \in Seq(Bytes)
    BY <1>1, NextByte
  <2>2. Len(Tail(line)) <= Size
    BY <2>1 DEF Size
  <2>3. Stored \in [0..Size - 1 -> Bytes]
    BY <2>1, Lengths DEF Stored
  <2>4. QED
    BY <2>1, <2>2, <2>3
<1>2. CASE Collect
  <2>1. chrCnt' \in 0..Size - 1
    BY <1>2, Lengths DEF Collect, Size
  <2>2. QED
    BY <1>1, <1>2, <2>1 DEF Collect, TypeOK, sensor
<1>3. CASE Reject
  <2>1. Moved(Stored) \in [0..Size - 1 -> Bytes]
    BY <1>1, <1>3 DEF Reject, Moved, Size
  <2>2. QED
    BY <1>1, <1>3, <2>1 DEF Reject, CountAfterReject, TypeOK, sensor
<1>4. CASE Accept
  <2>1. \A i \in 1..Size : WindowOf(Stored)[i] \in Bytes
    BY <1>1, <1>4 DEF Accept, WindowOf, Size
  <2>2. Data(WindowOf(Stored)) \in Bytes \X Bytes \X Bytes \X Bytes \X Bytes \X Bytes
    BY <2>1 DEF Data, Size
  <2>3. readings' \in Readings
    <3>1. readings' = [k \in Kinds |-> IF k = WindowOf(Stored)[2] THEN Data(WindowOf(Stored))
                                                               ELSE readings[k]]
      BY <1>4 DEF Accept, Read
    <3>2. readings \in Readings
      BY DEF TypeOK
    <3>3. QED
      BY <2>2, <3>1, <3>2 DEF Readings
  <2>4. cut' \in BOOLEAN
    BY <1>4 DEF Accept
  <2>5. chrCnt' \in 0..Size - 1
    BY <1>4 DEF Accept, Size
  <2>6. QED
    BY <1>1, <1>4, <2>3, <2>4, <2>5, EmptySeq DEF Accept, TypeOK, sensor
<1>5. CASE Send
  BY <1>5, MessagesAreMessages DEF Send, TypeOK, window
<1>6. CASE Lose
  <2>1. whole' \in BOOLEAN
    BY <1>6 DEF Lose
  <2>2. faults' \in Nat
    <3>1. faults' = faults + 1 /\ faults \in Nat
      BY <1>6 DEF Lose, TypeOK
    <3>2. QED
      BY <3>1
  <2>3. QED
    BY <1>1, <1>6, <2>1, <2>2 DEF Lose, TypeOK, window
<1>7. CASE Garble
  <2>1. PICK g \in Garbage : line' = [line EXCEPT ![1] = g]
    BY <1>7 DEF Garble
  <2>2. line \in Seq(Bytes) /\ 1 \in 1..Len(line) /\ g \in Bytes
    BY <1>7, NextByte, GarbageIsBytes DEF Garble, TypeOK, Left
  <2>3. line' \in Seq(Bytes) /\ Len(line') = Len(line)
    BY <2>1, <2>2, ExceptSeq
  <2>4. whole' \in BOOLEAN
    BY <1>7 DEF Garble
  <2>5. faults' \in Nat
    <3>1. faults' = faults + 1 /\ faults \in Nat
      BY <1>7 DEF Garble, TypeOK
    <3>2. QED
      BY <3>1
  <2>6. UNCHANGED <<window, sent, last, cut>>
    BY <1>7 DEF Garble
  <2>7. QED
    BY <2>3, <2>4, <2>5, <2>6 DEF TypeOK, window
<1>8. CASE UNCHANGED vars
  BY <1>8 DEF vars, window, sensor, TypeOK
<1>9. QED
  BY <1>2, <1>3, <1>4, <1>5, <1>6, <1>7, <1>8 DEF Next

\* The window remains the end of what came.
LEMMA WindowStep == TypeOK /\ WindowInv /\ [Next]_vars => WindowInv'
<1> SUFFICES ASSUME TypeOK, WindowInv, [Next]_vars PROVE WindowInv'
  OBVIOUS
<1>1. CASE Collect
  <2>1. line # <<>> /\ fresh' = Append(fresh, Head(line)) /\ chrBuf' = Stored
        /\ chrCnt' = chrCnt + 1 /\ chrCnt + 1 < Size
    BY <1>1 DEF Collect
  <2>2. /\ Len(fresh') = Came + 1 /\ fresh'[Came + 1] = Head(line)
        /\ \A i \in 1..Came : fresh'[i] = fresh[i]
    BY <2>1, NextByte
  <2>3. Came = chrCnt /\ chrCnt \in Nat
    BY <2>1, ShortWindow, Lengths DEF Size
  <2>4. Came' = Came + 1
    BY <2>2 DEF Came
  <2>5. CountInv'
    BY <2>1, <2>3, <2>4 DEF CountInv, Size
  <2>6. ASSUME NEW i \in 1..chrCnt'
        PROVE  chrBuf'[i - 1] = fresh'[Came' - chrCnt' + i]
    <3>1. Came' - chrCnt' + i = i
      BY <2>1, <2>3, <2>4
    <3>2. chrBuf'[i - 1] = IF i = chrCnt + 1 THEN Head(line) ELSE chrBuf[i - 1]
      BY <2>1, <2>3, Lengths DEF Stored, Size
    <3>3. i \in 1..chrCnt => chrBuf[i - 1] = fresh[i]
      BY <2>3 DEF WindowInv, BytesInv
    <3>4. QED
      BY <2>1, <2>2, <2>3, <3>1, <3>2, <3>3
  <2>7. QED
    BY <2>5, <2>6 DEF WindowInv, BytesInv
<1>2. CASE Reject
  <2>1. line # <<>> /\ fresh' = Append(fresh, Head(line)) /\ chrBuf' = Moved(Stored)
        /\ chrCnt' = chrCnt /\ chrCnt + 1 >= Size
    BY <1>2 DEF Reject, CountAfterReject
  <2>2. Len(fresh') = Came + 1 /\ Came \in Nat
    BY <2>1, NextByte, Lengths
  <2>3. /\ chrCnt = Size - 1 /\ Came >= Size - 1
        /\ \A i \in 1..Size : Stored[i - 1] = fresh'[Len(fresh') - Size + i]
    BY <2>1, FullWindow
  <2>4. Came' = Came + 1 /\ Came' = Len(fresh')
    BY <2>2 DEF Came
  <2>5. CountInv'
    BY <2>1, <2>2, <2>3, <2>4 DEF CountInv, Size
  <2>6. ASSUME NEW i \in 1..chrCnt'
        PROVE  chrBuf'[i - 1] = fresh'[Came' - chrCnt' + i]
    <3>1. chrBuf'[i - 1] = Stored[(i + 1) - 1]
      BY <2>1, <2>3 DEF Moved, Size
    <3>2. i + 1 \in 1..Size /\ Came' - Size + (i + 1) = Came' - chrCnt' + i
      BY <2>1, <2>2, <2>3, <2>4 DEF Size
    <3>3. QED
      BY <2>3, <2>4, <3>1, <3>2
  <2>7. QED
    BY <2>5, <2>6 DEF WindowInv, BytesInv
<1>3. CASE Accept
  <2>1. chrCnt' = 0 /\ Came' = 0
    BY <1>3, EmptySeq DEF Accept, Came
  <2>2. QED
    BY <2>1 DEF WindowInv, CountInv, BytesInv, Size
<1>4. CASE UNCHANGED window
  BY <1>4 DEF window, WindowInv, CountInv, BytesInv, Came
<1>5. QED
  BY <1>1, <1>2, <1>3, <1>4 DEF Next, Send, Lose, Garble, vars

\* While the bytes of a whole message come, they are the end of fresh.
LEMMA WholeStep == TypeOK /\ WholeInv /\ [Next]_vars => WholeInv'
<1> SUFFICES ASSUME TypeOK, WholeInv, [Next]_vars, whole', ~cut', line' # <<>>
             PROVE  Known' <= Came' /\ KnownBytes'
  BY DEF WholeInv
<1>1. CASE Collect \/ Reject
  <2>0. UNCHANGED <<sensor, cut>>
    BY <1>1 DEF Collect, Reject
  <2>1. /\ line # <<>> /\ fresh' = Append(fresh, Head(line)) /\ line' = Tail(line)
        /\ last' = last /\ whole /\ ~cut
    <3>1. line # <<>> /\ fresh' = Append(fresh, Head(line)) /\ line' = Tail(line)
      BY <1>1 DEF Collect, Reject
    <3>2. last' = last /\ whole' = whole /\ cut' = cut
      BY <2>0 DEF sensor
    <3>3. QED
      BY <3>1, <3>2
  <2>2. /\ Len(fresh') = Came + 1 /\ fresh'[Came + 1] = line[1] /\ Left \in 1..Size
        /\ \A i \in 1..Came : fresh'[i] = fresh[i]
        /\ Len(line') = Left - 1
        /\ \A i \in 1..Left - 1 : line'[i] = line[i + 1]
    BY <2>1, NextByte
  <2>3. Known <= Came /\ KnownBytes
    BY <2>1 DEF WholeInv
  <2>4. Came' = Came + 1 /\ Left' = Left - 1 /\ Known' = Known + 1 /\ Known = Size - Left
    BY <2>2 DEF Came, Left, Known, Size
  <2>5. Came \in Nat /\ Known \in 0..Size - 1
    BY <2>2, <2>4, Lengths DEF Size
  <2>6. ASSUME NEW i \in 1..Size
        PROVE  last'[i] = IF i <= Known' THEN fresh'[Came' - Known' + i] ELSE line'[i - Known']
    <3>1. CASE i <= Known
      <4>1. last[i] = fresh[Came - Known + i]
        BY <2>3, <3>1 DEF KnownBytes
      <4>2. Came - Known + i \in 1..Came /\ Came' - Known' + i = Came - Known + i /\ i <= Known'
        BY <2>3, <2>4, <2>5, <3>1 DEF Size
      <4>3. QED
        BY <2>1, <2>2, <4>1, <4>2
    <3>2. CASE i = Known + 1
      <4>1. last[i] = line[i - Known] /\ i - Known = 1
        <5>1. ~(i <= Known) /\ i - Known = 1
          BY <2>5, <3>2 DEF Size
        <5>2. QED
          BY <2>3, <5>1 DEF KnownBytes
      <4>2. i <= Known' /\ Came' - Known' + i = Came + 1
        BY <2>4, <2>5, <3>2 DEF Size
      <4>3. QED
        BY <2>1, <2>2, <4>1, <4>2
    <3>3. CASE i > Known + 1
      <4>1. last[i] = line[i - Known]
        <5>1. ~(i <= Known)
          BY <2>5, <3>3 DEF Size
        <5>2. QED
          BY <2>3, <5>1 DEF KnownBytes
      <4>2. ~(i <= Known') /\ i - Known' \in 1..Left - 1 /\ (i - Known') + 1 = i - Known
        BY <2>2, <2>4, <2>5, <3>3 DEF Size
      <4>3. QED
        BY <2>1, <2>2, <4>1, <4>2
    <3>4. QED
      BY <2>5, <3>1, <3>2, <3>3 DEF Size
  <2>7. QED
    BY <2>3, <2>4, <2>5, <2>6 DEF KnownBytes, Size
<1>2. CASE Accept
  BY <1>2 DEF Accept
<1>3. CASE Send
  <2>1. line' = last' /\ fresh' = fresh /\ last' \in Messages
    BY <1>3 DEF Send, window
  <2>2. Left' = Size
    BY <2>1, MessagesAreMessages DEF Left
  <2>3. Known' = 0
    BY <2>2 DEF Known, Size
  <2>4. Came' \in Nat
    BY <2>1, Lengths DEF Came
  <2>5. QED
    BY <2>1, <2>3, <2>4 DEF KnownBytes, Size
<1>4. CASE Lose \/ Garble
  BY <1>4 DEF Lose, Garble
<1>5. CASE UNCHANGED vars
  BY <1>5 DEF vars, window, sensor, WholeInv, KnownBytes, Known, Came, Left
<1>6. QED
  BY <1>1, <1>2, <1>3, <1>4, <1>5 DEF Next

\* When the last byte of a whole message has come, the message is read.
LEMMA ThroughStep == IInv /\ [Next]_vars => MessageGetsThrough'
<1> SUFFICES ASSUME IInv, [Next]_vars, line' = <<>>, whole', ~cut', last'[2] \in Kinds
             PROVE  readings'[last'[2]] = Data(last')
  BY DEF MessageGetsThrough
<1>1. CASE Collect \/ Reject
  <2>1. whole /\ ~cut /\ line # <<>> /\ Tail(line) = <<>>
        /\ (chrCnt + 1 < Size \/ ~IsMessage(WindowOf(Stored)))
    <3>1. line # <<>> /\ Tail(line) = <<>>
          /\ (chrCnt + 1 < Size \/ ~IsMessage(WindowOf(Stored)))
      BY <1>1 DEF Collect, Reject, HoldsMessage
    <3>2. UNCHANGED <<sensor, cut>>
      BY <1>1 DEF Collect, Reject
    <3>3. whole' = whole /\ cut' = cut
      BY <3>2 DEF sensor
    <3>4. QED
      BY <3>1, <3>3
  <2>2. chrCnt + 1 >= Size /\ WindowOf(Stored) = last /\ chrCnt \in 0..Size - 1
    BY <2>1, WholeWindow, Lengths DEF IInv
  <2>3. IsMessage(last)
    BY Lengths DEF IInv
  <2>4. QED
    BY <2>1, <2>2, <2>3 DEF Size
<1>2. CASE Accept
  <2>1. whole /\ ~cut /\ line # <<>> /\ Tail(line) = <<>> /\ last' = last
        /\ readings' = Read(readings, WindowOf(Stored))
    BY <1>2 DEF Accept, sensor
  <2>2. WindowOf(Stored) = last
    BY <2>1, WholeWindow DEF IInv
  <2>3. QED
    BY <2>1, <2>2 DEF Read
<1>3. CASE Send
  <2>1. line' \in Messages
    BY <1>3 DEF Send
  <2>2. Len(line') = 11
    BY <2>1, MessagesAreMessages DEF Size
  <2>3. QED
    BY <2>2, EmptySeq
<1>4. CASE Lose \/ Garble
  BY <1>4 DEF Lose, Garble
<1>5. CASE UNCHANGED vars
  BY <1>5 DEF vars, window, sensor, IInv, MessageGetsThrough
<1>6. QED
  BY <1>1, <1>2, <1>3, <1>4, <1>5 DEF Next

-------------------------------------------------------------------------------
(* The theorems *)

\* The strengthened invariant holds in every reachable state.
THEOREM Invariance == Spec => []IInv
<1>1. Init => IInv
  <2> SUFFICES ASSUME Init PROVE IInv
    OBVIOUS
  <2>1. TypeOK
    <3>1. chrBuf \in [0..Size - 1 -> Bytes] /\ chrCnt \in 0..Size - 1
      BY GarbageIsBytes DEF Init, Size
    <3>2. readings \in Readings
      BY DEF Init, Readings
    <3>3. line \in Seq(Bytes) /\ Len(line) <= Size
      <4>1. PICK n \in 2..Size + 1 : line = SubSeq(last, n, Size)
        BY DEF Init
      <4>2. last \in Seq(Bytes) /\ Len(last) = Size
        BY MessagesAreMessages DEF Init
      <4>3. ASSUME NEW i \in n..Size PROVE last[i] \in Bytes
        <5>1. i \in 1..Len(last)
          BY <4>2 DEF Size
        <5>2. QED
          BY <4>2, <5>1, ElementOfSeq
      <4>4. n \in Int /\ Size \in Int
        BY DEF Size
      <4>5. line \in Seq(Bytes) /\ Len(line) = IF n <= Size THEN Size - n + 1 ELSE 0
        BY <4>1, <4>3, <4>4, SubSeqProperties
      <4>6. QED
        BY <4>1, <4>5 DEF Size
    <3>4. fresh \in Seq(Bytes)
      BY EmptySeq DEF Init
    <3>5. whole \in BOOLEAN /\ cut \in BOOLEAN
      BY DEF Init
    <3>6. sent \in Nat /\ faults \in Nat /\ last \in Messages
      BY DEF Init
    <3>7. QED
      BY <3>1, <3>2, <3>3, <3>4, <3>5, <3>6 DEF TypeOK
  <2>2. chrCnt = 0 /\ Came = 0
    BY EmptySeq DEF Init, Came
  <2>3. WindowInv
    BY <2>2 DEF WindowInv, CountInv, BytesInv, Size
  <2>4. WholeInv /\ MessageGetsThrough
    BY DEF Init, WholeInv, MessageGetsThrough
  <2>5. QED
    BY <2>1, <2>3, <2>4 DEF IInv
<1>2. IInv /\ [Next]_vars => IInv'
  BY TypeStep, WindowStep, WholeStep, ThroughStep DEF IInv
<1>3. QED
  BY <1>1, <1>2, PTL DEF Spec

\* Whatever the sensor sends and the line does to it: the window stays in its
\* bounds, and a message that arrives whole is read (wt901c_ttl.cpp:224-269).
THEOREM Safety == Spec => [](TypeOK /\ MessageGetsThrough)
<1>1. IInv => TypeOK /\ MessageGetsThrough
  BY DEF IInv
<1>2. QED
  BY <1>1, Invariance, PTL

\* The count is back in its bounds after every byte: the buffer is never left.
THEOREM WindowInBounds == Spec => []TypeOK
BY Safety, PTL

\* A window of eleven bytes is as good as a memory of all of them: parseData
\* takes a message exactly when the bytes since the last one end in one.
THEOREM Implementation == Spec => FramingSpec
<1>1. Init => Framing!Init
  BY DEF Init, Framing!Init, Framing!Kinds, Kinds
<1>2. TypeOK /\ WindowInv /\ [Next]_vars => [Framing!Next]_<<fresh, readings>>
  <2> SUFFICES ASSUME TypeOK, WindowInv, [Next]_vars
               PROVE  [Framing!Next]_<<fresh, readings>>
    OBVIOUS
  <2> DEFINE s == Append(fresh, Head(line))
  <2>1. ASSUME line # <<>> PROVE Head(line) \in Framing!Bytes
    BY <2>1, NextByte DEF Bytes, Framing!Bytes
  <2>2. \A w : IsMessage(w) <=> Framing!IsMessage(w)
    BY DEF IsMessage, Framing!IsMessage, HasType, Framing!HasType, Checksum, Framing!Checksum
  <2>3. CASE Collect
    <3>1. line # <<>> /\ fresh' = s /\ readings' = readings /\ chrCnt + 1 < Size
      BY <2>3 DEF Collect
    <3>2. Len(s) = Came + 1 /\ Came = chrCnt /\ chrCnt \in 0..Size - 1
      BY <3>1, NextByte, ShortWindow, Lengths
    <3>3. ~(Len(s) >= Framing!Size)
      BY <3>1, <3>2 DEF Framing!Size, Size
    <3>4. Framing!Noise(Head(line))
      BY <3>1, <3>3 DEF Framing!Noise, Framing!EndsMessage
    <3>5. QED
      BY <2>1, <3>1, <3>4 DEF Framing!Next
  <2>4. CASE Reject
    <3>1. line # <<>> /\ fresh' = s /\ readings' = readings /\ chrCnt + 1 >= Size
          /\ ~IsMessage(WindowOf(Stored))
      BY <2>4 DEF Reject, HoldsMessage
    <3>2. WindowOf(Stored) = Framing!LastBytes(s)
      BY <3>1, FullWindow
    <3>3. Framing!Noise(Head(line))
      BY <2>2, <3>1, <3>2 DEF Framing!Noise, Framing!EndsMessage
    <3>4. QED
      BY <2>1, <3>1, <3>3 DEF Framing!Next
  <2>5. CASE Accept
    <3>1. line # <<>> /\ fresh' = <<>> /\ chrCnt + 1 >= Size
          /\ IsMessage(WindowOf(Stored)) /\ readings' = Read(readings, WindowOf(Stored))
      BY <2>5 DEF Accept, HoldsMessage
    <3>2. WindowOf(Stored) = Framing!LastBytes(s) /\ Len(s) >= Framing!Size
      BY <3>1, FullWindow DEF Framing!Size, Size
    <3>3. readings' = Framing!Read(readings, Framing!LastBytes(s))
      BY <3>1, <3>2 DEF Read, Framing!Read, Data, Framing!Data, Kinds, Framing!Kinds
    <3>4. Framing!Message(Head(line))
      BY <2>2, <3>1, <3>2, <3>3 DEF Framing!Message, Framing!EndsMessage
    <3>5. QED
      BY <2>1, <3>1, <3>4 DEF Framing!Next
  <2>6. CASE UNCHANGED window
    BY <2>6 DEF window
  <2>7. QED
    BY <2>3, <2>4, <2>5, <2>6 DEF Next, Send, Lose, Garble, vars
<1>3. Spec => [](TypeOK /\ WindowInv)
  <2>1. IInv => TypeOK /\ WindowInv
    BY DEF IInv
  <2>2. QED
    BY <2>1, Invariance, PTL
<1>4. QED
  BY <1>1, <1>2, <1>3, PTL DEF Spec, FramingSpec, Framing!Spec
===============================================================================
