------------------------------ MODULE ImuFraming ------------------------------
(***************************************************************************)
(* What a reader of the inertial sensor promises: whenever the last eleven *)
(* of the bytes that belong to no message yet are a message, it is taken   *)
(* at once, wherever it begins; nothing else changes the readings.         *)
(***************************************************************************)
EXTENDS ImuMessage

VARIABLES
  fresh,     \* the bytes that came since the last message
  readings

LastBytes(s) == [i \in 1..Size |-> s[Len(s) - Size + i]]
EndsMessage(s) == Len(s) >= Size /\ IsMessage(LastBytes(s))

Init == fresh = <<>> /\ readings = [k \in Kinds |-> <<>>]

Message(b) ==
  /\ fresh' = <<>>
  /\ EndsMessage(Append(fresh, b))
  /\ readings' = Read(readings, LastBytes(Append(fresh, b)))

Noise(b) ==
  /\ fresh' = Append(fresh, b)
  /\ ~EndsMessage(fresh')
  /\ UNCHANGED readings

Next == \E b \in Bytes : Message(b) \/ Noise(b)

Spec == Init /\ [][Next]_<<fresh, readings>>
===============================================================================
