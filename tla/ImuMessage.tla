------------------------------ MODULE ImuMessage ------------------------------
(***************************************************************************)
(* The messages of the WT901C inertial sensor, as IMU::parseData reads     *)
(* them (wt901c_ttl.cpp:224-269): eleven bytes, a header, a type, eight    *)
(* bytes of data and a checksum.  The arithmetic is that of a signed char  *)
(* on both sides of the comparison, which is equality modulo 256.          *)
(***************************************************************************)
EXTENDS Integers, Sequences

Size == 11
Bytes == 0..255

\* chrBuf[1] & 0x50.
HasType(b) == (b \div 16) % 2 = 1 /\ (b \div 64) % 2 = 1

Checksum(w) ==
  (w[1] + w[2] + w[3] + w[4] + w[5] + w[6] + w[7] + w[8] + w[9] + w[10]) % 256

\* The header is 0x55.
IsMessage(w) == w[1] = 85 /\ HasType(w[2]) /\ w[11] = Checksum(w)

\* Acceleration a, angular rate w, Angle and magnetic field h: 0x51 to 0x54.
\* The six bytes stand for the three numbers made of them.
Kinds == 81..84
Data(w) == <<w[3], w[4], w[5], w[6], w[7], w[8]>>

\* The readings after message w; other types are messages without effect.
Read(readings, w) ==
  [k \in Kinds |-> IF k = w[2] THEN Data(w) ELSE readings[k]]
===============================================================================
