----------------------------- MODULE MCImuParser ------------------------------
(***************************************************************************)
(* ImuParser with two messages: an angle whose data looks like the start   *)
(* of a message, and a message of a type without effect whose data looks   *)
(* like one, too; the checksum of the first is above 127.                  *)
(***************************************************************************)
EXTENDS ImuParser

Encoded(kind, data) ==
  LET w == <<85, kind>> \o data
  IN  w \o <<Checksum(w)>>

MCMessages == {Encoded(83, <<0, 85, 81, 2, 0, 0, 85, 0>>),
               Encoded(90, <<85, 83, 7, 7, 0, 85, 85, 80>>)}
MCGarbage == {0, 85}
===============================================================================
