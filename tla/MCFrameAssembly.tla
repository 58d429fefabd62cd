---------------------------- MODULE MCFrameAssembly ----------------------------
(***************************************************************************)
(* FrameAssembly with small frames; the numbers of datagrams are those     *)
(* that separate the cases: 2 has no middle datagram, 3 has one, 4 has two *)
(* that may be lost or swapped independently.                              *)
(***************************************************************************)
EXTENDS FrameAssembly
===============================================================================
