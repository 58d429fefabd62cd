--------------------------- MODULE MCSamplePrograms ---------------------------
(***************************************************************************)
(* SamplePrograms with every image type that the demo knows and one that   *)
(* it does not.                                                            *)
(***************************************************************************)
EXTENDS SamplePrograms

MCImageTypes == {0, 1, 2, 3}
===============================================================================
