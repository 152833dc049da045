------------------------------- MODULE MCVMM -------------------------------
(***************************************************************************)
(* Directories of three entries: one of the user part, boot_page_table's   *)
(* and the heap's; tables of two or three.  Frames 0 and 1 are the "first  *)
(* megabyte", 2 the kernel's, 3 and 4 belong to callers.                   *)
(***************************************************************************)
EXTENDS VMMSpec

MCReserved == 0 .. 4
MCDataFrames == {3, 4}
MCFlags == {{"W"}, {"W", "U"}}
MCOneFlag == {{"W", "U"}}
MCNoPages == {}
============================================================================
