------------------------------ MODULE MCLoader ------------------------------
(***************************************************************************)
(* Directories of three entries, tables of six.  Frame 0 is the "first     *)
(* megabyte"; 1 to 4 are the kernel's code, table, directory and stack; 5  *)
(* belongs to callers, and page 5 of the kernel's table is the window.     *)
(***************************************************************************)
EXTENDS Loader

MCReserved == 0 .. 5
MCDataFrames == {5}
MCFlags == {{"W", "U"}}
MCTLBPages == {<<0, 0>>, <<0, 1>>, Temp}
============================================================================
