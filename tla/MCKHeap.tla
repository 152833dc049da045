------------------------------ MODULE MCKHeap ------------------------------
(***************************************************************************)
(* A heap of the real header and margin, small enough to fill up and to    *)
(* fragment, with the request sizes of kmain.c (15 and 20) among others.   *)
(* A process and its directory take 4 and 20 bytes of it, with headers 48. *)
(***************************************************************************)
EXTENDS Processes

MCSizes == {0, 4, 15, 20}
============================================================================
