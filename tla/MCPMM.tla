------------------------------- MODULE MCPMM -------------------------------
(***************************************************************************)
(* A machine with frames of 4 bytes, a "first megabyte" of 2 frames and a  *)
(* bitmap of 10: memories smaller than, equal to and larger than the       *)
(* bitmap, of a whole and of a broken number of frames; kernels and modules *)
(* that end inside a frame and at its last byte; overlapping reservations. *)
(* kmain needs 5 frames; the machines have none to 6 for it.               *)
(***************************************************************************)
EXTENDS Startup

MCModules ==
  {{}, {[mod_start |-> 20, mod_end |-> 23]},
       {[mod_start |-> 21, mod_end |-> 21], [mod_start |-> 28, mod_end |-> 30]}}

MCBootInfos ==
  [has_mem : BOOLEAN, mem_upper : {7, 11, 16, 20}, has_mods : BOOLEAN,
   modules : MCModules, kp_start : {8}, kp_end : {11, 12, 13}]
============================================================================
