---------------------------- MODULE MCInterrupts ----------------------------
(* Values for TLC: nibbles of one bit, so that an address has eight; the stubs *)
(* at the ends of halves of the address space, in either order.                *)
EXTENDS Interrupts, TLC

MCLinks ==
  {(0 :> 15) @@ (1 :> 16) @@ (7 :> 32) @@ (32 :> 233) @@ (33 :> 240),
   (0 :> 255) @@ (1 :> 240) @@ (7 :> 17) @@ (32 :> 16) @@ (33 :> 1)}
============================================================================
