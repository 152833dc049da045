--------------------------- MODULE DemandPaging ---------------------------
(***************************************************************************)
(* What a program sees of demand paging: a page gets a frame the first     *)
(* time it is touched, the frames in the order 0, 1, 2, ..., and keeps it;  *)
(* every translation of an address of the page uses that frame.  There is  *)
(* no TLB here.                                                            *)
(***************************************************************************)
EXTENDS Naturals, FiniteSets

CONSTANTS Pages, PageSize

VARIABLES
  frame,    \* the pages touched so far -> their frames
  faults,   \* touches that found no frame
  output    \* the last physical address computed

pagingVars == <<frame, faults, output>>

Init == frame = [p \in {} |-> 0] /\ faults = 0 /\ output = 0

Touched == DOMAIN frame

Translate(p, offset) ==
  /\ frame' = [q \in Touched \cup {p} |->
                 IF q \in Touched THEN frame[q] ELSE Cardinality(Touched)]
  /\ faults' = IF p \in Touched THEN faults ELSE faults + 1
  /\ output' = frame'[p] * PageSize + offset

Next == \E p \in Pages, offset \in 0 .. PageSize - 1 : Translate(p, offset)

Spec == Init /\ [][Next]_pagingVars
============================================================================
