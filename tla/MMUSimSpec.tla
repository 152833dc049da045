----------------------------- MODULE MMUSimSpec -----------------------------
(***************************************************************************)
(* The simulator on any sequence of addresses, on a machine whose PMM has  *)
(* been initialised.                                                       *)
(***************************************************************************)
EXTENDS MMUSim

CONSTANTS
  Bitmaps,    \* the bitmaps the simulator may find
  Addresses,  \* the addresses it may be given
  MaxTotal    \* bound: the number of addresses translated

ASSUME MMUSpecConstants ==
  /\ Bitmaps \subseteq SUBSET (0 .. MAX_PAGES - 1)
  /\ Addresses \subseteq Nat

VARIABLE started    \* mmu_init has run

vars == <<pmmVars, tlbVars, simVars, started>>

Init ==
  /\ MMUZeroed
  /\ bitmap \in Bitmaps
  /\ max_available_pages = MAX_PAGES
  /\ started = FALSE

Start ==
  /\ ~started
  /\ mmu_init
  /\ started' = TRUE
  /\ UNCHANGED pmmVars

Translate ==
  /\ started /\ total < MaxTotal
  /\ \E endereco \in Addresses : traduzir_endereco(endereco)
  /\ UNCHANGED started

Next == Start \/ Translate

Spec == Init /\ [][Next]_vars

TypeOK ==
  /\ SimTypeOK
  /\ bitmap \subseteq 0 .. MAX_PAGES - 1
  /\ max_available_pages = MAX_PAGES
  /\ started \in BOOLEAN
=============================================================================
