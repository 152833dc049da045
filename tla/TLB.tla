-------------------------------- MODULE TLB --------------------------------
(***************************************************************************)
(* The TLB of the memory-management simulator, tlb.c: an array of entries  *)
(* filled in circular order.                                               *)
(***************************************************************************)
EXTENDS Integers, FiniteSetsExt, SequencesExt

CONSTANT TLB_SIZE       \* entries                                    (16)

ASSUME TLBConstants == TLB_SIZE \in Nat \ {0}

VARIABLES
  tlb,              \* 0 .. TLB_SIZE-1 -> [numero_pagina, numero_frame, valido]
  proxima_posicao   \* the entry tlb_insert writes next

tlbVars == <<tlb, proxima_posicao>>

Entries == 0 .. TLB_SIZE - 1

Entry(pagina, frame, valido) ==
  [numero_pagina |-> pagina, numero_frame |-> frame, valido |-> valido]

\* tlb_init leaves proxima_posicao alone.
tlb_init ==
  /\ tlb' = [i \in Entries |-> Entry(0, 0, 0)]
  /\ UNCHANGED proxima_posicao

\* Mutant: entries that tlb_init cleared match page 0.
MatchesInvalid(pagina) == {i \in Entries : tlb[i].numero_pagina = pagina}

Matches(pagina) ==
  {i \in Entries : tlb[i].valido = 1 /\ tlb[i].numero_pagina = pagina}

\* The frame of the first entry that matches, or -1.
tlb_lookup(pagina) ==
  IF Matches(pagina) = {} THEN -1 ELSE tlb[Min(Matches(pagina))].numero_frame

\* Mutant: the last entry is never used.
NextPositionShort == IF proxima_posicao + 1 >= TLB_SIZE - 1 THEN 0 ELSE proxima_posicao + 1

NextPosition ==
  IF proxima_posicao + 1 >= TLB_SIZE THEN 0 ELSE proxima_posicao + 1

tlb_insert(pagina, frame) ==
  /\ tlb' = [tlb EXCEPT ![proxima_posicao] = Entry(pagina, frame, 1)]
  /\ proxima_posicao' = NextPosition

ValidEntries == {i \in Entries : tlb[i].valido = 1}

\* The entry that was written k-th of the n last ones: they end before the
\* position that is written next, and wrap around the end of the array.
Written(k, n) == (proxima_posicao + TLB_SIZE - n + k - 1) % TLB_SIZE

\* The pages of the valid entries, oldest first.
TLBQueue ==
  LET n == Cardinality(ValidEntries)
  IN  [k \in 1 .. n |-> tlb[Written(k, n)].numero_pagina]
============================================================================
