---------------------------- MODULE MMUSimProofs ----------------------------
(***************************************************************************)
(* Proofs about MMUSimSpec: its invariants, and that it translates as      *)
(* demand paging without a TLB does, for every size of the TLB, the page   *)
(* table and the pages, every machine and every sequence of addresses.     *)
(***************************************************************************)
EXTENDS MMUSimSpec, LeastElement, SequenceTheorems

\* Frame numbers are given in order, one for each page that has faulted, so
\* that the wrap of proximo_frame comes after the last of them.
FramesInOrder ==
  /\ page_faults = Cardinality(Valid)
  /\ proximo_frame = page_faults % UCHAR
  /\ \A p \in Valid : tabela_paginas[p].frame < page_faults

\* A page was copied to a frame the PMM counts as used, if it had one to give.
CopiesTaken ==
  \A p \in Valid :
    /\ real[p] # Nothing
    /\ real[p] # 0 => real[p] \in bitmap /\ ram[real[p]] = p

IInv ==
  /\ TypeOK
  /\ TLBCoherent
  /\ FramesDistinct
  /\ FramesInOrder
  /\ page_faults + tlb_hits <= total
  /\ CopiesTaken
  /\ ~started => Valid = {}

----------------------------------------------------------------------------
(* The parts of a translation *)

\* An address has a page and an offset in it, whatever bits it has above.
LEMMA Address ==
  ASSUME NEW a \in Addresses
  PROVE  Pagina(a) \in Pages /\ Offset(a) \in 0 .. SIM_PAGE_SIZE - 1
<1>1. /\ a \in Nat /\ SIM_PAGE_SIZE \in Nat \ {0} /\ PAGE_TABLE_SIZE \in Nat \ {0}
  BY MMUConstants, MMUSpecConstants
<1>2. a \div SIM_PAGE_SIZE \in Int
  BY <1>1
<1> QED
  BY <1>1, <1>2 DEF Pagina, Offset, Pages

\* pmm_alloc_page gives 0 or a frame that was free, and takes it.
LEMMA Search ==
  ASSUME TypeOK
  PROVE  LET f == FirstFree(bitmap, max_available_pages)
             b == Taken(bitmap, max_available_pages)
         IN  /\ f \in 0 .. MAX_PAGES - 1
             /\ f # 0 => f \notin bitmap /\ f \in b
             /\ bitmap \subseteq b /\ b \subseteq 0 .. MAX_PAGES - 1
<1> DEFINE free == FreeFrames(bitmap, max_available_pages)
<1>1. /\ max_available_pages = MAX_PAGES /\ MAX_PAGES \in Nat \ {0}
      /\ bitmap \subseteq 0 .. MAX_PAGES - 1
  BY PMMConstants DEF TypeOK
<1>2. FirstMBFrames \in Nat
  BY PMMConstants DEF FirstMBFrames
<1>3. free \in SUBSET Nat /\ free \subseteq 0 .. MAX_PAGES - 1
      /\ \A f \in free : f \notin bitmap
  BY <1>1, <1>2 DEF FreeFrames
<1>4. free # {} => Min(free) \in free
  BY <1>3, MinIsLeast
<1> HIDE DEF free
<1>5. CASE free = {}
  BY <1>1, <1>5 DEF FirstFree, Taken, free
<1>6. CASE free # {}
  <2>1. /\ FirstFree(bitmap, max_available_pages) \in free
        /\ Taken(bitmap, max_available_pages) =
             bitmap \cup {FirstFree(bitmap, max_available_pages)}
    BY <1>4, <1>6 DEF FirstFree, Taken, free
  <2> QED
    BY <1>1, <1>3, <2>1
<1> QED
  BY <1>5, <1>6

\* tlb_lookup finds the frame of an entry of the page, or there is none.
LEMMA Lookup ==
  ASSUME TypeOK, NEW p \in Pages
  PROVE  /\ tlb_lookup(p) = -1 =>
              \A i \in Entries : ~(tlb[i].valido = 1 /\ tlb[i].numero_pagina = p)
         /\ tlb_lookup(p) # -1 =>
              \E i \in Entries : /\ tlb[i].valido = 1 /\ tlb[i].numero_pagina = p
                                 /\ tlb[i].numero_frame = tlb_lookup(p)
<1>1. TLB_SIZE \in Nat \ {0} /\ UCHAR \in Nat
  BY TLBConstants, MMUConstants
<1>2. Matches(p) \in SUBSET Nat
  BY <1>1 DEF Matches, Entries
<1>3. Matches(p) # {} => Min(Matches(p)) \in Matches(p)
  BY <1>2, MinIsLeast
<1>4. \A i \in Entries : tlb[i].numero_frame \in 0 .. UCHAR - 1
  BY DEF TypeOK, SimTypeOK
<1>5. CASE Matches(p) = {}
  <2>1. tlb_lookup(p) = -1
    BY <1>5 DEF tlb_lookup
  <2> QED
    BY <1>5, <2>1 DEF Matches
<1>6. CASE Matches(p) # {}
  <2>1. PICK i \in Matches(p) : tlb_lookup(p) = tlb[i].numero_frame
    BY <1>3, <1>6 DEF tlb_lookup
  <2>2. i \in Entries /\ tlb[i].valido = 1 /\ tlb[i].numero_pagina = p
    BY <2>1 DEF Matches
  <2>3. tlb_lookup(p) # -1
    BY <1>1, <1>4, <2>1, <2>2
  <2> QED
    BY <2>1, <2>2, <2>3
<1> QED
  BY <1>5, <1>6

\* A hit is for a page in the table, and has the table's frame.
LEMMA HitIsValid ==
  ASSUME TypeOK, TLBCoherent, NEW p \in Pages, tlb_lookup(p) # -1
  PROVE  p \in Valid /\ tlb_lookup(p) = tabela_paginas[p].frame
<1>1. PICK i \in Entries : /\ tlb[i].valido = 1 /\ tlb[i].numero_pagina = p
                           /\ tlb[i].numero_frame = tlb_lookup(p)
  BY Lookup
<1> QED
  BY <1>1 DEF TLBCoherent, Valid

\* The set of the pages that have faulted is finite; one more page counts one.
LEMMA Counting ==
  /\ IsFiniteSet(Valid) /\ Cardinality(Valid) \in Nat
  /\ \A p \in Pages \ Valid :
       /\ Cardinality(Valid \cup {p}) = Cardinality(Valid) + 1
       /\ Cardinality(Valid) < PAGE_TABLE_SIZE
<1>1. PAGE_TABLE_SIZE \in Nat \ {0}
  BY MMUConstants
<1>2. IsFiniteSet(Pages) /\ Cardinality(Pages) = PAGE_TABLE_SIZE
  <2>1. IsFiniteSet(0 .. PAGE_TABLE_SIZE - 1)
          /\ Cardinality(0 .. PAGE_TABLE_SIZE - 1) =
               IF 0 > PAGE_TABLE_SIZE - 1 THEN 0 ELSE PAGE_TABLE_SIZE - 1 - 0 + 1
    BY <1>1, FS_Interval
  <2> QED
    BY <1>1, <2>1 DEF Pages
<1>3. Valid \in SUBSET Pages
  BY DEF Valid
<1>4. IsFiniteSet(Valid) /\ Cardinality(Valid) \in Nat
  BY <1>2, <1>3, FS_Subset, FS_CardinalityType
<1>5. ASSUME NEW p \in Pages \ Valid
      PROVE  /\ Cardinality(Valid \cup {p}) = Cardinality(Valid) + 1
             /\ Cardinality(Valid) < PAGE_TABLE_SIZE
  <2>1. Cardinality(Valid \cup {p}) = Cardinality(Valid) + 1
    BY <1>4, FS_AddElement
  <2>2. Valid \cup {p} \in SUBSET Pages
    BY <1>3
  <2>3. Cardinality(Valid \cup {p}) <= PAGE_TABLE_SIZE
    BY <1>2, <2>2, FS_Subset
  <2> QED
    BY <1>1, <1>4, <2>1, <2>3
<1> QED
  BY <1>4, <1>5

\* tlb_insert of a page's frame after a failed lookup keeps the TLB coherent
\* with a table that has that frame, and has all it had before.
LEMMA InsertCoherent ==
  ASSUME TypeOK, TLBCoherent, NEW p \in Pages, tlb_lookup(p) = -1,
         tlb_insert(p, tabela_paginas'[p].frame),
         tabela_paginas' \in [Pages -> [frame : 0 .. UCHAR - 1, valido : {0, 1}]],
         tabela_paginas'[p].valido = 1,
         \A q \in Valid : tabela_paginas'[q] = tabela_paginas[q]
  PROVE  /\ TLBCoherent'
         /\ tlb' \in [Entries -> [numero_pagina : Pages, numero_frame : 0 .. UCHAR - 1,
                                  valido : {0, 1}]]
         /\ proxima_posicao' \in Entries
<1> DEFINE e == Entry(p, tabela_paginas'[p].frame, 1)
<1>1. /\ proxima_posicao \in Entries /\ TLB_SIZE \in Nat \ {0}
      /\ tlb \in [Entries -> [numero_pagina : Pages, numero_frame : 0 .. UCHAR - 1,
                              valido : {0, 1}]]
  BY TLBConstants DEF TypeOK, SimTypeOK
<1>2. /\ tlb' = [tlb EXCEPT ![proxima_posicao] = e]
      /\ proxima_posicao' = NextPosition
  BY DEF tlb_insert
<1>3. proxima_posicao' \in Entries
  BY <1>1, <1>2 DEF NextPosition, Entries
<1>4. /\ e \in [numero_pagina : Pages, numero_frame : 0 .. UCHAR - 1, valido : {0, 1}]
      /\ e.numero_pagina = p /\ e.numero_frame = tabela_paginas'[p].frame
      /\ e.valido = 1
  BY DEF Entry
<1> HIDE DEF e
<1>5. \A i \in Entries : tlb'[i] = IF i = proxima_posicao THEN e ELSE tlb[i]
  BY <1>1, <1>2
<1>6. \A i \in Entries : ~(tlb[i].valido = 1 /\ tlb[i].numero_pagina = p)
  BY Lookup
<1>7. ASSUME NEW i \in Entries, tlb'[i].valido = 1
      PROVE  /\ tabela_paginas'[tlb'[i].numero_pagina].valido = 1
             /\ tabela_paginas'[tlb'[i].numero_pagina].frame = tlb'[i].numero_frame
  <2>1. CASE i = proxima_posicao
    BY <1>4, <1>5, <2>1
  <2>2. CASE i # proxima_posicao
    <3>1. tlb'[i] = tlb[i] /\ tlb[i].numero_pagina \in Pages
      BY <1>1, <1>5, <2>2
    <3>2. /\ tlb[i].numero_pagina \in Valid
          /\ tabela_paginas[tlb[i].numero_pagina].frame = tlb[i].numero_frame
      BY <1>7, <3>1 DEF TLBCoherent, Valid
    <3> QED
      BY <3>1, <3>2 DEF Valid
  <2> QED
    BY <2>1, <2>2
<1>8. ASSUME NEW q \in Pages, NEW i \in Entries, NEW j \in Entries,
             tlb'[i].valido = 1, tlb'[i].numero_pagina = q,
             tlb'[j].valido = 1, tlb'[j].numero_pagina = q
      PROVE  i = j
  BY <1>4, <1>5, <1>6, <1>8 DEF TLBCoherent
<1> QED
  BY <1>1, <1>2, <1>3, <1>4, <1>7, <1>8 DEF TLBCoherent

----------------------------------------------------------------------------
(* The steps *)

\* The zeroed storage satisfies the invariant.
LEMMA InitIInv == Init => IInv
<1> SUFFICES ASSUME Init PROVE IInv
  OBVIOUS
<1>1. /\ PAGE_TABLE_SIZE \in Nat \ {0} /\ UCHAR \in Nat \ {0}
      /\ TLB_SIZE \in Nat \ {0} /\ MAX_PAGES \in Nat \ {0}
  BY MMUConstants, TLBConstants, PMMConstants
<1>2. /\ \A i \in Entries : tlb[i].valido = 0
      /\ \A p \in Pages : tabela_paginas[p].valido = 0
      /\ page_faults = 0 /\ tlb_hits = 0 /\ total = 0 /\ proximo_frame = 0
  BY DEF Init, MMUZeroed, Entry
<1>3. Valid = {}
  BY <1>2 DEF Valid
<1>4. TypeOK
  <2>1. tlb \in [Entries -> [numero_pagina : Pages, numero_frame : 0 .. UCHAR - 1,
                             valido : {0, 1}]]
    BY <1>1 DEF Init, MMUZeroed, Entry, Pages
  <2>2. tabela_paginas \in [Pages -> [frame : 0 .. UCHAR - 1, valido : {0, 1}]]
    BY <1>1 DEF Init, MMUZeroed
  <2>3. /\ ram \in [0 .. MAX_PAGES - 1 -> Pages \cup {Nothing}]
        /\ real \in [Pages -> 0 .. MAX_PAGES - 1 \cup {Nothing}]
    BY DEF Init, MMUZeroed
  <2>4. /\ proxima_posicao \in Entries /\ saida \in Nat
        /\ bitmap \subseteq 0 .. MAX_PAGES - 1 /\ max_available_pages = MAX_PAGES
    BY <1>1, MMUSpecConstants DEF Init, MMUZeroed, Entries
  <2>5. started \in BOOLEAN
    BY DEF Init
  <2> QED
    BY <1>1, <1>2, <2>1, <2>2, <2>3, <2>4, <2>5 DEF TypeOK, SimTypeOK
<1>5. TLBCoherent /\ FramesDistinct /\ CopiesTaken
  BY <1>2, <1>3 DEF TLBCoherent, FramesDistinct, CopiesTaken
<1>6. FramesInOrder
  BY <1>1, <1>2, <1>3, FS_EmptySet DEF FramesInOrder
<1> QED
  BY <1>2, <1>3, <1>4, <1>5, <1>6 DEF IInv

\* mmu_init clears what is clear.
LEMMA StartIInv == ASSUME IInv, Start PROVE IInv' /\ Valid = {} /\ Valid' = {}
<1>1. /\ UNCHANGED <<page_faults, tlb_hits, total, proximo_frame, saida, ram, real,
                     proxima_posicao, bitmap, max_available_pages>>
      /\ tlb' = [i \in Entries |-> Entry(0, 0, 0)]
      /\ tabela_paginas' = [p \in Pages |-> [frame |-> 0, valido |-> 0]]
      /\ Valid = {} /\ started' = TRUE
  BY DEF Start, mmu_init, tlb_init, IInv, pmmVars
<1>2. /\ PAGE_TABLE_SIZE \in Nat \ {0} /\ UCHAR \in Nat \ {0}
  BY MMUConstants
<1>3. /\ \A i \in Entries : tlb'[i].valido = 0
      /\ \A p \in Pages : tabela_paginas'[p].valido = 0
  BY <1>1 DEF Entry
<1>4. Valid' = {}
  BY <1>3 DEF Valid
<1>5. TypeOK'
  <2>1. tlb' \in [Entries -> [numero_pagina : Pages, numero_frame : 0 .. UCHAR - 1,
                              valido : {0, 1}]]
    BY <1>1, <1>2 DEF Entry, Pages
  <2>2. tabela_paginas' \in [Pages -> [frame : 0 .. UCHAR - 1, valido : {0, 1}]]
    BY <1>1, <1>2
  <2> QED
    BY <1>1, <2>1, <2>2 DEF IInv, TypeOK, SimTypeOK
<1>6. TLBCoherent' /\ FramesDistinct' /\ CopiesTaken'
  BY <1>3, <1>4 DEF TLBCoherent, FramesDistinct, CopiesTaken
<1>7. FramesInOrder'
  BY <1>1, <1>4 DEF IInv, FramesInOrder
<1> QED
  BY <1>1, <1>4, <1>5, <1>6, <1>7 DEF IInv

\* A translation without a page fault, with or without a hit.
LEMMA NoFaultIInv ==
  ASSUME IInv, started, UNCHANGED started, NEW a \in Addresses, NoFault,
         \/ traduzir_hit(a)
         \/ traduzir_miss(a) /\ Pagina(a) \in Valid
  PROVE  /\ IInv'
         /\ Pagina(a) \in Valid /\ Valid' = Valid
         /\ saida' = tabela_paginas[Pagina(a)].frame * SIM_PAGE_SIZE + Offset(a)
<1> DEFINE p == Pagina(a)
<1>1. p \in Pages /\ Offset(a) \in 0 .. SIM_PAGE_SIZE - 1 /\ SIM_PAGE_SIZE \in Nat
  BY Address, MMUConstants
<1>2. UNCHANGED <<page_faults, bitmap, max_available_pages, ram, real,
                  tabela_paginas, proximo_frame>>
  BY DEF NoFault
<1>3. TypeOK /\ TLBCoherent
  BY DEF IInv
<1>4. /\ total' = total + 1 /\ tlb_hits' \in {tlb_hits, tlb_hits + 1}
      /\ p \in Valid
      /\ saida' = tabela_paginas[p].frame * SIM_PAGE_SIZE + Offset(a)
  <2>1. CASE traduzir_hit(a)
    BY <1>1, <1>3, <2>1, HitIsValid DEF traduzir_hit
  <2>2. CASE traduzir_miss(a) /\ p \in Valid
    BY <1>2, <2>2 DEF traduzir_miss
  <2> QED
    BY <2>1, <2>2
<1>5. /\ TLBCoherent'
      /\ tlb' \in [Entries -> [numero_pagina : Pages, numero_frame : 0 .. UCHAR - 1,
                               valido : {0, 1}]]
      /\ proxima_posicao' \in Entries
  <2>1. CASE traduzir_hit(a)
    <3>1. UNCHANGED <<tlb, proxima_posicao>>
      BY <2>1 DEF traduzir_hit, tlbVars
    <3> QED
      BY <1>2, <1>3, <3>1 DEF TLBCoherent, TypeOK, SimTypeOK
  <2>2. CASE traduzir_miss(a) /\ p \in Valid
    <3>1. tlb_lookup(p) = -1 /\ tlb_insert(p, tabela_paginas'[p].frame)
      BY <2>2 DEF traduzir_miss
    <3>2. /\ tabela_paginas' \in [Pages -> [frame : 0 .. UCHAR - 1, valido : {0, 1}]]
          /\ tabela_paginas'[p].valido = 1
          /\ \A q \in Valid : tabela_paginas'[q] = tabela_paginas[q]
      BY <1>2, <1>3, <1>4 DEF TypeOK, SimTypeOK, Valid
    <3> QED
      BY <1>1, <1>3, <3>1, <3>2, InsertCoherent
  <2> QED
    BY <2>1, <2>2
<1>6. Valid' = Valid
  BY <1>2 DEF Valid
<1>7. TypeOK' /\ page_faults' + tlb_hits' <= total'
  <2>1. /\ {page_faults, tlb_hits, total} \subseteq Nat
        /\ page_faults + tlb_hits <= total
        /\ tabela_paginas[p].frame \in Nat
    BY <1>1, <1>3, MMUConstants DEF IInv, TypeOK, SimTypeOK
  <2>2. {page_faults', tlb_hits', total', saida'} \subseteq Nat
    BY <1>1, <1>2, <1>4, <2>1
  <2>3. page_faults' + tlb_hits' <= total'
    BY <1>2, <1>4, <2>1
  <2>4. SimTypeOK'
    BY <1>2, <1>3, <1>5, <2>2 DEF TypeOK, SimTypeOK
  <2> QED
    BY <1>2, <1>3, <2>3, <2>4 DEF TypeOK
<1>8. FramesDistinct' /\ FramesInOrder' /\ CopiesTaken'
  BY <1>2, <1>6 DEF IInv, FramesDistinct, FramesInOrder, CopiesTaken
<1> QED
  BY <1>4, <1>5, <1>6, <1>7, <1>8 DEF IInv

\* A page fault: the page gets the next frame number, which nobody has.
LEMMA FaultIInv ==
  ASSUME IInv, started, UNCHANGED started, NEW a \in Addresses,
         Pagina(a) \notin Valid, PageFault(Pagina(a)), traduzir_miss(a)
  PROVE  /\ IInv'
         /\ Valid' = Valid \cup {Pagina(a)}
         /\ \A q \in Valid : tabela_paginas'[q] = tabela_paginas[q]
         /\ tabela_paginas'[Pagina(a)].frame = Cardinality(Valid)
         /\ page_faults' = page_faults + 1
         /\ saida' = tabela_paginas'[Pagina(a)].frame * SIM_PAGE_SIZE + Offset(a)
<1> DEFINE p == Pagina(a)
           f == FirstFree(bitmap, max_available_pages)
           b == Taken(bitmap, max_available_pages)
<1>1. p \in Pages /\ Offset(a) \in 0 .. SIM_PAGE_SIZE - 1 /\ SIM_PAGE_SIZE \in Nat
  BY Address, MMUConstants
<1>2. /\ page_faults' = page_faults + 1
      /\ tabela_paginas' = [tabela_paginas EXCEPT ![p] =
                              [frame |-> proximo_frame, valido |-> 1]]
      /\ proximo_frame' = (proximo_frame + 1) % UCHAR
      /\ bitmap' = b /\ max_available_pages' = max_available_pages
      /\ ram' = [ram EXCEPT ![f] = p]
      /\ real' = [real EXCEPT ![p] = f]
  BY DEF PageFault, LoadPage, pmm_alloc_page
<1>3. /\ total' = total + 1 /\ tlb_hits' = tlb_hits
      /\ tlb_lookup(p) = -1 /\ tlb_insert(p, tabela_paginas'[p].frame)
      /\ saida' = tabela_paginas'[p].frame * SIM_PAGE_SIZE + Offset(a)
  BY DEF traduzir_miss
<1>4. /\ f \in 0 .. MAX_PAGES - 1
      /\ f # 0 => f \notin bitmap /\ f \in b
      /\ bitmap \subseteq b /\ b \subseteq 0 .. MAX_PAGES - 1
  BY Search DEF IInv
<1> HIDE DEF p, f, b
<1>5. /\ TypeOK /\ TLBCoherent
      /\ tabela_paginas \in [Pages -> [frame : 0 .. UCHAR - 1, valido : {0, 1}]]
      /\ ram \in [0 .. MAX_PAGES - 1 -> Pages \cup {Nothing}]
      /\ real \in [Pages -> 0 .. MAX_PAGES - 1 \cup {Nothing}]
      /\ {page_faults, tlb_hits, total} \subseteq Nat
      /\ proximo_frame \in 0 .. UCHAR - 1
  BY DEF IInv, TypeOK, SimTypeOK
<1>6. /\ UCHAR \in Nat /\ PAGE_TABLE_SIZE \in Nat \ {0} /\ PAGE_TABLE_SIZE <= UCHAR
      /\ MAX_PAGES \in Nat \ {0}
  BY MMUConstants, PMMConstants
<1>7. p \notin Valid
  BY DEF p
<1>8. /\ Cardinality(Valid \cup {p}) = page_faults + 1
      /\ page_faults = Cardinality(Valid)
      /\ proximo_frame = page_faults
  <2>1. page_faults = Cardinality(Valid) /\ proximo_frame = page_faults % UCHAR
    BY DEF IInv, FramesInOrder
  <2>2. /\ Cardinality(Valid \cup {p}) = Cardinality(Valid) + 1
        /\ Cardinality(Valid) < PAGE_TABLE_SIZE
    BY <1>1, <1>7, Counting DEF p
  <2>3. page_faults \in Nat /\ page_faults < UCHAR
    BY <1>5, <1>6, <2>1, <2>2
  <2>4. page_faults % UCHAR = page_faults
    BY <1>6, <2>3
  <2> QED
    BY <2>1, <2>2, <2>4
<1>9. /\ tabela_paginas'[p] = [frame |-> proximo_frame, valido |-> 1]
      /\ \A q \in Pages \ {p} : tabela_paginas'[q] = tabela_paginas[q]
      /\ tabela_paginas' \in [Pages -> [frame : 0 .. UCHAR - 1, valido : {0, 1}]]
  BY <1>1, <1>2, <1>5 DEF p
<1>10. Valid' = Valid \cup {p}
  BY <1>1, <1>9 DEF Valid, p
<1>11. \A q \in Valid : q \in Pages \ {p} /\ tabela_paginas'[q] = tabela_paginas[q]
  BY <1>7, <1>9 DEF Valid
<1>12. /\ TLBCoherent'
       /\ tlb' \in [Entries -> [numero_pagina : Pages, numero_frame : 0 .. UCHAR - 1,
                                valido : {0, 1}]]
       /\ proxima_posicao' \in Entries
  <2>1. /\ p \in Pages /\ tlb_lookup(p) = -1
        /\ tlb_insert(p, tabela_paginas'[p].frame)
    BY <1>1, <1>3 DEF p
  <2>2. tabela_paginas'[p].valido = 1
    BY <1>9
  <2>3. \A q \in Valid : tabela_paginas'[q] = tabela_paginas[q]
    BY <1>11
  <2> QED
    BY <1>5, <1>9, <2>1, <2>2, <2>3, InsertCoherent
<1>13. FramesDistinct' /\ FramesInOrder'
  <2>1. /\ \A q \in Valid : tabela_paginas[q].frame < page_faults
        /\ \A q \in Valid : tabela_paginas[q].frame \in Nat
    BY <1>5, <1>6 DEF IInv, FramesInOrder, Valid
  <2>2. tabela_paginas'[p].frame = page_faults
    BY <1>8, <1>9
  <2>3. FramesDistinct'
    <3> SUFFICES ASSUME NEW q \in Valid', NEW r \in Valid',
                        tabela_paginas'[q].frame = tabela_paginas'[r].frame
                 PROVE  q = r
      BY DEF FramesDistinct
    <3>1. CASE q # p /\ r # p
      BY <1>10, <1>11, <3>1 DEF IInv, FramesDistinct
    <3>2. CASE q = p \/ r = p
      BY <1>5, <1>10, <1>11, <2>1, <2>2, <3>2
    <3> QED
      BY <3>1, <3>2
  <2>4. \A q \in Valid' : tabela_paginas'[q].frame < page_faults'
    BY <1>2, <1>5, <1>10, <1>11, <2>1, <2>2
  <2>5. proximo_frame' = page_faults' % UCHAR
    BY <1>2, <1>8
  <2> QED
    BY <1>2, <1>8, <1>10, <2>3, <2>4, <2>5 DEF FramesInOrder
<1>14. CopiesTaken'
  <2>1. /\ real'[p] = f /\ ram'[f] = p
        /\ \A q \in Pages \ {p} : real'[q] = real[q]
        /\ \A g \in 0 .. MAX_PAGES - 1 : g # f => ram'[g] = ram[g]
    BY <1>1, <1>2, <1>4, <1>5 DEF p
  <2>2. ASSUME NEW q \in Valid
        PROVE  /\ real'[q] # Nothing
               /\ real'[q] # 0 => real'[q] \in bitmap' /\ ram'[real'[q]] = q
    <3>1. real'[q] = real[q] /\ q \in Pages
      BY <1>11, <2>1
    <3>2. /\ real[q] # Nothing
          /\ real[q] # 0 => real[q] \in bitmap /\ ram[real[q]] = q
      BY DEF IInv, CopiesTaken
    <3>3. real[q] # 0 => real[q] # f
      BY <1>4, <3>2
    <3> QED
      BY <1>2, <1>4, <1>5, <2>1, <3>1, <3>2, <3>3
  <2>3. /\ real'[p] # Nothing
        /\ real'[p] # 0 => real'[p] \in bitmap' /\ ram'[real'[p]] = p
    BY <1>2, <1>4, <1>6, <2>1 DEF Nothing
  <2> QED
    BY <1>10, <2>2, <2>3 DEF CopiesTaken
<1>15. TypeOK' /\ page_faults' + tlb_hits' <= total'
  <2>1. page_faults' + tlb_hits' <= total'
    BY <1>2, <1>3, <1>5 DEF IInv
  <2>2. tabela_paginas'[p].frame \in Nat
    BY <1>1, <1>6, <1>9 DEF p
  <2>3. {page_faults', tlb_hits', total', saida'} \subseteq Nat
    BY <1>1, <1>2, <1>3, <1>5, <2>2
  <2>4. proximo_frame' \in 0 .. UCHAR - 1
    BY <1>2, <1>5, <1>6
  <2>5. /\ ram' \in [0 .. MAX_PAGES - 1 -> Pages \cup {Nothing}]
        /\ real' \in [Pages -> 0 .. MAX_PAGES - 1 \cup {Nothing}]
    BY <1>1, <1>2, <1>4, <1>5 DEF p
  <2>6. SimTypeOK'
    BY <1>9, <1>12, <2>3, <2>4, <2>5 DEF SimTypeOK
  <2>7. bitmap' \subseteq 0 .. MAX_PAGES - 1 /\ max_available_pages' = MAX_PAGES
    BY <1>2, <1>4, <1>5 DEF TypeOK
  <2>8. started' \in BOOLEAN
    BY <1>5 DEF TypeOK
  <2> QED
    BY <2>1, <2>6, <2>7, <2>8 DEF TypeOK
<1>16. IInv'
  BY <1>12, <1>13, <1>14, <1>15 DEF IInv
<1> QED
  BY <1>2, <1>3, <1>8, <1>9, <1>10, <1>11, <1>16 DEF p

\* A translation is one or the other.
LEMMA TranslateCases ==
  ASSUME IInv, NEW a \in Addresses, traduzir_endereco(a)
  PROVE  \/ NoFault /\ traduzir_hit(a)
         \/ NoFault /\ traduzir_miss(a) /\ Pagina(a) \in Valid
         \/ PageFault(Pagina(a)) /\ traduzir_miss(a) /\ Pagina(a) \notin Valid
<1>1. Pagina(a) \in Pages
  BY Address
<1>2. tabela_paginas[Pagina(a)].valido \in {0, 1}
  BY <1>1 DEF IInv, TypeOK, SimTypeOK
<1>3. CASE traduzir_hit(a)
  BY <1>3 DEF traduzir_hit
<1>4. CASE traduzir_miss(a)
  BY <1>1, <1>2, <1>4 DEF traduzir_miss, Valid
<1> QED
  BY <1>3, <1>4 DEF traduzir_endereco

\* Every step of the simulator keeps the invariant.
LEMMA StepIInv == IInv /\ [Next]_vars => IInv'
<1> SUFFICES ASSUME IInv, [Next]_vars PROVE IInv'
  OBVIOUS
<1>1. CASE Start
  BY <1>1, StartIInv
<1>2. CASE Translate
  <2>1. PICK a \in Addresses : traduzir_endereco(a)
    BY <1>2 DEF Translate
  <2>2. started /\ UNCHANGED started
    BY <1>2 DEF Translate
  <2> QED
    BY <2>1, <2>2, TranslateCases, NoFaultIInv, FaultIInv
<1>3. CASE UNCHANGED vars
  BY <1>3 DEF vars, pmmVars, tlbVars, simVars, IInv, TypeOK, SimTypeOK, TLBCoherent,
              FramesDistinct, FramesInOrder, CopiesTaken, Valid
<1> QED
  BY <1>1, <1>2, <1>3 DEF Next

----------------------------------------------------------------------------
(* The properties *)

\* The inductive invariant of the simulator (simulador_mmu.c, tlb.c).
THEOREM Invariance == Spec => []IInv
  BY InitIInv, StepIInv, PTL DEF Spec

\* Every variable keeps its type: the TLB's position stays inside its array, and
\* a page, once valid, in the page table.
THEOREM TypeCorrect == Spec => []TypeOK
<1>1. IInv => TypeOK
  BY DEF IInv
<1> QED
  BY <1>1, Invariance, PTL

\* The TLB never contradicts the page table and has no page twice (tlb.c).
THEOREM TLBNeverContradicts == Spec => []TLBCoherent
<1>1. IInv => TLBCoherent
  BY DEF IInv
<1> QED
  BY <1>1, Invariance, PTL

\* No two pages share a frame number, although proximo_frame is an unsigned char
\* and wraps (simulador_mmu.c).
THEOREM NoFrameNumberTwice == Spec => []FramesDistinct
<1>1. IInv => FramesDistinct
  BY DEF IInv
<1> QED
  BY <1>1, Invariance, PTL

\* The statistics count the pages touched, and never more events than accesses.
THEOREM FaultsCountPages == Spec => []StatisticsAddUp
<1>1. IInv => StatisticsAddUp
  BY DEF IInv, FramesInOrder, StatisticsAddUp
<1> QED
  BY <1>1, Invariance, PTL

\* A page's copy stays as it is in the frame the PMM gave for it.
THEOREM CopiesStay == Spec => []CopiesIntact
<1>1. IInv => CopiesIntact
  BY DEF IInv, CopiesTaken, CopiesIntact
<1> QED
  BY <1>1, Invariance, PTL

\* The Cardinality of DemandPaging is that of this module.
LEMMA SameCount == \A S : Paging!Cardinality(S) = Cardinality(S)
BY DEF Paging!Cardinality, Cardinality

\* The TLB is transparent: each address is translated as demand paging without
\* one would, and a page faults the first time it is touched (simulador_mmu.c).
THEOREM TLBIsTransparent == Spec => TranslatesAsDemandPaging
<1> DEFINE frame == [p \in Valid |-> tabela_paginas[p].frame]
<1>1. Init => Paging!Init
  <2> SUFFICES ASSUME Init PROVE Paging!Init
    OBVIOUS
  <2>1. Valid = {}
    BY DEF Init, MMUZeroed, Valid
  <2>2. page_faults = 0 /\ saida = 0
    BY DEF Init, MMUZeroed
  <2> QED
    BY <2>1, <2>2 DEF Paging!Init
<1>2. IInv /\ [Next]_vars => [Paging!Next]_(Paging!pagingVars)
  <2> SUFFICES ASSUME IInv, [Next]_vars
               PROVE  [Paging!Next]_(Paging!pagingVars)
    OBVIOUS
  <2>1. CASE Start
    <3>1. frame' = frame
      BY <2>1, StartIInv
    <3>2. UNCHANGED <<page_faults, saida>>
      BY <2>1 DEF Start, mmu_init
    <3> QED
      BY <3>1, <3>2 DEF Paging!pagingVars
  <2>2. CASE Translate
    <3>1. PICK a \in Addresses : traduzir_endereco(a)
      BY <2>2 DEF Translate
    <3>2. started /\ UNCHANGED started
      BY <2>2 DEF Translate
    <3>3. Pagina(a) \in Pages /\ Offset(a) \in 0 .. SIM_PAGE_SIZE - 1
      BY Address
    <3>4. DOMAIN frame = Valid /\ Paging!Touched = Valid
      BY DEF Paging!Touched
    <3>5. CASE /\ NoFault
               /\ traduzir_hit(a) \/ (traduzir_miss(a) /\ Pagina(a) \in Valid)
      <4>1. /\ Pagina(a) \in Valid /\ Valid' = Valid
            /\ saida' = tabela_paginas[Pagina(a)].frame * SIM_PAGE_SIZE + Offset(a)
        BY <3>2, <3>5, NoFaultIInv
      <4>2. UNCHANGED <<tabela_paginas, page_faults>>
        BY <3>5 DEF NoFault
      <4>3. frame' = [q \in Valid \cup {Pagina(a)} |->
                        IF q \in Valid THEN frame[q] ELSE Cardinality(Valid)]
        BY <4>1, <4>2
      <4>4. frame'[Pagina(a)] = tabela_paginas[Pagina(a)].frame
        BY <4>1, <4>2
      <4>5. Paging!Translate(Pagina(a), Offset(a))
        BY <3>4, <4>1, <4>2, <4>3, <4>4 DEF Paging!Translate
      <4> QED
        BY <3>3, <4>5 DEF Paging!Next
    <3>6. CASE PageFault(Pagina(a)) /\ traduzir_miss(a) /\ Pagina(a) \notin Valid
      <4>1. /\ Valid' = Valid \cup {Pagina(a)}
            /\ \A q \in Valid : tabela_paginas'[q] = tabela_paginas[q]
            /\ tabela_paginas'[Pagina(a)].frame = Cardinality(Valid)
            /\ page_faults' = page_faults + 1
            /\ saida' = tabela_paginas'[Pagina(a)].frame * SIM_PAGE_SIZE + Offset(a)
        BY <3>2, <3>6, FaultIInv
      <4>2. frame' = [q \in Valid \cup {Pagina(a)} |->
                        IF q \in Valid THEN frame[q] ELSE Cardinality(Valid)]
        BY <3>6, <4>1
      <4>3. frame'[Pagina(a)] = tabela_paginas'[Pagina(a)].frame
        BY <4>1
      <4>4. Paging!Translate(Pagina(a), Offset(a))
        <5>1. saida' = frame'[Pagina(a)] * SIM_PAGE_SIZE + Offset(a)
          BY <4>1, <4>3
        <5>2. page_faults' = IF Pagina(a) \in Valid THEN page_faults ELSE page_faults + 1
          BY <3>6, <4>1
        <5> QED
          BY <3>4, <4>2, <5>1, <5>2, SameCount DEF Paging!Translate
      <4> QED
        BY <3>3, <4>4 DEF Paging!Next
    <3>7. \/ NoFault /\ (traduzir_hit(a) \/ (traduzir_miss(a) /\ Pagina(a) \in Valid))
          \/ PageFault(Pagina(a)) /\ traduzir_miss(a) /\ Pagina(a) \notin Valid
      BY <3>1, TranslateCases
    <3> QED
      BY <3>5, <3>6, <3>7
  <2>3. CASE UNCHANGED vars
    <3>1. UNCHANGED <<tabela_paginas, page_faults, saida>>
      BY <2>3 DEF vars, simVars
    <3>2. frame' = frame
      BY <3>1 DEF Valid
    <3> QED
      BY <3>1, <3>2 DEF Paging!pagingVars
  <2> QED
    BY <2>1, <2>2, <2>3 DEF Next
<1> QED
  BY <1>1, <1>2, Invariance, PTL DEF Spec, TranslatesAsDemandPaging, Paging!Spec

----------------------------------------------------------------------------
(* The TLB as a queue *)

\* The array is filled from its start, and full before an entry is overwritten.
FilledInOrder ==
  /\ ValidEntries = Entries \/ ValidEntries = 0 .. proxima_posicao - 1
  /\ ~started => ValidEntries = {} /\ proxima_posicao = 0

\* What the queue is then: the full array read from the position that is written
\* next, or its beginning.
QueueShape ==
  /\ ValidEntries = Entries =>
       TLBQueue = [k \in 1 .. TLB_SIZE |->
                     tlb[IF proxima_posicao + k - 1 < TLB_SIZE
                         THEN proxima_posicao + k - 1
                         ELSE proxima_posicao + k - 1 - TLB_SIZE].numero_pagina]
  /\ ValidEntries = 0 .. proxima_posicao - 1 =>
       TLBQueue = [k \in 1 .. proxima_posicao |-> tlb[k - 1].numero_pagina]

\* A position that goes past the end by less than the size wraps once.
LEMMA WrapOnce ==
  ASSUME NEW n \in Nat \ {0}, NEW k \in 0 .. 2 * n - 1
  PROVE  k % n = IF k < n THEN k ELSE k - n
<1>1. CASE k < n
  BY <1>1
<1>2. CASE k >= n
  <2>1. k - n \in 0 .. n - 1
    BY <1>2
  <2>2. (k - n) % n = k - n
    BY <2>1
  <2>3. k = 1 * n + (k - n)
    OBVIOUS
  <2> QED
    BY <1>2, <2>1, <2>3
<1> QED
  BY <1>1, <1>2

\* The queue has its shape in each state of the simulator.
LEMMA QueueHasShape == TypeOK /\ FilledInOrder => QueueShape
<1> SUFFICES ASSUME TypeOK, FilledInOrder PROVE QueueShape
  OBVIOUS
<1> DEFINE T == TLB_SIZE
           pos == proxima_posicao
<1>1. T \in Nat \ {0} /\ pos \in 0 .. T - 1
  BY TLBConstants DEF TypeOK, SimTypeOK, Entries
<1>2. ASSUME ValidEntries = Entries
      PROVE  TLBQueue = [k \in 1 .. T |->
               tlb[IF pos + k - 1 < T THEN pos + k - 1 ELSE pos + k - 1 - T].numero_pagina]
  <2>1. Cardinality(ValidEntries) = T
    BY <1>1, <1>2, FS_Interval DEF Entries
  <2>2. TLBQueue = [k \in 1 .. T |-> tlb[Written(k, T)].numero_pagina]
    BY <2>1 DEF TLBQueue
  <2>3. ASSUME NEW k \in 1 .. T
        PROVE  Written(k, T) = IF pos + k - 1 < T THEN pos + k - 1 ELSE pos + k - 1 - T
    <3> DEFINE x == pos + k - 1
    <3>1. x \in 0 .. 2 * T - 1 /\ pos + T - T + k - 1 = x
      BY <1>1, <2>3
    <3>2. Written(k, T) = x % T
      BY <3>1 DEF Written
    <3> HIDE DEF x, T
    <3>3. x % T = IF x < T THEN x ELSE x - T
      BY <1>1, <3>1, WrapOnce
    <3> QED
      BY <1>1, <2>3, <3>1, <3>2, <3>3 DEF x
  <2> QED
    BY <2>2, <2>3
<1>3. ASSUME ValidEntries = 0 .. pos - 1
      PROVE  TLBQueue = [k \in 1 .. pos |-> tlb[k - 1].numero_pagina]
  <2>1. Cardinality(ValidEntries) = pos
    BY <1>1, <1>3, FS_Interval
  <2>2. TLBQueue = [k \in 1 .. pos |-> tlb[Written(k, pos)].numero_pagina]
    BY <2>1 DEF TLBQueue
  <2>3. ASSUME NEW k \in 1 .. pos
        PROVE  Written(k, pos) = k - 1
    <3> DEFINE x == T + k - 1
    <3>1. /\ x \in 0 .. 2 * T - 1 /\ ~(x < T) /\ x - T = k - 1
          /\ pos + T - pos + k - 1 = x
      BY <1>1, <2>3
    <3>2. Written(k, pos) = x % T
      BY <3>1 DEF Written
    <3> HIDE DEF x, T
    <3>3. x % T = x - T
      BY <1>1, <3>1, WrapOnce
    <3> QED
      BY <3>1, <3>2, <3>3
  <2> QED
    BY <2>2, <2>3
<1> QED
  BY <1>2, <1>3 DEF QueueShape

\* And in the next one.
LEMMA QueueKeepsShape == (TypeOK /\ FilledInOrder => QueueShape)'
BY QueueHasShape, PTL

\* To append to a sequence of n elements ...
LEMMA AppendTo ==
  ASSUME NEW S, NEW n \in Nat, NEW q \in [1 .. n -> S], NEW p \in S
  PROVE  Len(q) = n /\ Append(q, p) = [k \in 1 .. n + 1 |-> IF k <= n THEN q[k] ELSE p]
<1>1. q \in Seq(S) /\ Len(q) = n
  OBVIOUS
<1>2. Append(q, p) \in Seq(S) /\ Len(Append(q, p)) = n + 1
  BY <1>1
<1>3. \A k \in 1 .. n + 1 : Append(q, p)[k] = IF k <= n THEN q[k] ELSE p
  BY <1>1
<1>4. Append(q, p) \in [1 .. n + 1 -> S]
  BY <1>2, LenProperties
<1> QED
  BY <1>1, <1>3, <1>4

\* ... and to one whose first element is dropped.
LEMMA AppendToTail ==
  ASSUME NEW S, NEW n \in Nat \ {0}, NEW q \in [1 .. n -> S], NEW p \in S
  PROVE  /\ Len(q) = n
         /\ Append(Tail(q), p) = [k \in 1 .. n |-> IF k < n THEN q[k + 1] ELSE p]
<1>1. q \in Seq(S) /\ Len(q) = n /\ q # <<>>
  OBVIOUS
<1>2. /\ Tail(q) \in Seq(S) /\ Len(Tail(q)) = n - 1
      /\ \A k \in 1 .. n - 1 : Tail(q)[k] = q[k + 1]
  BY <1>1
<1> DEFINE m == n - 1
           t == Tail(q)
<1>3. t \in [1 .. m -> S] /\ m \in Nat
  BY <1>2, LenProperties
<1> HIDE DEF m, t
<1>4. Append(t, p) = [k \in 1 .. m + 1 |-> IF k <= m THEN t[k] ELSE p]
  BY <1>3, AppendTo
<1>5. \A k \in 1 .. n :
        (IF k <= m THEN t[k] ELSE p) = IF k < n THEN q[k + 1] ELSE p
  BY <1>2 DEF m, t
<1>6. m + 1 = n
  BY DEF m
<1> QED
  BY <1>1, <1>4, <1>5, <1>6 DEF t

\* The queue has as many pages as there are valid entries, and those pages.
LEMMA QueueHolds ==
  ASSUME TypeOK, FilledInOrder
  PROVE  /\ \E n \in 0 .. TLB_SIZE :
              /\ TLBQueue \in [1 .. n -> Pages]
              /\ Len(TLBQueue) = n
              /\ n = TLB_SIZE <=> ValidEntries = Entries
              /\ n = proxima_posicao \/ n = TLB_SIZE
         /\ \A p : Contains(TLBQueue, p) <=>
                     \E i \in ValidEntries : tlb[i].numero_pagina = p
<1> DEFINE T == TLB_SIZE
           pos == proxima_posicao
           Q == TLBQueue
<1>1. /\ T \in Nat \ {0} /\ pos \in 0 .. T - 1
      /\ \A i \in 0 .. T - 1 : tlb[i].numero_pagina \in Pages
  BY TLBConstants DEF TypeOK, SimTypeOK, Entries
<1>2. QueueShape
  BY QueueHasShape
<1>3. CASE ValidEntries = Entries
  <2> DEFINE at(k) == IF pos + k - 1 < T THEN pos + k - 1 ELSE pos + k - 1 - T
  <2>1. Q = [k \in 1 .. T |-> tlb[at(k)].numero_pagina]
    BY <1>2, <1>3 DEF QueueShape
  <2>2. \A k \in 1 .. T : at(k) \in 0 .. T - 1
    BY <1>1
  <2>3. \A i \in 0 .. T - 1 : \E k \in 1 .. T : at(k) = i
    <3> SUFFICES ASSUME NEW i \in 0 .. T - 1 PROVE \E k \in 1 .. T : at(k) = i
      OBVIOUS
    <3>1. CASE i >= pos
      <4>1. i - pos + 1 \in 1 .. T /\ at(i - pos + 1) = i
        BY <1>1, <3>1
      <4> QED
        BY <4>1
    <3>2. CASE i < pos
      <4>1. i - pos + 1 + T \in 1 .. T /\ at(i - pos + 1 + T) = i
        BY <1>1, <3>2
      <4> QED
        BY <4>1
    <3> QED
      BY <1>1, <3>1, <3>2
  <2> HIDE DEF at, Q
  <2>4. Q \in [1 .. T -> Pages]
    BY <1>1, <2>1, <2>2
  <2>5. Len(Q) = T
    BY <1>1, <2>4
  <2>6. \A p : Contains(Q, p) <=> \E k \in 1 .. T : tlb[at(k)].numero_pagina = p
    BY <2>1, <2>5 DEF Contains
  <2>7. \A p : Contains(Q, p) <=> \E i \in 0 .. T - 1 : tlb[i].numero_pagina = p
    BY <2>2, <2>3, <2>6
  <2> QED
    BY <1>1, <1>3, <2>4, <2>5, <2>7 DEF Q, Entries
<1>4. CASE ValidEntries = 0 .. pos - 1
  <2>1. Q = [k \in 1 .. pos |-> tlb[k - 1].numero_pagina]
    BY <1>2, <1>4 DEF QueueShape
  <2> HIDE DEF Q
  <2>2. Q \in [1 .. pos -> Pages]
    <3>1. \A k \in 1 .. pos : k - 1 \in 0 .. T - 1
      BY <1>1
    <3> QED
      BY <1>1, <2>1, <3>1
  <2>3. Len(Q) = pos
    BY <1>1, <2>2
  <2>4. \A p : Contains(Q, p) <=> \E k \in 1 .. pos : tlb[k - 1].numero_pagina = p
    BY <2>1, <2>3 DEF Contains
  <2>5. /\ \A k \in 1 .. pos : k - 1 \in 0 .. pos - 1
        /\ \A i \in 0 .. pos - 1 : i + 1 \in 1 .. pos /\ (i + 1) - 1 = i
    BY <1>1
  <2>6. \A p : Contains(Q, p) <=> \E i \in 0 .. pos - 1 : tlb[i].numero_pagina = p
    BY <2>4, <2>5
  <2>7. ValidEntries # Entries /\ pos # T /\ pos \in 0 .. T
    <3>1. T - 1 \in Entries /\ T - 1 \notin 0 .. pos - 1
      BY <1>1 DEF Entries
    <3> QED
      BY <1>1, <1>4, <3>1
  <2> QED
    BY <1>4, <2>2, <2>3, <2>6, <2>7 DEF Q
<1> QED
  BY <1>3, <1>4 DEF FilledInOrder

\* tlb_insert puts the page at the end of the queue, and drops the oldest one of a
\* full queue.
LEMMA InsertQueues ==
  ASSUME TypeOK, FilledInOrder, TypeOK', started', NEW p \in Pages, NEW f,
         tlb_insert(p, f)
  PROVE  /\ FilledInOrder'
         /\ TLBQueue' =
              Append(IF Len(TLBQueue) = TLB_SIZE THEN Tail(TLBQueue) ELSE TLBQueue, p)
<1> DEFINE T == TLB_SIZE
           pos == proxima_posicao
           e == Entry(p, f, 1)
<1>1. /\ T \in Nat \ {0} /\ pos \in 0 .. T - 1
      /\ tlb \in [Entries -> [numero_pagina : Pages, numero_frame : 0 .. UCHAR - 1,
                              valido : {0, 1}]]
  BY TLBConstants DEF TypeOK, SimTypeOK, Entries
<1>2. /\ tlb' = [tlb EXCEPT ![pos] = e]
      /\ pos' = IF pos + 1 >= T THEN 0 ELSE pos + 1
  BY DEF tlb_insert, NextPosition
<1>3. /\ DOMAIN tlb' = Entries
      /\ \A i \in Entries : tlb'[i] = IF i = pos THEN e ELSE tlb[i]
      /\ e.numero_pagina = p /\ e.valido = 1
  BY <1>1, <1>2 DEF Entry
<1>4. pos \in Entries /\ Entries = 0 .. T - 1
  BY <1>1 DEF Entries
<1>5. ValidEntries' = ValidEntries \cup {pos}
  BY <1>3, <1>4 DEF ValidEntries
<1>6. QueueShape
  BY QueueHasShape
<1>7. CASE ValidEntries = Entries
  <2> DEFINE at(k) == IF pos + k - 1 < T THEN pos + k - 1 ELSE pos + k - 1 - T
             Q == TLBQueue
  <2>1. ValidEntries' = Entries
    BY <1>4, <1>5, <1>7
  <2>2. FilledInOrder'
    BY <2>1 DEF FilledInOrder
  <2>3. QueueShape'
    BY <2>2, QueueKeepsShape
  <2>4. Q = [k \in 1 .. T |-> tlb[at(k)].numero_pagina]
    BY <1>6, <1>7 DEF QueueShape
  <2>5. Q' = [k \in 1 .. T |->
                tlb'[IF pos' + k - 1 < T THEN pos' + k - 1
                     ELSE pos' + k - 1 - T].numero_pagina]
    BY <2>1, <2>3 DEF QueueShape
  <2>6. ASSUME NEW k \in 1 .. T
        PROVE  Q'[k] = IF k < T THEN Q[k + 1] ELSE p
    <3> DEFINE j == IF pos' + k - 1 < T THEN pos' + k - 1 ELSE pos' + k - 1 - T
    <3>1. j \in Entries
      BY <1>1, <1>2, <1>4
    <3>2. k = T => j = pos
      BY <1>1, <1>2
    <3>3. k < T => j # pos /\ j = at(k + 1) /\ k + 1 \in 1 .. T
      BY <1>1, <1>2
    <3>4. Q'[k] = tlb'[j].numero_pagina
      BY <2>5
    <3>5. k + 1 \in 1 .. T => Q[k + 1] = tlb[at(k + 1)].numero_pagina
      BY <2>4
    <3>6. k < T \/ k = T
      BY <1>1
    <3> HIDE DEF j, at, Q
    <3> QED
      BY <1>1, <1>3, <3>1, <3>2, <3>3, <3>4, <3>5, <3>6
  <2>7. Q \in [1 .. T -> Pages] /\ Len(Q) = T
    BY <1>7, QueueHolds
  <2>8. Append(Tail(Q), p) = [k \in 1 .. T |-> IF k < T THEN Q[k + 1] ELSE p]
    <3> HIDE DEF Q, T
    <3> QED
      BY <1>1, <2>7, AppendToTail
  <2>9. Q' = [k \in 1 .. T |-> Q'[k]]
    BY <2>5
  <2> HIDE DEF Q, at
  <2>10. Q' = Append(Tail(Q), p)
    BY <2>6, <2>8, <2>9
  <2> QED
    BY <2>2, <2>7, <2>10 DEF Q
<1>8. CASE ValidEntries = 0 .. pos - 1
  <2> DEFINE Q == TLBQueue
  <2>1. ValidEntries' = 0 .. pos
    BY <1>1, <1>5, <1>8
  <2>2. Q = [k \in 1 .. pos |-> tlb[k - 1].numero_pagina]
    BY <1>6, <1>8 DEF QueueShape
  <2>3. FilledInOrder'
    <3>1. CASE pos + 1 >= T
      BY <1>1, <1>4, <2>1, <3>1 DEF FilledInOrder
    <3>2. CASE ~(pos + 1 >= T)
      BY <1>1, <1>2, <2>1, <3>2 DEF FilledInOrder
    <3> QED
      BY <3>1, <3>2
  <2>4. QueueShape'
    BY <2>3, QueueKeepsShape
  <2>5. Q' = [k \in 1 .. pos + 1 |-> tlb'[k - 1].numero_pagina]
    <3>1. CASE pos + 1 >= T
      <4>1. pos' = 0 /\ pos + 1 = T
        BY <1>1, <1>2, <3>1
      <4>2. ValidEntries' = Entries
        BY <1>1, <1>4, <2>1, <4>1
      <4>3. Q' = [k \in 1 .. T |->
                    tlb'[IF pos' + k - 1 < T THEN pos' + k - 1
                         ELSE pos' + k - 1 - T].numero_pagina]
        BY <2>4, <4>2 DEF QueueShape
      <4>4. \A k \in 1 .. T : (IF pos' + k - 1 < T THEN pos' + k - 1
                               ELSE pos' + k - 1 - T) = k - 1
        BY <1>1, <4>1
      <4> HIDE DEF Q
      <4> QED
        BY <4>1, <4>3, <4>4
    <3>2. CASE ~(pos + 1 >= T)
      <4>1. pos' = pos + 1 /\ pos' - 1 = pos
        BY <1>1, <1>2, <3>2
      <4> QED
        BY <2>1, <2>4, <4>1 DEF QueueShape
    <3> QED
      BY <3>1, <3>2
  <2>6. Q \in [1 .. pos -> Pages] /\ Len(Q) = pos
    <3>1. ValidEntries # Entries
      <4>1. T - 1 \in Entries /\ T - 1 \notin 0 .. pos - 1
        BY <1>1, <1>4
      <4> QED
        BY <1>8, <4>1
    <3> QED
      BY <3>1, QueueHolds
  <2>7. Append(Q, p) = [k \in 1 .. pos + 1 |-> IF k <= pos THEN Q[k] ELSE p]
    <3> HIDE DEF Q
    <3>1. pos \in Nat
      BY <1>1
    <3> HIDE DEF pos
    <3> QED
      BY <2>6, <3>1, AppendTo
  <2>8. ASSUME NEW k \in 1 .. pos + 1
        PROVE  tlb'[k - 1].numero_pagina = IF k <= pos THEN Q[k] ELSE p
    <3>1. k - 1 \in Entries
      BY <1>1, <1>4
    <3>2. CASE k <= pos
      <4>1. k \in 1 .. pos /\ k - 1 # pos
        BY <1>1, <3>2
      <4>2. Q[k] = tlb[k - 1].numero_pagina
        BY <2>2, <4>1
      <4> HIDE DEF Q
      <4> QED
        BY <1>3, <3>1, <3>2, <4>1, <4>2
    <3>3. CASE ~(k <= pos)
      <4>1. k - 1 = pos
        BY <1>1, <3>3
      <4> QED
        BY <1>3, <3>1, <3>3, <4>1
    <3> QED
      BY <3>2, <3>3
  <2>9. Q' = Append(Q, p)
    <3> HIDE DEF Q
    <3> QED
      BY <2>5, <2>7, <2>8
  <2> QED
    BY <1>1, <2>3, <2>6, <2>9
<1> QED
  BY <1>7, <1>8 DEF FilledInOrder

\* The TLB starts empty, at the beginning of its array.
LEMMA InitFilled == Init => FilledInOrder
<1> SUFFICES ASSUME Init PROVE FilledInOrder
  OBVIOUS
<1>1. ValidEntries = {} /\ proxima_posicao = 0
  BY DEF Init, MMUZeroed, Entry, ValidEntries
<1> QED
  BY <1>1 DEF FilledInOrder

\* The operators of FIFOCache are those of this module.
LEMMA SameContains == \A s, e : Cache!Contains(s, e) <=> Contains(s, e)
BY DEF Cache!Contains, Contains

\* The frame number of an address is what is logged without its offset.
LEMMA FrameOfAddress ==
  ASSUME NEW n \in Nat \ {0}, NEW f \in Nat, NEW o \in 0 .. n - 1
  PROVE  (f * n + o) \div n = f
OBVIOUS

\* A page whose frame was logged is the one of the last address.
LEMMA AccessedIs ==
  ASSUME IInv, total # 0, NEW p \in Valid,
         saida \div SIM_PAGE_SIZE = tabela_paginas[p].frame
  PROVE  Accessed = p
<1>1. \A q \in Valid : tabela_paginas[q].frame = tabela_paginas[p].frame => q = p
  BY DEF IInv, FramesDistinct
<1> QED
  BY <1>1 DEF Accessed

\* The same of the next state.
LEMMA AccessedNext ==
  (\A p \in Pages :
     /\ IInv /\ total # 0 /\ p \in Valid
     /\ saida \div SIM_PAGE_SIZE = tabela_paginas[p].frame
     => Accessed = p)'
<1>1. \A p \in Pages :
        /\ IInv /\ total # 0 /\ p \in Valid
        /\ saida \div SIM_PAGE_SIZE = tabela_paginas[p].frame
        => Accessed = p
  BY AccessedIs
<1> QED
  BY <1>1, PTL

\* A translation logs an address of the page it was given.
LEMMA TranslateAccesses ==
  ASSUME IInv, started, UNCHANGED started, NEW a \in Addresses, traduzir_endereco(a)
  PROVE  Accessed' = Pagina(a) /\ total' = total + 1
<1> DEFINE p == Pagina(a)
<1>1. p \in Pages /\ Offset(a) \in 0 .. SIM_PAGE_SIZE - 1 /\ SIM_PAGE_SIZE \in Nat \ {0}
  BY Address, MMUConstants
<1>2. /\ IInv' /\ p \in Valid'
      /\ saida' = tabela_paginas'[p].frame * SIM_PAGE_SIZE + Offset(a)
  <2>1. CASE NoFault /\ (traduzir_hit(a) \/ (traduzir_miss(a) /\ p \in Valid))
    <3>1. tabela_paginas' = tabela_paginas
      BY <2>1 DEF NoFault
    <3> QED
      BY <2>1, <3>1, NoFaultIInv
  <2>2. CASE PageFault(p) /\ traduzir_miss(a) /\ p \notin Valid
    BY <2>2, FaultIInv
  <2> QED
    BY <2>1, <2>2, TranslateCases
<1>3. total' = total + 1 /\ total \in Nat
  BY DEF traduzir_endereco, traduzir_hit, traduzir_miss, IInv, TypeOK, SimTypeOK
<1>4. tabela_paginas'[p].frame \in Nat
  BY <1>1, <1>2, MMUConstants DEF IInv, TypeOK, SimTypeOK
<1>5. saida' \div SIM_PAGE_SIZE = tabela_paginas'[p].frame
  BY <1>1, <1>2, <1>4, FrameOfAddress
<1>6. total' # 0
  BY <1>3
<1> HIDE DEF p
<1>7. Accessed' = p
  BY <1>1, <1>2, <1>5, <1>6, AccessedNext
<1> QED
  BY <1>3, <1>7 DEF p

\* A translation leaves the queue on a hit, and moves it on by a page on a miss.
LEMMA TranslateQueues ==
  ASSUME IInv, FilledInOrder, IInv', started, UNCHANGED started, NEW a \in Addresses,
         traduzir_endereco(a)
  PROVE  FilledInOrder' /\ [Cache!Next]_(Cache!cacheVars)
<1> DEFINE p == Pagina(a)
<1>1. p \in Pages /\ TypeOK /\ TypeOK'
  BY Address DEF IInv
<1>2. Contains(TLBQueue, p) <=> tlb_lookup(p) # -1
  <2>1. Contains(TLBQueue, p) <=> \E i \in ValidEntries : tlb[i].numero_pagina = p
    BY <1>1, QueueHolds
  <2> QED
    BY <1>1, <2>1, Lookup DEF ValidEntries
<1> HIDE DEF p
<1>3. total' = total + 1 /\ Accessed' = p
  BY TranslateAccesses DEF p
<1>4. CASE traduzir_hit(a)
  <2>1. /\ tlb_lookup(p) # -1 /\ tlb_hits' = tlb_hits + 1
        /\ UNCHANGED <<tlb, proxima_posicao>>
    BY <1>4 DEF traduzir_hit, tlbVars, p
  <2>2. ValidEntries' = ValidEntries /\ TLBQueue' = TLBQueue
    BY <2>1 DEF ValidEntries, TLBQueue, Written
  <2>3. FilledInOrder'
    BY <2>1, <2>2 DEF FilledInOrder
  <2>4. Cache!Hit(p)
    BY <1>2, <2>1, <2>2, SameContains DEF Cache!Hit
  <2> QED
    BY <1>1, <1>3, <2>3, <2>4 DEF Cache!Next, Cache!Access
<1>5. CASE traduzir_miss(a)
  <2>1. /\ tlb_lookup(p) = -1 /\ tlb_hits' = tlb_hits
        /\ tlb_insert(p, tabela_paginas'[p].frame)
    BY <1>5 DEF traduzir_miss, p
  <2>2. /\ FilledInOrder'
        /\ TLBQueue' =
             Append(IF Len(TLBQueue) = TLB_SIZE THEN Tail(TLBQueue) ELSE TLBQueue, p)
    BY <1>1, <2>1, InsertQueues
  <2>3. Cache!Miss(p)
    BY <1>2, <2>1, <2>2, SameContains DEF Cache!Miss
  <2> QED
    BY <1>1, <1>3, <2>2, <2>3 DEF Cache!Next, Cache!Access
<1> QED
  BY <1>4, <1>5 DEF traduzir_endereco

\* A step of the simulator is one of the cache or leaves it alone.
LEMMA StepQueues ==
  IInv /\ IInv' /\ FilledInOrder /\ [Next]_vars =>
    FilledInOrder' /\ [Cache!Next]_(Cache!cacheVars)
<1> SUFFICES ASSUME IInv, IInv', FilledInOrder, [Next]_vars
             PROVE  FilledInOrder' /\ [Cache!Next]_(Cache!cacheVars)
  OBVIOUS
<1>1. CASE Start
  <2>1. /\ ~started /\ proxima_posicao' = proxima_posicao /\ tlb_hits' = tlb_hits
        /\ tlb' = [i \in Entries |-> Entry(0, 0, 0)] /\ started'
    BY <1>1 DEF Start, mmu_init, tlb_init
  <2>2. ValidEntries = {} /\ ValidEntries' = {} /\ proxima_posicao = 0
    BY <2>1 DEF FilledInOrder, ValidEntries, Entry
  <2>3. FilledInOrder'
    BY <2>1, <2>2 DEF FilledInOrder
  <2>4. TLBQueue = <<>> /\ TLBQueue' = <<>>
    <3>1. Cardinality({}) = 0 /\ 1 .. 0 = {}
      BY FS_EmptySet
    <3> QED
      BY <2>2, <3>1 DEF TLBQueue
  <2>5. Accessed' = Accessed /\ total' = total
    <3>1. UNCHANGED <<total, saida>> /\ Valid = {} /\ Valid' = {}
      BY <1>1, StartIInv DEF Start, mmu_init
    <3> QED
      BY <3>1 DEF Accessed
  <2> QED
    BY <2>1, <2>3, <2>4, <2>5 DEF Cache!cacheVars
<1>2. CASE Translate
  <2>1. PICK a \in Addresses : traduzir_endereco(a)
    BY <1>2 DEF Translate
  <2>2. started /\ UNCHANGED started
    BY <1>2 DEF Translate
  <2> QED
    BY <2>1, <2>2, TranslateQueues
<1>3. CASE UNCHANGED vars
  <2>1. UNCHANGED <<tlb, proxima_posicao, tlb_hits, started, total, saida, tabela_paginas>>
    BY <1>3 DEF vars, tlbVars, simVars
  <2>2. TLBQueue' = TLBQueue /\ FilledInOrder'
    BY <2>1 DEF FilledInOrder, ValidEntries, TLBQueue, Written
  <2>3. Accessed' = Accessed
    BY <2>1 DEF Accessed, Valid
  <2> QED
    BY <2>1, <2>2, <2>3 DEF Cache!cacheVars
<1> QED
  BY <1>1, <1>2, <1>3 DEF Next

\* The circular array of tlb.c is a FIFO cache of TLB_SIZE pages, whatever
\* its size and whatever is looked up: an access is a hit exactly when such
\* a cache has its page, and a miss drops the page that came first.
THEOREM TLBIsAQueue == Spec => TLBIsFIFO
<1>1. Init => Cache!Init
  <2> SUFFICES ASSUME Init PROVE Cache!Init
    OBVIOUS
  <2>1. ValidEntries = {} /\ tlb_hits = 0
    BY DEF Init, MMUZeroed, Entry, ValidEntries
  <2>2. TLBQueue = <<>>
    <3>1. Cardinality({}) = 0 /\ 1 .. 0 = {}
      BY FS_EmptySet
    <3> QED
      BY <2>1, <3>1 DEF TLBQueue
  <2>3. total = 0 /\ Accessed = Nothing
    BY DEF Init, MMUZeroed, Accessed
  <2> QED
    BY <2>1, <2>2, <2>3 DEF Cache!Init
<1> QED
  BY <1>1, InitFilled, StepQueues, Invariance, PTL DEF Spec, TLBIsFIFO, Cache!Spec
============================================================================
