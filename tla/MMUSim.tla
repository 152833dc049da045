------------------------------- MODULE MMUSim -------------------------------
(***************************************************************************)
(* The virtual-memory simulator that kmain runs at boot, simulador_mmu.c:  *)
(* a TLB, a page table, a "disk" of page contents, and one frame of the    *)
(* machine taken from the PMM for each page fault.                         *)
(*                                                                         *)
(* Nothing runs between two calls of traduzir_endereco but kmain's loop,   *)
(* and the simulator gives no frame back, so a call is one step.           *)
(***************************************************************************)
EXTENDS TLB, PMM

CONSTANTS
  PAGE_TABLE_SIZE,  \* entries of the page table                      (256)
  SIM_PAGE_SIZE,    \* bytes in a simulated page                      (256)
  UCHAR             \* values of unsigned char                        (256)

ASSUME MMUConstants ==
  /\ {PAGE_TABLE_SIZE, SIM_PAGE_SIZE} \subseteq Nat \ {0}
  /\ UCHAR \in Nat /\ PAGE_TABLE_SIZE <= UCHAR

VARIABLES
  tabela_paginas,   \* page -> [frame, valido]
  page_faults, tlb_hits, total,
  proximo_frame,    \* the frame number the next fault gets, an unsigned char
  saida,            \* the physical address the last call logged
  ram,              \* frame of the machine -> the page copied into it
  real              \* ghost: page -> the frame of the machine it was copied to

simVars == <<tabela_paginas, page_faults, tlb_hits, total, proximo_frame, saida,
             ram, real>>

Pages == 0 .. PAGE_TABLE_SIZE - 1

\* No page was copied here, or there.
Nothing == -1

\* The simulator's static storage before mmu_init: all zero, as mmu_init
\* leaves it.
MMUZeroed ==
  /\ tlb = [i \in Entries |-> Entry(0, 0, 0)]
  /\ proxima_posicao = 0
  /\ tabela_paginas = [p \in Pages |-> [frame |-> 0, valido |-> 0]]
  /\ page_faults = 0 /\ tlb_hits = 0 /\ total = 0
  /\ proximo_frame = 0
  /\ saida = 0
  /\ ram = [f \in 0 .. MAX_PAGES - 1 |-> Nothing]
  /\ real = [p \in Pages |-> Nothing]

mmu_init ==
  /\ tabela_paginas' = [p \in Pages |-> [frame |-> 0, valido |-> 0]]
  /\ tlb_init
  /\ UNCHANGED <<page_faults, tlb_hits, total, proximo_frame, saida, ram, real>>

Pagina(endereco) == (endereco \div SIM_PAGE_SIZE) % PAGE_TABLE_SIZE
Offset(endereco) == endereco % SIM_PAGE_SIZE

\* Mutant: the copy goes to the frame after the one the PMM gave.
LoadPageNext(pagina) ==
  LET frame_real == FirstFree(bitmap, max_available_pages)
  IN  /\ pmm_alloc_page(frame_real * PAGE_SIZE)
      /\ ram' = [ram EXCEPT ![frame_real + 1] = pagina]
      /\ real' = [real EXCEPT ![pagina] = frame_real]

\* A frame from the PMM, and the page copied into it through the temporary
\* window.  The result of pmm_alloc_page is not looked at: 0 is frame 0.
LoadPage(pagina) ==
  LET frame_real == FirstFree(bitmap, max_available_pages)
  IN  /\ pmm_alloc_page(frame_real * PAGE_SIZE)
      /\ ram' = [ram EXCEPT ![frame_real] = pagina]
      /\ real' = [real EXCEPT ![pagina] = frame_real]

\* Mutant: the counter of frames stays behind.
PageFaultSameFrame(pagina) ==
  /\ page_faults' = page_faults + 1
  /\ LoadPage(pagina)
  /\ tabela_paginas' = [tabela_paginas EXCEPT ![pagina] =
                          [frame |-> proximo_frame, valido |-> 1]]
  /\ UNCHANGED proximo_frame

\* Mutant: the entry of the page table does not become valid.
PageFaultInvalid(pagina) ==
  /\ page_faults' = page_faults + 1
  /\ LoadPage(pagina)
  /\ tabela_paginas' = [tabela_paginas EXCEPT ![pagina].frame = proximo_frame]
  /\ proximo_frame' = (proximo_frame + 1) % UCHAR

PageFault(pagina) ==
  /\ page_faults' = page_faults + 1
  /\ LoadPage(pagina)
  /\ tabela_paginas' = [tabela_paginas EXCEPT ![pagina] =
                          [frame |-> proximo_frame, valido |-> 1]]
  /\ proximo_frame' = (proximo_frame + 1) % UCHAR

NoFault ==
  UNCHANGED <<page_faults, bitmap, max_available_pages, ram, real, tabela_paginas,
              proximo_frame>>

traduzir_hit(endereco) ==
  LET frame == tlb_lookup(Pagina(endereco))
  IN  /\ frame # -1
      /\ total' = total + 1
      /\ tlb_hits' = tlb_hits + 1
      /\ saida' = frame * SIM_PAGE_SIZE + Offset(endereco)
      /\ NoFault
      /\ UNCHANGED tlbVars

traduzir_miss(endereco) ==
  LET pagina == Pagina(endereco)
  IN  /\ tlb_lookup(pagina) = -1
      /\ total' = total + 1
      /\ IF tabela_paginas[pagina].valido = 0 THEN PageFault(pagina) ELSE NoFault
      /\ tlb_insert(pagina, tabela_paginas'[pagina].frame)
      /\ saida' = tabela_paginas'[pagina].frame * SIM_PAGE_SIZE + Offset(endereco)
      /\ UNCHANGED tlb_hits

traduzir_endereco(endereco) == traduzir_hit(endereco) \/ traduzir_miss(endereco)

----------------------------------------------------------------------------
Valid == {p \in Pages : tabela_paginas[p].valido = 1}

SimTypeOK ==
  /\ tlb \in [Entries -> [numero_pagina : Pages, numero_frame : 0 .. UCHAR - 1,
                          valido : {0, 1}]]
  /\ proxima_posicao \in Entries
  /\ tabela_paginas \in [Pages -> [frame : 0 .. UCHAR - 1, valido : {0, 1}]]
  /\ {page_faults, tlb_hits, total, saida} \subseteq Nat
  /\ proximo_frame \in 0 .. UCHAR - 1
  /\ ram \in [0 .. MAX_PAGES - 1 -> Pages \cup {Nothing}]
  /\ real \in [Pages -> 0 .. MAX_PAGES - 1 \cup {Nothing}]

\* The TLB never contradicts the page table: a valid entry is for a page whose
\* page-table entry is valid and has the same frame, and no page has two.
TLBCoherent ==
  /\ \A i \in Entries :
       tlb[i].valido = 1 =>
         /\ tabela_paginas[tlb[i].numero_pagina].valido = 1
         /\ tabela_paginas[tlb[i].numero_pagina].frame = tlb[i].numero_frame
  /\ \A p \in Pages : \A i, j \in Entries :
       /\ tlb[i].valido = 1 /\ tlb[i].numero_pagina = p
       /\ tlb[j].valido = 1 /\ tlb[j].numero_pagina = p
       => i = j

\* Two pages never share a frame number, although proximo_frame wraps to 0
\* when the last page has faulted.
FramesDistinct ==
  \A p, q \in Valid :
    tabela_paginas[p].frame = tabela_paginas[q].frame => p = q

\* The statistics: a page faults once, so faults count the pages touched; an
\* access is a hit, or a fault, or found in the page table.
StatisticsAddUp ==
  /\ page_faults = Cardinality(Valid)
  /\ page_faults + tlb_hits <= total

\* The copy of a page stays in the frame of the machine the PMM gave for it:
\* no later fault overwrites it, as long as the PMM has frames to give.
CopiesIntact ==
  \A p \in Valid : real[p] # 0 => ram[real[p]] = p

\* The page of the last address: the one whose frame was logged.
Accessed ==
  IF total = 0 THEN Nothing
  ELSE CHOOSE p \in Valid : tabela_paginas[p].frame = saida \div SIM_PAGE_SIZE

Cache == INSTANCE FIFOCache WITH
  Size <- TLB_SIZE, NoPage <- Nothing,
  queue <- TLBQueue, hits <- tlb_hits, accesses <- total, page <- Accessed

\* The circular array is a FIFO cache of TLB_SIZE pages: an access is a hit when
\* such a cache has its page, and a miss replaces the page that came first.
TLBIsFIFO == Cache!Spec

Paging == INSTANCE DemandPaging WITH
  PageSize <- SIM_PAGE_SIZE, faults <- page_faults, output <- saida,
  frame <- [p \in Valid |-> tabela_paginas[p].frame]

\* The TLB is transparent: addresses are translated as if it were not there.
TranslatesAsDemandPaging == Paging!Spec
=============================================================================
