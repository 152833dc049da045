------------------------------ MODULE VMMSpec ------------------------------
(***************************************************************************)
(* The virtual memory manager in use, from the end of testar_pmm on:       *)
(* kheap_init maps the heap, then the kernel makes and destroys            *)
(* directories and maps pages of the user part.  (Its kernel part is       *)
(* complete by then: nothing maps there again.)                            *)
(***************************************************************************)
EXTENDS VMM

CONSTANTS
  Reserved,     \* the bitmap pmm_init leaves
  Available,    \* the frames pmm_init counted
  DataFrames,   \* the frames callers map
  FlagSets,     \* the flags they give
  TLBPages      \* the pages whose caching is considered

ASSUME VMMSpecConstants ==
  /\ Reserved \subseteq Frames /\ Available \in 0 .. MAX_PAGES
  /\ 0 .. FirstMBFrames - 1 \subseteq Reserved /\ BOOT_TABLE \in Reserved
  /\ DataFrames \subseteq Reserved /\ BOOT_TABLE \notin DataFrames
  /\ \A flags \in FlagSets : flags \subseteq {"W", "U"}

vars == <<pmmVars, vmmVars>>

Init ==
  /\ bitmap = Reserved
  /\ max_available_pages = Available
  /\ AfterTestarPMM
  /\ \E held \in SUBSET (LoaderPages \cap TLBPages) :
       cached = [p \in VPages |-> IF p \in held THEN p[2] ELSE NoFrame]
  /\ heap_pages = 0
  /\ created = {}

KheapInitPage ==
  /\ heap_pages < HEAP_PAGES
  /\ kheap_init_page
  /\ heap_pages' = heap_pages + 1
  /\ UNCHANGED created

HeapReady == heap_pages = HEAP_PAGES

Create(dir) ==
  /\ HeapReady /\ dir \in Dirs \ created
  /\ vmm_create_page_directory(dir)
  /\ created' = created \cup {dir}
  /\ UNCHANGED heap_pages

Destroy(dir) ==
  /\ dir \in DOMAIN entries \ {Boot}
  /\ vmm_destroy_page_directory(dir)
  /\ UNCHANGED <<heap_pages, created>>

Map(dir, page) ==
  /\ HeapReady
  /\ \E frame \in DataFrames, flags \in FlagSets :
       vmm_map(dir, page, frame, flags, bitmap)
  /\ UNCHANGED <<heap_pages, created>>

Unmap(dir, page) ==
  /\ HeapReady
  /\ vmm_unmap(dir, page)
  /\ UNCHANGED <<heap_pages, created>>

\* The processor caches what the active directory, always Boot, says.
Fill(page) ==
  /\ Walk(Boot, page) # NoFrame
  /\ cached' = [cached EXCEPT ![page] = Walk(Boot, page)]
  /\ UNCHANGED <<entries, table, invalidated, heap_pages, created, pmmVars>>

UserVPages == VPages \ KernelVPages

Next ==
  \/ KheapInitPage
  \/ \E dir \in Dirs : Create(dir) \/ Destroy(dir)
  \/ \E dir \in DOMAIN entries, page \in UserVPages :
       Map(dir, page) \/ Unmap(dir, page)
  \/ \E page \in TLBPages : Fill(page)

Spec == Init /\ [][Next]_vars

----------------------------------------------------------------------------
\* The tables in use: a directory's entry in the user part, or Boot's.
TableSlots ==
  {s \in (DOMAIN entries) \X (0 .. PDES - 1) :
     /\ s[1] = Boot \/ s[2] < KERNEL_PDE
     /\ Present(entries[s[1]][s[2]])}

\* The pages of boot_page_table: the first frames of the machine, as loader.s maps
\* them for the kernel, whoever has them (loader.s:40-55).
LinearPages == {p \in VPages : p[1] = KERNEL_PDE}

\* Every table has a frame of its own, reserved in the PMM, and the kernel's linear
\* pages apart, which show it every low frame, no page maps that frame: no user
\* page and no page of the heap.  "alocamos uma pagina fisica nova" (vmm.c:68).
TablesExclusive ==
  LET frameOf(s) == entries[s[1]][s[2]].frame
  IN  /\ \A s, t \in TableSlots : frameOf(s) = frameOf(t) => s = t
      /\ \A s \in TableSlots :
           /\ frameOf(s) \in bitmap
           /\ \A d \in DOMAIN entries, p \in VPages \ LinearPages :
                Walk(d, p) # frameOf(s)

\* "Pede frames fisicos livres para comecar" (kheap.c:24): each page of the heap
\* has a frame of its own, that was free when kheap_init asked for it and is
\* nobody else's since: not a page table's, not mapped by any user page.
HeapFramesPrivate ==
  LET Heap       == {HeapPage(i) : i \in 0 .. heap_pages - 1}
      frameOf(p) == Walk(Boot, p)
  IN  /\ \A p, q \in Heap : frameOf(p) = frameOf(q) => p = q
      /\ \A p \in Heap :
           /\ frameOf(p) \in bitmap \ Reserved
           /\ \A s \in TableSlots : entries[s[1]][s[2]].frame # frameOf(p)
           /\ \A d \in DOMAIN entries, u \in UserVPages : Walk(d, u) # frameOf(p)

\* The tables vmm_map has made: those in use, and those of directories that are
\* gone, at most a user part's each: "Por enquanto basta liberar o diretorio"
\* (vmm.c:115), so their frames never come back.
TablesMade ==
  (TableSlots \ {<<Boot, KERNEL_PDE>>})
    \cup ((created \ DOMAIN entries) \X (0 .. KERNEL_PDE - 1))

\* The frames that are spent are pages of the heap and tables that were made: a
\* table is made once for the entry it is under, whatever is mapped and unmapped
\* there, and what a directory leaves behind when it goes is at most its tables.
FramesAccountedFor ==
  Cardinality(bitmap \ Reserved) <= heap_pages + Cardinality(TablesMade)

\* Nothing is mapped by the words a frame held before it became a table: a
\* page maps a caller's frame, or is one of the heap's, or of loader.s's.
OnlyWhatWasMapped ==
  \A d \in DOMAIN entries :
    /\ \A p \in UserVPages : Walk(d, p) \in DataFrames \cup {NoFrame}
    /\ \A p \in KernelVPages :
         p[1] > KERNEL_PDE =>
           (Walk(d, p) = NoFrame <=> p \notin {HeapPage(i) : i \in 0 .. heap_pages - 1})

\* The processor never uses a translation the tables do not hold, for any page
\* whose translation vmm.c changed; those loader.s left behind are the others.
CacheCoherent ==
  \A p \in VPages :
    \/ cached[p] \in {NoFrame, Walk(Boot, p)}
    \/ p \in LoaderPages \ invalidated /\ cached[p] = p[2]

Spaces == INSTANCE AddressSpaces WITH
  Spaces      <- {Boot} \cup Dirs,
  Pages       <- VPages \ {Temp},
  KernelPages <- KernelVPages \ {Temp},
  space       <- [d \in DOMAIN entries |-> [p \in VPages \ {Temp} |-> Walk(d, p)]]

\* Page p of space d gets frame f, and no page of any space changes but that.
Puts(d, p, f) ==
  \A t \in DOMAIN entries, q \in VPages :
    Walk(t, q)' = IF t = d /\ q = p THEN f ELSE Walk(t, q)

\* What vmm_map and vmm_unmap are asked, for a page of a process.
PutsWhatIsAsked ==
  \A d \in DOMAIN entries, p \in UserVPages :
    HeapReady /\ UNCHANGED <<heap_pages, created>> =>
      /\ \A frame \in DataFrames, flags \in FlagSets :
           vmm_map(d, p, frame, flags, bitmap) => Puts(d, p, frame)
      /\ vmm_unmap(d, p) => Puts(d, p, NoFrame)

\* Through directories and tables, callers see address spaces, of all pages but
\* the temporary window's (module AddressSpaces), in which vmm_map and vmm_unmap
\* do what they are asked.
AreAddressSpaces == Spaces!Spec /\ [][PutsWhatIsAsked]_vars

\* "Bit 1: Read-Write (1) ou Read-Only (0)", "Bit 2: Usuario/Ring 3 (1) ou
\* Kernel/Ring 0 (0)" (vmm.h:8-9): a page has the rights vmm_map was given for
\* it.  The processor grants a right that entry and directory entry both have.
RightsAsRequested ==
  \A d \in DOMAIN entries, p \in UserVPages :
    Walk(d, p) # NoFrame =>
      LET pde == entries[d][p[1]]
          pte == table[pde.frame][p[2]]
      IN  pde.flags \cap pte.flags = pte.flags
============================================================================
