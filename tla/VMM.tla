-------------------------------- MODULE VMM --------------------------------
(***************************************************************************)
(* The virtual memory manager, vmm.c, with the paging structures loader.s  *)
(* leaves and the heap pages kheap_init maps (kheap.c:25-32): page         *)
(* directories, page tables in frames of the machine, and the processor's  *)
(* cache of translations, filled at any time and emptied by invlpg.        *)
(*                                                                         *)
(* The functions run with nothing else touching these structures, so each  *)
(* is one step; the temporary window (boot_page_table's last entry) is     *)
(* open only inside a step.                                                *)
(***************************************************************************)
EXTENDS PMM

CONSTANTS
  PDES,         \* entries of a directory                         (1024)
  PTES,         \* entries of a table                             (1024)
  KERNEL_PDE,   \* the first entry of the kernel's part           (768)
  BOOT_TABLE,   \* the frame boot_page_table is in
  HEAP_PAGES,   \* HEAP_INITIAL_PAGES                             (64)
  Boot,         \* boot_page_directory
  Dirs          \* the directories vmm_create_page_directory can make

ASSUME VMMConstants ==
  /\ {PDES, PTES} \subseteq Nat \ {0}
  /\ PTES <= MAX_PAGES
  /\ KERNEL_PDE \in 1 .. PDES - 2
  /\ BOOT_TABLE \in 1 .. MAX_PAGES - 1
  /\ HEAP_PAGES \in 1 .. (PDES - KERNEL_PDE - 1) * PTES
  /\ Boot \notin Dirs

VARIABLES
  entries,      \* directories in use -> index -> entry
  table,        \* frame -> index -> entry: the frames' words, as entries
  cached,       \* the TLB: page -> the frame it is cached with, NoFrame if not
  invalidated,  \* ghost: the pages invlpg was executed for
  heap_pages,   \* iterations of kheap_init's loop done
  created       \* directories made so far: an identifier is not used twice

vmmVars == <<entries, table, cached, invalidated, heap_pages, created>>

NoFrame == -1

\* An entry is a frame and the flags VMM_FLAG_PRESENT, _WRITE and _USER.
Entry(frame, flags) == [frame |-> frame, flags |-> flags]
Zero == Entry(0, {})
Present(e) == "P" \in e.flags

Frames == 0 .. MAX_PAGES - 1

\* A virtual page is its pair of indices, PDE_INDEX and PTE_INDEX.
VPages == (0 .. PDES - 1) \X (0 .. PTES - 1)
KernelVPages == {p \in VPages : p[1] >= KERNEL_PDE}
Temp == <<KERNEL_PDE, PTES - 1>>      \* TEMP_PAGE_ADDRESS

\* The heap's i-th page, counted from 0, from KHEAP_START on.
HeapPage(i) == <<KERNEL_PDE + 1 + i \div PTES, i % PTES>>

\* What the processor's walk finds.
Walk(dir, page) ==
  LET pde == entries[dir][page[1]]
      pte == table[pde.frame][page[2]]
  IN  IF Present(pde) /\ Present(pte) THEN pte.frame ELSE NoFrame

----------------------------------------------------------------------------
(* The window: a word of the machine is written through boot_page_table's   *)
(* last entry, which is zero again when the step ends.                      *)

\* The frames after table frame t is zeroed.
Cleared(words, t) == [words EXCEPT ![t] = [i \in 0 .. PTES - 1 |-> Zero]]

WindowClosed(words) == [words EXCEPT ![BOOT_TABLE][PTES - 1] = Zero]

Invlpg(pages) ==
  /\ cached' = [p \in VPages |-> IF p \in pages THEN NoFrame ELSE cached[p]]
  /\ invalidated' = invalidated \cup pages

\* Mutant: an old table's words stay in the frame of the new one.
TableForUncleared(dir, pde, flags, b) ==
  IF Present(entries[dir][pde])
  THEN [entry |-> entries[dir][pde], words |-> table, bitmap |-> b]
  ELSE LET t == FirstFree(b, max_available_pages)
       IN  [entry |-> Entry(t, {"P"} \cup flags), words |-> table,
            bitmap |-> Taken(b, max_available_pages)]

\* Mutant: the frame of a new table is not marked as used.
TableForNotTaken(dir, pde, flags, b) ==
  IF Present(entries[dir][pde])
  THEN [entry |-> entries[dir][pde], words |-> table, bitmap |-> b]
  ELSE LET t == FirstFree(b, max_available_pages)
       IN  [entry |-> Entry(t, {"P"} \cup flags), words |-> Cleared(table, t),
            bitmap |-> b]

\* Mutant: a frame is asked for before the look at the entry.
TableForAskedFirst(dir, pde, flags, b) ==
  LET t     == FirstFree(b, max_available_pages)
      after == Taken(b, max_available_pages)
  IN  IF Present(entries[dir][pde])
      THEN [entry |-> entries[dir][pde], words |-> table, bitmap |-> after]
      ELSE [entry |-> Entry(t, {"P"} \cup flags), words |-> Cleared(table, t),
            bitmap |-> after]

\* The directory entry for index pde, the words and the bitmap after vmm_map
\* has seen to it that there is a table.  pmm_alloc_page's result is not
\* looked at: without a free frame the table is frame 0.
TableFor(dir, pde, flags, b) ==
  IF Present(entries[dir][pde])
  THEN [entry |-> entries[dir][pde], words |-> table, bitmap |-> b]
  ELSE LET t == FirstFree(b, max_available_pages)
       IN  [entry |-> Entry(t, {"P"} \cup flags), words |-> Cleared(table, t),
            bitmap |-> Taken(b, max_available_pages)]

\* b: the bitmap at the time of the call.
vmm_map(dir, page, frame, flags, b) ==
  LET got == TableFor(dir, page[1], flags, b)
  IN  /\ entries' = [entries EXCEPT ![dir][page[1]] = got.entry]
      /\ bitmap' = got.bitmap
      /\ table' = WindowClosed([got.words EXCEPT ![got.entry.frame][page[2]] =
                                  Entry(frame, {"P"} \cup flags)])
      /\ Invlpg({page, Temp})
      /\ UNCHANGED max_available_pages

\* Mutant: no invlpg for the page.
vmm_unmap_stale(dir, page) ==
  LET pde == entries[dir][page[1]]
  IN  /\ IF Present(pde)
         THEN /\ table' = WindowClosed([table EXCEPT ![pde.frame][page[2]] = Zero])
              /\ Invlpg({Temp})
         ELSE UNCHANGED <<table, cached, invalidated>>
      /\ UNCHANGED <<entries, pmmVars>>

vmm_unmap(dir, page) ==
  LET pde == entries[dir][page[1]]
  IN  /\ IF Present(pde)
         THEN /\ table' = WindowClosed([table EXCEPT ![pde.frame][page[2]] = Zero])
              /\ Invlpg({page, Temp})
         ELSE UNCHANGED <<table, cached, invalidated>>
      /\ UNCHANGED <<entries, pmmVars>>

\* Mutant: the copy of the kernel's entries starts one too late.
NewDirectoryShort ==
  [i \in 0 .. PDES - 1 |-> IF i > KERNEL_PDE THEN entries[Boot][i] ELSE Zero]

NewDirectory ==
  [i \in 0 .. PDES - 1 |-> IF i >= KERNEL_PDE THEN entries[Boot][i] ELSE Zero]

\* The kmalloc inside may fail: then 0 is returned and nothing changes.
vmm_create_page_directory(dir) ==
  /\ entries' = [d \in DOMAIN entries \cup {dir} |->
                   IF d = dir THEN NewDirectory ELSE entries[d]]
  /\ UNCHANGED <<table, cached, invalidated, pmmVars>>

\* The directory goes; its tables stay allocated, as the comment says.
vmm_destroy_page_directory(dir) ==
  /\ entries' = [d \in DOMAIN entries \ {dir} |-> entries[d]]
  /\ UNCHANGED <<table, cached, invalidated, pmmVars>>

----------------------------------------------------------------------------
\* Mutant: the frame of the page is not marked as used.
kheap_init_page_untaken ==
  LET pagina_fisica == FirstFree(bitmap, max_available_pages)
  IN  vmm_map(Boot, HeapPage(heap_pages), pagina_fisica, {"W"}, bitmap)

\* One iteration of the loop of kheap_init.  Here too 0 is frame 0.
kheap_init_page ==
  LET pagina_fisica == FirstFree(bitmap, max_available_pages)
  IN  vmm_map(Boot, HeapPage(heap_pages), pagina_fisica, {"W"},
              Taken(bitmap, max_available_pages))

\* What loader.s leaves: boot_page_table maps the first frames to the start of
\* the kernel's part, and the directory's entry 0, which mapped them to page 0
\* as well, is cleared again.  Frames hold anything: here, entries that look
\* present.
LoaderTable ==
  [f \in Frames |->
     [i \in 0 .. PTES - 1 |->
        IF f = BOOT_TABLE THEN Entry(i, {"P", "W"})
                          ELSE Entry(MAX_PAGES - 1, {"P", "W", "U"})]]

LoaderDirectory ==
  [i \in 0 .. PDES - 1 |->
     IF i = KERNEL_PDE THEN Entry(BOOT_TABLE, {"P", "W"}) ELSE Zero]

\* The paging structures when kheap_init starts: testar_pmm has opened the
\* window once and closed it.
AfterTestarPMM ==
  /\ entries = [d \in {Boot} |-> LoaderDirectory]
  /\ table = WindowClosed(LoaderTable)
  /\ invalidated = {Temp}

\* The pages whose translation through entry 0 the processor may still hold:
\* the loader executes invlpg for page 0 only (loader.s:68-69).
LoaderPages == {p \in VPages : p[1] = 0 /\ p[2] # 0}
============================================================================
