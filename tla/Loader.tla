------------------------------- MODULE Loader -------------------------------
(***************************************************************************)
(* loader.s, from GRUB's jump to the call of kmain: the boot page table    *)
(* and directory are filled in, paging is turned on under the feet of the  *)
(* code that does it, and the mapping it stood on is taken away.  Then the *)
(* kernel of VMMSpec runs on what the loader left.                         *)
(***************************************************************************)
EXTENDS VMMSpec

CONSTANTS CODE, DIRECTORY, STACK   \* the frames the linker placed these in

ASSUME LoaderConstants ==
  /\ {CODE, DIRECTORY, STACK, BOOT_TABLE} \subseteq 0 .. PTES - 2  \* below the window
  /\ BOOT_TABLE \notin {CODE, DIRECTORY, STACK}

VARIABLES
  pc,       \* the instructions that are next
  esi,      \* the page of the next entry of boot_page_table
  cr3, paging,
  eip, esp  \* the pages of the instruction and of the stack, NoPage if none

loaderVars == <<pc, esi, cr3, paging, eip, esp>>
allVars == <<vars, loaderVars>>

NoPage == <<-1, -1>>

\* PHY(addr) and addr: a page the linker placed in that frame.
PHY(frame) == <<0, frame>>
Linked(frame) == <<KERNEL_PDE, frame>>

\* .bss is zero; what the other frames hold does not matter.
LoaderInit ==
  /\ entries = [d \in {Boot} |-> [i \in 0 .. PDES - 1 |-> Zero]]
  /\ table = Cleared(LoaderTable, BOOT_TABLE)
  /\ cached = [p \in VPages |-> NoFrame]
  /\ invalidated = {} /\ heap_pages = 0 /\ created = {}
  /\ bitmap = {} /\ max_available_pages = 0
  /\ pc = "map_loop" /\ esi = 0
  /\ cr3 = NoFrame /\ paging = FALSE
  /\ eip = PHY(CODE) /\ esp = NoPage

\* The frames an access to a page may reach: by the cache, or by the walk.
Reached(page) ==
  IF paging THEN {Walk(Boot, page), cached[page]} \ {NoFrame}
  ELSE IF page[1] = 0 THEN {page[2]} ELSE {}

\* Mutant: the entries are present only, not writable.
map_loop_read_only ==
  /\ pc = "map_loop"
  /\ table' = [table EXCEPT ![BOOT_TABLE][esi] = Entry(esi, {"P"})]
  /\ esi' = esi + 1
  /\ pc' = IF esi' < PTES THEN pc ELSE "directory"
  /\ UNCHANGED <<entries, cached, invalidated, cr3, paging, eip, esp>>

map_loop ==
  /\ pc = "map_loop"
  /\ table' = [table EXCEPT ![BOOT_TABLE][esi] = Entry(esi, {"P", "W"})]
  /\ esi' = esi + 1
  /\ pc' = IF esi' < PTES THEN pc ELSE "directory"
  /\ UNCHANGED <<entries, cached, invalidated, cr3, paging, eip, esp>>

fill_directory ==
  /\ pc = "directory"
  /\ entries' = [entries EXCEPT ![Boot] = [i \in 0 .. PDES - 1 |->
       IF i \in {0, KERNEL_PDE} THEN Entry(BOOT_TABLE, {"P", "W"}) ELSE @[i]]]
  /\ pc' = "cr0"
  /\ UNCHANGED <<table, cached, invalidated, esi, cr3, paging, eip, esp>>

enable_paging ==
  /\ pc = "cr0"
  /\ cr3' = DIRECTORY /\ paging' = TRUE
  /\ pc' = "jmp"
  /\ UNCHANGED <<entries, table, cached, invalidated, esi, eip, esp>>

\* Mutant: a jump relative to where the code runs.
jmp_higher_half_near ==
  /\ pc = "jmp"
  /\ pc' = "higher_half"
  /\ UNCHANGED <<entries, table, cached, invalidated, esi, cr3, paging, eip, esp>>

jmp_higher_half ==
  /\ pc = "jmp"
  /\ eip' = Linked(CODE)
  /\ pc' = "higher_half"
  /\ UNCHANGED <<entries, table, cached, invalidated, esi, cr3, paging, esp>>

\* Entry 0 is cleared, through its linked address; invlpg names page 0 alone.
higher_half ==
  /\ pc = "higher_half"
  /\ Reached(Linked(DIRECTORY)) = {DIRECTORY}
  /\ entries' = [entries EXCEPT ![Boot][0] = Zero]
  /\ Invlpg({<<0, 0>>})
  /\ pc' = "esp"
  /\ UNCHANGED <<table, esi, cr3, paging, eip, esp>>

call_kmain ==
  /\ pc = "esp"
  /\ esp' = Linked(STACK)
  /\ pc' = "kmain"
  /\ UNCHANGED <<entries, table, cached, invalidated, esi, cr3, paging, eip>>

LoaderStep ==
  /\ \/ map_loop \/ fill_directory \/ enable_paging \/ jmp_higher_half
     \/ higher_half \/ call_kmain
  /\ UNCHANGED <<pmmVars, heap_pages, created>>

\* pmm_init; then testar_pmm opens the window once and closes it.
kmain ==
  /\ pc = "kmain"
  /\ bitmap' = Reserved /\ max_available_pages' = Available
  /\ table' = WindowClosed(table)
  /\ Invlpg({Temp})
  /\ pc' = "kernel"
  /\ UNCHANGED <<entries, heap_pages, created, esi, cr3, paging, eip, esp>>

LoaderNext ==
  \/ LoaderStep \/ kmain
  \/ paging /\ UNCHANGED loaderVars /\ \E page \in TLBPages : Fill(page)
  \/ pc = "kernel" /\ UNCHANGED loaderVars /\ Next

LoaderSpec == LoaderInit /\ [][LoaderNext]_allVars

----------------------------------------------------------------------------
\* Whatever the cache holds, each instruction is fetched from the kernel's code
\* and each push goes to its stack, also at the moment paging is turned on and
\* after the identity mapping is gone (loader.s:57-95).
StandsOnItsFeet ==
  /\ Reached(eip) = {CODE}
  /\ esp # NoPage => Reached(esp) = {STACK}

\* The VMM modules start from what the loader leaves: when the heap's set-up
\* begins, tables and window are those of AfterTestarPMM, and the cache holds, but
\* for the kernel's mapping, only what is left of the identity mapping.
LeavesBootSpace ==
  pc = "kernel" /\ heap_pages = 0 =>
    /\ cr3 = DIRECTORY
    /\ entries = [d \in {Boot} |-> LoaderDirectory]
    /\ table = WindowClosed(LoaderTable)
    /\ \A p \in VPages \ KernelVPages :
         cached[p] # NoFrame => p \in LoaderPages /\ cached[p] = p[2]

\* CacheCoherent, once the identity mapping is gone.
StaleOnlyFromLoader == pc \in {"esp", "kmain", "kernel"} => CacheCoherent
============================================================================
