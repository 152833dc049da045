------------------------------ MODULE Startup ------------------------------
(***************************************************************************)
(* kmain as a caller of the allocator: who uses which frame of the machine *)
(* from pmm_init to the jump into the module.  testar_pmm, kheap_init and  *)
(* the simulator take frames one after the other, and none of them looks   *)
(* at its result: 0, the refusal, is frame 0 to them.  (How they use what  *)
(* they get is in VMM, KHeap and MMUSim.)  Its steps are steps of PMMSpec, *)
(* whose callers in any order are the other behaviours of this module.     *)
(***************************************************************************)
EXTENDS PMMSpec

CONSTANTS
  HEAP_PAGES,  \* HEAP_INITIAL_PAGES, mapped through one page table  (64)
  PAGES        \* page faults of the simulator                       (244)

ASSUME StartupConstants == {HEAP_PAGES, PAGES} \subseteq Nat \ {0}

\* link.ld places the kernel at 1 MB, and GRUB loads nothing at address 0.
ASSUME ImagesAboveFrame0 ==
  \A b \in BootInfos :
    /\ b.kp_start >= PAGE_SIZE
    /\ \A m \in b.modules : m.mod_start >= PAGE_SIZE

VARIABLES
  pc,      \* the call of kmain that is next; "any" for other callers
  i,       \* how many frames it has taken
  users    \* frame -> what it was used for

kmainVars == <<pc, i, users>>

StartupInit ==
  /\ Init
  /\ pc \in {"pmm_init", "any"} /\ i = 0
  /\ users = [f \in 0 .. MAX_PAGES - 1 |-> {}]

\* The frame that was asked for is used, whatever the answer.
Use(use) == users' = [users EXCEPT ![Frame(ret')] = @ \cup {<<use, i>>}]

\* A caller takes n frames one by one, and goes on to the next.
Takes(call, use, n, next) ==
  /\ pc = call
  /\ Alloc
  /\ Use(use)
  /\ i' = (i + 1) % n
  /\ pc' = IF i' = 0 THEN next ELSE pc

kmain_pmm_init ==
  /\ pc = "pmm_init"
  /\ Boot
  /\ pc' = "testar_pmm"
  /\ UNCHANGED <<i, users>>

\* One page is taken and written through the window ...
testar_pmm == Takes("testar_pmm", "test", 1, "pmm_free_page")

\* Mutant: it is kept.
testar_pmm_kept ==
  /\ pc = "pmm_free_page"
  /\ pc' = "kheap_init"
  /\ UNCHANGED <<vars, i, users>>

\* ... and given back, also when it is no page.
testar_pmm_free ==
  /\ pc = "pmm_free_page"
  /\ IF ret = 0 THEN FreeFailed ELSE Free(Frame(ret))
  /\ pc' = "kheap_init"
  /\ UNCHANGED <<i, users>>

\* Mutant: the table gets no frame of its own.
kheap_init_shared ==
  /\ pc = "kheap_init"
  /\ Alloc
  /\ users' = [users EXCEPT ![Frame(ret')] =
                 @ \cup {<<"heap", i>>} \cup (IF i = 0 THEN {<<"table", i>>} ELSE {})]
  /\ i' = (i + 1) % HEAP_PAGES
  /\ pc' = IF i' = 0 THEN "simulador" ELSE pc

\* After the first page, vmm_map takes a frame for the table of all of them.
kheap_init ==
  /\ pc = "kheap_init"
  /\ Alloc
  /\ Use(IF i = 1 THEN "table" ELSE "heap")
  /\ i' = (i + 1) % (HEAP_PAGES + 1)
  /\ pc' = IF i' = 0 THEN "simulador" ELSE pc

\* A page fault: the page is copied into a frame.
traduzir_endereco == Takes("simulador", "copy", PAGES, "run_first_module")

\* From here on kmain asks for no frame.  Without a module it halts.
run_first_module ==
  /\ pc = "run_first_module"
  /\ pc' = IF Modules(boot) # {} THEN "module" ELSE "hlt"
  /\ UNCHANGED <<vars, i, users>>

Halted == pc \in {"module", "hlt"} /\ UNCHANGED <<vars, kmainVars>>

OtherCallers ==
  /\ pc = "any"
  /\ Next
  /\ UNCHANGED kmainVars

StartupNext ==
  \/ kmain_pmm_init \/ testar_pmm \/ testar_pmm_free \/ kheap_init
  \/ traduzir_endereco \/ run_first_module \/ Halted
  \/ OtherCallers

StartupSpec == StartupInit /\ [][StartupNext]_<<vars, kmainVars>>

----------------------------------------------------------------------------
\* The frames an image has bytes in.
Occupied(start, end) == Frame(start) .. Frame(end)

Images ==
  Occupied(boot.kp_start, boot.kp_end - 1)
    \cup UNION {Occupied(m.mod_start, m.mod_end) : m \in Modules(boot)}

\* Nobody was given a frame with bytes of the kernel or of a module.
ImagesIntact ==
  boot.has_mem => \A f \in Images \cap DOMAIN users : users[f] = {}

\* No frame but 0 serves two purposes; the test's use is over.
OneUseEach ==
  \A f \in DOMAIN users \ {0} : Cardinality(users[f] \ {<<"test", 0>>}) <= 1

\* However little memory there is, kernel and modules are as GRUB loaded them when
\* the module is entered, and no two parts of kmain write to the same frame, but
\* for frame 0, which stands for a refused request.
FramesApart == ImagesIntact /\ OneUseEach

\* Frames enough for the heap, its table and the simulator are enough for all
\* of kmain: the first megabyte is not touched.
EnoughIsEnough ==
  Cardinality(Pool) >= HEAP_PAGES + 1 + PAGES =>
    \A f \in 0 .. FirstMBFrames - 1 : users[f] = {}
============================================================================
