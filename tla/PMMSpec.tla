------------------------------ MODULE PMMSpec ------------------------------
(***************************************************************************)
(* The allocator of PMM under the kernel's callers.  pmm_init runs once, at *)
(* boot; from then on callers ask for frames and give back frames they     *)
(* hold.  testar_pmm (kmain.c) gives back whatever pmm_alloc_page returned, *)
(* also the 0 of a failed request.  No interrupt handler calls the         *)
(* allocator, so calls do not interleave: each one is a step.              *)
(***************************************************************************)
EXTENDS PMM

CONSTANT BootInfos      \* the machines considered: see PMM for the fields

Installed(boot) == (boot.mem_upper + LOW_KB) * KB     \* bytes of memory

Modules(boot) == IF boot.has_mods THEN boot.modules ELSE {}

\* A machine GRUB boots: no image is empty, and the size of the memory fits an
\* unsigned int (below 4 GB: the hole for devices under it keeps mem_upper there).
ASSUME BootInfosAssumption ==
  \A boot \in BootInfos :
    /\ {boot.has_mem, boot.has_mods} \subseteq BOOLEAN
    /\ {boot.mem_upper, boot.kp_start, boot.kp_end} \subseteq Nat
    /\ boot.kp_start < boot.kp_end
    /\ \A m \in boot.modules :
         {m.mod_start, m.mod_end} \subseteq Nat /\ m.mod_start <= m.mod_end
    /\ Installed(boot) < UINT

VARIABLES
  boot,   \* the machine this behaviour runs on
  up,     \* pmm_init has run
  held,   \* the frames callers hold
  ret     \* the last result of pmm_alloc_page

NoCall == -1      \* no call yet

vars == <<bitmap, max_available_pages, boot, up, held, ret>>

Init ==
  /\ PMMZeroed
  /\ boot \in BootInfos
  /\ up = FALSE
  /\ held = {}
  /\ ret = NoCall

Boot ==
  /\ ~up
  /\ pmm_init(boot)
  /\ up' = TRUE
  /\ UNCHANGED <<boot, held, ret>>

Alloc ==
  /\ up
  /\ \E address \in {f * PAGE_SIZE : f \in 0 .. MAX_PAGES - 1} :
       /\ pmm_alloc_page(address)
       /\ ret' = address
       /\ held' = held \cup ({Frame(address)} \ {0})
  /\ UNCHANGED <<boot, up>>

\* A holder gives its frame back.
Free(f) ==
  /\ f \in held
  /\ pmm_free_page(f * PAGE_SIZE)
  /\ held' = held \ {f}
  /\ UNCHANGED <<boot, up, ret>>

\* testar_pmm after a failed request.
FreeFailed ==
  /\ ret = 0
  /\ pmm_free_page(ret)
  /\ UNCHANGED <<boot, up, held, ret>>

Next == Boot \/ Alloc \/ FreeFailed \/ \E f \in held : Free(f)

Spec == Init /\ [][Next]_vars

----------------------------------------------------------------------------
\* Every variable has its type; the search of pmm_alloc_page, bounded by
\* max_available_pages, stays inside memory_bitmap on machines with more memory
\* than the bitmap covers, and what callers hold is described by it.
TypeOK ==
  /\ boot \in BootInfos
  /\ up \in BOOLEAN
  /\ max_available_pages \in 0 .. MAX_PAGES
  /\ bitmap \subseteq Nat
  /\ held \subseteq 0 .. MAX_PAGES - 1
  /\ ret \in Nat \cup {NoCall}

\* The bytes of frame f.
Bytes(f) == f * PAGE_SIZE .. (f + 1) * PAGE_SIZE - 1

\* No frame a caller holds has a byte in common with the first megabyte, the
\* kernel or a GRUB module, whatever was freed before: also after testar_pmm
\* cleared the bit of frame 0, which pmm_alloc_page's search never looks at.
ImagesNeverGranted ==
  \A f \in held :
    /\ f * PAGE_SIZE >= LOW_KB * KB
    /\ Bytes(f) \cap (boot.kp_start .. boot.kp_end - 1) = {}
    /\ \A m \in Modules(boot) : Bytes(f) \cap (m.mod_start .. m.mod_end) = {}

\* Every frame a caller holds exists: all its bytes are memory the machine
\* reported to GRUB.
GrantedInRAM ==
  \A f \in held : boot.has_mem /\ (f + 1) * PAGE_SIZE <= Installed(boot)

\* A frame is clear of an image when it ends before the image or starts more
\* than a page after the image's last byte.
Clear(f, first, last) ==
  \/ (f + 1) * PAGE_SIZE <= first
  \/ f * PAGE_SIZE > last + PAGE_SIZE

\* The frames this machine could lend, from the memory map alone.
Pool ==
  {f \in 0 .. MAX_PAGES - 1 :
     /\ boot.has_mem
     /\ f * PAGE_SIZE >= LOW_KB * KB
     /\ (f + 1) * PAGE_SIZE <= Installed(boot)
     /\ Clear(f, boot.kp_start, boot.kp_end)
     /\ \A m \in Modules(boot) : Clear(f, m.mod_start, m.mod_end)}

Lender == INSTANCE FramePool WITH
  Frames   <- 0 .. MAX_PAGES - 1,
  NoAnswer <- NoCall,
  Refused  <- 0,
  pool     <- IF up THEN Pool ELSE {},
  lent     <- held,
  answer   <- IF ret = NoCall THEN NoCall ELSE Frame(ret),
  open     <- up

\* The allocator lends every frame of the memory map that is clear of the
\* images, to one holder at a time, and refuses a request only when all of
\* them are lent: no frame is lost, through any sequence of calls.
LendsThePool == Lender!Spec
============================================================================
