-------------------------------- MODULE PMM --------------------------------
(***************************************************************************)
(* The physical page-frame allocator of pmm.c: one bit per frame, set when *)
(* the frame must not be handed out, and a first-fit search.               *)
(*                                                                         *)
(* The bitmap is the set of the frames whose bit is set.  The search and   *)
(* the update are operators on a bitmap value, so that a caller which      *)
(* allocates and then goes on working in the same call can be one action.  *)
(***************************************************************************)
EXTENDS Integers, FiniteSetsExt

CONSTANTS
  PAGE_SIZE,  \* bytes in a frame                              (4096)
  MAX_PAGES,  \* bits in the bitmap                            (32768)
  KB,         \* bytes in the unit mem_upper is counted in     (1024)
  LOW_KB,     \* those units below the "first megabyte"        (1024)
  UINT        \* 2^w, w the width of unsigned int              (2^32)

ASSUME PMMConstants ==
  /\ {PAGE_SIZE, MAX_PAGES, KB, LOW_KB, UINT} \subseteq Nat \ {0}
  /\ LOW_KB * KB >= PAGE_SIZE            \* 0x100000 bytes are ...
  /\ (LOW_KB * KB) % PAGE_SIZE = 0       \* ... a whole number of frames

VARIABLES
  bitmap,               \* frames whose bit is set in memory_bitmap
  max_available_pages   \* frames of the machine, as pmm_init counts them

pmmVars == <<bitmap, max_available_pages>>

FirstMBFrames == (LOW_KB * KB) \div PAGE_SIZE

Frame(address) == address \div PAGE_SIZE

\* Mutant: the reservation starts after the frame the image begins in.
ImageFramesLate(start, end) == Frame(start) + 1 .. (Frame(end) + 1)

\* The frames pmm_init reserves for an image in the bytes start .. end: up to
\* and including the frame after the one that holds byte "end".
ImageFrames(start, end) == Frame(start) .. (Frame(end) + 1)

\* boot: what GRUB and the linker script tell kmain, as a record of
\*   has_mem, mem_upper          the MULTIBOOT_FLAG_MEM bit and the field
\*   has_mods, modules           the MULTIBOOT_FLAG_MODS bit and the array, a
\*                               set of [mod_start, mod_end]
\*   kp_start, kp_end            kernel_physical_start and _end
\* Mutant of CountedPages: no clamp to the bitmap.
CountedPagesUnclamped(boot) ==
  ((((boot.mem_upper + LOW_KB) % UINT) * KB) % UINT) \div PAGE_SIZE

CountedPages(boot) ==
  LET total_kb == (boot.mem_upper + LOW_KB) % UINT
      pages    == ((total_kb * KB) % UINT) \div PAGE_SIZE
  IN  IF pages > MAX_PAGES THEN MAX_PAGES ELSE pages

ReservedFrames(boot) ==
  LET mods == IF boot.has_mods THEN boot.modules ELSE {}
  IN  (0 .. FirstMBFrames - 1)
        \cup ImageFrames(boot.kp_start, boot.kp_end)
        \cup UNION {ImageFrames(m.mod_start, m.mod_end) : m \in mods}

\* The static storage before pmm_init runs.
PMMZeroed == bitmap = {} /\ max_available_pages = 0

pmm_init(boot) ==
  \/ /\ boot.has_mem
     /\ max_available_pages' = CountedPages(boot)
     /\ bitmap' = ReservedFrames(boot)
  \/ /\ ~boot.has_mem            \* logs an error and returns
     /\ UNCHANGED pmmVars

----------------------------------------------------------------------------
\* The search of pmm_alloc_page in bitmap b of a machine with n frames.  The
\* frame number 0 stands for the result 0: no frame was found.
FreeFrames(b, n) == {i \in FirstMBFrames .. (n - 1) : i \notin b}

FirstFree(b, n) == IF FreeFrames(b, n) = {} THEN 0 ELSE Min(FreeFrames(b, n))

\* The bitmap pmm_alloc_page leaves.
Taken(b, n) ==
  IF FreeFrames(b, n) = {} THEN b ELSE b \cup {FirstFree(b, n)}

pmm_alloc_page(address) ==
  /\ address = FirstFree(bitmap, max_available_pages) * PAGE_SIZE
  /\ bitmap' = Taken(bitmap, max_available_pages)
  /\ UNCHANGED max_available_pages

\* Mutant: the frame after the one that is given back becomes free.
pmm_free_page_next(address) ==
  /\ bitmap' = bitmap \ {Frame(address) + 1}
  /\ UNCHANGED max_available_pages

pmm_free_page(address) ==
  /\ bitmap' = bitmap \ {Frame(address)}
  /\ UNCHANGED max_available_pages
============================================================================
