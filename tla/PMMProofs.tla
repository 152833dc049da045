----------------------------- MODULE PMMProofs -----------------------------
(***************************************************************************)
(* Proofs about PMMSpec: it keeps its invariants, and it implements        *)
(* FramePool, for every value of the constants PMMConstants and            *)
(* BootInfosAssumption allow.  And about Startup: kmain is one of the      *)
(* allocator's callers, the frames it is given are used for one purpose    *)
(* each, away from the images GRUB loaded, and when there are enough of    *)
(* them none of its requests is refused.                                   *)
(***************************************************************************)
EXTENDS Startup, LeastElement, TLAPS

----------------------------------------------------------------------------
(* Arithmetic *)

\* Frame f ends within the first x bytes exactly when f < x \div P.
LEMMA FrameBelow ==
  ASSUME NEW x \in Nat, NEW f \in Nat, NEW P \in Nat \ {0}
  PROVE  f < x \div P <=> (f + 1) * P <= x
OBVIOUS

\* Frame f starts after byte x exactly when f > x \div P.
LEMMA FrameAbove ==
  ASSUME NEW x \in Nat, NEW f \in Nat, NEW P \in Nat \ {0}
  PROVE  f > x \div P <=> f * P > x
OBVIOUS

\* A quotient of naturals is a natural.
LEMMA DivIsNat ==
  ASSUME NEW x \in Nat, NEW P \in Nat \ {0}
  PROVE  x \div P \in Nat
OBVIOUS

\* Frame undoes the multiplication by PAGE_SIZE.
LEMMA DivOfProduct ==
  ASSUME NEW f \in Nat, NEW P \in Nat \ {0}
  PROVE  (f * P) \div P = f
OBVIOUS

----------------------------------------------------------------------------
(* What boot establishes *)

\* The first megabyte is a positive whole number of frames.
LEMMA FirstMB ==
  /\ FirstMBFrames \in Nat \ {0}
  /\ \A f \in Nat : f >= FirstMBFrames <=> f * PAGE_SIZE >= LOW_KB * KB
<1> DEFINE low == LOW_KB * KB
<1>1. low \in Nat /\ PAGE_SIZE \in Nat \ {0} /\ low >= PAGE_SIZE
        /\ low % PAGE_SIZE = 0
  BY PMMConstants
<1> HIDE DEF low
<1>2. low = (low \div PAGE_SIZE) * PAGE_SIZE
  BY <1>1
<1>3. low \div PAGE_SIZE \in Nat \ {0}
  BY <1>1
<1>4. ASSUME NEW f \in Nat
      PROVE  f >= low \div PAGE_SIZE <=> f * PAGE_SIZE >= low
  <2> DEFINE q == low \div PAGE_SIZE
  <2>1. q \in Nat /\ low = q * PAGE_SIZE
    BY <1>2, <1>3
  <2> HIDE DEF q
  <2>2. f >= q <=> f * PAGE_SIZE >= q * PAGE_SIZE
    BY <2>1, <1>1
  <2> QED
    BY <2>1, <2>2 DEF q
<1> QED
  BY <1>3, <1>4 DEF low, FirstMBFrames

\* Without a wrap of unsigned int, CountedPages counts the frames of the
\* memory that the bitmap can describe.
LEMMA Counted ==
  ASSUME NEW b \in BootInfos
  PROVE  /\ CountedPages(b) \in 0 .. MAX_PAGES
         /\ \A f \in 0 .. MAX_PAGES - 1 :
              f < CountedPages(b) <=> (f + 1) * PAGE_SIZE <= Installed(b)
<1> DEFINE kb == b.mem_upper + LOW_KB
           pages == Installed(b) \div PAGE_SIZE
<1>1. /\ kb \in Nat /\ Installed(b) \in Nat /\ Installed(b) = kb * KB
      /\ Installed(b) < UINT /\ UINT \in Nat \ {0} /\ KB \in Nat \ {0}
      /\ PAGE_SIZE \in Nat \ {0} /\ MAX_PAGES \in Nat
  BY PMMConstants, BootInfosAssumption DEF Installed
<1> HIDE DEF kb
<1>2. kb < UINT
  <2>1. kb <= kb * KB
    BY <1>1
  <2> QED
    BY <2>1, <1>1
<1>3. kb % UINT = kb /\ (kb * KB) % UINT = kb * KB
  BY <1>1, <1>2
<1>4. CountedPages(b) = IF pages > MAX_PAGES THEN MAX_PAGES ELSE pages
  BY <1>1, <1>3 DEF CountedPages, kb
<1>5. pages \in Nat
  BY <1>1, DivIsNat
<1>6. \A f \in 0 .. MAX_PAGES - 1 :
        f < pages <=> (f + 1) * PAGE_SIZE <= Installed(b)
  <2> SUFFICES ASSUME NEW f \in 0 .. MAX_PAGES - 1
               PROVE  f < pages <=> (f + 1) * PAGE_SIZE <= Installed(b)
    OBVIOUS
  <2>1. f \in Nat
    BY <1>1
  <2> QED
    BY <2>1, <1>1, FrameBelow
<1> HIDE DEF pages
<1>7. CountedPages(b) \in 0 .. MAX_PAGES
  BY <1>1, <1>4, <1>5
<1>8. ASSUME NEW f \in 0 .. MAX_PAGES - 1
      PROVE  f < CountedPages(b) <=> f < pages
  BY <1>1, <1>4, <1>5
<1> QED
  BY <1>6, <1>7, <1>8

\* A frame is outside the reservation of an image exactly when it is clear of it.
LEMMA ImageClear ==
  ASSUME NEW first \in Nat, NEW last \in Nat, first <= last, NEW f \in Nat
  PROVE  f \notin ImageFrames(first, last) <=> Clear(f, first, last)
<1>1. PAGE_SIZE \in Nat \ {0}
  BY PMMConstants
<1>2. first \div PAGE_SIZE \in Nat /\ last \div PAGE_SIZE \in Nat
  BY <1>1, DivIsNat
<1>3. f < first \div PAGE_SIZE <=> (f + 1) * PAGE_SIZE <= first
  BY <1>1, FrameBelow
<1>4. f > (last \div PAGE_SIZE) + 1 <=> f * PAGE_SIZE > last + PAGE_SIZE
  <2>1. (last + PAGE_SIZE) \div PAGE_SIZE = (last \div PAGE_SIZE) + 1
    BY <1>1
  <2>2. f > (last + PAGE_SIZE) \div PAGE_SIZE <=> f * PAGE_SIZE > last + PAGE_SIZE
    BY <1>1, FrameAbove
  <2> QED
    BY <2>1, <2>2
<1> QED
  BY <1>2, <1>3, <1>4 DEF ImageFrames, Clear, Frame

\* What the memory map lets the machine lend is what pmm_init leaves free.
LEMMA PoolIsUnreserved ==
  ASSUME boot \in BootInfos
  PROVE  Pool = {f \in 0 .. MAX_PAGES - 1 :
                   /\ boot.has_mem
                   /\ FirstMBFrames <= f /\ f < CountedPages(boot)
                   /\ f \notin ReservedFrames(boot)}
<1> SUFFICES ASSUME NEW f \in 0 .. MAX_PAGES - 1
             PROVE  (/\ f * PAGE_SIZE >= LOW_KB * KB
                     /\ (f + 1) * PAGE_SIZE <= Installed(boot)
                     /\ Clear(f, boot.kp_start, boot.kp_end)
                     /\ \A m \in Modules(boot) :
                          Clear(f, m.mod_start, m.mod_end))
                    <=> (/\ FirstMBFrames <= f /\ f < CountedPages(boot)
                         /\ f \notin ReservedFrames(boot))
  BY DEF Pool
<1>1. f \in Nat /\ FirstMBFrames \in Nat
  BY PMMConstants, FirstMB
<1>2. f * PAGE_SIZE >= LOW_KB * KB <=> FirstMBFrames <= f
  BY <1>1, FirstMB
<1>3. (f + 1) * PAGE_SIZE <= Installed(boot) <=> f < CountedPages(boot)
  BY Counted
<1>4. Clear(f, boot.kp_start, boot.kp_end)
        <=> f \notin ImageFrames(boot.kp_start, boot.kp_end)
  <2>1. boot.kp_start \in Nat /\ boot.kp_end \in Nat
          /\ boot.kp_start <= boot.kp_end
    BY BootInfosAssumption
  <2> QED
    BY <2>1, <1>1, ImageClear
<1>5. ASSUME NEW m \in Modules(boot)
      PROVE  Clear(f, m.mod_start, m.mod_end)
               <=> f \notin ImageFrames(m.mod_start, m.mod_end)
  <2>1. m.mod_start \in Nat /\ m.mod_end \in Nat /\ m.mod_start <= m.mod_end
    BY BootInfosAssumption DEF Modules
  <2> QED
    BY <2>1, <1>1, ImageClear
<1>6. FirstMBFrames <= f => f \notin 0 .. FirstMBFrames - 1
  BY <1>1
<1>7. f \in ReservedFrames(boot)
        <=> \/ f \in 0 .. FirstMBFrames - 1
            \/ f \in ImageFrames(boot.kp_start, boot.kp_end)
            \/ \E m \in Modules(boot) : f \in ImageFrames(m.mod_start, m.mod_end)
  BY DEF ReservedFrames, Modules
<1> QED
  BY <1>2, <1>3, <1>4, <1>5, <1>6, <1>7, Zenon

----------------------------------------------------------------------------
(* The inductive invariant *)

\* What the properties need and no step alone shows: the bitmap is, at every
\* moment, the boot reservation and the frames that are held.  Frame 0 is the
\* exception, since FreeFailed clears its bit; the search starts above it.
BitmapIsReservedOrHeld ==
  LET reserved == IF up /\ boot.has_mem THEN ReservedFrames(boot) ELSE {}
  IN  /\ reserved \ {0} \subseteq bitmap
      /\ held \subseteq bitmap
      /\ bitmap \subseteq reserved \cup held
      /\ held \cap reserved = {}

CounterIsCounted ==
  max_available_pages =
    IF up /\ boot.has_mem THEN CountedPages(boot) ELSE 0

HeldIsSearched ==
  held \subseteq FirstMBFrames .. max_available_pages - 1

IInv ==
  /\ TypeOK
  /\ BitmapIsReservedOrHeld
  /\ CounterIsCounted
  /\ HeldIsSearched
  /\ ~up => ret = NoCall

\* Under the invariant the frames the search can return are the frames of the
\* pool that nobody holds.
LEMMA FreeIsUnheldPool ==
  ASSUME IInv, up
  PROVE  FreeFrames(bitmap, max_available_pages) = Pool \ held
<1>1. boot \in BootInfos /\ boot.has_mem \in BOOLEAN
  BY BootInfosAssumption DEF IInv, TypeOK
<1>2. CASE boot.has_mem
  <2>1. /\ max_available_pages = CountedPages(boot)
        /\ max_available_pages \in 0 .. MAX_PAGES
    BY <1>2 DEF IInv, TypeOK, CounterIsCounted
  <2>2. FirstMBFrames \in Nat \ {0} /\ MAX_PAGES \in Nat
    BY FirstMB, PMMConstants
  <2>3. ASSUME NEW f
        PROVE  f \in FirstMBFrames .. max_available_pages - 1
                 <=> /\ f \in 0 .. MAX_PAGES - 1
                     /\ FirstMBFrames <= f /\ f < max_available_pages
    BY <2>1, <2>2
  <2>4. ASSUME NEW f \in FirstMBFrames .. max_available_pages - 1
        PROVE  f \notin bitmap
                 <=> f \notin ReservedFrames(boot) /\ f \notin held
    <3>1. f # 0
      BY <2>1, <2>2
    <3> QED
      BY <3>1, <1>2 DEF IInv, BitmapIsReservedOrHeld
  <2> QED
    BY <1>1, <1>2, <2>1, <2>3, <2>4, PoolIsUnreserved DEF FreeFrames
<1>3. CASE ~boot.has_mem
  <2>1. max_available_pages = 0
    BY <1>3 DEF IInv, CounterIsCounted
  <2>2. FirstMBFrames .. 0 - 1 = {}
    BY FirstMB
  <2>3. Pool = {}
    BY <1>3 DEF Pool
  <2> QED
    BY <2>1, <2>2, <2>3 DEF FreeFrames
<1> QED
  BY <1>1, <1>2, <1>3

\* What a call of pmm_alloc_page finds.
LEMMA SearchResult ==
  ASSUME IInv, NEW free, free = FreeFrames(bitmap, max_available_pages)
  PROVE  /\ free \subseteq FirstMBFrames .. max_available_pages - 1
         /\ free \subseteq 1 .. MAX_PAGES - 1
         /\ free # {} => FirstFree(bitmap, max_available_pages) \in free
         /\ free = {} => FirstFree(bitmap, max_available_pages) = 0
<1>1. /\ FirstMBFrames \in Nat \ {0}
      /\ max_available_pages \in 0 .. MAX_PAGES /\ MAX_PAGES \in Nat
  BY FirstMB, PMMConstants DEF IInv, TypeOK
<1>2. free \subseteq FirstMBFrames .. max_available_pages - 1
  BY DEF FreeFrames
<1>3. free \subseteq 1 .. MAX_PAGES - 1
  BY <1>1, <1>2
<1>4. free \in SUBSET Nat
  BY <1>1, <1>3
<1>5. free # {} => Min(free) \in free
  BY <1>4, MinIsLeast
<1> QED
  BY <1>2, <1>3, <1>5 DEF FirstFree

\* The zeroed storage satisfies the invariant.
LEMMA InitIInv == Init => IInv
<1> SUFFICES ASSUME Init PROVE IInv
  OBVIOUS
<1>1. MAX_PAGES \in Nat
  BY PMMConstants
<1>2. TypeOK
  <2>1. up \in BOOLEAN
    BY Zenon DEF Init
  <2>2. bitmap = {} /\ held = {} /\ max_available_pages \in 0 .. MAX_PAGES
    BY <1>1 DEF Init, PMMZeroed
  <2> QED
    BY <2>1, <2>2 DEF Init, TypeOK
<1>3. BitmapIsReservedOrHeld /\ CounterIsCounted /\ HeldIsSearched
  BY DEF Init, PMMZeroed, BitmapIsReservedOrHeld, CounterIsCounted, HeldIsSearched
<1> QED
  BY <1>2, <1>3 DEF Init, IInv

\* pmm_init establishes the reservation the invariant speaks of.
LEMMA BootIInv == IInv /\ Boot => IInv'
<1> SUFFICES ASSUME IInv, Boot PROVE IInv'
  OBVIOUS
<1>1. /\ bitmap = {} /\ held = {} /\ max_available_pages = 0 /\ ret = NoCall
      /\ boot \in BootInfos
  BY DEF Boot, IInv, TypeOK, BitmapIsReservedOrHeld, CounterIsCounted,
         HeldIsSearched
<1>2. held' = {} /\ ret' = NoCall /\ up' = TRUE /\ boot' = boot
  BY <1>1 DEF Boot
<1>3. CASE boot.has_mem
  <2>1. bitmap' = ReservedFrames(boot)
          /\ max_available_pages' = CountedPages(boot)
    BY <1>3 DEF Boot, pmm_init
  <2>2. ReservedFrames(boot) \subseteq Nat
    <3>1. ASSUME NEW s \in Nat, NEW e \in Nat
          PROVE  ImageFrames(s, e) \subseteq Nat
      <4>1. s \div PAGE_SIZE \in Nat
        BY PMMConstants, DivIsNat
      <4> QED
        BY <4>1 DEF ImageFrames, Frame
    <3>2. /\ boot.kp_start \in Nat /\ boot.kp_end \in Nat
          /\ \A m \in boot.modules : m.mod_start \in Nat /\ m.mod_end \in Nat
      BY <1>1, BootInfosAssumption
    <3>3. FirstMBFrames \in Nat
      BY FirstMB
    <3> QED
      BY <3>1, <3>2, <3>3 DEF ReservedFrames
  <2>3. CountedPages(boot) \in 0 .. MAX_PAGES
    BY <1>1, Counted
  <2>4. BitmapIsReservedOrHeld'
    BY <1>2, <1>3, <2>1 DEF BitmapIsReservedOrHeld
  <2> QED
    BY <1>1, <1>2, <1>3, <2>1, <2>2, <2>3, <2>4
    DEF IInv, TypeOK, CounterIsCounted, HeldIsSearched
<1>4. CASE ~boot.has_mem
  <2>1. bitmap' = {} /\ max_available_pages' = 0
    BY <1>1, <1>4 DEF Boot, pmm_init, pmmVars
  <2>2. MAX_PAGES \in Nat
    BY PMMConstants
  <2> QED
    BY <1>1, <1>2, <1>4, <2>1, <2>2
    DEF IInv, TypeOK, BitmapIsReservedOrHeld, CounterIsCounted, HeldIsSearched
<1> QED
  BY <1>3, <1>4

\* pmm_alloc_page keeps the invariant: what it takes was free and is then held.
LEMMA AllocIInv == IInv /\ Alloc => IInv'
<1> SUFFICES ASSUME IInv, Alloc PROVE IInv'
  OBVIOUS
<1> DEFINE n == max_available_pages
           free == FreeFrames(bitmap, n)
           f == FirstFree(bitmap, n)
<1>1. /\ bitmap' = Taken(bitmap, n) /\ n' = n /\ boot' = boot /\ up' = up
      /\ ret' = f * PAGE_SIZE
      /\ held' = held \cup ({Frame(ret')} \ {0})
      /\ up
  BY DEF Alloc, pmm_alloc_page
<1>2. /\ free \subseteq FirstMBFrames .. n - 1
      /\ free \subseteq 1 .. MAX_PAGES - 1
      /\ free # {} => f \in free
      /\ free = {} => f = 0
  BY SearchResult
<1>3. free = Pool \ held
  BY <1>1, FreeIsUnheldPool
<1>4. PAGE_SIZE \in Nat \ {0} /\ MAX_PAGES \in Nat \ {0}
  BY PMMConstants
<1> HIDE DEF f, free
<1>5. f \in 0 .. MAX_PAGES - 1 /\ f \in Nat
  <2>1. CASE free = {}
    BY <1>2, <1>4, <2>1
  <2>2. CASE free # {}
    <3>1. f \in 1 .. MAX_PAGES - 1
      BY <1>2, <2>2
    <3> QED
      BY <1>4, <3>1
  <2> QED
    BY <2>1, <2>2
<1>6. Frame(ret') = f /\ ret' \in Nat
  BY <1>1, <1>4, <1>5, DivOfProduct DEF Frame
<1>7. CASE free = {}
  <2>1. bitmap' = bitmap /\ held' = held
    BY <1>1, <1>2, <1>6, <1>7 DEF Taken, free
  <2> QED
    BY <1>1, <1>6, <2>1
    DEF IInv, TypeOK, BitmapIsReservedOrHeld, CounterIsCounted, HeldIsSearched
<1>8. CASE free # {}
  <2>1. bitmap' = bitmap \cup {f} /\ held' = held \cup {f} /\ f # 0
    BY <1>1, <1>2, <1>4, <1>6, <1>8 DEF Taken, free, f
  <2>2. f \in Pool /\ f \in FirstMBFrames .. n - 1
    BY <1>2, <1>3, <1>8
  <2>3. boot.has_mem /\ f \notin ReservedFrames(boot)
    <3>1. boot \in BootInfos
      BY DEF IInv, TypeOK
    <3> QED
      BY <2>2, <3>1, PoolIsUnreserved
  <2>4. TypeOK'
    <3>1. bitmap' \subseteq Nat /\ held' \subseteq 0 .. MAX_PAGES - 1
      BY <1>5, <2>1 DEF IInv, TypeOK
    <3> QED
      BY <1>1, <1>6, <3>1 DEF IInv, TypeOK
  <2>5. BitmapIsReservedOrHeld'
    BY <1>1, <2>1, <2>3 DEF IInv, BitmapIsReservedOrHeld
  <2>6. HeldIsSearched'
    BY <1>1, <2>1, <2>2 DEF IInv, HeldIsSearched
  <2> QED
    BY <1>1, <2>4, <2>5, <2>6 DEF IInv, CounterIsCounted
<1> QED
  BY <1>7, <1>8

\* Giving back a held frame keeps the invariant.
LEMMA FreeIInv == ASSUME NEW f \in held PROVE IInv /\ Free(f) => IInv'
<1> SUFFICES ASSUME IInv, Free(f) PROVE IInv'
  OBVIOUS
<1>1. f \in Nat /\ PAGE_SIZE \in Nat \ {0}
  BY PMMConstants DEF IInv, TypeOK
<1>2. /\ bitmap' = bitmap \ {f} /\ held' = held \ {f}
      /\ UNCHANGED <<max_available_pages, boot, up, ret>>
  BY <1>1, DivOfProduct DEF Free, pmm_free_page, Frame
<1> QED
  BY <1>2
  DEF IInv, TypeOK, BitmapIsReservedOrHeld, CounterIsCounted, HeldIsSearched

\* testar_pmm freeing the 0 of a failed request keeps the invariant.
LEMMA FreeFailedIInv == IInv /\ FreeFailed => IInv'
<1> SUFFICES ASSUME IInv, FreeFailed PROVE IInv'
  OBVIOUS
<1>1. Frame(ret) = 0
  BY PMMConstants DEF FreeFailed, Frame
<1>2. /\ bitmap' = bitmap \ {0}
      /\ UNCHANGED <<max_available_pages, boot, up, held, ret>>
  BY <1>1 DEF FreeFailed, pmm_free_page
<1>3. 0 \notin held
  BY FirstMB DEF IInv, HeldIsSearched, TypeOK
<1> QED
  BY <1>2, <1>3
  DEF IInv, TypeOK, BitmapIsReservedOrHeld, CounterIsCounted, HeldIsSearched

\* Every step of the frame allocator keeps the invariant.
LEMMA StepIInv == IInv /\ [Next]_vars => IInv'
<1> SUFFICES ASSUME IInv, [Next]_vars PROVE IInv'
  OBVIOUS
<1>1. CASE UNCHANGED vars
  BY <1>1 DEF vars, IInv, TypeOK, BitmapIsReservedOrHeld, CounterIsCounted,
              HeldIsSearched
<1> QED
  BY <1>1, BootIInv, AllocIInv, FreeIInv, FreeFailedIInv DEF Next

\* The invariant holds through every sequence of calls of pmm.c.
THEOREM Invariance == Spec => []IInv
  BY InitIInv, StepIInv, PTL DEF Spec

\* Every variable keeps its type; max_available_pages never passes the end of
\* the array memory_bitmap.
THEOREM TypeCorrect == Spec => []TypeOK
<1>1. IInv => TypeOK
  BY DEF IInv
<1> QED
  BY <1>1, Invariance, PTL

----------------------------------------------------------------------------
(* The properties *)

\* A held frame is in the pool the memory map describes.
LEMMA HeldIsPool == IInv => held \subseteq Pool
<1> SUFFICES ASSUME IInv, NEW f \in held PROVE f \in Pool
  OBVIOUS
<1>1. /\ max_available_pages \in 0 .. MAX_PAGES /\ MAX_PAGES \in Nat
      /\ FirstMBFrames \in Nat \ {0} /\ boot \in BootInfos
      /\ f \in FirstMBFrames .. max_available_pages - 1
  BY PMMConstants, FirstMB DEF IInv, TypeOK, HeldIsSearched
<1>2. up /\ boot.has_mem /\ max_available_pages = CountedPages(boot)
  BY <1>1 DEF IInv, CounterIsCounted
<1>3. f \notin ReservedFrames(boot)
  BY <1>2 DEF IInv, BitmapIsReservedOrHeld
<1>4. /\ f \in 0 .. MAX_PAGES - 1
      /\ FirstMBFrames <= f /\ f < CountedPages(boot)
  BY <1>1, <1>2
<1> QED
  BY <1>1, <1>2, <1>3, <1>4, PoolIsUnreserved

\* A held frame consists of bytes the machine has.
THEOREM HeldFramesExist == Spec => []GrantedInRAM
<1>1. IInv => GrantedInRAM
  BY HeldIsPool DEF GrantedInRAM, Pool
<1> QED
  BY <1>1, Invariance, PTL

\* A frame clear of an image has no byte of it.
LEMMA ClearIsDisjoint ==
  ASSUME NEW f \in Nat, NEW first \in Nat, NEW last \in Nat,
         Clear(f, first, last)
  PROVE  Bytes(f) \cap (first .. last) = {}
<1>1. f * PAGE_SIZE \in Nat /\ (f + 1) * PAGE_SIZE \in Nat /\ PAGE_SIZE \in Nat
  BY PMMConstants
<1>2. ASSUME NEW x \in Bytes(f), x \in first .. last
      PROVE  FALSE
  <2>1. x \in Int /\ f * PAGE_SIZE <= x /\ x < (f + 1) * PAGE_SIZE
    BY <1>1 DEF Bytes
  <2>2. first <= x /\ x <= last
    BY <1>2, <2>1
  <2>3. CASE (f + 1) * PAGE_SIZE <= first
    BY <1>1, <2>1, <2>2, <2>3
  <2>4. CASE f * PAGE_SIZE > last + PAGE_SIZE
    BY <1>1, <2>1, <2>2, <2>4
  <2> QED
    BY <2>3, <2>4 DEF Clear
<1> QED
  BY <1>2

\* No caller is ever given memory of the first megabyte, of the kernel or of a
\* GRUB module.
THEOREM ImagesAreSafe == Spec => []ImagesNeverGranted
<1>1. IInv => ImagesNeverGranted
  <2> SUFFICES ASSUME IInv, NEW f \in held
               PROVE  /\ f * PAGE_SIZE >= LOW_KB * KB
                      /\ Bytes(f) \cap (boot.kp_start .. boot.kp_end - 1) = {}
                      /\ \A m \in Modules(boot) :
                           Bytes(f) \cap (m.mod_start .. m.mod_end) = {}
    BY DEF ImagesNeverGranted
  <2>1. f \in Pool /\ f \in Nat /\ boot \in BootInfos
    BY HeldIsPool, PMMConstants DEF IInv, TypeOK
  <2>2. Bytes(f) \cap (boot.kp_start .. boot.kp_end - 1) = {}
    <3>1. boot.kp_start \in Nat /\ boot.kp_end \in Nat
      BY <2>1, BootInfosAssumption
    <3>2. Bytes(f) \cap (boot.kp_start .. boot.kp_end) = {}
      BY <2>1, <3>1, ClearIsDisjoint DEF Pool
    <3> HIDE DEF Bytes
    <3>3. boot.kp_start .. boot.kp_end - 1 \subseteq boot.kp_start .. boot.kp_end
      BY <3>1
    <3> QED
      BY <3>2, <3>3
  <2>3. ASSUME NEW m \in Modules(boot)
        PROVE  Bytes(f) \cap (m.mod_start .. m.mod_end) = {}
    <3>1. m.mod_start \in Nat /\ m.mod_end \in Nat
      BY <2>1, BootInfosAssumption DEF Modules
    <3> QED
      BY <2>1, <3>1, ClearIsDisjoint DEF Pool
  <2> QED
    BY <2>1, <2>2, <2>3 DEF Pool
<1> QED
  BY <1>1, Invariance, PTL
----------------------------------------------------------------------------
(* Refinement *)

\* Frame 0 answers a request only by way of a refusal.
LEMMA AllocLends == IInv /\ Alloc => Lender!Next
<1> SUFFICES ASSUME IInv, Alloc PROVE Lender!Next
  OBVIOUS
<1> DEFINE n == max_available_pages
           free == FreeFrames(bitmap, n)
           f == FirstFree(bitmap, n)
<1>1. /\ boot' = boot /\ up' = up /\ up
      /\ ret' = f * PAGE_SIZE
      /\ held' = held \cup ({Frame(ret')} \ {0})
  BY DEF Alloc, pmm_alloc_page
<1>2. /\ free \subseteq 1 .. MAX_PAGES - 1
      /\ free # {} => f \in free
      /\ free = {} => f = 0
  BY SearchResult
<1>3. free = Pool \ held
  BY <1>1, FreeIsUnheldPool
<1>4. PAGE_SIZE \in Nat \ {0} /\ MAX_PAGES \in Nat \ {0}
  BY PMMConstants
<1> HIDE DEF f, free
<1>5. f \in Nat
  <2>1. CASE free = {}
    BY <1>2, <2>1
  <2>2. CASE free # {}
    <3>1. f \in 1 .. MAX_PAGES - 1
      BY <1>2, <2>2
    <3> QED
      BY <1>4, <3>1
  <2> QED
    BY <2>1, <2>2
<1>6. Frame(ret') = f /\ ret' \in Nat /\ ret' # NoCall
  BY <1>1, <1>4, <1>5, DivOfProduct DEF Frame, NoCall
<1>7. Pool' = Pool
  BY <1>1 DEF Pool, Installed, Modules, Clear
<1>8. CASE free = {}
  <2>1. Lender!Refuse
    BY <1>1, <1>2, <1>3, <1>6, <1>7, <1>8 DEF Lender!Refuse
  <2> QED
    BY <2>1 DEF Lender!Next
<1>9. CASE free # {}
  <2>1. f \in Pool \ held /\ f \in 0 .. MAX_PAGES - 1 /\ f # 0
    BY <1>2, <1>3, <1>4, <1>9
  <2>2. Lender!Lend(f)
    BY <1>1, <1>6, <1>7, <2>1 DEF Lender!Lend
  <2> QED
    BY <2>1, <2>2 DEF Lender!Next
<1> QED
  BY <1>8, <1>9

\* PMMSpec implements FramePool: the frames of the memory map that are clear of
\* the images are lent to one holder at a time, none of them is ever lost, and
\* a request is refused only when all of them are lent.
THEOREM Refinement == Spec => LendsThePool
<1>1. Init => Lender!Init
  BY DEF Init, Lender!Init, NoCall
<1>2. IInv /\ IInv' /\ [Next]_vars => [Lender!Next]_(Lender!poolVars)
  <2> SUFFICES ASSUME IInv, IInv', [Next]_vars
               PROVE  [Lender!Next]_(Lender!poolVars)
    OBVIOUS
  <2>1. CASE Boot
    <3>1. ~up /\ up' /\ boot' = boot /\ held' = held /\ ret' = ret
      BY <2>1 DEF Boot
    <3>2. Pool' \in SUBSET (0 .. MAX_PAGES - 1)
      BY DEF Pool
    <3>3. Lender!Open
      BY <3>1, <3>2 DEF Lender!Open
    <3> QED
      BY <3>3 DEF Lender!Next
  <2>2. CASE Alloc
    BY <2>2, AllocLends
  <2>3. ASSUME NEW f \in held, Free(f)
        PROVE  Lender!Next
    <3>1. /\ held' = held \ {f}
          /\ UNCHANGED <<boot, up, ret>>
      BY <2>3 DEF Free
    <3>2. Pool' = Pool
      BY <3>1 DEF Pool, Installed, Modules, Clear
    <3>3. Lender!TakeBack(f)
      BY <3>1, <3>2 DEF Lender!TakeBack
    <3>4. f \in 0 .. MAX_PAGES - 1
      BY DEF IInv, TypeOK
    <3> QED
      BY <3>3, <3>4 DEF Lender!Next
  <2>4. CASE FreeFailed \/ UNCHANGED vars
    <3>1. UNCHANGED <<boot, up, held, ret>>
      BY <2>4 DEF FreeFailed, vars
    <3>2. Pool' = Pool
      BY <3>1 DEF Pool, Installed, Modules, Clear
    <3> QED
      BY <3>1, <3>2 DEF Lender!poolVars
  <2> QED
    BY <2>1, <2>2, <2>3, <2>4 DEF Next
<1> QED
  BY <1>1, <1>2, Invariance, PTL DEF Spec, Lender!Spec, LendsThePool

----------------------------------------------------------------------------
(* kmain *)

\* Each step of kmain is a call of PMMSpec, or none of the allocator's business.
LEMMA StartupStep == [StartupNext]_<<vars, kmainVars>> => [Next]_vars
<1> SUFFICES ASSUME [StartupNext]_<<vars, kmainVars>> PROVE [Next]_vars
  OBVIOUS
<1>1. CASE kmain_pmm_init
  BY <1>1 DEF kmain_pmm_init, Next
<1>2. CASE testar_pmm \/ kheap_init \/ traduzir_endereco
  BY <1>2 DEF testar_pmm, kheap_init, traduzir_endereco, Takes, Next
<1>3. CASE testar_pmm_free
  <2>1. FreeFailed \/ Free(Frame(ret))
    BY <1>3 DEF testar_pmm_free
  <2>2. Free(Frame(ret)) => Frame(ret) \in held
    BY DEF Free
  <2> QED
    BY <2>1, <2>2 DEF Next
<1>4. CASE run_first_module \/ Halted \/ UNCHANGED <<vars, kmainVars>>
  BY <1>4 DEF run_first_module, Halted
<1>5. CASE OtherCallers
  BY <1>5 DEF OtherCallers
<1> QED
  BY <1>1, <1>2, <1>3, <1>4, <1>5 DEF StartupNext

\* What the allocator promises any sequence of callers, PMMProofs, holds for
\* kmain (kmain.c).
THEOREM KmainIsACaller == StartupSpec => Spec
<1>1. StartupInit => Init
  BY DEF StartupInit
<1> QED
  BY <1>1, StartupStep, PTL DEF StartupSpec, Spec

----------------------------------------------------------------------------
(* The strengthening *)

Test == <<"test", 0>>

\* Whoever was given a frame other than 0 was given one of the pool; what it is
\* used for, but for the test, is one thing, and it is held for that.
UsersHold ==
  \A f \in DOMAIN users \ {0} :
    /\ users[f] # {} => f \in Pool
    /\ users[f] \ {Test} # {} => f \in held
    /\ \E use : users[f] \ {Test} \subseteq {use}

\* Until the test has given its frame back there is no other use.
OnlyTheTest ==
  pc \in {"pmm_init", "testar_pmm", "pmm_free_page", "any"} =>
    \A f \in DOMAIN users \ {0} : users[f] \subseteq {Test}

StartupIInv ==
  /\ IInv
  /\ DOMAIN users = 0 .. MAX_PAGES - 1
  /\ pc \in {"pmm_init", "testar_pmm"} => i = 0
  /\ UsersHold
  /\ OnlyTheTest

\* kmain starts with no frame used.
LEMMA InitStartupIInv == StartupInit => StartupIInv
<1> SUFFICES ASSUME StartupInit PROVE StartupIInv
  OBVIOUS
<1>1. IInv
  BY InitIInv DEF StartupInit
<1>2. /\ DOMAIN users = 0 .. MAX_PAGES - 1
      /\ i = 0
      /\ \A f \in DOMAIN users : users[f] = {}
  BY DEF StartupInit
<1> QED
  BY <1>1, <1>2 DEF StartupIInv, UsersHold, OnlyTheTest

\* A request is answered with 0, when the pool is used up, or with a frame of the
\* pool that nobody holds, and which is held from then on.
LEMMA AllocAnswer ==
  ASSUME IInv, Alloc
  PROVE  /\ Frame(ret') # 0 => Frame(ret') \in Pool \ held
         /\ Pool \subseteq held \/ Frame(ret') # 0
         /\ held' = held \cup ({Frame(ret')} \ {0})
         /\ UNCHANGED boot
<1> DEFINE n == max_available_pages
           free == FreeFrames(bitmap, n)
           f == FirstFree(bitmap, n)
<1>1. /\ up /\ ret' = f * PAGE_SIZE /\ boot' = boot
      /\ held' = held \cup ({Frame(ret')} \ {0})
  BY DEF Alloc, pmm_alloc_page
<1>2. free = Pool \ held
  BY <1>1, FreeIsUnheldPool
<1>3. free # {} => f \in free
  BY SearchResult
<1>4. free = {} => f = 0
  BY SearchResult
<1>5. free \subseteq 1 .. MAX_PAGES - 1
  BY SearchResult
<1> HIDE DEF n, free, f
<1>6. f \in Nat
  <2>1. CASE free = {}
    BY <1>4, <2>1
  <2>2. CASE free # {}
    <3>1. f \in 1 .. MAX_PAGES - 1
      BY <1>3, <1>5, <2>2
    <3> QED
      BY <3>1, PMMConstants
  <2> QED
    BY <2>1, <2>2
<1>7. Frame(ret') = f
  BY <1>1, <1>6, DivOfProduct, PMMConstants DEF Frame
<1>8. free # {} => f # 0
  <2> SUFFICES ASSUME free # {} PROVE f # 0
    OBVIOUS
  <2>1. f \in 1 .. MAX_PAGES - 1
    BY <1>3, <1>5
  <2> QED
    BY <2>1, PMMConstants
<1> QED
  BY <1>1, <1>2, <1>3, <1>4, <1>7, <1>8

\* A frame that is asked for, and used for one thing.
LEMMA UseHolds ==
  ASSUME StartupIInv, Alloc, NEW use,
         users' = [users EXCEPT ![Frame(ret')] = @ \cup {use}]
  PROVE  /\ DOMAIN users' = 0 .. MAX_PAGES - 1
         /\ UsersHold'
         /\ use = Test /\ (\A f \in DOMAIN users \ {0} : users[f] \subseteq {Test}) =>
              \A f \in DOMAIN users' \ {0} : users'[f] \subseteq {Test}
<1> DEFINE g == Frame(ret')
<1>1. /\ g # 0 => g \in Pool \ held
      /\ held' = held \cup ({g} \ {0})
      /\ boot' = boot
  BY AllocAnswer DEF StartupIInv
<1>2. DOMAIN users' = DOMAIN users /\ DOMAIN users = 0 .. MAX_PAGES - 1
  BY DEF StartupIInv
<1>3. Pool' = Pool
  BY <1>1 DEF Pool, Modules, Installed
<1> HIDE DEF g
<1>4. \A f \in DOMAIN users :
        users'[f] = IF f = g THEN users[f] \cup {use} ELSE users[f]
  BY DEF g
<1>5. UsersHold'
  <2> SUFFICES ASSUME NEW f \in DOMAIN users' \ {0}
               PROVE  /\ users'[f] # {} => f \in Pool'
                      /\ users'[f] \ {Test} # {} => f \in held'
                      /\ \E u : users'[f] \ {Test} \subseteq {u}
    BY DEF UsersHold
  <2>1. /\ users[f] # {} => f \in Pool
        /\ users[f] \ {Test} # {} => f \in held
        /\ \E u : users[f] \ {Test} \subseteq {u}
    BY <1>2 DEF StartupIInv, UsersHold
  <2>2. CASE f = g
    <3>1. f \in Pool \ held /\ f \in held'
      BY <1>1, <2>2
    <3>2. users'[f] = users[f] \cup {use} /\ users[f] \ {Test} = {}
      BY <1>2, <1>4, <2>1, <2>2, <3>1
    <3>3. users'[f] \ {Test} \subseteq {use}
      BY <3>2
    <3> QED
      BY <1>3, <3>1, <3>3
  <2>3. CASE f # g
    <3>1. users'[f] = users[f] /\ held \subseteq held'
      BY <1>1, <1>2, <1>4, <2>3
    <3> QED
      BY <1>3, <2>1, <3>1
  <2> QED
    BY <2>2, <2>3
<1>6. ASSUME use = Test, \A f \in DOMAIN users \ {0} : users[f] \subseteq {Test}
      PROVE  \A f \in DOMAIN users' \ {0} : users'[f] \subseteq {Test}
  BY <1>2, <1>4, <1>6
<1> QED
  BY <1>2, <1>5, <1>6

\* A call of the allocator while nothing but the test has used a frame.
LEMMA TestStepHolds ==
  ASSUME StartupIInv, IInv', Next, UNCHANGED users,
         \A f \in DOMAIN users \ {0} : users[f] \subseteq {Test}
  PROVE  UsersHold'
<1>1. boot' = boot
  BY DEF Next, Boot, Alloc, Free, FreeFailed
<1>2. Pool' = Pool
  BY <1>1 DEF Pool, Modules, Installed
<1>3. ASSUME NEW f \in DOMAIN users \ {0}
      PROVE  /\ users[f] # {} => f \in Pool
             /\ users[f] \ {Test} = {}
  BY <1>3 DEF StartupIInv, UsersHold
<1> QED
  BY <1>2, <1>3 DEF UsersHold

\* kmain's steps and those of other callers keep the strengthening.
LEMMA StepStartupIInv ==
  StartupIInv /\ [StartupNext]_<<vars, kmainVars>> => StartupIInv'
<1> SUFFICES ASSUME StartupIInv, [StartupNext]_<<vars, kmainVars>>
             PROVE  StartupIInv'
  OBVIOUS
<1>1. IInv'
  BY StartupStep, StepIInv DEF StartupIInv
<1>2. CASE kmain_pmm_init
  <2>1. Next /\ UNCHANGED <<i, users>> /\ pc = "pmm_init" /\ pc' = "testar_pmm"
    BY <1>2 DEF kmain_pmm_init, Next
  <2>2. \A f \in DOMAIN users \ {0} : users[f] \subseteq {Test}
    BY <2>1 DEF StartupIInv, OnlyTheTest
  <2>3. UsersHold'
    BY <1>1, <2>1, <2>2, TestStepHolds
  <2> QED
    BY <1>1, <2>1, <2>2, <2>3 DEF StartupIInv, OnlyTheTest
<1>3. CASE testar_pmm
  <2>1. /\ Alloc /\ pc = "testar_pmm" /\ i = 0
        /\ users' = [users EXCEPT ![Frame(ret')] = @ \cup {Test}]
    BY <1>3 DEF testar_pmm, Takes, Use, Test, StartupIInv
  <2>2. i' = 0 /\ pc' = "pmm_free_page"
    <3>1. i' = (i + 1) % 1
      BY <1>3 DEF testar_pmm, Takes
    <3>2. i' = 0
      BY <2>1, <3>1
    <3> QED
      BY <1>3, <3>2 DEF testar_pmm, Takes
  <2>3. \A f \in DOMAIN users \ {0} : users[f] \subseteq {Test}
    BY <2>1 DEF StartupIInv, OnlyTheTest
  <2>4. /\ DOMAIN users' = 0 .. MAX_PAGES - 1
        /\ UsersHold'
        /\ \A f \in DOMAIN users' \ {0} : users'[f] \subseteq {Test}
    BY <2>1, <2>3, UseHolds
  <2> QED
    BY <1>1, <2>2, <2>4 DEF StartupIInv, OnlyTheTest
<1>4. CASE testar_pmm_free
  <2>1. UNCHANGED users /\ pc = "pmm_free_page" /\ pc' = "kheap_init"
    BY <1>4 DEF testar_pmm_free
  <2>2. Next
    <3>1. FreeFailed \/ Free(Frame(ret))
      BY <1>4 DEF testar_pmm_free
    <3>2. Free(Frame(ret)) => Frame(ret) \in held
      BY DEF Free
    <3> QED
      BY <3>1, <3>2 DEF Next
  <2>3. \A f \in DOMAIN users \ {0} : users[f] \subseteq {Test}
    BY <2>1 DEF StartupIInv, OnlyTheTest
  <2>4. UsersHold'
    BY <1>1, <2>1, <2>2, <2>3, TestStepHolds
  <2> QED
    BY <1>1, <2>1, <2>4 DEF StartupIInv, OnlyTheTest
<1>5. CASE kheap_init \/ traduzir_endereco
  <2>1. /\ Alloc
        /\ \E use : users' = [users EXCEPT ![Frame(ret')] = @ \cup {use}]
    BY <1>5 DEF kheap_init, traduzir_endereco, Takes, Use
  <2>2. pc' \in {"kheap_init", "simulador", "run_first_module"}
    BY <1>5 DEF kheap_init, traduzir_endereco, Takes
  <2>3. DOMAIN users' = 0 .. MAX_PAGES - 1 /\ UsersHold'
    BY <2>1, UseHolds
  <2> QED
    BY <1>1, <2>2, <2>3 DEF StartupIInv, OnlyTheTest
<1>6. CASE run_first_module \/ Halted \/ UNCHANGED <<vars, kmainVars>>
  <2>1. UNCHANGED <<vars, i, users>>
    BY <1>6 DEF run_first_module, Halted, kmainVars
  <2>2. pc' = pc \/ pc' \in {"module", "hlt"}
    BY <1>6 DEF run_first_module, Halted, kmainVars
  <2>3. UsersHold'
    BY <2>1 DEF StartupIInv, UsersHold, Pool, Modules, Installed, vars
  <2> QED
    BY <1>1, <2>1, <2>2, <2>3 DEF StartupIInv, OnlyTheTest
<1>7. CASE OtherCallers
  <2>1. Next /\ UNCHANGED kmainVars /\ pc = "any"
    BY <1>7 DEF OtherCallers
  <2>2. UNCHANGED <<pc, i, users>>
    BY <2>1 DEF kmainVars
  <2>3. \A f \in DOMAIN users \ {0} : users[f] \subseteq {Test}
    BY <2>1 DEF StartupIInv, OnlyTheTest
  <2>4. UsersHold'
    BY <1>1, <2>1, <2>2, <2>3, TestStepHolds
  <2> QED
    BY <1>1, <2>2, <2>3, <2>4 DEF StartupIInv, OnlyTheTest
<1> QED
  BY <1>2, <1>3, <1>4, <1>5, <1>6, <1>7 DEF StartupNext

----------------------------------------------------------------------------
(* What follows *)

\* A frame of the pool holds no byte of an image, and is not frame 0.
LEMMA PoolHasNoImage ==
  ASSUME boot \in BootInfos
  PROVE  Pool \cap Images = {} /\ 0 \notin Images
<1>1. /\ boot.kp_start \in Nat /\ boot.kp_end \in Nat
      /\ boot.kp_start < boot.kp_end /\ boot.kp_start >= PAGE_SIZE
      /\ \A m \in Modules(boot) :
           /\ m.mod_start \in Nat /\ m.mod_end \in Nat
           /\ m.mod_start <= m.mod_end /\ m.mod_start >= PAGE_SIZE
      /\ PAGE_SIZE \in Nat \ {0}
  BY BootInfosAssumption, ImagesAboveFrame0, PMMConstants DEF Modules
<1>2. ASSUME NEW s \in Nat, NEW e \in Nat, s <= e, s >= PAGE_SIZE,
             NEW f \in Occupied(s, e)
      PROVE  f \in Nat /\ f # 0 /\ ~Clear(f, s, e) /\ ~Clear(f, s, e + 1)
  <2>1. /\ s \div PAGE_SIZE \in Nat /\ e \div PAGE_SIZE \in Nat
        /\ s \div PAGE_SIZE >= 1
    BY <1>1, <1>2
  <2>2. f \in Nat /\ f >= s \div PAGE_SIZE /\ f <= e \div PAGE_SIZE
    BY <1>2, <2>1 DEF Occupied, Frame
  <2>3. ~(f < s \div PAGE_SIZE) /\ ~(f > e \div PAGE_SIZE)
    BY <2>1, <2>2
  <2>4. ~((f + 1) * PAGE_SIZE <= s) /\ ~(f * PAGE_SIZE > e)
    BY <1>1, <2>2, <2>3, FrameBelow, FrameAbove
  <2>5. f * PAGE_SIZE \in Nat /\ (f + 1) * PAGE_SIZE \in Nat
    BY <1>1, <2>2
  <2> HIDE DEF Occupied
  <2> QED
    BY <1>1, <2>1, <2>2, <2>4, <2>5 DEF Clear
<1>3. ASSUME NEW f \in Images
      PROVE  f # 0 /\ f \notin Pool
  <2>1. CASE f \in Occupied(boot.kp_start, boot.kp_end - 1)
    <3>1. f # 0 /\ ~Clear(f, boot.kp_start, boot.kp_end - 1 + 1)
      <4>1. boot.kp_end - 1 \in Nat /\ boot.kp_start <= boot.kp_end - 1
        BY <1>1
      <4> QED
        BY <1>1, <1>2, <2>1, <4>1
    <3>2. boot.kp_end - 1 + 1 = boot.kp_end
      BY <1>1
    <3> QED
      BY <3>1, <3>2 DEF Pool
  <2>2. CASE \E m \in Modules(boot) : f \in Occupied(m.mod_start, m.mod_end)
    BY <1>1, <1>2, <2>2 DEF Pool
  <2> QED
    BY <1>3, <2>1, <2>2 DEF Images
<1> QED
  BY <1>3

\* However little memory there is: kernel and modules are as GRUB loaded them when
\* the module is entered, and no two of kmain's parts write to the same frame, but
\* for frame 0 (kmain.c:160-193).
THEOREM PartsOfKmainStayApart == StartupSpec => []FramesApart
<1>1. StartupIInv => FramesApart
  <2> SUFFICES ASSUME StartupIInv PROVE ImagesIntact /\ OneUseEach
    BY DEF FramesApart
  <2>1. ImagesIntact
    <3>1. boot \in BootInfos
      BY DEF StartupIInv, IInv, TypeOK
    <3>2. \A f \in DOMAIN users \ {0} : users[f] # {} => f \in Pool
      BY DEF StartupIInv, UsersHold
    <3> QED
      BY <3>1, <3>2, PoolHasNoImage DEF ImagesIntact
  <2>2. ASSUME NEW f \in DOMAIN users \ {0}
        PROVE  Cardinality(users[f] \ {Test}) <= 1
    <3>1. PICK use : users[f] \ {Test} \subseteq {use}
      BY <2>2 DEF StartupIInv, UsersHold
    <3>2. IsFiniteSet({use}) /\ Cardinality({use}) = 1
      BY FS_Singleton
    <3>3. Cardinality(users[f] \ {Test}) <= Cardinality({use})
      BY <3>1, <3>2, FS_Subset
    <3> QED
      BY <3>2, <3>3
  <2> QED
    BY <2>1, <2>2 DEF OneUseEach, Test
<1> QED
  BY <1>1, InitStartupIInv, StepStartupIInv, PTL DEF StartupSpec

----------------------------------------------------------------------------
(* Enough frames are enough *)

\* kmain has taken as many frames as it has asked for, at most, and given back
\* the one of the test.
HeldByCount ==
  /\ pc \in {"pmm_init", "testar_pmm"} => i = 0 /\ held = {}
  /\ pc = "pmm_free_page" => i = 0 /\ held \subseteq {Frame(ret)} \ {0}
  /\ pc = "kheap_init" => i \in 0 .. HEAP_PAGES /\ Cardinality(held) <= i
  /\ pc = "simulador" =>
       i \in 0 .. PAGES - 1 /\ Cardinality(held) <= HEAP_PAGES + 1 + i

Enough == Cardinality(Pool) >= HEAP_PAGES + 1 + PAGES

CountIInv == IInv /\ DOMAIN users = 0 .. MAX_PAGES - 1 /\ HeldByCount /\ EnoughIsEnough

\* The counter of a loop of n rounds comes back to 0 after the last.
LEMMA LoopCounter ==
  ASSUME NEW n \in Nat \ {0}, NEW k \in 0 .. n - 1
  PROVE  (k + 1) % n = IF k + 1 = n THEN 0 ELSE k + 1
<1>1. k + 1 \in 0 .. n
  OBVIOUS
<1>2. CASE k + 1 = n
  <2>1. n % n = 0
    OBVIOUS
  <2> QED
    BY <1>2, <2>1
<1>3. CASE k + 1 # n
  BY <1>1, <1>3
<1> QED
  BY <1>2, <1>3

\* The frames that are held, and those of the pool, can be counted.
LEMMA HeldIsFinite ==
  ASSUME TypeOK
  PROVE  /\ IsFiniteSet(held) /\ Cardinality(held) \in Nat
         /\ IsFiniteSet(Pool) /\ Cardinality(Pool) \in Nat
<1>1. IsFiniteSet(0 .. MAX_PAGES - 1)
  <2>1. 0 \in Int /\ MAX_PAGES - 1 \in Int
    BY PMMConstants
  <2> QED
    BY <2>1, FS_Interval
<1>2. held \in SUBSET (0 .. MAX_PAGES - 1) /\ Pool \in SUBSET (0 .. MAX_PAGES - 1)
  BY DEF TypeOK, Pool
<1>3. IsFiniteSet(held) /\ IsFiniteSet(Pool)
  BY <1>1, <1>2, FS_Subset
<1> QED
  BY <1>3, FS_CardinalityType

\* A pool with enough frames has one, so that the first megabyte is in the bitmap.
LEMMA EnoughHasFrames ==
  ASSUME TypeOK, Enough
  PROVE  0 .. FirstMBFrames - 1 \subseteq 0 .. MAX_PAGES - 1
<1>1. Pool # {}
  <2>1. Cardinality({}) = 0
    BY FS_EmptySet
  <2>2. HEAP_PAGES + 1 + PAGES > 0 /\ HEAP_PAGES + 1 + PAGES \in Nat
    BY StartupConstants
  <2> QED
    BY <2>1, <2>2, HeldIsFinite DEF Enough
<1>2. PICK f \in Pool : TRUE
  BY <1>1
<1>3. f \in 0 .. MAX_PAGES - 1 /\ f * PAGE_SIZE >= LOW_KB * KB
  BY <1>2 DEF Pool
<1>4. f \in Nat /\ f < MAX_PAGES /\ f >= FirstMBFrames
  BY <1>3, FirstMB, PMMConstants
<1>5. FirstMBFrames \in Nat /\ MAX_PAGES \in Nat
  BY FirstMB, PMMConstants
<1> QED
  BY <1>4, <1>5

\* One more frame is held after a request, at most.
LEMMA AllocCounts ==
  ASSUME IInv, Alloc
  PROVE  Cardinality(held') <= Cardinality(held) + 1 /\ Cardinality(held') \in Nat
<1>1. held' = held \cup ({Frame(ret')} \ {0})
  BY AllocAnswer
<1>2. IsFiniteSet(held) /\ Cardinality(held) \in Nat
  BY HeldIsFinite DEF IInv
<1> DEFINE g == Frame(ret')
<1>3. /\ Cardinality(held \cup {g}) <= Cardinality(held) + 1
      /\ Cardinality(held \cup {g}) \in Nat
  <2> HIDE DEF g
  <2>1. Cardinality(held \cup {g}) =
          IF g \in held THEN Cardinality(held) ELSE Cardinality(held) + 1
    BY <1>2, FS_AddElement
  <2> QED
    BY <1>2, <2>1
<1>4. held' = held \/ held' = held \cup {g}
  BY <1>1
<1> QED
  BY <1>2, <1>3, <1>4

\* A request while not all of the pool can be held: the first megabyte stays unused.
LEMMA UseKeepsEnough ==
  ASSUME CountIInv, Alloc, NEW use, Use(use),
         Cardinality(held) < HEAP_PAGES + 1 + PAGES
  PROVE  DOMAIN users' = 0 .. MAX_PAGES - 1 /\ EnoughIsEnough'
<1> DEFINE g == Frame(ret')
<1>1. /\ DOMAIN users = 0 .. MAX_PAGES - 1
      /\ users' = [users EXCEPT ![g] = @ \cup {<<use, i>>}]
  BY DEF CountIInv, Use
<1>2. /\ g # 0 => g \in Pool \ held
      /\ Pool \subseteq held \/ g # 0
      /\ boot' = boot
  BY AllocAnswer DEF CountIInv
<1>3. Pool' = Pool
  BY <1>2 DEF Pool, Modules, Installed
<1> HIDE DEF g
<1>4. ASSUME Cardinality(Pool) >= HEAP_PAGES + 1 + PAGES,
             NEW f \in 0 .. FirstMBFrames - 1
      PROVE  users'[f] = {}
  <2>1. /\ users[f] = {}
        /\ f \in DOMAIN users
    BY <1>1, <1>4, EnoughHasFrames DEF CountIInv, EnoughIsEnough, Enough, IInv
  <2>2. ~(Pool \subseteq held)
    <3> SUFFICES ASSUME Pool \subseteq held PROVE FALSE
      OBVIOUS
    <3>1. /\ IsFiniteSet(held) /\ Cardinality(held) \in Nat
          /\ Cardinality(Pool) \in Nat
      BY HeldIsFinite DEF CountIInv, IInv
    <3>2. Cardinality(Pool) <= Cardinality(held)
      BY <3>1, FS_Subset
    <3>3. HEAP_PAGES + 1 + PAGES \in Nat
      BY StartupConstants
    <3> QED
      BY <1>4, <3>1, <3>2, <3>3
  <2>3. g \in Pool
    BY <1>2, <2>2
  <2>4. f # g
    <3>1. g \in Nat /\ g * PAGE_SIZE >= LOW_KB * KB
      BY <2>3, PMMConstants DEF Pool
    <3>2. g >= FirstMBFrames /\ FirstMBFrames \in Nat
      BY <3>1, FirstMB
    <3> QED
      BY <1>4, <3>1, <3>2
  <2> QED
    BY <1>1, <2>1, <2>4
<1> QED
  BY <1>1, <1>3, <1>4 DEF EnoughIsEnough

\* kmain starts without frames.
LEMMA InitCountIInv == StartupInit => CountIInv
<1> SUFFICES ASSUME StartupInit PROVE CountIInv
  OBVIOUS
<1>1. /\ IInv /\ held = {} /\ i = 0 /\ pc \in {"pmm_init", "any"}
      /\ users = [f \in 0 .. MAX_PAGES - 1 |-> {}]
  BY InitIInv DEF StartupInit, Init
<1>2. EnoughIsEnough
  BY <1>1, EnoughHasFrames DEF EnoughIsEnough, Enough, IInv
<1> QED
  BY <1>1, <1>2 DEF CountIInv, HeldByCount

\* kmain's steps keep the count.
LEMMA StepCountIInv ==
  CountIInv /\ [StartupNext]_<<vars, kmainVars>> => CountIInv'
<1> SUFFICES ASSUME CountIInv, [StartupNext]_<<vars, kmainVars>>
             PROVE  CountIInv'
  OBVIOUS
<1>1. IInv'
  BY StartupStep, StepIInv DEF CountIInv
<1>2. /\ HEAP_PAGES \in Nat \ {0} /\ PAGES \in Nat \ {0}
      /\ Cardinality(held) \in Nat
  BY StartupConstants, HeldIsFinite DEF CountIInv, IInv
<1>3. ASSUME UNCHANGED <<boot, users>>
      PROVE  DOMAIN users' = 0 .. MAX_PAGES - 1 /\ EnoughIsEnough'
  <2>1. Pool' = Pool
    BY <1>3 DEF Pool, Modules, Installed
  <2> QED
    BY <1>3, <2>1 DEF CountIInv, EnoughIsEnough
<1>4. CASE kmain_pmm_init
  <2>1. /\ UNCHANGED <<boot, held, users, i>>
        /\ pc = "pmm_init" /\ pc' = "testar_pmm"
    BY <1>4 DEF kmain_pmm_init, Boot
  <2> QED
    BY <1>1, <1>3, <2>1 DEF CountIInv, HeldByCount
<1>5. CASE testar_pmm
  <2>1. /\ Alloc /\ Use("test") /\ pc = "testar_pmm"
        /\ i' = (i + 1) % 1 /\ pc' = IF i' = 0 THEN "pmm_free_page" ELSE pc
    BY <1>5 DEF testar_pmm, Takes
  <2>2. i = 0 /\ held = {}
    BY <2>1 DEF CountIInv, HeldByCount
  <2>3. i' = 0 /\ pc' = "pmm_free_page"
    BY <2>1, <2>2
  <2>4. held' \subseteq {Frame(ret')} \ {0}
    BY <2>1, <2>2, AllocAnswer DEF CountIInv
  <2>5. Cardinality(held) < HEAP_PAGES + 1 + PAGES
    BY <1>2, <2>2, FS_EmptySet
  <2>6. DOMAIN users' = 0 .. MAX_PAGES - 1 /\ EnoughIsEnough'
    BY <2>1, <2>5, UseKeepsEnough
  <2> QED
    BY <1>1, <2>3, <2>4, <2>6 DEF CountIInv, HeldByCount
<1>6. CASE testar_pmm_free
  <2>1. /\ pc = "pmm_free_page" /\ pc' = "kheap_init" /\ UNCHANGED <<i, users>>
        /\ IF ret = 0 THEN FreeFailed ELSE Free(Frame(ret))
    BY <1>6 DEF testar_pmm_free
  <2>2. i = 0 /\ held \subseteq {Frame(ret)} \ {0}
    BY <2>1 DEF CountIInv, HeldByCount
  <2>3. held' = {} /\ boot' = boot
    <3>1. CASE ret = 0
      <4>1. Frame(ret) = 0
        BY <3>1, PMMConstants, DivOfProduct DEF Frame
      <4> QED
        BY <2>1, <2>2, <3>1, <4>1 DEF FreeFailed
    <3>2. CASE ret # 0
      BY <2>1, <2>2, <3>2 DEF Free
    <3> QED
      BY <3>1, <3>2
  <2>4. Cardinality(held') = 0
    BY <2>3, FS_EmptySet
  <2>5. i' \in 0 .. HEAP_PAGES /\ Cardinality(held') <= i'
    BY <1>2, <2>1, <2>2, <2>4
  <2> QED
    BY <1>1, <1>3, <2>1, <2>3, <2>5 DEF CountIInv, HeldByCount
<1>7. CASE kheap_init
  <2>1. /\ Alloc /\ \E use : Use(use)
        /\ pc = "kheap_init" /\ i' = (i + 1) % (HEAP_PAGES + 1)
        /\ pc' = IF i' = 0 THEN "simulador" ELSE pc
    BY <1>7 DEF kheap_init
  <2>2. i \in 0 .. HEAP_PAGES /\ Cardinality(held) <= i
    BY <2>1 DEF CountIInv, HeldByCount
  <2>3. Cardinality(held) < HEAP_PAGES + 1 + PAGES
    BY <1>2, <2>2
  <2>4. DOMAIN users' = 0 .. MAX_PAGES - 1 /\ EnoughIsEnough'
    BY <2>1, <2>3, UseKeepsEnough
  <2>5. Cardinality(held') <= i + 1 /\ Cardinality(held') \in Nat
    BY <1>2, <2>1, <2>2, AllocCounts DEF CountIInv
  <2>6. i' = IF i + 1 = HEAP_PAGES + 1 THEN 0 ELSE i + 1
    <3>1. HEAP_PAGES + 1 \in Nat \ {0} /\ i \in 0 .. (HEAP_PAGES + 1) - 1
      BY <1>2, <2>2
    <3> QED
      BY <2>1, <3>1, LoopCounter
  <2>7. CASE i + 1 = HEAP_PAGES + 1
    <3>1. i' = 0 /\ pc' = "simulador"
      BY <2>1, <2>6, <2>7
    <3>2. i' \in 0 .. PAGES - 1 /\ Cardinality(held') <= HEAP_PAGES + 1 + i'
      BY <1>2, <2>5, <2>7, <3>1
    <3> QED
      BY <1>1, <2>4, <3>1, <3>2 DEF CountIInv, HeldByCount
  <2>8. CASE i + 1 # HEAP_PAGES + 1
    <3>1. i' = i + 1 /\ i' # 0
      BY <2>2, <2>6, <2>8
    <3>2. pc' = "kheap_init"
      BY <2>1, <3>1
    <3>3. i' \in 0 .. HEAP_PAGES /\ Cardinality(held') <= i'
      BY <1>2, <2>2, <2>5, <2>8, <3>1
    <3> QED
      BY <1>1, <2>4, <3>2, <3>3 DEF CountIInv, HeldByCount
  <2> QED
    BY <2>7, <2>8
<1>8. CASE traduzir_endereco
  <2>1. /\ Alloc /\ Use("copy")
        /\ pc = "simulador" /\ i' = (i + 1) % PAGES
        /\ pc' = IF i' = 0 THEN "run_first_module" ELSE pc
    BY <1>8 DEF traduzir_endereco, Takes
  <2>2. i \in 0 .. PAGES - 1 /\ Cardinality(held) <= HEAP_PAGES + 1 + i
    BY <2>1 DEF CountIInv, HeldByCount
  <2>3. Cardinality(held) < HEAP_PAGES + 1 + PAGES
    BY <1>2, <2>2
  <2>4. DOMAIN users' = 0 .. MAX_PAGES - 1 /\ EnoughIsEnough'
    BY <2>1, <2>3, UseKeepsEnough
  <2>5. Cardinality(held') <= HEAP_PAGES + 1 + i + 1 /\ Cardinality(held') \in Nat
    BY <1>2, <2>1, <2>2, AllocCounts DEF CountIInv
  <2>6. i' = IF i + 1 = PAGES THEN 0 ELSE i + 1
    BY <1>2, <2>1, <2>2, LoopCounter
  <2>7. CASE i + 1 = PAGES
    <3>1. pc' = "run_first_module"
      BY <2>1, <2>6, <2>7
    <3> QED
      BY <1>1, <2>4, <3>1 DEF CountIInv, HeldByCount
  <2>8. CASE i + 1 # PAGES
    <3>1. i' = i + 1 /\ i' # 0
      BY <2>2, <2>6, <2>8
    <3>2. pc' = "simulador"
      BY <2>1, <3>1
    <3>3. i' \in 0 .. PAGES - 1 /\ Cardinality(held') <= HEAP_PAGES + 1 + i'
      BY <1>2, <2>2, <2>5, <2>8, <3>1
    <3> QED
      BY <1>1, <2>4, <3>2, <3>3 DEF CountIInv, HeldByCount
  <2> QED
    BY <2>7, <2>8
<1>9. CASE run_first_module
  <2>1. UNCHANGED <<boot, users>> /\ pc' \in {"module", "hlt"}
    BY <1>9 DEF run_first_module, vars
  <2> QED
    BY <1>1, <1>3, <2>1 DEF CountIInv, HeldByCount
<1>10. CASE Halted \/ UNCHANGED <<vars, kmainVars>>
  <2>1. UNCHANGED <<boot, users, held, ret, pc, i>>
    BY <1>10 DEF Halted, vars, kmainVars
  <2>2. HeldByCount'
    BY <2>1 DEF CountIInv, HeldByCount
  <2> QED
    BY <1>1, <1>3, <2>1, <2>2 DEF CountIInv
<1>11. CASE OtherCallers
  <2>1. boot' = boot /\ users' = users /\ pc = "any" /\ pc' = "any"
    BY <1>11 DEF OtherCallers, kmainVars, Next, Boot, Alloc, Free, FreeFailed
  <2> QED
    BY <1>1, <1>3, <2>1 DEF CountIInv, HeldByCount
<1> QED
  BY <1>4, <1>5, <1>6, <1>7, <1>8, <1>9, <1>10, <1>11 DEF StartupNext

\* On a machine with frames enough for the heap, its table and the simulator, no
\* frame of the first megabyte is used by kmain (kmain.c:160-193): none of its
\* requests is answered with frame 0.
THEOREM FramesSuffice == StartupSpec => []EnoughIsEnough
<1>1. CountIInv => EnoughIsEnough
  BY DEF CountIInv
<1> QED
  BY <1>1, InitCountIInv, StepCountIInv, PTL DEF StartupSpec
============================================================================
