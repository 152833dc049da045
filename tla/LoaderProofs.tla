---------------------------- MODULE LoaderProofs ----------------------------
(***************************************************************************)
(* The virtual memory manager and the loader, for every size of tables and *)
(* directories, every number of directories and every set of frames, in    *)
(* the behaviours in which the frame allocator refuses no request; and how *)
(* many frames are enough for it to refuse none.                           *)
(***************************************************************************)
EXTENDS Loader, LeastElement

----------------------------------------------------------------------------
(* The inductive invariant *)

\* vmm_map of page p asks for no frame, or there is one.
Served(d, p, b) == Present(entries[d][p[1]]) \/ FreeFrames(b, Available) # {}

\* A step in which pmm_alloc_page refuses no request: vmm_map and kheap_init do
\* not look at its 0, so nothing is promised of what follows one that is refused.
NoneRefused ==
  /\ KheapInitPage =>
       /\ FreeFrames(bitmap, Available) # {}
       /\ Served(Boot, HeapPage(heap_pages), Taken(bitmap, Available))
  /\ \A d \in DOMAIN entries, p \in UserVPages : Map(d, p) => Served(d, p, bitmap)

Entries == [frame : Frames, flags : SUBSET {"P", "W", "U"}]
Indices == 0 .. PDES - 1
Words == [0 .. PTES - 1 -> Entries]
Heap == {HeapPage(j) : j \in 0 .. heap_pages - 1}

PagingType ==
  /\ Boot \in DOMAIN entries /\ DOMAIN entries \subseteq {Boot} \cup created
  /\ created \subseteq Dirs
  /\ entries \in [DOMAIN entries -> [Indices -> Entries]]
  /\ table \in [Frames -> Words]

MemoryType ==
  /\ bitmap \subseteq Frames /\ Reserved \subseteq bitmap
  /\ max_available_pages = Available
  /\ heap_pages \in 0 .. HEAP_PAGES
  /\ heap_pages < HEAP_PAGES => DOMAIN entries = {Boot}
  /\ cached \in [VPages -> Frames \cup {NoFrame}]

\* The kernel's part is the same everywhere, and its first table the loader's.
KernelPart ==
  /\ \A d \in DOMAIN entries, i \in Indices :
       i >= KERNEL_PDE => entries[d][i] = entries[Boot][i]
  /\ entries[Boot][KERNEL_PDE] = Entry(BOOT_TABLE, {"P", "W"})
  /\ \A k \in 0 .. PTES - 1 :
       table[BOOT_TABLE][k] = IF k = PTES - 1 THEN Zero ELSE Entry(k, {"P", "W"})

\* A table has a frame of its own; all but the loader's got it from the PMM.
SlotFrames ==
  /\ \A s, t \in TableSlots :
       entries[s[1]][s[2]].frame = entries[t[1]][t[2]].frame => s = t
  /\ \A s \in TableSlots :
       /\ entries[s[1]][s[2]].frame \in bitmap
       /\ s = <<Boot, KERNEL_PDE>> \/ entries[s[1]][s[2]].frame \notin Reserved

\* So has a page of the heap.
HeapFrames ==
  /\ \A p, q \in Heap : Walk(Boot, p) = Walk(Boot, q) => p = q
  /\ \A p \in Heap :
       /\ Walk(Boot, p) \in bitmap \ Reserved
       /\ \A s \in TableSlots : entries[s[1]][s[2]].frame # Walk(Boot, p)

SpaceIInv ==
  /\ PagingType /\ MemoryType /\ KernelPart /\ SlotFrames /\ HeapFrames
  /\ OnlyWhatWasMapped /\ CacheCoherent

----------------------------------------------------------------------------
(* Sizes, the search, and the pages of the heap *)

\* What the assumptions say of the sizes.
LEMMA Sizes ==
  /\ MAX_PAGES \in Nat /\ PDES \in Nat /\ PTES \in Nat \ {0} /\ PTES <= MAX_PAGES
  /\ KERNEL_PDE \in Nat /\ 1 <= KERNEL_PDE /\ KERNEL_PDE <= PDES - 2
  /\ KERNEL_PDE \in Indices /\ KERNEL_PDE + 1 \in Indices
  /\ BOOT_TABLE \in Frames /\ BOOT_TABLE \in Reserved /\ BOOT_TABLE \notin DataFrames
  /\ 0 .. PTES - 1 \subseteq Frames
  /\ Zero \in Entries /\ ~Present(Zero)
  /\ NoFrame \notin Frames
  /\ Temp \in VPages /\ Boot \notin Dirs
<1>1. /\ MAX_PAGES \in Nat \ {0} /\ PDES \in Nat \ {0} /\ PTES \in Nat \ {0}
      /\ PTES <= MAX_PAGES /\ KERNEL_PDE \in 1 .. PDES - 2
      /\ BOOT_TABLE \in 1 .. MAX_PAGES - 1 /\ Boot \notin Dirs
  BY PMMConstants, VMMConstants
<1>2. BOOT_TABLE \in Reserved /\ BOOT_TABLE \notin DataFrames
  BY VMMSpecConstants
<1>3. Zero \in Entries /\ ~Present(Zero)
  BY <1>1 DEF Zero, Entry, Entries, Frames, Present
<1> QED
  BY <1>1, <1>2, <1>3 DEF Frames, NoFrame, Temp, VPages, Indices

\* An entry is present, or not, whatever its frame.
LEMMA EntryFlags ==
  ASSUME NEW f \in Frames, NEW flags \in SUBSET {"W", "U"}
  PROVE  /\ Entry(f, {"P"} \cup flags) \in Entries
         /\ Present(Entry(f, {"P"} \cup flags))
         /\ Entry(f, {"P"} \cup flags).frame = f
BY DEF Entry, Entries, Present

\* pmm_alloc_page, when a frame is left.
LEMMA Search ==
  ASSUME NEW b \in SUBSET Frames, FreeFrames(b, Available) # {}
  PROVE  /\ FirstFree(b, Available) \in Frames \ b
         /\ Taken(b, Available) = b \cup {FirstFree(b, Available)}
<1> DEFINE free == FreeFrames(b, Available)
<1>1. FirstMBFrames \in Nat
  BY PMMConstants DEF FirstMBFrames
<1>2. Available \in Nat /\ Available <= MAX_PAGES /\ MAX_PAGES \in Nat
  BY VMMSpecConstants, Sizes
<1>3. free \in SUBSET Nat /\ free \subseteq Frames \ b
  BY <1>1, <1>2 DEF FreeFrames, Frames
<1>4. Min(free) \in free
  BY <1>3, MinIsLeast
<1>5. FirstFree(b, Available) = Min(free) /\ Taken(b, Available) = b \cup {FirstFree(b, Available)}
  BY DEF FirstFree, Taken
<1> QED
  BY <1>3, <1>4, <1>5

\* The pages of the heap are in the kernel's part behind its first table, and differ.
LEMMA HeapPages ==
  ASSUME NEW i \in Nat, i < HEAP_PAGES
  PROVE  /\ HeapPage(i) \in VPages /\ HeapPage(i)[1] > KERNEL_PDE
         /\ \A j \in Nat : HeapPage(i) = HeapPage(j) => i = j
<1>1. /\ PTES \in Nat \ {0} /\ PDES \in Nat /\ KERNEL_PDE \in Nat
      /\ i < (PDES - KERNEL_PDE - 1) * PTES /\ PDES - KERNEL_PDE - 1 \in Nat
  BY Sizes, VMMConstants
<1>2. ASSUME NEW n \in Nat
      PROVE  /\ n \div PTES \in Nat /\ n % PTES \in 0 .. PTES - 1
             /\ n = PTES * (n \div PTES) + (n % PTES)
  BY <1>1
<1>3. i \div PTES < PDES - KERNEL_PDE - 1
  <2> DEFINE q == i \div PTES
             m == PDES - KERNEL_PDE - 1
  <2>1. q \in Nat /\ m \in Nat /\ PTES * q <= i /\ i < m * PTES
    BY <1>1, <1>2
  <2> HIDE DEF q, m
  <2>2. CASE q >= m
    <3>1. PTES * q >= PTES * m
      BY <1>1, <2>1, <2>2
    <3>2. PTES * m = m * PTES /\ PTES * m \in Nat /\ PTES * q \in Nat
      BY <1>1, <2>1
    <3> QED
      BY <2>1, <3>1, <3>2
  <2> QED
    BY <2>1, <2>2 DEF q, m
<1>4. HeapPage(i) \in VPages /\ HeapPage(i)[1] > KERNEL_PDE
  <2>1. /\ KERNEL_PDE + 1 + i \div PTES \in 0 .. PDES - 1
        /\ KERNEL_PDE + 1 + i \div PTES > KERNEL_PDE
    BY <1>1, <1>2, <1>3
  <2> QED
    BY <1>2, <2>1 DEF HeapPage, VPages
<1>5. ASSUME NEW j \in Nat, HeapPage(i) = HeapPage(j) PROVE i = j
  <2>1. /\ KERNEL_PDE + 1 + i \div PTES = KERNEL_PDE + 1 + j \div PTES
        /\ i % PTES = j % PTES
    BY <1>5 DEF HeapPage
  <2>2. i \div PTES = j \div PTES
    BY <1>1, <1>2, <2>1
  <2> QED
    BY <1>2, <2>1, <2>2
<1> QED
  BY <1>4, <1>5

----------------------------------------------------------------------------
(* The words vmm_map writes *)

\* Words of a frame after one of them is written.
LEMMA WordWritten ==
  ASSUME NEW words \in [Frames -> Words], NEW t \in Frames, NEW k0 \in 0 .. PTES - 1,
         NEW e \in Entries
  PROVE  /\ [words EXCEPT ![t][k0] = e] \in [Frames -> Words]
         /\ \A f \in Frames, k \in 0 .. PTES - 1 :
              [words EXCEPT ![t][k0] = e][f][k] =
                IF f = t /\ k = k0 THEN e ELSE words[f][k]
BY DEF Words

\* And after all of them are cleared.
LEMMA WordsCleared ==
  ASSUME NEW words \in [Frames -> Words], NEW t \in Frames
  PROVE  /\ Cleared(words, t) \in [Frames -> Words]
         /\ \A f \in Frames, k \in 0 .. PTES - 1 :
              Cleared(words, t)[f][k] = IF f = t THEN Zero ELSE words[f][k]
BY Sizes DEF Cleared, Words

\* Closing the window clears its entry.
LEMMA WindowWords ==
  ASSUME NEW words \in [Frames -> Words]
  PROVE  /\ WindowClosed(words) \in [Frames -> Words]
         /\ \A f \in Frames, k \in 0 .. PTES - 1 :
              WindowClosed(words)[f][k] =
                IF f = BOOT_TABLE /\ k = PTES - 1 THEN Zero ELSE words[f][k]
<1>1. PTES - 1 \in 0 .. PTES - 1 /\ BOOT_TABLE \in Frames /\ Zero \in Entries
  BY Sizes
<1> QED
  BY <1>1, WordWritten DEF WindowClosed

\* The entry of the directory, the frame of the table, and the words after.
Mapped(d0, p0, f0, flags, b, t) ==
  LET old == entries[d0][p0[1]]
  IN  /\ entries' \in [DOMAIN entries -> [Indices -> Entries]]
      /\ table' \in [Frames -> Words]
      /\ IF Present(old) THEN t = old.frame /\ bitmap' = b
                         ELSE t \notin b /\ bitmap' = b \cup {t}
      /\ (entries')[d0][p0[1]].frame = t /\ Present((entries')[d0][p0[1]])
      /\ \A d \in DOMAIN entries, i \in Indices :
           d # d0 \/ i # p0[1] => (entries')[d][i] = entries[d][i]
      /\ \A f \in Frames, k \in 0 .. PTES - 1 : (table')[f][k] =
           IF f = BOOT_TABLE /\ k = PTES - 1 THEN Zero
           ELSE IF f = t /\ k = p0[2] THEN Entry(f0, {"P"} \cup flags)
           ELSE IF f = t /\ ~Present(old) THEN Zero ELSE table[f][k]

\* vmm_map uses the table there is, or a frame the PMM had, cleared.
LEMMA MapTables ==
  ASSUME PagingType, NEW d0 \in DOMAIN entries, NEW p0 \in VPages, NEW f0 \in Frames,
         NEW flags \in SUBSET {"W", "U"}, NEW b \in SUBSET Frames,
         Served(d0, p0, b), max_available_pages = Available,
         vmm_map(d0, p0, f0, flags, b)
  PROVE  \E t \in Frames : Mapped(d0, p0, f0, flags, b, t)
<1> DEFINE old == entries[d0][p0[1]]
           e == Entry(f0, {"P"} \cup flags)
           got == TableFor(d0, p0[1], flags, b)
<1>1. p0[1] \in Indices /\ p0[2] \in 0 .. PTES - 1
  BY DEF VPages, Indices
<1>2. /\ entries \in [DOMAIN entries -> [Indices -> Entries]]
      /\ table \in [Frames -> Words]
      /\ old \in Entries /\ old.frame \in Frames
  BY <1>1 DEF PagingType, Entries
<1>3. e \in Entries
  BY EntryFlags
<1>4. /\ got.words \in [Frames -> Words] /\ got.entry \in Entries
      /\ Present(got.entry)
      /\ \A f \in Frames, k \in 0 .. PTES - 1 : got.words[f][k] =
           IF f = got.entry.frame /\ ~Present(old) THEN Zero ELSE table[f][k]
      /\ IF Present(old) THEN got.entry = old /\ got.bitmap = b
         ELSE got.entry.frame \notin b /\ got.bitmap = b \cup {got.entry.frame}
  <2>1. CASE Present(old)
    BY <1>2, <2>1 DEF TableFor
  <2>2. CASE ~Present(old)
    <3> DEFINE t == FirstFree(b, Available)
    <3>1. t \in Frames \ b /\ Taken(b, Available) = b \cup {t}
      BY <2>2, Search DEF Served
    <3>2. /\ got.entry = Entry(t, {"P"} \cup flags) /\ got.words = Cleared(table, t)
          /\ got.bitmap = Taken(b, Available)
      BY <2>2 DEF TableFor
    <3> HIDE DEF t, got
    <3>3. /\ got.entry \in Entries /\ Present(got.entry) /\ got.entry.frame = t
      BY <3>1, <3>2, EntryFlags
    <3>4. /\ got.words \in [Frames -> Words]
          /\ \A f \in Frames, k \in 0 .. PTES - 1 :
               got.words[f][k] = IF f = t THEN Zero ELSE table[f][k]
      BY <1>2, <3>1, <3>2, WordsCleared
    <3> QED
      BY <2>2, <3>1, <3>2, <3>3, <3>4
  <2> QED
    BY <2>1, <2>2
<1>5. /\ entries' = [entries EXCEPT ![d0][p0[1]] = got.entry]
      /\ bitmap' = got.bitmap
      /\ table' = WindowClosed([got.words EXCEPT ![got.entry.frame][p0[2]] = e])
  BY DEF vmm_map
<1> HIDE DEF got, e
<1> DEFINE t == got.entry.frame
<1>6. t \in Frames
  BY <1>4 DEF Entries
<1>7. /\ table' \in [Frames -> Words]
      /\ \A f \in Frames, k \in 0 .. PTES - 1 : (table')[f][k] =
           IF f = BOOT_TABLE /\ k = PTES - 1 THEN Zero
           ELSE IF f = t /\ k = p0[2] THEN e ELSE got.words[f][k]
  <2> DEFINE after == [got.words EXCEPT ![t][p0[2]] = e]
  <2>1. /\ after \in [Frames -> Words]
        /\ \A f \in Frames, k \in 0 .. PTES - 1 :
             after[f][k] = IF f = t /\ k = p0[2] THEN e ELSE got.words[f][k]
    <3>1. got.words \in [Frames -> Words] /\ t \in Frames /\ p0[2] \in 0 .. PTES - 1
      BY <1>1, <1>4, <1>6
    <3> QED
      BY <1>3, <3>1, WordWritten
  <2> HIDE DEF after
  <2>2. /\ WindowClosed(after) \in [Frames -> Words]
        /\ \A f \in Frames, k \in 0 .. PTES - 1 : WindowClosed(after)[f][k] =
             IF f = BOOT_TABLE /\ k = PTES - 1 THEN Zero ELSE after[f][k]
    BY <2>1, WindowWords, Zenon
  <2>3. table' = WindowClosed(after)
    BY <1>5 DEF after
  <2> QED
    BY <2>1, <2>2, <2>3
<1>8. /\ entries' \in [DOMAIN entries -> [Indices -> Entries]]
      /\ (entries')[d0][p0[1]] = got.entry
      /\ \A d \in DOMAIN entries, i \in Indices :
           d # d0 \/ i # p0[1] => (entries')[d][i] = entries[d][i]
  BY <1>1, <1>2, <1>4, <1>5
<1>9. Mapped(d0, p0, f0, flags, b, t)
  <2>1. IF Present(old) THEN t = old.frame /\ bitmap' = b
                        ELSE t \notin b /\ bitmap' = b \cup {t}
    BY <1>4, <1>5
  <2>2. \A f \in Frames, k \in 0 .. PTES - 1 : (table')[f][k] =
          IF f = BOOT_TABLE /\ k = PTES - 1 THEN Zero
          ELSE IF f = t /\ k = p0[2] THEN e
          ELSE IF f = t /\ ~Present(old) THEN Zero ELSE table[f][k]
    BY <1>4, <1>7
  <2>3. (entries')[d0][p0[1]].frame = t /\ Present((entries')[d0][p0[1]])
    BY <1>4, <1>8
  <2> QED
    BY <1>7, <1>8, <2>1, <2>2, <2>3, Zenon DEF Mapped, e
<1> QED
  BY <1>6, <1>9

----------------------------------------------------------------------------
(* What it does to translations *)

\* A table in use has a slot, which for the kernel's part is Boot's.
LEMMA SlotOf ==
  ASSUME KernelPart, Boot \in DOMAIN entries, NEW d \in DOMAIN entries,
         NEW i \in Indices, Present(entries[d][i])
  PROVE  LET s == IF i < KERNEL_PDE THEN <<d, i>> ELSE <<Boot, i>>
         IN  s \in TableSlots /\ entries[s[1]][s[2]] = entries[d][i]
<1>1. i \in Nat /\ KERNEL_PDE \in Nat
  BY Sizes DEF Indices
<1>2. CASE i < KERNEL_PDE
  BY <1>2 DEF TableSlots, Indices
<1>3. CASE ~(i < KERNEL_PDE)
  <2>1. entries[d][i] = entries[Boot][i]
    BY <1>1, <1>3 DEF KernelPart
  <2> QED
    BY <1>3, <2>1 DEF TableSlots, Indices
<1> QED
  BY <1>2, <1>3

\* The slot of the loader's table.
LEMMA BootSlot ==
  ASSUME KernelPart, Boot \in DOMAIN entries
  PROVE  /\ <<Boot, KERNEL_PDE>> \in TableSlots
         /\ Present(entries[Boot][KERNEL_PDE]) /\ entries[Boot][KERNEL_PDE].frame = BOOT_TABLE
BY Sizes DEF KernelPart, TableSlots, Present, Entry, Indices

\* Where vmm_map may be told to map: the user part, or, while there is only Boot,
\* the kernel's part behind the first table.
MayMap(p0) ==
  p0[1] < KERNEL_PDE \/ (p0[1] > KERNEL_PDE /\ DOMAIN entries = {Boot})

\* Its table is no other slot's.
LEMMA OtherTables ==
  ASSUME PagingType, KernelPart, SlotFrames, NEW d0 \in DOMAIN entries,
         NEW p0 \in VPages, MayMap(p0), NEW f0, NEW flags, NEW b, bitmap \subseteq b,
         NEW t, Mapped(d0, p0, f0, flags, b, t),
         NEW d \in DOMAIN entries, NEW i \in Indices, Present(entries[d][i]),
         d # d0 \/ i # p0[1]
  PROVE  entries[d][i].frame # t
<1> DEFINE s == IF i < KERNEL_PDE THEN <<d, i>> ELSE <<Boot, i>>
           s0 == <<d0, p0[1]>>
<1>1. s \in TableSlots /\ entries[s[1]][s[2]] = entries[d][i]
  BY SlotOf DEF PagingType
<1>2. p0[1] \in Indices /\ KERNEL_PDE \in Nat /\ i \in Nat /\ p0[1] \in Nat
  BY Sizes DEF VPages, Indices
<1>3. s # s0
  BY <1>2 DEF MayMap
<1>4. CASE Present(entries[d0][p0[1]])
  <2>1. s0 \in TableSlots /\ t = entries[s0[1]][s0[2]].frame
    BY <1>2, <1>4 DEF MayMap, TableSlots, Mapped, Indices
  <2> HIDE DEF s, s0
  <2> QED
    BY <1>1, <1>3, <2>1 DEF SlotFrames
<1>5. CASE ~Present(entries[d0][p0[1]])
  <2>1. t \notin b
    BY <1>5 DEF Mapped
  <2> HIDE DEF s
  <2> QED
    BY <1>1, <2>1 DEF SlotFrames
<1> QED
  BY <1>4, <1>5

\* vmm_map changes the translation of its page, in its directory, and no other.
LEMMA MapWalk ==
  ASSUME PagingType, KernelPart, SlotFrames, NEW d0 \in DOMAIN entries,
         NEW p0 \in VPages, MayMap(p0), NEW f0 \in Frames,
         NEW flags \in SUBSET {"W", "U"}, NEW b, bitmap \subseteq b,
         NEW t \in Frames, Mapped(d0, p0, f0, flags, b, t)
  PROVE  \A d \in DOMAIN entries, q \in VPages :
           Walk(d, q)' = IF d = d0 /\ q = p0 THEN f0 ELSE Walk(d, q)
<1> DEFINE old == entries[d0][p0[1]]
<1>1. /\ \A f \in Frames, k \in 0 .. PTES - 1 : (table')[f][k] =
           IF f = BOOT_TABLE /\ k = PTES - 1 THEN Zero
           ELSE IF f = t /\ k = p0[2] THEN Entry(f0, {"P"} \cup flags)
           ELSE IF f = t /\ ~Present(old) THEN Zero ELSE table[f][k]
      /\ (entries')[d0][p0[1]].frame = t /\ Present((entries')[d0][p0[1]])
      /\ \A d \in DOMAIN entries, i \in Indices :
           d # d0 \/ i # p0[1] => (entries')[d][i] = entries[d][i]
      /\ Present(old) => t = old.frame
  BY DEF Mapped
<1>2. t # BOOT_TABLE
  <2>1. Boot \in DOMAIN entries /\ KERNEL_PDE \in Indices /\ KERNEL_PDE # p0[1]
    BY Sizes DEF PagingType, MayMap
  <2>2. Present(entries[Boot][KERNEL_PDE]) /\ entries[Boot][KERNEL_PDE].frame = BOOT_TABLE
    BY <2>1, BootSlot
  <2> QED
    BY <2>1, <2>2, OtherTables
<1> SUFFICES ASSUME NEW d \in DOMAIN entries, NEW q \in VPages
             PROVE  Walk(d, q)' = IF d = d0 /\ q = p0 THEN f0 ELSE Walk(d, q)
  OBVIOUS
<1>3. /\ q[1] \in Indices /\ q[2] \in 0 .. PTES - 1 /\ p0[2] \in 0 .. PTES - 1
      /\ (q = p0 <=> q[1] = p0[1] /\ q[2] = p0[2])
  BY DEF VPages, Indices
<1>4. CASE d = d0 /\ q[1] = p0[1]
  <2>1. Walk(d, q)' = IF Present((table')[t][q[2]]) THEN (table')[t][q[2]].frame ELSE NoFrame
    BY <1>1, <1>4 DEF Walk
  <2>2. CASE q[2] = p0[2]
    <3>1. (table')[t][q[2]] = Entry(f0, {"P"} \cup flags)
      BY <1>1, <1>2, <1>3, <2>2
    <3> QED
      BY <1>3, <1>4, <2>1, <2>2, <3>1, EntryFlags
  <2>3. CASE q[2] # p0[2] /\ Present(old)
    <3>1. (table')[t][q[2]] = table[old.frame][q[2]]
      BY <1>1, <1>2, <1>3, <2>3
    <3> QED
      BY <1>1, <1>3, <1>4, <2>1, <2>3, <3>1 DEF Walk
  <2>4. CASE q[2] # p0[2] /\ ~Present(old)
    <3>1. (table')[t][q[2]] = Zero
      BY <1>1, <1>2, <1>3, <2>4
    <3> QED
      BY <1>3, <1>4, <2>1, <2>4, <3>1, Sizes DEF Walk
  <2> QED
    BY <2>2, <2>3, <2>4
<1>5. CASE d # d0 \/ q[1] # p0[1]
  <2>1. (entries')[d][q[1]] = entries[d][q[1]]
    BY <1>1, <1>3, <1>5
  <2>2. CASE ~Present(entries[d][q[1]])
    BY <1>3, <1>5, <2>1, <2>2 DEF Walk
  <2>3. CASE Present(entries[d][q[1]])
    <3> DEFINE x == entries[d][q[1]].frame
    <3>1. x # t
      BY <1>3, <1>5, <2>3, OtherTables
    <3>2. x \in Frames
      BY <1>3 DEF PagingType, Entries
    <3>3. (table')[x][q[2]] = table[x][q[2]]
      BY <1>1, <1>3, <3>1, <3>2 DEF KernelPart
    <3> QED
      BY <1>3, <1>5, <2>1, <2>3, <3>3 DEF Walk
  <2> QED
    BY <2>2, <2>3
<1> QED
  BY <1>4, <1>5

\* Its slots: the one it uses has a table, and all others are as they were.
LEMMA MapSlots ==
  ASSUME PagingType, KernelPart, SlotFrames, Reserved \subseteq bitmap,
         NEW d0 \in DOMAIN entries,
         NEW p0 \in VPages, MayMap(p0), NEW f0 \in Frames,
         NEW flags \in SUBSET {"W", "U"}, NEW b, bitmap \subseteq b,
         NEW t \in Frames, Mapped(d0, p0, f0, flags, b, t), created' = created
  PROVE  /\ PagingType' /\ KernelPart' /\ SlotFrames'
         /\ DOMAIN entries' = DOMAIN entries /\ b \subseteq bitmap'
         /\ \A s \in TableSlots' :
              \/ s \in TableSlots /\ (entries')[s[1]][s[2]].frame = entries[s[1]][s[2]].frame
              \/ (entries')[s[1]][s[2]].frame \in bitmap' \ b
<1> DEFINE old == entries[d0][p0[1]]
           s0 == <<d0, p0[1]>>
<1>1. /\ entries' \in [DOMAIN entries -> [Indices -> Entries]]
      /\ table' \in [Frames -> Words]
      /\ IF Present(old) THEN t = old.frame /\ bitmap' = b
                         ELSE t \notin b /\ bitmap' = b \cup {t}
      /\ (entries')[d0][p0[1]].frame = t /\ Present((entries')[d0][p0[1]])
      /\ \A d \in DOMAIN entries, i \in Indices :
           d # d0 \/ i # p0[1] => (entries')[d][i] = entries[d][i]
      /\ \A f \in Frames, k \in 0 .. PTES - 1 : f # t =>
           (table')[f][k] = IF f = BOOT_TABLE /\ k = PTES - 1 THEN Zero ELSE table[f][k]
  BY DEF Mapped
<1>2. /\ p0[1] \in Indices /\ KERNEL_PDE \in Nat /\ KERNEL_PDE \in Indices
      /\ p0[1] \in Nat /\ Boot \in DOMAIN entries /\ p0[1] # KERNEL_PDE
  BY Sizes DEF VPages, Indices, MayMap, PagingType
<1>3. DOMAIN entries' = DOMAIN entries
  BY <1>1
<1>4. PagingType'
  BY <1>1, <1>3 DEF PagingType
<1>5. BOOT_TABLE # t
  BY <1>2, BootSlot, OtherTables
<1>6. KernelPart'
  <2>1. ASSUME NEW d \in DOMAIN entries, NEW i \in Indices, i >= KERNEL_PDE
        PROVE  (entries')[d][i] = (entries')[Boot][i]
    <3>1. CASE p0[1] < KERNEL_PDE
      <4>1. i # p0[1]
        BY <1>2, <2>1, <3>1 DEF Indices
      <4> QED
        BY <1>1, <1>2, <2>1, <4>1 DEF KernelPart
    <3>2. CASE DOMAIN entries = {Boot}
      BY <3>2
    <3> QED
      BY <3>1, <3>2 DEF MayMap
  <2>2. (entries')[Boot][KERNEL_PDE] = Entry(BOOT_TABLE, {"P", "W"})
    BY <1>1, <1>2 DEF KernelPart
  <2>3. \A k \in 0 .. PTES - 1 : (table')[BOOT_TABLE][k] =
          IF k = PTES - 1 THEN Zero ELSE Entry(k, {"P", "W"})
    BY <1>1, <1>5, Sizes DEF KernelPart
  <2> QED
    BY <1>3, <2>1, <2>2, <2>3 DEF KernelPart
<1>7. ASSUME NEW s \in TableSlots', s # s0
      PROVE  /\ s \in TableSlots
             /\ (entries')[s[1]][s[2]].frame = entries[s[1]][s[2]].frame
             /\ entries[s[1]][s[2]].frame # t
  <2>1. /\ s = <<s[1], s[2]>> /\ s[1] \in DOMAIN entries /\ s[2] \in Indices
        /\ s[1] = Boot \/ s[2] < KERNEL_PDE
        /\ Present((entries')[s[1]][s[2]])
    BY <1>3 DEF TableSlots, Indices
  <2>2. s[1] # d0 \/ s[2] # p0[1]
    BY <1>7, <2>1
  <2>3. (entries')[s[1]][s[2]] = entries[s[1]][s[2]]
    BY <1>1, <2>1, <2>2
  <2>4. s \in TableSlots
    BY <2>1, <2>3 DEF TableSlots, Indices
  <2>5. entries[s[1]][s[2]].frame # t
    BY <2>1, <2>2, <2>3, OtherTables
  <2> QED
    BY <2>3, <2>4, <2>5
<1>8. (entries')[s0[1]][s0[2]].frame = t
  BY <1>1
<1>9. t \in bitmap' /\ t \notin Reserved
  <2>1. CASE Present(old)
    <3>1. s0 \in TableSlots /\ s0 # <<Boot, KERNEL_PDE>> /\ entries[s0[1]][s0[2]].frame = t
      BY <1>1, <1>2, <2>1 DEF MayMap, TableSlots, Indices
    <3> HIDE DEF s0
    <3> QED
      BY <1>1, <2>1, <3>1 DEF SlotFrames
  <2>2. CASE ~Present(old)
    BY <1>1, <2>2
  <2> QED
    BY <2>1, <2>2
<1> HIDE DEF s0
<1>10. b \subseteq bitmap'
  BY <1>1
<1>11. SlotFrames'
  <2>1. \A s, u \in TableSlots' :
          (entries')[s[1]][s[2]].frame = (entries')[u[1]][u[2]].frame => s = u
    BY <1>7, <1>8 DEF SlotFrames
  <2>2. ASSUME NEW s \in TableSlots'
        PROVE  /\ (entries')[s[1]][s[2]].frame \in bitmap'
               /\ s = <<Boot, KERNEL_PDE>> \/ (entries')[s[1]][s[2]].frame \notin Reserved
    <3>1. CASE s = s0
      BY <1>8, <1>9, <3>1
    <3>2. CASE s # s0
      BY <1>7, <1>10, <3>2 DEF SlotFrames
    <3> QED
      BY <3>1, <3>2
  <2> QED
    BY <2>1, <2>2 DEF SlotFrames
<1>12. ASSUME NEW s \in TableSlots'
       PROVE  \/ s \in TableSlots /\ (entries')[s[1]][s[2]].frame = entries[s[1]][s[2]].frame
              \/ (entries')[s[1]][s[2]].frame \in bitmap' \ b
  <2>1. CASE s # s0
    BY <1>7, <2>1
  <2>2. CASE s = s0 /\ Present(old)
    <3>1. s0 \in TableSlots /\ entries[s0[1]][s0[2]].frame = t
      BY <1>1, <1>2, <2>2 DEF MayMap, TableSlots, Indices, s0
    <3> QED
      BY <1>8, <2>2, <3>1
  <2>3. CASE s = s0 /\ ~Present(old)
    BY <1>1, <1>8, <1>9, <2>3
  <2> QED
    BY <2>1, <2>2, <2>3
<1> QED
  BY <1>3, <1>4, <1>6, <1>10, <1>11, <1>12

\* invlpg for the page whose translation changed keeps the cache coherent.
LEMMA Invalidates ==
  ASSUME PagingType, cached \in [VPages -> Frames \cup {NoFrame}], NEW p0 \in VPages,
         Invlpg({p0, Temp}),
         \A q \in VPages : q # p0 => Walk(Boot, q)' = Walk(Boot, q)
  PROVE  /\ cached' \in [VPages -> Frames \cup {NoFrame}]
         /\ CacheCoherent => CacheCoherent'
<1>1. /\ cached' = [p \in VPages |-> IF p \in {p0, Temp} THEN NoFrame ELSE cached[p]]
      /\ invalidated' = invalidated \cup {p0, Temp}
  BY DEF Invlpg
<1>2. ASSUME CacheCoherent PROVE CacheCoherent'
  <2> SUFFICES ASSUME NEW p \in VPages
               PROVE  \/ (cached')[p] \in {NoFrame, Walk(Boot, p)'}
                      \/ p \in LoaderPages \ invalidated' /\ (cached')[p] = p[2]
    BY Zenon DEF CacheCoherent, LoaderPages
  <2>1. CASE p \in {p0, Temp}
    BY <1>1, <2>1
  <2>2. CASE p \notin {p0, Temp}
    <3>1. (cached')[p] = cached[p] /\ (p \notin invalidated => p \notin invalidated')
      BY <1>1, <2>2
    <3>2. Walk(Boot, p)' = Walk(Boot, p)
      BY <2>2
    <3>3. \/ cached[p] \in {NoFrame, Walk(Boot, p)}
          \/ p \in LoaderPages \ invalidated /\ cached[p] = p[2]
      BY <1>2 DEF CacheCoherent
    <3> QED
      BY <3>1, <3>2, <3>3
  <2> QED
    BY <2>1, <2>2
<1> QED
  BY <1>1, <1>2

\* What vmm_map does to an address space, and what it leaves as it was.
MapEffect(d0, p0, f0, b) ==
  /\ PagingType' /\ KernelPart' /\ SlotFrames'
  /\ DOMAIN entries' = DOMAIN entries
  /\ b \subseteq bitmap' /\ bitmap' \subseteq Frames
  /\ max_available_pages' = Available
  /\ \A s \in TableSlots' :
       \/ s \in TableSlots /\ (entries')[s[1]][s[2]].frame = entries[s[1]][s[2]].frame
       \/ (entries')[s[1]][s[2]].frame \in bitmap' \ b
  /\ \A d \in DOMAIN entries, q \in VPages :
       Walk(d, q)' = IF d = d0 /\ q = p0 THEN f0 ELSE Walk(d, q)
  /\ cached' \in [VPages -> Frames \cup {NoFrame}]
  /\ CacheCoherent => CacheCoherent'

\* vmm_map as a whole, when the PMM had a frame for it.
LEMMA Maps ==
  ASSUME PagingType, MemoryType, KernelPart, SlotFrames, NEW d0 \in DOMAIN entries,
         NEW p0 \in VPages, MayMap(p0), NEW f0 \in Frames,
         NEW flags \in SUBSET {"W", "U"}, NEW b \in SUBSET Frames, bitmap \subseteq b,
         vmm_map(d0, p0, f0, flags, b), Served(d0, p0, b), created' = created
  PROVE  MapEffect(d0, p0, f0, b)
<1>1. max_available_pages' = Available /\ max_available_pages = Available
  BY DEF vmm_map, MemoryType
<1>2. Served(d0, p0, b)
  OBVIOUS
<1>3. PICK t \in Frames : Mapped(d0, p0, f0, flags, b, t)
  BY <1>1, <1>2, MapTables
<1>4. bitmap' \subseteq Frames
  BY <1>3 DEF Mapped
<1>5. /\ PagingType' /\ KernelPart' /\ SlotFrames'
      /\ DOMAIN entries' = DOMAIN entries /\ b \subseteq bitmap'
      /\ \A s \in TableSlots' :
           \/ s \in TableSlots /\ (entries')[s[1]][s[2]].frame = entries[s[1]][s[2]].frame
           \/ (entries')[s[1]][s[2]].frame \in bitmap' \ b
  BY <1>3, MapSlots DEF MemoryType
<1>6. \A d \in DOMAIN entries, q \in VPages :
        Walk(d, q)' = IF d = d0 /\ q = p0 THEN f0 ELSE Walk(d, q)
  BY <1>3, MapWalk
<1>7. Invlpg({p0, Temp})
  BY DEF vmm_map
<1>8. \A q \in VPages : q # p0 => Walk(Boot, q)' = Walk(Boot, q)
  BY <1>6 DEF PagingType
<1>9. /\ cached' \in [VPages -> Frames \cup {NoFrame}]
      /\ CacheCoherent => CacheCoherent'
  BY <1>7, <1>8, Invalidates, Zenon DEF MemoryType
<1> QED
  BY <1>1, <1>4, <1>5, <1>6, <1>9 DEF MapEffect

----------------------------------------------------------------------------
(* The steps of the kernel *)

\* The heap is in the kernel's part, behind the first table.
LEMMA HeapInKernel ==
  ASSUME heap_pages \in 0 .. HEAP_PAGES
  PROVE  \A p \in Heap : p \in VPages /\ p[1] > KERNEL_PDE
<1>1. HEAP_PAGES \in Nat
  BY VMMConstants, Sizes
<1>2. \A j \in 0 .. heap_pages - 1 : j \in Nat /\ j < HEAP_PAGES
  BY <1>1
<1> QED
  BY <1>2, HeapPages DEF Heap

\* The next page of the heap gets a frame nobody has.
LEMMA KheapStep ==
  ASSUME SpaceIInv, KheapInitPage, NoneRefused
  PROVE  /\ SpaceIInv'
         /\ DOMAIN entries = {Boot} /\ DOMAIN entries' = {Boot}
         /\ \E p0 \in KernelVPages \ {Temp}, f0 \in Frames :
              \A d \in DOMAIN entries, q \in VPages :
                Walk(d, q)' = IF d = Boot /\ q = p0 THEN f0 ELSE Walk(d, q)
<1>1. /\ PagingType /\ MemoryType /\ KernelPart /\ SlotFrames /\ HeapFrames
      /\ OnlyWhatWasMapped /\ CacheCoherent
  BY DEF SpaceIInv
<1>2. /\ heap_pages \in Nat /\ heap_pages < HEAP_PAGES /\ HEAP_PAGES \in Nat
      /\ heap_pages' = heap_pages + 1 /\ created' = created
      /\ DOMAIN entries = {Boot} /\ max_available_pages = Available
      /\ vmm_map(Boot, HeapPage(heap_pages), FirstFree(bitmap, Available), {"W"},
                 Taken(bitmap, Available))
  BY <1>1, VMMConstants, Sizes DEF KheapInitPage, kheap_init_page, MemoryType
<1>3. PICK p0 \in VPages : /\ p0 = HeapPage(heap_pages) /\ p0[1] > KERNEL_PDE
                           /\ \A j \in Nat : p0 = HeapPage(j) => heap_pages = j
  BY <1>2, HeapPages
<1>4. MayMap(p0) /\ p0 \in KernelVPages \ {Temp}
  BY <1>2, <1>3, Sizes DEF MayMap, KernelVPages, Temp, VPages
<1>5. /\ FirstFree(bitmap, Available) \in Frames \ bitmap
      /\ Taken(bitmap, Available) = bitmap \cup {FirstFree(bitmap, Available)}
      /\ bitmap \in SUBSET Frames
  <2>1. FreeFrames(bitmap, Available) # {} /\ bitmap \in SUBSET Frames
    BY <1>1 DEF NoneRefused, MemoryType
  <2> QED
    BY <2>1, Search
<1>6. PICK f0 \in Frames \ bitmap : f0 = FirstFree(bitmap, Available)
  BY <1>5
<1>7. PICK b \in SUBSET Frames : b = bitmap \cup {f0} /\ b = Taken(bitmap, Available)
  BY <1>5, <1>6
<1>8. MapEffect(Boot, p0, f0, b)
  <2>1. Boot \in DOMAIN entries /\ f0 \in Frames /\ bitmap \subseteq b
    BY <1>2, <1>6, <1>7
  <2>2. PICK flags \in SUBSET {"W", "U"} : flags = {"W"}
    OBVIOUS
  <2>3. vmm_map(Boot, p0, f0, flags, b) /\ Served(Boot, p0, b)
    BY <1>2, <1>3, <1>6, <1>7, <2>2 DEF NoneRefused
  <2> HIDE DEF MayMap
  <2> QED
    BY <1>1, <1>2, <1>3, <1>4, <2>1, <2>3, Maps
<1>9. /\ PagingType' /\ KernelPart' /\ SlotFrames'
      /\ DOMAIN entries' = DOMAIN entries
      /\ b \subseteq bitmap' /\ bitmap' \subseteq Frames
      /\ max_available_pages' = Available
      /\ \A s \in TableSlots' :
           \/ s \in TableSlots /\ (entries')[s[1]][s[2]].frame = entries[s[1]][s[2]].frame
           \/ (entries')[s[1]][s[2]].frame \in bitmap' \ b
      /\ \A d \in DOMAIN entries, q \in VPages :
           Walk(d, q)' = IF d = Boot /\ q = p0 THEN f0 ELSE Walk(d, q)
      /\ cached' \in [VPages -> Frames \cup {NoFrame}]
      /\ CacheCoherent'
  BY <1>1, <1>8 DEF MapEffect
<1>10. Heap' = Heap \cup {p0} /\ p0 \notin Heap
  <2>1. \A j : j \in 0 .. heap_pages' - 1 <=> j \in 0 .. heap_pages - 1 \/ j = heap_pages
    BY <1>2
  <2>2. Heap' = {HeapPage(j) : j \in 0 .. heap_pages' - 1}
    BY DEF Heap, HeapPage
  <2>3. Heap' = Heap \cup {p0}
    BY <1>3, <2>1, <2>2 DEF Heap
  <2>4. ASSUME NEW j \in 0 .. heap_pages - 1 PROVE p0 # HeapPage(j)
    BY <1>2, <1>3
  <2> QED
    BY <2>3, <2>4 DEF Heap
<1>11. \A p \in Heap : p \in VPages /\ p[1] > KERNEL_PDE
  BY <1>1, HeapInKernel DEF MemoryType
<1>12. \A p \in Heap : Walk(Boot, p)' = Walk(Boot, p)
  BY <1>2, <1>9, <1>10, <1>11
<1>13. Walk(Boot, p0)' = f0
  BY <1>2, <1>3, <1>9
<1>14. MemoryType'
  BY <1>1, <1>2, <1>6, <1>7, <1>9 DEF MemoryType
<1>15. HeapFrames'
  <2>1. \A p \in Heap : Walk(Boot, p) \in bitmap \ Reserved
    BY <1>1 DEF HeapFrames
  <2>2. ASSUME NEW p \in Heap', NEW q \in Heap', Walk(Boot, p)' = Walk(Boot, q)'
        PROVE  p = q
    <3>1. CASE p = p0 \/ q = p0
      BY <1>6, <1>7, <1>10, <1>12, <1>13, <2>1, <2>2, <3>1
    <3>2. CASE p # p0 /\ q # p0
      BY <1>1, <1>10, <1>12, <2>2, <3>2 DEF HeapFrames
    <3> QED
      BY <3>1, <3>2
  <2>3. ASSUME NEW p \in Heap' PROVE Walk(Boot, p)' \in bitmap' \ Reserved
    BY <1>1, <1>6, <1>7, <1>9, <1>10, <1>12, <1>13, <2>1 DEF MemoryType
  <2>4. ASSUME NEW p \in Heap', NEW s \in TableSlots'
        PROVE  (entries')[s[1]][s[2]].frame # Walk(Boot, p)'
    <3>1. Walk(Boot, p)' \in b
      BY <1>6, <1>7, <1>10, <1>12, <1>13, <2>1
    <3>2. ASSUME s \in TableSlots,
                 (entries')[s[1]][s[2]].frame = entries[s[1]][s[2]].frame
          PROVE  (entries')[s[1]][s[2]].frame # Walk(Boot, p)'
      <4>1. CASE p = p0
        BY <1>1, <1>6, <1>7, <1>13, <3>2, <4>1 DEF SlotFrames
      <4>2. CASE p # p0
        BY <1>1, <1>10, <1>12, <3>2, <4>2 DEF HeapFrames
      <4> QED
        BY <4>1, <4>2
    <3> QED
      BY <1>9, <3>1, <3>2
  <2> QED
    BY <2>2, <2>3, <2>4 DEF HeapFrames
<1>16. OnlyWhatWasMapped'
  <2>1. ASSUME NEW d \in DOMAIN entries', NEW p \in UserVPages
        PROVE  Walk(d, p)' \in DataFrames \cup {NoFrame}
    <3>1. p \in VPages /\ p # p0
      BY <1>4 DEF UserVPages
    <3> QED
      BY <1>1, <1>9, <3>1 DEF OnlyWhatWasMapped
  <2>2. ASSUME NEW d \in DOMAIN entries', NEW p \in KernelVPages, p[1] > KERNEL_PDE
        PROVE  Walk(d, p)' = NoFrame <=> p \notin Heap'
    <3>1. d = Boot /\ p \in VPages /\ f0 # NoFrame
      BY <1>2, <1>6, <1>7, <1>9, Sizes DEF KernelVPages
    <3>2. Walk(Boot, p) = NoFrame <=> p \notin Heap
      BY <1>1, <1>2, <2>2 DEF OnlyWhatWasMapped, Heap
    <3> QED
      BY <1>2, <1>9, <1>10, <3>1, <3>2
  <2>3. UserVPages' = UserVPages /\ KernelVPages' = KernelVPages
    OBVIOUS
  <2> QED
    BY <2>1, <2>2, <2>3 DEF OnlyWhatWasMapped, Heap
<1> QED
  BY <1>2, <1>4, <1>6, <1>7, <1>9, <1>14, <1>15, <1>16 DEF SpaceIInv

\* A page of the user part, mapped or unmapped, leaves the rest as it was.
LEMMA UserPut ==
  ASSUME SpaceIInv, PagingType', KernelPart', SlotFrames', CacheCoherent',
         NEW d0 \in DOMAIN entries, NEW p0 \in UserVPages,
         NEW f0 \in DataFrames \cup {NoFrame},
         DOMAIN entries' = DOMAIN entries,
         \A d \in DOMAIN entries, q \in VPages :
           Walk(d, q)' = IF d = d0 /\ q = p0 THEN f0 ELSE Walk(d, q),
         \A s \in TableSlots' :
           \/ s \in TableSlots /\ (entries')[s[1]][s[2]].frame = entries[s[1]][s[2]].frame
           \/ (entries')[s[1]][s[2]].frame \in bitmap' \ bitmap,
         bitmap \subseteq bitmap', bitmap' \subseteq Frames,
         max_available_pages' = max_available_pages, heap_pages' = heap_pages,
         cached' \in [VPages -> Frames \cup {NoFrame}]
  PROVE  SpaceIInv'
<1>1. PagingType /\ MemoryType /\ HeapFrames /\ OnlyWhatWasMapped
  BY DEF SpaceIInv
<1>2. MemoryType'
  BY <1>1 DEF MemoryType
<1>3. Heap' = Heap
  BY DEF Heap, HeapPage
<1>4. \A p \in Heap : p \in VPages /\ p # p0
  <2>1. p0 \notin KernelVPages
    BY DEF UserVPages
  <2>2. \A p \in Heap : p \in VPages /\ p[1] > KERNEL_PDE /\ p[1] \in Nat
    BY <1>1, HeapInKernel DEF MemoryType, VPages
  <2> QED
    BY <2>1, <2>2, Sizes DEF KernelVPages
<1>5. \A p \in Heap : Walk(Boot, p)' = Walk(Boot, p)
  BY <1>1, <1>4 DEF PagingType
<1>6. HeapFrames'
  <2>1. ASSUME NEW p \in Heap', NEW q \in Heap', Walk(Boot, p)' = Walk(Boot, q)'
        PROVE  p = q
    BY <1>1, <1>3, <1>5, <2>1 DEF HeapFrames
  <2>2. ASSUME NEW p \in Heap'
        PROVE  /\ Walk(Boot, p)' \in bitmap' \ Reserved
               /\ \A s \in TableSlots' : (entries')[s[1]][s[2]].frame # Walk(Boot, p)'
    BY <1>1, <1>3, <1>5 DEF HeapFrames
  <2> QED
    BY <2>1, <2>2 DEF HeapFrames
<1>7. OnlyWhatWasMapped'
  <2>1. ASSUME NEW d \in DOMAIN entries', NEW p \in UserVPages
        PROVE  Walk(d, p)' \in DataFrames \cup {NoFrame}
    BY <1>1 DEF OnlyWhatWasMapped, UserVPages
  <2>2. ASSUME NEW d \in DOMAIN entries', NEW p \in KernelVPages, p[1] > KERNEL_PDE
        PROVE  Walk(d, p)' = NoFrame <=> p \notin Heap'
    <3>1. p \in VPages /\ p # p0
      BY DEF KernelVPages, UserVPages
    <3>2. Walk(d, p) = NoFrame <=> p \notin Heap
      BY <1>1, <2>2 DEF OnlyWhatWasMapped, Heap
    <3> QED
      BY <1>3, <3>1, <3>2
  <2>3. UserVPages' = UserVPages /\ KernelVPages' = KernelVPages
    OBVIOUS
  <2> QED
    BY <2>1, <2>2, <2>3 DEF OnlyWhatWasMapped, Heap
<1> QED
  BY <1>2, <1>6, <1>7 DEF SpaceIInv

\* vmm_map of a page of the user part, for a caller's frame.
LEMMA MapAsked ==
  ASSUME SpaceIInv, NEW d0 \in DOMAIN entries, NEW p0 \in UserVPages,
         NEW f0 \in DataFrames, NEW flags \in FlagSets,
         vmm_map(d0, p0, f0, flags, bitmap), UNCHANGED <<heap_pages, created>>,
         Served(d0, p0, bitmap)
  PROVE  /\ SpaceIInv' /\ DOMAIN entries' = DOMAIN entries
         /\ \A d \in DOMAIN entries, q \in VPages :
              Walk(d, q)' = IF d = d0 /\ q = p0 THEN f0 ELSE Walk(d, q)
<1>1. /\ PagingType /\ MemoryType /\ KernelPart /\ SlotFrames /\ CacheCoherent
  BY DEF SpaceIInv
<1>2. vmm_map(d0, p0, f0, flags, bitmap)
  OBVIOUS
<1>3. f0 \in Frames /\ flags \in SUBSET {"W", "U"} /\ bitmap \in SUBSET Frames
  BY <1>1, VMMSpecConstants DEF MemoryType
<1>4. p0 \in VPages /\ MayMap(p0)
  BY Sizes DEF UserVPages, KernelVPages, VPages, MayMap
<1>5. created' = created /\ heap_pages' = heap_pages
  OBVIOUS
<1>6. PICK b \in SUBSET Frames : b = bitmap
  BY <1>3
<1>7. MapEffect(d0, p0, f0, b)
  <2>1. vmm_map(d0, p0, f0, flags, b) /\ Served(d0, p0, b) /\ bitmap \subseteq b
    BY <1>2, <1>6
  <2> HIDE DEF MayMap
  <2> QED
    BY <1>1, <1>3, <1>4, <1>5, <2>1, Maps
<1>8. /\ PagingType' /\ KernelPart' /\ SlotFrames' /\ CacheCoherent'
      /\ DOMAIN entries' = DOMAIN entries
      /\ bitmap \subseteq bitmap' /\ bitmap' \subseteq Frames
      /\ max_available_pages' = max_available_pages
      /\ \A s \in TableSlots' :
           \/ s \in TableSlots /\ (entries')[s[1]][s[2]].frame = entries[s[1]][s[2]].frame
           \/ (entries')[s[1]][s[2]].frame \in bitmap' \ bitmap
      /\ \A d \in DOMAIN entries, q \in VPages :
           Walk(d, q)' = IF d = d0 /\ q = p0 THEN f0 ELSE Walk(d, q)
      /\ cached' \in [VPages -> Frames \cup {NoFrame}]
  BY <1>1, <1>6, <1>7 DEF MapEffect, MemoryType
<1>9. f0 \in DataFrames \cup {NoFrame}
  BY <1>2
<1>10. SpaceIInv'
  BY <1>5, <1>8, <1>9, UserPut
<1> QED
  BY <1>3, <1>8, <1>10

\* The same of the action of VMMSpec.
LEMMA MapStep ==
  ASSUME SpaceIInv, NEW d0 \in DOMAIN entries, NEW p0 \in UserVPages, Map(d0, p0),
         NoneRefused
  PROVE  /\ SpaceIInv' /\ DOMAIN entries' = DOMAIN entries
         /\ \E f0 \in Frames : \A d \in DOMAIN entries, q \in VPages :
              Walk(d, q)' = IF d = d0 /\ q = p0 THEN f0 ELSE Walk(d, q)
<1>1. PICK f0 \in DataFrames, flags \in FlagSets : vmm_map(d0, p0, f0, flags, bitmap)
  BY DEF Map
<1>2. UNCHANGED <<heap_pages, created>> /\ f0 \in Frames /\ Served(d0, p0, bitmap)
  BY VMMSpecConstants DEF Map, NoneRefused
<1> QED
  BY <1>1, <1>2, MapAsked

\* Whether or not the page has a table, vmm_unmap leaves it without a frame.
LEMMA UnmapAsked ==
  ASSUME SpaceIInv, NEW d0 \in DOMAIN entries, NEW p0 \in UserVPages,
         vmm_unmap(d0, p0), UNCHANGED <<heap_pages, created>>
  PROVE  /\ SpaceIInv' /\ DOMAIN entries' = DOMAIN entries
         /\ \A d \in DOMAIN entries, q \in VPages :
              Walk(d, q)' = IF d = d0 /\ q = p0 THEN NoFrame ELSE Walk(d, q)
<1> DEFINE pde == entries[d0][p0[1]]
<1>1. /\ PagingType /\ MemoryType /\ KernelPart /\ SlotFrames /\ CacheCoherent
  BY DEF SpaceIInv
<1>2. /\ entries' = entries /\ bitmap' = bitmap /\ created' = created
      /\ max_available_pages' = max_available_pages /\ heap_pages' = heap_pages
  BY DEF vmm_unmap, pmmVars
<1>3. /\ p0 \in VPages /\ p0[1] \in Indices /\ p0[2] \in 0 .. PTES - 1
      /\ p0[1] < KERNEL_PDE
  BY Sizes DEF UserVPages, KernelVPages, VPages, Indices
<1>4. pde \in Entries /\ pde.frame \in Frames /\ table \in [Frames -> Words]
  BY <1>1, <1>3 DEF PagingType, Entries
<1>5. /\ PagingType' /\ KernelPart' /\ CacheCoherent'
      /\ cached' \in [VPages -> Frames \cup {NoFrame}]
      /\ \A d \in DOMAIN entries, q \in VPages :
           Walk(d, q)' = IF d = d0 /\ q = p0 THEN NoFrame ELSE Walk(d, q)
  <2>1. CASE ~Present(pde)
    <3>1. UNCHANGED <<entries, table, cached, invalidated, created>>
      BY <1>2, <2>1 DEF vmm_unmap
    <3>2. \A d \in DOMAIN entries, q \in VPages : Walk(d, q)' = Walk(d, q)
      BY <3>1 DEF Walk
    <3>3. Walk(d0, p0) = NoFrame
      BY <2>1 DEF Walk
    <3>4. PagingType' /\ KernelPart'
      BY <1>1, <3>1 DEF PagingType, KernelPart
    <3>5. CacheCoherent'
      <4> SUFFICES ASSUME NEW p \in VPages
                   PROVE  \/ (cached')[p] \in {NoFrame, Walk(Boot, p)'}
                          \/ p \in LoaderPages \ invalidated' /\ (cached')[p] = p[2]
        BY Zenon DEF CacheCoherent, LoaderPages
      <4>1. Walk(Boot, p)' = Walk(Boot, p)
        BY <1>1, <3>2 DEF PagingType
      <4> QED
        BY <1>1, <3>1, <4>1 DEF CacheCoherent
    <3>6. cached' \in [VPages -> Frames \cup {NoFrame}]
      BY <1>1, <3>1 DEF MemoryType
    <3> QED
      BY <1>3, <3>2, <3>3, <3>4, <3>5, <3>6
  <2>2. CASE Present(pde)
    <3> DEFINE t == pde.frame
               s0 == <<d0, p0[1]>>
    <3>1. /\ table' = WindowClosed([table EXCEPT ![t][p0[2]] = Zero])
          /\ Invlpg({p0, Temp})
      BY <2>2 DEF vmm_unmap
    <3>2. /\ table' \in [Frames -> Words]
          /\ \A f \in Frames, k \in 0 .. PTES - 1 : (table')[f][k] =
               IF f = BOOT_TABLE /\ k = PTES - 1 THEN Zero
               ELSE IF f = t /\ k = p0[2] THEN Zero ELSE table[f][k]
      <4> DEFINE after == [table EXCEPT ![t][p0[2]] = Zero]
      <4>1. /\ after \in [Frames -> Words]
            /\ \A f \in Frames, k \in 0 .. PTES - 1 :
                 after[f][k] = IF f = t /\ k = p0[2] THEN Zero ELSE table[f][k]
        BY <1>3, <1>4, Sizes, WordWritten
      <4> HIDE DEF after
      <4>2. /\ WindowClosed(after) \in [Frames -> Words]
            /\ \A f \in Frames, k \in 0 .. PTES - 1 : WindowClosed(after)[f][k] =
                 IF f = BOOT_TABLE /\ k = PTES - 1 THEN Zero ELSE after[f][k]
        BY <4>1, WindowWords, Zenon
      <4>3. table' = WindowClosed(after)
        BY <3>1 DEF after
      <4> QED
        BY <4>1, <4>2, <4>3
    <3>3. ASSUME NEW d \in DOMAIN entries, NEW i \in Indices, Present(entries[d][i]),
                 d # d0 \/ i # p0[1]
          PROVE  entries[d][i].frame # t
      <4> DEFINE s == IF i < KERNEL_PDE THEN <<d, i>> ELSE <<Boot, i>>
      <4>1. s \in TableSlots /\ entries[s[1]][s[2]] = entries[d][i]
        BY <1>1, <3>3, SlotOf DEF PagingType
      <4>2. s0 \in TableSlots /\ entries[s0[1]][s0[2]].frame = t
        BY <1>3, <2>2 DEF TableSlots, Indices
      <4>3. s # s0
        BY <1>3, <3>3
      <4> HIDE DEF s, s0
      <4> QED
        BY <1>1, <4>1, <4>2, <4>3 DEF SlotFrames
    <3>4. t # BOOT_TABLE
      <4>1. Boot \in DOMAIN entries /\ KERNEL_PDE \in Indices /\ KERNEL_PDE # p0[1]
        BY <1>1, <1>3, Sizes DEF PagingType
      <4> QED
        BY <1>1, <3>3, <4>1, BootSlot
    <3>5. PagingType'
      BY <1>1, <1>2, <3>2 DEF PagingType
    <3>6. KernelPart'
      BY <1>1, <1>2, <3>2, <3>4, Sizes DEF KernelPart
    <3>7. ASSUME NEW d \in DOMAIN entries, NEW q \in VPages
          PROVE  Walk(d, q)' = IF d = d0 /\ q = p0 THEN NoFrame ELSE Walk(d, q)
      <4>1. /\ q[1] \in Indices /\ q[2] \in 0 .. PTES - 1
            /\ (q = p0 <=> q[1] = p0[1] /\ q[2] = p0[2])
        BY <1>3 DEF VPages, Indices
      <4>2. CASE d = d0 /\ q[1] = p0[1]
        <5>1. (table')[t][q[2]] = IF q[2] = p0[2] THEN Zero ELSE table[t][q[2]]
          BY <1>4, <3>2, <3>4, <4>1
        <5> QED
          BY <1>2, <4>1, <4>2, <5>1, Sizes DEF Walk
      <4>3. CASE d # d0 \/ q[1] # p0[1]
        <5>1. CASE ~Present(entries[d][q[1]])
          BY <1>2, <4>1, <4>3, <5>1 DEF Walk
        <5>2. CASE Present(entries[d][q[1]])
          <6> DEFINE x == entries[d][q[1]].frame
          <6>1. x # t
            BY <3>3, <4>1, <4>3, <5>2
          <6>2. x \in Frames
            BY <1>1, <4>1 DEF PagingType, Entries
          <6>3. (table')[x][q[2]] = table[x][q[2]]
            BY <1>1, <3>2, <4>1, <6>1, <6>2 DEF KernelPart
          <6> QED
            BY <1>2, <4>1, <4>3, <6>3 DEF Walk
        <5> QED
          BY <5>1, <5>2
      <4> QED
        BY <4>2, <4>3
    <3>8. \A q \in VPages : q # p0 => Walk(Boot, q)' = Walk(Boot, q)
      BY <1>1, <3>7 DEF PagingType
    <3>9. CacheCoherent' /\ cached' \in [VPages -> Frames \cup {NoFrame}]
      BY <1>1, <1>3, <3>1, <3>8, Invalidates, Zenon DEF MemoryType
    <3> QED
      BY <3>5, <3>6, <3>7, <3>9
  <2> QED
    BY <2>1, <2>2
<1>6. TableSlots' = TableSlots
  BY <1>2 DEF TableSlots
<1>7. SlotFrames'
  BY <1>1, <1>2, <1>6 DEF SlotFrames
<1>8. /\ DOMAIN entries' = DOMAIN entries
      /\ bitmap \subseteq bitmap' /\ bitmap' \subseteq Frames
      /\ \A s \in TableSlots' :
           s \in TableSlots /\ (entries')[s[1]][s[2]].frame = entries[s[1]][s[2]].frame
  BY <1>1, <1>2, <1>6 DEF MemoryType
<1>9. PICK f0 \in DataFrames \cup {NoFrame} : f0 = NoFrame
  OBVIOUS
<1>10. \A d \in DOMAIN entries, q \in VPages :
         Walk(d, q)' = IF d = d0 /\ q = p0 THEN f0 ELSE Walk(d, q)
  BY <1>5, <1>9
<1>11. SpaceIInv'
  BY <1>2, <1>5, <1>7, <1>8, <1>9, <1>10, UserPut
<1> QED
  BY <1>5, <1>8, <1>11

\* The same of the action of VMMSpec.
LEMMA UnmapStep ==
  ASSUME SpaceIInv, NEW d0 \in DOMAIN entries, NEW p0 \in UserVPages, Unmap(d0, p0)
  PROVE  /\ SpaceIInv' /\ DOMAIN entries' = DOMAIN entries
         /\ \A d \in DOMAIN entries, q \in VPages :
              Walk(d, q)' = IF d = d0 /\ q = p0 THEN NoFrame ELSE Walk(d, q)
<1>1. vmm_unmap(d0, p0) /\ UNCHANGED <<heap_pages, created>>
  BY DEF Unmap
<1> QED
  BY <1>1, UnmapAsked

\* A new directory has the kernel's part and nothing else.
LEMMA CreateStep ==
  ASSUME SpaceIInv, NEW dir \in Dirs, Create(dir)
  PROVE  /\ SpaceIInv' /\ dir \notin DOMAIN entries
         /\ DOMAIN entries' = DOMAIN entries \cup {dir}
         /\ \A d \in DOMAIN entries, q \in VPages : Walk(d, q)' = Walk(d, q)
         /\ \A q \in VPages :
              Walk(dir, q)' = IF q \in KernelVPages THEN Walk(Boot, q) ELSE NoFrame
<1>1. /\ PagingType /\ MemoryType /\ KernelPart /\ SlotFrames /\ HeapFrames
      /\ OnlyWhatWasMapped /\ CacheCoherent
  BY DEF SpaceIInv
<1>2. /\ heap_pages = HEAP_PAGES /\ dir \notin created /\ created' = created \cup {dir}
      /\ heap_pages' = heap_pages /\ dir # Boot
      /\ UNCHANGED <<table, cached, invalidated, bitmap, max_available_pages>>
      /\ entries' = [d \in DOMAIN entries \cup {dir} |->
                       IF d = dir THEN NewDirectory ELSE entries[d]]
  BY Sizes DEF Create, HeapReady, vmm_create_page_directory, pmmVars
<1>3. dir \notin DOMAIN entries /\ Boot \in DOMAIN entries
  BY <1>1, <1>2 DEF PagingType
<1>4. /\ DOMAIN entries' = DOMAIN entries \cup {dir}
      /\ \A d \in DOMAIN entries : (entries')[d] = entries[d]
      /\ (entries')[dir] = NewDirectory
  BY <1>2, <1>3
<1>5. /\ NewDirectory \in [Indices -> Entries]
      /\ \A i \in Indices :
           NewDirectory[i] = IF i >= KERNEL_PDE THEN entries[Boot][i] ELSE Zero
  BY <1>1, <1>3, Sizes DEF NewDirectory, PagingType, Indices
<1>6. PagingType'
  <2>1. entries' \in [DOMAIN entries' -> [Indices -> Entries]]
    BY <1>1, <1>2, <1>4, <1>5 DEF PagingType
  <2>2. /\ Boot \in DOMAIN entries' /\ DOMAIN entries' \subseteq {Boot} \cup created'
        /\ created' \subseteq Dirs /\ table' \in [Frames -> Words]
    BY <1>1, <1>2, <1>4 DEF PagingType
  <2> QED
    BY <2>1, <2>2 DEF PagingType
<1>7. MemoryType'
  <2>1. HEAP_PAGES \in Nat
    BY VMMConstants, Sizes
  <2> QED
    BY <1>1, <1>2, <2>1 DEF MemoryType
<1>8. KernelPart'
  <2>1. ASSUME NEW d \in DOMAIN entries', NEW i \in Indices, i >= KERNEL_PDE
        PROVE  (entries')[d][i] = (entries')[Boot][i]
    BY <1>1, <1>3, <1>4, <1>5, <2>1 DEF KernelPart
  <2> QED
    BY <1>1, <1>2, <1>3, <1>4, <2>1 DEF KernelPart
<1>9. /\ TableSlots' = TableSlots
      /\ \A s \in TableSlots : (entries')[s[1]][s[2]] = entries[s[1]][s[2]]
  <2>1. ASSUME NEW i \in Indices, i < KERNEL_PDE
        PROVE  ~Present((entries')[dir][i])
    BY <1>4, <1>5, <2>1, Sizes DEF Indices
  <2>2. ASSUME NEW s \in (DOMAIN entries') \X Indices
        PROVE  s \in TableSlots' <=> s \in TableSlots
    BY <1>2, <1>3, <1>4, <2>1 DEF TableSlots, Indices
  <2>3. TableSlots' \subseteq (DOMAIN entries') \X Indices
    BY DEF TableSlots, Indices
  <2>4. TableSlots \subseteq (DOMAIN entries') \X Indices
    BY <1>4 DEF TableSlots, Indices
  <2>5. TableSlots \subseteq (DOMAIN entries) \X Indices
    BY DEF TableSlots, Indices
  <2>6. ASSUME NEW s \in TableSlots PROVE (entries')[s[1]][s[2]] = entries[s[1]][s[2]]
    BY <1>4, <2>5
  <2> QED
    BY <2>2, <2>3, <2>4, <2>6
<1>10. SlotFrames'
  <2>1. ASSUME NEW s \in TableSlots'
        PROVE  /\ s \in TableSlots
               /\ (entries')[s[1]][s[2]].frame = entries[s[1]][s[2]].frame
    BY <1>9
  <2>2. \A s, t \in TableSlots' :
          (entries')[s[1]][s[2]].frame = (entries')[t[1]][t[2]].frame => s = t
    BY <1>1, <2>1 DEF SlotFrames
  <2>3. ASSUME NEW s \in TableSlots'
        PROVE  /\ (entries')[s[1]][s[2]].frame \in bitmap'
               /\ s = <<Boot, KERNEL_PDE>> \/ (entries')[s[1]][s[2]].frame \notin Reserved
    <3>1. /\ entries[s[1]][s[2]].frame \in bitmap
          /\ s = <<Boot, KERNEL_PDE>> \/ entries[s[1]][s[2]].frame \notin Reserved
      BY <1>1, <2>1, Zenon DEF SlotFrames
    <3> QED
      BY <1>2, <2>1, <3>1
  <2> QED
    BY <2>2, <2>3 DEF SlotFrames
<1>11. \A d \in DOMAIN entries, q \in VPages : Walk(d, q)' = Walk(d, q)
  BY <1>2, <1>4 DEF Walk
<1>12. ASSUME NEW q \in VPages
       PROVE  Walk(dir, q)' = IF q \in KernelVPages THEN Walk(Boot, q) ELSE NoFrame
  <2>1. q[1] \in Indices
    BY DEF VPages, Indices
  <2>2. (entries')[dir][q[1]] = IF q \in KernelVPages THEN entries[Boot][q[1]] ELSE Zero
    BY <1>4, <1>5, <2>1 DEF KernelVPages
  <2> QED
    BY <1>2, <2>2, Sizes DEF Walk
<1>13. Heap' = Heap /\ \A p \in Heap : p \in VPages
  BY <1>1, <1>2, HeapInKernel DEF Heap, HeapPage, MemoryType
<1>14. HeapFrames'
  <2>1. \A p \in Heap : Walk(Boot, p)' = Walk(Boot, p)
    BY <1>3, <1>11, <1>13
  <2>2. \A p, q \in Heap' : Walk(Boot, p)' = Walk(Boot, q)' => p = q
    BY <1>1, <1>13, <2>1 DEF HeapFrames
  <2>3. ASSUME NEW p \in Heap'
        PROVE  /\ Walk(Boot, p)' \in bitmap' \ Reserved
               /\ \A s \in TableSlots' : (entries')[s[1]][s[2]].frame # Walk(Boot, p)'
    BY <1>1, <1>2, <1>9, <1>13, <2>1 DEF HeapFrames
  <2> QED
    BY <2>2, <2>3 DEF HeapFrames
<1>15. OnlyWhatWasMapped'
  <2>1. ASSUME NEW d \in DOMAIN entries', NEW p \in UserVPages
        PROVE  Walk(d, p)' \in DataFrames \cup {NoFrame}
    BY <1>1, <1>4, <1>11, <1>12 DEF OnlyWhatWasMapped, UserVPages
  <2>2. ASSUME NEW d \in DOMAIN entries', NEW p \in KernelVPages, p[1] > KERNEL_PDE
        PROVE  Walk(d, p)' = NoFrame <=> p \notin Heap'
    <3>1. p \in VPages
      BY DEF KernelVPages
    <3>2. \A e \in DOMAIN entries : Walk(e, p) = NoFrame <=> p \notin Heap
      BY <1>1, <2>2 DEF OnlyWhatWasMapped, Heap
    <3> QED
      BY <1>3, <1>4, <1>11, <1>12, <1>13, <3>1, <3>2
  <2>3. UserVPages' = UserVPages /\ KernelVPages' = KernelVPages
    OBVIOUS
  <2> QED
    BY <2>1, <2>2, <2>3 DEF OnlyWhatWasMapped, Heap
<1>16. CacheCoherent'
  <2> SUFFICES ASSUME NEW p \in VPages
               PROVE  \/ (cached')[p] \in {NoFrame, Walk(Boot, p)'}
                      \/ p \in LoaderPages \ invalidated' /\ (cached')[p] = p[2]
    BY Zenon DEF CacheCoherent, LoaderPages
  <2>1. Walk(Boot, p)' = Walk(Boot, p)
    BY <1>3, <1>11
  <2> QED
    BY <1>1, <1>2, <2>1 DEF CacheCoherent
<1> QED
  BY <1>3, <1>4, <1>6, <1>7, <1>8, <1>10, <1>11, <1>12, <1>14, <1>15, <1>16 DEF SpaceIInv

\* A directory that goes takes its address space with it; its tables stay taken.
LEMMA DestroyStep ==
  ASSUME SpaceIInv, NEW dir \in Dirs, Destroy(dir)
  PROVE  /\ SpaceIInv' /\ dir \in DOMAIN entries \ {Boot}
         /\ DOMAIN entries' = DOMAIN entries \ {dir}
         /\ \A d \in DOMAIN entries', q \in VPages : Walk(d, q)' = Walk(d, q)
<1>1. /\ PagingType /\ MemoryType /\ KernelPart /\ SlotFrames /\ HeapFrames
      /\ OnlyWhatWasMapped /\ CacheCoherent
  BY DEF SpaceIInv
<1>2. /\ dir \in DOMAIN entries \ {Boot}
      /\ UNCHANGED <<table, cached, invalidated, bitmap, max_available_pages>>
      /\ UNCHANGED <<heap_pages, created>>
      /\ entries' = [d \in DOMAIN entries \ {dir} |-> entries[d]]
  BY DEF Destroy, vmm_destroy_page_directory, pmmVars
<1>3. /\ DOMAIN entries' = DOMAIN entries \ {dir} /\ Boot \in DOMAIN entries'
      /\ \A d \in DOMAIN entries' : (entries')[d] = entries[d]
  BY <1>1, <1>2 DEF PagingType
<1>4. PagingType' /\ MemoryType'
  <2>1. entries' \in [DOMAIN entries' -> [Indices -> Entries]]
    BY <1>1, <1>2, <1>3 DEF PagingType
  <2> QED
    BY <1>1, <1>2, <1>3, <2>1 DEF PagingType, MemoryType
<1>5. KernelPart'
  BY <1>1, <1>2, <1>3 DEF KernelPart
<1>6. /\ TableSlots' \subseteq TableSlots
      /\ \A s \in TableSlots' : (entries')[s[1]][s[2]] = entries[s[1]][s[2]]
  BY <1>3 DEF TableSlots
<1>7. SlotFrames'
  <2>1. ASSUME NEW s \in TableSlots'
        PROVE  /\ s \in TableSlots
               /\ (entries')[s[1]][s[2]].frame = entries[s[1]][s[2]].frame
    BY <1>6
  <2>2. \A s, t \in TableSlots' :
          (entries')[s[1]][s[2]].frame = (entries')[t[1]][t[2]].frame => s = t
    BY <1>1, <2>1 DEF SlotFrames
  <2>3. ASSUME NEW s \in TableSlots'
        PROVE  /\ (entries')[s[1]][s[2]].frame \in bitmap'
               /\ s = <<Boot, KERNEL_PDE>> \/ (entries')[s[1]][s[2]].frame \notin Reserved
    <3>1. /\ entries[s[1]][s[2]].frame \in bitmap
          /\ s = <<Boot, KERNEL_PDE>> \/ entries[s[1]][s[2]].frame \notin Reserved
      BY <1>1, <2>1, Zenon DEF SlotFrames
    <3> QED
      BY <1>2, <2>1, <3>1
  <2> QED
    BY <2>2, <2>3 DEF SlotFrames
<1>8. \A d \in DOMAIN entries', q \in VPages : Walk(d, q)' = Walk(d, q)
  BY <1>2, <1>3 DEF Walk
<1>9. Heap' = Heap /\ \A p \in Heap : p \in VPages
  BY <1>1, <1>2, HeapInKernel DEF Heap, HeapPage, MemoryType
<1>10. HeapFrames'
  <2>1. \A p \in Heap : Walk(Boot, p)' = Walk(Boot, p)
    BY <1>3, <1>8, <1>9
  <2>2. \A p, q \in Heap' : Walk(Boot, p)' = Walk(Boot, q)' => p = q
    BY <1>1, <1>9, <2>1 DEF HeapFrames
  <2>3. ASSUME NEW p \in Heap'
        PROVE  /\ Walk(Boot, p)' \in bitmap' \ Reserved
               /\ \A s \in TableSlots' : (entries')[s[1]][s[2]].frame # Walk(Boot, p)'
    BY <1>1, <1>2, <1>6, <1>9, <2>1 DEF HeapFrames
  <2> QED
    BY <2>2, <2>3 DEF HeapFrames
<1>11. OnlyWhatWasMapped'
  <2>1. ASSUME NEW d \in DOMAIN entries', NEW p \in UserVPages
        PROVE  Walk(d, p)' \in DataFrames \cup {NoFrame}
    BY <1>1, <1>3, <1>8 DEF OnlyWhatWasMapped, UserVPages
  <2>2. ASSUME NEW d \in DOMAIN entries', NEW p \in KernelVPages, p[1] > KERNEL_PDE
        PROVE  Walk(d, p)' = NoFrame <=> p \notin Heap'
    <3>1. p \in VPages
      BY DEF KernelVPages
    <3>2. \A e \in DOMAIN entries : Walk(e, p) = NoFrame <=> p \notin Heap
      BY <1>1, <2>2 DEF OnlyWhatWasMapped, Heap
    <3> QED
      BY <1>3, <1>8, <1>9, <3>1, <3>2
  <2>3. UserVPages' = UserVPages /\ KernelVPages' = KernelVPages
    OBVIOUS
  <2> QED
    BY <2>1, <2>2, <2>3 DEF OnlyWhatWasMapped, Heap
<1>12. CacheCoherent'
  <2> SUFFICES ASSUME NEW p \in VPages
               PROVE  \/ (cached')[p] \in {NoFrame, Walk(Boot, p)'}
                      \/ p \in LoaderPages \ invalidated' /\ (cached')[p] = p[2]
    BY Zenon DEF CacheCoherent, LoaderPages
  <2>1. Walk(Boot, p)' = Walk(Boot, p)
    BY <1>3, <1>8
  <2> QED
    BY <1>1, <1>2, <2>1 DEF CacheCoherent
<1> QED
  BY <1>2, <1>3, <1>4, <1>5, <1>7, <1>8, <1>10, <1>11, <1>12 DEF SpaceIInv

\* Nothing but the cache changes.
LEMMA CacheOnly ==
  ASSUME SpaceIInv, UNCHANGED <<entries, table, heap_pages, created>>,
         UNCHANGED <<bitmap, max_available_pages>>,
         cached' \in [VPages -> Frames \cup {NoFrame}], CacheCoherent'
  PROVE  SpaceIInv' /\ \A d \in DOMAIN entries, q \in VPages : Walk(d, q)' = Walk(d, q)
<1>1. /\ PagingType /\ MemoryType /\ KernelPart /\ SlotFrames /\ HeapFrames
      /\ OnlyWhatWasMapped
  BY DEF SpaceIInv
<1>2. \A d, q : Walk(d, q)' = Walk(d, q)
  BY DEF Walk
<1>3. Heap' = Heap /\ TableSlots' = TableSlots
  BY DEF Heap, HeapPage, TableSlots
<1>4. PagingType' /\ MemoryType' /\ KernelPart'
  BY <1>1 DEF PagingType, MemoryType, KernelPart
<1>5. SlotFrames'
  BY <1>1, <1>3 DEF SlotFrames
<1>6. HeapFrames'
  <2>1. \A p, q \in Heap' : Walk(Boot, p)' = Walk(Boot, q)' => p = q
    BY <1>1, <1>2, <1>3 DEF HeapFrames
  <2>2. ASSUME NEW p \in Heap'
        PROVE  /\ Walk(Boot, p)' \in bitmap' \ Reserved
               /\ \A s \in TableSlots' : (entries')[s[1]][s[2]].frame # Walk(Boot, p)'
    BY <1>1, <1>2, <1>3 DEF HeapFrames
  <2> QED
    BY <2>1, <2>2 DEF HeapFrames
<1>7. OnlyWhatWasMapped'
  <2>1. ASSUME NEW d \in DOMAIN entries', NEW p \in UserVPages
        PROVE  Walk(d, p)' \in DataFrames \cup {NoFrame}
    BY <1>1, <1>2 DEF OnlyWhatWasMapped
  <2>2. ASSUME NEW d \in DOMAIN entries', NEW p \in KernelVPages, p[1] > KERNEL_PDE
        PROVE  Walk(d, p)' = NoFrame <=> p \notin Heap'
    <3>1. Walk(d, p) = NoFrame <=> p \notin Heap
      BY <1>1, <2>2 DEF OnlyWhatWasMapped, Heap
    <3> QED
      BY <1>2, <1>3, <3>1
  <2>3. UserVPages' = UserVPages /\ KernelVPages' = KernelVPages
    OBVIOUS
  <2> QED
    BY <2>1, <2>2, <2>3 DEF OnlyWhatWasMapped, Heap
<1> QED
  BY <1>2, <1>4, <1>5, <1>6, <1>7 DEF SpaceIInv

\* A walk ends at a frame, or nowhere.
LEMMA WalkFrame ==
  ASSUME PagingType, NEW p \in VPages
  PROVE  Walk(Boot, p) \in Frames \cup {NoFrame}
<1>1. p[1] \in Indices /\ p[2] \in 0 .. PTES - 1
  BY DEF VPages, Indices
<1>2. entries[Boot][p[1]].frame \in Frames
  BY <1>1 DEF PagingType, Entries
<1>3. table[entries[Boot][p[1]].frame][p[2]].frame \in Frames
  BY <1>1, <1>2 DEF PagingType, Words, Entries
<1> QED
  BY <1>3 DEF Walk

\* The processor fills its cache with what the tables say.
LEMMA Fills ==
  ASSUME PagingType, cached \in [VPages -> Frames \cup {NoFrame}], CacheCoherent,
         NEW page, Fill(page)
  PROVE  cached' \in [VPages -> Frames \cup {NoFrame}] /\ CacheCoherent'
<1>1. /\ cached' = [cached EXCEPT ![page] = Walk(Boot, page)]
      /\ UNCHANGED <<entries, table, invalidated>>
  BY DEF Fill
<1>2. \A p \in VPages : Walk(Boot, p) \in Frames \cup {NoFrame}
  BY WalkFrame
<1>3. CacheCoherent'
  <2> SUFFICES ASSUME NEW p \in VPages
               PROVE  \/ (cached')[p] \in {NoFrame, Walk(Boot, p)'}
                      \/ p \in LoaderPages \ invalidated' /\ (cached')[p] = p[2]
    BY Zenon DEF CacheCoherent, LoaderPages
  <2>1. Walk(Boot, p)' = Walk(Boot, p)
    BY <1>1 DEF Walk
  <2>2. (cached')[p] = IF p = page THEN Walk(Boot, p) ELSE cached[p]
    BY <1>1
  <2> QED
    BY <1>1, <2>1, <2>2 DEF CacheCoherent
<1> QED
  BY <1>1, <1>2, <1>3

\* A step of the processor's own.
LEMMA FillStep ==
  ASSUME SpaceIInv, NEW page, Fill(page)
  PROVE  SpaceIInv' /\ \A d \in DOMAIN entries, q \in VPages : Walk(d, q)' = Walk(d, q)
<1>1. /\ PagingType /\ MemoryType /\ CacheCoherent
  BY DEF SpaceIInv
<1>2. /\ UNCHANGED <<entries, table, heap_pages, created>>
      /\ UNCHANGED <<bitmap, max_available_pages>>
  BY DEF Fill, pmmVars
<1>3. cached' \in [VPages -> Frames \cup {NoFrame}] /\ CacheCoherent'
  BY <1>1, Fills DEF MemoryType
<1> QED
  BY <1>2, <1>3, CacheOnly

\* What loader.s and kmain leave when the heap's set-up begins.
BootSpace ==
  /\ entries = [d \in {Boot} |-> LoaderDirectory]
  /\ table = WindowClosed(LoaderTable)
  /\ bitmap = Reserved /\ max_available_pages = Available
  /\ heap_pages = 0 /\ created = {}
  /\ cached \in [VPages -> Frames \cup {NoFrame}] /\ CacheCoherent

\* From there the invariant holds.
LEMMA Boots == BootSpace => SpaceIInv
<1> SUFFICES ASSUME BootSpace PROVE SpaceIInv
  OBVIOUS
<1>1. /\ entries = [d \in {Boot} |-> LoaderDirectory] /\ table = WindowClosed(LoaderTable)
      /\ bitmap = Reserved /\ max_available_pages = Available
      /\ heap_pages = 0 /\ created = {}
      /\ cached \in [VPages -> Frames \cup {NoFrame}] /\ CacheCoherent
  BY DEF BootSpace
<1>2. Entry(BOOT_TABLE, {"P", "W"}) \in Entries /\ Present(Entry(BOOT_TABLE, {"P", "W"}))
  BY Sizes DEF Entry, Entries, Present
<1>3. /\ DOMAIN entries = {Boot} /\ entries[Boot] \in [Indices -> Entries]
      /\ \A i \in Indices : entries[Boot][i] =
           IF i = KERNEL_PDE THEN Entry(BOOT_TABLE, {"P", "W"}) ELSE Zero
  BY <1>1, <1>2, Sizes DEF LoaderDirectory, Indices
<1>4. /\ LoaderTable \in [Frames -> Words]
      /\ \A k \in 0 .. PTES - 1 : LoaderTable[BOOT_TABLE][k] = Entry(k, {"P", "W"})
  <2>1. \A k \in 0 .. PTES - 1 : Entry(k, {"P", "W"}) \in Entries
    BY Sizes DEF Entry, Entries
  <2>2. Entry(MAX_PAGES - 1, {"P", "W", "U"}) \in Entries
    BY Sizes DEF Entry, Entries, Frames
  <2> QED
    BY <2>1, <2>2, Sizes DEF LoaderTable, Words
<1>5. /\ table \in [Frames -> Words]
      /\ \A k \in 0 .. PTES - 1 :
           table[BOOT_TABLE][k] = IF k = PTES - 1 THEN Zero ELSE Entry(k, {"P", "W"})
  BY <1>1, <1>4, WindowWords, Sizes
<1>6. PagingType
  BY <1>1, <1>3, <1>5 DEF PagingType
<1>7. MemoryType
  BY <1>1, <1>3, VMMConstants, VMMSpecConstants, Sizes DEF MemoryType, Frames
<1>8. KernelPart
  BY <1>3, <1>5, Sizes DEF KernelPart
<1>9. \A s \in TableSlots : s = <<Boot, KERNEL_PDE>>
  BY <1>3, Sizes DEF TableSlots, Indices
<1>10. SlotFrames
  <2>1. entries[Boot][KERNEL_PDE].frame = BOOT_TABLE
    BY <1>3, Sizes DEF Entry
  <2>2. \A s \in TableSlots : entries[s[1]][s[2]].frame \in bitmap
    BY <1>1, <1>9, <2>1, Sizes
  <2> QED
    BY <1>9, <2>2 DEF SlotFrames
<1>11. Heap = {}
  BY <1>1 DEF Heap
<1>12. HeapFrames
  BY <1>11 DEF HeapFrames
<1>13. OnlyWhatWasMapped
  <2>1. ASSUME NEW p \in VPages, p[1] # KERNEL_PDE PROVE Walk(Boot, p) = NoFrame
    BY <1>3, <2>1, Sizes DEF Walk, VPages, Indices
  <2>2. \A p \in UserVPages : p \in VPages /\ p[1] # KERNEL_PDE
    BY Sizes DEF UserVPages, KernelVPages
  <2>3. \A p \in KernelVPages : p[1] > KERNEL_PDE => p \in VPages /\ p[1] # KERNEL_PDE
    BY Sizes DEF KernelVPages
  <2>4. {HeapPage(i) : i \in 0 .. heap_pages - 1} = {}
    BY <1>11 DEF Heap
  <2> QED
    BY <1>3, <2>1, <2>2, <2>3, <2>4 DEF OnlyWhatWasMapped
<1> QED
  BY <1>1, <1>6, <1>7, <1>8, <1>10, <1>12, <1>13 DEF SpaceIInv

\* VMMSpec begins there.
LEMMA BeginsAtBoot == Init => BootSpace
<1> SUFFICES ASSUME Init PROVE BootSpace
  OBVIOUS
<1>1. PICK held \in SUBSET (LoaderPages \cap TLBPages) :
        cached = [p \in VPages |-> IF p \in held THEN p[2] ELSE NoFrame]
  BY DEF Init
<1>2. \A p \in held : p \in VPages /\ p[1] = 0 /\ p[2] \in 0 .. PTES - 1
  BY DEF LoaderPages, VPages
<1>3. cached \in [VPages -> Frames \cup {NoFrame}]
  BY <1>1, <1>2, Sizes
<1>4. CacheCoherent
  <2>1. invalidated = {Temp} /\ Temp[1] # 0
    BY Sizes DEF Init, AfterTestarPMM, Temp
  <2>2. \A p \in held : p \in LoaderPages \ invalidated
    BY <1>2, <2>1
  <2> QED
    BY <1>1, <2>2 DEF CacheCoherent
<1> QED
  BY <1>3, <1>4 DEF Init, AfterTestarPMM, BootSpace

\* Every step of VMMSpec keeps the invariant.
LEMMA SpaceStep ==
  ASSUME SpaceIInv, [Next]_vars, [NoneRefused]_vars
  PROVE  SpaceIInv'
<1>1. CASE KheapInitPage /\ NoneRefused
  BY <1>1, KheapStep
<1>2. ASSUME NEW dir \in Dirs, Create(dir) \/ Destroy(dir) PROVE SpaceIInv'
  BY <1>2, CreateStep, DestroyStep
<1>3. ASSUME NEW dir \in DOMAIN entries, NEW page \in UserVPages,
             Map(dir, page) \/ Unmap(dir, page), NoneRefused
      PROVE  SpaceIInv'
  BY <1>3, MapStep, UnmapStep
<1>4. ASSUME NEW page \in TLBPages, Fill(page) PROVE SpaceIInv'
  BY <1>4, FillStep
<1>5. CASE UNCHANGED vars
  <2>1. /\ UNCHANGED <<entries, table, heap_pages, created>>
        /\ UNCHANGED <<bitmap, max_available_pages>>
        /\ UNCHANGED <<cached, invalidated>>
    BY <1>5 DEF vars, pmmVars, vmmVars
  <2>2. cached' \in [VPages -> Frames \cup {NoFrame}]
    BY <2>1 DEF SpaceIInv, MemoryType
  <2>3. CacheCoherent'
    <3> SUFFICES ASSUME NEW p \in VPages
                 PROVE  \/ (cached')[p] \in {NoFrame, Walk(Boot, p)'}
                        \/ p \in LoaderPages \ invalidated' /\ (cached')[p] = p[2]
      BY Zenon DEF CacheCoherent, LoaderPages
    <3>1. Walk(Boot, p)' = Walk(Boot, p)
      BY <2>1 DEF Walk
    <3> QED
      BY <2>1, <3>1 DEF SpaceIInv, CacheCoherent
  <2> QED
    BY <2>1, <2>2, <2>3, CacheOnly
<1> QED
  BY <1>1, <1>2, <1>3, <1>4, <1>5, Zenon DEF Next

\* What the invariant says of tables, and of the heap.
LEMMA Tables == SpaceIInv => TablesExclusive
<1> SUFFICES ASSUME SpaceIInv PROVE TablesExclusive
  OBVIOUS
<1> DEFINE frameOf(s) == entries[s[1]][s[2]].frame
<1>1. MemoryType /\ SlotFrames /\ OnlyWhatWasMapped /\ KernelPart /\ Boot \in DOMAIN entries
  BY DEF SpaceIInv, PagingType
<1>2. \A s, t \in TableSlots : frameOf(s) = frameOf(t) => s = t
  BY <1>1 DEF SlotFrames
<1>3. ASSUME NEW s \in TableSlots, NEW d \in DOMAIN entries, NEW p \in UserVPages
      PROVE  Walk(d, p) # frameOf(s)
  <2>1. Walk(d, p) \in DataFrames \cup {NoFrame}
    BY <1>1 DEF OnlyWhatWasMapped
  <2>2. /\ frameOf(s) \in bitmap
        /\ s = <<Boot, KERNEL_PDE>> \/ frameOf(s) \notin Reserved
    BY <1>1, Zenon DEF SlotFrames
  <2>3. frameOf(s) \notin DataFrames
    <3>1. CASE s = <<Boot, KERNEL_PDE>>
      <4>1. frameOf(s) = BOOT_TABLE
        BY <1>1, <3>1, BootSlot
      <4> QED
        BY <4>1, Sizes
    <3>2. CASE frameOf(s) \notin Reserved
      BY <3>2, VMMSpecConstants
    <3> QED
      BY <2>2, <3>1, <3>2
  <2>4. frameOf(s) # NoFrame
    BY <1>1, <2>2, Sizes DEF MemoryType
  <2> QED
    BY <2>1, <2>2, <2>3, <2>4
<1>4. \A s \in TableSlots : frameOf(s) \in bitmap
  BY <1>1 DEF SlotFrames
<1>5. ASSUME NEW s \in TableSlots, NEW d \in DOMAIN entries, NEW p \in KernelVPages,
             p[1] > KERNEL_PDE
      PROVE  Walk(d, p) # frameOf(s)
  <2>1. Walk(d, p) = Walk(Boot, p)
    <3>1. p[1] \in Indices /\ p[1] >= KERNEL_PDE
      BY DEF KernelVPages, VPages, Indices
    <3> QED
      BY <1>1, <3>1 DEF KernelPart, Walk
  <2>2. CASE Walk(d, p) = NoFrame
    <3>1. frameOf(s) \in Frames
      BY <1>1, <1>4 DEF MemoryType
    <3> QED
      BY <2>2, <3>1, Sizes
  <2>3. CASE Walk(d, p) # NoFrame
    <3>1. p \in Heap
      BY <1>1, <1>5, <2>3 DEF OnlyWhatWasMapped, Heap
    <3>2. HeapFrames
      BY DEF SpaceIInv
    <3> QED
      BY <2>1, <3>1, <3>2 DEF HeapFrames
  <2> QED
    BY <2>2, <2>3
<1>6. ASSUME NEW p \in VPages \ LinearPages
      PROVE  p \in UserVPages \/ (p \in KernelVPages /\ p[1] > KERNEL_PDE)
  BY Sizes DEF LinearPages, UserVPages, KernelVPages, VPages
<1> QED
  BY <1>2, <1>3, <1>4, <1>5, <1>6 DEF TablesExclusive

LEMMA HeapApart == SpaceIInv => HeapFramesPrivate
<1> SUFFICES ASSUME SpaceIInv PROVE HeapFramesPrivate
  OBVIOUS
<1>1. MemoryType /\ HeapFrames /\ OnlyWhatWasMapped
  BY DEF SpaceIInv
<1>2. ASSUME NEW p \in Heap, NEW d \in DOMAIN entries, NEW u \in UserVPages
      PROVE  Walk(d, u) # Walk(Boot, p)
  <2>1. Walk(d, u) \in DataFrames \cup {NoFrame}
    BY <1>1 DEF OnlyWhatWasMapped
  <2>2. Walk(Boot, p) \in Frames \ Reserved
    BY <1>1 DEF HeapFrames, MemoryType
  <2> QED
    BY <2>1, <2>2, Sizes, VMMSpecConstants
<1> QED
  BY <1>1, <1>2 DEF HeapFramesPrivate, HeapFrames, Heap

----------------------------------------------------------------------------
(* Theorems of VMMSpec *)

\* The inductive invariant, as long as the frame allocator refuses no request.
THEOREM SpaceInvariance == Spec /\ [][NoneRefused]_vars => []SpaceIInv
<1>1. Init => SpaceIInv
  BY Boots, BeginsAtBoot
<1>2. SpaceIInv /\ [Next]_vars /\ [NoneRefused]_vars => SpaceIInv'
  BY SpaceStep
<1> QED
  BY <1>1, <1>2, PTL DEF Spec

\* vmm_map gives each table a frame that is no other table's, is taken in the
\* PMM and mapped by no user page and no page of the heap.
THEOREM TablesAreExclusive == Spec /\ [][NoneRefused]_vars => []TablesExclusive
BY SpaceInvariance, Tables, PTL

\* kheap_init's pages have frames that nothing else uses, whatever is mapped later.
THEOREM HeapIsPrivate == Spec /\ [][NoneRefused]_vars => []HeapFramesPrivate
BY SpaceInvariance, HeapApart, PTL

\* New tables are clean: no page is mapped that nobody mapped.
THEOREM NothingElseMapped == Spec /\ [][NoneRefused]_vars => []OnlyWhatWasMapped
<1>1. SpaceIInv => OnlyWhatWasMapped
  BY DEF SpaceIInv
<1> QED
  BY <1>1, SpaceInvariance, PTL

\* The invlpg of vmm_map and vmm_unmap are enough: the cache agrees with the tables.
THEOREM CacheAgrees == Spec /\ [][NoneRefused]_vars => []CacheCoherent
<1>1. SpaceIInv => CacheCoherent
  BY DEF SpaceIInv
<1> QED
  BY <1>1, SpaceInvariance, PTL

----------------------------------------------------------------------------
(* Directories and tables implement address spaces *)

Pages == VPages \ {Temp}

\* A page of a space gets a frame, or loses it.
LEMMA PutsInSpace ==
  ASSUME PagingType, NEW d0 \in DOMAIN entries, NEW p0 \in Pages,
         NEW f0 \in Frames \cup {NoFrame},
         p0 \in KernelVPages => DOMAIN entries = {Boot},
         DOMAIN entries' = DOMAIN entries,
         \A d \in DOMAIN entries, q \in VPages :
           Walk(d, q)' = IF d = d0 /\ q = p0 THEN f0 ELSE Walk(d, q)
  PROVE  Spaces!Next
<1> DEFINE space  == [d \in DOMAIN entries |-> [p \in VPages \ {Temp} |-> Walk(d, p)]]
<1>1. d0 \in {Boot} \cup Dirs /\ p0 \in VPages /\ Pages = VPages \ {Temp}
  BY DEF PagingType, Pages
<1>2. \A t \in DOMAIN entries, p \in Pages :
        Walk(t, p)' = IF t = d0 /\ p = p0 THEN f0 ELSE Walk(t, p)
  BY DEF Pages
<1>3. (space')[d0][p0] = f0 /\ DOMAIN space' = DOMAIN space /\ d0 \in DOMAIN space
  BY <1>1, <1>2 DEF Pages
<1>4. space' = [t \in DOMAIN space |->
                  IF t = d0 \/ p0 \in KernelVPages \ {Temp}
                  THEN [space[t] EXCEPT ![p0] = f0] ELSE space[t]]
  <2>1. \A t \in DOMAIN entries : (t = d0 \/ p0 \in KernelVPages \ {Temp}) <=> t = d0
    OBVIOUS
  <2>2. space' = [t \in DOMAIN entries |-> [p \in Pages |->
                    IF t = d0 /\ p = p0 THEN f0 ELSE Walk(t, p)]]
    BY <1>1, <1>2
  <2>3. \A t \in DOMAIN entries :
          [p \in Pages |-> IF t = d0 /\ p = p0 THEN f0 ELSE Walk(t, p)] =
          IF t = d0 THEN [space[t] EXCEPT ![p0] = f0] ELSE space[t]
    BY <1>1 DEF Pages
  <2> QED
    BY <2>1, <2>2, <2>3
<1>5. Spaces!Put(d0, p0)
  BY <1>3, <1>4 DEF Spaces!Put
<1> QED
  BY <1>1, <1>5 DEF Spaces!Next, Pages

\* One that is made has the kernel's part of Boot.
LEMMA Creates ==
  ASSUME SpaceIInv, NEW dir \in Dirs, Create(dir)
  PROVE  Spaces!Next
<1>1. /\ dir \notin DOMAIN entries /\ DOMAIN entries' = DOMAIN entries \cup {dir}
      /\ \A d \in DOMAIN entries, q \in VPages : Walk(d, q)' = Walk(d, q)
      /\ \A q \in VPages :
           Walk(dir, q)' = IF q \in KernelVPages THEN Walk(Boot, q) ELSE NoFrame
  BY CreateStep
<1>2. Boot \in DOMAIN entries
  BY DEF SpaceIInv, PagingType
<1>3. \A q \in Pages : (q \in KernelVPages \ {Temp} <=> q \in KernelVPages) /\ q \in VPages
  BY DEF Pages
<1>4. Spaces!Create(dir)
  BY <1>1, <1>2, <1>3 DEF Spaces!Create, Pages
<1> QED
  BY <1>4 DEF Spaces!Next

\* One that goes leaves the others as they were.
LEMMA Destroys ==
  ASSUME SpaceIInv, NEW dir \in Dirs, Destroy(dir)
  PROVE  Spaces!Next
<1>1. /\ dir \in DOMAIN entries \ {Boot} /\ DOMAIN entries' = DOMAIN entries \ {dir}
      /\ \A d \in DOMAIN entries', q \in VPages : Walk(d, q)' = Walk(d, q)
  BY DestroyStep
<1>2. Spaces!Destroy(dir)
  BY <1>1 DEF Spaces!Destroy
<1> QED
  BY <1>2 DEF Spaces!Next

\* vmm.c's directories are address spaces: each of its steps puts a frame behind a
\* page of one, makes or destroys one, or changes none; and vmm_map and vmm_unmap
\* change the page they are asked for, as they are asked, and no other.
THEOREM ImplementsAddressSpaces == Spec /\ [][NoneRefused]_vars => AreAddressSpaces
<1> DEFINE space  == [d \in DOMAIN entries |-> [p \in VPages \ {Temp} |-> Walk(d, p)]]
<1>1. Init => Spaces!Init
  <2> SUFFICES ASSUME Init PROVE Spaces!Init
    OBVIOUS
  <2>1. PagingType /\ entries = [d \in {Boot} |-> LoaderDirectory]
    BY Boots, BeginsAtBoot DEF SpaceIInv, Init, AfterTestarPMM
  <2>2. \A p \in Pages : Walk(Boot, p) \in Frames \cup {NoFrame}
    BY <2>1, WalkFrame DEF Pages
  <2>3. ASSUME NEW p \in Pages \ KernelVPages PROVE Walk(Boot, p) = NoFrame
    <3>1. /\ p[1] \in Indices /\ p[1] # KERNEL_PDE
      BY Sizes DEF Pages, KernelVPages, VPages, Indices
    <3>2. entries[Boot][p[1]] = Zero
      BY <2>1, <3>1 DEF LoaderDirectory, Indices
    <3> QED
      BY <3>2, Sizes DEF Walk
  <2>4. /\ DOMAIN space = {Boot}
        /\ space[Boot] = [p \in Pages |-> Walk(Boot, p)]
    BY <2>1 DEF Pages
  <2>5. space[Boot] \in [Pages -> Frames \cup {NoFrame}]
    BY <2>2, <2>4
  <2>6. \A p \in Pages \ (KernelVPages \ {Temp}) : space[Boot][p] = NoFrame
    BY <2>3, <2>4 DEF Pages
  <2> QED
    BY <2>4, <2>5, <2>6 DEF Spaces!Init, Pages
<1>2. SpaceIInv /\ [Next]_vars /\ [NoneRefused]_vars => [Spaces!Next]_space
  <2> SUFFICES ASSUME SpaceIInv, [Next]_vars, [NoneRefused]_vars
               PROVE  [Spaces!Next]_space
    OBVIOUS
  <2>1. PagingType
    BY DEF SpaceIInv
  <2>2. CASE KheapInitPage /\ NoneRefused
    <3>1. /\ DOMAIN entries = {Boot} /\ DOMAIN entries' = {Boot}
          /\ \E p0 \in KernelVPages \ {Temp}, f0 \in Frames :
               \A d \in DOMAIN entries, q \in VPages :
                 Walk(d, q)' = IF d = Boot /\ q = p0 THEN f0 ELSE Walk(d, q)
      BY <2>2, KheapStep
    <3>2. PICK p0 \in KernelVPages \ {Temp}, f0 \in Frames :
            \A d \in DOMAIN entries, q \in VPages :
              Walk(d, q)' = IF d = Boot /\ q = p0 THEN f0 ELSE Walk(d, q)
      BY <3>1
    <3>3. PICK d0 \in DOMAIN entries : d0 = Boot
      BY <3>1
    <3>4. p0 \in Pages /\ f0 \in Frames \cup {NoFrame} /\ DOMAIN entries' = DOMAIN entries
      BY <3>1 DEF Pages, KernelVPages
    <3>5. \A d \in DOMAIN entries, q \in VPages :
            Walk(d, q)' = IF d = d0 /\ q = p0 THEN f0 ELSE Walk(d, q)
      BY <3>2, <3>3
    <3> QED
      BY <2>1, <3>1, <3>4, <3>5, PutsInSpace
  <2>3. ASSUME NEW dir \in Dirs, Create(dir) \/ Destroy(dir) PROVE Spaces!Next
    BY <2>3, Creates, Destroys
  <2>4. ASSUME NEW d0 \in DOMAIN entries, NEW p0 \in UserVPages,
               Map(d0, p0) \/ Unmap(d0, p0), NoneRefused
        PROVE  Spaces!Next
    <3>1. p0 \in Pages /\ p0 \notin KernelVPages
      BY Sizes DEF Pages, UserVPages, KernelVPages, Temp
    <3>2. /\ DOMAIN entries' = DOMAIN entries
          /\ \E f0 \in Frames \cup {NoFrame} : \A d \in DOMAIN entries, q \in VPages :
               Walk(d, q)' = IF d = d0 /\ q = p0 THEN f0 ELSE Walk(d, q)
      <4>1. CASE Map(d0, p0)
        BY <2>4, <4>1, MapStep
      <4>2. CASE Unmap(d0, p0)
        BY <4>2, UnmapStep
      <4> QED
        BY <2>4, <4>1, <4>2
    <3> QED
      BY <2>1, <3>1, <3>2, PutsInSpace
  <2>5. ASSUME NEW page \in TLBPages, Fill(page) PROVE UNCHANGED space
    <3>1. entries' = entries /\ table' = table
      BY <2>5 DEF Fill
    <3> QED
      BY <3>1 DEF Walk
  <2>6. CASE UNCHANGED vars
    BY <2>6 DEF vars, vmmVars, Walk
  <2> QED
    BY <2>2, <2>3, <2>4, <2>5, <2>6, Zenon DEF Next
<1>3. SpaceIInv /\ [NoneRefused]_vars => [PutsWhatIsAsked]_vars
  <2> SUFFICES ASSUME SpaceIInv, NoneRefused, HeapReady, UNCHANGED <<heap_pages, created>>,
                      NEW d0 \in DOMAIN entries, NEW p0 \in UserVPages
               PROVE  /\ \A f0 \in DataFrames, flags \in FlagSets :
                           vmm_map(d0, p0, f0, flags, bitmap) => Puts(d0, p0, f0)
                      /\ vmm_unmap(d0, p0) => Puts(d0, p0, NoFrame)
    BY DEF PutsWhatIsAsked
  <2>1. ASSUME NEW f0 \in DataFrames, NEW flags \in FlagSets,
               vmm_map(d0, p0, f0, flags, bitmap)
        PROVE  Puts(d0, p0, f0)
    <3>1. Served(d0, p0, bitmap)
      BY <2>1 DEF Map, NoneRefused
    <3> QED
      BY <2>1, <3>1, MapAsked DEF Puts
  <2>2. ASSUME vmm_unmap(d0, p0) PROVE Puts(d0, p0, NoFrame)
    BY <2>2, UnmapAsked DEF Puts
  <2> QED
    BY <2>1, <2>2
<1> QED
  BY <1>1, <1>2, <1>3, SpaceInvariance, PTL DEF Spec, AreAddressSpaces, Spaces!Spec

----------------------------------------------------------------------------
(* The loader *)

Phases == {"map_loop", "directory", "cr0", "jmp", "higher_half", "esp", "kmain", "kernel"}

\* Where the processor stands.
Feet ==
  /\ pc \in Phases
  /\ paging = (pc \notin {"map_loop", "directory", "cr0"})
  /\ paging => cr3 = DIRECTORY
  /\ eip = IF pc \in {"map_loop", "directory", "cr0", "jmp"} THEN PHY(CODE)
                                                            ELSE Linked(CODE)
  /\ esp = IF pc \in {"kmain", "kernel"} THEN Linked(STACK) ELSE NoPage

\* boot_page_table with its first n entries written.
TableUpTo(n) ==
  [f \in Frames |-> [k \in 0 .. PTES - 1 |->
     IF f # BOOT_TABLE THEN Entry(MAX_PAGES - 1, {"P", "W", "U"})
     ELSE IF k < n THEN Entry(k, {"P", "W"}) ELSE Zero]]

Written == IF pc = "map_loop" THEN esi ELSE PTES

\* The entries of boot_page_directory that point to it.
Pointing ==
  IF pc \in {"map_loop", "directory"} THEN {}
  ELSE IF pc \in {"cr0", "jmp", "higher_half"} THEN {0, KERNEL_PDE} ELSE {KERNEL_PDE}

LoaderTables ==
  /\ entries = [d \in {Boot} |-> [i \in Indices |->
                  IF i \in Pointing THEN Entry(BOOT_TABLE, {"P", "W"}) ELSE Zero]]
  /\ table = TableUpTo(Written)
  /\ pc = "map_loop" => esi \in 0 .. PTES - 1
  /\ heap_pages = 0 /\ created = {} /\ invalidated \subseteq {<<0, 0>>}
  /\ ~paging => cached = [p \in VPages |-> NoFrame]

LoaderIInv ==
  /\ Feet
  /\ pc # "kernel" => LoaderTables
  /\ pc = "kernel" => IF heap_pages = 0 THEN BootSpace ELSE SpaceIInv
  /\ cached \in [VPages -> Frames \cup {NoFrame}] /\ CacheCoherent

\* Entries of boot_page_table and of boot_page_directory.
LEMMA LoaderEntries ==
  /\ \A k \in 0 .. PTES - 1 : /\ Entry(k, {"P", "W"}) \in Entries
                              /\ Present(Entry(k, {"P", "W"}))
                              /\ Entry(k, {"P", "W"}).frame = k
  /\ Entry(MAX_PAGES - 1, {"P", "W", "U"}) \in Entries
  /\ Entry(BOOT_TABLE, {"P", "W"}) \in Entries
  /\ Present(Entry(BOOT_TABLE, {"P", "W"}))
  /\ Entry(BOOT_TABLE, {"P", "W"}).frame = BOOT_TABLE
BY Sizes DEF Entry, Entries, Frames, Present

\* The table, written as far as it is.
LEMMA TableWords ==
  ASSUME NEW n \in Nat
  PROVE  /\ TableUpTo(n) \in [Frames -> Words]
         /\ \A k \in 0 .. PTES - 1 :
              TableUpTo(n)[BOOT_TABLE][k] = IF k < n THEN Entry(k, {"P", "W"}) ELSE Zero
BY LoaderEntries, Sizes DEF TableUpTo, Words

\* What the walk finds while the loader runs.
LEMMA LoaderWalk ==
  ASSUME Feet, LoaderTables
  PROVE  /\ PagingType
         /\ \A p \in VPages :
              Walk(Boot, p) = IF p[1] \in Pointing /\ p[2] < Written THEN p[2] ELSE NoFrame
<1>1. Written \in Nat
  BY Sizes DEF LoaderTables, Written
<1>2. /\ DOMAIN entries = {Boot} /\ entries[Boot] \in [Indices -> Entries]
      /\ \A i \in Indices : entries[Boot][i] =
           IF i \in Pointing THEN Entry(BOOT_TABLE, {"P", "W"}) ELSE Zero
  BY LoaderEntries, Sizes DEF LoaderTables
<1>3. /\ table \in [Frames -> Words]
      /\ \A k \in 0 .. PTES - 1 :
           table[BOOT_TABLE][k] = IF k < Written THEN Entry(k, {"P", "W"}) ELSE Zero
  BY <1>1, TableWords DEF LoaderTables
<1>4. PagingType
  BY <1>2, <1>3 DEF PagingType, LoaderTables
<1>5. ASSUME NEW p \in VPages
      PROVE  Walk(Boot, p) = IF p[1] \in Pointing /\ p[2] < Written THEN p[2] ELSE NoFrame
  <2>1. p[1] \in Indices /\ p[2] \in 0 .. PTES - 1
    BY DEF VPages, Indices
  <2>2. CASE p[1] \in Pointing
    <3>1. Present(entries[Boot][p[1]]) /\ entries[Boot][p[1]].frame = BOOT_TABLE
      BY <1>2, <2>1, <2>2, LoaderEntries
    <3>2. CASE p[2] < Written
      BY <1>3, <2>1, <2>2, <3>1, <3>2, LoaderEntries DEF Walk
    <3>3. CASE ~(p[2] < Written)
      BY <1>3, <2>1, <2>2, <3>1, <3>3, Sizes DEF Walk
    <3> QED
      BY <3>2, <3>3
  <2>3. CASE p[1] \notin Pointing
    BY <1>2, <2>1, <2>3, Sizes DEF Walk
  <2> QED
    BY <2>2, <2>3
<1> QED
  BY <1>4, <1>5

\* An instruction that leaves the tables alone, or writes another of their entries
\* before the cache holds anything.
LEMMA NothingCached ==
  ASSUME cached = [p \in VPages |-> NoFrame], cached' = cached
  PROVE  cached' \in [VPages -> Frames \cup {NoFrame}] /\ CacheCoherent'
<1>1. \A p \in VPages : (cached')[p] = NoFrame
  OBVIOUS
<1>2. CacheCoherent'
  BY <1>1, Zenon DEF CacheCoherent
<1> QED
  BY <1>2

\* Initially.
LEMMA LoaderBegins == LoaderInit => LoaderIInv
<1> SUFFICES ASSUME LoaderInit PROVE LoaderIInv
  OBVIOUS
<1>1. /\ entries = [d \in {Boot} |-> [i \in Indices |-> Zero]]
      /\ table = Cleared(LoaderTable, BOOT_TABLE)
      /\ cached = [p \in VPages |-> NoFrame]
      /\ invalidated = {} /\ heap_pages = 0 /\ created = {}
      /\ pc = "map_loop" /\ esi = 0 /\ paging = FALSE
      /\ eip = PHY(CODE) /\ esp = NoPage
  BY DEF LoaderInit, Indices
<1>2. table = TableUpTo(0)
  <2>1. \A k \in 0 .. PTES - 1 : ~(k < 0)
    BY Sizes
  <2> QED
    BY <1>1, <2>1, Sizes DEF Cleared, LoaderTable, TableUpTo
<1>3. Feet
  BY <1>1 DEF Feet, Phases
<1>4. LoaderTables
  BY <1>1, <1>2, Sizes DEF LoaderTables, Pointing, Written
<1>5. CacheCoherent
  BY <1>1 DEF CacheCoherent
<1> QED
  BY <1>1, <1>3, <1>4, <1>5 DEF LoaderIInv

\* One more entry of boot_page_table.
LEMMA MapLoopStep ==
  ASSUME LoaderIInv, map_loop, UNCHANGED <<heap_pages, created>>
  PROVE  LoaderIInv'
<1>1. /\ pc = "map_loop" /\ Feet /\ LoaderTables
      /\ table' = [table EXCEPT ![BOOT_TABLE][esi] = Entry(esi, {"P", "W"})]
      /\ esi' = esi + 1
      /\ pc' = (IF esi' < PTES THEN pc ELSE "directory")
      /\ UNCHANGED <<entries, cached, invalidated, cr3, paging, eip, esp>>
      /\ UNCHANGED <<heap_pages, created>>
  BY DEF map_loop, LoaderIInv
<1>2. /\ esi \in 0 .. PTES - 1 /\ table = TableUpTo(esi)
      /\ cached = [p \in VPages |-> NoFrame] /\ Pointing = {}
  BY <1>1 DEF Feet, LoaderTables, Written, Pointing
<1>3. pc' \in {"map_loop", "directory"} /\ Pointing' = {}
  BY <1>1 DEF Pointing
<1>4. Feet'
  BY <1>1, <1>3 DEF Feet, Phases, PHY
<1>5. Written' = esi + 1 /\ (pc' = "map_loop" => esi' \in 0 .. PTES - 1)
  BY <1>1, <1>2, <1>3, Sizes DEF Written
<1>6. table' = TableUpTo(esi + 1)
  <2>1. \A k \in 0 .. PTES - 1 : k < esi + 1 <=> k < esi \/ k = esi
    BY <1>2, Sizes
  <2>2. TableUpTo(esi + 1) = [TableUpTo(esi) EXCEPT ![BOOT_TABLE][esi] = Entry(esi, {"P", "W"})]
    BY <1>2, <2>1, Sizes DEF TableUpTo
  <2> QED
    BY <1>1, <1>2, <2>2
<1>7. TableUpTo(Written)' = TableUpTo(esi + 1)
  BY <1>5 DEF TableUpTo
<1>8. LoaderTables'
  BY <1>1, <1>2, <1>3, <1>5, <1>6, <1>7 DEF LoaderTables
<1>9. cached' \in [VPages -> Frames \cup {NoFrame}] /\ CacheCoherent'
  BY <1>1, <1>2, NothingCached
<1> QED
  BY <1>3, <1>4, <1>8, <1>9 DEF LoaderIInv

\* The directory's two entries.
LEMMA DirectoryStep ==
  ASSUME LoaderIInv, fill_directory, UNCHANGED <<heap_pages, created>>
  PROVE  LoaderIInv'
<1>1. /\ pc = "directory" /\ Feet /\ LoaderTables
      /\ entries' = [entries EXCEPT ![Boot] = [i \in Indices |->
           IF i \in {0, KERNEL_PDE} THEN Entry(BOOT_TABLE, {"P", "W"}) ELSE @[i]]]
      /\ pc' = "cr0"
      /\ UNCHANGED <<table, cached, invalidated, esi, cr3, paging, eip, esp>>
      /\ UNCHANGED <<heap_pages, created>>
  BY DEF fill_directory, LoaderIInv, Indices
<1>2. /\ entries = [d \in {Boot} |-> [i \in Indices |-> Zero]]
      /\ table = TableUpTo(PTES) /\ cached = [p \in VPages |-> NoFrame]
  BY <1>1 DEF Feet, LoaderTables, Written, Pointing
<1>3. Feet'
  BY <1>1 DEF Feet, Phases, PHY
<1>4. entries' = [d \in {Boot} |-> [i \in Indices |->
                   IF i \in {0, KERNEL_PDE} THEN Entry(BOOT_TABLE, {"P", "W"}) ELSE Zero]]
  BY <1>1, <1>2
<1>5. Pointing' = {0, KERNEL_PDE} /\ Written' = PTES
  BY <1>1 DEF Pointing, Written
<1>6. TableUpTo(Written)' = TableUpTo(PTES)
  BY <1>5 DEF TableUpTo
<1>7. LoaderTables'
  BY <1>1, <1>2, <1>4, <1>5, <1>6 DEF LoaderTables
<1>8. cached' \in [VPages -> Frames \cup {NoFrame}] /\ CacheCoherent'
  BY <1>1, <1>2, NothingCached
<1> QED
  BY <1>1, <1>3, <1>7, <1>8 DEF LoaderIInv

\* Instructions that leave tables and cache alone.
LEMMA FeetStep ==
  ASSUME LoaderIInv, enable_paging \/ jmp_higher_half \/ call_kmain,
         UNCHANGED <<heap_pages, created>>
  PROVE  LoaderIInv'
<1>1. Feet /\ LoaderTables /\ CacheCoherent /\ cached \in [VPages -> Frames \cup {NoFrame}]
  BY DEF LoaderIInv, enable_paging, jmp_higher_half, call_kmain
<1>2. /\ UNCHANGED <<entries, table, cached, invalidated>>
      /\ UNCHANGED <<heap_pages, created>>
      /\ pc # "map_loop" /\ pc' \notin {"map_loop", "kernel"}
      /\ paging => paging'
  BY <1>1 DEF Feet, enable_paging, jmp_higher_half, call_kmain
<1>3. Feet'
  BY <1>1 DEF Feet, Phases, PHY, Linked, enable_paging, jmp_higher_half, call_kmain
<1>4. Pointing' = Pointing /\ Written' = Written
  BY DEF Pointing, Written, enable_paging, jmp_higher_half, call_kmain
<1>5. TableUpTo(Written)' = TableUpTo(Written)
  BY <1>4 DEF TableUpTo
<1>6. LoaderTables'
  BY <1>1, <1>2, <1>3, <1>4, <1>5 DEF LoaderTables, Feet
<1>7. CacheCoherent'
  <2> SUFFICES ASSUME NEW p \in VPages
               PROVE  \/ (cached')[p] \in {NoFrame, Walk(Boot, p)'}
                      \/ p \in LoaderPages \ invalidated' /\ (cached')[p] = p[2]
    BY Zenon DEF CacheCoherent, LoaderPages
  <2>1. Walk(Boot, p)' = Walk(Boot, p)
    BY <1>2 DEF Walk
  <2> QED
    BY <1>1, <1>2, <2>1 DEF CacheCoherent
<1> QED
  BY <1>1, <1>2, <1>3, <1>6, <1>7 DEF LoaderIInv

\* The identity mapping goes: what the cache has of it is the loader's to answer for.
LEMMA HigherHalfStep ==
  ASSUME LoaderIInv, higher_half, UNCHANGED <<heap_pages, created>>
  PROVE  LoaderIInv'
<1>1. /\ pc = "higher_half" /\ Feet /\ LoaderTables /\ CacheCoherent
      /\ cached \in [VPages -> Frames \cup {NoFrame}]
      /\ entries' = [entries EXCEPT ![Boot][0] = Zero]
      /\ Invlpg({<<0, 0>>}) /\ pc' = "esp"
      /\ UNCHANGED <<table, esi, cr3, paging, eip, esp>>
      /\ UNCHANGED <<heap_pages, created>>
  BY DEF higher_half, LoaderIInv
<1>2. /\ Pointing = {0, KERNEL_PDE} /\ Written = PTES
      /\ Pointing' = {KERNEL_PDE} /\ Written' = PTES
  BY <1>1 DEF Pointing, Written
<1>3. /\ cached' = [p \in VPages |-> IF p \in {<<0, 0>>} THEN NoFrame ELSE cached[p]]
      /\ invalidated' = invalidated \cup {<<0, 0>>}
  BY <1>1 DEF Invlpg
<1>4. Feet'
  BY <1>1 DEF Feet, Phases, PHY, Linked
<1>5. TableUpTo(Written)' = TableUpTo(Written)
  BY <1>2 DEF TableUpTo
<1>6. entries' = [d \in {Boot} |-> [i \in Indices |->
                   IF i \in {KERNEL_PDE} THEN Entry(BOOT_TABLE, {"P", "W"}) ELSE Zero]]
  <2> DEFINE low == [i \in Indices |->
                       IF i \in {0, KERNEL_PDE} THEN Entry(BOOT_TABLE, {"P", "W"}) ELSE Zero]
  <2>1. entries = [d \in {Boot} |-> low]
    BY <1>1, <1>2 DEF LoaderTables
  <2>2. entries' = [d \in {Boot} |-> [low EXCEPT ![0] = Zero]]
    BY <1>1, <2>1
  <2>3. [low EXCEPT ![0] = Zero] = [i \in Indices |->
          IF i \in {KERNEL_PDE} THEN Entry(BOOT_TABLE, {"P", "W"}) ELSE Zero]
    <3>1. KERNEL_PDE # 0
      BY Sizes
    <3>2. \A e : [[i \in Indices |-> IF i \in {0, KERNEL_PDE} THEN e ELSE Zero]
                    EXCEPT ![0] = Zero] =
                  [i \in Indices |-> IF i \in {KERNEL_PDE} THEN e ELSE Zero]
      BY <3>1, Zenon
    <3> QED
      BY <3>2
  <2> QED
    BY <2>2, <2>3
<1>7. paging'
  BY <1>1 DEF Feet
<1>8. LoaderTables'
  BY <1>1, <1>2, <1>3, <1>5, <1>6, <1>7 DEF LoaderTables
<1>9. /\ \A p \in VPages : Walk(Boot, p) = IF p[1] \in {0, KERNEL_PDE} THEN p[2] ELSE NoFrame
      /\ \A p \in VPages : Walk(Boot, p)' = IF p[1] = KERNEL_PDE THEN p[2] ELSE NoFrame
  <2>1. \A p \in VPages : p[2] < PTES
    BY Sizes DEF VPages
  <2>2. \A p \in VPages : Walk(Boot, p) = IF p[1] \in {0, KERNEL_PDE} THEN p[2] ELSE NoFrame
    BY <1>1, <1>2, <2>1, LoaderWalk
  <2>3. ASSUME NEW p \in VPages
        PROVE  Walk(Boot, p)' = IF p[1] = KERNEL_PDE THEN Walk(Boot, p) ELSE NoFrame
    <3>1. p[1] \in Indices
      BY DEF VPages, Indices
    <3>2. p[1] = KERNEL_PDE => (entries')[Boot][p[1]] = entries[Boot][p[1]]
      BY <1>1, <1>2, <1>6, <3>1 DEF LoaderTables
    <3>3. p[1] # KERNEL_PDE => (entries')[Boot][p[1]] = Zero
      BY <1>6, <3>1
    <3> QED
      BY <1>1, <3>2, <3>3, Sizes DEF Walk
  <2> QED
    BY <2>2, <2>3
<1>10. cached' \in [VPages -> Frames \cup {NoFrame}]
  BY <1>1, <1>3
<1>11. CacheCoherent'
  <2> SUFFICES ASSUME NEW p \in VPages
               PROVE  \/ (cached')[p] \in {NoFrame, Walk(Boot, p)'}
                      \/ p \in LoaderPages \ invalidated' /\ (cached')[p] = p[2]
    BY Zenon DEF CacheCoherent, LoaderPages
  <2>1. cached[p] \in {NoFrame, Walk(Boot, p)} \/ cached[p] = p[2]
    BY <1>1 DEF CacheCoherent
  <2>2. CASE p = <<0, 0>>
    BY <1>3, <2>2
  <2>3. CASE p # <<0, 0>> /\ p[1] = 0
    <3>1. p \in LoaderPages
      BY <2>3 DEF LoaderPages, VPages
    <3>2. p \notin invalidated'
      BY <1>1, <1>3, <2>3 DEF LoaderTables
    <3>3. (cached')[p] \in {NoFrame, p[2]}
      BY <1>3, <1>9, <2>1, <2>3
    <3> QED
      BY <3>1, <3>2, <3>3
  <2>4. CASE p[1] # 0
    <3>1. cached[p] \in {NoFrame, Walk(Boot, p)}
      BY <1>1, <2>4 DEF CacheCoherent, LoaderPages
    <3>2. (cached')[p] = cached[p] /\ Walk(Boot, p)' = Walk(Boot, p)
      BY <1>3, <1>9, <2>4
    <3> QED
      BY <3>1, <3>2
  <2> QED
    BY <2>2, <2>3, <2>4
<1> QED
  BY <1>1, <1>4, <1>8, <1>10, <1>11 DEF LoaderIInv

\* kmain's first steps leave what the heap's set-up begins with.
LEMMA KmainStep ==
  ASSUME LoaderIInv, kmain
  PROVE  LoaderIInv'
<1>1. /\ pc = "kmain" /\ Feet /\ LoaderTables /\ CacheCoherent
      /\ cached \in [VPages -> Frames \cup {NoFrame}]
      /\ bitmap' = Reserved /\ max_available_pages' = Available
      /\ table' = WindowClosed(table) /\ Invlpg({Temp}) /\ pc' = "kernel"
      /\ UNCHANGED <<entries, heap_pages, created, esi, cr3, paging, eip, esp>>
  BY DEF kmain, LoaderIInv
<1>2. Pointing = {KERNEL_PDE} /\ Written = PTES
  BY <1>1 DEF Pointing, Written
<1>3. Feet'
  BY <1>1 DEF Feet, Phases, PHY, Linked
<1>4. entries = [d \in {Boot} |-> LoaderDirectory]
  BY <1>1, <1>2 DEF LoaderTables, LoaderDirectory, Indices
<1>5. table = LoaderTable
  <2>1. \A k \in 0 .. PTES - 1 : k < PTES
    BY Sizes
  <2>2. TableUpTo(PTES) = LoaderTable
    BY <2>1 DEF TableUpTo, LoaderTable
  <2> QED
    BY <1>1, <1>2, <2>2 DEF LoaderTables
<1>6. PagingType
  BY <1>1, LoaderWalk
<1>7. \A p \in VPages : p # Temp => Walk(Boot, p)' = Walk(Boot, p)
  <2> SUFFICES ASSUME NEW p \in VPages, p # Temp PROVE Walk(Boot, p)' = Walk(Boot, p)
    OBVIOUS
  <2>1. p[1] \in Indices /\ p[2] \in 0 .. PTES - 1 /\ (p[1] # KERNEL_PDE \/ p[2] # PTES - 1)
    BY DEF VPages, Indices, Temp
  <2>2. /\ p[1] # KERNEL_PDE => entries[Boot][p[1]] = Zero
        /\ entries[Boot][KERNEL_PDE].frame = BOOT_TABLE
    BY <1>4, <2>1, LoaderEntries, Sizes DEF LoaderDirectory, Indices
  <2>3. CASE p[1] # KERNEL_PDE
    BY <1>1, <2>2, <2>3, Sizes DEF Walk
  <2>4. CASE p[1] = KERNEL_PDE
    <3>1. (table')[BOOT_TABLE][p[2]] = table[BOOT_TABLE][p[2]]
      BY <1>1, <1>6, <2>1, <2>4, WindowWords, Sizes DEF PagingType
    <3> QED
      BY <1>1, <2>2, <2>4, <3>1 DEF Walk
  <2> QED
    BY <2>3, <2>4
<1>8. cached' \in [VPages -> Frames \cup {NoFrame}] /\ CacheCoherent'
  <2>1. {Temp, Temp} = {Temp} /\ Temp \in VPages
    BY Sizes
  <2>2. Invlpg({Temp, Temp})
    BY <1>1, <2>1
  <2> QED
    BY <1>1, <1>6, <1>7, <2>1, <2>2, Invalidates
<1>9. BootSpace'
  <2>1. LoaderDirectory' = LoaderDirectory /\ WindowClosed(LoaderTable)' = WindowClosed(LoaderTable)
    BY DEF LoaderDirectory, LoaderTable, WindowClosed
  <2>2. heap_pages = 0 /\ created = {}
    BY <1>1 DEF LoaderTables
  <2> QED
    BY <1>1, <1>4, <1>5, <1>8, <2>1, <2>2 DEF BootSpace
<1> QED
  BY <1>1, <1>3, <1>8, <1>9 DEF LoaderIInv, BootSpace

\* The processor fills its cache while the loader runs.
LEMMA LoaderFillStep ==
  ASSUME LoaderIInv, pc # "kernel", paging, UNCHANGED loaderVars, NEW page, Fill(page)
  PROVE  LoaderIInv'
<1>1. /\ Feet /\ LoaderTables /\ CacheCoherent
      /\ cached \in [VPages -> Frames \cup {NoFrame}]
      /\ UNCHANGED <<pc, esi, cr3, paging, eip, esp>>
      /\ UNCHANGED <<entries, table, invalidated, heap_pages, created>>
  BY DEF LoaderIInv, loaderVars, Fill
<1>2. cached' \in [VPages -> Frames \cup {NoFrame}] /\ CacheCoherent'
  BY <1>1, LoaderWalk, Fills
<1>3. Pointing' = Pointing /\ Written' = Written
  BY <1>1 DEF Pointing, Written
<1>4. TableUpTo(Written)' = TableUpTo(Written)
  BY <1>3 DEF TableUpTo
<1>5. Feet' /\ LoaderTables'
  BY <1>1, <1>3, <1>4 DEF Feet, LoaderTables
<1> QED
  BY <1>1, <1>2, <1>5 DEF LoaderIInv

\* A step of the kernel on the loader's tables.
LEMMA KernelStep ==
  ASSUME LoaderIInv, pc = "kernel", UNCHANGED loaderVars, [NoneRefused]_vars,
         Next \/ \E page \in TLBPages : Fill(page)
  PROVE  LoaderIInv'
<1>1. /\ Feet /\ UNCHANGED <<pc, esi, cr3, paging, eip, esp>>
      /\ IF heap_pages = 0 THEN BootSpace ELSE SpaceIInv
  BY DEF LoaderIInv, loaderVars
<1>2. Next
  BY DEF Next
<1>3. SpaceIInv /\ SpaceIInv'
  BY <1>1, <1>2, Boots, SpaceStep
<1>4. Feet'
  BY <1>1 DEF Feet
<1>5. cached' \in [VPages -> Frames \cup {NoFrame}] /\ CacheCoherent'
  BY <1>3 DEF SpaceIInv, MemoryType
<1>6. CASE heap_pages' = 0
  <2>1. heap_pages \in Nat /\ HEAP_PAGES \in Nat \ {0}
    BY <1>3, VMMConstants, Sizes DEF SpaceIInv, MemoryType
  <2>2. heap_pages = 0
    BY <1>2, <1>6, <2>1 DEF Next, KheapInitPage, Create, Destroy, Map, Unmap, Fill
  <2>3. BootSpace /\ DOMAIN entries = {Boot}
    BY <1>1, <2>2 DEF BootSpace
  <2>4. \E page \in TLBPages : Fill(page)
    <3>1. ~KheapInitPage
      BY <1>6, <2>1, <2>2 DEF KheapInitPage
    <3>2. ~HeapReady
      BY <2>1, <2>2 DEF HeapReady
    <3>3. \A dir \in Dirs : ~Create(dir) /\ ~Destroy(dir)
      BY <2>3, <3>2 DEF Create, Destroy
    <3>4. \A dir, page : ~Map(dir, page) /\ ~Unmap(dir, page)
      BY <3>2 DEF Map, Unmap
    <3> QED
      BY <1>2, <3>1, <3>3, <3>4 DEF Next
  <2>5. UNCHANGED <<entries, table, heap_pages, created, bitmap, max_available_pages>>
    BY <2>4 DEF Fill, pmmVars
  <2>6. BootSpace'
    BY <1>5, <2>3, <2>5 DEF BootSpace, LoaderDirectory, LoaderTable, WindowClosed
  <2> QED
    BY <1>1, <1>4, <1>5, <1>6, <2>6 DEF LoaderIInv
<1>7. CASE heap_pages' # 0
  BY <1>1, <1>3, <1>4, <1>5, <1>7 DEF LoaderIInv
<1> QED
  BY <1>6, <1>7

\* Every step of the loader, and of the kernel after it, keeps the invariant.
LEMMA LoaderIInvStep ==
  ASSUME LoaderIInv, [LoaderNext]_allVars, [pc = "kernel" => NoneRefused]_allVars
  PROVE  LoaderIInv'
<1>1. CASE LoaderStep
  <2>1. UNCHANGED <<heap_pages, created>>
    BY <1>1 DEF LoaderStep
  <2> QED
    BY <1>1, <2>1, MapLoopStep, DirectoryStep, FeetStep, HigherHalfStep DEF LoaderStep
<1>2. CASE kmain
  BY <1>2, KmainStep
<1>3. CASE paging /\ UNCHANGED loaderVars /\ \E page \in TLBPages : Fill(page)
  <2>1. CASE pc = "kernel"
    <3>1. [NoneRefused]_vars
      BY <2>1 DEF allVars
    <3> QED
      BY <1>3, <2>1, <3>1, KernelStep
  <2>2. CASE pc # "kernel"
    BY <1>3, <2>2, LoaderFillStep
  <2> QED
    BY <2>1, <2>2
<1>4. CASE pc = "kernel" /\ UNCHANGED loaderVars /\ Next
  <2>1. [NoneRefused]_vars
    BY <1>4 DEF allVars
  <2> QED
    BY <1>4, <2>1, KernelStep
<1>5. CASE UNCHANGED allVars
  <2>1. /\ UNCHANGED <<entries, table, cached, invalidated, heap_pages, created>>
        /\ UNCHANGED <<bitmap, max_available_pages, pc, esi, cr3, paging, eip, esp>>
        /\ UNCHANGED vars
    BY <1>5 DEF allVars, vars, loaderVars, pmmVars, vmmVars
  <2>2. CacheCoherent'
    <3> SUFFICES ASSUME NEW p \in VPages
                 PROVE  \/ (cached')[p] \in {NoFrame, Walk(Boot, p)'}
                        \/ p \in LoaderPages \ invalidated' /\ (cached')[p] = p[2]
      BY Zenon DEF CacheCoherent, LoaderPages
    <3>1. Walk(Boot, p)' = Walk(Boot, p)
      BY <2>1 DEF Walk
    <3> QED
      BY <2>1, <3>1 DEF LoaderIInv, CacheCoherent
  <2>3. cached' \in [VPages -> Frames \cup {NoFrame}] /\ Feet'
    BY <2>1 DEF LoaderIInv, Feet
  <2>4. pc' # "kernel" => LoaderTables'
    <3>1. Pointing' = Pointing /\ Written' = Written
      BY <2>1 DEF Pointing, Written
    <3>2. TableUpTo(Written)' = TableUpTo(Written)
      BY <3>1 DEF TableUpTo
    <3> QED
      BY <2>1, <3>1, <3>2 DEF LoaderIInv, LoaderTables
  <2>5. pc' = "kernel" => IF heap_pages' = 0 THEN BootSpace' ELSE SpaceIInv'
    <3>1. BootSpace => BootSpace'
      BY <2>1, <2>2, <2>3 DEF BootSpace, LoaderDirectory, LoaderTable, WindowClosed
    <3>2. ASSUME SpaceIInv PROVE SpaceIInv'
      BY <2>1, <2>2, <2>3, <3>2, CacheOnly
    <3> QED
      BY <2>1, <3>1, <3>2 DEF LoaderIInv
  <2> QED
    BY <2>2, <2>3, <2>4, <2>5 DEF LoaderIInv
<1> QED
  BY <1>1, <1>2, <1>3, <1>4, <1>5 DEF LoaderNext

\* A page of the kernel's first table, below the window, is reached at its frame.
LEMMA ReachedLinked ==
  ASSUME LoaderIInv, pc \notin {"map_loop", "directory", "cr0"},
         NEW f \in 0 .. PTES - 2
  PROVE  Reached(Linked(f)) = {f}
<1>1. f \in 0 .. PTES - 1 /\ f # PTES - 1 /\ f < PTES /\ f # NoFrame
  BY Sizes DEF NoFrame
<1>2. /\ Linked(f) \in VPages /\ Linked(f)[1] = KERNEL_PDE /\ Linked(f)[2] = f
      /\ Linked(f) \notin LoaderPages
  BY <1>1, Sizes DEF Linked, VPages, LoaderPages, Indices
<1>3. Walk(Boot, Linked(f)) = f
  <2>1. CASE pc # "kernel"
    <3>1. Feet /\ LoaderTables
      BY <2>1 DEF LoaderIInv
    <3>2. KERNEL_PDE \in Pointing /\ Written = PTES
      BY <2>1 DEF Pointing, Written
    <3> QED
      BY <1>1, <1>2, <3>1, <3>2, LoaderWalk
  <2>2. CASE pc = "kernel"
    <3>1. KernelPart /\ Boot \in DOMAIN entries
      BY <2>2, Boots DEF LoaderIInv, SpaceIInv, PagingType
    <3>2. Present(entries[Boot][KERNEL_PDE]) /\ entries[Boot][KERNEL_PDE].frame = BOOT_TABLE
      BY <3>1, BootSlot
    <3>3. table[BOOT_TABLE][f] = Entry(f, {"P", "W"})
      BY <1>1, <3>1 DEF KernelPart
    <3> QED
      BY <1>1, <1>2, <3>2, <3>3, LoaderEntries DEF Walk
  <2> QED
    BY <2>1, <2>2
<1>4. cached[Linked(f)] \in {NoFrame, f}
  BY <1>2, <1>3 DEF LoaderIInv, CacheCoherent
<1>5. paging
  BY DEF LoaderIInv, Feet
<1> QED
  BY <1>1, <1>3, <1>4, <1>5 DEF Reached

\* Instructions and stack are where the linker put them.
LEMMA Stands == LoaderIInv => StandsOnItsFeet
<1> SUFFICES ASSUME LoaderIInv PROVE StandsOnItsFeet
  OBVIOUS
<1>1. Feet /\ CODE \in 0 .. PTES - 2 /\ STACK \in 0 .. PTES - 2
  BY LoaderConstants DEF LoaderIInv
<1>2. Reached(eip) = {CODE}
  <2>1. CASE pc \in {"map_loop", "directory", "cr0"}
    <3>1. eip = <<0, CODE>> /\ ~paging
      BY <1>1, <2>1 DEF Feet, PHY
    <3> QED
      BY <3>1 DEF Reached
  <2>2. CASE pc = "jmp"
    <3>1. eip = <<0, CODE>> /\ paging
      BY <1>1, <2>2 DEF Feet, PHY
    <3>2. eip \in VPages /\ CODE < PTES /\ CODE # NoFrame
      BY <1>1, <3>1, Sizes DEF VPages, Indices, NoFrame
    <3>3. 0 \in Pointing /\ Written = PTES /\ LoaderTables
      BY <2>2 DEF Pointing, Written, LoaderIInv
    <3>4. Walk(Boot, eip) = CODE
      BY <1>1, <3>1, <3>2, <3>3, LoaderWalk
    <3>5. cached[eip] \in {NoFrame, CODE}
      BY <3>1, <3>2, <3>4 DEF LoaderIInv, CacheCoherent
    <3> QED
      BY <3>1, <3>2, <3>4, <3>5 DEF Reached
  <2>3. CASE pc \notin {"map_loop", "directory", "cr0", "jmp"}
    <3>1. eip = Linked(CODE)
      BY <1>1, <2>3 DEF Feet
    <3> QED
      BY <1>1, <2>3, <3>1, ReachedLinked
  <2> QED
    BY <2>1, <2>2, <2>3
<1>3. esp # NoPage => Reached(esp) = {STACK}
  BY <1>1, ReachedLinked DEF Feet
<1> QED
  BY <1>2, <1>3 DEF StandsOnItsFeet

----------------------------------------------------------------------------
(* Theorems of the loader *)

\* The inductive invariant, from GRUB's jump on.
THEOREM LoaderInvariance ==
  LoaderSpec /\ [][pc = "kernel" => NoneRefused]_allVars => []LoaderIInv
<1>1. LoaderInit => LoaderIInv
  BY LoaderBegins
<1>2. LoaderIInv /\ [LoaderNext]_allVars /\ [pc = "kernel" => NoneRefused]_allVars
        => LoaderIInv'
  BY LoaderIInvStep
<1> QED
  BY <1>1, <1>2, PTL DEF LoaderSpec

\* Whatever the cache holds, each instruction comes from the kernel's code and each
\* push goes to its stack, while paging is turned on and the identity mapping goes.
THEOREM KeepsItsFeet ==
  LoaderSpec /\ [][pc = "kernel" => NoneRefused]_allVars => []StandsOnItsFeet
BY LoaderInvariance, Stands, PTL

\* loader.s and testar_pmm leave the tables that VMMSpec begins with.
THEOREM LeavesWhatVMMExpects ==
  LoaderSpec /\ [][pc = "kernel" => NoneRefused]_allVars => []LeavesBootSpace
<1>1. LoaderIInv => LeavesBootSpace
  <2> SUFFICES ASSUME LoaderIInv, pc = "kernel", heap_pages = 0
               PROVE  /\ cr3 = DIRECTORY
                      /\ entries = [d \in {Boot} |-> LoaderDirectory]
                      /\ table = WindowClosed(LoaderTable)
                      /\ \A p \in VPages \ KernelVPages :
                           cached[p] # NoFrame => p \in LoaderPages /\ cached[p] = p[2]
    BY DEF LeavesBootSpace
  <2>1. Feet /\ BootSpace /\ CacheCoherent
    BY DEF LoaderIInv
  <2>2. ASSUME NEW p \in VPages \ KernelVPages PROVE Walk(Boot, p) = NoFrame
    <3>1. p[1] \in Indices /\ p[1] # KERNEL_PDE
      BY Sizes DEF KernelVPages, VPages, Indices
    <3>2. entries[Boot][p[1]] = Zero
      BY <2>1, <3>1 DEF BootSpace, LoaderDirectory, Indices
    <3> QED
      BY <3>2, Sizes DEF Walk
  <2>3. cr3 = DIRECTORY
    BY <2>1 DEF Feet
  <2> QED
    BY <2>1, <2>2, <2>3 DEF BootSpace, CacheCoherent
<1> QED
  BY <1>1, LoaderInvariance, PTL

\* The one invlpg of the loader leaves stale translations, but of its own pages only.
THEOREM OnlyTheLoadersAreStale ==
  LoaderSpec /\ [][pc = "kernel" => NoneRefused]_allVars => []StaleOnlyFromLoader
<1>1. LoaderIInv => StaleOnlyFromLoader
  BY DEF LoaderIInv, StaleOnlyFromLoader
<1> QED
  BY <1>1, LoaderInvariance, PTL

----------------------------------------------------------------------------
(* How many frames are enough *)

\* The entries tables can be made for: one each, but for the loader's.
TableUniverse ==
  ({Boot} \X (Indices \ {KERNEL_PDE})) \cup (Dirs \X (0 .. KERNEL_PDE - 1))

\* A frame for each page of the heap and each of them.
EnoughFrames ==
  /\ IsFiniteSet(Dirs)
  /\ HEAP_PAGES + (PDES - 1) + KERNEL_PDE * Cardinality(Dirs)
       <= Cardinality(FreeFrames(Reserved, Available))

\* What counting needs, and what holds of it even when requests are refused.
CountType ==
  /\ Boot \in DOMAIN entries /\ DOMAIN entries \subseteq {Boot} \cup created
  /\ created \subseteq Dirs /\ IsFiniteSet(created)
  /\ entries \in [DOMAIN entries -> [Indices -> Entries]]
  /\ bitmap \subseteq Frames /\ Reserved \subseteq bitmap
  /\ max_available_pages = Available
  /\ heap_pages \in 0 .. HEAP_PAGES

CountIInv == CountType /\ FramesAccountedFor

\* One request takes one frame at most, and none out of the machine.
LEMMA OneFrame ==
  ASSUME NEW b \in SUBSET Frames, Reserved \subseteq b
  PROVE  /\ FirstFree(b, Available) \in Frames
         /\ Taken(b, Available) \in SUBSET Frames /\ b \subseteq Taken(b, Available)
         /\ Cardinality(b \ Reserved) \in Nat
         /\ Cardinality(Taken(b, Available) \ Reserved) \in Nat
         /\ Cardinality(Taken(b, Available) \ Reserved) <= Cardinality(b \ Reserved) + 1
<1>1. IsFiniteSet(Frames) /\ MAX_PAGES \in Nat
  BY FS_Interval, Sizes DEF Frames
<1>2. IsFiniteSet(b \ Reserved) /\ Cardinality(b \ Reserved) \in Nat
  BY <1>1, FS_Subset, FS_CardinalityType
<1>3. CASE FreeFrames(b, Available) = {}
  <2>1. FirstFree(b, Available) = 0 /\ Taken(b, Available) = b
    BY <1>3 DEF FirstFree, Taken
  <2>2. 0 \in Frames
    BY Sizes DEF Frames
  <2> QED
    BY <1>2, <2>1, <2>2
<1>4. CASE FreeFrames(b, Available) # {}
  <2>1. PICK f \in Frames \ b :
          f = FirstFree(b, Available) /\ Taken(b, Available) = b \cup {f}
    BY <1>4, Search
  <2>2. (b \cup {f}) \ Reserved = (b \ Reserved) \cup {f}
    BY <2>1
  <2>3. /\ IsFiniteSet((b \ Reserved) \cup {f})
        /\ Cardinality((b \ Reserved) \cup {f}) = Cardinality(b \ Reserved) + 1
    BY <1>2, <2>1, FS_AddElement
  <2>4. FirstFree(b, Available) \in Frames
    BY <2>1
  <2>5. Taken(b, Available) \in SUBSET Frames /\ b \subseteq Taken(b, Available)
    BY <2>1
  <2>6. Cardinality(Taken(b, Available) \ Reserved) = Cardinality(b \ Reserved) + 1
    BY <2>1, <2>2, <2>3
  <2> QED
    BY <1>2, <2>4, <2>5, <2>6
<1> QED
  BY <1>3, <1>4

\* The tables made are finitely many, and there is no more of them than entries.
LEMMA TablesAreFew ==
  ASSUME CountType
  PROVE  /\ TablesMade \subseteq TableUniverse /\ TablesMade \cap {<<Boot, KERNEL_PDE>>} = {}
         /\ IsFiniteSet(TablesMade) /\ Cardinality(TablesMade) \in Nat
<1>1. TableSlots \subseteq (DOMAIN entries) \X Indices
  BY DEF TableSlots, Indices
<1>2. TablesMade \subseteq ({Boot} \cup created) \X Indices
  BY <1>1, Sizes DEF TablesMade, CountType, Indices
<1>3. IsFiniteSet(Indices)
  BY FS_Interval, Sizes DEF Indices
<1>4. IsFiniteSet({Boot} \cup created)
  <2>1. {Boot} \cup created = created \cup {Boot}
    OBVIOUS
  <2> QED
    BY <2>1, FS_AddElement DEF CountType
<1>5. IsFiniteSet(TablesMade) /\ Cardinality(TablesMade) \in Nat
  <2>1. IsFiniteSet(({Boot} \cup created) \X Indices)
    BY <1>3, <1>4, FS_Product
  <2> QED
    BY <1>2, <2>1, FS_Subset, FS_CardinalityType
<1>6. ASSUME NEW s \in TablesMade PROVE s \in TableUniverse /\ s # <<Boot, KERNEL_PDE>>
  <2>1. CASE s \in TableSlots \ {<<Boot, KERNEL_PDE>>}
    BY <2>1, Sizes DEF TableSlots, TableUniverse, CountType, Indices
  <2>2. CASE s \in (created \ DOMAIN entries) \X (0 .. KERNEL_PDE - 1)
    BY <2>2, Sizes DEF TableUniverse, CountType
  <2> QED
    BY <2>1, <2>2 DEF TablesMade
<1> QED
  BY <1>5, <1>6

\* vmm_map makes a table for an entry that has none, and asks for one frame for it.
LEMMA MapMakes ==
  ASSUME CountType, NEW d0 \in DOMAIN entries, NEW p0 \in VPages, d0 = Boot \/ p0[1] < KERNEL_PDE,
         NEW f0 \in Frames, NEW flags \in SUBSET {"W", "U"}, NEW b \in SUBSET Frames,
         Reserved \subseteq b, vmm_map(d0, p0, f0, flags, b), created' = created
  PROVE  /\ DOMAIN entries' = DOMAIN entries
         /\ entries' \in [DOMAIN entries -> [Indices -> Entries]]
         /\ max_available_pages' = Available
         /\ bitmap' = IF Present(entries[d0][p0[1]]) THEN b ELSE Taken(b, Available)
         /\ TableSlots' = TableSlots \cup {<<d0, p0[1]>>}
<1> DEFINE got == TableFor(d0, p0[1], flags, b)
           i0  == p0[1]
<1>1. i0 \in Indices /\ entries[d0][i0] \in Entries
  BY DEF VPages, Indices, CountType
<1>2. /\ got.entry \in Entries /\ Present(got.entry)
      /\ got.bitmap = IF Present(entries[d0][i0]) THEN b ELSE Taken(b, Available)
  <2>1. CASE Present(entries[d0][i0])
    BY <1>1, <2>1 DEF TableFor
  <2>2. CASE ~Present(entries[d0][i0])
    <3>1. PICK t \in Frames : t = FirstFree(b, Available)
      BY OneFrame
    <3>2. got.entry = Entry(t, {"P"} \cup flags) /\ got.bitmap = Taken(b, Available)
      BY <2>2, <3>1 DEF TableFor, CountType
    <3> QED
      BY <2>2, <3>1, <3>2, EntryFlags
  <2> QED
    BY <2>1, <2>2
<1>3. /\ entries' = [entries EXCEPT ![d0][i0] = got.entry]
      /\ bitmap' = got.bitmap /\ max_available_pages' = Available
  BY DEF vmm_map, CountType
<1> HIDE DEF got
<1>4. /\ entries' \in [DOMAIN entries -> [Indices -> Entries]]
      /\ (entries')[d0][i0] = got.entry
      /\ \A d \in DOMAIN entries, i \in Indices :
           d # d0 \/ i # i0 => (entries')[d][i] = entries[d][i]
  BY <1>1, <1>2, <1>3 DEF CountType
<1>5. TableSlots' = TableSlots \cup {<<d0, i0>>}
  <2>1. TableSlots' = {s \in (DOMAIN entries) \X Indices :
                         /\ s[1] = Boot \/ s[2] < KERNEL_PDE
                         /\ Present((entries')[s[1]][s[2]])}
    BY <1>4 DEF TableSlots, Indices, Present
  <2>2. TableSlots = {s \in (DOMAIN entries) \X Indices :
                        /\ s[1] = Boot \/ s[2] < KERNEL_PDE
                        /\ Present(entries[s[1]][s[2]])}
    BY DEF TableSlots, Indices
  <2>3. ASSUME NEW s \in (DOMAIN entries) \X Indices, s # <<d0, i0>>
        PROVE  (entries')[s[1]][s[2]] = entries[s[1]][s[2]]
    BY <1>4, <2>3
  <2>4. \A s \in TableSlots' : s \in TableSlots \cup {<<d0, i0>>}
    BY <2>1, <2>2, <2>3
  <2>5. \A s \in TableSlots : s \in TableSlots' \/ s = <<d0, i0>>
    BY <2>1, <2>2, <2>3
  <2>6. <<d0, i0>> \in TableSlots'
    <3>1. <<d0, i0>> \in (DOMAIN entries) \X Indices /\ Present((entries')[d0][i0])
      BY <1>1, <1>2, <1>4
    <3> QED
      BY <2>1, <3>1
  <2> QED
    BY <2>4, <2>5, <2>6
<1> QED
  BY <1>2, <1>3, <1>4, <1>5

\* So that the frames spent and the tables made go up together.
LEMMA MapCounts ==
  ASSUME CountType, NEW d0 \in DOMAIN entries, NEW p0 \in VPages, p0[1] # KERNEL_PDE,
         d0 = Boot \/ p0[1] < KERNEL_PDE,
         NEW f0 \in Frames, NEW flags \in SUBSET {"W", "U"}, NEW b \in SUBSET Frames,
         Reserved \subseteq b, vmm_map(d0, p0, f0, flags, b), created' = created
  PROVE  /\ Cardinality(bitmap' \ Reserved) \in Nat /\ Cardinality(TablesMade') \in Nat
         /\ Cardinality(bitmap' \ Reserved) - Cardinality(b \ Reserved)
              <= Cardinality(TablesMade') - Cardinality(TablesMade)
         /\ bitmap' \subseteq Frames /\ Reserved \subseteq bitmap'
<1> DEFINE s0 == <<d0, p0[1]>>
<1>1. /\ DOMAIN entries' = DOMAIN entries
      /\ bitmap' = IF Present(entries[d0][p0[1]]) THEN b ELSE Taken(b, Available)
      /\ TableSlots' = TableSlots \cup {s0}
  BY MapMakes
<1>2. TablesMade' = TablesMade \cup {s0}
  BY <1>1 DEF TablesMade
<1>3. IsFiniteSet(TablesMade) /\ Cardinality(TablesMade) \in Nat
  BY TablesAreFew
<1>4. /\ Cardinality(TablesMade') =
           IF s0 \in TablesMade THEN Cardinality(TablesMade) ELSE Cardinality(TablesMade) + 1
  BY <1>2, <1>3, FS_AddElement
<1>5. Present(entries[d0][p0[1]]) \/ s0 \notin TablesMade
  BY DEF TablesMade, TableSlots
<1>6. /\ Cardinality(b \ Reserved) \in Nat /\ b \subseteq Taken(b, Available)
      /\ Taken(b, Available) \in SUBSET Frames
      /\ Cardinality(Taken(b, Available) \ Reserved) \in Nat
      /\ Cardinality(Taken(b, Available) \ Reserved) <= Cardinality(b \ Reserved) + 1
  BY OneFrame
<1> HIDE DEF s0
<1>7. CASE Present(entries[d0][p0[1]])
  BY <1>1, <1>3, <1>4, <1>6, <1>7
<1>8. CASE ~Present(entries[d0][p0[1]])
  BY <1>1, <1>3, <1>4, <1>5, <1>6, <1>8
<1> QED
  BY <1>7, <1>8

\* More tables made and no more frames spent.
LEMMA TablesGrow ==
  ASSUME CountIInv, CountType', TablesMade \subseteq TablesMade',
         bitmap' = bitmap, heap_pages' = heap_pages
  PROVE  FramesAccountedFor'
<1>1. Cardinality(TablesMade) \in Nat
  BY TablesAreFew DEF CountIInv
<1>2. IsFiniteSet(TablesMade') /\ Cardinality(TablesMade') \in Nat
  <2>1. (CountType => IsFiniteSet(TablesMade) /\ Cardinality(TablesMade) \in Nat)'
    BY TablesAreFew, PTL
  <2> QED
    BY <2>1
<1>3. Cardinality(TablesMade) <= Cardinality(TablesMade')
  BY <1>2, FS_Subset
<1>4. Cardinality(bitmap \ Reserved) \in Nat /\ heap_pages \in Nat
  <2>1. bitmap \in SUBSET Frames /\ Reserved \subseteq bitmap /\ heap_pages \in Nat
    BY VMMConstants, Sizes DEF CountIInv, CountType
  <2> QED
    BY <2>1, OneFrame
<1> QED
  BY <1>1, <1>2, <1>3, <1>4 DEF CountIInv, FramesAccountedFor

\* Every step spends what it makes.
LEMMA CountStep ==
  ASSUME CountIInv, [Next]_vars
  PROVE  CountIInv'
<1>1. /\ CountType
      /\ Cardinality(bitmap \ Reserved) <= heap_pages + Cardinality(TablesMade)
  BY DEF CountIInv, FramesAccountedFor
<1>2. /\ bitmap \in SUBSET Frames /\ Reserved \subseteq bitmap
      /\ Boot \in DOMAIN entries /\ heap_pages \in Nat /\ max_available_pages = Available
      /\ Cardinality(bitmap \ Reserved) \in Nat /\ Cardinality(TablesMade) \in Nat
  <2>1. /\ bitmap \in SUBSET Frames /\ Reserved \subseteq bitmap
        /\ Boot \in DOMAIN entries /\ heap_pages \in Nat
        /\ max_available_pages = Available
    BY <1>1, VMMConstants, Sizes DEF CountType
  <2> QED
    BY <1>1, <2>1, OneFrame, TablesAreFew
<1>3. CASE KheapInitPage
  <2>1. /\ heap_pages < HEAP_PAGES /\ HEAP_PAGES \in Nat /\ heap_pages' = heap_pages + 1
        /\ created' = created
        /\ vmm_map(Boot, HeapPage(heap_pages), FirstFree(bitmap, Available), {"W"},
                   Taken(bitmap, Available))
    BY <1>2, <1>3, VMMConstants, Sizes DEF KheapInitPage, kheap_init_page
  <2>2. HeapPage(heap_pages) \in VPages /\ HeapPage(heap_pages)[1] # KERNEL_PDE
    <3>1. HeapPage(heap_pages) \in VPages /\ HeapPage(heap_pages)[1] > KERNEL_PDE
      BY <1>2, <2>1, HeapPages
    <3> QED
      BY <3>1, Sizes
  <2>3. /\ FirstFree(bitmap, Available) \in Frames
        /\ Taken(bitmap, Available) \in SUBSET Frames
        /\ Reserved \subseteq Taken(bitmap, Available)
        /\ Cardinality(Taken(bitmap, Available) \ Reserved) \in Nat
        /\ Cardinality(Taken(bitmap, Available) \ Reserved)
             <= Cardinality(bitmap \ Reserved) + 1
    BY <1>2, OneFrame
  <2>4. {"W"} \in SUBSET {"W", "U"}
    OBVIOUS
  <2>5. /\ DOMAIN entries' = DOMAIN entries
        /\ entries' \in [DOMAIN entries -> [Indices -> Entries]]
        /\ max_available_pages' = Available
    BY <1>1, <1>2, <2>1, <2>2, <2>3, <2>4, MapMakes
  <2>6. /\ Cardinality(bitmap' \ Reserved) \in Nat /\ Cardinality(TablesMade') \in Nat
        /\ Cardinality(bitmap' \ Reserved) - Cardinality(Taken(bitmap, Available) \ Reserved)
             <= Cardinality(TablesMade') - Cardinality(TablesMade)
        /\ bitmap' \subseteq Frames /\ Reserved \subseteq bitmap'
    BY <1>1, <1>2, <2>1, <2>2, <2>3, <2>4, MapCounts
  <2>7. CountType'
    BY <1>1, <1>2, <2>1, <2>5, <2>6 DEF CountType
  <2>8. FramesAccountedFor'
    BY <1>1, <1>2, <2>1, <2>3, <2>6 DEF FramesAccountedFor
  <2> QED
    BY <2>7, <2>8 DEF CountIInv
<1>4. ASSUME NEW dir \in Dirs, Create(dir) PROVE CountIInv'
  <2>1. /\ entries' = [d \in DOMAIN entries \cup {dir} |->
                         IF d = dir THEN NewDirectory ELSE entries[d]]
        /\ created' = created \cup {dir} /\ dir \notin created
        /\ UNCHANGED <<bitmap, max_available_pages, heap_pages>>
    BY <1>4 DEF Create, vmm_create_page_directory, pmmVars
  <2>2. dir \notin DOMAIN entries
    BY <1>1, <2>1, Sizes DEF CountType
  <2>3. NewDirectory \in [Indices -> Entries]
    BY <1>1, Sizes DEF NewDirectory, CountType, Indices
  <2>4. IsFiniteSet(created')
    BY <1>1, <2>1, FS_AddElement DEF CountType
  <2>5. CountType'
    BY <1>1, <2>1, <2>2, <2>3, <2>4 DEF CountType
  <2>6. TablesMade \subseteq TablesMade'
    <3>1. \A s \in TableSlots : s \in TableSlots'
      BY <2>1, <2>2 DEF TableSlots, Present
    <3>2. created \ DOMAIN entries \subseteq created' \ DOMAIN entries'
      BY <2>1
    <3> QED
      BY <3>1, <3>2 DEF TablesMade
  <2> QED
    BY <2>1, <2>5, <2>6, TablesGrow DEF CountIInv
<1>5. ASSUME NEW dir \in Dirs, Destroy(dir) PROVE CountIInv'
  <2>1. /\ dir \in DOMAIN entries \ {Boot}
        /\ entries' = [d \in DOMAIN entries \ {dir} |-> entries[d]]
        /\ UNCHANGED <<bitmap, max_available_pages, heap_pages, created>>
    BY <1>5 DEF Destroy, vmm_destroy_page_directory, pmmVars
  <2>2. CountType'
    BY <1>1, <2>1 DEF CountType
  <2>3. TablesMade \subseteq TablesMade'
    <3>1. ASSUME NEW s \in TableSlots, s[1] # dir PROVE s \in TableSlots'
      BY <2>1, <3>1 DEF TableSlots, Present
    <3>2. ASSUME NEW s \in TableSlots, s[1] = dir
          PROVE  s \in (created' \ DOMAIN entries') \X (0 .. KERNEL_PDE - 1)
      <4>1. dir \in created' \ DOMAIN entries'
        BY <1>1, <2>1 DEF CountType
      <4>2. s \in (DOMAIN entries) \X (0 .. PDES - 1) /\ s[2] < KERNEL_PDE
        BY <2>1, <3>2 DEF TableSlots
      <4> QED
        BY <3>2, <4>1, <4>2, Sizes
    <3>3. created \ DOMAIN entries \subseteq created' \ DOMAIN entries'
      BY <2>1
    <3> QED
      BY <3>1, <3>2, <3>3 DEF TablesMade
  <2> QED
    BY <2>1, <2>2, <2>3, TablesGrow DEF CountIInv
<1>6. ASSUME NEW dir \in DOMAIN entries, NEW page \in UserVPages, Map(dir, page)
      PROVE  CountIInv'
  <2>1. PICK f \in DataFrames, flags \in FlagSets : vmm_map(dir, page, f, flags, bitmap)
    BY <1>6 DEF Map
  <2>2. /\ f \in Frames /\ flags \in SUBSET {"W", "U"}
        /\ page \in VPages /\ page[1] < KERNEL_PDE /\ page[1] # KERNEL_PDE
        /\ heap_pages' = heap_pages /\ created' = created
    BY <1>2, <1>6, VMMSpecConstants, Sizes DEF UserVPages, KernelVPages, VPages, Map
  <2>3. /\ DOMAIN entries' = DOMAIN entries
        /\ entries' \in [DOMAIN entries -> [Indices -> Entries]]
        /\ max_available_pages' = Available
    BY <1>1, <1>2, <2>1, <2>2, MapMakes
  <2>4. /\ Cardinality(bitmap' \ Reserved) \in Nat /\ Cardinality(TablesMade') \in Nat
        /\ Cardinality(bitmap' \ Reserved) - Cardinality(bitmap \ Reserved)
             <= Cardinality(TablesMade') - Cardinality(TablesMade)
        /\ bitmap' \subseteq Frames /\ Reserved \subseteq bitmap'
    BY <1>1, <1>2, <2>1, <2>2, MapCounts
  <2>5. CountType'
    BY <1>1, <2>2, <2>3, <2>4 DEF CountType
  <2>6. FramesAccountedFor'
    BY <1>1, <1>2, <2>2, <2>4 DEF FramesAccountedFor
  <2> QED
    BY <2>5, <2>6 DEF CountIInv
<1>7. ASSUME UNCHANGED <<entries, bitmap, max_available_pages, heap_pages, created>>
      PROVE  CountIInv'
  BY <1>1, <1>7 DEF CountIInv, CountType, FramesAccountedFor, TablesMade, TableSlots, Present
<1>8. ASSUME NEW dir, NEW page, Unmap(dir, page) PROVE CountIInv'
  BY <1>7, <1>8 DEF Unmap, vmm_unmap, pmmVars
<1>9. ASSUME NEW page, Fill(page) PROVE CountIInv'
  BY <1>7, <1>9 DEF Fill, pmmVars
<1>10. CASE UNCHANGED vars
  BY <1>7, <1>10 DEF vars, vmmVars, pmmVars
<1> QED
  BY <1>3, <1>4, <1>5, <1>6, <1>8, <1>9, <1>10, Zenon DEF Next

\* Counting begins with nothing spent.
LEMMA CountBegins ==
  ASSUME bitmap = Reserved, max_available_pages = Available, heap_pages = 0, created = {},
         entries = [d \in {Boot} |-> LoaderDirectory]
  PROVE  CountIInv
<1>1. LoaderDirectory \in [Indices -> Entries]
  BY LoaderEntries, Sizes DEF LoaderDirectory, Indices
<1>2. CountType
  <2>1. IsFiniteSet({}) /\ 0 \in 0 .. HEAP_PAGES
    BY VMMConstants, Sizes, FS_EmptySet
  <2>2. Reserved \subseteq Frames
    BY VMMSpecConstants
  <2> QED
    BY <1>1, <2>1, <2>2 DEF CountType
<1>3. Cardinality(TablesMade) \in Nat
  BY <1>2, TablesAreFew
<1>4. bitmap \ Reserved = {} /\ Cardinality({}) = 0
  BY FS_EmptySet
<1> QED
  BY <1>2, <1>3, <1>4 DEF CountIInv, FramesAccountedFor

\* A frame is spent on a page of the heap or on a table that was made, and on nothing
\* else: what vmm_destroy_page_directory leaves behind is at most a directory's tables.
THEOREM FramesAreAccountedFor == Spec => []FramesAccountedFor
<1>1. Init => CountIInv
  BY CountBegins DEF Init, AfterTestarPMM
<1>2. CountIInv /\ [Next]_vars => CountIInv'
  BY CountStep
<1>3. CountIInv => FramesAccountedFor
  BY DEF CountIInv
<1> QED
  BY <1>1, <1>2, <1>3, PTL DEF Spec

\* As long as fewer frames are spent than the PMM had, one is free.
LEMMA OneIsFree ==
  ASSUME NEW b \in SUBSET Frames, Reserved \subseteq b,
         Cardinality(b \ Reserved) < Cardinality(FreeFrames(Reserved, Available))
  PROVE  FreeFrames(b, Available) # {}
<1>1. IsFiniteSet(b \ Reserved) /\ Cardinality(b \ Reserved) \in Nat
  <2>1. IsFiniteSet(Frames)
    BY FS_Interval, Sizes DEF Frames
  <2> QED
    BY <2>1, FS_Subset, FS_CardinalityType
<1>2. SUFFICES ASSUME FreeFrames(b, Available) = {} PROVE FALSE
  OBVIOUS
<1>3. FreeFrames(Reserved, Available) \in SUBSET (b \ Reserved)
  BY <1>2 DEF FreeFrames
<1>4. /\ Cardinality(FreeFrames(Reserved, Available)) \in Nat
      /\ Cardinality(FreeFrames(Reserved, Available)) <= Cardinality(b \ Reserved)
  BY <1>1, <1>3, FS_Subset, FS_CardinalityType
<1> QED
  BY <1>1, <1>4

\* How many tables there can be.
LEMMA UniverseSize ==
  ASSUME IsFiniteSet(Dirs)
  PROVE  /\ IsFiniteSet(TableUniverse) /\ Cardinality(TableUniverse) \in Nat
         /\ KERNEL_PDE * Cardinality(Dirs) \in Nat
         /\ Cardinality(TableUniverse) <= (PDES - 1) + KERNEL_PDE * Cardinality(Dirs)
<1> DEFINE kernels == {Boot} \X (Indices \ {KERNEL_PDE})
           users   == Dirs \X (0 .. KERNEL_PDE - 1)
<1>1. /\ IsFiniteSet(Indices \ {KERNEL_PDE}) /\ Cardinality(Indices \ {KERNEL_PDE}) = PDES - 1
  <2>1. IsFiniteSet(Indices) /\ Cardinality(Indices) = PDES /\ KERNEL_PDE \in Indices
    BY FS_Interval, Sizes DEF Indices
  <2> QED
    BY <2>1, FS_RemoveElement
<1>2. IsFiniteSet(kernels) /\ Cardinality(kernels) = PDES - 1
  <2>1. IsFiniteSet({Boot}) /\ Cardinality({Boot}) = 1
    BY FS_Singleton
  <2>2. IsFiniteSet(kernels) /\ Cardinality(kernels) = 1 * (PDES - 1)
    BY <1>1, <2>1, FS_Product
  <2> QED
    BY <2>2, Sizes
<1>3. IsFiniteSet(0 .. KERNEL_PDE - 1) /\ Cardinality(0 .. KERNEL_PDE - 1) = KERNEL_PDE
  BY FS_Interval, Sizes
<1>4. Cardinality(Dirs) \in Nat
  BY FS_CardinalityType
<1>5. IsFiniteSet(users) /\ Cardinality(users) = Cardinality(Dirs) * KERNEL_PDE
  BY <1>3, FS_Product
<1>6. Cardinality(Dirs) * KERNEL_PDE = KERNEL_PDE * Cardinality(Dirs)
  BY <1>4, Sizes
<1>7. Cardinality(users) \in Nat /\ Cardinality(kernels) \in Nat
  BY <1>2, <1>5, FS_CardinalityType
<1>8. /\ IsFiniteSet(kernels \cup users)
      /\ Cardinality(kernels \cup users)
           = Cardinality(kernels) + Cardinality(users) - Cardinality(kernels \cap users)
  BY <1>2, <1>5, FS_Union
<1>9. Cardinality(kernels \cap users) \in Nat
  BY <1>2, FS_Intersection, FS_CardinalityType
<1>10. Cardinality(kernels \cup users) \in Nat
  BY <1>8, FS_CardinalityType
<1>11. TableUniverse = kernels \cup users
  BY DEF TableUniverse
<1> HIDE DEF kernels, users
<1> QED
  BY <1>2, <1>5, <1>6, <1>7, <1>8, <1>9, <1>10, <1>11

\* With a frame for each page of the heap and each table that can be made, there is
\* one whenever one is asked for.
LEMMA EnoughServes ==
  ASSUME EnoughFrames, CountIInv
  PROVE  NoneRefused
<1> DEFINE most == (PDES - 1) + KERNEL_PDE * Cardinality(Dirs)
           spent(b) == Cardinality(b \ Reserved)
           had == Cardinality(FreeFrames(Reserved, Available))
<1>1. /\ CountType /\ spent(bitmap) <= heap_pages + Cardinality(TablesMade)
      /\ IsFiniteSet(Dirs) /\ HEAP_PAGES + (PDES - 1) + KERNEL_PDE * Cardinality(Dirs) <= had
  BY DEF CountIInv, FramesAccountedFor, EnoughFrames
<1>2. /\ IsFiniteSet(TableUniverse) /\ Cardinality(TableUniverse) \in Nat
      /\ KERNEL_PDE * Cardinality(Dirs) \in Nat /\ Cardinality(TableUniverse) <= most
  BY <1>1, UniverseSize
<1>3. /\ TablesMade \subseteq TableUniverse
      /\ IsFiniteSet(TablesMade) /\ Cardinality(TablesMade) \in Nat
  BY <1>1, TablesAreFew
<1>4. /\ bitmap \in SUBSET Frames /\ Reserved \subseteq bitmap
      /\ heap_pages \in Nat /\ heap_pages <= HEAP_PAGES /\ HEAP_PAGES \in Nat
  BY <1>1, VMMConstants, Sizes DEF CountType
<1>5. /\ spent(bitmap) \in Nat /\ spent(Taken(bitmap, Available)) \in Nat
      /\ spent(Taken(bitmap, Available)) <= spent(bitmap) + 1
      /\ Taken(bitmap, Available) \in SUBSET Frames
      /\ Reserved \subseteq Taken(bitmap, Available)
  BY <1>4, OneFrame
<1>6. had \in Nat
  <2>1. FreeFrames(Reserved, Available) \subseteq Frames
    BY PMMConstants, VMMSpecConstants, Sizes DEF FreeFrames, Frames, FirstMBFrames
  <2>2. IsFiniteSet(Frames)
    BY FS_Interval, Sizes DEF Frames
  <2> QED
    BY <2>1, <2>2, FS_Subset, FS_CardinalityType
<1>7. Cardinality(TablesMade) <= most
  <2>1. Cardinality(TablesMade) <= Cardinality(TableUniverse)
    BY <1>2, <1>3, FS_Subset
  <2> QED
    BY <1>2, <1>3, <2>1, Sizes
<1>8. ASSUME NEW s \in TableUniverse \ TablesMade PROVE Cardinality(TablesMade) + 1 <= most
  <2>1. TablesMade \cup {s} \in SUBSET TableUniverse
    BY <1>3
  <2>2. Cardinality(TablesMade \cup {s}) = Cardinality(TablesMade) + 1
    BY <1>3, FS_AddElement
  <2>3. Cardinality(TablesMade \cup {s}) <= Cardinality(TableUniverse)
    BY <1>2, <2>1, FS_Subset
  <2> QED
    BY <1>2, <1>3, <2>2, <2>3, Sizes
<1> HIDE DEF spent, had, most
<1>9. HEAP_PAGES + most <= had /\ most \in Nat
  BY <1>1, <1>2, <1>4, Sizes DEF most
<1>10. \A b \in SUBSET Frames : Reserved \subseteq b /\ spent(b) < had => FreeFrames(b, Available) # {}
  BY OneIsFree DEF spent, had
<1>11. ASSUME KheapInitPage
       PROVE  /\ FreeFrames(bitmap, Available) # {}
              /\ Served(Boot, HeapPage(heap_pages), Taken(bitmap, Available))
  <2>1. heap_pages < HEAP_PAGES
    BY <1>11 DEF KheapInitPage
  <2>2. FreeFrames(bitmap, Available) # {}
    BY <1>1, <1>3, <1>4, <1>5, <1>6, <1>7, <1>9, <1>10, <2>1
  <2>3. ASSUME ~Present(entries[Boot][HeapPage(heap_pages)[1]])
        PROVE  FreeFrames(Taken(bitmap, Available), Available) # {}
    <3> DEFINE s == <<Boot, HeapPage(heap_pages)[1]>>
    <3>1. HeapPage(heap_pages) \in VPages /\ HeapPage(heap_pages)[1] > KERNEL_PDE
      BY <1>4, <2>1, HeapPages
    <3>2. s \in TableUniverse
      BY <3>1, Sizes DEF TableUniverse, VPages, Indices
    <3>3. s \notin TablesMade
      BY <1>1, <2>3 DEF TablesMade, TableSlots, CountType
    <3>4. Cardinality(TablesMade) + 1 <= most
      BY <1>8, <3>2, <3>3
    <3> QED
      BY <1>1, <1>3, <1>4, <1>5, <1>6, <1>9, <1>10, <2>1, <3>4
  <2> QED
    BY <2>2, <2>3 DEF Served
<1>12. ASSUME NEW d \in DOMAIN entries, NEW p \in UserVPages, Map(d, p)
       PROVE  Served(d, p, bitmap)
  <2> SUFFICES ASSUME ~Present(entries[d][p[1]]) PROVE FreeFrames(bitmap, Available) # {}
    BY DEF Served
  <2> DEFINE s == <<d, p[1]>>
  <2>1. s \in TableUniverse
    BY <1>1, Sizes DEF TableUniverse, UserVPages, KernelVPages, VPages, CountType, Indices
  <2>2. s \notin TablesMade
    BY DEF TablesMade, TableSlots
  <2>3. Cardinality(TablesMade) + 1 <= most
    BY <1>8, <2>1, <2>2
  <2> QED
    BY <1>1, <1>3, <1>4, <1>5, <1>6, <1>9, <1>10, <2>3
<1> QED
  BY <1>11, <1>12 DEF NoneRefused

\* With frames enough the hypothesis of the theorems above holds, and they do: the
\* frame allocator refuses no request, to the last frame there is.
THEOREM EnoughFramesAreEnough ==
  EnoughFrames /\ Spec =>
    /\ AreAddressSpaces
    /\ []TablesExclusive /\ []HeapFramesPrivate /\ []OnlyWhatWasMapped /\ []CacheCoherent
<1> SUFFICES ASSUME EnoughFrames
             PROVE  Spec => /\ AreAddressSpaces
                            /\ []TablesExclusive /\ []HeapFramesPrivate
                            /\ []OnlyWhatWasMapped /\ []CacheCoherent
  OBVIOUS
<1>1. Init => CountIInv
  BY CountBegins DEF Init, AfterTestarPMM
<1>2. CountIInv /\ [Next]_vars => CountIInv'
  BY CountStep
<1>3. CountIInv => [NoneRefused]_vars
  BY EnoughServes
<1>4. Spec => [][NoneRefused]_vars
  BY <1>1, <1>2, <1>3, PTL DEF Spec
<1> QED
  BY <1>4, TablesAreExclusive, HeapIsPrivate, NothingElseMapped, CacheAgrees,
     ImplementsAddressSpaces, PTL

\* So it does when kmain starts it, on the loader's tables.
LEMMA CountBoots ==
  /\ bitmap = Reserved /\ max_available_pages = Available /\ heap_pages = 0
  /\ created = {} /\ entries = [d \in {Boot} |-> LoaderDirectory]
  => CountIInv
  BY CountBegins

\* The count once the kernel runs.
Counted == pc = "kernel" => CountIInv

\* Every step of the system keeps it.
LEMMA CountedStep ==
  ASSUME LoaderIInv, LoaderIInv', Counted, [LoaderNext]_allVars
  PROVE  Counted'
<1>1. CASE pc = "kernel"
  <2>1. [Next]_vars
    BY <1>1 DEF LoaderNext, LoaderStep, map_loop, fill_directory, enable_paging,
                jmp_higher_half, higher_half, call_kmain, kmain, Next, allVars
  <2> QED
    BY <1>1, <2>1, CountStep DEF Counted
<1>2. CASE pc # "kernel" /\ pc' = "kernel"
  <2>1. kmain
    BY <1>2 DEF LoaderNext, LoaderStep, map_loop, fill_directory, enable_paging,
                jmp_higher_half, higher_half, call_kmain, allVars, loaderVars
  <2>2. /\ entries' = [d \in {Boot} |-> LoaderDirectory]
        /\ heap_pages' = 0 /\ created' = {}
        /\ bitmap' = Reserved /\ max_available_pages' = Available
    <3>1. LoaderTables /\ Pointing = {KERNEL_PDE}
      BY <2>1 DEF kmain, LoaderIInv, Pointing
    <3> QED
      BY <2>1, <3>1 DEF kmain, LoaderTables, LoaderDirectory, Indices
  <2>3. (/\ bitmap = Reserved /\ max_available_pages = Available /\ heap_pages = 0
         /\ created = {} /\ entries = [d \in {Boot} |-> LoaderDirectory]
         => CountIInv)'
    BY CountBoots, PTL
  <2> QED
    BY <2>2, <2>3 DEF LoaderDirectory, Counted
<1>3. CASE pc' # "kernel"
  BY <1>3 DEF Counted
<1> QED
  BY <1>1, <1>2, <1>3

\* The same of the kernel on the loader's tables: kmain begins with nothing spent.
THEOREM EnoughFramesAfterLoader ==
  EnoughFrames /\ LoaderSpec =>
    []StandsOnItsFeet /\ []LeavesBootSpace /\ []StaleOnlyFromLoader
<1> SUFFICES ASSUME EnoughFrames
             PROVE  LoaderSpec =>
                      []StandsOnItsFeet /\ []LeavesBootSpace /\ []StaleOnlyFromLoader
  OBVIOUS
<1>1. LoaderInit => LoaderIInv /\ Counted
  BY LoaderBegins DEF LoaderInit, Counted
<1>2. Counted => [pc = "kernel" => NoneRefused]_allVars
  BY EnoughServes DEF Counted
<1>3. LoaderIInv /\ [LoaderNext]_allVars /\ [pc = "kernel" => NoneRefused]_allVars => LoaderIInv'
  BY LoaderIInvStep
<1>4. LoaderIInv /\ LoaderIInv' /\ Counted /\ [LoaderNext]_allVars => Counted'
  BY CountedStep
<1>5. LoaderSpec => [][pc = "kernel" => NoneRefused]_allVars
  BY <1>1, <1>2, <1>3, <1>4, PTL DEF LoaderSpec
<1> QED
  BY <1>5, KeepsItsFeet, LeavesWhatVMMExpects, OnlyTheLoadersAreStale, PTL
=============================================================================
