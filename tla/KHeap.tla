------------------------------- MODULE KHeap -------------------------------
(***************************************************************************)
(* The kernel heap, kheap.c: a list of blocks, each behind a header, first *)
(* fit, split on allocation, one coalescing pass over the list on release. *)
(* The loops are modelled an iteration at a time: "current" is the local   *)
(* variable of both.  The interrupt handlers do not use the heap, so a     *)
(* call runs to its end before the next one starts.                        *)
(*                                                                         *)
(* Memory is the partial function hdr from the address of a header to its  *)
(* fields; a header that is absorbed by its neighbour leaves the domain.   *)
(* The mapping of the heap's pages (kheap.c:25-32) is in VMM.              *)
(***************************************************************************)
EXTENDS Integers

CONSTANTS
  KHEAP_START,  \* address of the first header                 (0xC0400000)
  HEAP_BYTES,   \* HEAP_INITIAL_PAGES pages                    (64 * 4096)
  HDR,          \* sizeof(block_header_t)                      (12)
  MARGIN,       \* a split leaves more than this many bytes    (4)
  Sizes         \* the sizes callers ask for

ASSUME KHeapConstants ==
  /\ {KHEAP_START, HDR} \subseteq Nat \ {0}
  /\ {HEAP_BYTES, MARGIN} \subseteq Nat
  /\ HEAP_BYTES >= HDR
  /\ Sizes \subseteq Nat

Limit == KHEAP_START + HEAP_BYTES

VARIABLES
  hdr,        \* address of a header -> [size, is_free, next]
  heap_head,
  pc,         \* the function that is running: "idle", "kmalloc" or "kfree"
  current,    \* its local variable
  size,       \* the argument of kmalloc, NoSize outside it
  live        \* ghost: pointers callers hold -> the size they asked for

vars == <<hdr, heap_head, pc, current, size, live>>

NoSize == -1

Header(bytes, free, next) == [size |-> bytes, is_free |-> free, next |-> next]

\* The state kheap_init leaves.
kheap_init ==
  /\ hdr = [a \in {KHEAP_START} |-> Header(HEAP_BYTES - HDR, 1, 0)]
  /\ heap_head = KHEAP_START

Init ==
  /\ kheap_init
  /\ pc = "idle"
  /\ current = 0
  /\ size = NoSize
  /\ live = [p \in {} |-> 0]

----------------------------------------------------------------------------
(* kmalloc *)

kmalloc(n) ==
  /\ pc = "idle"
  /\ pc' = "kmalloc"
  /\ size' = n
  /\ current' = heap_head
  /\ UNCHANGED <<hdr, heap_head, live>>

Fits(a) == hdr[a].is_free = 1 /\ hdr[a].size >= size

\* Mutant: a block that does not fit sends the search back to the head.
kmalloc_next_from_head ==
  /\ pc = "kmalloc" /\ current # 0
  /\ ~Fits(current)
  /\ current' = heap_head
  /\ UNCHANGED <<hdr, heap_head, pc, size, live>>

kmalloc_next ==
  /\ pc = "kmalloc" /\ current # 0
  /\ ~Fits(current)
  /\ current' = hdr[current].next
  /\ UNCHANGED <<hdr, heap_head, pc, size, live>>

\* Mutant: the room for the new header is forgotten.
SplitsTight(a) == hdr[a].size > size

Splits(a) == hdr[a].size > size + HDR + MARGIN

\* Mutant: the new header starts where the block's bytes start.
SplitShort(a, n) ==
  LET novo_bloco == a + n
  IN  [b \in DOMAIN hdr \cup {novo_bloco} |->
         CASE b = a          -> Header(n, 0, novo_bloco)
           [] b = novo_bloco -> Header(hdr[a].size - n, 1, hdr[a].next)
           [] OTHER          -> hdr[b]]

\* Cut the first n bytes off block a; the rest becomes a free block.
Split(a, n) ==
  LET novo_bloco == a + HDR + n
  IN  [b \in DOMAIN hdr \cup {novo_bloco} |->
         CASE b = a          -> Header(n, 0, novo_bloco)
           [] b = novo_bloco -> Header(hdr[a].size - n - HDR, 1, hdr[a].next)
           [] OTHER          -> hdr[b]]

kmalloc_take ==
  /\ pc = "kmalloc" /\ current # 0
  /\ Fits(current)
  /\ hdr' = IF Splits(current)
            THEN Split(current, size)
            ELSE [hdr EXCEPT ![current].is_free = 0]
  /\ LET ret == current + HDR          \* the pointer returned
     IN  live' = [p \in DOMAIN live \cup {ret} |->
                    IF p = ret THEN size ELSE live[p]]
  /\ pc' = "idle" /\ size' = NoSize /\ current' = 0
  /\ UNCHANGED heap_head

\* The end of the list: 0 is returned.
kmalloc_fail ==
  /\ pc = "kmalloc" /\ current = 0
  /\ pc' = "idle" /\ size' = NoSize
  /\ UNCHANGED <<hdr, heap_head, current, live>>

----------------------------------------------------------------------------
(* kfree *)

\* Callers free pointers they got and still hold.
kfree(ptr) ==
  /\ pc = "idle"
  /\ ptr \in DOMAIN live
  /\ hdr' = [hdr EXCEPT ![ptr - HDR].is_free = 1]
  /\ current' = heap_head
  /\ pc' = "kfree"
  /\ live' = [p \in DOMAIN live \ {ptr} |-> live[p]]
  /\ UNCHANGED <<heap_head, size>>

\* Mutant: the last block of the list is left out.
MergeableNotLast(a) ==
  /\ hdr[a].is_free = 1
  /\ hdr[a].next # 0
  /\ hdr[hdr[a].next].is_free = 1
  /\ hdr[hdr[a].next].next # 0

\* Mutant: the next block is absorbed whether it is free or not.
MergeableUsed(a) == hdr[a].is_free = 1 /\ hdr[a].next # 0

Mergeable(a) ==
  /\ hdr[a].is_free = 1
  /\ hdr[a].next # 0
  /\ hdr[hdr[a].next].is_free = 1

\* Mutant: the bytes of the absorbed header are lost.
MergeNoHeader(a) ==
  LET next == hdr[a].next
  IN  [b \in DOMAIN hdr \ {next} |->
         IF b = a THEN Header(hdr[a].size + hdr[next].size, 1, hdr[next].next)
                  ELSE hdr[b]]

\* Block a absorbs its successor.
Merge(a) ==
  LET next == hdr[a].next
  IN  [b \in DOMAIN hdr \ {next} |->
         IF b = a THEN Header(hdr[a].size + HDR + hdr[next].size, 1, hdr[next].next)
                  ELSE hdr[b]]

\* Mutant: the pass goes on with the next block after a merge.
kfree_merge_and_go ==
  /\ pc = "kfree" /\ current # 0
  /\ Mergeable(current)
  /\ hdr' = Merge(current)
  /\ current' = hdr'[current].next
  /\ UNCHANGED <<heap_head, pc, size, live>>

\* "continue": current stays, in case the next block is free as well.
kfree_merge ==
  /\ pc = "kfree" /\ current # 0
  /\ Mergeable(current)
  /\ hdr' = Merge(current)
  /\ UNCHANGED <<heap_head, pc, current, size, live>>

kfree_next ==
  /\ pc = "kfree" /\ current # 0
  /\ ~Mergeable(current)
  /\ current' = hdr[current].next
  /\ UNCHANGED <<hdr, heap_head, pc, size, live>>

kfree_done ==
  /\ pc = "kfree" /\ current = 0
  /\ pc' = "idle"
  /\ UNCHANGED <<hdr, heap_head, current, size, live>>

----------------------------------------------------------------------------
Run ==
  \/ kmalloc_next \/ kmalloc_take \/ kmalloc_fail
  \/ kfree_merge \/ kfree_next \/ kfree_done

Next ==
  \/ Run
  \/ \E n \in Sizes : kmalloc(n)
  \/ \E ptr \in DOMAIN live : kfree(ptr)

Spec == Init /\ [][Next]_vars

----------------------------------------------------------------------------
End(a) == a + HDR + hdr[a].size

TypeOK ==
  /\ DOMAIN hdr \subseteq KHEAP_START .. Limit
  /\ hdr \in [DOMAIN hdr -> [size : Nat, is_free : {0, 1}, next : Nat]]
  /\ heap_head \in DOMAIN hdr
  /\ pc \in {"idle", "kmalloc", "kfree"}
  /\ current \in DOMAIN hdr \cup {0}
  /\ size \in IF pc = "kmalloc" THEN Sizes ELSE {NoSize}
  /\ DOMAIN live \subseteq Nat
  /\ live \in [DOMAIN live -> Sizes]

\* The blocks tile the heap: each one ends where the one its header points to
\* begins, the last one at the end of the heap, and no header lies inside a
\* block.  It holds in the middle of kmalloc and kfree as well.
HeapTiled ==
  /\ heap_head = KHEAP_START
  /\ KHEAP_START \in DOMAIN hdr
  /\ \A a \in DOMAIN hdr :
       /\ End(a) <= Limit
       /\ hdr[a].next = IF End(a) = Limit THEN 0 ELSE End(a)
       /\ End(a) # Limit => End(a) \in DOMAIN hdr
       /\ \A b \in DOMAIN hdr : a < b => End(a) <= b

\* The blocks marked as used are those of the pointers callers hold; each is as
\* large as its caller asked, so it does not shrink under its holder, and wastes
\* no more than a split was not worth.  No block leaks.
UsedAreLive ==
  /\ \A p \in DOMAIN live :
       /\ p - HDR \in DOMAIN hdr
       /\ hdr[p - HDR].is_free = 0
       /\ live[p] <= hdr[p - HDR].size
       /\ hdr[p - HDR].size <= live[p] + HDR + MARGIN
  /\ \A a \in DOMAIN hdr : hdr[a].is_free = 0 => a + HDR \in DOMAIN live

\* Blocks a and b are free and b follows a.
FreeNeighbours(a, b) ==
  hdr[a].is_free = 1 /\ hdr[b].is_free = 1 /\ hdr[a].next = b

\* Between calls no two neighbours are free: the one pass of kfree from the
\* head is enough ("Algoritmo de Fusao mantido perfeito", kheap.c:79).
Coalesced ==
  pc = "idle" => \A a, b \in DOMAIN hdr : ~FreeNeighbours(a, b)

\* When everything was given back, in whatever order, the heap is the one
\* block kheap_init made ("o kfree vai automaticamente fundi-los", kmain.c:147).
RestoredWhenEmpty ==
  pc = "idle" /\ DOMAIN live = {} => kheap_init

Heap == INSTANCE Allocator WITH
  Start <- KHEAP_START, Overhead <- HDR, Slack <- 2 * HDR + MARGIN,
  NoRequest <- NoSize, request <- size

\* Callers see an allocator: see module Allocator.
IsAnAllocator == Heap!Spec

============================================================================
