---------------------------- MODULE KHeapProofs ----------------------------
(***************************************************************************)
(* Proofs about KHeap: its invariants, and that it implements Allocator,   *)
(* for every size of heap, header and margin and every set of requests;    *)
(* then about Processes, for any number of them.                           *)
(***************************************************************************)
EXTENDS Processes, LeastElement, TLAPS

HeaderType == [size : Nat, is_free : {0, 1}, next : Nat]

\* What the loops know of the part of the list they have been through.
Passed(a) == current = 0 \/ a < current

\* kfree leaves no free neighbours behind it; outside kfree there are none.
NoFreeNeighboursBehind ==
  \A a, b \in DOMAIN hdr :
    (pc = "kfree" => Passed(a)) => ~FreeNeighbours(a, b)

\* kmalloc has passed no block that fits.
NothingFitsBehind ==
  pc = "kmalloc" => \A a \in DOMAIN hdr : Passed(a) => ~Fits(a)

IInv ==
  /\ TypeOK
  /\ HeapTiled
  /\ UsedAreLive
  /\ NoFreeNeighboursBehind
  /\ NothingFitsBehind

----------------------------------------------------------------------------
\* The fields of a header have their types: sizes and addresses are naturals.
LEMMA Fields ==
  ASSUME TypeOK, NEW a \in DOMAIN hdr
  PROVE  /\ a \in Nat /\ a >= KHEAP_START /\ a > 0 /\ a <= Limit
         /\ hdr[a] \in HeaderType
         /\ hdr[a].size \in Nat /\ hdr[a].is_free \in {0, 1}
         /\ hdr[a].next \in Nat
         /\ End(a) \in Nat /\ a < End(a)
         /\ HDR \in Nat \ {0} /\ Limit \in Nat
<1>1. HDR \in Nat \ {0} /\ KHEAP_START \in Nat \ {0} /\ Limit \in Nat
  BY KHeapConstants DEF Limit
<1>2. a \in KHEAP_START .. Limit /\ hdr[a] \in HeaderType
  BY DEF TypeOK, HeaderType
<1>3. a \in Nat /\ a >= KHEAP_START /\ a > 0 /\ a <= Limit
  BY <1>1, <1>2
<1>4. hdr[a].size \in Nat /\ hdr[a].is_free \in {0, 1} /\ hdr[a].next \in Nat
  BY <1>2 DEF HeaderType
<1> QED
  BY <1>1, <1>2, <1>3, <1>4 DEF End

\* The successor of a block is where it ends; it is a block above it, and
\* every block above a is there or higher.
LEMMA Successor ==
  ASSUME TypeOK, HeapTiled, NEW a \in DOMAIN hdr
  PROVE  /\ hdr[a].next = 0 <=> End(a) = Limit
         /\ hdr[a].next # 0 =>
              /\ hdr[a].next = End(a)
              /\ hdr[a].next \in DOMAIN hdr
         /\ hdr[a].next \in DOMAIN hdr \cup {0}
         /\ End(a) <= Limit
         /\ \A b \in DOMAIN hdr : a < b => End(a) <= b
<1>1. End(a) \in Nat /\ a < End(a) /\ a > 0 /\ a \in Nat
  BY Fields
<1> QED
  BY <1>1 DEF HeapTiled

\* kheap_init establishes the invariant.
LEMMA InitIInv == Init => IInv
<1> SUFFICES ASSUME Init PROVE IInv
  OBVIOUS
<1>1. /\ KHEAP_START \in Nat \ {0} /\ HDR \in Nat \ {0} /\ HEAP_BYTES \in Nat
      /\ HEAP_BYTES >= HDR
  BY KHeapConstants
<1>2. DOMAIN hdr = {KHEAP_START}
        /\ hdr[KHEAP_START] = Header(HEAP_BYTES - HDR, 1, 0)
  BY DEF Init, kheap_init
<1>3. /\ hdr[KHEAP_START] \in HeaderType
      /\ hdr[KHEAP_START].size = HEAP_BYTES - HDR
      /\ hdr[KHEAP_START].is_free = 1 /\ hdr[KHEAP_START].next = 0
  BY <1>1, <1>2 DEF Header, HeaderType
<1>4. hdr \in [DOMAIN hdr -> HeaderType]
  BY <1>2, <1>3 DEF Init, kheap_init
<1>5. DOMAIN live = {} /\ live \in [DOMAIN live -> Sizes]
  BY DEF Init
<1>6. TypeOK
  <2>1. KHEAP_START \in KHEAP_START .. Limit
    BY <1>1 DEF Limit
  <2>2. pc = "idle" /\ current = 0 /\ size = NoSize /\ heap_head = KHEAP_START
    BY DEF Init, kheap_init
  <2> QED
    BY <1>2, <1>4, <1>5, <2>1, <2>2 DEF TypeOK, HeaderType
<1>7. HeapTiled
  <2>1. End(KHEAP_START) = Limit
    BY <1>1, <1>3 DEF End, Limit
  <2> QED
    BY <1>1, <1>2, <1>3, <2>1 DEF HeapTiled, Init, kheap_init, Limit
<1>8. UsedAreLive
  BY <1>2, <1>3, <1>5 DEF UsedAreLive
<1>9. NoFreeNeighboursBehind /\ NothingFitsBehind
  BY <1>1, <1>2, <1>3 DEF NoFreeNeighboursBehind, NothingFitsBehind,
                          FreeNeighbours, Init
<1> QED
  BY <1>6, <1>7, <1>8, <1>9 DEF IInv

----------------------------------------------------------------------------
(* Steps that only move through the list *)

\* No step of a call, and no call, changes what these formulas say when it
\* leaves the heap and its holders alone.
LEMMA SameHeap ==
  ASSUME IInv, UNCHANGED <<hdr, heap_head, live>>
  PROVE  HeapTiled' /\ UsedAreLive'
BY DEF IInv, HeapTiled, UsedAreLive, End

\* Entering kmalloc (kheap.c:46) keeps the invariant: it has passed no block.
LEMMA KmallocIInv ==
  ASSUME IInv, NEW n \in Sizes, kmalloc(n)
  PROVE  IInv'
<1>1. /\ pc = "idle" /\ pc' = "kmalloc" /\ size' = n /\ current' = heap_head
      /\ UNCHANGED <<hdr, heap_head, live>>
  BY DEF kmalloc
<1>2. TypeOK'
  BY <1>1 DEF IInv, TypeOK
<1>3. NoFreeNeighboursBehind'
  BY <1>1 DEF IInv, NoFreeNeighboursBehind, FreeNeighbours
<1>4. NothingFitsBehind'
  <2>1. ASSUME NEW a \in DOMAIN hdr
        PROVE  ~(current' = 0 \/ a < current')
    <3>1. a \in Nat /\ a >= KHEAP_START /\ KHEAP_START \in Nat \ {0}
      BY Fields, KHeapConstants DEF IInv
    <3> QED
      BY <1>1, <3>1 DEF IInv, HeapTiled
  <2> QED
    BY <1>1, <2>1 DEF NothingFitsBehind, Passed
<1> QED
  BY <1>1, <1>2, <1>3, <1>4, SameHeap DEF IInv

\* After a step of "current" to its successor, the blocks passed are those
\* passed before and the one left.
LEMMA PassedNext ==
  ASSUME IInv, current \in DOMAIN hdr, current' = hdr[current].next,
         NEW a \in DOMAIN hdr, current' = 0 \/ a < current'
  PROVE  a = current \/ a < current
<1>1. a \in Nat /\ current \in Nat /\ a < End(a) /\ End(a) \in Nat
        /\ End(current) \in Nat /\ End(a) <= Limit /\ Limit \in Nat
  BY Fields, Successor DEF IInv
<1>2. current < a => End(current) <= a
  BY Successor DEF IInv
<1>3. current' = 0 => End(current) = Limit
  BY Successor DEF IInv
<1>4. current' # 0 => current' = End(current)
  BY Successor DEF IInv
<1> QED
  BY <1>1, <1>2, <1>3, <1>4

\* An iteration over a block that does not fit keeps the invariant.
LEMMA KmallocNextIInv ==
  ASSUME IInv, kmalloc_next
  PROVE  IInv'
<1>1. /\ pc = "kmalloc" /\ ~Fits(current) /\ current' = hdr[current].next
      /\ UNCHANGED <<hdr, heap_head, pc, size, live>>
      /\ current \in DOMAIN hdr
  BY DEF kmalloc_next, IInv, TypeOK
<1>2. TypeOK'
  <2>1. current' \in DOMAIN hdr \cup {0}
    BY <1>1, Successor DEF IInv
  <2> QED
    BY <1>1, <2>1 DEF IInv, TypeOK
<1>3. NoFreeNeighboursBehind'
  BY <1>1 DEF IInv, NoFreeNeighboursBehind, FreeNeighbours
<1>4. NothingFitsBehind'
  <2> SUFFICES ASSUME NEW a \in DOMAIN hdr, current' = 0 \/ a < current'
               PROVE  ~Fits(a)'
    BY <1>1 DEF NothingFitsBehind, Passed
  <2>1. a = current \/ a < current
    BY <1>1, PassedNext
  <2>2. ~Fits(a)
    BY <1>1, <2>1 DEF IInv, NothingFitsBehind, Passed
  <2> QED
    BY <1>1, <2>2 DEF Fits
<1> QED
  BY <1>1, <1>2, <1>3, <1>4, SameHeap DEF IInv

\* The failing return of kmalloc keeps the invariant.
LEMMA KmallocFailIInv ==
  ASSUME IInv, kmalloc_fail
  PROVE  IInv'
<1>1. /\ pc = "kmalloc" /\ pc' = "idle" /\ size' = NoSize
      /\ UNCHANGED <<hdr, heap_head, current, live>>
  BY DEF kmalloc_fail
<1>2. TypeOK'
  BY <1>1 DEF IInv, TypeOK
<1>3. NoFreeNeighboursBehind' /\ NothingFitsBehind'
  BY <1>1 DEF IInv, NoFreeNeighboursBehind, NothingFitsBehind, FreeNeighbours
<1> QED
  BY <1>1, <1>2, <1>3, SameHeap DEF IInv

\* An iteration of kfree that merges nothing keeps the invariant: the block it
\* leaves has no free neighbour after it.
LEMMA KfreeNextIInv ==
  ASSUME IInv, kfree_next
  PROVE  IInv'
<1>1. /\ pc = "kfree" /\ ~Mergeable(current) /\ current' = hdr[current].next
      /\ UNCHANGED <<hdr, heap_head, pc, size, live>>
      /\ current \in DOMAIN hdr
  BY DEF kfree_next, IInv, TypeOK
<1>2. TypeOK'
  <2>1. current' \in DOMAIN hdr \cup {0}
    BY <1>1, Successor DEF IInv
  <2> QED
    BY <1>1, <2>1 DEF IInv, TypeOK
<1>3. NoFreeNeighboursBehind'
  <2> SUFFICES ASSUME NEW a \in DOMAIN hdr, NEW b \in DOMAIN hdr,
                      current' = 0 \/ a < current'
               PROVE  ~FreeNeighbours(a, b)'
    BY <1>1 DEF NoFreeNeighboursBehind, Passed
  <2>1. a = current \/ a < current
    BY <1>1, PassedNext
  <2>2. ~FreeNeighbours(a, b)
    <3>1. CASE a = current
      <4>1. b # 0
        BY Fields DEF IInv
      <4> QED
        BY <1>1, <3>1, <4>1 DEF FreeNeighbours, Mergeable
    <3>2. CASE a < current
      BY <3>2 DEF IInv, NoFreeNeighboursBehind, Passed
    <3> QED
      BY <2>1, <3>1, <3>2
  <2> QED
    BY <1>1, <2>2 DEF FreeNeighbours
<1>4. NothingFitsBehind'
  BY <1>1 DEF NothingFitsBehind
<1> QED
  BY <1>1, <1>2, <1>3, <1>4, SameHeap DEF IInv

\* The end of the pass of kfree keeps the invariant.
LEMMA KfreeDoneIInv ==
  ASSUME IInv, kfree_done
  PROVE  IInv'
<1>1. /\ pc = "kfree" /\ current = 0 /\ pc' = "idle"
      /\ UNCHANGED <<hdr, heap_head, current, size, live>>
  BY DEF kfree_done
<1>2. TypeOK'
  BY <1>1 DEF IInv, TypeOK
<1>3. NoFreeNeighboursBehind' /\ NothingFitsBehind'
  BY <1>1 DEF IInv, NoFreeNeighboursBehind, NothingFitsBehind, FreeNeighbours,
              Passed
<1> QED
  BY <1>1, <1>2, <1>3, SameHeap DEF IInv

----------------------------------------------------------------------------
(* kfree *)

\* Marking the block as free and going to the head keeps the invariant.
LEMMA KfreeIInv ==
  ASSUME IInv, NEW ptr \in DOMAIN live, kfree(ptr)
  PROVE  IInv'
<1> DEFINE h == ptr - HDR
<1>1. /\ pc = "idle" /\ pc' = "kfree" /\ current' = heap_head
      /\ hdr' = [hdr EXCEPT ![h].is_free = 1]
      /\ live' = [p \in DOMAIN live \ {ptr} |-> live[p]]
      /\ UNCHANGED <<heap_head, size>>
  BY DEF kfree
<1>2. /\ h \in DOMAIN hdr /\ hdr[h].is_free = 0
      /\ DOMAIN live \subseteq Nat /\ HDR \in Nat
  BY KHeapConstants DEF IInv, UsedAreLive, TypeOK
<1>3. hdr \in [DOMAIN hdr -> HeaderType]
  BY DEF IInv, TypeOK, HeaderType
<1>4. /\ DOMAIN hdr' = DOMAIN hdr
      /\ hdr' \in [DOMAIN hdr -> HeaderType]
      /\ \A a \in DOMAIN hdr :
           /\ hdr'[a].size = hdr[a].size
           /\ hdr'[a].next = hdr[a].next
           /\ hdr'[a].is_free = IF a = h THEN 1 ELSE hdr[a].is_free
  BY <1>1, <1>2, <1>3 DEF HeaderType
<1>5. \A a \in DOMAIN hdr : End(a)' = End(a)
  BY <1>4 DEF End
<1>6. /\ DOMAIN live' = DOMAIN live \ {ptr}
      /\ \A p \in DOMAIN live' : live'[p] = live[p]
      /\ live' \in [DOMAIN live' -> Sizes]
  BY <1>1 DEF IInv, TypeOK
<1>7. TypeOK'
  BY <1>1, <1>2, <1>4, <1>6 DEF IInv, TypeOK, HeaderType
<1>8. HeapTiled'
  BY <1>1, <1>4, <1>5 DEF IInv, HeapTiled
<1>9. UsedAreLive'
  <2>1. ASSUME NEW p \in DOMAIN live'
        PROVE  /\ p - HDR \in DOMAIN hdr'
               /\ hdr'[p - HDR].is_free = 0
               /\ live'[p] <= hdr'[p - HDR].size
               /\ hdr'[p - HDR].size <= live'[p] + HDR + MARGIN
    <3>1. p \in DOMAIN live /\ p # ptr /\ p \in Nat /\ ptr \in Nat
      BY <1>2, <1>6
    <3>2. p - HDR # h
      BY <1>2, <3>1
    <3> HIDE DEF h
    <3> QED
      BY <1>4, <1>6, <3>1, <3>2 DEF IInv, UsedAreLive
  <2>2. ASSUME NEW a \in DOMAIN hdr', hdr'[a].is_free = 0
        PROVE  a + HDR \in DOMAIN live'
    <3>1. a \in DOMAIN hdr /\ a # h /\ hdr[a].is_free = 0
      BY <1>4, <2>2
    <3>2. a \in Nat /\ ptr \in Nat
      BY <1>2, <3>1, Fields DEF IInv
    <3>3. a + HDR # ptr
      BY <1>2, <3>1, <3>2
    <3> QED
      BY <1>6, <3>1, <3>3 DEF IInv, UsedAreLive
  <2> QED
    BY <2>1, <2>2 DEF UsedAreLive
<1>10. NoFreeNeighboursBehind'
  <2>1. ASSUME NEW a \in DOMAIN hdr'
        PROVE  ~(current' = 0 \/ a < current')
    <3>1. a \in Nat /\ a >= KHEAP_START /\ KHEAP_START \in Nat \ {0}
      BY <1>4, Fields, KHeapConstants DEF IInv
    <3> QED
      BY <1>1, <3>1 DEF IInv, HeapTiled
  <2> QED
    BY <1>1, <2>1 DEF NoFreeNeighboursBehind, Passed
<1>11. NothingFitsBehind'
  BY <1>1 DEF NothingFitsBehind
<1> QED
  BY <1>7, <1>8, <1>9, <1>10, <1>11 DEF IInv

\* What a merge does to the list.
LEMMA MergeFacts ==
  ASSUME IInv, kfree_merge
  PROVE  LET next == hdr[current].next
         IN  /\ current \in DOMAIN hdr /\ next \in DOMAIN hdr
             /\ next = End(current) /\ current < next
             /\ hdr[current].is_free = 1 /\ hdr[next].is_free = 1
             /\ DOMAIN hdr' = DOMAIN hdr \ {next}
             /\ hdr' \in [DOMAIN hdr' -> HeaderType]
             /\ hdr'[current].is_free = 1
             /\ hdr'[current].next = hdr[next].next
             /\ End(current)' = End(next)
             /\ \A a \in DOMAIN hdr' \ {current} :
                  hdr'[a] = hdr[a] /\ End(a)' = End(a)
<1> DEFINE next == hdr[current].next
<1>1. /\ current \in DOMAIN hdr /\ Mergeable(current) /\ hdr' = Merge(current)
      /\ hdr \in [DOMAIN hdr -> HeaderType]
  BY DEF kfree_merge, IInv, TypeOK, HeaderType
<1>2. /\ next # 0 /\ next \in DOMAIN hdr /\ next = End(current)
      /\ current < next
      /\ hdr[current].is_free = 1 /\ hdr[next].is_free = 1
  BY <1>1, Fields, Successor DEF IInv, Mergeable
<1>3. /\ hdr[current].size \in Nat /\ hdr[next].size \in Nat
      /\ hdr[next].next \in Nat /\ HDR \in Nat
      /\ current \in Nat /\ next \in Nat
  BY <1>1, <1>2, Fields DEF IInv
<1> DEFINE sum == hdr[current].size + HDR + hdr[next].size
<1>4. /\ DOMAIN hdr' = DOMAIN hdr \ {next}
      /\ hdr'[current] = Header(sum, 1, hdr[next].next)
      /\ \A a \in DOMAIN hdr' \ {current} : hdr'[a] = hdr[a]
  BY <1>1, <1>2, <1>3 DEF Merge
<1>5. sum \in Nat
  BY <1>3
<1>6. End(next) = next + HDR + hdr[next].size
        /\ next = current + HDR + hdr[current].size
  BY <1>2 DEF End
<1> HIDE DEF next
<1>7. current + HDR + sum = End(next)
  BY <1>3, <1>6
<1> HIDE DEF sum
<1>8. hdr'[current] \in HeaderType /\ hdr'[current].size = sum
        /\ hdr'[current].is_free = 1 /\ hdr'[current].next = hdr[next].next
  BY <1>3, <1>4, <1>5 DEF Header, HeaderType
<1>9. current' = current
  BY DEF kfree_merge
<1>10. hdr' \in [DOMAIN hdr' -> HeaderType]
  <2>1. \A a \in DOMAIN hdr' : hdr'[a] \in HeaderType
    BY <1>1, <1>4, <1>8
  <2>2. hdr' = [a \in DOMAIN hdr' |-> hdr'[a]]
    BY <1>1 DEF Merge, next
  <2> QED
    BY <2>1, <2>2
<1>11. End(current)' = End(next)
  BY <1>7, <1>8, <1>9 DEF End
<1>12. \A a \in DOMAIN hdr' \ {current} : End(a)' = End(a)
  BY <1>4 DEF End
<1> QED
  BY <1>1, <1>2, <1>4, <1>8, <1>10, <1>11, <1>12 DEF next

\* A merge keeps the invariant: tiling, used blocks, and no free neighbours
\* behind the block that grows.
LEMMA KfreeMergeIInv ==
  ASSUME IInv, kfree_merge
  PROVE  IInv'
<1> DEFINE next == hdr[current].next
<1>1. /\ current \in DOMAIN hdr /\ next \in DOMAIN hdr
      /\ next = End(current) /\ current < next
      /\ hdr[current].is_free = 1 /\ hdr[next].is_free = 1
      /\ DOMAIN hdr' = DOMAIN hdr \ {next}
      /\ hdr' \in [DOMAIN hdr' -> HeaderType]
      /\ hdr'[current].is_free = 1
      /\ hdr'[current].next = hdr[next].next
      /\ End(current)' = End(next)
      /\ \A a \in DOMAIN hdr' \ {current} : hdr'[a] = hdr[a] /\ End(a)' = End(a)
  BY MergeFacts
<1>2. /\ pc = "kfree"
      /\ UNCHANGED <<heap_head, pc, current, size, live>>
  BY DEF kfree_merge
<1> HIDE DEF next
<1>3. /\ current \in Nat /\ next \in Nat /\ next > KHEAP_START
      /\ End(next) \in Nat /\ next < End(next) /\ KHEAP_START \in Nat
      /\ current \in DOMAIN hdr'
  BY <1>1, Fields, KHeapConstants DEF IInv
<1>4. TypeOK'
  BY <1>1, <1>2, <1>3 DEF IInv, TypeOK, HeapTiled, HeaderType
<1>5. HeapTiled'
  <2>1. ASSUME NEW a \in DOMAIN hdr'
        PROVE  /\ End(a)' <= Limit
               /\ hdr'[a].next = IF End(a)' = Limit THEN 0 ELSE End(a)'
               /\ End(a)' # Limit => End(a)' \in DOMAIN hdr'
               /\ \A b \in DOMAIN hdr' : a < b => End(a)' <= b
    <3>0. a \in DOMAIN hdr /\ a # next /\ a \in Nat /\ End(a) \in Nat
            /\ a < End(a)
      BY <1>1, Fields DEF IInv
    <3>1. CASE a = current
      <4>1. /\ End(next) <= Limit
            /\ hdr[next].next = IF End(next) = Limit THEN 0 ELSE End(next)
            /\ End(next) # Limit => End(next) \in DOMAIN hdr
            /\ \A b \in DOMAIN hdr : next < b => End(next) <= b
            /\ \A b \in DOMAIN hdr : current < b => next <= b
        BY <1>1 DEF IInv, HeapTiled
      <4>2. \A b \in DOMAIN hdr' : current < b => next < b
        <5> SUFFICES ASSUME NEW b \in DOMAIN hdr', current < b PROVE next < b
          OBVIOUS
        <5>1. b \in DOMAIN hdr /\ b # next /\ b \in Nat
          BY <1>1, Fields DEF IInv
        <5> QED
          BY <1>3, <4>1, <5>1
      <4>3. End(a)' = End(next)
        BY <1>1, <1>2, <3>1
      <4>4. hdr'[a].next = hdr[next].next
        BY <1>1, <3>1
      <4>5. End(next) # Limit => End(next) \in DOMAIN hdr'
        BY <1>1, <1>3, <4>1
      <4> HIDE DEF End
      <4>6. \A b \in DOMAIN hdr' : a < b => End(next) <= b
        BY <1>1, <3>1, <4>1, <4>2
      <4> QED
        BY <4>1, <4>3, <4>4, <4>5, <4>6
    <3>2. CASE a # current
      <4>1. hdr'[a] = hdr[a] /\ End(a)' = End(a)
        BY <1>1, <3>2
      <4>2. End(a) # next
        <5>1. a < current => End(a) <= current
          BY <1>1, <3>0 DEF IInv, HeapTiled
        <5>2. current < a => next <= a
          BY <1>1, <3>0 DEF IInv, HeapTiled
        <5> QED
          BY <1>1, <1>3, <3>0, <3>2, <5>1, <5>2
      <4> QED
        BY <1>1, <3>0, <4>1, <4>2 DEF IInv, HeapTiled
    <3> QED
      BY <3>1, <3>2
  <2>2. heap_head' = KHEAP_START /\ KHEAP_START \in DOMAIN hdr'
    BY <1>1, <1>2, <1>3 DEF IInv, HeapTiled
  <2> QED
    BY <2>1, <2>2 DEF HeapTiled
<1>6. UsedAreLive'
  <2>1. ASSUME NEW p \in DOMAIN live
        PROVE  p - HDR \in DOMAIN hdr' /\ hdr'[p - HDR] = hdr[p - HDR]
    <3>1. p - HDR \in DOMAIN hdr /\ hdr[p - HDR].is_free = 0
      BY DEF IInv, UsedAreLive
    <3> QED
      BY <1>1, <3>1
  <2>2. ASSUME NEW a \in DOMAIN hdr', hdr'[a].is_free = 0
        PROVE  a + HDR \in DOMAIN live
    <3>1. a \in DOMAIN hdr /\ hdr[a].is_free = 0
      BY <1>1, <2>2
    <3> QED
      BY <3>1 DEF IInv, UsedAreLive
  <2> QED
    BY <1>2, <2>1, <2>2 DEF IInv, UsedAreLive
<1>7. NoFreeNeighboursBehind'
  <2> SUFFICES ASSUME NEW a \in DOMAIN hdr', NEW b \in DOMAIN hdr',
                      current = 0 \/ a < current
               PROVE  ~FreeNeighbours(a, b)'
    BY <1>2 DEF NoFreeNeighboursBehind, Passed
  <2>1. a \in DOMAIN hdr /\ b \in DOMAIN hdr /\ a # current /\ current # 0
    BY <1>1, <1>3, Fields DEF IInv
  <2>2. ~FreeNeighbours(a, b)
    BY <1>2, <2>1 DEF IInv, NoFreeNeighboursBehind, Passed
  <2>3. hdr'[a] = hdr[a]
    BY <1>1, <2>1
  <2>4. b # current => hdr'[b] = hdr[b]
    BY <1>1, <2>1
  <2> QED
    BY <1>1, <2>2, <2>3, <2>4 DEF FreeNeighbours
<1>8. NothingFitsBehind'
  BY <1>2 DEF NothingFitsBehind
<1> QED
  BY <1>4, <1>5, <1>6, <1>7, <1>8 DEF IInv

----------------------------------------------------------------------------
(* kmalloc_take *)

\* What granting a block does to the list, cut or not: the granted block keeps
\* its place, and what was cut off is a free block inside its old bytes.
LEMMA TakeFacts ==
  ASSUME IInv, kmalloc_take
  PROVE  LET cut  == Splits(current)
             rest == current + HDR + size
         IN  /\ current \in DOMAIN hdr /\ hdr[current].is_free = 1
             /\ size \in Nat /\ size \in Sizes /\ rest \in Nat
             /\ hdr[current].size >= size
             /\ hdr' \in [DOMAIN hdr' -> HeaderType]
             /\ hdr'[current].is_free = 0
             /\ \A a \in DOMAIN hdr \ {current} :
                  a \in DOMAIN hdr' /\ hdr'[a] = hdr[a]
             /\ current \in DOMAIN hdr'
             /\ ~cut => /\ DOMAIN hdr' = DOMAIN hdr
                        /\ hdr'[current].size = hdr[current].size
                        /\ hdr'[current].next = hdr[current].next
                        /\ hdr[current].size <= size + HDR + MARGIN
             /\ cut => /\ DOMAIN hdr' = DOMAIN hdr \cup {rest}
                       /\ rest \notin DOMAIN hdr
                       /\ current < rest /\ rest < End(current)
                       /\ hdr'[current].size = size
                       /\ hdr'[current].next = rest
                       /\ hdr'[rest].is_free = 1
                       /\ hdr'[rest].next = hdr[current].next
                       /\ rest + HDR + hdr'[rest].size = End(current)
<1> DEFINE c == current
           rest == c + HDR + size
<1>1. /\ pc = "kmalloc" /\ c \in DOMAIN hdr
      /\ hdr[c].is_free = 1 /\ hdr[c].size >= size
      /\ hdr' = IF Splits(c) THEN Split(c, size)
                             ELSE [hdr EXCEPT ![c].is_free = 0]
  BY DEF kmalloc_take, Fits, IInv, TypeOK
<1>2. /\ size \in Sizes /\ size \in Nat /\ HDR \in Nat \ {0} /\ MARGIN \in Nat
      /\ Limit \in Nat
  BY <1>1, KHeapConstants DEF IInv, TypeOK, Limit
<1>3. /\ c \in Nat /\ hdr[c].size \in Nat /\ hdr[c].next \in Nat
      /\ hdr[c] \in HeaderType
      /\ hdr \in [DOMAIN hdr -> HeaderType]
      /\ End(c) \in Nat /\ End(c) <= Limit /\ c >= KHEAP_START
  BY <1>1, Fields, Successor DEF IInv, TypeOK, HeaderType
<1>4. rest \in Nat /\ c < rest
  BY <1>2, <1>3
<1>5. CASE ~Splits(c)
  <2>1. hdr' = [hdr EXCEPT ![c].is_free = 0]
    BY <1>1, <1>5
  <2>2. /\ DOMAIN hdr' = DOMAIN hdr
        /\ \A a \in DOMAIN hdr \ {c} : hdr'[a] = hdr[a]
        /\ hdr'[c] = [hdr[c] EXCEPT !.is_free = 0]
    BY <1>1, <1>3, <2>1
  <2>3. /\ hdr'[c] \in HeaderType /\ hdr'[c].is_free = 0
        /\ hdr'[c].size = hdr[c].size /\ hdr'[c].next = hdr[c].next
    BY <1>3, <2>2 DEF HeaderType
  <2>4. hdr' \in [DOMAIN hdr' -> HeaderType]
    BY <1>1, <1>3, <2>1, <2>3 DEF HeaderType
  <2>5. hdr[c].size <= size + HDR + MARGIN
    BY <1>2, <1>3, <1>5 DEF Splits
  <2> QED
    BY <1>1, <1>2, <1>4, <1>5, <2>2, <2>3, <2>4, <2>5
<1>6. CASE Splits(c)
  <2>1. hdr[c].size > size + HDR + MARGIN
    BY <1>6 DEF Splits
  <2>2. End(c) = c + HDR + hdr[c].size
    BY DEF End
  <2>3. rest < End(c)
    BY <1>2, <1>3, <2>1, <2>2
  <2>4. rest \notin DOMAIN hdr
    <3>1. \A b \in DOMAIN hdr : c < b => End(c) <= b
      BY <1>1, Successor DEF IInv
    <3> QED
      BY <1>3, <1>4, <2>3, <3>1
  <2> DEFINE left == hdr[c].size - size - HDR
  <2>5. left \in Nat
    BY <1>2, <1>3, <2>1
  <2>6. hdr' = Split(c, size)
    BY <1>1, <1>6
  <2>7. /\ DOMAIN hdr' = DOMAIN hdr \cup {rest}
        /\ hdr'[c] = Header(size, 0, rest)
        /\ hdr'[rest] = Header(left, 1, hdr[c].next)
        /\ \A a \in DOMAIN hdr \ {c} : hdr'[a] = hdr[a]
    BY <1>1, <1>3, <1>4, <2>4, <2>6 DEF Split
  <2>8. rest + HDR + left = End(c)
    BY <1>2, <1>3, <2>2
  <2> HIDE DEF left, rest
  <2>9. /\ hdr'[c] \in HeaderType /\ hdr'[c].is_free = 0
        /\ hdr'[c].size = size /\ hdr'[c].next = rest
        /\ hdr'[rest] \in HeaderType /\ hdr'[rest].is_free = 1
        /\ hdr'[rest].size = left /\ hdr'[rest].next = hdr[c].next
    BY <1>2, <1>3, <1>4, <2>5, <2>7 DEF Header, HeaderType
  <2>10. hdr' \in [DOMAIN hdr' -> HeaderType]
    <3>1. \A a \in DOMAIN hdr' : hdr'[a] \in HeaderType
      BY <1>3, <2>7, <2>9
    <3>2. hdr' = [a \in DOMAIN hdr' |-> hdr'[a]]
      BY <2>6 DEF Split
    <3> QED
      BY <3>1, <3>2
  <2> QED
    BY <1>1, <1>2, <1>4, <1>6, <2>3, <2>4, <2>7, <2>8, <2>9, <2>10 DEF rest
<1> QED
  BY <1>5, <1>6

\* The blocks tile the heap after kmalloc took one, whether it was split or not.
LEMMA TakeIsTiled ==
  ASSUME IInv, kmalloc_take
  PROVE  HeapTiled'
<1> DEFINE c    == current
           rest == c + HDR + size
           e(a) == a + HDR + hdr'[a].size
<1>0. heap_head' = KHEAP_START /\ KHEAP_START \in DOMAIN hdr'
  BY TakeFacts DEF kmalloc_take, IInv, HeapTiled
<1>1. /\ c \in DOMAIN hdr /\ c \in Nat /\ HDR \in Nat \ {0} /\ Limit \in Nat
      /\ size \in Nat /\ hdr[c].size \in Nat /\ End(c) = c + HDR + hdr[c].size
      /\ End(c) \in Nat /\ c < End(c)
  BY TakeFacts, Fields DEF IInv, End
<1>2. /\ End(c) <= Limit
      /\ hdr[c].next = IF End(c) = Limit THEN 0 ELSE End(c)
      /\ End(c) # Limit => End(c) \in DOMAIN hdr
      /\ \A b \in DOMAIN hdr : c < b => End(c) <= b
  BY <1>1 DEF IInv, HeapTiled
<1>3. ASSUME NEW a \in DOMAIN hdr, a # c
      PROVE  /\ hdr'[a] = hdr[a] /\ e(a) = End(a) /\ a \in Nat
             /\ End(a) \in Nat /\ a < End(a)
             /\ End(a) <= Limit
             /\ hdr'[a].next = IF End(a) = Limit THEN 0 ELSE End(a)
             /\ End(a) # Limit => End(a) \in DOMAIN hdr
             /\ \A b \in DOMAIN hdr : a < b => End(a) <= b
  BY <1>3, TakeFacts, Fields DEF IInv, HeapTiled, End
<1>4. DOMAIN hdr \subseteq DOMAIN hdr'
  BY TakeFacts
<1>5. CASE ~Splits(c)
  <2>1. DOMAIN hdr' = DOMAIN hdr /\ e(c) = End(c)
          /\ hdr'[c].next = hdr[c].next
    BY <1>1, <1>5, TakeFacts
  <2>2. ASSUME NEW a \in DOMAIN hdr'
        PROVE  /\ e(a) <= Limit
               /\ hdr'[a].next = IF e(a) = Limit THEN 0 ELSE e(a)
               /\ e(a) # Limit => e(a) \in DOMAIN hdr'
               /\ \A b \in DOMAIN hdr' : a < b => e(a) <= b
    <3> HIDE DEF e, c
    <3>1. CASE a = c
      BY <1>2, <2>1, <3>1
    <3>2. CASE a # c
      BY <1>3, <2>1, <3>2
    <3> QED
      BY <3>1, <3>2
  <2> QED
    BY <1>0, <2>2 DEF HeapTiled, End
<1>6. CASE Splits(c)
  <2>1. /\ DOMAIN hdr' = DOMAIN hdr \cup {rest}
        /\ rest \notin DOMAIN hdr /\ rest \in Nat
        /\ c < rest /\ rest < End(c)
        /\ hdr'[c].next = rest /\ e(c) = rest
        /\ hdr'[rest].next = hdr[c].next /\ e(rest) = End(c)
    BY <1>6, TakeFacts
  <2>2. ASSUME NEW a \in DOMAIN hdr'
        PROVE  /\ e(a) <= Limit
               /\ hdr'[a].next = IF e(a) = Limit THEN 0 ELSE e(a)
               /\ e(a) # Limit => e(a) \in DOMAIN hdr'
               /\ \A b \in DOMAIN hdr' : a < b => e(a) <= b
    <3> HIDE DEF e, c, rest
    <3>1. CASE a = c
      <4>1. rest < Limit
        BY <1>1, <1>2, <2>1
      <4>2. \A b \in DOMAIN hdr' : c < b => rest <= b
        <5> SUFFICES ASSUME NEW b \in DOMAIN hdr, c < b PROVE rest <= b
          BY <2>1
        <5>1. b \in Nat /\ End(c) <= b
          BY <1>2, Fields DEF IInv
        <5> QED
          BY <1>1, <2>1, <5>1
      <4> QED
        BY <1>1, <2>1, <3>1, <4>1, <4>2
    <3>2. CASE a = rest
      <4>1. \A b \in DOMAIN hdr' : rest < b => End(c) <= b
        <5> SUFFICES ASSUME NEW b \in DOMAIN hdr, rest < b PROVE End(c) <= b
          BY <2>1
        <5>1. b \in Nat /\ c < b
          BY <1>1, <2>1, Fields DEF IInv
        <5> QED
          BY <1>2, <5>1
      <4> QED
        BY <1>1, <1>2, <1>4, <2>1, <3>2, <4>1
    <3>3. CASE a # c /\ a # rest
      <4>1. a \in DOMAIN hdr
        BY <2>1, <3>3
      <4>2. a < rest => End(a) <= rest
        <5>1. a < c => End(a) <= c
          BY <1>1, <1>3, <3>3, <4>1
        <5>2. c < a => End(c) <= a
          BY <1>2, <4>1
        <5>3. a \in Nat /\ End(a) \in Nat
          BY <1>3, <3>3, <4>1
        <5> QED
          BY <1>1, <2>1, <3>3, <5>1, <5>2, <5>3
      <4> QED
        BY <1>3, <1>4, <2>1, <3>3, <4>1, <4>2
    <3> QED
      BY <3>1, <3>2, <3>3
  <2> QED
    BY <1>0, <2>2 DEF HeapTiled, End
<1> QED
  BY <1>5, <1>6

\* Taking a block keeps the invariant.
LEMMA KmallocTakeIInv ==
  ASSUME IInv, kmalloc_take
  PROVE  IInv'
<1> DEFINE c == current
           ptr == c + HDR
           rest == ptr + size
<1>1. /\ pc = "kmalloc" /\ pc' = "idle" /\ size' = NoSize /\ current' = 0
      /\ heap_head' = heap_head
      /\ live' = [p \in DOMAIN live \cup {ptr} |->
                    IF p = ptr THEN size ELSE live[p]]
  BY DEF kmalloc_take
<1>2. /\ c \in DOMAIN hdr /\ hdr[c].is_free = 1
      /\ size \in Nat /\ size \in Sizes /\ rest \in Nat
      /\ hdr[c].size >= size /\ hdr[c].size \in Nat
      /\ hdr' \in [DOMAIN hdr' -> HeaderType]
      /\ hdr'[c].is_free = 0
      /\ \A a \in DOMAIN hdr \ {c} : a \in DOMAIN hdr' /\ hdr'[a] = hdr[a]
      /\ c \in DOMAIN hdr' /\ c \in Nat /\ HDR \in Nat /\ MARGIN \in Nat
      /\ DOMAIN live \subseteq Nat /\ live \in [DOMAIN live -> Sizes]
  BY TakeFacts, Fields, KHeapConstants DEF IInv, TypeOK
<1>3. ASSUME NEW a \in DOMAIN hdr', a \notin DOMAIN hdr
      PROVE  /\ Splits(c) /\ a = rest /\ hdr'[a].is_free = 1
             /\ c < a /\ a < End(c) /\ hdr'[a].next = hdr[c].next
  BY <1>3, TakeFacts
<1>4. ptr \in Nat /\ DOMAIN live' = DOMAIN live \cup {ptr}
        /\ live' \in [DOMAIN live' -> Sizes]
        /\ live'[ptr] = size
        /\ \A p \in DOMAIN live \ {ptr} : live'[p] = live[p]
  BY <1>1, <1>2
<1>5. ptr \notin DOMAIN live
  <2>1. ptr \in DOMAIN live => hdr[ptr - HDR].is_free = 0
    BY DEF IInv, UsedAreLive
  <2>2. ptr - HDR = c
    BY <1>2
  <2> HIDE DEF ptr
  <2> QED
    BY <1>2, <2>1, <2>2
<1>6. TypeOK'
  <2>1. DOMAIN hdr' \subseteq KHEAP_START .. Limit
    <3>1. ASSUME NEW a \in DOMAIN hdr', a \notin DOMAIN hdr
          PROVE  a \in KHEAP_START .. Limit
      <4>1. c < a /\ a < End(c) /\ a \in Nat /\ End(c) <= Limit
              /\ End(c) \in Nat /\ KHEAP_START <= c
              /\ KHEAP_START \in Nat /\ Limit \in Nat
        BY <1>2, <1>3, <3>1, Fields, Successor, KHeapConstants DEF IInv
      <4> QED
        BY <1>2, <4>1
    <3> QED
      BY <3>1 DEF IInv, TypeOK
  <2>2. heap_head' \in DOMAIN hdr'
    BY <1>1, <1>2 DEF IInv, TypeOK
  <2>3. DOMAIN live' \subseteq Nat
    BY <1>2, <1>4
  <2> HIDE DEF ptr, rest
  <2> QED
    BY <1>1, <1>2, <1>4, <2>1, <2>2, <2>3 DEF TypeOK, HeaderType
<1>7. HeapTiled'
  BY TakeIsTiled
<1>8. UsedAreLive'
  <2>1. ASSUME NEW p \in DOMAIN live'
        PROVE  /\ p - HDR \in DOMAIN hdr'
               /\ hdr'[p - HDR].is_free = 0
               /\ live'[p] <= hdr'[p - HDR].size
               /\ hdr'[p - HDR].size <= live'[p] + HDR + MARGIN
    <3>1. CASE p = ptr
      <4>1. p - HDR = c
        BY <1>2, <3>1
      <4>2. /\ size <= hdr'[c].size
            /\ hdr'[c].size <= size + HDR + MARGIN
        <5>1. CASE Splits(c)
          BY <1>2, <5>1, TakeFacts
        <5>2. CASE ~Splits(c)
          BY <1>2, <5>2, TakeFacts
        <5> QED
          BY <5>1, <5>2
      <4> HIDE DEF ptr
      <4> QED
        BY <1>2, <1>4, <3>1, <4>1, <4>2
    <3>2. CASE p # ptr
      <4>1. p \in DOMAIN live /\ live'[p] = live[p] /\ p \in Nat
        BY <1>2, <1>4, <3>2
      <4>2. p - HDR # c
        BY <1>2, <3>2, <4>1
      <4>3. hdr'[p - HDR] = hdr[p - HDR] /\ p - HDR \in DOMAIN hdr'
        BY <1>2, <4>1, <4>2 DEF IInv, UsedAreLive
      <4> QED
        BY <4>1, <4>3 DEF IInv, UsedAreLive
    <3> QED
      BY <3>1, <3>2
  <2>2. ASSUME NEW a \in DOMAIN hdr', hdr'[a].is_free = 0
        PROVE  a + HDR \in DOMAIN live'
    <3>1. CASE a = c
      BY <1>4, <3>1
    <3>2. CASE a # c
      <4>1. a \in DOMAIN hdr
        BY <1>3, <2>2
      <4>2. hdr[a].is_free = 0
        BY <1>2, <2>2, <3>2, <4>1
      <4> QED
        BY <1>4, <4>1, <4>2 DEF IInv, UsedAreLive
    <3> QED
      BY <3>1, <3>2
  <2> QED
    BY <2>1, <2>2 DEF UsedAreLive
<1>9. NoFreeNeighboursBehind'
  <2> SUFFICES ASSUME NEW a \in DOMAIN hdr', NEW b \in DOMAIN hdr',
                      hdr'[a].is_free = 1, hdr'[b].is_free = 1,
                      hdr'[a].next = b
               PROVE  FALSE
    BY <1>1 DEF NoFreeNeighboursBehind, FreeNeighbours
  <2>1. a # c /\ b # c
    BY <1>2
  <2>2. b \in DOMAIN hdr
    <3>1. ASSUME b \notin DOMAIN hdr PROVE FALSE
      <4>1. a \in DOMAIN hdr
        <5>1. ASSUME a \notin DOMAIN hdr PROVE FALSE
          <6>1. a = b /\ a \in Nat /\ b # 0 /\ hdr[c].next = b
            BY <1>2, <1>3, <3>1, <5>1
          <6>2. hdr[c].next \in DOMAIN hdr \cup {0}
            BY <1>2, Successor DEF IInv
          <6> QED
            BY <3>1, <6>1, <6>2
        <5> QED
          BY <5>1
      <4>2. hdr[a].next = b /\ hdr[a].next \in DOMAIN hdr \cup {0}
        BY <1>2, <2>1, <4>1, Successor DEF IInv
      <4>3. b # 0
        BY <1>2, <1>3, <3>1
      <4> QED
        BY <3>1, <4>2, <4>3
    <3> QED
      BY <3>1
  <2>3. hdr[b].is_free = 1
    BY <1>2, <2>1, <2>2
  <2>4. CASE a \in DOMAIN hdr
    <3>1. FreeNeighbours(a, b)
      BY <1>2, <2>1, <2>3, <2>4 DEF FreeNeighbours
    <3> QED
      BY <1>1, <2>2, <2>4, <3>1 DEF IInv, NoFreeNeighboursBehind
  <2>5. CASE a \notin DOMAIN hdr
    <3>1. FreeNeighbours(c, b)
      BY <1>2, <1>3, <2>3, <2>5 DEF FreeNeighbours
    <3> QED
      BY <1>1, <1>2, <2>2, <3>1 DEF IInv, NoFreeNeighboursBehind
  <2> QED
    BY <2>4, <2>5
<1>10. NothingFitsBehind'
  BY <1>1 DEF NothingFitsBehind
<1> QED
  BY <1>6, <1>7, <1>8, <1>9, <1>10 DEF IInv

----------------------------------------------------------------------------
\* Every step of the heap keeps the invariant.
LEMMA StepIInv == IInv /\ [Next]_vars => IInv'
<1> SUFFICES ASSUME IInv, [Next]_vars PROVE IInv'
  OBVIOUS
<1>1. CASE UNCHANGED vars
  <2>1. TypeOK'
    BY <1>1 DEF vars, IInv, TypeOK
  <2>2. NoFreeNeighboursBehind' /\ NothingFitsBehind'
    BY <1>1 DEF vars, IInv, NoFreeNeighboursBehind, NothingFitsBehind,
                FreeNeighbours, Passed, Fits
  <2> QED
    BY <1>1, <2>1, <2>2, SameHeap DEF vars, IInv
<1> QED
  BY <1>1, KmallocIInv, KmallocNextIInv, KmallocTakeIInv, KmallocFailIInv,
     KfreeIInv, KfreeMergeIInv, KfreeNextIInv, KfreeDoneIInv
  DEF Next, Run

\* The invariant holds at every iteration of kmalloc and kfree.
THEOREM Invariance == Spec => []IInv
  BY InitIInv, StepIInv, PTL DEF Spec

\* Every variable keeps its type; in particular no size underflows in a split.
THEOREM TypeCorrect == Spec => []TypeOK
<1>1. IInv => TypeOK
  BY DEF IInv
<1> QED
  BY <1>1, Invariance, PTL

\* The blocks tile the heap after every step of every call.
THEOREM HeapIsTiled == Spec => []HeapTiled
<1>1. IInv => HeapTiled
  BY DEF IInv
<1> QED
  BY <1>1, Invariance, PTL

\* Used blocks and the pointers callers hold correspond one to one.
THEOREM NoLeak == Spec => []UsedAreLive
<1>1. IInv => UsedAreLive
  BY DEF IInv
<1> QED
  BY <1>1, Invariance, PTL

\* One pass of kfree leaves no two free neighbours, in any list.
THEOREM OnePassCoalesces == Spec => []Coalesced
<1>1. IInv => Coalesced
  BY DEF IInv, NoFreeNeighboursBehind, Coalesced
<1> QED
  BY <1>1, Invariance, PTL

\* With everything given back the heap is again the one block of kheap_init.
THEOREM EmptyHeapIsRestored == Spec => []RestoredWhenEmpty
<1>1. IInv => RestoredWhenEmpty
  <2> SUFFICES ASSUME IInv, pc = "idle", DOMAIN live = {}
               PROVE  kheap_init
    BY DEF RestoredWhenEmpty
  <2> DEFINE s == KHEAP_START
  <2>1. s \in DOMAIN hdr /\ heap_head = s
    BY DEF IInv, HeapTiled
  <2>2. \A a \in DOMAIN hdr : hdr[a].is_free = 1
    <3> SUFFICES ASSUME NEW a \in DOMAIN hdr PROVE hdr[a].is_free = 1
      OBVIOUS
    <3>1. hdr[a].is_free \in {0, 1}
      BY Fields DEF IInv
    <3> QED
      BY <3>1 DEF IInv, UsedAreLive
  <2>3. hdr[s].next = 0
    <3>1. hdr[s].next # 0 => hdr[s].next \in DOMAIN hdr
      BY <2>1, Successor DEF IInv
    <3> QED
      BY <2>1, <2>2, <3>1 DEF IInv, NoFreeNeighboursBehind, FreeNeighbours
  <2>4. End(s) = Limit
    BY <2>1, <2>3, Successor DEF IInv
  <2>5. DOMAIN hdr = {s}
    <3> SUFFICES ASSUME NEW a \in DOMAIN hdr PROVE a = s
      BY <2>1
    <3>1. a \in Nat /\ a >= s /\ a < End(a) /\ End(a) \in Nat
            /\ End(a) <= Limit /\ Limit \in Nat /\ s \in Nat
      BY <2>1, Fields, Successor DEF IInv
    <3>2. s < a => Limit <= a
      BY <2>1, <2>4, Successor DEF IInv
    <3> QED
      BY <3>1, <3>2
  <2>6. hdr[s].size = HEAP_BYTES - HDR
    <3>1. hdr[s].size \in Nat /\ HDR \in Nat /\ s \in Nat /\ HEAP_BYTES \in Nat
      BY <2>1, Fields, KHeapConstants DEF IInv
    <3> QED
      BY <2>4, <3>1 DEF End, Limit
  <2>7. hdr \in [DOMAIN hdr -> HeaderType]
    BY DEF IInv, TypeOK, HeaderType
  <2>8. hdr[s] = Header(HEAP_BYTES - HDR, 1, 0)
    BY <2>1, <2>2, <2>3, <2>6, <2>7 DEF Header, HeaderType
  <2> QED
    BY <2>1, <2>5, <2>7, <2>8 DEF kheap_init
<1> QED
  BY <1>1, Invariance, PTL

----------------------------------------------------------------------------
(* KHeap implements Allocator *)

\* A successful kmalloc is a Grant of the abstract allocator: the bytes given
\* out are inside the heap and apart from all blocks in use.
LEMMA TakeGrants ==
  ASSUME IInv, kmalloc_take
  PROVE  \E p \in KHEAP_START .. Limit : Heap!Grant(p)
<1> DEFINE ptr == current + HDR
<1>1. /\ pc = "kmalloc" /\ size' = NoSize
      /\ live' = [p \in DOMAIN live \cup {ptr} |->
                    IF p = ptr THEN size ELSE live[p]]
  BY DEF kmalloc_take
<1>2. /\ current \in DOMAIN hdr /\ hdr[current].is_free = 1
      /\ size \in Nat /\ hdr[current].size >= size
      /\ current \in Nat /\ hdr[current].size \in Nat /\ HDR \in Nat
      /\ End(current) \in Nat /\ End(current) <= Limit /\ Limit \in Nat
      /\ current >= KHEAP_START /\ KHEAP_START \in Nat
  BY TakeFacts, Fields, Successor, KHeapConstants DEF IInv
<1>3. ptr + size <= End(current) /\ ptr \in Nat /\ ptr - HDR = current
  BY <1>2 DEF End
<1>4. size # NoSize
  BY <1>2 DEF NoSize
<1>5. ASSUME NEW p \in DOMAIN live
      PROVE  /\ p # ptr
             /\ ptr + size <= p - HDR \/ p + live[p] <= current
  <2> DEFINE h == p - HDR
  <2>1. /\ h \in DOMAIN hdr /\ hdr[h].is_free = 0 /\ live[p] <= hdr[h].size
        /\ p \in Nat /\ live[p] \in Nat
    BY KHeapConstants DEF IInv, UsedAreLive, TypeOK
  <2>2. h # current /\ h \in Nat /\ hdr[h].size \in Nat /\ End(h) \in Nat
    BY <1>2, <2>1, Fields DEF IInv
  <2>3. p + live[p] <= End(h)
    BY <1>2, <2>1, <2>2 DEF End
  <2>4. h < current => End(h) <= current
    BY <1>2, <2>1, Successor DEF IInv
  <2>5. current < h => End(current) <= h
    BY <1>2, <2>1, Successor DEF IInv
  <2>6. p # ptr
    BY <1>3, <2>2
  <2> HIDE DEF h, ptr
  <2>7. ptr + size <= h \/ p + live[p] <= current
    BY <1>2, <1>3, <2>1, <2>2, <2>3, <2>4, <2>5
  <2> QED
    BY <2>6, <2>7 DEF h
<1>6. Heap!Vacant(ptr - HDR, ptr + size)
  BY <1>3, <1>5 DEF Heap!Vacant
<1>7. ptr \in KHEAP_START .. Limit /\ KHEAP_START <= ptr - HDR
        /\ ptr + size <= Limit /\ ptr \notin DOMAIN live
  <2>1. ptr \notin DOMAIN live
    BY <1>5
  <2>2. ptr + size <= Limit /\ ptr <= Limit /\ KHEAP_START <= ptr
    BY <1>2, <1>3
  <2> QED
    BY <1>2, <1>3, <2>1, <2>2
<1>8. Heap!Grant(ptr)
  BY <1>1, <1>4, <1>6, <1>7 DEF Heap!Grant
<1> QED
  BY <1>7, <1>8

\* The block that holds byte a of the heap.
LEMMA BlockAt ==
  ASSUME IInv, NEW a \in Nat, KHEAP_START <= a, a < Limit
  PROVE  \E b \in DOMAIN hdr : b <= a /\ a < End(b)
<1> DEFINE Below == {b \in DOMAIN hdr : b <= a}
<1>1. Below \in SUBSET (0 .. a) /\ Below # {}
  <2>1. KHEAP_START \in DOMAIN hdr
    BY DEF IInv, HeapTiled
  <2>2. \A b \in DOMAIN hdr : b \in Nat
    BY Fields DEF IInv
  <2>3. \A b \in Below : b \in 0 .. a
    BY <2>2
  <2> QED
    BY <2>1, <2>3
<1>2. PICK b \in Below : \A x \in Below : x <= b
  BY <1>1, GreatestBounded
<1>3. /\ b \in DOMAIN hdr /\ b \in Nat /\ b <= a /\ b < End(b)
      /\ End(b) \in Nat /\ Limit \in Nat
  BY <1>2, Fields DEF IInv
<1>4. ASSUME End(b) <= a PROVE FALSE
  <2>1. End(b) \in DOMAIN hdr
    BY <1>3, <1>4 DEF IInv, HeapTiled
  <2>2. End(b) \in Below
    BY <1>4, <2>1
  <2> QED
    BY <1>2, <1>3, <2>2
<1> QED
  BY <1>3, <1>4

\* The search fails only when the blocks that are out leave no vacant interval
\* of the size asked for, two headers and the margin.  Such an interval would
\* hold, after at most the waste of a used block, the start of a free block
\* that reaches to the interval's end, because no two free blocks meet: it
\* would fit, and the search has passed every block.
LEMMA FailRefuses ==
  ASSUME IInv, kmalloc_fail
  PROVE  Heap!Refuse
<1> DEFINE slack == 2 * HDR + MARGIN
<1>1. /\ pc = "kmalloc" /\ current = 0 /\ size' = NoSize /\ live' = live
      /\ size \in Nat /\ HDR \in Nat \ {0} /\ MARGIN \in Nat
      /\ KHEAP_START \in Nat \ {0} /\ Limit \in Nat
  BY KHeapConstants DEF kmalloc_fail, IInv, TypeOK, Limit
<1>2. \A b \in DOMAIN hdr : ~(hdr[b].is_free = 1 /\ hdr[b].size >= size)
  BY <1>1 DEF IInv, NothingFitsBehind, Passed, Fits
<1>3. \A b \in DOMAIN hdr : hdr[b].is_free = 1 /\ End(b) # Limit
                              => hdr[End(b)].is_free = 0
  <2> SUFFICES ASSUME NEW b \in DOMAIN hdr, hdr[b].is_free = 1, End(b) # Limit
               PROVE  hdr[End(b)].is_free = 0
    OBVIOUS
  <2>1. End(b) \in DOMAIN hdr /\ hdr[b].next = End(b)
    BY Successor DEF IInv, HeapTiled
  <2>2. hdr[End(b)].is_free \in {0, 1}
    BY <2>1, Fields DEF IInv
  <2> QED
    BY <1>1, <2>1, <2>2 DEF IInv, NoFreeNeighboursBehind, FreeNeighbours
<1>4. ASSUME NEW a \in KHEAP_START .. Limit - (size + slack),
             Heap!Vacant(a, a + size + slack)
      PROVE  FALSE
  <2> DEFINE z == a + size + slack
  <2>0. /\ a \in Nat /\ KHEAP_START <= a /\ z \in Nat /\ z <= Limit
        /\ a + HDR + HDR + MARGIN + size = z
    BY <1>1
  <2> HIDE DEF z
  \* a used block that starts before z ends, but for its waste, before a
  <2>1. ASSUME NEW b \in DOMAIN hdr, hdr[b].is_free = 0, b < z
        PROVE  b < a /\ End(b) <= a + HDR + MARGIN
    <3> DEFINE p == b + HDR
    <3>1. /\ b \in Nat /\ hdr[b].size \in Nat /\ p \in DOMAIN live
          /\ p \in Nat /\ p - HDR = b /\ live[p] \in Nat
      BY <1>1, <2>1, Fields, KHeapConstants DEF IInv, UsedAreLive, TypeOK
    <3>2. hdr[b].size <= live[p] + HDR + MARGIN
      BY <3>1 DEF IInv, UsedAreLive
    <3>3. z <= b \/ p + live[p] <= a
      BY <1>4, <3>1 DEF Heap!Vacant, z
    <3>4. b + HDR + live[p] <= a
      BY <1>1, <2>0, <2>1, <3>1, <3>3
    <3>5. End(b) = b + HDR + hdr[b].size
      BY DEF End
    <3> HIDE DEF p
    <3> QED
      BY <1>1, <2>0, <3>1, <3>2, <3>4, <3>5
  \* a free block that starts no later than the waste after a fits
  <2>2. ASSUME NEW b \in DOMAIN hdr, hdr[b].is_free = 1,
               b <= a + HDR + MARGIN, a < End(b)
        PROVE  FALSE
    <3>1. /\ b \in Nat /\ hdr[b].size \in Nat /\ End(b) \in Nat
          /\ End(b) = b + HDR + hdr[b].size
      BY Fields DEF IInv, End
    <3>2. z <= End(b)
      <4>1. CASE End(b) = Limit
        BY <2>0, <4>1
      <4>2. CASE End(b) # Limit
        <5>1. End(b) \in DOMAIN hdr /\ hdr[End(b)].is_free = 0
          BY <1>3, <2>2, <4>2 DEF IInv, HeapTiled
        <5>2. End(b) < z => End(b) < a
          BY <2>1, <5>1
        <5> QED
          BY <2>0, <2>2, <3>1, <5>2
      <4> QED
        BY <4>1, <4>2
    <3>3. hdr[b].size >= size
      BY <1>1, <2>0, <2>2, <3>1, <3>2
    <3> QED
      BY <1>2, <2>2, <3>3
  <2>3. a < Limit /\ a < z
    BY <1>1, <2>0
  <2>4. PICK b \in DOMAIN hdr : b <= a /\ a < End(b)
    BY <2>0, <2>3, BlockAt
  <2>5. /\ b \in Nat /\ End(b) \in Nat /\ hdr[b].is_free \in {0, 1}
    BY Fields DEF IInv
  <2>6. CASE hdr[b].is_free = 1
    BY <1>1, <2>0, <2>2, <2>4, <2>5, <2>6
  <2>7. CASE hdr[b].is_free = 0
    <3>1. b < z /\ End(b) <= a + HDR + MARGIN /\ End(b) < z
      BY <1>1, <2>0, <2>1, <2>3, <2>4, <2>5, <2>7
    <3>2. End(b) \in DOMAIN hdr
      BY <2>0, <2>5, <3>1, <1>1 DEF IInv, HeapTiled
    <3> DEFINE c == End(b)
    <3>3. c < End(c) /\ End(c) \in Nat /\ hdr[c].is_free \in {0, 1} /\ c \in Nat
      BY <3>2, Fields DEF IInv
    <3>4. hdr[c].is_free = 1
      <4>1. hdr[c].is_free = 0 => c < a
        BY <2>1, <3>1, <3>2
      <4> HIDE DEF c
      <4> QED
        BY <2>0, <2>4, <3>3, <4>1 DEF c
    <3>5. a < End(c)
      BY <2>0, <2>4, <2>5, <3>3
    <3> QED
      BY <2>2, <3>1, <3>2, <3>4, <3>5
  <2> QED
    BY <2>5, <2>6, <2>7
<1> HIDE DEF slack
<1>5. size # NoSize
  BY <1>1 DEF NoSize
<1>6. \A a \in KHEAP_START .. Limit - (size + slack) :
        ~Heap!Vacant(a, a + size + slack)
  BY <1>4
<1> QED
  BY <1>1, <1>5, <1>6 DEF Heap!Refuse, slack

\* Entering kfree is the GiveBack of the abstract allocator.
LEMMA FreeGivesBack ==
  ASSUME IInv, NEW ptr \in DOMAIN live, kfree(ptr)
  PROVE  \E p \in KHEAP_START .. Limit : Heap!GiveBack(p)
<1> DEFINE h == ptr - HDR
<1>1. /\ pc = "idle" /\ size = NoSize /\ size' = size
      /\ live' = [p \in DOMAIN live \ {ptr} |-> live[p]]
  BY DEF kfree, IInv, TypeOK
<1>2. Heap!GiveBack(ptr)
  BY <1>1 DEF Heap!GiveBack
<1>3. h \in DOMAIN hdr /\ ptr \in Nat
  BY DEF IInv, UsedAreLive, TypeOK
<1>4. /\ h \in Nat /\ h >= KHEAP_START /\ KHEAP_START \in Nat
      /\ hdr[h].size \in Nat /\ End(h) <= Limit /\ Limit \in Nat
      /\ End(h) = h + HDR + hdr[h].size /\ HDR \in Nat
  BY <1>3, Fields, Successor, KHeapConstants DEF IInv, End
<1>5. ptr = h + HDR
  BY <1>3, <1>4
<1> HIDE DEF h
<1>6. ptr \in KHEAP_START .. Limit
  BY <1>3, <1>4, <1>5
<1> QED
  BY <1>2, <1>6

\* KHeap implements Allocator: what it grants is inside the heap and apart from
\* everything else that is out, and it refuses a request only when the gaps
\* between what is out are that small.
THEOREM Refinement == Spec => IsAnAllocator
<1>1. Init => Heap!Init
  BY DEF Init, Heap!Init
<1>2. IInv /\ [Next]_vars => [Heap!Next]_(Heap!allocVars)
  <2> SUFFICES ASSUME IInv, [Next]_vars
               PROVE  [Heap!Next]_(Heap!allocVars)
    OBVIOUS
  <2>1. ASSUME NEW n \in Sizes, kmalloc(n)
        PROVE  Heap!Next
    <3>1. size = NoSize /\ size' = n /\ live' = live
      BY <2>1 DEF kmalloc, IInv, TypeOK
    <3>2. Heap!Ask(n)
      BY <3>1 DEF Heap!Ask
    <3> QED
      BY <3>2 DEF Heap!Next
  <2>2. CASE kmalloc_take
    BY <2>2, TakeGrants DEF Heap!Next
  <2>3. CASE kmalloc_fail
    BY <2>3, FailRefuses DEF Heap!Next
  <2>4. ASSUME NEW ptr \in DOMAIN live, kfree(ptr)
        PROVE  Heap!Next
    BY <2>4, FreeGivesBack DEF Heap!Next
  <2>5. CASE \/ kmalloc_next \/ kfree_merge \/ kfree_next \/ kfree_done
             \/ UNCHANGED vars
    <3>1. size' = size /\ live' = live
      BY <2>5 DEF kmalloc_next, kfree_merge, kfree_next, kfree_done, vars
    <3> QED
      BY <3>1 DEF Heap!allocVars
  <2> QED
    BY <2>1, <2>2, <2>3, <2>4, <2>5 DEF Next, Run
<1> QED
  BY <1>1, <1>2, Invariance, PTL DEF Spec, Heap!Spec, IsAnAllocator

----------------------------------------------------------------------------
(* How long a call can run *)

\* The blocks that the running call has before it, the current one included.
Ahead == {a \in DOMAIN hdr : current # 0 /\ current <= a}

\* An iteration of the loop of kmalloc or kfree that is not its last.
Iteration == kmalloc_next \/ kfree_merge \/ kfree_next

\* There are finitely many, since the heap is.
LEMMA AheadIsFinite ==
  ASSUME TypeOK
  PROVE  IsFiniteSet(Ahead) /\ Cardinality(Ahead) \in Nat
<1>1. Ahead \subseteq KHEAP_START .. Limit
  BY DEF TypeOK, Ahead
<1>2. IsFiniteSet(KHEAP_START .. Limit)
  BY KHeapConstants, FS_Interval DEF Limit
<1> QED
  BY <1>1, <1>2, FS_Subset, FS_CardinalityType

\* The step to the next block leaves the current one behind, and no block moves.
LEMMA NextLeavesOneBehind ==
  ASSUME IInv, kmalloc_next \/ kfree_next
  PROVE  current \in Ahead /\ Ahead' \subseteq Ahead \ {current}
<1>1. /\ current \in DOMAIN hdr /\ hdr' = hdr /\ current' = hdr[current].next
      /\ current # 0 /\ TypeOK /\ HeapTiled
  BY DEF IInv, TypeOK, kmalloc_next, kfree_next
<1>2. /\ current \in Nat /\ \A a \in DOMAIN hdr : a \in Nat
      /\ current' # 0 => current' \in Nat /\ current < current'
  BY <1>1, Fields, Successor
<1> QED
  BY <1>1, <1>2 DEF Ahead

\* A merge takes the block behind the current one off the list.
LEMMA MergeTakesOneAway ==
  ASSUME IInv, kfree_merge
  PROVE  hdr[current].next \in Ahead /\ Ahead' \subseteq Ahead \ {hdr[current].next}
<1>1. /\ hdr[current].next \in DOMAIN hdr /\ current < hdr[current].next
      /\ DOMAIN hdr' = DOMAIN hdr \ {hdr[current].next}
      /\ current' = current /\ current # 0 /\ TypeOK
  BY MergeFacts DEF IInv, kfree_merge
<1>2. current \in Nat /\ hdr[current].next \in Nat
  BY <1>1, Fields DEF TypeOK
<1> QED
  BY <1>1, <1>2 DEF Ahead

\* Either way there is one block less to see.
LEMMA IterationsShrink ==
  ASSUME IInv, Iteration
  PROVE  Cardinality(Ahead') < Cardinality(Ahead)
<1>1. PICK a \in Ahead : Ahead' \subseteq Ahead \ {a}
  BY NextLeavesOneBehind, MergeTakesOneAway DEF Iteration
<1>2. IsFiniteSet(Ahead) /\ Cardinality(Ahead) \in Nat
  BY AheadIsFinite DEF IInv
<1>3. IsFiniteSet(Ahead \ {a}) /\ Cardinality(Ahead \ {a}) = Cardinality(Ahead) - 1
  BY <1>2, FS_RemoveElement
<1>4. IsFiniteSet(Ahead') /\ Cardinality(Ahead') <= Cardinality(Ahead \ {a})
  BY <1>1, <1>3, FS_Subset
<1>5. Cardinality(Ahead') \in Nat
  BY <1>4, FS_CardinalityType
<1> QED
  BY <1>2, <1>3, <1>4, <1>5

\* No call of the heap goes round for ever (kheap.c:48 and :81), although a merge leaves
\* current where it is: at each iteration there are fewer blocks before it, of finitely
\* many, and when there is none left the loop ends.
THEOREM LoopsAreBounded ==
  Spec => /\ [](IsFiniteSet(Ahead) /\ (Ahead = {} => current = 0))
          /\ [][Iteration => Cardinality(Ahead') < Cardinality(Ahead)]_vars
<1>1. IInv => IsFiniteSet(Ahead) /\ (Ahead = {} => current = 0)
  <2> SUFFICES ASSUME IInv PROVE IsFiniteSet(Ahead) /\ (Ahead = {} => current = 0)
    OBVIOUS
  <2>1. ASSUME current # 0 PROVE current \in Ahead
    <3>1. current \in DOMAIN hdr /\ current \in Nat
      BY <2>1, KHeapConstants DEF IInv, TypeOK, Limit
    <3> QED
      BY <2>1, <3>1 DEF Ahead
  <2> QED
    BY <2>1, AheadIsFinite DEF IInv
<1>2. IInv => [Iteration => Cardinality(Ahead') < Cardinality(Ahead)]_vars
  BY IterationsShrink
<1> QED
  BY <1>1, <1>2, Invariance, PTL

----------------------------------------------------------------------------
(* process_create and process_destroy as callers of the heap: they keep to *)
(* its rules, and every block in use has one owner.                        *)


\* Each step of a process's call is a step of the heap, or none.
LEMMA ProcessStep == [ProcessNext]_allVars => [Next]_vars
<1> SUFFICES ASSUME [ProcessNext]_allVars PROVE [Next]_vars
  OBVIOUS
<1>1. PROCESS \in Sizes /\ DIRECTORY \in Sizes
  BY ProcessSizes
<1>2. \A ptr : kfree(ptr) => ptr \in DOMAIN live
  BY DEF kfree
<1>3. CASE Running
  BY <1>1, <1>2, <1>3
     DEF Running, Loop, Freed, GotProcess, NoProcess, vmm_create_page_directory,
         GotDirectory, NoDirectory, FreeProcess, GotText, NoText, Next, Run
<1>4. CASE process_create \/ (\E n \in Sizes : AskText(n))
  BY <1>1, <1>4 DEF process_create, AskText, Next
<1>5. CASE \/ \E p \in DOMAIN procs : process_destroy(p) \/ process_destroy_spaceless(p)
           \/ \E t \in texts : FreeText(t)
  BY <1>2, <1>5 DEF process_destroy, process_destroy_spaceless, FreeText, Next
<1>6. CASE UNCHANGED allVars
  BY <1>6 DEF allVars
<1> QED
  BY <1>3, <1>4, <1>5, <1>6 DEF ProcessNext

\* What is shown above of the heap with any callers holds when its callers are
\* processes (process.c).
THEOREM ProcessesAreCallers == ProcessSpec => Spec
<1>1. ProcessInit => Init
  BY DEF ProcessInit
<1> QED
  BY <1>1, ProcessStep, PTL DEF ProcessSpec, Spec

----------------------------------------------------------------------------
(* The strengthening *)

\* Where a call is, the heap is too.
CallOfHeap ==
  /\ call \in {"process", "directory", "text"} => pc = "kmalloc"
  /\ call = "space" => pc = "idle"
  /\ call = "process" => size = PROCESS
  /\ call = "directory" => size = DIRECTORY

ProcessIInv == IInv /\ CallOfHeap /\ EveryBlockHasItsOwner

\* No call runs and nothing is held at the start.
LEMMA InitProcessIInv == ProcessInit => ProcessIInv
<1> SUFFICES ASSUME ProcessInit PROVE ProcessIInv
  OBVIOUS
<1>1. IInv
  BY InitIInv DEF ProcessInit
<1>2. /\ DOMAIN live = {} /\ DOMAIN procs = {} /\ texts = {} /\ call = "none"
  BY DEF ProcessInit, Init
<1>3. Spaces = {} /\ InHand = {}
  BY <1>2 DEF Spaces, InHand
<1> QED
  BY <1>1, <1>2, <1>3 DEF ProcessIInv, CallOfHeap, EveryBlockHasItsOwner

\* The running call keeps to the heap's.
LEMMA StepCallOfHeap ==
  ASSUME IInv, CallOfHeap, [ProcessNext]_allVars
  PROVE  CallOfHeap'
<1>1. CASE Loop \/ Freed
  BY <1>1 DEF Loop, Freed, kmalloc_next, kfree_merge, kfree_next, kfree_done,
              CallOfHeap, processVars
<1>2. CASE GotProcess \/ NoProcess \/ GotDirectory \/ NoDirectory \/ GotText \/ NoText
  BY <1>2 DEF GotProcess, NoProcess, GotDirectory, NoDirectory, GotText, NoText,
              kmalloc_take, kmalloc_fail, CallOfHeap
<1>3. CASE process_create \/ vmm_create_page_directory
             \/ \E n \in Sizes : AskText(n)
  BY <1>3 DEF process_create, vmm_create_page_directory, AskText, kmalloc, CallOfHeap
<1>4. CASE \/ FreeProcess
           \/ \E p \in DOMAIN procs : process_destroy(p) \/ process_destroy_spaceless(p)
           \/ \E t \in texts : FreeText(t)
  BY <1>4 DEF FreeProcess, process_destroy, process_destroy_spaceless, FreeText,
              kfree, CallOfHeap
<1>5. CASE UNCHANGED allVars
  BY <1>5 DEF allVars, vars, processVars, CallOfHeap
<1> QED
  BY <1>1, <1>2, <1>3, <1>4, <1>5 DEF ProcessNext, Running

----------------------------------------------------------------------------
(* What a step of the heap does to the blocks in use *)

\* The block kmalloc returns was in nobody's hands.
LEMMA TakeIsNew ==
  ASSUME IInv, kmalloc_take
  PROVE  /\ Found \notin DOMAIN live /\ Found # 0
         /\ DOMAIN live' = DOMAIN live \cup {Found}
         /\ live'[Found] = size
         /\ \A p \in DOMAIN live : live'[p] = live[p]
<1>1. current \in DOMAIN hdr /\ hdr[current].is_free = 1
  BY DEF kmalloc_take, Fits, IInv, TypeOK
<1>2. current \in Nat /\ current > 0 /\ HDR \in Nat
  BY <1>1, Fields DEF IInv
<1>3. Found # 0 /\ Found - HDR = current
  BY <1>2 DEF Found
<1>4. Found \notin DOMAIN live
  BY <1>1, <1>3 DEF IInv, UsedAreLive
<1>5. live' = [p \in DOMAIN live \cup {Found} |->
                 IF p = Found THEN size ELSE live[p]]
  BY DEF kmalloc_take, Found
<1> HIDE DEF Found
<1> QED
  BY <1>3, <1>4, <1>5

\* kfree takes one block from them.
LEMMA FreeIsGone ==
  ASSUME NEW ptr, kfree(ptr)
  PROVE  /\ ptr \in DOMAIN live
         /\ DOMAIN live' = DOMAIN live \ {ptr}
         /\ \A p \in DOMAIN live' : live'[p] = live[p]
BY DEF kfree

----------------------------------------------------------------------------
(* The steps that change who holds what *)

\* Owners that stay the same.
LEMMA SameOwners ==
  ASSUME EveryBlockHasItsOwner, UNCHANGED <<live, procs, texts>>, InHand' = InHand
  PROVE  EveryBlockHasItsOwner'
BY DEF EveryBlockHasItsOwner, Spaces

\* process_t is allocated: it is in the call's hand.
LEMMA GotProcessOwners ==
  ASSUME ProcessIInv, GotProcess
  PROVE  EveryBlockHasItsOwner'
<1>1. /\ Found \notin DOMAIN live /\ DOMAIN live' = DOMAIN live \cup {Found}
      /\ live'[Found] = PROCESS
      /\ \A p \in DOMAIN live : live'[p] = live[p]
  BY TakeIsNew DEF GotProcess, ProcessIInv, CallOfHeap
<1>2. UNCHANGED <<procs, texts>> /\ InHand = {} /\ InHand' = {Found}
  BY DEF GotProcess, InHand
<1>3. Spaces' = Spaces
  BY <1>2 DEF Spaces
<1> HIDE DEF Found, InHand, Spaces
<1> QED
  BY <1>1, <1>2, <1>3 DEF ProcessIInv, EveryBlockHasItsOwner

\* A process comes into being: it has its two blocks, or one and no space.
LEMMA WithProcessOwners ==
  ASSUME EveryBlockHasItsOwner, call = "directory", call' = "none",
         NEW d, procs' = WithProcess(d), UNCHANGED texts,
         d # 0 => /\ d \notin DOMAIN live
                  /\ DOMAIN live' = DOMAIN live \cup {d}
                  /\ live'[d] = DIRECTORY
                  /\ \A p \in DOMAIN live : live'[p] = live[p],
         d = 0 => live' = live
  PROVE  EveryBlockHasItsOwner'
<1>1. InHand = {proc} /\ InHand' = {}
  BY DEF InHand
<1>2. /\ DOMAIN live = DOMAIN procs \cup Spaces \cup texts \cup {proc}
      /\ DOMAIN procs \cap Spaces = {}
      /\ texts \cap (DOMAIN procs \cup Spaces) = {}
      /\ proc \notin DOMAIN procs \cup Spaces \cup texts
      /\ \A p, q \in DOMAIN procs : procs[p] = procs[q] /\ procs[p] # 0 => p = q
      /\ \A p \in DOMAIN procs \cup {proc} : live[p] = PROCESS
      /\ \A s \in Spaces : live[s] = DIRECTORY
  BY <1>1 DEF EveryBlockHasItsOwner
<1>3. /\ DOMAIN procs' = DOMAIN procs \cup {proc}
      /\ procs'[proc] = d
      /\ \A p \in DOMAIN procs : procs'[p] = procs[p]
  BY <1>2 DEF WithProcess
<1>4. Spaces' = Spaces \cup ({d} \ {0})
  BY <1>3 DEF Spaces
<1>5. \A p \in DOMAIN procs : procs[p] # 0 => procs[p] \in Spaces
  BY DEF Spaces
<1> HIDE DEF InHand, Spaces
<1>6. DOMAIN live' = DOMAIN live \cup ({d} \ {0})
  OBVIOUS
<1>7. \A p \in DOMAIN live : live'[p] = live[p]
  OBVIOUS
<1>8. d # 0 => d \notin DOMAIN procs \cup Spaces \cup texts \cup {proc}
  BY <1>2
<1>9. \A p, q \in DOMAIN procs' : procs'[p] = procs'[q] /\ procs'[p] # 0 => p = q
  BY <1>2, <1>3, <1>5, <1>8
<1>10. /\ \A p \in DOMAIN procs' : live'[p] = PROCESS
       /\ \A s \in Spaces' : live'[s] = DIRECTORY
  BY <1>2, <1>3, <1>4, <1>7
<1>11. /\ DOMAIN live' = DOMAIN procs' \cup Spaces' \cup texts'
       /\ DOMAIN procs' \cap Spaces' = {}
       /\ texts' \cap (DOMAIN procs' \cup Spaces') = {}
  BY <1>2, <1>3, <1>4, <1>6, <1>8
<1> QED
  BY <1>1, <1>9, <1>10, <1>11 DEF EveryBlockHasItsOwner

\* A process goes: its space is given back and process_t is in the call's hand,
\* or, when it has no space, process_t is given back at once.
LEMMA DestroyOwners ==
  ASSUME ProcessIInv, NEW p \in DOMAIN procs,
         process_destroy(p) \/ process_destroy_spaceless(p)
  PROVE  EveryBlockHasItsOwner'
<1> DEFINE gone == IF procs[p] # 0 THEN procs[p] ELSE p
<1>1. kfree(gone) /\ UNCHANGED texts /\ procs' = [q \in DOMAIN procs \ {p} |-> procs[q]]
  BY DEF process_destroy, process_destroy_spaceless, Forget
<1>2. InHand = {} /\ InHand' = (IF procs[p] # 0 THEN {p} ELSE {})
  BY DEF process_destroy, process_destroy_spaceless, Forget, InHand
<1>3. /\ DOMAIN live' = DOMAIN live \ {gone}
      /\ \A q \in DOMAIN live' : live'[q] = live[q]
  BY <1>1, FreeIsGone
<1>4. /\ DOMAIN live = DOMAIN procs \cup Spaces \cup texts
      /\ DOMAIN procs \cap Spaces = {}
      /\ texts \cap (DOMAIN procs \cup Spaces) = {}
      /\ \A q, r \in DOMAIN procs : procs[q] = procs[r] /\ procs[q] # 0 => q = r
      /\ \A q \in DOMAIN procs : live[q] = PROCESS
      /\ \A s \in Spaces : live[s] = DIRECTORY
  BY <1>2 DEF ProcessIInv, EveryBlockHasItsOwner
<1>5. /\ DOMAIN procs' = DOMAIN procs \ {p}
      /\ \A q \in DOMAIN procs' : procs'[q] = procs[q]
  BY <1>1
<1>6. Spaces' = Spaces \ {procs[p]}
  BY <1>4, <1>5 DEF Spaces
<1>7. procs[p] # 0 => procs[p] \in Spaces
  BY DEF Spaces
<1>8. 0 \notin Spaces
  BY DEF Spaces
<1> HIDE DEF InHand, Spaces
<1>9. /\ DOMAIN live' = DOMAIN procs' \cup Spaces' \cup texts' \cup InHand'
      /\ DOMAIN procs' \cap Spaces' = {}
      /\ texts' \cap (DOMAIN procs' \cup Spaces') = {}
      /\ InHand' \cap (DOMAIN procs' \cup Spaces' \cup texts') = {}
  BY <1>1, <1>2, <1>3, <1>4, <1>5, <1>6, <1>7, <1>8
<1> HIDE DEF gone
<1>10. \A q, r \in DOMAIN procs' : procs'[q] = procs'[r] /\ procs'[q] # 0 => q = r
  BY <1>4, <1>5
<1>11. /\ \A q \in DOMAIN procs' \cup InHand' : live'[q] = PROCESS
       /\ \A s \in Spaces' : live'[s] = DIRECTORY
  <2>1. DOMAIN procs' \cup InHand' \subseteq DOMAIN procs \cap DOMAIN live'
    BY <1>2, <1>5, <1>9
  <2>2. Spaces' \subseteq Spaces \cap DOMAIN live'
    BY <1>6, <1>9
  <2> QED
    BY <1>3, <1>4, <2>1, <2>2
<1> QED
  BY <1>9, <1>10, <1>11 DEF EveryBlockHasItsOwner

\* process_destroy gives process_t back last.
LEMMA FreeProcessOwners ==
  ASSUME ProcessIInv, FreeProcess
  PROVE  EveryBlockHasItsOwner'
<1>1. /\ DOMAIN live' = DOMAIN live \ {proc}
      /\ \A p \in DOMAIN live' : live'[p] = live[p]
  BY FreeIsGone DEF FreeProcess
<1>2. UNCHANGED <<procs, texts>> /\ InHand = {proc} /\ InHand' = {}
  BY DEF FreeProcess, InHand
<1>3. Spaces' = Spaces
  BY <1>2 DEF Spaces
<1> HIDE DEF InHand, Spaces
<1> QED
  BY <1>1, <1>2, <1>3 DEF ProcessIInv, EveryBlockHasItsOwner

\* The kernel takes a block for a text, or gives one back.
LEMMA TextOwners ==
  ASSUME ProcessIInv, GotText \/ \E t \in texts : FreeText(t)
  PROVE  EveryBlockHasItsOwner'
<1>1. UNCHANGED procs /\ InHand = {} /\ InHand' = {}
  BY DEF GotText, FreeText, InHand
<1>2. Spaces' = Spaces
  BY <1>1 DEF Spaces
<1>3. CASE GotText
  <2>1. /\ Found \notin DOMAIN live /\ DOMAIN live' = DOMAIN live \cup {Found}
        /\ \A p \in DOMAIN live : live'[p] = live[p]
        /\ texts' = texts \cup {Found}
    BY <1>3, TakeIsNew DEF GotText, ProcessIInv
  <2> HIDE DEF Found, InHand, Spaces
  <2> QED
    BY <1>1, <1>2, <2>1 DEF ProcessIInv, EveryBlockHasItsOwner
<1>4. ASSUME NEW t \in texts, FreeText(t) PROVE EveryBlockHasItsOwner'
  <2>1. /\ DOMAIN live' = DOMAIN live \ {t} /\ texts' = texts \ {t}
        /\ \A p \in DOMAIN live' : live'[p] = live[p]
    BY <1>4, FreeIsGone DEF FreeText
  <2> HIDE DEF InHand, Spaces
  <2> QED
    BY <1>1, <1>2, <1>4, <2>1 DEF ProcessIInv, EveryBlockHasItsOwner
<1> QED
  BY <1>3, <1>4

\* The other steps leave the blocks in use and their owners alone.
LEMMA QuietOwners ==
  ASSUME ProcessIInv,
         \/ Loop \/ Freed \/ NoProcess \/ NoText \/ process_create
         \/ vmm_create_page_directory \/ \E n \in Sizes : AskText(n)
  PROVE  EveryBlockHasItsOwner'
<1>1. UNCHANGED <<live, procs, texts>>
  BY DEF Loop, Freed, NoProcess, NoText, process_create, vmm_create_page_directory,
         AskText, processVars, kmalloc_next, kmalloc_fail, kmalloc, kfree_merge,
         kfree_next, kfree_done
<1>2. InHand' = InHand
  <2>1. CASE Freed
    BY <2>1 DEF Freed, kfree_done, InHand, ProcessIInv, CallOfHeap
  <2>2. CASE ~Freed
    BY <2>2 DEF Loop, NoProcess, NoText, process_create, vmm_create_page_directory,
                AskText, processVars, InHand
  <2> QED
    BY <2>1, <2>2
<1> QED
  BY <1>1, <1>2, SameOwners DEF ProcessIInv

----------------------------------------------------------------------------
\* Every step of a call keeps the strengthening.
LEMMA StepProcessIInv ==
  ProcessIInv /\ [ProcessNext]_allVars => ProcessIInv'
<1> SUFFICES ASSUME ProcessIInv, [ProcessNext]_allVars PROVE ProcessIInv'
  OBVIOUS
<1>1. IInv' /\ CallOfHeap'
  BY ProcessStep, StepIInv, StepCallOfHeap DEF ProcessIInv
<1>2. EveryBlockHasItsOwner'
  <2>1. CASE GotDirectory
    <3>1. /\ Found # 0 /\ Found \notin DOMAIN live
          /\ DOMAIN live' = DOMAIN live \cup {Found}
          /\ live'[Found] = DIRECTORY
          /\ \A p \in DOMAIN live : live'[p] = live[p]
      BY <2>1, TakeIsNew DEF GotDirectory, ProcessIInv, CallOfHeap
    <3>2. /\ call = "directory" /\ call' = "none"
          /\ procs' = WithProcess(Found) /\ UNCHANGED texts
      BY <2>1 DEF GotDirectory
    <3> HIDE DEF Found
    <3> QED
      BY <3>1, <3>2, WithProcessOwners DEF ProcessIInv
  <2>2. CASE NoDirectory
    <3>1. /\ call = "directory" /\ call' = "none"
          /\ procs' = WithProcess(0) /\ UNCHANGED <<live, texts>>
      BY <2>2 DEF NoDirectory, kmalloc_fail
    <3> QED
      BY <3>1, WithProcessOwners DEF ProcessIInv
  <2>3. CASE UNCHANGED allVars
    <3>1. UNCHANGED <<live, procs, texts>> /\ InHand' = InHand
      BY <2>3 DEF allVars, vars, processVars, InHand
    <3> QED
      BY <3>1, SameOwners DEF ProcessIInv
  <2> QED
    BY <2>1, <2>2, <2>3, GotProcessOwners, DestroyOwners, FreeProcessOwners,
       TextOwners, QuietOwners DEF ProcessNext, Running
<1> QED
  BY <1>1, <1>2 DEF ProcessIInv

\* At every step of every call each block in use has one owner: none leaks when
\* vmm_create_page_directory fails inside process_create, none is given back twice
\* by process_destroy (process.c).
THEOREM NoBlockIsLost == ProcessSpec => []EveryBlockHasItsOwner
<1>1. ProcessIInv => EveryBlockHasItsOwner
  BY DEF ProcessIInv
<1> QED
  BY <1>1, InitProcessIInv, StepProcessIInv, PTL DEF ProcessSpec
============================================================================
