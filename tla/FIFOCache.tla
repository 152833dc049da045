----------------------------- MODULE FIFOCache -----------------------------
(***************************************************************************)
(* A cache with first-in first-out replacement, the policy kmain.c:115     *)
(* claims for the TLB: a miss puts the page at the end of a queue of at    *)
(* most Size pages, a hit leaves the queue as it is.                       *)
(***************************************************************************)
EXTENDS Naturals, SequencesExt

CONSTANTS
  Size, Pages,
  NoPage       \* nothing was looked up yet

VARIABLES
  queue,     \* the cached pages, oldest first
  hits,      \* the accesses that found their page
  accesses,  \* all of them
  page       \* of the last one

cacheVars == <<queue, hits, accesses, page>>

Init == queue = <<>> /\ hits = 0 /\ accesses = 0 /\ page = NoPage

Hit(p) ==
  /\ Contains(queue, p)
  /\ hits' = hits + 1
  /\ UNCHANGED queue

Miss(p) ==
  /\ ~Contains(queue, p)
  /\ queue' = Append(IF Len(queue) = Size THEN Tail(queue) ELSE queue, p)
  /\ UNCHANGED hits

Access(p) ==
  /\ Hit(p) \/ Miss(p)
  /\ accesses' = accesses + 1
  /\ page' = p

Next == \E p \in Pages : Access(p)

Spec == Init /\ [][Next]_cacheVars
============================================================================
