----------------------------- MODULE Allocator -----------------------------
(***************************************************************************)
(* What a heap promises its callers: a block granted for n bytes stays     *)
(* inside the heap and apart from every other block, bookkeeping included,  *)
(* until it is given back; and a request is refused only when the blocks   *)
(* that are out leave no gap with Slack bytes to spare around it.          *)
(***************************************************************************)
EXTENDS Integers

CONSTANTS
  Start, Limit,   \* the heap is the bytes Start .. Limit - 1
  Overhead,         \* bytes of bookkeeping before each block
  Slack,          \* bytes around a request that a refusal may need
  Sizes,          \* the sizes callers ask for
  NoRequest       \* no call of the heap is being served

VARIABLES
  live,     \* the blocks that are out: address -> bytes asked for
  request   \* the size being asked for

allocVars == <<live, request>>

\* The bytes first .. limit - 1 have none in common with a block that is out.
Vacant(first, limit) ==
  \A p \in DOMAIN live : limit <= p - Overhead \/ p + live[p] <= first

Init == live = [p \in {} |-> 0] /\ request = NoRequest

Ask(n) ==
  /\ request = NoRequest
  /\ request' = n
  /\ UNCHANGED live

Grant(p) ==
  /\ request # NoRequest
  /\ Start <= p - Overhead /\ p + request <= Limit
  /\ p \notin DOMAIN live
  /\ Vacant(p - Overhead, p + request)
  /\ live' = [q \in DOMAIN live \cup {p} |-> IF q = p THEN request ELSE live[q]]
  /\ request' = NoRequest

Refuse ==
  /\ request # NoRequest
  /\ \A a \in Start .. Limit - (request + Slack) :
       ~Vacant(a, a + request + Slack)
  /\ request' = NoRequest
  /\ UNCHANGED live

GiveBack(p) ==
  /\ request = NoRequest
  /\ p \in DOMAIN live
  /\ live' = [q \in DOMAIN live \ {p} |-> live[q]]
  /\ UNCHANGED request

Next ==
  \/ Refuse
  \/ \E n \in Sizes : Ask(n)
  \/ \E p \in Start .. Limit : Grant(p) \/ GiveBack(p)

Spec == Init /\ [][Next]_allocVars
============================================================================
