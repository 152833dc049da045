--------------------------- MODULE AddressSpaces ---------------------------
(***************************************************************************)
(* What the virtual memory manager promises: address spaces that map pages *)
(* to frames.  Mapping or unmapping a page of one space changes that page  *)
(* of that space and nothing else; a new space is empty but for the        *)
(* kernel's part, which all spaces have in common.                         *)
(***************************************************************************)
CONSTANTS
  Spaces,      \* every address space there could be
  Boot,        \* the one the machine starts with
  Pages,       \* the pages of an address space
  KernelPages, \* those of the kernel's part
  Frames,
  NoFrame      \* an unmapped page

VARIABLE space    \* the spaces in use -> page -> frame, or NoFrame

Init ==
  /\ DOMAIN space = {Boot}
  /\ space[Boot] \in [Pages -> Frames \cup {NoFrame}]
  /\ \A p \in Pages \ KernelPages : space[Boot][p] = NoFrame

Create(s) ==
  /\ s \notin DOMAIN space
  /\ space' = [t \in DOMAIN space \cup {s} |->
                 IF t = s
                 THEN [p \in Pages |-> IF p \in KernelPages THEN space[Boot][p]
                                                            ELSE NoFrame]
                 ELSE space[t]]

Destroy(s) ==
  /\ s \in DOMAIN space \ {Boot}
  /\ space' = [t \in DOMAIN space \ {s} |-> space[t]]

\* Page p of space s gets a new value; a page of the kernel's part is the same
\* page in every space.
Put(s, p) ==
  /\ s \in DOMAIN space /\ DOMAIN space' = DOMAIN space
  /\ LET f == space'[s][p]
     IN  /\ f \in Frames \cup {NoFrame}
         /\ space' = [t \in DOMAIN space |->
                        IF t = s \/ p \in KernelPages
                        THEN [space[t] EXCEPT ![p] = f] ELSE space[t]]

Next ==
  \E s \in Spaces : Create(s) \/ Destroy(s) \/ \E p \in Pages : Put(s, p)

Spec == Init /\ [][Next]_space
============================================================================
