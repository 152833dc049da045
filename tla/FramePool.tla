----------------------------- MODULE FramePool -----------------------------
(***************************************************************************)
(* What a frame allocator promises: a frame is lent to one holder at a     *)
(* time, it comes from the pool fixed at boot, and a request is refused    *)
(* only when the whole pool is lent out.                                   *)
(***************************************************************************)
CONSTANT Frames     \* every frame the machine could have

VARIABLES
  pool,    \* the frames this machine lends; fixed by Open
  lent,    \* the frames held by callers
  answer,  \* the answer to the last request
  open     \* the pool has been fixed

poolVars == <<pool, lent, answer, open>>

CONSTANTS
  NoAnswer,  \* nobody has asked yet
  Refused    \* the answer to a request that gets no frame

Init == pool = {} /\ lent = {} /\ answer = NoAnswer /\ open = FALSE

Open ==
  /\ ~open
  /\ open' = TRUE
  /\ pool' \in SUBSET Frames
  /\ UNCHANGED <<lent, answer>>

Lend(f) ==
  /\ open
  /\ f \in pool \ lent
  /\ lent' = lent \cup {f}
  /\ answer' = f
  /\ UNCHANGED <<pool, open>>

Refuse ==
  /\ open
  /\ pool \subseteq lent
  /\ answer' = Refused
  /\ UNCHANGED <<pool, lent, open>>

TakeBack(f) ==
  /\ f \in lent
  /\ lent' = lent \ {f}
  /\ UNCHANGED <<pool, answer, open>>

Next ==
  \/ Open
  \/ Refuse
  \/ \E f \in Frames : Lend(f) \/ TakeBack(f)

Spec == Init /\ [][Next]_poolVars
============================================================================
