----------------------------- MODULE LogStream -----------------------------
(***************************************************************************)
(* What log_message promises: the bytes of each message, prefix and line   *)
(* end included, come out of the port once, in the order of the calls.     *)
(***************************************************************************)
EXTENDS Sequences

CONSTANTS Messages, Levels, Text(_, _), NoByte

VARIABLES
  pending,   \* the bytes that are asked for and not on the cable yet
  cable      \* the byte that went out last

Init == pending = <<>> /\ cable = NoByte

Log == \E level \in Levels, msg \in Messages :
  pending' = pending \o Text(level, msg) /\ UNCHANGED cable

Emit ==
  /\ pending # <<>>
  /\ cable' = Head(pending)
  /\ pending' = Tail(pending)

Spec == Init /\ [][Log \/ Emit]_<<pending, cable>>
============================================================================
