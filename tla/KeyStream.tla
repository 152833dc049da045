----------------------------- MODULE KeyStream -----------------------------
(***************************************************************************)
(* What the keyboard promises: the characters of the keys that are pressed *)
(* appear on the screen once, in the order of the keys; a key without a    *)
(* character changes nothing on it.  A key may be dropped when it is       *)
(* pressed, never later.                                                   *)
(***************************************************************************)
EXTENDS Sequences

CONSTANTS Codes, HasChar(_), Char(_), NoChar

VARIABLES
  program,   \* what the program executes
  pending,   \* keys that are accepted and not dealt with yet
  shown      \* the character shown last

Init == pending = <<>> /\ shown = NoChar

\* Keys come from outside: the program adds none.
Press == \E code \in Codes :
  /\ pending' = Append(pending, code)
  /\ UNCHANGED <<program, shown>>

Show ==
  /\ pending # <<>>
  /\ shown' = IF HasChar(Head(pending)) THEN Char(Head(pending)) ELSE shown
  /\ pending' = Tail(pending)

Spec == Init /\ [][Press \/ Show]_<<pending, shown>>
============================================================================
