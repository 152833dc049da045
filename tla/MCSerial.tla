------------------------------ MODULE MCSerial ------------------------------
(* Values for TLC: messages longer than the queue, a level without a prefix. *)
EXTENDS Serial, TLC

MCMessages == {<<>>, <<10, 11>>, <<12, 10, 12>>}
MCPrefix == 1 :> <<1, 9>> @@ 2 :> <<2, 9>>
============================================================================
