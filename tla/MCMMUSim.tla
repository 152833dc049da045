------------------------------ MODULE MCMMUSim ------------------------------
(***************************************************************************)
(* Four pages of two bytes, a TLB of two entries, addresses with a bit     *)
(* above the page number; the PMM has four free frames, or two.            *)
(***************************************************************************)
EXTENDS MMUSimSpec

MCBitmaps == {0 .. 1, 0 .. 1 \cup {3, 5}}
MCAddresses == 0 .. 9
=============================================================================
