--------------------------- MODULE MCFramebuffer ---------------------------
(* Values for TLC: a screen of 3 x 2, and bytes of 4 values, so that its six *)
(* places need both bytes of the cursor.                                     *)
EXTENDS Framebuffer

MCStrings == {<<>>, <<97>>, <<10>>, <<98, 10>>, <<97, 98, 99>>}
MCGarbage(i) == 176 + i
============================================================================
