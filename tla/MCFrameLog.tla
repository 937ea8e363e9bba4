----------------------------- MODULE MCFrameLog -----------------------------
(* A short line, of which three make a batch and a chunk, and a long one, two *)
(* of which are past the ceiling on their own; a clock whose steps are not   *)
(* tenths of a second and that may go back.                                  *)
EXTENDS FrameLog

MCLengths == {<<1, 1>>, <<4, 1>>}
MCMarkLengths == {<<1, 1>>}
MCSteps == {2, -5}
=============================================================================
