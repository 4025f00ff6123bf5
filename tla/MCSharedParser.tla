---------------------------- MODULE MCSharedParser ----------------------------
(* Chunks for SharedParser: a whole row, and the end of one with an escape  *)
(* that opens quotes and, fed again, closes them.                           *)
EXTENDS SharedParser

CONSTANTS esc, lf, cr, a

MCByte == {esc, lf, cr, a}
MCChunks == {<<a, lf>>, <<lf, esc>>}
MCCounts == {1, 3}
=============================================================================
