-------------------------- MODULE MCStreamingParser --------------------------
(* Model values for StreamingParser: one byte of each role. *)
EXTENDS StreamingParser

CONSTANTS sep, esc, lf, cr, a

MCByte == {sep, esc, lf, cr, a}
MCSeparators == {sep}
MCLimits == {3, 100}
=============================================================================
