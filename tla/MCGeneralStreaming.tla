-------------------------- MODULE MCGeneralStreaming --------------------------
(***************************************************************************)
(* Model values for GeneralStreaming.  Plain holds dialects in which no    *)
(* newline waits for a longer one: two separators that start alike with an *)
(* escape of two bytes, and two newlines that may overlap.  A byte that is *)
(* the start of a pattern is data when the pattern does not follow.        *)
(***************************************************************************)
EXTENDS GeneralStreaming

CONSTANTS sep, esc, lf, cr

MCByte == {sep, esc, lf, cr}
MCLimits == {3}

TwoByteEscape ==
    [separators |-> <<<<sep, sep>>, <<sep>>>>, escape |-> <<esc, esc>>,
     newlines |-> <<<<cr, lf>>, <<lf>>>>, is_default |-> TRUE]

TwoByteNewlines ==
    [separators |-> <<<<sep, cr>>, <<sep>>>>, escape |-> <<esc>>,
     newlines |-> <<<<cr, lf>>, <<lf, cr>>>>, is_default |-> FALSE]

Plain == {TwoByteEscape, TwoByteNewlines}

(* As newlines: ["<br>", "|"] in test/custom_newline_test.exs. *)
ShortAndLongNewline ==
    [separators |-> <<<<sep>>>>, escape |-> <<esc>>,
     newlines |-> <<<<cr, cr, cr>>, <<lf>>>>, is_default |-> FALSE]

WithShortNewline == {ShortAndLongNewline}

ASSUME ClearAssumption ==
    /\ \A d \in Plain : Clear(d)
    /\ ~Clear(ShortAndLongNewline)
=============================================================================
