---------------------------- MODULE MCBatchParse ----------------------------
(***************************************************************************)
(* Model values for BatchParse: one byte of each role, every text of up to *)
(* MaxLength bytes, texts of one byte more, which take two chunks and the  *)
(* tail, and texts that are larger than the index can hold.                *)
(***************************************************************************)
EXTENDS BatchParse

CONSTANTS comma, quote, newline, return, letter, MaxLength

MCByte == {comma, quote, newline, return, letter}
MCSeparators == {comma}
MCTexts == UNION {[1..n -> MCByte] : n \in 0..MaxLength}
               \cup [1..MaxLength + 1 -> {comma, quote, newline}]
               \cup {[i \in 1..MaxInputSize + 1 |-> byte] : byte \in MCByte}
=============================================================================
