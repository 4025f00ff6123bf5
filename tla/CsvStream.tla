------------------------------ MODULE CsvStream ------------------------------
(***************************************************************************)
(* What a streaming parser promises its callers, without buffer, scan      *)
(* positions or quote state: a text that grows chunk by chunk, its rows    *)
(* handed out in order and each once, and a text that is closed.           *)
(*                                                                         *)
(* StreamingParser implements this specification; the modules about the    *)
(* callers of a parser are built on it.                                    *)
(***************************************************************************)
EXTENDS CsvText

CONSTANT MaxInput  \* bound: bytes of one text

ASSUME MaxInputAssumption == MaxInput \in Nat

VARIABLES text,       \* the bytes fed since the last finalize
          delivered,  \* the rows returned since then
          strict      \* TRUE if malformed quoting is an error

streamVars == <<text, delivered, strict>>

(* The rows that stand in lines.  Functions, so that TLC reads a line once. *)
FieldsOfLine == [line \in Seq(Byte) |-> FieldsOf(line)]
RowsOf == [lines \in Seq(Seq(Byte)) |-> [k \in DOMAIN lines |-> FieldsOfLine[lines[k]]]]

(* The rows of a text whose end is known, and all of them once it is closed. *)
EndedRows(t) == RowsOf[EndedLines(t)]
AllRows(t) == RowsOf[AllLines(t)]

(* The rows that are left when the first n have been returned. *)
After(rows, n) == SubSeq(rows, n + 1, Len(rows))

Available == After(EndedRows(text), Len(delivered))

(* What a finalize returns. *)
Remaining == After(AllRows(text), Len(delivered))

(* A strict parser refuses a text with malformed quoting.  closed: no more *)
(* bytes follow.                                                           *)
Refuses(t, closed) == strict /\ FirstViolation(t, closed) # NoViolation

StreamInit == text = <<>> /\ delivered = <<>> /\ strict \in BOOLEAN

(* More bytes are fed. *)
Accept ==
    /\ IsPrefix(text, text') /\ Len(text') <= MaxInput
    /\ UNCHANGED <<delivered, strict>>

(* The next n rows are handed out. *)
Deliver(n) ==
    /\ n <= Len(Available)
    /\ ~Refuses(text, FALSE)
    /\ delivered' = delivered \o SubSeq(Available, 1, n)
    /\ UNCHANGED <<text, strict>>

(* Mutant: the count of rows delivered is not reset. *)
CloseKeepsDelivered == text' = <<>> /\ UNCHANGED <<delivered, strict>>

Close == text' = <<>> /\ delivered' = <<>> /\ UNCHANGED strict

StreamNext ==
    \/ Accept
    \/ Close
    \/ \E n \in {Len(delivered') - Len(delivered)} : n > 0 /\ Deliver(n)

StreamSpec == StreamInit /\ [][StreamNext]_streamVars
=============================================================================
