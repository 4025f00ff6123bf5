------------------------------ MODULE CsvText -------------------------------
(***************************************************************************)
(* What a whole CSV text means: its rows and its first quoting violation,  *)
(* defined on the text as it stands and not by reading it from left to     *)
(* right.  Every parser of the library must agree with this module.        *)
(*                                                                         *)
(* The definitions rest on one observation.  A byte stands inside quotes   *)
(* exactly when an odd number of escape bytes stands before it: a doubled  *)
(* escape changes the parity twice.                                        *)
(*                                                                         *)
(* Positions are those of TLA+ sequences; the position a violation reports *)
(* counts from zero, as the library's do.                                  *)
(***************************************************************************)
EXTENDS CsvField, QuoteState, FiniteSets, FiniteSetsExt

(* The bytes have one role each; the reference needs that to make sense. *)
ASSUME DialectAssumption ==
    /\ Escape \notin Separators \cup {LF, CR}
    /\ {LF, CR} \cap Separators = {}

Escapes(s, i) == {j \in 1..i - 1 : s[j] = Escape}

Quoted(s, i) == Cardinality(Escapes(s, i)) % 2 = 1

(* The k-th of the numbers in S, and all of them in order. *)
Nth(S, k) == CHOOSE i \in S : Cardinality({j \in S : j <= i}) = k

InOrder(S) == [k \in 1..Cardinality(S) |-> Nth(S, k)]

(* The line feeds that end a row. *)
RowEnds(s) == {i \in DOMAIN s : s[i] = LF /\ ~Quoted(s, i)}

(* The bytes from first up to the line feed at end, less a CR before it. *)
LineAt(s, first, end) ==
    SubSeq(s, first, IF end > first /\ s[end - 1] = CR THEN end - 2 ELSE end - 1)

(* The rows whose end the text holds, as the bytes of their lines. *)
EndedLines(s) ==
    LET ends == <<0>> \o InOrder(RowEnds(s))
    IN  [k \in 1..Len(ends) - 1 |-> LineAt(s, ends[k] + 1, ends[k + 1])]

(* The row ends among the first n bytes. *)
EndsUpTo(s, n) == {i \in RowEnds(s) : i <= n}

(* Two row ends with none between them; the first may be the start of the text. *)
Adjacent(s, first, last) ==
    /\ first \in {0} \cup RowEnds(s) /\ last \in RowEnds(s)
    /\ first < last
    /\ \A i \in RowEnds(s) : i <= first \/ last <= i

(* lines are the rows that end among the first n bytes of s: the row that  *)
(* ends at the k-th row end is the k-th.  This says of a sequence that it  *)
(* is the one EndedLines constructs.                                       *)
CutsRows(lines, s, n) ==
    /\ Len(lines) = Cardinality(EndsUpTo(s, n))
    /\ \A first \in 0..n, last \in EndsUpTo(s, n) :
          Adjacent(s, first, last) =>
              lines[Cardinality(EndsUpTo(s, last))] = LineAt(s, first + 1, last)

(* What follows the last row end. *)
LastLine(s) == SubSeq(s, Max({0} \cup RowEnds(s)) + 1, Len(s))

(* The rows of the text when nothing more follows. *)
AllLines(s) ==
    EndedLines(s) \o (IF LastLine(s) = <<>> THEN <<>> ELSE <<LastLine(s)>>)

(* The values of the fields of a row. *)
FieldsOf(line) ==
    LET cuts == InOrder({i \in DOMAIN line : line[i] \in Separators
                                             /\ ~Quoted(line, i)})
        ends == <<0>> \o cuts \o <<Len(line) + 1>>
    IN  [k \in 1..Len(cuts) + 1 |->
            ExtractField(SubSeq(line, ends[k] + 1, ends[k + 1] - 1))]

(* An escape that opens quotes in the middle of a field. *)
UnexpectedQuotes(s) ==
    {i \in 2..Len(s) : /\ s[i] = Escape
                       /\ ~Quoted(s, i)
                       /\ s[i - 1] \notin Separators \cup {LF, Escape}}

(* Data right after a closing escape.  A CR is data unless a line feed     *)
(* follows; at the end of a text that may go on, it is not known yet.      *)
TrailingGarbage(s, complete) ==
    {i \in 2..Len(s) : /\ s[i - 1] = Escape
                       /\ ~Quoted(s, i)
                       /\ s[i] \notin Separators \cup {LF, Escape}
                       /\ s[i] = CR => IF i = Len(s) THEN complete
                                                     ELSE s[i + 1] # LF}

(* The first violation of a text; complete says that nothing more follows. *)
FirstViolation(s, complete) ==
    LET opens == UnexpectedQuotes(s)
        found == opens \cup TrailingGarbage(s, complete)
    IN  IF found # {}
        THEN [kind |-> IF Min(found) \in opens THEN "unexpected_quote"
                                               ELSE "trailing_garbage",
              pos  |-> Min(found) - 1]
        ELSE IF complete /\ Quoted(s, Len(s) + 1)
             THEN [kind |-> "unterminated_quote", pos |-> Len(s)]
             ELSE NoViolation
=============================================================================
