---------------------------- MODULE GeneralDialect ----------------------------
(***************************************************************************)
(* The dialects of strategy/general.rs and the reading of rows in them.    *)
(* Separators, escape and newlines are byte sequences: a dialect is a      *)
(* record of                                                               *)
(*   separators  the separators, in the order in which they are tried,     *)
(*   escape      the escape,                                               *)
(*   newlines    the newlines, longest first (core/newlines.rs),           *)
(*   is_default  TRUE for the default newlines, <<CR, LF>> and <<LF>>.     *)
(*                                                                         *)
(* Positions count from zero, as in the code; the byte at position n of    *)
(* data is data[n + 1].  The loops of the code move by whole patterns; the *)
(* folds below move by bytes and skip the rest of a pattern (st.skip).     *)
(***************************************************************************)
EXTENDS Integers, Sequences, SequencesExt, FiniteSetsExt, QuoteState

CONSTANTS Byte,      \* the bytes that occur in a text
          LF,        \* line feed
          CR,        \* carriage return
          Dialects   \* the dialects that parsers are made with

(* decode_separators, decode_escape and decode_newlines refuse a dialect   *)
(* without a pattern and an empty pattern.                                 *)
ASSUME DialectsAssumption ==
    /\ {LF, CR} \subseteq Byte /\ LF # CR
    /\ \A d \in Dialects :
          /\ d.separators \in Seq(Seq(Byte) \ {<<>>}) \ {<<>>}
          /\ d.escape \in Seq(Byte) \ {<<>>}
          /\ d.newlines \in Seq(Seq(Byte) \ {<<>>}) \ {<<>>}
          /\ d.is_default \in BOOLEAN
          /\ d.is_default => d.newlines = <<<<CR, LF>>, <<LF>>>>

Suffix(data, pos) == SubSeq(data, pos + 1, Len(data))

StartsWith(data, pos, pattern) == IsPrefix(pattern, Suffix(data, pos))

(* The data ends within pattern. *)
PartialSuffix(data, pos, pattern) == IsStrictPrefix(Suffix(data, pos), pattern)

(* The length of the first of the patterns that starts at pos, or 0. *)
MatchLength(patterns, data, pos) ==
    LET found == {k \in DOMAIN patterns : StartsWith(data, pos, patterns[k])}
    IN  IF found = {} THEN 0 ELSE Len(patterns[Min(found)])

MatchSeparator(d, data, pos) == MatchLength(d.separators, data, pos)

MatchNewline(d, data, pos) == MatchLength(d.newlines, data, pos)

MaxPatternLen(d) == Max({Len(d.newlines[k]) : k \in DOMAIN d.newlines})

-----------------------------------------------------------------------------
(* The value of a field. *)

Doubled(d, data, pos) ==
    StartsWith(data, pos, d.escape) /\ StartsWith(data, pos + Len(d.escape), d.escape)

UnescapeField(d, inner) ==
    LET Read(st, i) ==
            CASE st.skip > 0                        -> [st EXCEPT !.skip = @ - 1]
              [] st.skip = 0 /\ Doubled(d, inner, i - 1) ->
                     [out |-> st.out \o d.escape, skip |-> 2 * Len(d.escape) - 1]
              [] OTHER                              -> [st EXCEPT !.out = Append(@, inner[i])]
    IN  FoldLeftDomain(Read, [out |-> <<>>, skip |-> 0], inner).out

ExtractField(d, raw) ==
    LET n == Len(d.escape)
    IN  IF Len(raw) >= 2 * n /\ IsPrefix(d.escape, raw) /\ IsSuffix(d.escape, raw)
        THEN UnescapeField(d, SubSeq(raw, n + 1, Len(raw) - n))
        ELSE raw

(* The field within bounds <<start, end>> of data. *)
FieldValue(d, data, b) ==
    IF b[1] >= b[2] THEN <<>> ELSE ExtractField(d, SubSeq(data, b[1] + 1, b[2]))

-----------------------------------------------------------------------------
(* The reading of a row. *)

(* consume_escape: the quote state after an escape, and its length. *)
ConsumeEscape(d, q, data, pos) ==
    LET doubled == q.in_quotes /\ Doubled(d, data, pos)
    IN  [quote |-> OnEscape(q, pos, doubled),
         len   |-> IF doubled THEN 2 * Len(d.escape) ELSE Len(d.escape)]

(* A field that ends at a line feed loses a carriage return before it. *)
FieldEnd(d, data, start, pos) ==
    IF d.is_default /\ data[pos + 1] = LF /\ pos > start /\ data[pos] = CR
    THEN pos - 1
    ELSE pos

(* Mutant: separators are looked for inside quotes as well. *)
TokenSeparatorFirst(d, newlines, data, pos, in_quotes) ==
    IF StartsWith(data, pos, d.escape)              THEN "escape"
    ELSE IF MatchSeparator(d, data, pos) > 0        THEN "separator"
    ELSE IF in_quotes                               THEN "quoted"
    ELSE IF MatchLength(newlines, data, pos) > 0    THEN "newline"
    ELSE                                                 "data"

(* What stands at pos: the escape is looked for first, then, outside       *)
(* quotes, a separator, and a newline if the loop knows newlines.          *)
TokenAt(d, newlines, data, pos, in_quotes) ==
    IF StartsWith(data, pos, d.escape)              THEN "escape"
    ELSE IF in_quotes                               THEN "quoted"
    ELSE IF MatchSeparator(d, data, pos) > 0        THEN "separator"
    ELSE IF MatchLength(newlines, data, pos) > 0    THEN "newline"
    ELSE                                                 "data"

(* One step of the loop, at pos: start is where the current field begins,  *)
(* bounds are those of the fields before it, next is where the next row    *)
(* starts once this one has ended.                                         *)
RowByte(d, newlines, data, st, pos) ==
    LET token     == TokenAt(d, newlines, data, pos, st.quote.in_quotes)
        escape    == ConsumeEscape(d, st.quote, data, pos)
        separator == MatchSeparator(d, data, pos)
        ended     == Append(st.bounds, <<st.start, FieldEnd(d, data, st.start, pos)>>)
        reading   == st.next = 0 /\ st.skip = 0
    IN  CASE st.next > 0 -> st
          [] st.next = 0 /\ st.skip > 0 ->
               [st EXCEPT !.skip = @ - 1]
          [] reading /\ token = "escape" ->
               [st EXCEPT !.quote = escape.quote, !.skip = escape.len - 1]
          [] reading /\ token = "quoted" ->
               st
          [] reading /\ token = "separator" ->
               [st EXCEPT !.bounds = Append(@, <<st.start, pos>>),
                          !.start  = pos + separator,
                          !.skip   = separator - 1,
                          !.quote  = OnDelimiter(@)]
          [] reading /\ token = "newline" ->
               [st EXCEPT !.bounds = ended,
                          !.next   = pos + MatchLength(newlines, data, pos),
                          !.quote  = OnDelimiter(@)]
          [] reading /\ token = "data" ->
               [st EXCEPT !.quote = OnData(@, pos)]

RowStart ==
    [bounds |-> <<>>, start |-> 0, skip |-> 0, next |-> 0, quote |-> NewQuote]

(* The reading after each number of bytes. *)
RowState(d, newlines, data) ==
    LET read[n \in 0..Len(data)] ==
            IF n = 0 THEN RowStart ELSE RowByte(d, newlines, data, read[n - 1], n - 1)
    IN  read

(* The first row of data, which is not empty: the bounds of its fields,    *)
(* where the next row starts, the violation of the row and whether it ends *)
(* with the data inside quotes.                                            *)
ReadRow(d, newlines, data) ==
    LET st == RowState(d, newlines, data)[Len(data)]
    IN  IF st.next > 0
        THEN [bounds |-> st.bounds, next |-> st.next, open |-> FALSE,
              violation |-> Finish(st.quote, st.next)]
        ELSE [bounds |-> Append(st.bounds, <<st.start, Len(data)>>),
              next |-> Len(data), open |-> st.quote.in_quotes,
              violation |-> Finish(st.quote, Len(data))]

(* A row read at start, as positions of the whole input. *)
Shift(row, start) ==
    [bounds    |-> [k \in DOMAIN row.bounds |->
                       <<row.bounds[k][1] + start, row.bounds[k][2] + start>>],
     next      |-> row.next + start,
     open      |-> row.open,
     violation |-> Rebase(row.violation, start)]

RowAt(d, input, start) == Shift(ReadRow(d, d.newlines, Suffix(input, start)), start)

(* A line: a row that ends with its data, whatever newlines it holds. *)
ReadLine(d, line) == ReadRow(d, <<>>, line)

LineFields(d, line) ==
    LET bounds == ReadLine(d, line).bounds
    IN  [k \in DOMAIN bounds |-> FieldValue(d, line, bounds[k])]

-----------------------------------------------------------------------------
(* The rows of a whole text, one after another: what a batch parse returns. *)

RowsFrom(d, text) ==
    LET from[start \in 0..Len(text)] ==
            IF start = Len(text)
            THEN <<>>
            ELSE LET row == RowAt(d, text, start) IN <<row>> \o from[row.next]
    IN  from

BatchRows(d, text) == RowsFrom(d, text)[0]

(* The values of the fields of rows of text, and their first violation. *)
RowValues(d, text, rows) ==
    [k \in DOMAIN rows |-> [j \in DOMAIN rows[k].bounds |->
        FieldValue(d, text, rows[k].bounds[j])]]

RowsViolation(rows) ==
    LET first[k \in 0..Len(rows)] ==
            IF k = 0 THEN NoViolation ELSE FirstOf(first[k - 1], rows[k].violation)
    IN  first[Len(rows)]

BatchValues(d, text) == RowValues(d, text, BatchRows(d, text))

BatchViolation(d, text) == RowsViolation(BatchRows(d, text))
=============================================================================
