----------------------------- MODULE GeneralBatch -----------------------------
(***************************************************************************)
(* A batch parse in a dialect of strategy/general.rs: row after row        *)
(* (parse_csv_boundaries_general and ..._with_newlines), or by the workers *)
(* of a thread pool, each with the line between two row starts             *)
(* (parse_csv_parallel_boundaries_general and ..._with_newlines).          *)
(*                                                                         *)
(* The parallel parser looks for row starts without separators and reads   *)
(* lines without newlines; the other looks for both at once.               *)
(***************************************************************************)
EXTENDS GeneralDialect

CONSTANT Texts  \* the inputs

ASSUME TextsAssumption == Texts \subseteq Seq(Byte)

(* Newlines::custom sorts its patterns. *)
ASSUME LongestFirst ==
    \A d \in Dialects : \A j, k \in DOMAIN d.newlines :
        j < k => Len(d.newlines[j]) >= Len(d.newlines[k])

VARIABLES dialect, input,
          parser,      \* "cursor", or "parallel"
          strict,      \* a lenient caller ignores violations
          pos,         \* where the next row starts, of the cursor
          ranges,      \* row_ranges of the parallel parser
          parsed,      \* the rows its workers have done, by their place
          boundaries,  \* the bounds of the fields of the rows, in order
          violation,   \* the first one
          answer       \* of the NIF
call == <<dialect, input, parser, strict>>
batch == <<call, pos, ranges, parsed, boundaries, violation, answer>>

BatchInit ==
    /\ dialect \in Dialects /\ input \in Texts
    /\ parser \in {"cursor", "parallel"} /\ strict \in BOOLEAN
    /\ pos = 0 /\ ranges = <<>> /\ parsed = <<>>
    /\ boundaries = <<>> /\ violation = NoViolation
    /\ answer = "none"

(* What scanned_rows makes of the rows and the violation that came back. *)
Answer(rows, found) ==
    /\ boundaries' = rows
    /\ violation' = found
    /\ answer' = IF strict /\ found # NoViolation THEN "malformed_csv" ELSE "rows"

-----------------------------------------------------------------------------
(* One row after another. *)

NextRow ==
    /\ parser = "cursor" /\ answer = "none" /\ pos < Len(input)
    /\ LET row == RowAt(dialect, input, pos)
       IN  /\ boundaries' = Append(boundaries, row.bounds)
           /\ violation' = FirstOf(violation, row.violation)
           /\ pos' = row.next
    /\ UNCHANGED <<call, ranges, parsed, answer>>

CursorAtEnd ==
    /\ parser = "cursor" /\ answer = "none" /\ pos = Len(input)
    /\ Answer(boundaries, violation)
    /\ UNCHANGED <<call, pos, ranges, parsed>>

-----------------------------------------------------------------------------
(* In parallel. *)

(* One step of find_row_starts_general, at p: a row starts after a newline *)
(* outside quotes that a byte follows.                                     *)
StartsByte(d, text, st, p) ==
    LET escape  == StartsWith(text, p, d.escape)
        doubled == st.in_quotes /\ Doubled(d, text, p)
        newline == MatchNewline(d, text, p)
    IN  CASE st.skip > 0 ->
               [st EXCEPT !.skip = @ - 1]
          [] st.skip = 0 /\ escape ->
               [st EXCEPT !.in_quotes = IF doubled THEN @ ELSE ~@,
                          !.skip = (IF doubled THEN 2 ELSE 1) * Len(d.escape) - 1]
          [] st.skip = 0 /\ ~escape /\ (st.in_quotes \/ newline = 0) ->
               st
          [] st.skip = 0 /\ ~escape /\ ~st.in_quotes /\ newline > 0 ->
               [st EXCEPT !.starts = IF p + newline < Len(text)
                                     THEN Append(@, p + newline) ELSE @,
                          !.skip = newline - 1]

(* The search after each number of bytes; the text is the first start. *)
StartsState(d, text) ==
    LET found[n \in 0..Len(text)] ==
            IF n = 0 THEN [starts |-> <<0>>, in_quotes |-> FALSE, skip |-> 0]
                     ELSE StartsByte(d, text, found[n - 1], n - 1)
    IN  found

RowStarts(d, text) == StartsState(d, text)[Len(text)].starts

RowRanges(d, text) ==
    LET starts == RowStarts(d, text)
    IN  [k \in DOMAIN starts |->
            <<starts[k], IF k < Len(starts) THEN starts[k + 1] ELSE Len(text)>>]

PlanRows ==
    /\ parser = "parallel" /\ answer = "none" /\ ranges = <<>>
    /\ ranges' = RowRanges(dialect, input)
    /\ UNCHANGED <<call, pos, parsed, boundaries, violation, answer>>

(* The newlines that the text from start to end ends with. *)
NewlinesAtEnd(d, text, start, end) ==
    {k \in DOMAIN d.newlines : IsSuffix(d.newlines[k], SubSeq(text, start + 1, end))}

(* Mutant: of the newlines the last one that fits is taken. *)
StripShortest(d, text, start, end) ==
    LET found == NewlinesAtEnd(d, text, start, end)
    IN  IF found = {} THEN end ELSE end - Len(d.newlines[Max(found)])

(* Where a line ends: the first newline that the range ends with is taken  *)
(* off, in quotes or not.                                                  *)
LineEnd(d, text, start, end) ==
    LET found == NewlinesAtEnd(d, text, start, end)
    IN  IF found = {} THEN end ELSE end - Len(d.newlines[Min(found)])

PlannedLine(d, text, range) ==
    SubSeq(text, range[1] + 1, LineEnd(d, text, range[1], range[2]))

(* What a worker makes of a range. *)
ParsedLine(d, text, range) == Shift(ReadLine(d, PlannedLine(d, text, range)), range[1])

(* A worker takes any row that is planned. *)
ParseLine(i) ==
    /\ parser = "parallel" /\ answer = "none"
    /\ i \in DOMAIN ranges \ DOMAIN parsed
    /\ parsed' = [k \in DOMAIN parsed \cup {i} |->
                     IF k = i THEN ParsedLine(dialect, input, ranges[i]) ELSE parsed[k]]
    /\ UNCHANGED <<call, pos, ranges, boundaries, violation, answer>>

(* Mutant: the violations do not come back from the pool. *)
CollectedNone == NoViolation

(* The violation of the first malformed row, whichever worker was first. *)
CollectedViolation == RowsViolation([k \in DOMAIN ranges |-> parsed[k]])

Collect ==
    /\ parser = "parallel" /\ answer = "none"
    /\ ranges # <<>> /\ DOMAIN parsed = DOMAIN ranges
    /\ Answer([k \in DOMAIN ranges |-> parsed[k].bounds], CollectedViolation)
    /\ UNCHANGED <<call, pos, ranges, parsed>>

(* An answer is final; every other state has a successor. *)
Answered == answer # "none" /\ UNCHANGED batch

BatchNext ==
    \/ NextRow \/ CursorAtEnd
    \/ PlanRows \/ Collect
    \/ \E i \in DOMAIN ranges : ParseLine(i)
    \/ Answered

BatchSpec == BatchInit /\ [][BatchNext]_batch

-----------------------------------------------------------------------------
(* Properties. *)

Values == [k \in DOMAIN boundaries |-> [j \in DOMAIN boundaries[k] |->
              FieldValue(dialect, input, boundaries[k][j])]]

(* All strategies return the same rows: docs/ARCHITECTURE.md:34. *)
StrategiesAgree == answer = "rows" => Values = BatchValues(dialect, input)

(* The text ends inside quotes. *)
EndsInQuotes ==
    \E k \in DOMAIN BatchRows(dialect, input) : BatchRows(dialect, input)[k].open

(* The pattern q, i bytes into the pattern p, agrees with p as far as both *)
(* go.                                                                     *)
Overlaps(p, q, i) == \A j \in DOMAIN q : i + j <= Len(p) => p[i + j] = q[j]

(* A dialect in which the search for row starts, which knows no separator, *)
(* and the stripping of newlines from the end of a range find what the     *)
(* cursor finds: no newline begins in an escape or a separator, and no     *)
(* escape begins inside a newline or a separator.                          *)
Apart(d) ==
    LET Inside(p, q, low) == \E i \in low..Len(p) - 1 : Overlaps(p, q, i)
    IN  /\ \A k \in DOMAIN d.newlines : /\ ~Inside(d.escape, d.newlines[k], 0)
                                       /\ ~Inside(d.newlines[k], d.escape, 1)
        /\ \A m \in DOMAIN d.separators :
              /\ \A k \in DOMAIN d.newlines : ~Inside(d.separators[m], d.newlines[k], 0)
              /\ ~Inside(d.separators[m], d.escape, 1)

(* They do, and report the same violation, unless the input is empty or    *)
(* ends inside quotes: there the parallel parser has a row of one empty    *)
(* field, and takes a newline off the open field.                          *)
StrategiesAgreeOnTerminated ==
    answer # "none" /\ input # <<>> /\ ~EndsInQuotes =>
        /\ Values = BatchValues(dialect, input)
        /\ violation = BatchViolation(dialect, input)

(* Whatever they return, all strategies refuse the same inputs to a strict *)
(* caller: those in which some row is malformed.                           *)
StrategiesRefuseAlike ==
    answer # "none" =>
        (answer = "malformed_csv" <=>
            strict /\ BatchViolation(dialect, input) # NoViolation)
=============================================================================
