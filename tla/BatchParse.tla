----------------------------- MODULE BatchParse -----------------------------
(***************************************************************************)
(* A batch parse of a whole input with default newlines and single-byte    *)
(* separators and escape: the structural scan, then the fields of its rows *)
(* cut out of the index, one row after another (strategy/zero_copy.rs) or  *)
(* by the workers of a thread pool (strategy/parallel.rs), and the reply   *)
(* of the NIF.  Rust callers have a third way, which makes an index of     *)
(* their own out of the structural one (strategy/two_phase.rs).            *)
(*                                                                         *)
(* The bounds of a field are <<start, end>>: its bytes are start to end - 1. *)
(***************************************************************************)
EXTENDS StructuralScan

VARIABLES strategy,    \* "cursor", "parallel", or "indexed"
          strict,      \* a lenient caller ignores violations
          row_idx, row_pos, sep_cursor,     \* RowFieldIter, or RowIter and the walk
          ranges,      \* row_ranges of the parallel parser
          extracted,   \* the rows its workers have done, by their place
          rows,        \* the bounds of the rows, in order
          reply        \* what the NIF answers
cursor == <<row_idx, row_pos, sep_cursor>>
batchVars == <<strategy, strict, cursor, ranges, extracted, rows, reply>>
vars == <<scanVars, batchVars>>

BatchInit ==
    /\ Init
    /\ strategy \in {"cursor", "parallel", "indexed"} /\ strict \in BOOLEAN
    /\ strategy = "indexed" => ~strict
    /\ row_idx = 0 /\ row_pos = 0 /\ sep_cursor = 0
    /\ ranges = <<>> /\ extracted = <<>> /\ rows = <<>>
    /\ reply = "none"

-----------------------------------------------------------------------------
(* The iterators over the index. *)

Parsing == phase = "scanned" /\ reply = "none"

(* Mutant: text after the last row end is no row. *)
MoreRowEnds == row_idx < Len(row_ends)

MoreRows == row_idx < Len(row_ends) \/ row_pos < AsU32(Len(input))

(* RowIter::next: the end of the row at row_pos, and where the next starts. *)
ContentEnd ==
    IF row_idx < Len(row_ends) THEN row_ends[row_idx + 1].pos
                               ELSE AsU32(Len(input))

NextStart ==
    IF row_idx < Len(row_ends)
    THEN AsU32(ContentEnd + row_ends[row_idx + 1].len)
    ELSE ContentEnd

(* Mutant: a row is what a row end ends. *)
RowCountOfEnds == Len(row_ends)

(* row_count: how many rows the iterators promise at their start, and what *)
(* the vectors of rows and ranges are allocated for.                       *)
RowCount ==
    IF row_ends = <<>>
    THEN IF AsU32(Len(input)) > 0 THEN 1 ELSE 0
    ELSE LET end == Last(row_ends)
         IN  IF end.pos + end.len < AsU32(Len(input)) THEN Len(row_ends) + 1
                                                      ELSE Len(row_ends)

(* partition_point of the separators before a position; they are sorted.   *)
SepsBefore(at) == Cardinality({k \in DOMAIN field_seps : field_seps[k] < at})

(* fields_in_row: the separators of a row, found by binary search.         *)
SepsInRow(start, end) == SubSeq(field_seps, SepsBefore(start) + 1, SepsBefore(end))

(* The walk over field_seps, up to the end of the row. *)
SepsOfRow ==
    Min({c \in sep_cursor..Len(field_seps) :
            c = Len(field_seps) \/ field_seps[c + 1] >= ContentEnd})

Advance ==
    /\ row_idx' = row_idx + 1
    /\ row_pos' = NextStart
    /\ sep_cursor' = SepsOfRow

(* FieldIter, and the loop of a worker: the fields between the separators. *)
FieldBounds(start, end, seps) ==
    LET starts == <<start>> \o [k \in DOMAIN seps |-> seps[k] + 1]
        ends   == Append(seps, end)
    IN  [k \in DOMAIN starts |-> <<starts[k], ends[k]>>]

(* What scanned_rows makes of the rows and the violation that came back. *)
Answer(bounds, found) ==
    /\ rows' = bounds
    /\ reply' = IF strict /\ found # NoViolation THEN "malformed_csv" ELSE "rows"

-----------------------------------------------------------------------------
(* One row after another: boundaries_of, and structural_to_csv_index. *)

AppendRow ==
    /\ rows' = Append(rows, FieldBounds(row_pos, ContentEnd,
                                        SubSeq(field_seps, sep_cursor + 1, SepsOfRow)))
    /\ Advance
    /\ UNCHANGED <<scanVars, strategy, strict, ranges, extracted, reply>>

NextRow == Parsing /\ strategy = "cursor" /\ MoreRows /\ AppendRow

IndexRow == Parsing /\ strategy = "indexed" /\ MoreRows /\ AppendRow

EndOfRows ==
    /\ Parsing /\ strategy = "cursor" /\ ~MoreRows
    /\ Answer(rows, violation)
    /\ UNCHANGED <<scanVars, strategy, strict, cursor, ranges, extracted>>

(* The index of the Rust callers drops a last row of nothing but an empty  *)
(* field at the end of the input.                                          *)
WithoutEmptyTail(bounds) ==
    IF bounds # <<>> /\ Last(bounds) = <<<<Len(input), Len(input)>>>>
    THEN Front(bounds)
    ELSE bounds

(* The rows are extracted out of that index; nobody asks for a violation.  *)
EndOfIndex ==
    /\ Parsing /\ strategy = "indexed" /\ ~MoreRows
    /\ Answer(WithoutEmptyTail(rows), NoViolation)
    /\ UNCHANGED <<scanVars, strategy, strict, cursor, ranges, extracted>>

-----------------------------------------------------------------------------
(* In parallel. *)

(* Mutant: a range begins with the first separator of the input. *)
SepsFromStart == 0

(* Where the separators of the row begin. *)
SepsFrom == sep_cursor

(* The walk that maps each row to its part of field_seps. *)
PlanRow ==
    /\ Parsing /\ strategy = "parallel" /\ MoreRows
    /\ ranges' = Append(ranges, [start |-> row_pos, end |-> ContentEnd,
                                 lo |-> SepsFrom, hi |-> SepsOfRow])
    /\ Advance
    /\ UNCHANGED <<scanVars, strategy, strict, extracted, rows, reply>>

(* No row at all: the early return answers for a well-formed input. *)
PlanIsEmpty ==
    /\ Parsing /\ strategy = "parallel" /\ ~MoreRows /\ ranges = <<>>
    /\ Answer(<<>>, NoViolation)
    /\ UNCHANGED <<scanVars, strategy, strict, cursor, ranges, extracted>>

(* A worker takes any row that is planned. *)
Extract(i) ==
    /\ Parsing /\ strategy = "parallel" /\ ~MoreRows
    /\ i \in DOMAIN ranges \ DOMAIN extracted
    /\ LET r == ranges[i]
       IN  extracted' = [j \in DOMAIN extracted \cup {i} |->
                            IF j = i
                            THEN FieldBounds(r.start, r.end, SubSeq(field_seps, r.lo + 1, r.hi))
                            ELSE extracted[j]]
    /\ UNCHANGED <<scanVars, strategy, strict, cursor, ranges, rows, reply>>

(* Mutant: the violation does not come back from the pool. *)
CollectWellFormed ==
    /\ Parsing /\ strategy = "parallel" /\ ~MoreRows
    /\ ranges # <<>> /\ DOMAIN extracted = DOMAIN ranges
    /\ Answer([i \in DOMAIN ranges |-> extracted[i]], NoViolation)
    /\ UNCHANGED <<scanVars, strategy, strict, cursor, ranges, extracted>>

(* collect puts the rows in their places. *)
Collect ==
    /\ Parsing /\ strategy = "parallel" /\ ~MoreRows
    /\ ranges # <<>> /\ DOMAIN extracted = DOMAIN ranges
    /\ Answer([i \in DOMAIN ranges |-> extracted[i]], violation)
    /\ UNCHANGED <<scanVars, strategy, strict, cursor, ranges, extracted>>

Refuse ==
    /\ phase = "too_large" /\ reply = "none"
    /\ reply' = "input_too_large"
    /\ UNCHANGED <<scanVars, strategy, strict, cursor, ranges, extracted, rows>>

(* An answer is final; every other state has a successor. *)
Answered == reply # "none" /\ UNCHANGED vars

BatchNext ==
    \/ Scan /\ UNCHANGED batchVars
    \/ NextRow \/ EndOfRows
    \/ IndexRow \/ EndOfIndex
    \/ PlanRow \/ PlanIsEmpty \/ Collect
    \/ \E i \in DOMAIN ranges : Extract(i)
    \/ Refuse
    \/ Answered

BatchSpec == BatchInit /\ [][BatchNext]_vars

-----------------------------------------------------------------------------
(* Properties. *)

(* field_to_term_hybrid: the value of the field within bounds. *)
FieldValue(b) ==
    IF b[1] >= b[2] THEN <<>> ELSE ExtractField(SubSeq(input, b[1] + 1, b[2]))

(* All strategies return the rows of the text, whatever its chunks and    *)
(* whichever worker is first, well formed or not; so they agree with each  *)
(* other and with the streaming parser, which CsvText describes as well.   *)
ReturnsRowsOfText ==
    reply = "rows" =>
        LET lines == AllLines(input)
        IN  /\ Len(rows) = Len(lines)
            /\ \A k \in DOMAIN lines :
                  [j \in DOMAIN rows[k] |-> FieldValue(rows[k][j])] = FieldsOf(lines[k])

(* What is said of an index in different ways is the same: its iterators   *)
(* yield as many rows as row_count promises them (ExactSizeIterator), no   *)
(* more and no fewer are ever left, and the separators a cursor walks      *)
(* over in a row are those that a binary search finds in it.               *)
IteratorsAgree ==
    Parsing =>
        /\ MoreRows <=> row_idx < RowCount
        /\ MoreRows => SubSeq(field_seps, sep_cursor + 1, SepsOfRow)
                          = SepsInRow(row_pos, ContentEnd)

(* A strict caller gets an error exactly for a malformed text, also from   *)
(* the early return; a text the index cannot hold is refused, not wrapped. *)
RefusesForAReason ==
    reply # "none" =>
        /\ reply = "input_too_large" <=> Len(input) > MaxInputSize
        /\ reply = "malformed_csv" <=>
              /\ Len(input) <= MaxInputSize /\ strict
              /\ FirstViolation(input, TRUE) # NoViolation

(* No worker and no iterator cuts outside the input or backwards: what     *)
(* make_subbinary asserts in debug builds and slices rely on.              *)
BoundsInside ==
    LET Inside(fields) ==
            \A k \in DOMAIN fields :
                0 <= fields[k][1] /\ fields[k][1] <= fields[k][2]
                                  /\ fields[k][2] <= Len(input)
    IN  /\ \A k \in DOMAIN rows : Inside(rows[k])
        /\ \A i \in DOMAIN extracted : Inside(extracted[i])
=============================================================================
