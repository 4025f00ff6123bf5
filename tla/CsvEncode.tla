------------------------------ MODULE CsvEncode ------------------------------
(***************************************************************************)
(* The dumping of a table: dump_to_iodata and dump_to_stream of            *)
(* lib/rusty_csv.ex with the NIFs encode_string and encode_string_parallel *)
(* of lib.rs, which quote, escape formulas and convert (strategy/encode.rs *)
(* and strategy/encoding.rs).                                              *)
(*                                                                         *)
(* The options of a parser module are a dialect of GeneralDialect with     *)
(*   line_separator  what ends a dumped row,                               *)
(*   reserved        the patterns for which a field is quoted,             *)
(*   rules           the formula rules, pairs <<trigger, replacement>>,    *)
(*   encoding        "utf8", or another one.                               *)
(*                                                                         *)
(* A field is a text, or a term of another type, which to_string turns     *)
(* into one.  A byte b that is converted to another encoding is the record *)
(* [unit |-> b]: what was not converted, or twice, does not read back.     *)
(***************************************************************************)
EXTENDS GeneralDialect

CONSTANTS Options,     \* the options of parser modules; Dialects holds them
          Terms,       \* fields that are not binaries
          TermText,    \* what to_string makes of them
          Unmappable,  \* bytes that no other encoding than UTF-8 has
          Tables       \* what is dumped: sequences of sequences of fields

Field == Terms \cup Seq(Byte)

ASSUME DumpAssumption ==
    /\ Options \subseteq Dialects
    /\ \A t \in Terms : t \notin Seq(Byte)
    /\ TermText \in [Terms -> Seq(Byte)]
    /\ Unmappable \subseteq Byte
    /\ Tables \subseteq Seq(Seq(Field))

VARIABLES options, table,
          strategy,  \* "serial", "parallel", or "stream": row by row
          rows,      \* the rows of the current NIF call
          phase,     \* "ready" between calls; "called", "encoding" or
                     \* "pool" inside; "returned"
          encoded,   \* the rows encoded so far, by their place
          failed,    \* the rows a worker could not convert
          result,    \* what the call returns
          output,    \* the rows the caller has got
          reply,     \* how the dump ends: "done", "raised" or "badarg"
          calls      \* history: NIF calls with the current rows
dump == <<options, table, strategy>>
vars == <<dump, rows, phase, encoded, failed, result, output, reply, calls>>

Init ==
    /\ options \in Options /\ table \in Tables
    /\ strategy \in {"serial", "parallel", "stream"}
    /\ rows = <<>> /\ phase = "ready"
    /\ encoded = <<>> /\ failed = {}
    /\ result = "none" /\ output = <<>> /\ reply = "none" /\ calls = 0

-----------------------------------------------------------------------------
(* The text of a field, with the options o. *)

(* The patterns reserved unless the option is given. *)
DefaultReserved(d, line_separator) ==
    {d.escape, line_separator} \cup ToSet(d.separators) \cup ToSet(d.newlines)

(* ReservedPatterns: a longer pattern with a reserved byte is redundant. *)
SingleBytes(o) == {p[1] : p \in {q \in o.reserved : Len(q) = 1}}
MultiBytes(o) ==
    {p \in o.reserved : Len(p) > 1 /\ ToSet(p) \cap SingleBytes(o) = {}}

(* Mutant: only single bytes are looked for. *)
NeedsQuotingForByte(o, field) == ToSet(field) \cap SingleBytes(o) # {}

FieldNeedsQuoting(o, field) ==
    \/ ToSet(field) \cap SingleBytes(o) # {}
    \/ \E p \in MultiBytes(o) : \E pos \in 0..Len(field) : StartsWith(field, pos, p)

(* Every escape twice, from left to right. *)
DoubleEscapes(o, field) ==
    LET Write(st, i) ==
            CASE st.skip > 0 -> [st EXCEPT !.skip = @ - 1]
              [] st.skip = 0 /\ StartsWith(field, i - 1, o.escape) ->
                     [out |-> st.out \o o.escape \o o.escape,
                      skip |-> Len(o.escape) - 1]
              [] OTHER -> [st EXCEPT !.out = Append(@, field[i])]
    IN  FoldLeftDomain(Write, [out |-> <<>>, skip |-> 0], field).out

QuotedField(o, field) == o.escape \o DoubleEscapes(o, field) \o o.escape

(* FormulaConfig::check: the first rule whose trigger the field starts with. *)
Triggered(o, field) == {k \in DOMAIN o.rules : IsPrefix(o.rules[k][1], field)}

(* The value that is written: a formula gets the replacement before it. *)
LogicalField(o, field) ==
    IF Triggered(o, field) = {}
    THEN field
    ELSE o.rules[Min(Triggered(o, field))][2] \o field

(* A formula is quoted in any case. *)
FieldText(o, field) ==
    IF Triggered(o, field) # {} \/ FieldNeedsQuoting(o, field)
    THEN QuotedField(o, LogicalField(o, field))
    ELSE field

-----------------------------------------------------------------------------
(* The text of a row, in the encoding of the options. *)

Mappable(o, text) == o.encoding = "utf8" \/ ToSet(text) \cap Unmappable = {}

Convert(o, text) ==
    IF o.encoding = "utf8" THEN text
                           ELSE [i \in DOMAIN text |-> [unit |-> text[i]]]

Separator(o) == o.separators[1]

SeparatorsMappable(o) == Mappable(o, Separator(o)) /\ Mappable(o, o.line_separator)

RowText(o, row) ==
    FlattenSeq([i \in DOMAIN row |->
        IF i = 1 THEN Convert(o, FieldText(o, row[i]))
                 ELSE Convert(o, Separator(o)) \o Convert(o, FieldText(o, row[i]))])
      \o Convert(o, o.line_separator)

NotBinary(row) == {i \in DOMAIN row : row[i] \in Terms}

(* Mutant: a field is looked at before it is quoted. *)
FieldsMappable(o, row) == \A i \in DOMAIN row : Mappable(o, row[i])

RowMappable(o, row) == \A i \in DOMAIN row : Mappable(o, FieldText(o, row[i]))

(* What stops the walk over a row, whichever field has it first. *)
RowFault(o, row) ==
    LET bad == {i \in DOMAIN row : row[i] \in Terms \/ ~Mappable(o, FieldText(o, row[i]))}
    IN  IF bad = {}                    THEN "none"
        ELSE IF row[Min(bad)] \in Terms THEN "non_binary_field"
        ELSE                                 "encoding_error"

-----------------------------------------------------------------------------
(* encode_string. *)

Return(r) == phase' = "returned" /\ result' = r

(* The separators are converted first. *)
BeginRows ==
    /\ phase = "called" /\ strategy # "parallel"
    /\ IF SeparatorsMappable(options)
       THEN phase' = "encoding" /\ UNCHANGED result
       ELSE Return("encoding_error")
    /\ UNCHANGED <<dump, rows, encoded, failed, output, reply, calls>>

EncodeRow ==
    /\ phase = "encoding" /\ Len(encoded) < Len(rows)
    /\ LET row == rows[Len(encoded) + 1]
       IN  IF RowFault(options, row) = "none"
           THEN /\ encoded' = Append(encoded, RowText(options, row))
                /\ UNCHANGED <<phase, result>>
           ELSE Return(RowFault(options, row)) /\ UNCHANGED encoded
    /\ UNCHANGED <<dump, rows, failed, output, reply, calls>>

EndOfRows ==
    /\ phase = "encoding" /\ Len(encoded) = Len(rows)
    /\ Return("rows")
    /\ UNCHANGED <<dump, rows, encoded, failed, output, reply, calls>>

-----------------------------------------------------------------------------
(* encode_string_parallel. *)

SingleByteDialect(o) ==
    Len(o.escape) = 1 /\ \A p \in ToSet(o.separators) : Len(p) = 1

(* Phase 1, and what precedes it: all fields are copied before any is encoded. *)
CollectFields ==
    /\ phase = "called" /\ strategy = "parallel"
    /\ IF ~SingleByteDialect(options)                   THEN Return("badarg")
       ELSE IF \E i \in DOMAIN rows : NotBinary(rows[i]) # {}
                                                        THEN Return("non_binary_field")
       ELSE IF rows = <<>>                              THEN Return("rows")
       ELSE IF ~SeparatorsMappable(options)             THEN Return("encoding_error")
       ELSE phase' = "pool" /\ UNCHANGED result
    /\ UNCHANGED <<dump, rows, encoded, failed, output, reply, calls>>

(* A worker takes any row. *)
EncodeInPool(i) ==
    /\ phase = "pool" /\ i \in DOMAIN rows \ (DOMAIN encoded \cup failed)
    /\ IF RowMappable(options, rows[i])
       THEN /\ encoded' = [k \in DOMAIN encoded \cup {i} |->
                              IF k = i THEN RowText(options, rows[i]) ELSE encoded[k]]
            /\ UNCHANGED failed
       ELSE failed' = failed \cup {i} /\ UNCHANGED encoded
    /\ UNCHANGED <<dump, rows, phase, result, output, reply, calls>>

(* collect stops at an error, whether or not the other rows are done. *)
JoinPool ==
    /\ phase = "pool" /\ (failed # {} \/ DOMAIN encoded = DOMAIN rows)
    /\ Return(IF failed # {} THEN "encoding_error" ELSE "rows")
    /\ UNCHANGED <<dump, rows, encoded, failed, output, reply, calls>>

-----------------------------------------------------------------------------
(* dump_to_iodata, dump_to_stream. *)

CallNif ==
    /\ phase = "ready" /\ reply = "none"
    /\ strategy = "stream" => Len(output) < Len(table)
    /\ rows' = IF strategy = "stream" THEN <<table[Len(output) + 1]>> ELSE table
    /\ phase' = "called" /\ encoded' = <<>> /\ calls' = 1
    /\ UNCHANGED <<dump, failed, result, output, reply>>

(* Mutant: the fields of the first row only. *)
CoerceFirst ==
    [i \in DOMAIN rows |-> [j \in DOMAIN rows[i] |->
        IF i = 1 /\ rows[i][j] \in Terms THEN TermText[rows[i][j]] ELSE rows[i][j]]]

CoerceFields ==
    [i \in DOMAIN rows |-> [j \in DOMAIN rows[i] |->
        IF rows[i][j] \in Terms THEN TermText[rows[i][j]] ELSE rows[i][j]]]

(* retry_with_coerced_fields. *)
RetryCoerced ==
    /\ phase = "returned" /\ result = "non_binary_field"
    /\ rows' = CoerceFields
    /\ phase' = "called" /\ result' = "none" /\ encoded' = <<>>
    /\ calls' = calls + 1
    /\ UNCHANGED <<dump, failed, output, reply>>

Raise ==
    /\ phase = "returned" /\ result \in {"encoding_error", "badarg"}
    /\ phase' = "ready"
    /\ reply' = IF result = "badarg" THEN "badarg" ELSE "raised"
    /\ UNCHANGED <<dump, rows, encoded, failed, result, output, calls>>

(* The rows go to the caller; a stream goes on with its next row. *)
Deliver ==
    /\ phase = "returned" /\ result = "rows"
    /\ output' = output \o [i \in 1..Len(rows) |-> encoded[i]]
    /\ phase' = "ready" /\ result' = "none"
    /\ reply' = IF strategy = "stream" THEN "none" ELSE "done"
    /\ UNCHANGED <<dump, rows, encoded, failed, calls>>

EndOfStream ==
    /\ phase = "ready" /\ reply = "none"
    /\ strategy = "stream" /\ Len(output) = Len(table)
    /\ reply' = "done"
    /\ UNCHANGED <<dump, rows, phase, encoded, failed, result, output, calls>>

(* A dump that has ended; every other state has a successor. *)
Dumped == reply # "none" /\ UNCHANGED vars

Next ==
    \/ CallNif \/ RetryCoerced \/ Raise \/ Deliver \/ EndOfStream
    \/ BeginRows \/ EncodeRow \/ EndOfRows
    \/ CollectFields \/ JoinPool
    \/ \E i \in DOMAIN rows : EncodeInPool(i)
    \/ Dumped

Spec == Init /\ [][Next]_vars

-----------------------------------------------------------------------------
(* Properties. *)

Text(field) == IF field \in Terms THEN TermText[field] ELSE field

(* What a row should read back as.  A row without fields is a line without *)
(* bytes, which reads as one empty field.                                  *)
Logical(row) ==
    IF row = <<>> THEN <<<<>>>> ELSE [j \in DOMAIN row |-> LogicalField(options, Text(row[j]))]

(* What an importer makes of bytes in the encoding of the options. *)
Decode(bytes) ==
    IF options.encoding = "utf8" THEN bytes ELSE [i \in DOMAIN bytes |-> bytes[i].unit]

ReadBack == Decode(FlattenSeq(output))

(* The last field of a row is written without quotes, and its last byte and *)
(* the line separator make a newline together: a CR before a line feed.    *)
JoinsNewline(row) ==
    row # <<>> /\ LET text == FieldText(options, Text(Last(row)))
                  IN  /\ text # <<>>
                      /\ MatchNewline(options, <<Last(text)>> \o options.line_separator, 0) > 0
                      /\ MatchNewline(options, <<Last(text)>>, 0) = 0

(* parse -> dump -> parse round-trips: test/property_test.exs:7.           *)
RoundTrips ==
    /\ BatchValues(options, ReadBack) = [k \in DOMAIN output |-> Logical(table[k])]
    /\ BatchViolation(options, ReadBack) = NoViolation

(* What has been dumped, whole or row by row, in turn or by workers in any *)
(* order, parses without violation to the rows of the table in order, with *)
(* the replacements of formulas, unless a row ends in a CR without quotes  *)
(* and the line feed after it makes a newline of both.                     *)
DumpReadsBack ==
    (\A k \in DOMAIN output : ~JoinsNewline(table[k])) => RoundTrips

(* The row has a text in the encoding of the options; the table has. *)
RowFits(o, row) == \A j \in DOMAIN row : Mappable(o, FieldText(o, Text(row[j])))

Fits == SeparatorsMappable(options) /\ \A k \in DOMAIN table : RowFits(options, table[k])

(* A dump raises only if something in the table or between its fields has  *)
(* no place in the encoding, and then it does, whatever the strategy and   *)
(* whichever fields were coerced before.  The parallel encoder refuses     *)
(* long patterns, and it alone never looks at the separators of no rows.   *)
AnswersAgree ==
    /\ reply = "badarg" => strategy = "parallel" /\ ~SingleByteDialect(options)
    /\ reply \in {"done", "raised"} /\ table # <<>> => (reply = "done" <=> Fits)
    /\ reply = "done" => Len(output) = Len(table)

(* Coercion leaves nothing to coerce a second time, with terms in any      *)
(* places: rows are encoded at most twice, and so every dump ends.         *)
RetriesOnce == calls <= 2
=============================================================================
