----------------------------- MODULE OneByteBatch -----------------------------
(***************************************************************************)
(* The general batch parsers in a dialect of single bytes, compared with   *)
(* what a CSV text means to the parsers of single bytes.                   *)
(***************************************************************************)
EXTENDS GeneralBatch

(* With patterns of one byte the general parsers read the rows and find    *)
(* the violation that CsvText defines: they agree with the parsers of      *)
(* strategy/zero_copy.rs and strategy/streaming.rs.                        *)
OneByte ==
    /\ dialect.newlines = <<<<CR, LF>>, <<LF>>>>
    /\ \A pattern \in Range(dialect.separators) \cup {dialect.escape} : Len(pattern) = 1

Plain(Separators, Escape) == INSTANCE CsvText

ReadsCsvText ==
    answer # "none" /\ OneByte /\ (parser = "cursor" \/ (input # <<>> /\ ~EndsInQuotes)) =>
        LET seps  == {pattern[1] : pattern \in Range(dialect.separators)}
            esc   == dialect.escape[1]
            lines == Plain(seps, esc)!AllLines(input)
        IN  /\ Values = [k \in DOMAIN lines |-> Plain(seps, esc)!FieldsOf(lines[k])]
            /\ violation = Plain(seps, esc)!FirstViolation(input, TRUE)
=============================================================================
