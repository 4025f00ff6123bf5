----------------------------- MODULE MCCsvEncode -----------------------------
(***************************************************************************)
(* Model values for CsvEncode: each way of encoding with the options it    *)
(* serves.  In LongPatterns only the first byte of a pattern starts one,   *)
(* so that the end of a field and what follows it make no pattern.         *)
(***************************************************************************)
EXTENDS CsvEncode

CONSTANTS sep, quote, lf, cr, equals, wide, number

MCByte == {sep, quote, lf, cr, equals, wide}
MCTermText == [t \in {number} |-> <<sep, equals>>]

With(d, line_separator, rules, encoding) ==
    [separators |-> d.separators, escape |-> d.escape, newlines |-> d.newlines,
     is_default |-> d.is_default, line_separator |-> line_separator,
     reserved |-> DefaultReserved(d, line_separator), rules |-> rules, encoding |-> encoding]

Csv == [separators |-> <<<<sep>>>>, escape |-> <<quote>>,
        newlines |-> <<<<cr, lf>>, <<lf>>>>, is_default |-> TRUE]

LongPatterns == [separators |-> <<<<sep, equals>>>>, escape |-> <<quote, equals>>,
                 newlines |-> <<<<cr, lf>>, <<lf>>>>, is_default |-> TRUE]

(* Lines that end in a character which some encodings lack. *)
WideLines == [Csv EXCEPT !.newlines = <<<<wide>>>>, !.is_default = FALSE]

(* A replacement may hold the escape. *)
MCRules == <<<<<<equals, equals>>, <<wide>>>>, <<<<equals>>, <<quote>>>>>>

Plain      == With(Csv, <<lf>>, <<>>, "utf8")
Formulas   == With(Csv, <<lf>>, MCRules, "utf8")
Converted  == With(Csv, <<cr, lf>>, <<>>, "latin1")
Both       == With(Csv, <<cr, lf>>, MCRules, "latin1")
Long       == With(LongPatterns, <<lf>>, <<>>, "utf8")
LongBoth   == With(LongPatterns, <<cr, lf>>, <<<<<<equals>>, <<quote, equals>>>>>>, "latin1")
Unwritable == With(WideLines, <<wide>>, <<>>, "latin1")

MCOptions == {Plain, Formulas, Converted, Both, Long, LongBoth, Unwritable}

TextsOf(n) == UNION {[1..k -> MCByte] : k \in 0..n}

(* One field of some length, two fields in one row or in two, three rows,  *)
(* and tables and rows that are empty.                                     *)
MCTables ==
    {<<>>, <<<<>>>>, <<<<>>, <<<<quote>>>>, <<number>>>>}
      \cup {<<<<text>>>> : text \in TextsOf(4)}
      \cup {<<<<a, b>>>> : a, b \in TextsOf(1) \cup {number}}
      \cup {<<<<a>>, <<b>>>> : a, b \in TextsOf(1) \cup {number}}
      \cup {<<<<a>>, <<b>>, <<c>>>> : a, b, c \in {<<wide>>, <<lf>>, number}}
=============================================================================
