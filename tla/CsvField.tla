------------------------------ MODULE CsvField ------------------------------
(***************************************************************************)
(* The alphabet of a CSV text and the decoding of one field (core/field.rs *)
(* and is_separator of core/scanner.rs).  A byte is a member of Byte; the  *)
(* dialect is the set of separator bytes and the escape byte.  LF and CR   *)
(* are the line feed and the carriage return, the bytes the parsers of the *)
(* default newlines know by themselves.                                    *)
(***************************************************************************)
EXTENDS Integers, Sequences, SequencesExt

CONSTANTS Byte,        \* the bytes that occur in a text
          Separators,  \* the separator bytes of the dialect
          Escape,      \* its escape byte
          LF,          \* line feed
          CR           \* carriage return

ASSUME ByteAssumption ==
    /\ Separators \subseteq Byte
    /\ {Escape, LF, CR} \subseteq Byte
    /\ LF # CR

IsSeparator(byte) == byte \in Separators

(***************************************************************************)
(* What a byte is to a parser outside quotes: the parsers look for the     *)
(* escape first, then for a separator, a line feed, a carriage return.     *)
(***************************************************************************)
ByteClass(byte) ==
    CASE byte = Escape                                          -> "escape"
      [] byte # Escape /\ IsSeparator(byte)                     -> "separator"
      [] byte = LF /\ byte # Escape /\ ~IsSeparator(byte)       -> "lf"
      [] byte = CR /\ byte # Escape /\ ~IsSeparator(byte)       -> "cr"
      [] byte \notin {Escape, LF, CR} /\ ~IsSeparator(byte)     -> "data"

(***************************************************************************)
(* The inner content of a quoted field with every doubled escape read as   *)
(* one.  The loop reads left to right; st.skip says that the byte it is at *)
(* is the second of a pair already read.                                   *)
(***************************************************************************)
UnescapeField(inner) ==
    LET Read(st, i) ==
            IF st.skip
            THEN [st EXCEPT !.skip = FALSE]
            ELSE [out  |-> Append(st.out, inner[i]),
                  skip |-> /\ i < Len(inner)
                           /\ inner[i] = Escape
                           /\ inner[i + 1] = Escape]
    IN  FoldLeftDomain(Read, [out |-> <<>>, skip |-> FALSE], inner).out

(* The value of the field that stands as raw in the text. *)
ExtractField(raw) ==
    IF Len(raw) >= 2 /\ raw[1] = Escape /\ raw[Len(raw)] = Escape
    THEN UnescapeField(SubSeq(raw, 2, Len(raw) - 1))
    ELSE raw
=============================================================================
