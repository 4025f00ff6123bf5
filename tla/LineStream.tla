----------------------------- MODULE LineStream -----------------------------
(***************************************************************************)
(* to_line_stream/1 and chunk_by_newline of lib/rusty_csv.ex: elements of  *)
(* any size become lines, each with its newline, by searching the bytes    *)
(* read and not yet cut for a newline in the encoding of the source.       *)
(* chunk_by_newline makes the list of lines of an element at once and      *)
(* Stream.concat hands them out one by one; here a line is cut when it is  *)
(* handed out.                                                             *)
(***************************************************************************)
EXTENDS Integers, Sequences, FiniteSets, FiniteSetsExt

(* A newline stands at position i of s. *)
StandsAt(newline, s, i) ==
    i + Len(newline) - 1 <= Len(s) /\ SubSeq(s, i, i + Len(newline) - 1) = newline

(* Where :binary.match finds a newline. *)
NewlineStarts(newlines, s) ==
    {i \in DOMAIN s : \E newline \in newlines : StandsAt(newline, s, i)}

(* The longest of those that match there is taken. *)
MatchEnd(newlines, s, i) ==
    Max({i + Len(newline) - 1 : newline \in {n \in newlines : StandsAt(n, s, i)}})

HasLine(newlines, s) == NewlineStarts(newlines, s) # {}

(* Mutant: a newline is taken for one unit. *)
LineLengthOneUnit(newlines, s) == Min(NewlineStarts(newlines, s))

(* The first line, with its newline. *)
LineLength(newlines, s) == MatchEnd(newlines, s, Min(NewlineStarts(newlines, s)))
=============================================================================
