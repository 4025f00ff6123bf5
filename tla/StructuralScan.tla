--------------------------- MODULE StructuralScan ---------------------------
(***************************************************************************)
(* The structural scanner of core/simd_scanner.rs: one pass over a whole   *)
(* input that finds its unquoted separators and row ends and its first     *)
(* quoting violation.  Full chunks are scanned with bit masks, what is     *)
(* left byte by byte.  Each chunk and each step of the tail is an action.  *)
(*                                                                         *)
(* A mask is the set of the bits that are set.  Positions count from zero, *)
(* as in the code; the byte at position n is input[n + 1].                 *)
(***************************************************************************)
EXTENDS CsvText

CONSTANTS Texts,    \* the inputs
          Chunk,    \* CHUNK: 16, 32 or 64 bytes, chosen when the crate is built
          MaxInputSize  \* MAX_INPUT_SIZE, the largest value of a u32

ASSUME ScanAssumption ==
    /\ Texts \subseteq Seq(Byte)
    /\ Chunk \in 1..64
    /\ MaxInputSize \in Nat

VARIABLES input,
          phase,       \* "chunks", "tail", then "scanned"; or "too_large"
          pos,
          in_quotes,   \* quote_carry of the chunks, in_quotes of the tail
          prev_opens_field, prev_closed_field,           \* QuoteCarry
          field_seps, row_ends, violation                \* StructuralIndex
carry == <<in_quotes, prev_opens_field, prev_closed_field>>
index == <<field_seps, row_ends, violation>>
scanVars == <<input, phase, pos, carry, index>>

(* A position as the index stores it. *)
AsU32(n) == n % (MaxInputSize + 1)

-----------------------------------------------------------------------------
(* Masks. *)

Lanes == 0..Chunk - 1

(* The lanes of the chunk at hand that hold one of bytes. *)
Lookup(bytes) == {b \in Lanes : input[pos + b + 1] \in bytes}

(* mask << n on 64 bits, and the exclusive or of two masks. *)
ShiftLeft(mask, n) == {b + n : b \in mask} \cap 0..63
Xor(m1, m2) == (m1 \ m2) \cup (m2 \ m1)

(* x ^= x << n *)
Fold(mask, n) == Xor(mask, ShiftLeft(mask, n))

(* Mutant: the cascade stops at windows of two lanes. *)
PrefixXorShort(mask) == Fold(mask, 1)

(* prefix_xor: bit i becomes the parity of the bits 0..i of mask.  Each    *)
(* step doubles the window of lanes whose parity a bit is.                 *)
PrefixXor(mask) ==
    LET m2  == Fold(mask, 1)
        m4  == Fold(m2, 2)
        m8  == Fold(m4, 4)
        m16 == Fold(m8, 8)
        m32 == Fold(m16, 16)
    IN  Fold(m32, 32)

(* mask shifted up by one lane; what falls in is what the chunk before left. *)
AfterOne(mask, carried) ==
    (ShiftLeft(mask, 1) \cup (IF carried THEN {0} ELSE {})) \cap Lanes

(* extract_positions: the lowest bit, then the lowest of those left. *)
Positions(mask) == [k \in 1..Cardinality(mask) |-> pos + Nth(mask, k)]

(* Mutant: a row ends at its line feed, whatever stands before it. *)
RowEndAtLf(at) == [pos |-> AsU32(at), len |-> 1]

(* The row end with its line feed at a position. *)
RowEndAt(at) ==
    IF at > 0 /\ input[at] = CR
    THEN [pos |-> AsU32(at - 1), len |-> 2]
    ELSE [pos |-> AsU32(at), len |-> 1]

-----------------------------------------------------------------------------

(* InputTooLarge::check. *)
TooLarge == Len(input) > MaxInputSize

Init ==
    /\ input \in Texts
    /\ phase = IF TooLarge THEN "too_large" ELSE "chunks"
    /\ pos = 0
    /\ in_quotes = FALSE /\ prev_opens_field = TRUE /\ prev_closed_field = FALSE
    /\ field_seps = <<>> /\ row_ends = <<>> /\ violation = NoViolation

(* The byte after the chunk. *)
NextIsLf == pos + Chunk < Len(input) /\ input[pos + Chunk + 1] = LF

(* check_quoting and record_violation: the first bad lane is a quote that  *)
(* opens in the middle of a field, or a byte that follows a closing one.   *)
CheckQuoting(esc, quoted, sep, lf, cr) ==
    LET opens_field  == sep \cup lf \cup esc
        closes_field == opens_field \cup
                        (cr \cap ({b - 1 : b \in lf} \cup
                                  (IF NextIsLf THEN {Chunk - 1} ELSE {})))
        bad_open  == (esc \cap quoted) \ AfterOne(opens_field, prev_opens_field)
        bad_after == AfterOne(esc \ quoted, prev_closed_field) \ closes_field
        bad       == bad_open \cup bad_after
    IN  /\ violation' =
              IF bad = {} THEN violation
              ELSE FirstOf(violation,
                           [kind |-> IF Min(bad) \in esc THEN "unexpected_quote"
                                                         ELSE "trailing_garbage",
                            pos  |-> pos + Min(bad)])
        /\ prev_opens_field' = (Chunk - 1 \in opens_field)
        /\ prev_closed_field' = (Chunk - 1 \in esc \ quoted)

ScanChunk ==
    /\ phase = "chunks" /\ pos + Chunk <= Len(input)
    /\ LET esc    == Lookup({Escape})
           sep    == Lookup(Separators)
           lf     == Lookup({LF})
           parity == PrefixXor(esc) \cap Lanes
           quoted == IF in_quotes THEN Lanes \ parity ELSE parity
           seps   == Positions(sep \ quoted)
           lfs    == Positions(lf \ quoted)
       IN  /\ CheckQuoting(esc, quoted, sep, lf, Lookup({CR}))
           /\ in_quotes' = (in_quotes # (Cardinality(esc) % 2 = 1))
           /\ field_seps' = field_seps \o [k \in DOMAIN seps |-> AsU32(seps[k])]
           /\ row_ends' = row_ends \o [k \in DOMAIN lfs |-> RowEndAt(lfs[k])]
    /\ pos' = pos + Chunk
    /\ UNCHANGED <<input, phase>>

-----------------------------------------------------------------------------
(* The tail. *)

Here == input[pos + 1]

OpensFieldBefore(at) ==
    at > 0 => input[at] \in Separators \cup {LF, Escape}

ClosesFieldAt(at) ==
    at < Len(input) =>
        IF input[at + 1] = CR
        THEN at + 1 < Len(input) /\ input[at + 2] = LF
        ELSE input[at + 1] \in Separators \cup {LF, Escape}

(* The violation after a quote has closed a field before position at. *)
ClosedBefore(at) ==
    IF ClosesFieldAt(at) THEN violation
    ELSE FirstOf(violation, [kind |-> "trailing_garbage", pos |-> at])

(* Mutant: the last byte of the last chunk is not looked at again. *)
NotAtBoundary == FALSE

(* A quote in the last byte of the last chunk closed a field. *)
ClosedAtBoundary == pos > 0 /\ input[pos] = Escape /\ ~in_quotes

StartTail ==
    /\ phase = "chunks" /\ pos + Chunk > Len(input)
    /\ phase' = "tail"
    /\ violation' = IF ClosedAtBoundary THEN ClosedBefore(pos) ELSE violation
    /\ UNCHANGED <<input, pos, carry, field_seps, row_ends>>

InTail == phase = "tail" /\ pos < Len(input)

(* Mutant: the end of the input is read as a second escape. *)
DoubledAtEnd == pos + 1 = Len(input) \/ input[pos + 2] = Escape

(* An escape is the first of a pair. *)
Doubled == pos + 1 < Len(input) /\ input[pos + 2] = Escape

TailQuotedByte ==
    /\ InTail /\ in_quotes /\ Here # Escape
    /\ pos' = pos + 1
    /\ UNCHANGED <<input, phase, carry, index>>

TailDoubledEscape ==
    /\ InTail /\ in_quotes /\ Here = Escape /\ Doubled
    /\ pos' = pos + 2
    /\ UNCHANGED <<input, phase, carry, index>>

TailClosingEscape ==
    /\ InTail /\ in_quotes /\ Here = Escape /\ ~Doubled
    /\ in_quotes' = FALSE
    /\ violation' = ClosedBefore(pos + 1)
    /\ pos' = pos + 1
    /\ UNCHANGED <<input, phase, prev_opens_field, prev_closed_field,
                   field_seps, row_ends>>

TailOpeningEscape ==
    /\ InTail /\ ~in_quotes /\ Here = Escape
    /\ in_quotes' = TRUE
    /\ violation' = IF OpensFieldBefore(pos) THEN violation
                    ELSE FirstOf(violation,
                                 [kind |-> "unexpected_quote", pos |-> pos])
    /\ pos' = pos + 1
    /\ UNCHANGED <<input, phase, prev_opens_field, prev_closed_field,
                   field_seps, row_ends>>

TailLineFeed ==
    /\ InTail /\ ~in_quotes /\ Here = LF
    /\ row_ends' = Append(row_ends, RowEndAt(pos))
    /\ pos' = pos + 1
    /\ UNCHANGED <<input, phase, carry, field_seps, violation>>

TailSeparator ==
    /\ InTail /\ ~in_quotes /\ Here \in Separators
    /\ field_seps' = Append(field_seps, AsU32(pos))
    /\ pos' = pos + 1
    /\ UNCHANGED <<input, phase, carry, row_ends, violation>>

TailData ==
    /\ InTail /\ ~in_quotes /\ Here \notin Separators \cup {Escape, LF}
    /\ pos' = pos + 1
    /\ UNCHANGED <<input, phase, carry, index>>

EndTail ==
    /\ phase = "tail" /\ pos >= Len(input)
    /\ phase' = "scanned"
    /\ violation' = IF in_quotes
                    THEN FirstOf(violation,
                                 [kind |-> "unterminated_quote", pos |-> Len(input)])
                    ELSE violation
    /\ UNCHANGED <<input, pos, carry, field_seps, row_ends>>

ScanTail ==
    \/ TailQuotedByte \/ TailDoubledEscape \/ TailClosingEscape
    \/ TailOpeningEscape \/ TailLineFeed \/ TailSeparator \/ TailData

Scan == ScanChunk \/ StartTail \/ ScanTail \/ EndTail

(* A scan that has ended stays so; that no other state has no successor is *)
(* what a check for deadlocks then says.                                   *)
Scanned == phase \in {"scanned", "too_large"} /\ UNCHANGED scanVars

Next == Scan \/ Scanned

Spec == Init /\ [][Next]_scanVars

-----------------------------------------------------------------------------
(* Properties. *)

(* Every variable keeps its type, and the scan never runs past the input. *)
TypeOK ==
    /\ input \in Seq(Byte)
    /\ phase \in {"chunks", "tail", "scanned", "too_large"}
    /\ pos \in 0..Len(input)
    /\ in_quotes \in BOOLEAN
    /\ prev_opens_field \in BOOLEAN /\ prev_closed_field \in BOOLEAN
    /\ field_seps \in Seq(0..MaxInputSize)
    /\ row_ends \in Seq([pos : 0..MaxInputSize, len : 1..2])
    /\ violation \in Violation

(* What a chunk inherits from the chunks before it, three bits, is all     *)
(* that the bytes before it say about quotes: wherever the boundaries of   *)
(* the chunks fall, in a doubled escape or right after a closing quote.    *)
CarryIsContext ==
    /\ in_quotes = Quoted(input, pos + 1)
    /\ phase = "chunks" =>
          /\ prev_opens_field = OpensFieldBefore(pos)
          /\ prev_closed_field = (pos > 0 /\ input[pos] = Escape /\ ~in_quotes)

(* The index holds, in order, the unquoted separators and the row ends of  *)
(* the part scanned, a CRLF as one row end also when a chunk boundary      *)
(* parts it; no position is lost, repeated or wrapped.                     *)
IndexIsStructure ==
    LET seps == InOrder({i \in 1..pos : input[i] \in Separators /\ ~Quoted(input, i)})
        lfs  == InOrder(EndsUpTo(input, pos))
    IN  /\ field_seps = [k \in DOMAIN seps |-> seps[k] - 1]
        /\ Len(row_ends) = Len(lfs)
        /\ \A k \in DOMAIN lfs :
              /\ row_ends[k].pos + row_ends[k].len = lfs[k]
              /\ row_ends[k].len = 2 <=> lfs[k] > 1 /\ input[lfs[k] - 1] = CR

(* When the scan ends, the violation is the first of the text: the bit     *)
(* masks, the look back at the boundary and the tail report the same rule  *)
(* and the same byte as a reading of the whole text.                       *)
ScanFindsFirstViolation ==
    phase = "scanned" => violation = FirstViolation(input, TRUE)
=============================================================================
