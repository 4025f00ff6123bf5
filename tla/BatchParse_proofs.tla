------------------------- MODULE BatchParse_proofs --------------------------
(***************************************************************************)
(* The structural scan keeps track of quotes, stores exactly the structure *)
(* of the text in its index, and finds its first violation; the rows that  *)
(* a batch parse returns are the rows of the text, whichever way the index *)
(* is walked and in whatever order the workers finish: for every alphabet, *)
(* dialect, text, and size of the chunks up to 64.                         *)
(***************************************************************************)
EXTENDS BatchParse, CsvText_proofs

Bits == 0..63

(* The bits of mask in the window of w lanes that ends at lane i. *)
Window(mask, i, w) == {j \in mask : i - w < j /\ j <= i}

(* The lanes whose window holds an odd number of the bits of mask. *)
OddWindows(mask, w) == {i \in Bits : Cardinality(Window(mask, i, w)) % 2 = 1}

-----------------------------------------------------------------------------
(* prefix_xor. *)

LEMMA MaskFinite ==
    ASSUME NEW mask \in SUBSET Bits, NEW i \in Int, NEW w \in Int
    PROVE  /\ IsFiniteSet(mask) /\ Cardinality(mask) \in Nat
           /\ IsFiniteSet(Window(mask, i, w)) /\ Cardinality(Window(mask, i, w)) \in Nat
<1>1. IsFiniteSet(Bits)
  <2>1. 0 \in Int /\ 63 \in Int
    OBVIOUS
  <2>2. QED
    BY <2>1, FS_Interval, Zenon DEF Bits
<1>2. Window(mask, i, w) \subseteq Bits
  BY DEF Window
<1>3. QED
  BY <1>1, <1>2, FS_Subset, FS_CardinalityType

(* Two windows side by side hold what they hold together. *)
LEMMA TwoWindows ==
    ASSUME NEW mask \in SUBSET Bits, NEW i \in Int, NEW w \in Nat
    PROVE  Cardinality(Window(mask, i, 2 * w)) =
              Cardinality(Window(mask, i, w)) + Cardinality(Window(mask, i - w, w))
<1>1. \A j \in mask :
         /\ i - 2 * w < j /\ j <= i <=>
               \/ i - w < j /\ j <= i
               \/ (i - w) - w < j /\ j <= i - w
         /\ ~(i - w < j /\ j <= i - w)
  BY DEF Bits
<1>2. Window(mask, i, 2 * w) = Window(mask, i, w) \cup Window(mask, i - w, w)
  BY <1>1, Zenon DEF Window
<1>3. Window(mask, i, w) \cap Window(mask, i - w, w) = {}
  BY <1>1, Zenon DEF Window
<1>4. Cardinality(Window(mask, i, w) \cap Window(mask, i - w, w)) = 0
  BY <1>3, FS_EmptySet, Zenon
<1>5. i - w \in Int
  OBVIOUS
<1>6. /\ IsFiniteSet(Window(mask, i, w)) /\ IsFiniteSet(Window(mask, i - w, w))
      /\ Cardinality(Window(mask, i, w)) \in Nat
      /\ Cardinality(Window(mask, i - w, w)) \in Nat
  BY <1>5, MaskFinite
<1>7. Cardinality(Window(mask, i, 2 * w)) =
         Cardinality(Window(mask, i, w)) + Cardinality(Window(mask, i - w, w)) - 0
  BY <1>2, <1>4, <1>6, FS_Union, Zenon
<1>8. QED
  BY <1>6, <1>7

(* One step of the cascade doubles the windows. *)
LEMMA FoldDoubles ==
    ASSUME NEW mask \in SUBSET Bits, NEW w \in Nat \ {0}
    PROVE  Fold(OddWindows(mask, w), w) = OddWindows(mask, 2 * w)
<1>1. ASSUME NEW i \in Bits
      PROVE  i \in Fold(OddWindows(mask, w), w) <=> i \in OddWindows(mask, 2 * w)
  <2>1. i \in ShiftLeft(OddWindows(mask, w), w) <=> i - w \in OddWindows(mask, w)
    BY <1>1 DEF ShiftLeft, OddWindows, Bits
  <2>2. i \in Fold(OddWindows(mask, w), w) <=>
           ((i \in OddWindows(mask, w)) # (i - w \in OddWindows(mask, w)))
    BY <2>1 DEF Fold, Xor
  <2>3. i - w \in OddWindows(mask, w) <=>
           Cardinality(Window(mask, i - w, w)) % 2 = 1
    <3>1. CASE i - w \in Bits
      BY <3>1 DEF OddWindows
    <3>2. CASE i - w \notin Bits
      <4>1. \A j \in mask : ~(j <= i - w)
        BY <1>1, <3>2 DEF Bits
      <4>2. Window(mask, i - w, w) = {}
        BY <4>1, Zenon DEF Window
      <4>3. Cardinality(Window(mask, i - w, w)) = 0
        BY <4>2, FS_EmptySet, Zenon
      <4>4. QED
        BY <3>2, <4>3 DEF OddWindows
    <3>3. QED
      BY <3>1, <3>2
  <2>4. i \in OddWindows(mask, w) <=> Cardinality(Window(mask, i, w)) % 2 = 1
    BY <1>1 DEF OddWindows
  <2>5. i \in OddWindows(mask, 2 * w) <=> Cardinality(Window(mask, i, 2 * w)) % 2 = 1
    BY <1>1 DEF OddWindows
  <2>6. /\ Cardinality(Window(mask, i, w)) \in Nat
        /\ Cardinality(Window(mask, i - w, w)) \in Nat
    BY <1>1, MaskFinite DEF Bits
  <2>7. Cardinality(Window(mask, i, 2 * w)) =
           Cardinality(Window(mask, i, w)) + Cardinality(Window(mask, i - w, w))
    BY <1>1, TwoWindows DEF Bits
  <2>8. QED
    BY <2>2, <2>3, <2>4, <2>5, <2>6, <2>7
<1>2. OddWindows(mask, 2 * w) \subseteq Bits /\ Fold(OddWindows(mask, w), w) \subseteq Bits
  BY DEF OddWindows, Fold, Xor, ShiftLeft, Bits
<1>3. QED
  BY <1>1, <1>2

LEMMA MaskIsOddWindows ==
    ASSUME NEW mask \in SUBSET Bits
    PROVE  OddWindows(mask, 1) = mask
<1>1. ASSUME NEW i \in Bits
      PROVE  i \in OddWindows(mask, 1) <=> i \in mask
  <2>1. CASE i \in mask
    <3>1. \A j \in mask : i - 1 < j /\ j <= i <=> j = i
      BY <1>1 DEF Bits
    <3>2. Window(mask, i, 1) = {i}
      BY <2>1, <3>1, Zenon DEF Window
    <3>3. Cardinality(Window(mask, i, 1)) = 1
      BY <3>2, FS_Singleton, Zenon
    <3>4. QED
      BY <1>1, <2>1, <3>3 DEF OddWindows
  <2>2. CASE i \notin mask
    <3>1. \A j \in mask : ~(i - 1 < j /\ j <= i)
      BY <1>1, <2>2 DEF Bits
    <3>2. Window(mask, i, 1) = {}
      BY <3>1, Zenon DEF Window
    <3>3. Cardinality(Window(mask, i, 1)) = 0
      BY <3>2, FS_EmptySet, Zenon
    <3>4. QED
      BY <2>2, <3>3 DEF OddWindows
  <2>3. QED
    BY <2>1, <2>2
<1>2. QED
  BY <1>1 DEF OddWindows

(* The cascade of prefix_xor computes, for each of the 64 lanes, the       *)
(* parity of the bits of the mask up to that lane.                         *)
THEOREM PrefixXorIsParity ==
    ASSUME NEW mask \in SUBSET Bits
    PROVE  PrefixXor(mask) = {i \in Bits : Cardinality({j \in mask : j <= i}) % 2 = 1}
<1>1. Fold(mask, 1) = OddWindows(mask, 2)
  BY FoldDoubles, MaskIsOddWindows, 2 * 1 = 2
<1>2. Fold(OddWindows(mask, 2), 2) = OddWindows(mask, 4)
  BY FoldDoubles, 2 * 2 = 4
<1>3. Fold(OddWindows(mask, 4), 4) = OddWindows(mask, 8)
  BY FoldDoubles, 2 * 4 = 8
<1>4. Fold(OddWindows(mask, 8), 8) = OddWindows(mask, 16)
  BY FoldDoubles, 2 * 8 = 16
<1>5. Fold(OddWindows(mask, 16), 16) = OddWindows(mask, 32)
  BY FoldDoubles, 2 * 16 = 32
<1>6. Fold(OddWindows(mask, 32), 32) = OddWindows(mask, 64)
  BY FoldDoubles, 2 * 32 = 64
<1>7. PrefixXor(mask) = OddWindows(mask, 64)
  BY <1>1, <1>2, <1>3, <1>4, <1>5, <1>6 DEF PrefixXor
<1>8. \A i \in Bits, j \in mask : i - 64 < j
  BY DEF Bits
<1>9. \A i \in Bits : Window(mask, i, 64) = {j \in mask : j <= i}
  BY <1>8, Zenon DEF Window
<1>10. QED
  BY <1>7, <1>9, Zenon DEF OddWindows

-----------------------------------------------------------------------------
(* A chunk and the text. *)

(* The lanes of a chunk are bytes of the text. *)
LEMMA LaneIsByte ==
    ASSUME input \in Seq(Byte), pos \in Nat, pos + Chunk <= Len(input)
    PROVE  /\ Chunk \in 1..64
           /\ \A b \in Lanes : /\ b \in Bits /\ b \in Int
                               /\ pos + b + 1 \in 1..Len(input)
BY ScanAssumption DEF Lanes, Bits

(* From the first byte of a chunk to one of its lanes, the parity changes  *)
(* as often as the mask of escapes has bits.                               *)
LEMMA ChunkParity ==
    ASSUME input \in Seq(Byte), pos \in Nat, pos + Chunk <= Len(input),
           NEW b \in Lanes
    PROVE  Quoted(input, pos + b + 2) =
              (Quoted(input, pos + 1) #
                 (Cardinality({j \in Lookup({Escape}) : j <= b}) % 2 = 1))
<1> DEFINE E == {j \in Lookup({Escape}) : j <= b}
           T == {(pos + 1) + j : j \in E}
<1>1. /\ Chunk \in 1..64 /\ b \in Int
      /\ \A j \in Lanes : j \in Bits /\ j \in Int
  BY LaneIsByte
<1>2. \A j \in E : j \in Lanes /\ input[pos + j + 1] = Escape /\ j <= b
  BY DEF Lookup
<1>3. E \in SUBSET Int /\ E \in SUBSET Bits
  BY <1>1, <1>2
<1>4. IsFiniteSet(Bits)
  <2>1. 0 \in Int /\ 63 \in Int
    OBVIOUS
  <2>2. QED
    BY <2>1, FS_Interval, Zenon DEF Bits
<1>5. IsFiniteSet(E) /\ Cardinality(E) \in Nat
  BY <1>3, <1>4, FS_Subset, FS_CardinalityType
<1>6. pos + 1 \in Int
  OBVIOUS
<1>7. IsFiniteSet(T) /\ Cardinality(T) = Cardinality(E)
  BY <1>3, <1>5, <1>6, ShiftCardinality
<1>8. Escapes(input, pos + b + 2) = Escapes(input, pos + 1) \cup T
  <2>1. ASSUME NEW i \in Escapes(input, pos + b + 2), i \notin Escapes(input, pos + 1)
        PROVE  i \in T
    <3>1. i \in Int /\ pos + 1 <= i /\ i <= pos + b + 1 /\ input[i] = Escape
      BY <1>1, <2>1 DEF Escapes
    <3>2. i - (pos + 1) \in Lanes /\ i - (pos + 1) <= b
      BY <1>1, <3>1 DEF Lanes
    <3>3. pos + (i - (pos + 1)) + 1 = i /\ (pos + 1) + (i - (pos + 1)) = i
      BY <3>1
    <3>4. i - (pos + 1) \in E
      BY <3>1, <3>2, <3>3 DEF Lookup
    <3>5. QED
      BY <3>3, <3>4
  <2>2. ASSUME NEW i \in Escapes(input, pos + 1)
        PROVE  i \in Escapes(input, pos + b + 2)
    BY <1>1, <2>2 DEF Escapes, Lanes
  <2>3. ASSUME NEW j \in E
        PROVE  (pos + 1) + j \in Escapes(input, pos + b + 2)
    <3>1. j \in Lanes /\ input[pos + j + 1] = Escape /\ j <= b
      BY <1>2
    <3>2. (pos + 1) + j = pos + j + 1 /\ (pos + 1) + j \in 1..(pos + b + 2) - 1
      BY <1>1, <3>1 DEF Lanes
    <3>3. QED
      BY <3>1, <3>2 DEF Escapes
  <2>4. QED
    BY <2>1, <2>2, <2>3, Zenon
<1>9. Escapes(input, pos + 1) \cap T = {}
  <2>1. \A j \in E : (pos + 1) + j \notin 1..(pos + 1) - 1
    BY <1>1, <1>2 DEF Lanes
  <2>2. QED
    BY <2>1, Zenon DEF Escapes
<1>10. Cardinality(Escapes(input, pos + 1) \cap T) = 0
  BY <1>9, FS_EmptySet, Zenon
<1>11. IsFiniteSet(Escapes(input, pos + 1)) /\ Cardinality(Escapes(input, pos + 1)) \in Nat
  BY EscapesFinite
<1> HIDE DEF T, E
<1>12. Cardinality(Escapes(input, pos + b + 2)) =
          Cardinality(Escapes(input, pos + 1)) + Cardinality(E) - 0
  <2>1. Cardinality(Escapes(input, pos + 1) \cup T) =
           Cardinality(Escapes(input, pos + 1)) + Cardinality(T)
              - Cardinality(Escapes(input, pos + 1) \cap T)
    BY <1>7, <1>11, FS_Union, Zenon
  <2>2. QED
    BY <1>7, <1>8, <1>10, <2>1
<1>13. QED
  BY <1>5, <1>11, <1>12 DEF Quoted, E

-----------------------------------------------------------------------------
(* The carry. *)

(* What of the types the carry depends on. *)
CarryTyped ==
    /\ input \in Seq(Byte)
    /\ phase \in {"chunks", "tail", "scanned", "too_large"}
    /\ pos \in 0..Len(input)
    /\ in_quotes \in BOOLEAN
    /\ prev_opens_field \in BOOLEAN /\ prev_closed_field \in BOOLEAN

(* Inductive: what is known of the next chunk follows from the carry and   *)
(* the bytes of this one, and of the tail from its bytes.                  *)
CarryInv == CarryTyped /\ CarryIsContext

LEMMA InitCarry == Init => CarryInv
<1>1. ASSUME Init
      PROVE  CarryInv
  <2>1. input \in Seq(Byte) /\ Len(input) \in Nat
    BY <1>1, ScanAssumption DEF Init
  <2>2. Escapes(input, 0 + 1) = {}
    BY DEF Escapes
  <2>3. Quoted(input, 0 + 1) = FALSE
    BY <2>2, FS_EmptySet DEF Quoted
  <2>4. CarryTyped
    <3>1. pos \in 0..Len(input)
      BY <1>1, <2>1 DEF Init
    <3>2. phase \in {"chunks", "tail", "scanned", "too_large"}
      BY <1>1, Zenon DEF Init
    <3>3. in_quotes = FALSE /\ prev_opens_field = TRUE /\ prev_closed_field = FALSE
      BY <1>1 DEF Init
    <3>4. QED
      BY <2>1, <3>1, <3>2, <3>3, Zenon DEF CarryTyped
  <2>5. CarryIsContext
    <3>1. pos = 0 /\ ~(pos > 0)
      BY <1>1 DEF Init
    <3>2. in_quotes = FALSE /\ prev_opens_field = TRUE /\ prev_closed_field = FALSE
      BY <1>1 DEF Init
    <3>3. OpensFieldBefore(pos) = TRUE
      BY <3>1, Zenon DEF OpensFieldBefore
    <3>4. QED
      BY <2>3, <3>1, <3>2, <3>3, Zenon DEF CarryIsContext
  <2>6. QED
    BY <2>4, <2>5 DEF CarryInv
<1>2. QED
  BY <1>1

LEMMA ChunkCarry ==
    ASSUME CarryInv, ScanChunk
    PROVE  CarryInv'
<1> DEFINE esc    == Lookup({Escape})
           parity == PrefixXor(esc) \cap Lanes
           quoted == IF in_quotes THEN Lanes \ parity ELSE parity
           last   == Chunk - 1
<1>1. /\ input \in Seq(Byte) /\ pos \in Nat /\ pos + Chunk <= Len(input)
      /\ Len(input) \in Nat /\ in_quotes = Quoted(input, pos + 1)
      /\ phase = "chunks"
  BY DEF CarryInv, CarryTyped, CarryIsContext, ScanChunk
<1>2. /\ Chunk \in 1..64
      /\ \A b \in Lanes : b \in Bits /\ b \in Int /\ pos + b + 1 \in 1..Len(input)
  BY <1>1, LaneIsByte
<1>3. last \in Lanes /\ \A b \in Lanes : b <= last
  BY <1>2 DEF Lanes
<1>4. esc \in SUBSET Bits
  BY <1>2 DEF Lookup
<1>5. {j \in esc : j <= last} = esc
  BY <1>3, Zenon DEF Lookup
<1>6. /\ pos + last + 1 = pos + Chunk /\ pos + last + 2 = (pos + Chunk) + 1
      /\ pos + Chunk \in 1..Len(input)
  BY <1>1, <1>2
<1>7. Quoted(input, (pos + Chunk) + 1) = (in_quotes # (Cardinality(esc) % 2 = 1))
  BY <1>1, <1>3, <1>5, <1>6, ChunkParity
<1>8. /\ in_quotes' = (in_quotes # (Cardinality(esc) % 2 = 1))
      /\ pos' = pos + Chunk /\ input' = input /\ phase' = phase
  BY DEF ScanChunk
<1>9. last \in quoted <=> in_quotes'
  <2>1. last \in PrefixXor(esc) <=> Cardinality(esc) % 2 = 1
    BY <1>2, <1>3, <1>4, <1>5, PrefixXorIsParity
  <2>2. QED
    BY <1>1, <1>3, <1>8, <2>1 DEF Quoted
<1>10. /\ prev_opens_field' = (last \in Lookup(Separators) \cup Lookup({LF}) \cup esc)
       /\ prev_closed_field' = (last \in esc \ quoted)
  BY DEF ScanChunk, CheckQuoting
<1>11. /\ last \in esc <=> input[pos + Chunk] = Escape
       /\ last \in Lookup(Separators) \cup Lookup({LF}) \cup esc <=>
             input[pos + Chunk] \in Separators \cup {LF, Escape}
  BY <1>3, <1>6 DEF Lookup
<1>12. CarryTyped'
  <2>1. pos' \in 0..Len(input)
    BY <1>1, <1>6, <1>8
  <2>2. in_quotes' \in BOOLEAN /\ prev_opens_field' \in BOOLEAN
        /\ prev_closed_field' \in BOOLEAN
    <3>1. in_quotes' \in BOOLEAN
      BY <1>8
    <3>2. prev_opens_field' \in BOOLEAN
      BY <1>10
    <3>3. prev_closed_field' \in BOOLEAN
      BY <1>10
    <3>4. QED
      BY <3>1, <3>2, <3>3
  <2>3. QED
    BY <1>1, <1>8, <2>1, <2>2, Zenon DEF CarryTyped
<1>13. in_quotes' = Quoted(input', pos' + 1)
  BY <1>7, <1>8
<1>14. prev_opens_field' = OpensFieldBefore(pos)'
  BY <1>6, <1>8, <1>10, <1>11 DEF OpensFieldBefore
<1>15. prev_closed_field' = (pos' > 0 /\ input'[pos'] = Escape /\ ~in_quotes')
  BY <1>6, <1>8, <1>9, <1>10, <1>11
<1>16. QED
  BY <1>12, <1>13, <1>14, <1>15 DEF CarryInv, CarryIsContext

(* A step of the tail passes one byte, or the two of a doubled escape. *)
LEMMA TailCarry ==
    ASSUME CarryInv, ScanTail
    PROVE  CarryInv'
<1>1. /\ input \in Seq(Byte) /\ pos \in Nat /\ pos + 1 \in 1..Len(input)
      /\ Len(input) \in Nat /\ in_quotes = Quoted(input, pos + 1)
      /\ phase = "tail" /\ in_quotes \in BOOLEAN
      /\ Here = input[pos + 1]
  BY DEF CarryInv, CarryTyped, CarryIsContext, ScanTail, InTail, Here,
         TailQuotedByte, TailDoubledEscape, TailClosingEscape,
         TailOpeningEscape, TailLineFeed, TailSeparator, TailData
<1>2. Quoted(input, pos + 2) =
         IF Here = Escape THEN ~Quoted(input, pos + 1) ELSE Quoted(input, pos + 1)
  BY <1>1, ParityStep, (pos + 1) + 1 = pos + 2
<1>3. /\ input' = input /\ phase' = phase
      /\ prev_opens_field' = prev_opens_field
      /\ prev_closed_field' = prev_closed_field
  BY DEF ScanTail, TailQuotedByte, TailDoubledEscape, TailClosingEscape,
         TailOpeningEscape, TailLineFeed, TailSeparator, TailData, carry
<1>4. ASSUME pos' = pos + 1, in_quotes' = Quoted(input, pos + 2)
      PROVE  CarryInv'
  <2>1. pos' \in 0..Len(input') /\ in_quotes' \in BOOLEAN
    BY <1>1, <1>3, <1>4 DEF Quoted
  <2>2. CarryTyped'
    BY <1>1, <1>3, <2>1 DEF CarryInv, CarryTyped
  <2>3. in_quotes' = Quoted(input', pos' + 1)
    BY <1>1, <1>3, <1>4, (pos + 1) + 1 = pos + 2
  <2>4. QED
    BY <1>1, <1>3, <2>2, <2>3 DEF CarryInv, CarryIsContext
<1>5. CASE TailQuotedByte
  BY <1>1, <1>2, <1>4, <1>5 DEF TailQuotedByte, carry
<1>6. CASE TailDoubledEscape
  <2>1. /\ in_quotes /\ Here = Escape /\ pos + 2 \in 1..Len(input)
        /\ input[pos + 2] = Escape /\ pos' = pos + 2 /\ in_quotes' = in_quotes
    <3>1. /\ in_quotes /\ Here = Escape /\ pos + 1 < Len(input)
          /\ input[pos + 2] = Escape /\ pos' = pos + 2
      BY <1>6, Zenon DEF TailDoubledEscape, Doubled
    <3>2. in_quotes' = in_quotes
      BY <1>6, Zenon DEF TailDoubledEscape, carry
    <3>3. pos + 2 \in 1..Len(input)
      BY <1>1, <3>1
    <3>4. QED
      BY <3>1, <3>2, <3>3, Zenon
  <2>2. Quoted(input, pos + 3) = ~Quoted(input, pos + 2)
    BY <1>1, <2>1, ParityStep, (pos + 2) + 1 = pos + 3
  <2>3. in_quotes' = Quoted(input', pos' + 1)
    BY <1>1, <1>2, <1>3, <2>1, <2>2, (pos + 2) + 1 = pos + 3
  <2>4. CarryTyped'
    BY <1>1, <1>3, <2>1 DEF CarryInv, CarryTyped
  <2>5. QED
    BY <1>1, <1>3, <2>3, <2>4 DEF CarryInv, CarryIsContext
<1>7. CASE TailClosingEscape
  BY <1>1, <1>2, <1>4, <1>7 DEF TailClosingEscape
<1>8. CASE TailOpeningEscape
  BY <1>1, <1>2, <1>4, <1>8 DEF TailOpeningEscape
<1>9. CASE TailLineFeed
  BY <1>1, <1>2, <1>4, <1>9, DialectAssumption DEF TailLineFeed, carry
<1>10. CASE TailSeparator
  BY <1>1, <1>2, <1>4, <1>10, DialectAssumption DEF TailSeparator, carry
<1>11. CASE TailData
  BY <1>1, <1>2, <1>4, <1>11 DEF TailData, carry
<1>12. QED
  BY <1>5, <1>6, <1>7, <1>8, <1>9, <1>10, <1>11 DEF ScanTail

LEMMA NextCarry ==
    ASSUME CarryInv, [Next]_scanVars
    PROVE  CarryInv'
<1>1. CASE ScanChunk
  BY <1>1, ChunkCarry
<1>2. CASE ScanTail
  BY <1>2, TailCarry
<1>3. CASE StartTail
  BY <1>3 DEF StartTail, carry, CarryInv, CarryTyped, CarryIsContext
<1>4. CASE EndTail
  BY <1>4 DEF EndTail, carry, CarryInv, CarryTyped, CarryIsContext
<1>5. CASE UNCHANGED scanVars
  BY <1>5 DEF scanVars, carry, CarryInv, CarryTyped, CarryIsContext, OpensFieldBefore
<1>6. QED
  BY <1>1, <1>2, <1>3, <1>4, <1>5 DEF Next, Scan, Scanned

(* Between two steps the carry is exactly what the bytes scanned so far    *)
(* say about quotes: the size of the chunks, and where their boundaries    *)
(* fall, can make no difference to what the scanner knows.                 *)
THEOREM CarryCorrect == Spec => []CarryIsContext
<1>1. Init => CarryInv
  BY InitCarry
<1>2. CarryInv /\ [Next]_scanVars => CarryInv'
  BY NextCarry
<1>3. CarryInv => CarryIsContext
  BY DEF CarryInv
<1>4. QED
  BY <1>1, <1>2, <1>3, PTL DEF Spec

-----------------------------------------------------------------------------
(* The first violation. *)

(* What the scan of the first p bytes has seen is BadUpTo(input, p).  The    *)
(* tail looks at the byte after a closing escape when it is at the escape.  *)
SeenInTail(s, p) == {i \in BadBytes(s) : i <= p \/ (i = p + 1 /\ s[i] # Escape)}

-----------------------------------------------------------------------------
(* A chunk. *)

EscapeLanes == Lookup({Escape})

(* The lanes after whose byte the text is quoted. *)
QuotedLanes ==
    IF in_quotes THEN Lanes \ (PrefixXor(EscapeLanes) \cap Lanes)
                 ELSE PrefixXor(EscapeLanes) \cap Lanes

OpeningLanes == Lookup(Separators) \cup Lookup({LF}) \cup EscapeLanes

ClosingLanes ==
    OpeningLanes \cup
    (Lookup({CR}) \cap ({b - 1 : b \in Lookup({LF})} \cup
                        (IF NextIsLf THEN {Chunk - 1} ELSE {})))

BadOpen == (EscapeLanes \cap QuotedLanes) \ AfterOne(OpeningLanes, prev_opens_field)

BadAfter == AfterOne(EscapeLanes \ QuotedLanes, prev_closed_field) \ ClosingLanes

LEMMA LaneIsQuoted ==
    ASSUME CarryInv, pos + Chunk <= Len(input), NEW b \in Lanes
    PROVE  b \in QuotedLanes <=> Quoted(input, pos + b + 2)
<1>1. /\ input \in Seq(Byte) /\ pos \in Nat /\ in_quotes = Quoted(input, pos + 1)
  BY DEF CarryInv, CarryTyped, CarryIsContext
<1>2. /\ \A j \in Lanes : j \in Bits
  BY <1>1, LaneIsByte
<1>3. EscapeLanes \in SUBSET Bits /\ b \in Bits
  BY <1>2 DEF EscapeLanes, Lookup
<1>4. b \in PrefixXor(EscapeLanes) <=>
          Cardinality({j \in EscapeLanes : j <= b}) % 2 = 1
  BY <1>3, PrefixXorIsParity
<1>5. Quoted(input, pos + b + 2) =
         (in_quotes # (Cardinality({j \in EscapeLanes : j <= b}) % 2 = 1))
  BY <1>1, ChunkParity DEF EscapeLanes
<1>6. in_quotes \in BOOLEAN
  BY DEF CarryInv, CarryTyped
<1>7. QED
  BY <1>4, <1>5, <1>6 DEF QuotedLanes

LEMMA AfterOneLane ==
    ASSUME Chunk \in 1..64, NEW M \in SUBSET Lanes, NEW c \in BOOLEAN, NEW b \in Lanes
    PROVE  b \in AfterOne(M, c) <=> IF b = 0 THEN c ELSE b - 1 \in M
<1>1. \A j \in M : j \in Int /\ j >= 0
  BY DEF Lanes
<1>2. b \in Int /\ b >= 0 /\ b <= 63
  BY DEF Lanes
<1>3. CASE b = 0
  <2>1. \A j \in M : j + 1 # b
    BY <1>1, <1>3
  <2>2. b \notin ShiftLeft(M, 1)
    BY <2>1 DEF ShiftLeft
  <2>3. QED
    BY <1>3, <2>2 DEF AfterOne
<1>4. CASE b # 0
  <2>1. b \in ShiftLeft(M, 1) <=> b - 1 \in M
    BY <1>1, <1>2 DEF ShiftLeft
  <2>2. QED
    BY <1>4, <2>1 DEF AfterOne
<1>5. QED
  BY <1>3, <1>4

(* What is known of the byte of a lane and of the one before it. *)
LEMMA LaneContext ==
    ASSUME CarryInv, phase = "chunks", pos + Chunk <= Len(input), NEW b \in Lanes,
           NEW i, i = pos + b + 1
    PROVE  /\ i \in 1..Len(input) /\ b \in Int
           /\ b \in EscapeLanes <=> input[i] = Escape
           /\ b \in QuotedLanes <=> Quoted(input, i + 1)
           /\ Quoted(input, i + 1) =
                 IF input[i] = Escape THEN ~Quoted(input, i) ELSE Quoted(input, i)
           /\ b \in AfterOne(OpeningLanes, prev_opens_field) <=>
                 (i > 1 => input[i - 1] \in Separators \cup {LF, Escape})
           /\ b \in AfterOne(EscapeLanes \ QuotedLanes, prev_closed_field) <=>
                 i > 1 /\ input[i - 1] = Escape /\ ~Quoted(input, i)
<1>1. /\ input \in Seq(Byte) /\ pos \in Nat /\ Len(input) \in Nat
      /\ in_quotes = Quoted(input, pos + 1)
      /\ prev_opens_field \in BOOLEAN /\ prev_closed_field \in BOOLEAN
  BY DEF CarryInv, CarryTyped, CarryIsContext
<1>2. /\ prev_opens_field = OpensFieldBefore(pos)
      /\ prev_closed_field = (pos > 0 /\ input[pos] = Escape /\ ~in_quotes)
  BY DEF CarryInv, CarryIsContext
<1>3. Chunk \in 1..64 /\ i \in 1..Len(input) /\ b \in Int /\ b >= 0
  BY <1>1, LaneIsByte DEF Lanes
<1>4. b \in EscapeLanes <=> input[i] = Escape
  BY DEF EscapeLanes, Lookup
<1>5. b \in QuotedLanes <=> Quoted(input, i + 1)
  BY <1>1, <1>3, LaneIsQuoted, i + 1 = pos + b + 2
<1>6. Quoted(input, i + 1) =
         IF input[i] = Escape THEN ~Quoted(input, i) ELSE Quoted(input, i)
  BY <1>1, <1>3, ParityStep
<1>7. OpeningLanes \in SUBSET Lanes /\ EscapeLanes \ QuotedLanes \in SUBSET Lanes
  BY DEF OpeningLanes, EscapeLanes, Lookup
<1>8. CASE b = 0
  <2>1. i = pos + 1 /\ i - 1 = pos /\ (i > 1 <=> pos > 0)
    BY <1>1, <1>8
  <2>2. b \in AfterOne(OpeningLanes, prev_opens_field) <=> prev_opens_field
    BY <1>1, <1>3, <1>7, <1>8, AfterOneLane
  <2>3. b \in AfterOne(EscapeLanes \ QuotedLanes, prev_closed_field) <=> prev_closed_field
    BY <1>1, <1>3, <1>7, <1>8, AfterOneLane
  <2>4. prev_opens_field <=> (i > 1 => input[i - 1] \in Separators \cup {LF, Escape})
    BY <1>2, <2>1 DEF OpensFieldBefore
  <2>5. prev_closed_field <=> i > 1 /\ input[i - 1] = Escape /\ ~Quoted(input, i)
    BY <1>1, <1>2, <2>1
  <2>6. QED
    BY <1>3, <1>4, <1>5, <1>6, <2>2, <2>3, <2>4, <2>5
<1>9. CASE b # 0
  <2>1. b - 1 \in Lanes /\ i > 1 /\ i - 1 = pos + (b - 1) + 1 /\ i = pos + (b - 1) + 2
    BY <1>1, <1>3, <1>9 DEF Lanes
  <2>2. b \in AfterOne(OpeningLanes, prev_opens_field) <=> b - 1 \in OpeningLanes
    BY <1>1, <1>3, <1>7, <1>9, AfterOneLane
  <2>3. b \in AfterOne(EscapeLanes \ QuotedLanes, prev_closed_field) <=>
           b - 1 \in EscapeLanes \ QuotedLanes
    BY <1>1, <1>3, <1>7, <1>9, AfterOneLane
  <2>4. b - 1 \in OpeningLanes <=> input[i - 1] \in Separators \cup {LF, Escape}
    BY <2>1 DEF OpeningLanes, EscapeLanes, Lookup
  <2>5. b - 1 \in EscapeLanes <=> input[i - 1] = Escape
    BY <2>1 DEF EscapeLanes, Lookup
  <2>6. b - 1 \in QuotedLanes <=> Quoted(input, i)
    BY <2>1, LaneIsQuoted
  <2>7. QED
    BY <1>3, <1>4, <1>5, <1>6, <2>1, <2>2, <2>3, <2>4, <2>5, <2>6
<1>10. QED
  BY <1>8, <1>9

(* The byte of a lane lets a field close before it. *)
LEMMA LaneCloses ==
    ASSUME CarryInv, pos + Chunk <= Len(input), NEW b \in Lanes,
           NEW i, i = pos + b + 1
    PROVE  b \in ClosingLanes <=>
              \/ input[i] \in Separators \cup {LF, Escape}
              \/ input[i] = CR /\ i < Len(input) /\ input[i + 1] = LF
<1>1. /\ input \in Seq(Byte) /\ pos \in Nat /\ Len(input) \in Nat
  BY DEF CarryInv, CarryTyped
<1>2. Chunk \in 1..64 /\ i \in 1..Len(input) /\ b \in 0..Chunk - 1 /\ Chunk \in Int
  <2>1. Chunk \in 1..64 /\ pos + b + 1 \in 1..Len(input)
    BY <1>1, LaneIsByte
  <2>2. QED
    BY <2>1 DEF Lanes
<1>3. b \in OpeningLanes <=> input[i] \in Separators \cup {LF, Escape}
  BY DEF OpeningLanes, EscapeLanes, Lookup
<1>4. b \in Lookup({CR}) <=> input[i] = CR
  BY DEF Lookup
<1>5. (b \in {j - 1 : j \in Lookup({LF})} \/ b \in (IF NextIsLf THEN {Chunk - 1} ELSE {}))
         <=> i < Len(input) /\ input[i + 1] = LF
  <2>1. CASE b = Chunk - 1
    <3>1. \A j \in Lookup({LF}) : j - 1 # b
      BY <1>2, <2>1 DEF Lookup, Lanes
    <3>2. i + 1 = pos + Chunk + 1 /\ (i < Len(input) <=> pos + Chunk < Len(input))
      BY <1>1, <1>2, <2>1
    <3>3. NextIsLf <=> i < Len(input) /\ input[i + 1] = LF
      BY <3>2 DEF NextIsLf
    <3>4. QED
      BY <2>1, <3>1, <3>3
  <2>2. CASE b # Chunk - 1
    <3>1. b + 1 \in Lanes /\ i + 1 = pos + (b + 1) + 1 /\ i < Len(input)
      BY <1>1, <1>2, <2>2 DEF Lanes
    <3>2. b + 1 \in Lookup({LF}) <=> input[i + 1] = LF
      BY <3>1 DEF Lookup
    <3>3. \A j \in Lookup({LF}) : j - 1 = b <=> j = b + 1
      BY <1>2 DEF Lookup, Lanes
    <3>4. b \in {j - 1 : j \in Lookup({LF})} <=> b + 1 \in Lookup({LF})
      BY <1>2, <3>3
    <3>5. QED
      BY <2>2, <3>1, <3>2, <3>4
  <2>3. QED
    BY <2>1, <2>2
<1>6. QED
  BY <1>3, <1>4, <1>5, Zenon DEF ClosingLanes

(* The bad lanes of a chunk are its bad bytes. *)
LEMMA BadLanes ==
    ASSUME CarryInv, phase = "chunks", pos + Chunk <= Len(input), NEW b \in Lanes
    PROVE  /\ b \in BadOpen <=> pos + b + 1 \in UnexpectedQuotes(input)
           /\ b \in BadAfter <=> pos + b + 1 \in TrailingGarbage(input, TRUE)
<1> PICK i : i = pos + b + 1
  OBVIOUS
<1>1. /\ i \in 1..Len(input)
      /\ b \in EscapeLanes <=> input[i] = Escape
      /\ b \in QuotedLanes <=> Quoted(input, i + 1)
      /\ Quoted(input, i + 1) =
            IF input[i] = Escape THEN ~Quoted(input, i) ELSE Quoted(input, i)
      /\ b \in AfterOne(OpeningLanes, prev_opens_field) <=>
            (i > 1 => input[i - 1] \in Separators \cup {LF, Escape})
      /\ b \in AfterOne(EscapeLanes \ QuotedLanes, prev_closed_field) <=>
            i > 1 /\ input[i - 1] = Escape /\ ~Quoted(input, i)
  BY LaneContext
<1>2. b \in ClosingLanes <=>
         \/ input[i] \in Separators \cup {LF, Escape}
         \/ input[i] = CR /\ i < Len(input) /\ input[i + 1] = LF
  BY LaneCloses
<1>3. Escape # CR /\ CR \notin Separators /\ CR # LF
  BY DialectAssumption, ByteAssumption
<1>4. Len(input) \in Nat /\ (i \in 2..Len(input) <=> i > 1)
  BY <1>1 DEF CarryInv, CarryTyped
<1>5. i < Len(input) <=> i # Len(input)
  BY <1>1, <1>4
<1>6. b \in BadOpen <=> i \in UnexpectedQuotes(input)
  BY <1>1, <1>4 DEF BadOpen, UnexpectedQuotes
<1>7. b \in BadAfter <=> i \in TrailingGarbage(input, TRUE)
  BY <1>1, <1>2, <1>3, <1>4, <1>5 DEF BadAfter, TrailingGarbage
<1>8. QED
  BY <1>6, <1>7

LEMMA ChunkViolation ==
    ASSUME CarryInv, ScanChunk,
           IsFirstIn(input, violation, BadUpTo(input, pos))
    PROVE  IsFirstIn(input, violation', BadUpTo(input, pos + Chunk))
<1> DEFINE bad == BadOpen \cup BadAfter
           K == {pos + b + 1 : b \in bad}
<1>1. /\ input \in Seq(Byte) /\ pos \in Nat /\ Len(input) \in Nat
      /\ phase = "chunks" /\ pos + Chunk <= Len(input)
  BY DEF CarryInv, CarryTyped, ScanChunk
<1>2. Chunk \in 1..64 /\ \A b \in Lanes : b \in Int /\ b >= 0 /\ b < Chunk
  BY ScanAssumption DEF Lanes
<1>3. bad \in SUBSET Lanes /\ bad \in SUBSET Int /\ IsFiniteSet(bad)
  <2>1. BadOpen \in SUBSET Lanes
    BY DEF BadOpen, EscapeLanes, Lookup
  <2>2. BadAfter \in SUBSET Lanes
    BY DEF BadAfter, AfterOne
  <2>3. IsFiniteSet(Lanes)
    <3>1. 0 \in Int /\ Chunk - 1 \in Int
      BY <1>2
    <3>2. QED
      BY <3>1, FS_Interval, Zenon DEF Lanes
  <2>4. QED
    BY <1>2, <2>1, <2>2, <2>3, FS_Subset
<1>4. violation' =
         IF bad = {} THEN violation
         ELSE FirstOf(violation,
                      [kind |-> IF Min(bad) \in EscapeLanes THEN "unexpected_quote"
                                                            ELSE "trailing_garbage",
                       pos  |-> pos + Min(bad)])
  BY DEF ScanChunk, CheckQuoting, BadOpen, BadAfter, EscapeLanes, QuotedLanes,
         OpeningLanes, ClosingLanes
<1>5. \A b \in Lanes : b \in bad <=> pos + b + 1 \in BadBytes(input)
  BY <1>1, BadLanes, Zenon DEF BadBytes
<1>6. BadUpTo(input, pos + Chunk) = BadUpTo(input, pos) \cup K
  <2>1. ASSUME NEW i \in BadBytes(input), i <= pos + Chunk, ~(i <= pos)
        PROVE  i \in K
    <3>1. i \in Int
      BY <1>1, BadBytesInText
    <3>2. i - pos - 1 \in Lanes /\ pos + (i - pos - 1) + 1 = i
      BY <1>1, <1>2, <2>1, <3>1 DEF Lanes
    <3>3. i - pos - 1 \in bad
      BY <1>5, <2>1, <3>2
    <3>4. QED
      BY <3>2, <3>3
  <2>2. ASSUME NEW b \in bad
        PROVE  pos + b + 1 \in BadBytes(input) /\ pos + b + 1 <= pos + Chunk
    BY <1>1, <1>2, <1>3, <1>5, <2>2
  <2>3. ASSUME NEW i \in BadBytes(input), i <= pos
        PROVE  i <= pos + Chunk
    BY <1>1, <1>2, <2>3, BadBytesInText
  <2>4. QED
    BY <2>1, <2>2, <2>3, Zenon DEF BadUpTo
<1>7. BadUpTo(input, pos) \in SUBSET Int
  BY <1>1, BadBytesInText DEF BadUpTo
<1> HIDE DEF bad
<1>8. CASE bad = {}
  <2>1. K = {}
    BY <1>8
  <2>2. QED
    BY <1>4, <1>6, <1>8, <2>1
<1>9. CASE bad # {}
  <2>1. PICK m \in bad : \A b \in bad : m <= b
    BY <1>3, <1>9, LeastOfFinite
  <2>2. Min(bad) = m
    BY <1>3, <2>1, MinIsLeast
  <2>3. m \in Lanes /\ m \in Int
    BY <1>3
  <2>4. pos + m = (pos + m + 1) - 1
    BY <1>1, <2>3
  <2>5. m \in EscapeLanes <=> pos + m + 1 \in UnexpectedQuotes(input)
    <3>1. m \in BadOpen <=> pos + m + 1 \in UnexpectedQuotes(input)
      BY <1>1, <2>3, BadLanes
    <3>2. m \in BadOpen \/ m \in BadAfter
      BY DEF bad
    <3>3. m \in BadOpen => m \in EscapeLanes
      BY DEF BadOpen
    <3>4. m \in BadAfter => m \notin EscapeLanes
      BY DEF BadAfter, ClosingLanes, OpeningLanes
    <3>5. QED
      BY <3>1, <3>2, <3>3, <3>4, Zenon
  <2>6. violation' = FirstOf(violation, ViolationAt(input, pos + m + 1))
    BY <1>4, <1>9, <2>2, <2>4, <2>5 DEF ViolationAt
  <2>7. IsFirstIn(input, ViolationAt(input, pos + m + 1), K)
    <3>1. \A b \in bad : pos + m + 1 <= pos + b + 1
      BY <1>1, <1>3, <2>1
    <3>2. pos + m + 1 \in K /\ \A j \in K : pos + m + 1 <= j
      BY <3>1
    <3>3. QED
      BY <3>2, Zenon DEF IsFirstIn
  <2>8. K \in SUBSET Int /\ \A j \in BadUpTo(input, pos), k \in K : j < k
    <3>1. \A b \in bad : pos + b + 1 \in Int /\ pos + b + 1 > pos
      BY <1>1, <1>2, <1>3
    <3>2. \A k \in K : k \in Int /\ k > pos
      BY <3>1
    <3>3. \A j \in BadUpTo(input, pos) : j <= pos
      BY DEF BadUpTo
    <3> HIDE DEF K
    <3>4. K \in SUBSET Int
      BY <3>2
    <3>5. QED
      BY <1>1, <1>7, <3>2, <3>3, <3>4
  <2> HIDE DEF K
  <2>9. QED
    BY <1>6, <1>7, <2>6, <2>7, <2>8, FirstGrows
<1>10. QED
  BY <1>8, <1>9

-----------------------------------------------------------------------------
(* The tail. *)

(* Right after an escape that closed a field, ClosesFieldAt decides whether *)
(* the byte there is garbage.                                               *)
LEMMA GarbageAfterEscape ==
    ASSUME input \in Seq(Byte), NEW at \in 1..Len(input), input[at] = Escape,
           ~Quoted(input, at + 1)
    PROVE  /\ ClosesFieldAt(at) <=> at + 1 \notin TrailingGarbage(input, TRUE)
           /\ at + 1 \in TrailingGarbage(input, TRUE) =>
                 at + 1 \notin UnexpectedQuotes(input) /\ input[at + 1] # Escape
<1>1. Len(input) \in Nat /\ (at + 1) - 1 = at
  OBVIOUS
<1>2. at + 1 \in 2..Len(input) <=> at < Len(input)
  BY <1>1
<1>3. (at + 1) + 1 = at + 2 /\ (at + 1 = Len(input) \/ at + 1 < Len(input) <=> at < Len(input))
  BY <1>1
<1>4. at + 1 \in TrailingGarbage(input, TRUE) <=>
         /\ at < Len(input)
         /\ input[at + 1] \notin Separators \cup {LF, Escape}
         /\ input[at + 1] = CR => (at + 1 = Len(input) \/ input[at + 2] # LF)
  BY <1>1, <1>2, <1>3 DEF TrailingGarbage
<1>5. ClosesFieldAt(at) <=> at + 1 \notin TrailingGarbage(input, TRUE)
  <2>1. at < Len(input) => (at + 1 < Len(input) <=> at + 1 # Len(input))
    BY <1>1
  <2>2. QED
    BY <1>4, <2>1, ByteRoles DEF ClosesFieldAt
<1>6. at + 1 \in TrailingGarbage(input, TRUE) =>
          at + 1 \notin UnexpectedQuotes(input) /\ input[at + 1] # Escape
  BY <1>4 DEF UnexpectedQuotes
<1>7. QED
  BY <1>5, <1>6

(* What the tail sees anew when it passes byte p + 1. *)
LEMMA SeenStep ==
    ASSUME NEW s \in Seq(Byte), NEW p \in Nat, p + 1 \in 1..Len(s)
    PROVE  /\ SeenInTail(s, p) \in SUBSET Int
           /\ \A i \in SeenInTail(s, p) : i <= p + 1 /\ (i = p + 1 => s[i] # Escape)
           /\ SeenInTail(s, p + 1) =
                 SeenInTail(s, p) \cup {i \in BadBytes(s) : i = p + 1 /\ s[i] = Escape}
                                  \cup {i \in BadBytes(s) : i = p + 2 /\ s[i] # Escape}
<1>1. \A i \in BadBytes(s) : i \in Int
  BY BadBytesInText
<1>2. \A i \in Int : /\ i <= p + 1 <=> i <= p \/ i = p + 1
                     /\ (p + 1) + 1 = p + 2
  OBVIOUS
<1>3. SeenInTail(s, p) \in SUBSET Int
  BY <1>1 DEF SeenInTail
<1>4. \A i \in SeenInTail(s, p) : i <= p + 1 /\ (i = p + 1 => s[i] # Escape)
  <2>1. ~(p + 1 <= p)
    OBVIOUS
  <2>2. QED
    BY <1>1, <1>2, <2>1, Zenon DEF SeenInTail
<1>5. ASSUME NEW i \in BadBytes(s)
      PROVE  i \in SeenInTail(s, p + 1) <=>
                \/ i \in SeenInTail(s, p)
                \/ i = p + 1 /\ s[i] = Escape
                \/ i = p + 2 /\ s[i] # Escape
  BY <1>1, <1>2, <1>5, Zenon DEF SeenInTail
<1>6. QED
  BY <1>3, <1>4, <1>5, Zenon DEF SeenInTail

(* The tail sees nothing new. *)
LEMMA SeenSame ==
    ASSUME NEW s \in Seq(Byte), NEW p \in Nat, p + 1 \in 1..Len(s),
           p + 1 \in BadBytes(s) => s[p + 1] # Escape,
           p + 2 \in BadBytes(s) => s[p + 2] = Escape
    PROVE  SeenInTail(s, p + 1) = SeenInTail(s, p)
<1> DEFINE K == {i \in BadBytes(s) : i = p + 1 /\ s[i] = Escape}
           L == {i \in BadBytes(s) : i = p + 2 /\ s[i] # Escape}
<1>1. SeenInTail(s, p + 1) = SeenInTail(s, p) \cup K \cup L
  BY SeenStep
<1>2. K = {} /\ L = {}
  OBVIOUS
<1>3. QED
  BY <1>1, <1>2

(* It sees one bad byte. *)
LEMMA SeenOne ==
    ASSUME NEW s \in Seq(Byte), NEW p \in Nat, p + 1 \in 1..Len(s), NEW i \in BadBytes(s),
           \/ i = p + 1 /\ s[i] = Escape /\ (p + 2 \in BadBytes(s) => s[p + 2] = Escape)
           \/ i = p + 2 /\ s[i] # Escape /\ (p + 1 \in BadBytes(s) => s[p + 1] # Escape)
    PROVE  SeenInTail(s, p + 1) = SeenInTail(s, p) \cup {i}
<1> DEFINE K == {j \in BadBytes(s) : j = p + 1 /\ s[j] = Escape}
           L == {j \in BadBytes(s) : j = p + 2 /\ s[j] # Escape}
<1>1. SeenInTail(s, p + 1) = SeenInTail(s, p) \cup K \cup L
  BY SeenStep
<1>2. CASE i = p + 1 /\ s[i] = Escape /\ (p + 2 \in BadBytes(s) => s[p + 2] = Escape)
  <2>1. K = {i} /\ L = {}
    BY <1>2
  <2> HIDE DEF K, L
  <2>2. QED
    BY <1>1, <2>1
<1>3. CASE i = p + 2 /\ s[i] # Escape /\ (p + 1 \in BadBytes(s) => s[p + 1] # Escape)
  <2>1. K = {} /\ L = {i}
    BY <1>3
  <2> HIDE DEF K, L
  <2>2. QED
    BY <1>1, <2>1
<1>4. QED
  BY <1>2, <1>3

LEMMA TailViolation ==
    ASSUME CarryInv, ScanTail,
           IsFirstIn(input, violation, SeenInTail(input, pos))
    PROVE  IsFirstIn(input, violation', SeenInTail(input, pos'))
<1>1. /\ input \in Seq(Byte) /\ pos \in Nat /\ pos + 1 \in 1..Len(input)
      /\ Len(input) \in Nat /\ in_quotes = Quoted(input, pos + 1)
      /\ Here = input[pos + 1]
  BY DEF CarryInv, CarryTyped, CarryIsContext, ScanTail, InTail, Here,
         TailQuotedByte, TailDoubledEscape, TailClosingEscape,
         TailOpeningEscape, TailLineFeed, TailSeparator, TailData
<1>2. /\ (pos + 1) + 1 = pos + 2 /\ (pos + 2) - 1 = pos + 1 /\ pos + 2 > 1
      /\ (pos + 1) - 1 = pos /\ pos + 1 \in Nat /\ pos + 1 \in Int /\ pos + 2 \in Int
  BY <1>1
<1>3. Quoted(input, pos + 2) =
         IF Here = Escape THEN ~Quoted(input, pos + 1) ELSE Quoted(input, pos + 1)
  BY <1>1, <1>2, ParityStep
<1>4. \A i : i \in BadBytes(input) => i \in 1..Len(input)
  BY <1>1, BadBytesInText
<1>5. Here # Escape /\ pos + 2 \in BadBytes(input) => input[pos + 2] = Escape
  BY <1>1, <1>2, <1>4, NotBad
<1>6. ASSUME Here # Escape, pos' = pos + 1, violation' = violation
      PROVE  IsFirstIn(input, violation', SeenInTail(input, pos'))
  BY <1>1, <1>5, <1>6, SeenSame
<1>7. CASE TailQuotedByte
  BY <1>6, <1>7 DEF TailQuotedByte, index
<1>8. CASE TailLineFeed
  BY <1>6, <1>8, ByteRoles DEF TailLineFeed
<1>9. CASE TailSeparator
  BY <1>6, <1>9, ByteRoles DEF TailSeparator
<1>10. CASE TailData
  BY <1>6, <1>10 DEF TailData, index
<1>11. CASE TailDoubledEscape
  <2>1. /\ in_quotes /\ Here = Escape /\ pos + 1 < Len(input)
        /\ input[pos + 2] = Escape /\ pos' = pos + 2
    BY <1>11, Zenon DEF TailDoubledEscape, Doubled
  <2>2. violation' = violation
    BY <1>11, Zenon DEF TailDoubledEscape, index
  <2>3. pos + 1 \notin BadBytes(input)
    BY <1>1, <2>1, NotBad
  <2>4. SeenInTail(input, pos + 1) = SeenInTail(input, pos)
    BY <1>1, <2>1, <2>3, SeenSame
  <2>5. (pos + 1) + 1 \in 1..Len(input) /\ (pos + 1) + 2 = pos + 3 /\ pos + 2 \in 1..Len(input)
        /\ (pos + 2) + 1 = pos + 3
    BY <1>1, <2>1
  <2>6. (pos + 1) + 1 \notin BadBytes(input)
    BY <1>1, <1>2, <2>1, <2>5, NotBad
  <2>7. Quoted(input, pos + 3)
    BY <1>1, <1>3, <2>1, <2>5, ParityStep
  <2>8. (pos + 1) + 2 \notin BadBytes(input)
    BY <1>1, <1>4, <2>5, <2>7, NotBad
  <2>9. SeenInTail(input, (pos + 1) + 1) = SeenInTail(input, pos + 1)
    BY <1>1, <1>2, <2>5, <2>6, <2>8, SeenSame
  <2>10. QED
    BY <1>2, <2>1, <2>2, <2>4, <2>9
<1>12. CASE TailOpeningEscape
  <2>1. ~in_quotes /\ Here = Escape /\ pos' = pos + 1
    BY <1>12 DEF TailOpeningEscape
  <2>2. pos + 2 \notin BadBytes(input)
    BY <1>1, <1>3, <1>4, <2>1, NotBad
  <2>3. OpensFieldBefore(pos) <=> pos + 1 \notin BadBytes(input)
    <3>1. pos + 1 \in 2..Len(input) <=> pos > 0
      BY <1>1
    <3>2. pos + 1 \in BadBytes(input) <=> pos + 1 \in UnexpectedQuotes(input)
      BY <1>1, <2>1, NotBad
    <3>3. QED
      BY <1>1, <1>2, <2>1, <3>1, <3>2 DEF OpensFieldBefore, UnexpectedQuotes
  <2>4. CASE OpensFieldBefore(pos)
    <3>1. violation' = violation
      BY <1>12, <2>4 DEF TailOpeningEscape
    <3>2. SeenInTail(input, pos + 1) = SeenInTail(input, pos)
      BY <1>1, <2>2, <2>3, <2>4, SeenSame
    <3>3. QED
      BY <2>1, <3>1, <3>2
  <2>5. CASE ~OpensFieldBefore(pos)
    <3>1. violation' = FirstOf(violation, [kind |-> "unexpected_quote", pos |-> pos])
      BY <1>12, <2>5 DEF TailOpeningEscape
    <3>2. pos + 1 \in UnexpectedQuotes(input)
      BY <1>1, <2>1, <2>3, <2>5, NotBad
    <3>3. violation' = FirstOf(violation, ViolationAt(input, pos + 1))
      BY <1>2, <3>1, <3>2 DEF ViolationAt
    <3>4. SeenInTail(input, pos + 1) = SeenInTail(input, pos) \cup {pos + 1}
      <4>1. pos + 1 \in BadBytes(input) /\ input[pos + 1] = Escape
        BY <1>1, <2>1, <2>3, <2>5
      <4>2. QED
        BY <1>1, <2>2, <4>1, SeenOne
    <3>5. IsFirstIn(input, ViolationAt(input, pos + 1), {pos + 1})
      BY <1>2, FirstOfOne
    <3>6. \A j \in SeenInTail(input, pos), k \in {pos + 1} : j < k
      <4>1. \A j \in SeenInTail(input, pos) : j \in Int /\ j <= pos + 1 /\ j # pos + 1
        BY <1>1, <2>1, SeenStep
      <4>2. QED
        BY <1>1, <4>1
    <3>7. SeenInTail(input, pos) \in SUBSET Int /\ {pos + 1} \in SUBSET Int
      BY <1>1, <1>2, SeenStep
    <3>8. QED
      BY <2>1, <3>3, <3>4, <3>5, <3>6, <3>7, FirstGrows
  <2>6. QED
    BY <2>4, <2>5
<1>13. CASE TailClosingEscape
  <2>1. in_quotes /\ Here = Escape /\ pos' = pos + 1 /\ violation' = ClosedBefore(pos + 1)
    BY <1>13 DEF TailClosingEscape
  <2>2. pos + 1 \notin BadBytes(input)
    BY <1>1, <2>1, NotBad
  <2>3. ~Quoted(input, pos + 2)
    BY <1>1, <1>3, <2>1
  <2>4. /\ ClosesFieldAt(pos + 1) <=> pos + 2 \notin TrailingGarbage(input, TRUE)
        /\ pos + 2 \in TrailingGarbage(input, TRUE) =>
              pos + 2 \notin UnexpectedQuotes(input) /\ input[pos + 2] # Escape
    BY <1>1, <1>2, <2>1, <2>3, GarbageAfterEscape
  <2>5. CASE ClosesFieldAt(pos + 1)
    <3>1. violation' = violation
      BY <2>1, <2>5 DEF ClosedBefore
    <3>2. pos + 2 \in BadBytes(input) => input[pos + 2] = Escape
      BY <1>1, <1>4, <2>4, <2>5, NotBad
    <3>3. SeenInTail(input, pos + 1) = SeenInTail(input, pos)
      BY <1>1, <2>2, <3>2, SeenSame
    <3>4. QED
      BY <2>1, <3>1, <3>3
  <2>6. CASE ~ClosesFieldAt(pos + 1)
    <3>1. violation' = FirstOf(violation, [kind |-> "trailing_garbage", pos |-> pos + 1])
      BY <2>1, <2>6 DEF ClosedBefore
    <3>2. pos + 2 \in BadBytes(input) /\ pos + 2 \notin UnexpectedQuotes(input)
          /\ input[pos + 2] # Escape
      BY <2>4, <2>6 DEF BadBytes
    <3>3. violation' = FirstOf(violation, ViolationAt(input, pos + 2))
      BY <1>2, <3>1, <3>2 DEF ViolationAt
    <3>4. SeenInTail(input, pos + 1) = SeenInTail(input, pos) \cup {pos + 2}
      BY <1>1, <2>2, <3>2, SeenOne
    <3>5. IsFirstIn(input, ViolationAt(input, pos + 2), {pos + 2})
      BY <1>2, FirstOfOne
    <3>6. \A j \in SeenInTail(input, pos), k \in {pos + 2} : j < k
      <4>1. \A j \in SeenInTail(input, pos) : j \in Int /\ j <= pos + 1
        BY <1>1, SeenStep
      <4>2. QED
        BY <1>1, <4>1
    <3>7. SeenInTail(input, pos) \in SUBSET Int /\ {pos + 2} \in SUBSET Int
      BY <1>1, <1>2, SeenStep
    <3>8. QED
      BY <2>1, <3>3, <3>4, <3>5, <3>6, <3>7, FirstGrows
  <2>7. QED
    BY <2>5, <2>6
<1>14. QED
  BY <1>7, <1>8, <1>9, <1>10, <1>11, <1>12, <1>13 DEF ScanTail

-----------------------------------------------------------------------------
(* The index. *)

(* The unquoted separators among the first n bytes. *)
SepsUpTo(s, n) == {i \in 1..n : s[i] \in Separators /\ ~Quoted(s, i)}

(* What the index holds for the byte i, as a separator and as a row end. *)
SepOf == [i \in Int |-> i - 1]

RowEndOf == [i \in Int |-> RowEndAt(i - 1)]

IndexKnown ==
    /\ field_seps = Listed(SepsUpTo(input, pos), SepOf)
    /\ row_ends = Listed(EndsUpTo(input, pos), RowEndOf)

(* Unless the input is refused, its positions fit the index. *)
Fits == IF phase = "too_large" THEN pos = 0 ELSE Len(input) <= MaxInputSize

LEMMA PositionFits ==
    ASSUME NEW n \in 0..MaxInputSize
    PROVE  AsU32(n) = n
BY ScanAssumption DEF AsU32

LEMMA AsU32Type ==
    ASSUME NEW n \in Int
    PROVE  AsU32(n) \in 0..MaxInputSize
BY ScanAssumption DEF AsU32

LEMMA IndexTypes ==
    /\ SepOf \in [Int -> Int]
    /\ RowEndOf \in [Int -> [pos : 0..MaxInputSize, len : 1..2]]
<1>1. SepOf \in [Int -> Int]
  BY DEF SepOf
<1>2. ASSUME NEW i \in Int
      PROVE  RowEndAt(i - 1) \in [pos : 0..MaxInputSize, len : 1..2]
  <2>1. AsU32(i - 1) \in 0..MaxInputSize /\ AsU32((i - 1) - 1) \in 0..MaxInputSize
    BY AsU32Type
  <2>2. QED
    BY <2>1 DEF RowEndAt
<1>3. QED
  BY <1>1, <1>2 DEF RowEndOf

(* The bytes of a role that stand outside quotes among the first n. *)
LEMMA SepsUpToFinite ==
    ASSUME NEW s, NEW n \in Nat
    PROVE  /\ SepsUpTo(s, n) \in SUBSET Int /\ IsFiniteSet(SepsUpTo(s, n))
           /\ \A i \in SepsUpTo(s, n) : i <= n
<1>1. IsFiniteSet(1..n) /\ SepsUpTo(s, n) \in SUBSET (1..n)
  BY FS_Interval DEF SepsUpTo
<1>2. IsFiniteSet(SepsUpTo(s, n))
  BY <1>1, FS_Subset
<1>3. QED
  BY <1>1, <1>2

LEMMA EndsUpToFinite ==
    ASSUME NEW s \in Seq(Byte), NEW n \in Nat
    PROVE  /\ EndsUpTo(s, n) \in SUBSET Int /\ IsFiniteSet(EndsUpTo(s, n))
           /\ \A i \in EndsUpTo(s, n) : i <= n
<1>1. IsFiniteSet(1..n) /\ EndsUpTo(s, n) \in SUBSET (1..n)
  BY FS_Interval DEF EndsUpTo, RowEnds
<1>2. IsFiniteSet(EndsUpTo(s, n))
  BY <1>1, FS_Subset
<1>3. QED
  BY <1>1, <1>2

(* Bytes passed without an entry in the index. *)
LEMMA SepsPassed ==
    ASSUME NEW s \in Seq(Byte), NEW p \in Nat, p + 1 \in 1..Len(s)
    PROVE  SepsUpTo(s, p + 1) =
              IF s[p + 1] \in Separators /\ ~Quoted(s, p + 1)
              THEN SepsUpTo(s, p) \cup {p + 1} ELSE SepsUpTo(s, p)
<1>1. 1..p + 1 = (1..p) \cup {p + 1}
  OBVIOUS
<1>2. QED
  BY <1>1 DEF SepsUpTo

LEMMA EndsPassed ==
    ASSUME NEW s \in Seq(Byte), NEW p \in Nat, p + 1 \in 1..Len(s)
    PROVE  EndsUpTo(s, p + 1) =
              IF s[p + 1] = LF /\ ~Quoted(s, p + 1)
              THEN EndsUpTo(s, p) \cup {p + 1} ELSE EndsUpTo(s, p)
<1>1. \A i \in Int : i <= p + 1 <=> i <= p \/ i = p + 1
  OBVIOUS
<1>2. \A i \in RowEnds(s) : i \in Int
  BY DEF RowEnds
<1>3. p + 1 \in RowEnds(s) <=> s[p + 1] = LF /\ ~Quoted(s, p + 1)
  BY DEF RowEnds
<1>4. QED
  BY <1>1, <1>2, <1>3, Zenon DEF EndsUpTo

LEMMA TailIndex ==
    ASSUME CarryInv, IndexKnown, Fits, ScanTail
    PROVE  IndexKnown' /\ Fits'
<1>1. /\ input \in Seq(Byte) /\ pos \in Nat /\ pos + 1 \in 1..Len(input)
      /\ Len(input) \in Nat /\ in_quotes = Quoted(input, pos + 1)
      /\ Here = input[pos + 1] /\ phase = "tail"
  BY DEF CarryInv, CarryTyped, CarryIsContext, ScanTail, InTail, Here,
         TailQuotedByte, TailDoubledEscape, TailClosingEscape,
         TailOpeningEscape, TailLineFeed, TailSeparator, TailData
<1>2. input' = input /\ phase' = phase
  BY DEF ScanTail, TailQuotedByte, TailDoubledEscape, TailClosingEscape,
         TailOpeningEscape, TailLineFeed, TailSeparator, TailData
<1>3. Len(input) <= MaxInputSize /\ Fits'
  BY <1>1, <1>2 DEF Fits
<1>4. pos \in 0..MaxInputSize /\ pos + 1 \in Int /\ pos + 1 \in Nat /\ (pos + 1) - 1 = pos
  <2>1. MaxInputSize \in Nat
    BY ScanAssumption
  <2>2. QED
    BY <1>1, <1>3, <2>1
<1>5. /\ SepsUpTo(input, pos) \in SUBSET Int /\ IsFiniteSet(SepsUpTo(input, pos))
      /\ \A i \in SepsUpTo(input, pos) : i <= pos
      /\ EndsUpTo(input, pos) \in SUBSET Int /\ IsFiniteSet(EndsUpTo(input, pos))
      /\ \A i \in EndsUpTo(input, pos) : i <= pos
  BY <1>1, SepsUpToFinite, EndsUpToFinite
<1>6. /\ \A i \in SepsUpTo(input, pos) : i < pos + 1
      /\ \A i \in EndsUpTo(input, pos) : i < pos + 1
  BY <1>1, <1>5
<1>7. RowEndOf' = RowEndOf
  BY <1>2 DEF RowEndOf, RowEndAt
<1>8. ASSUME NEW p \in Nat, p + 1 \in 1..Len(input), input[p + 1] = Escape \/ Quoted(input, p + 1)
      PROVE  /\ SepsUpTo(input, p + 1) = SepsUpTo(input, p)
             /\ EndsUpTo(input, p + 1) = EndsUpTo(input, p)
  BY <1>1, <1>8, ByteRoles, SepsPassed, EndsPassed
<1>9. ASSUME pos' = pos + 1, field_seps' = field_seps, row_ends' = row_ends,
             Here \notin Separators \cup {LF} \/ Quoted(input, pos + 1)
      PROVE  IndexKnown'
  <2>1. /\ SepsUpTo(input, pos + 1) = SepsUpTo(input, pos)
        /\ EndsUpTo(input, pos + 1) = EndsUpTo(input, pos)
    BY <1>1, <1>9, SepsPassed, EndsPassed
  <2>2. QED
    BY <1>2, <1>7, <1>9, <2>1 DEF IndexKnown
<1>10. CASE TailQuotedByte
  BY <1>1, <1>3, <1>9, <1>10 DEF TailQuotedByte, index
<1>11. CASE TailClosingEscape
  BY <1>1, <1>3, <1>9, <1>11, ByteRoles DEF TailClosingEscape
<1>12. CASE TailOpeningEscape
  BY <1>1, <1>3, <1>9, <1>12, ByteRoles DEF TailOpeningEscape
<1>13. CASE TailData
  BY <1>1, <1>3, <1>9, <1>13 DEF TailData, index
<1>14. CASE TailDoubledEscape
  <2>1. /\ Here = Escape /\ pos + 1 < Len(input)
        /\ input[pos + 2] = Escape /\ pos' = pos + 2
    BY <1>14, Zenon DEF TailDoubledEscape, Doubled
  <2>2. field_seps' = field_seps /\ row_ends' = row_ends
    BY <1>14, Zenon DEF TailDoubledEscape, index
  <2>3. (pos + 1) + 1 = pos + 2 /\ pos + 2 \in 1..Len(input)
    BY <1>1, <2>1
  <2>4. /\ SepsUpTo(input, pos + 1) = SepsUpTo(input, pos)
        /\ EndsUpTo(input, pos + 1) = EndsUpTo(input, pos)
    BY <1>1, <1>8, <2>1
  <2>5. /\ SepsUpTo(input, pos + 2) = SepsUpTo(input, pos + 1)
        /\ EndsUpTo(input, pos + 2) = EndsUpTo(input, pos + 1)
    BY <1>4, <1>8, <2>1, <2>3
  <2>6. QED
    BY <1>2, <1>3, <1>7, <2>1, <2>2, <2>4, <2>5 DEF IndexKnown
<1>15. CASE TailLineFeed
  <2>1. /\ ~in_quotes /\ Here = LF /\ pos' = pos + 1 /\ field_seps' = field_seps
        /\ row_ends' = Append(row_ends, RowEndAt(pos))
    BY <1>15 DEF TailLineFeed
  <2>2. /\ SepsUpTo(input, pos + 1) = SepsUpTo(input, pos)
        /\ EndsUpTo(input, pos + 1) = EndsUpTo(input, pos) \cup {pos + 1}
    BY <1>1, <2>1, ByteRoles, SepsPassed, EndsPassed
  <2>3. Listed(EndsUpTo(input, pos) \cup {pos + 1}, RowEndOf) =
           Append(row_ends, RowEndOf[pos + 1])
    BY <1>4, <1>5, <1>6, IndexTypes, ListedAppend DEF IndexKnown
  <2>4. RowEndOf[pos + 1] = RowEndAt(pos)
    BY <1>4 DEF RowEndOf
  <2>5. QED
    BY <1>2, <1>3, <1>7, <2>1, <2>2, <2>3, <2>4 DEF IndexKnown
<1>16. CASE TailSeparator
  <2>1. /\ ~in_quotes /\ Here \in Separators /\ pos' = pos + 1 /\ row_ends' = row_ends
        /\ field_seps' = Append(field_seps, pos)
    BY <1>4, <1>16, PositionFits DEF TailSeparator
  <2>2. /\ SepsUpTo(input, pos + 1) = SepsUpTo(input, pos) \cup {pos + 1}
        /\ EndsUpTo(input, pos + 1) = EndsUpTo(input, pos)
    BY <1>1, <2>1, ByteRoles, SepsPassed, EndsPassed
  <2>3. Listed(SepsUpTo(input, pos) \cup {pos + 1}, SepOf) =
           Append(field_seps, SepOf[pos + 1])
    BY <1>4, <1>5, <1>6, IndexTypes, ListedAppend DEF IndexKnown
  <2>4. SepOf[pos + 1] = pos
    BY <1>4 DEF SepOf
  <2>5. QED
    BY <1>2, <1>3, <1>7, <2>1, <2>2, <2>3, <2>4 DEF IndexKnown
<1>17. QED
  BY <1>3, <1>10, <1>11, <1>12, <1>13, <1>14, <1>15, <1>16 DEF ScanTail

(* The lanes of a chunk that hold an unquoted byte of a role. *)
LEMMA RoleLanes ==
    ASSUME CarryInv, pos + Chunk <= Len(input), NEW bytes, Escape \notin bytes
    PROVE  LET M == Lookup(bytes) \ QuotedLanes
               T == {(pos + 1) + b : b \in M}
           IN  /\ M \in SUBSET Int /\ IsFiniteSet(M)
               /\ \A i \in Int :
                     i \in T <=> /\ pos < i /\ i <= pos + Chunk
                                /\ input[i] \in bytes /\ ~Quoted(input, i)
<1> DEFINE M == Lookup(bytes) \ QuotedLanes
           T == {(pos + 1) + b : b \in M}
<1>1. /\ input \in Seq(Byte) /\ pos \in Nat /\ Len(input) \in Nat
  BY DEF CarryInv, CarryTyped
<1>2. Chunk \in 1..64 /\ \A b \in Lanes : b \in Int /\ 0 <= b /\ b < Chunk
  BY ScanAssumption DEF Lanes
<1>3. M \in SUBSET Lanes /\ M \in SUBSET Int
  BY <1>2 DEF Lookup
<1>4. IsFiniteSet(M)
  <2>1. 0 \in Int /\ Chunk - 1 \in Int
    BY <1>2
  <2>2. IsFiniteSet(Lanes)
    BY <2>1, FS_Interval, Zenon DEF Lanes
  <2>3. QED
    BY <1>3, <2>2, FS_Subset
<1>5. ASSUME NEW b \in Lanes
      PROVE  b \in M <=> input[pos + b + 1] \in bytes /\ ~Quoted(input, pos + b + 1)
  <2>1. pos + b + 1 \in 1..Len(input) /\ (pos + b + 1) + 1 = pos + b + 2
    BY <1>1, <1>2
  <2>2. b \in QuotedLanes <=> Quoted(input, pos + b + 2)
    BY LaneIsQuoted
  <2>3. input[pos + b + 1] # Escape =>
           (Quoted(input, pos + b + 2) <=> Quoted(input, pos + b + 1))
    BY <1>1, <2>1, ParityStep
  <2>4. QED
    BY <2>2, <2>3 DEF Lookup
<1>6. ASSUME NEW i \in Int
      PROVE  i \in T <=> /\ pos < i /\ i <= pos + Chunk
                        /\ input[i] \in bytes /\ ~Quoted(input, i)
  <2>1. ASSUME pos < i, i <= pos + Chunk, input[i] \in bytes, ~Quoted(input, i)
        PROVE  i \in T
    <3>1. i - pos - 1 \in Lanes /\ pos + (i - pos - 1) + 1 = i
          /\ (pos + 1) + (i - pos - 1) = i
      BY <1>1, <1>2, <2>1 DEF Lanes
    <3>2. i - pos - 1 \in M
      BY <1>5, <2>1, <3>1
    <3>3. QED
      BY <3>1, <3>2
  <2>2. ASSUME i \in T
        PROVE  pos < i /\ i <= pos + Chunk /\ input[i] \in bytes /\ ~Quoted(input, i)
    <3>1. PICK b \in M : i = (pos + 1) + b
      BY <2>2
    <3>2. b \in Lanes /\ i = pos + b + 1
      BY <1>1, <1>2, <1>3, <3>1
    <3>3. pos < i /\ i <= pos + Chunk
      BY <1>1, <1>2, <3>2
    <3>4. QED
      BY <1>5, <3>1, <3>2, <3>3
  <2>3. QED
    BY <2>1, <2>2
<1>7. QED
  BY <1>3, <1>4, <1>6

LEMMA ChunkIndex ==
    ASSUME CarryInv, IndexKnown, Fits, ScanChunk
    PROVE  IndexKnown' /\ Fits'
<1> DEFINE M == Lookup(Separators) \ QuotedLanes
           L == Lookup({LF}) \ QuotedLanes
           T == {(pos + 1) + b : b \in M}
           U == {(pos + 1) + b : b \in L}
<1>1. /\ input \in Seq(Byte) /\ pos \in Nat /\ Len(input) \in Nat
      /\ phase = "chunks" /\ pos + Chunk <= Len(input)
      /\ input' = input /\ phase' = phase /\ pos' = pos + Chunk
  BY DEF CarryInv, CarryTyped, ScanChunk
<1>2. Chunk \in 1..64 /\ MaxInputSize \in Nat
  BY ScanAssumption
<1>3. Len(input) <= MaxInputSize /\ Fits'
  BY <1>1 DEF Fits
<1>4. /\ M \in SUBSET Int /\ IsFiniteSet(M)
      /\ \A i \in Int : i \in T <=> /\ pos < i /\ i <= pos + Chunk
                                   /\ input[i] \in Separators /\ ~Quoted(input, i)
  BY <1>1, ByteRoles, RoleLanes
<1>5. /\ L \in SUBSET Int /\ IsFiniteSet(L)
      /\ \A i \in Int : i \in U <=> /\ pos < i /\ i <= pos + Chunk
                                   /\ input[i] \in {LF} /\ ~Quoted(input, i)
  <2>1. Escape \notin {LF}
    BY ByteRoles
  <2>2. QED
    BY <1>1, <2>1, RoleLanes
<1>6. pos + 1 \in Int
  BY <1>1
<1>7. /\ T \in SUBSET Int /\ IsFiniteSet(T) /\ Cardinality(T) = Cardinality(M)
      /\ \A k \in 1..Cardinality(M) : Nth(T, k) = (pos + 1) + Nth(M, k)
  BY <1>4, <1>6, NthShift
<1>8. /\ U \in SUBSET Int /\ IsFiniteSet(U) /\ Cardinality(U) = Cardinality(L)
      /\ \A k \in 1..Cardinality(L) : Nth(U, k) = (pos + 1) + Nth(L, k)
  BY <1>5, <1>6, NthShift
<1>9. /\ SepsUpTo(input, pos) \in SUBSET Int /\ IsFiniteSet(SepsUpTo(input, pos))
      /\ \A i \in SepsUpTo(input, pos) : i <= pos
      /\ EndsUpTo(input, pos) \in SUBSET Int /\ IsFiniteSet(EndsUpTo(input, pos))
      /\ \A i \in EndsUpTo(input, pos) : i <= pos
  BY <1>1, SepsUpToFinite, EndsUpToFinite
<1>10. RowEndOf' = RowEndOf
  BY <1>1 DEF RowEndOf, RowEndAt
<1> DEFINE seps == Positions(M)
           lfs  == Positions(L)
<1>11. /\ field_seps' = field_seps \o [k \in DOMAIN seps |-> AsU32(seps[k])]
       /\ row_ends' = row_ends \o [k \in DOMAIN lfs |-> RowEndAt(lfs[k])]
  BY DEF ScanChunk, QuotedLanes, EscapeLanes
<1>12. [k \in DOMAIN seps |-> AsU32(seps[k])] = Listed(T, SepOf)
  <2>1. ASSUME NEW k \in 1..Cardinality(M)
        PROVE  AsU32(pos + Nth(M, k)) = SepOf[Nth(T, k)]
    <3>1. Nth(M, k) \in M
      BY <1>4, NthOfRank
    <3>2. Nth(M, k) \in Int /\ (pos + 1) + Nth(M, k) \in T
      BY <1>4, <3>1
    <3>3. pos < (pos + 1) + Nth(M, k) /\ (pos + 1) + Nth(M, k) <= pos + Chunk
      BY <1>4, <1>6, <3>2
    <3>4. pos + Nth(M, k) \in 0..MaxInputSize /\ (pos + 1) + Nth(M, k) \in Int
          /\ ((pos + 1) + Nth(M, k)) - 1 = pos + Nth(M, k)
      BY <1>1, <1>2, <1>3, <3>2, <3>3
    <3>5. QED
      BY <1>7, <3>4, PositionFits DEF SepOf
  <2>2. DOMAIN seps = 1..Cardinality(M) /\ \A k \in 1..Cardinality(M) : seps[k] = pos + Nth(M, k)
    BY DEF Positions
  <2> HIDE DEF T, M, seps
  <2>3. QED
    BY <1>7, <2>1, <2>2, Zenon DEF Listed
<1>13. [k \in DOMAIN lfs |-> RowEndAt(lfs[k])] = Listed(U, RowEndOf)
  <2>1. ASSUME NEW k \in 1..Cardinality(L)
        PROVE  RowEndAt(pos + Nth(L, k)) = RowEndOf[Nth(U, k)]
    <3>1. Nth(L, k) \in L
      BY <1>5, NthOfRank
    <3>2. Nth(L, k) \in Int
      BY <1>5, <3>1
    <3>3. (pos + 1) + Nth(L, k) \in Int
          /\ ((pos + 1) + Nth(L, k)) - 1 = pos + Nth(L, k)
      BY <1>1, <3>2
    <3>4. RowEndOf[(pos + 1) + Nth(L, k)] = RowEndAt(pos + Nth(L, k))
      BY <3>3 DEF RowEndOf
    <3>5. QED
      BY <1>8, <3>4
  <2>2. DOMAIN lfs = 1..Cardinality(L) /\ \A k \in 1..Cardinality(L) : lfs[k] = pos + Nth(L, k)
    BY DEF Positions
  <2> HIDE DEF U, L, lfs
  <2>3. QED
    BY <1>8, <2>1, <2>2, Zenon DEF Listed
<1> HIDE DEF T, U, M, L, seps, lfs
<1>14. /\ \A i \in SepsUpTo(input, pos), k \in T : i < k
       /\ \A i \in EndsUpTo(input, pos), k \in U : i < k
  BY <1>1, <1>4, <1>5, <1>7, <1>8, <1>9
<1>15. SepsUpTo(input, pos + Chunk) = SepsUpTo(input, pos) \cup T
  <2>1. \A i \in Int : /\ i \in 1..pos + Chunk <=>
                             i \in 1..pos \/ (pos < i /\ i <= pos + Chunk)
    BY <1>1, <1>2
  <2>2. \A i \in 1..pos + Chunk : i \in Int
    BY <1>1, <1>2
  <2>3. ASSUME NEW i \in Int
        PROVE  i \in SepsUpTo(input, pos + Chunk) <=> i \in SepsUpTo(input, pos) \/ i \in T
    BY <1>1, <1>2, <1>4, <2>1 DEF SepsUpTo
  <2>4. SepsUpTo(input, pos + Chunk) \in SUBSET Int
    BY <2>2 DEF SepsUpTo
  <2>5. QED
    BY <1>7, <1>9, <2>3, <2>4
<1>16. EndsUpTo(input, pos + Chunk) = EndsUpTo(input, pos) \cup U
  <2>1. \A i \in Int : i <= pos + Chunk <=> i <= pos \/ (pos < i /\ i <= pos + Chunk)
    BY <1>1, <1>2
  <2>2. \A i \in RowEnds(input) : i \in Int /\ input[i] \in {LF} /\ ~Quoted(input, i)
    BY <1>1 DEF RowEnds
  <2>3. \A i \in U : i \in RowEnds(input)
    <3>1. \A i \in U : i \in DOMAIN input
      BY <1>1, <1>5, <1>8
    <3>2. QED
      BY <1>5, <1>8, <3>1 DEF RowEnds
  <2>4. QED
    BY <1>5, <1>8, <2>1, <2>2, <2>3, Zenon DEF EndsUpTo
<1>17. Listed(SepsUpTo(input, pos + Chunk), SepOf) = field_seps'
  <2>1. /\ SepsUpTo(input, pos) \in SUBSET Int /\ IsFiniteSet(SepsUpTo(input, pos))
        /\ T \in SUBSET Int /\ IsFiniteSet(T)
        /\ \A i \in SepsUpTo(input, pos), k \in T : i < k
    BY <1>7, <1>9, <1>14, Zenon
  <2>2. SepOf \in [Int -> Int]
    BY IndexTypes
  <2>3. Listed(SepsUpTo(input, pos) \cup T, SepOf) =
           Listed(SepsUpTo(input, pos), SepOf) \o Listed(T, SepOf)
    BY <2>1, <2>2, ListedOfUnion, ZenonT(60)
  <2>4. QED
    BY <1>11, <1>12, <1>15, <2>3 DEF IndexKnown
<1>18. Listed(EndsUpTo(input, pos + Chunk), RowEndOf) = row_ends'
  <2>1. /\ EndsUpTo(input, pos) \in SUBSET Int /\ IsFiniteSet(EndsUpTo(input, pos))
        /\ U \in SUBSET Int /\ IsFiniteSet(U)
        /\ \A i \in EndsUpTo(input, pos), k \in U : i < k
    BY <1>8, <1>9, <1>14, Zenon
  <2>2. PICK R : RowEndOf \in [Int -> R]
    BY IndexTypes
  <2>3. Listed(EndsUpTo(input, pos) \cup U, RowEndOf) =
           Listed(EndsUpTo(input, pos), RowEndOf) \o Listed(U, RowEndOf)
    BY <2>1, <2>2, ListedOfUnion, ZenonT(60)
  <2>4. QED
    BY <1>11, <1>13, <1>16, <2>3 DEF IndexKnown
<1>19. QED
  BY <1>1, <1>3, <1>10, <1>17, <1>18 DEF IndexKnown

-----------------------------------------------------------------------------
(* The scan. *)

ViolationKnown ==
    /\ phase = "chunks" => IsFirstIn(input, violation, BadUpTo(input, pos))
    /\ phase = "tail" => IsFirstIn(input, violation, SeenInTail(input, pos))
    /\ phase = "scanned" => pos = Len(input) /\ violation = FirstViolation(input, TRUE)
    /\ violation \in Violation

(* Inductive: next to the carry, the violation found is the first among the *)
(* bytes seen so far, and the index lists the structure of the bytes        *)
(* passed.                                                                  *)
ScanInv == CarryInv /\ Fits /\ IndexKnown /\ ViolationKnown

LEMMA InitScan == Init => ScanInv
<1>1. ASSUME Init
      PROVE  ScanInv
  <2>1. input \in Seq(Byte) /\ pos = 0 /\ CarryInv
    BY <1>1, InitCarry, ScanAssumption DEF Init
  <2>2. Fits
    BY <1>1, <2>1, ScanAssumption DEF Init, Fits, TooLarge
  <2>3. IndexKnown
    <3>1. SepsUpTo(input, pos) = {}
      BY <2>1 DEF SepsUpTo
    <3>2. EndsUpTo(input, pos) = {}
      BY <2>1 DEF EndsUpTo, RowEnds
    <3>3. \A f : Listed({}, f) = <<>>
      BY FS_EmptySet DEF Listed
    <3>4. field_seps = <<>> /\ row_ends = <<>>
      BY <1>1 DEF Init
    <3>5. QED
      BY <3>1, <3>2, <3>3, <3>4 DEF IndexKnown
  <2>4. ViolationKnown
    <3>1. BadUpTo(input, pos) = {}
      BY <2>1, BadBytesInText DEF BadUpTo
    <3>2. violation = NoViolation /\ phase \in {"chunks", "too_large"}
      BY <1>1 DEF Init
    <3>3. IsFirstIn(input, violation, BadUpTo(input, pos))
      BY <3>1, <3>2, FirstOfNone
    <3>4. violation \in Violation
      BY <3>2 DEF Violation
    <3>5. QED
      BY <3>2, <3>3, <3>4 DEF ViolationKnown
  <2>5. QED
    BY <2>1, <2>2, <2>3, <2>4 DEF ScanInv
<1>2. QED
  BY <1>1

LEMMA SeenTypes ==
    ASSUME NEW s, NEW p
    PROVE  BadUpTo(s, p) \in SUBSET BadBytes(s) /\ SeenInTail(s, p) \in SUBSET BadBytes(s)
BY DEF BadUpTo, SeenInTail

(* The tail looks again at the last byte of the last chunk. *)
LEMMA StartViolation ==
    ASSUME CarryInv, ViolationKnown, StartTail
    PROVE  ViolationKnown'
<1>1. /\ input \in Seq(Byte) /\ pos \in 0..Len(input) /\ Len(input) \in Nat
      /\ in_quotes = Quoted(input, pos + 1)
      /\ phase = "chunks" /\ phase' = "tail" /\ input' = input /\ pos' = pos
  BY DEF CarryInv, CarryTyped, CarryIsContext, StartTail
<1>2. IsFirstIn(input, violation, BadUpTo(input, pos))
  BY <1>1 DEF ViolationKnown
<1> DEFINE K == {i \in BadBytes(input) : i = pos + 1 /\ input[i] # Escape}
<1>3. SeenInTail(input, pos) = BadUpTo(input, pos) \cup K
  BY DEF SeenInTail, BadUpTo
<1>4. pos > 0 => pos \in 1..Len(input) /\ (pos + 1) - 1 = pos
  BY <1>1
<1>5. ~ClosedAtBoundary => K = {}
  <2>1. ASSUME ~ClosedAtBoundary, pos + 1 \in BadBytes(input), input[pos + 1] # Escape
        PROVE  FALSE
    <3>1. pos + 1 \in 2..Len(input) /\ pos > 0 /\ (pos + 1) - 1 = pos
      BY <1>1, <2>1, BadBytesInText
    <3>2. pos + 1 \in TrailingGarbage(input, TRUE)
      BY <2>1 DEF BadBytes, UnexpectedQuotes
    <3>3. input[pos] = Escape /\ ~Quoted(input, pos + 1)
      BY <3>1, <3>2 DEF TrailingGarbage
    <3>4. QED
      BY <1>1, <2>1, <3>1, <3>3 DEF ClosedAtBoundary
  <2>2. QED
    BY <2>1
<1>6. IsFirstIn(input, violation', SeenInTail(input, pos))
  <2>1. CASE ~ClosedAtBoundary
    <3>1. violation' = violation
      BY <2>1 DEF StartTail
    <3>2. QED
      BY <1>2, <1>3, <1>5, <2>1, <3>1
  <2>2. CASE ClosedAtBoundary
    <3>1. pos > 0 /\ input[pos] = Escape /\ ~Quoted(input, pos + 1)
      BY <1>1, <2>2 DEF ClosedAtBoundary
    <3>2. /\ ClosesFieldAt(pos) <=> pos + 1 \notin TrailingGarbage(input, TRUE)
          /\ pos + 1 \in TrailingGarbage(input, TRUE) =>
                pos + 1 \notin UnexpectedQuotes(input) /\ input[pos + 1] # Escape
      BY <1>1, <1>4, <3>1, GarbageAfterEscape
    <3>3. violation' = ClosedBefore(pos)
      BY <2>2 DEF StartTail
    <3>4. CASE ClosesFieldAt(pos)
      <4>1. K = {}
        BY <3>2, <3>4 DEF BadBytes, UnexpectedQuotes
      <4>2. QED
        BY <1>2, <1>3, <3>3, <3>4, <4>1 DEF ClosedBefore
    <3>5. CASE ~ClosesFieldAt(pos)
      <4>1. violation' = FirstOf(violation, [kind |-> "trailing_garbage", pos |-> pos])
        BY <3>3, <3>5 DEF ClosedBefore
      <4>2. pos + 1 \in BadBytes(input) /\ pos + 1 \notin UnexpectedQuotes(input)
            /\ input[pos + 1] # Escape
        BY <3>2, <3>5 DEF BadBytes
      <4>3. violation' = FirstOf(violation, ViolationAt(input, pos + 1))
        BY <1>4, <3>1, <4>1, <4>2 DEF ViolationAt
      <4>4. K = {pos + 1}
        BY <4>2
      <4>5. IsFirstIn(input, ViolationAt(input, pos + 1), K)
        BY <1>1, <4>4, FirstOfOne
      <4>6. BadUpTo(input, pos) \in SUBSET Int /\ K \in SUBSET Int
        BY <1>1, BadBytesInText DEF BadUpTo
      <4>7. \A j \in BadUpTo(input, pos), k \in K : j < k
        BY <1>1, <4>4, <4>6 DEF BadUpTo
      <4> HIDE DEF K
      <4>8. QED
        BY <1>2, <1>3, <4>3, <4>5, <4>6, <4>7, FirstGrows
    <3>6. QED
      BY <3>4, <3>5
  <2>3. QED
    BY <2>1, <2>2
<1>7. violation' \in Violation
  BY <1>1, <1>6, FirstIsViolation, SeenTypes
<1>8. QED
  BY <1>1, <1>6, <1>7 DEF ViolationKnown

LEMMA EndViolation ==
    ASSUME CarryInv, ViolationKnown, EndTail
    PROVE  ViolationKnown'
<1>1. /\ input \in Seq(Byte) /\ pos = Len(input) /\ Len(input) \in Nat
      /\ in_quotes = Quoted(input, pos + 1)
      /\ phase = "tail" /\ phase' = "scanned" /\ input' = input /\ pos' = pos
  BY DEF CarryInv, CarryTyped, CarryIsContext, EndTail
<1>2. SeenInTail(input, pos) = BadBytes(input)
  BY <1>1, BadBytesInText DEF SeenInTail
<1>3. IsFirstIn(input, violation, BadBytes(input)) /\ violation \in Violation
  BY <1>1, <1>2 DEF ViolationKnown
<1>4. violation' = FirstViolation(input, TRUE)
  BY <1>1, <1>3, FirstOfAll DEF EndTail
<1>5. violation' \in Violation
  BY <1>1, <1>3 DEF EndTail, FirstOf, Violation
<1>6. QED
  BY <1>1, <1>4, <1>5 DEF ViolationKnown

LEMMA NextScan ==
    ASSUME ScanInv, [Next]_scanVars
    PROVE  ScanInv'
<1>1. CarryInv'
  BY NextCarry DEF ScanInv
<1>2. CASE ScanChunk
  <2>1. IndexKnown' /\ Fits'
    BY <1>2, ChunkIndex DEF ScanInv
  <2>2. input' = input /\ phase = "chunks" /\ phase' = phase /\ pos' = pos + Chunk
    BY <1>2 DEF ScanChunk
  <2>3. IsFirstIn(input, violation', BadUpTo(input, pos + Chunk))
    BY <1>2, <2>2, ChunkViolation DEF ScanInv, ViolationKnown
  <2>4. violation' \in Violation
    BY <2>3, FirstIsViolation, SeenTypes DEF ScanInv, CarryInv, CarryTyped
  <2>5. QED
    BY <1>1, <2>1, <2>2, <2>3, <2>4 DEF ScanInv, ViolationKnown
<1>3. CASE ScanTail
  <2>1. IndexKnown' /\ Fits'
    BY <1>3, TailIndex DEF ScanInv
  <2>2. input' = input /\ phase = "tail" /\ phase' = phase
    BY <1>3 DEF ScanTail, InTail, TailQuotedByte, TailDoubledEscape, TailClosingEscape,
                TailOpeningEscape, TailLineFeed, TailSeparator, TailData
  <2>3. IsFirstIn(input, violation', SeenInTail(input, pos'))
    BY <1>3, <2>2, TailViolation DEF ScanInv, ViolationKnown
  <2>4. violation' \in Violation
    BY <2>3, FirstIsViolation, SeenTypes DEF ScanInv, CarryInv, CarryTyped
  <2>5. QED
    BY <1>1, <2>1, <2>2, <2>3, <2>4 DEF ScanInv, ViolationKnown
<1>4. ASSUME UNCHANGED <<input, pos, field_seps, row_ends>>,
             phase = phase' \/ (phase # "too_large" /\ phase' # "too_large")
      PROVE  IndexKnown' /\ Fits'
  <2>1. RowEndOf' = RowEndOf
    BY <1>4 DEF RowEndOf, RowEndAt
  <2>2. QED
    BY <1>4, <2>1 DEF ScanInv, IndexKnown, Fits
<1>5. CASE StartTail
  BY <1>1, <1>4, <1>5, StartViolation DEF ScanInv, StartTail
<1>6. CASE EndTail
  BY <1>1, <1>4, <1>6, EndViolation DEF ScanInv, EndTail
<1>7. CASE UNCHANGED scanVars
  BY <1>1, <1>4, <1>7 DEF ScanInv, ViolationKnown, scanVars, index
<1>8. QED
  BY <1>2, <1>3, <1>5, <1>6, <1>7 DEF Next, Scan, Scanned

(* The entries of the index are positions of the input. *)
LEMMA IndexEntries ==
    ASSUME ScanInv
    PROVE  /\ \A i \in SepsUpTo(input, pos) : i - 1 \in 0..MaxInputSize
           /\ \A i \in EndsUpTo(input, pos) :
                 /\ i \in 1..pos /\ i \in Int /\ pos \in Nat
                 /\ RowEndAt(i - 1) = IF i > 1 /\ input[i - 1] = CR
                                      THEN [pos |-> i - 2, len |-> 2]
                                      ELSE [pos |-> i - 1, len |-> 1]
<1>1. /\ input \in Seq(Byte) /\ pos \in 0..Len(input) /\ Len(input) \in Nat
      /\ MaxInputSize \in Nat
  BY ScanAssumption DEF ScanInv, CarryInv, CarryTyped
<1>2. \A i \in 1..pos : i - 1 \in 0..MaxInputSize /\ (i > 1 => i - 2 \in 0..MaxInputSize)
  <2>1. pos = 0 \/ pos <= MaxInputSize
    BY <1>1 DEF ScanInv, Fits
  <2>2. QED
    BY <1>1, <2>1
<1>3. \A i \in SepsUpTo(input, pos) : i \in 1..pos
  BY DEF SepsUpTo
<1>4. ASSUME NEW i \in EndsUpTo(input, pos)
      PROVE  /\ i \in 1..pos /\ i \in Int /\ pos \in Nat
             /\ RowEndAt(i - 1) = IF i > 1 /\ input[i - 1] = CR
                                  THEN [pos |-> i - 2, len |-> 2]
                                  ELSE [pos |-> i - 1, len |-> 1]
  <2>1. i \in 1..pos
    BY <1>1, <1>4 DEF EndsUpTo, RowEnds
  <2>2. /\ (i - 1 > 0 <=> i > 1) /\ (i - 1) - 1 = i - 2
        /\ AsU32(i - 1) = i - 1 /\ (i > 1 => AsU32(i - 2) = i - 2)
    BY <1>1, <1>2, <2>1, PositionFits
  <2>3. QED
    BY <1>1, <2>1, <2>2 DEF RowEndAt
<1>5. QED
  BY <1>2, <1>3, <1>4

LEMMA ScanIndex == ScanInv => IndexIsStructure
<1>1. ASSUME ScanInv
      PROVE  IndexIsStructure
  <2> DEFINE S == SepsUpTo(input, pos)
             E == EndsUpTo(input, pos)
             seps == InOrder(S)
             lfs == InOrder(E)
  <2>1. input \in Seq(Byte) /\ pos \in Nat
    BY <1>1 DEF ScanInv, CarryInv, CarryTyped
  <2>2. /\ S \in SUBSET Int /\ IsFiniteSet(S) /\ E \in SUBSET Int /\ IsFiniteSet(E)
    BY <2>1, SepsUpToFinite, EndsUpToFinite
  <2>3. /\ field_seps = Listed(S, SepOf) /\ row_ends = Listed(E, RowEndOf)
    BY <1>1 DEF ScanInv, IndexKnown
  <2>4. \A i \in E : /\ i \in 1..pos /\ i \in Int
                     /\ RowEndAt(i - 1) = IF i > 1 /\ input[i - 1] = CR
                                          THEN [pos |-> i - 2, len |-> 2]
                                          ELSE [pos |-> i - 1, len |-> 1]
    BY <1>1, IndexEntries
  <2> HIDE DEF S, E
  <2>5. field_seps = [k \in DOMAIN seps |-> seps[k] - 1]
    <3>1. DOMAIN seps = 1..Cardinality(S) /\ \A k \in 1..Cardinality(S) : seps[k] = Nth(S, k)
      BY DEF InOrder
    <3>2. \A k \in 1..Cardinality(S) : SepOf[Nth(S, k)] = Nth(S, k) - 1
      BY <2>2, NthOfRank DEF SepOf
    <3> HIDE DEF seps
    <3>3. QED
      BY <2>3, <3>1, <3>2 DEF Listed
  <2>6. Len(row_ends) = Cardinality(E) /\ Len(lfs) = Cardinality(E)
    BY <2>2, <2>3, IndexTypes, ListedType, InOrderLists
  <2>7. DOMAIN lfs = 1..Cardinality(E) /\ \A k \in 1..Cardinality(E) : lfs[k] = Nth(E, k)
    BY DEF InOrder
  <2>8. \A k \in 1..Cardinality(E) : /\ Nth(E, k) \in E
                                     /\ row_ends[k] = RowEndAt(Nth(E, k) - 1)
    BY <2>2, <2>3, NthOfRank DEF Listed, RowEndOf
  <2>9. \A i \in E : LET r == RowEndAt(i - 1)
                     IN  r.pos + r.len = i /\ (r.len = 2 <=> i > 1 /\ input[i - 1] = CR)
    <3>1. ASSUME NEW i \in E
          PROVE  LET r == RowEndAt(i - 1)
                 IN  r.pos + r.len = i /\ (r.len = 2 <=> i > 1 /\ input[i - 1] = CR)
      <4>1. CASE i > 1 /\ input[i - 1] = CR
        <5>1. RowEndAt(i - 1) = [pos |-> i - 2, len |-> 2] /\ i \in Int
          BY <2>4, <4>1
        <5>2. (i - 2) + 2 = i
          BY <5>1
        <5>3. QED
          BY <4>1, <5>1, <5>2
      <4>2. CASE ~(i > 1 /\ input[i - 1] = CR)
        <5>1. RowEndAt(i - 1) = [pos |-> i - 1, len |-> 1] /\ i \in Int
          BY <2>4, <4>2
        <5>2. (i - 1) + 1 = i /\ 1 # 2
          BY <5>1
        <5>3. QED
          BY <4>2, <5>1, <5>2
      <4>3. QED
        BY <4>1, <4>2
    <3>2. QED
      BY <3>1
  <2> HIDE DEF lfs, seps
  <2>10. \A k \in DOMAIN lfs :
            /\ row_ends[k].pos + row_ends[k].len = lfs[k]
            /\ row_ends[k].len = 2 <=> lfs[k] > 1 /\ input[lfs[k] - 1] = CR
    BY <2>7, <2>8, <2>9
  <2>11. seps = InOrder({i \in 1..pos : input[i] \in Separators /\ ~Quoted(input, i)})
    BY DEF seps, S, SepsUpTo
  <2>12. lfs = InOrder(EndsUpTo(input, pos))
    BY DEF lfs, E
  <2>13. QED
    BY <2>5, <2>6, <2>10, <2>11, <2>12 DEF IndexIsStructure
<1>2. QED
  BY <1>1

LEMMA ScanTypes == ScanInv => TypeOK
<1>1. ASSUME ScanInv
      PROVE  TypeOK
  <2> DEFINE S == SepsUpTo(input, pos)
             E == EndsUpTo(input, pos)
  <2>1. CarryTyped /\ violation \in Violation /\ pos \in Nat
    BY <1>1 DEF ScanInv, CarryInv, CarryTyped, ViolationKnown
  <2>2. /\ S \in SUBSET Int /\ IsFiniteSet(S) /\ E \in SUBSET Int /\ IsFiniteSet(E)
    BY <2>1, SepsUpToFinite, EndsUpToFinite DEF CarryTyped
  <2>3. field_seps = Listed(S, SepOf) /\ row_ends = Listed(E, RowEndOf)
    BY <1>1 DEF ScanInv, IndexKnown
  <2>4. row_ends \in Seq([pos : 0..MaxInputSize, len : 1..2])
    BY <2>2, <2>3, IndexTypes, ListedType
  <2>5. \A i \in S : i - 1 \in 0..MaxInputSize
    BY <1>1, IndexEntries
  <2> HIDE DEF S, E
  <2>6. \A k \in 1..Cardinality(S) : SepOf[Nth(S, k)] \in 0..MaxInputSize
    BY <2>2, <2>5, NthOfRank DEF SepOf
  <2>7. field_seps \in [1..Cardinality(S) -> 0..MaxInputSize]
    BY <2>3, <2>6 DEF Listed
  <2>8. Cardinality(S) \in Nat
    BY <2>2, FS_CardinalityType
  <2>9. field_seps \in Seq(0..MaxInputSize)
    <3> DEFINE R == 0..MaxInputSize
               n == Cardinality(S)
    <3>1. field_seps \in [1..n -> R] /\ n \in Nat
      BY <2>7, <2>8
    <3> HIDE DEF R, n
    <3>2. field_seps \in Seq(R)
      BY <3>1
    <3>3. QED
      BY <3>2 DEF R
  <2>10. QED
    BY <2>1, <2>4, <2>9 DEF CarryTyped, TypeOK
<1>2. QED
  BY <1>1

(* Every variable of the scan keeps its type: no entry of the index is     *)
(* larger than a u32.                                                      *)
THEOREM ScanTyped == Spec => []TypeOK
<1>1. Init => ScanInv
  BY InitScan
<1>2. ScanInv /\ [Next]_scanVars => ScanInv'
  BY NextScan
<1>3. ScanInv => TypeOK
  BY ScanTypes
<1>4. QED
  BY <1>1, <1>2, <1>3, PTL DEF Spec

(* The index lists the unquoted separators and the row ends of the part    *)
(* scanned, in order and each once, and a CRLF as one row end: whatever    *)
(* the text, the separators, and the size of the chunks.                   *)
THEOREM IndexCorrect == Spec => []IndexIsStructure
<1>1. Init => ScanInv
  BY InitScan
<1>2. ScanInv /\ [Next]_scanVars => ScanInv'
  BY NextScan
<1>3. ScanInv => IndexIsStructure
  BY ScanIndex
<1>4. QED
  BY <1>1, <1>2, <1>3, PTL DEF Spec

(* The violation a scan ends with is the first of the text: the masks, the *)
(* look back at the boundary and the tail, taken together, miss no bad     *)
(* byte and report none that a reading of the whole text would not.        *)
THEOREM ViolationCorrect == Spec => []ScanFindsFirstViolation
<1>1. Init => ScanInv
  BY InitScan
<1>2. ScanInv /\ [Next]_scanVars => ScanInv'
  BY NextScan
<1>3. ScanInv => ScanFindsFirstViolation
  BY DEF ScanInv, ViolationKnown, ScanFindsFirstViolation
<1>4. QED
  BY <1>1, <1>2, <1>3, PTL DEF Spec

-----------------------------------------------------------------------------
(* The rows that an index describes. *)

(* Where the k-th row ends, with its row end; 0 is the start of the text. *)
EndOf(k) == IF k = 0 THEN 0 ELSE row_ends[k].pos + row_ends[k].len

(* One row for each row end, and what follows the last of them. *)
TextRows ==
    IF EndOf(Len(row_ends)) < Len(input) THEN Len(row_ends) + 1 ELSE Len(row_ends)

(* Where a row starts, where its content ends, and where the next starts. *)
Starts == [k \in 1..TextRows |-> EndOf(k - 1)]

Contents ==
    [k \in 1..TextRows |-> IF k <= Len(row_ends) THEN row_ends[k].pos ELSE Len(input)]

Resumes ==
    [k \in 0..TextRows |-> IF k <= Len(row_ends) THEN EndOf(k) ELSE Len(input)]

(* How many separators stand before the end of a row. *)
SepsAt == [k \in 0..TextRows |-> SepsBefore(Resumes[k])]

TextRanges ==
    [k \in 1..TextRows |-> [start |-> Starts[k], end |-> Contents[k],
                            lo |-> SepsAt[k - 1], hi |-> SepsAt[k]]]

TextBounds ==
    [k \in 1..TextRows |->
        FieldBounds(Starts[k], Contents[k],
                    SubSeq(field_seps, SepsAt[k - 1] + 1, SepsAt[k]))]

(* All unquoted separators of the input. *)
TextSeps == SepsUpTo(input, Len(input))

(* A scan has ended: what the index holds. *)
LEMMA ScannedIndex ==
    ASSUME ScanInv, phase = "scanned"
    PROVE  /\ input \in Seq(Byte) /\ Len(input) \in Nat /\ AsU32(Len(input)) = Len(input)
           /\ TextSeps \in SUBSET Int /\ IsFiniteSet(TextSeps)
           /\ Cardinality(TextSeps) \in Nat
           /\ field_seps \in Seq(Int) /\ Len(field_seps) = Cardinality(TextSeps)
           /\ \A k \in 1..Cardinality(TextSeps) : field_seps[k] = Nth(TextSeps, k) - 1
           /\ RowEnds(input) \in SUBSET Int /\ IsFiniteSet(RowEnds(input))
           /\ Cardinality(RowEnds(input)) \in Nat
           /\ Len(row_ends) = Cardinality(RowEnds(input))
           /\ row_ends \in Seq([pos : 0..MaxInputSize, len : 1..2])
<1> DEFINE E == EndsUpTo(input, Len(input))
<1>1. /\ input \in Seq(Byte) /\ Len(input) \in Nat /\ pos = Len(input)
      /\ Len(input) <= MaxInputSize /\ MaxInputSize \in Nat
  BY ScanAssumption DEF ScanInv, CarryInv, CarryTyped, Fits, ViolationKnown
<1>2. AsU32(Len(input)) = Len(input)
  BY <1>1, PositionFits
<1>3. E = RowEnds(input)
  BY <1>1 DEF EndsUpTo, RowEnds
<1>4. /\ TextSeps \in SUBSET Int /\ IsFiniteSet(TextSeps)
      /\ E \in SUBSET Int /\ IsFiniteSet(E)
  BY <1>1, SepsUpToFinite, EndsUpToFinite DEF TextSeps
<1>5. field_seps = Listed(TextSeps, SepOf) /\ row_ends = Listed(E, RowEndOf)
  BY <1>1 DEF ScanInv, IndexKnown, TextSeps
<1>6. Cardinality(TextSeps) \in Nat /\ Cardinality(E) \in Nat
  BY <1>4, FS_CardinalityType
<1> HIDE DEF E
<1>7. field_seps \in Seq(Int) /\ Len(field_seps) = Cardinality(TextSeps)
  BY <1>4, <1>5, IndexTypes, ListedType
<1>8. \A k \in 1..Cardinality(TextSeps) : field_seps[k] = Nth(TextSeps, k) - 1
  BY <1>4, <1>5, NthOfRank DEF Listed, SepOf
<1>9. Len(row_ends) = Cardinality(E) /\ row_ends \in Seq([pos : 0..MaxInputSize, len : 1..2])
  BY <1>4, <1>5, IndexTypes, ListedType
<1>10. QED
  BY <1>1, <1>2, <1>3, <1>4, <1>6, <1>7, <1>8, <1>9

(* The entry of a row end: its content ends before the line feed, or       *)
(* before the carriage return that stands there.                           *)
LEMMA ScannedRow ==
    ASSUME ScanInv, phase = "scanned", NEW k \in 1..Len(row_ends)
    PROVE  LET e == Nth(RowEnds(input), k)
           IN  /\ e \in RowEnds(input) /\ e \in 1..Len(input) /\ e \in Int
               /\ EndOf(k) = e
               /\ row_ends[k] = IF e > 1 /\ input[e - 1] = CR
                                THEN [pos |-> e - 2, len |-> 2]
                                ELSE [pos |-> e - 1, len |-> 1]
<1> DEFINE E == RowEnds(input)
           e == Nth(E, k)
<1>1. /\ IsFiniteSet(E) /\ E \in SUBSET Int /\ Len(row_ends) = Cardinality(E)
      /\ Cardinality(E) \in Nat /\ Len(input) \in Nat /\ input \in Seq(Byte)
  BY ScannedIndex
<1>2. k \in 1..Cardinality(E) /\ k # 0
  BY <1>1
<1>3. e \in E /\ e \in Int
  BY <1>1, <1>2, NthOfRank
<1>4. pos = Len(input)
  BY DEF ScanInv, ViolationKnown
<1>5. E = EndsUpTo(input, pos)
  BY <1>1, <1>4 DEF EndsUpTo, RowEnds
<1>6. row_ends[k] = RowEndAt(e - 1)
  <2>1. row_ends = Listed(E, RowEndOf)
    BY <1>5 DEF ScanInv, IndexKnown
  <2>2. row_ends[k] = RowEndOf[e]
    BY <1>2, <2>1 DEF Listed
  <2>3. QED
    BY <1>3, <2>2 DEF RowEndOf
<1>7. /\ e \in 1..pos
      /\ RowEndAt(e - 1) = IF e > 1 /\ input[e - 1] = CR
                           THEN [pos |-> e - 2, len |-> 2]
                           ELSE [pos |-> e - 1, len |-> 1]
  BY <1>3, <1>5, IndexEntries
<1> HIDE DEF E, e
<1>8. row_ends[k].pos + row_ends[k].len = e
  <2>1. CASE e > 1 /\ input[e - 1] = CR
    <3>1. row_ends[k] = [pos |-> e - 2, len |-> 2]
      BY <1>6, <1>7, <2>1
    <3>2. (e - 2) + 2 = e
      BY <1>3
    <3>3. QED
      BY <3>1, <3>2
  <2>2. CASE ~(e > 1 /\ input[e - 1] = CR)
    <3>1. row_ends[k] = [pos |-> e - 1, len |-> 1]
      BY <1>6, <1>7, <2>2
    <3>2. (e - 1) + 1 = e
      BY <1>3
    <3>3. QED
      BY <3>1, <3>2
  <2>3. QED
    BY <2>1, <2>2
<1>9. EndOf(k) = e
  BY <1>2, <1>8 DEF EndOf
<1>10. QED
  BY <1>3, <1>4, <1>6, <1>7, <1>9 DEF E, e

(* A row starts where the row before ends, outside quotes; its content     *)
(* ends in the text, and no separator stands in a row end.                 *)
RowFacts(k) ==
    /\ Starts[k] = Resumes[k - 1]
    /\ Starts[k] \in Nat /\ Contents[k] \in Nat /\ Resumes[k] \in Nat
    /\ Starts[k] <= Contents[k] /\ Contents[k] <= Resumes[k] /\ Resumes[k] <= Len(input)
    /\ Starts[k] < Len(input)
    /\ ~Quoted(input, Starts[k] + 1)
    /\ \A i \in TextSeps : i <= Resumes[k] => i <= Contents[k]

LEMMA QuotedAtStart ==
    ASSUME NEW s \in Seq(Byte)
    PROVE  /\ ~Quoted(s, 0 + 1)
           /\ \A e \in RowEnds(s) : ~Quoted(s, e + 1)
<1>1. Escapes(s, 0 + 1) = {}
  BY DEF Escapes
<1>2. ~Quoted(s, 0 + 1)
  BY <1>1, FS_EmptySet DEF Quoted
<1>3. ASSUME NEW e \in RowEnds(s)
      PROVE  ~Quoted(s, e + 1)
  BY <1>3, ParityStep, ByteRoles DEF RowEnds
<1>4. QED
  BY <1>2, <1>3

(* The start of a row: the start of the text, or right after a row end. *)
LEMMA StartFacts ==
    ASSUME ScanInv, phase = "scanned", NEW k \in 0..Len(row_ends)
    PROVE  /\ EndOf(k) \in 0..Len(input) /\ EndOf(k) \in Int
           /\ ~Quoted(input, EndOf(k) + 1)
           /\ k = 0 => EndOf(k) = 0
           /\ k > 0 => /\ k \in 1..Cardinality(RowEnds(input))
                       /\ EndOf(k) = Nth(RowEnds(input), k)
                       /\ EndOf(k) \in RowEnds(input) /\ input[EndOf(k)] = LF
<1>1. /\ input \in Seq(Byte) /\ Len(input) \in Nat /\ Len(row_ends) \in Nat
      /\ Len(row_ends) = Cardinality(RowEnds(input))
  BY ScannedIndex
<1>2. CASE k = 0
  BY <1>1, <1>2, QuotedAtStart DEF EndOf
<1>3. CASE k # 0
  <2>1. k \in 1..Len(row_ends) /\ k > 0
    BY <1>1, <1>3
  <2>2. /\ EndOf(k) = Nth(RowEnds(input), k) /\ EndOf(k) \in RowEnds(input)
        /\ EndOf(k) \in 1..Len(input) /\ EndOf(k) \in Int
    BY <2>1, ScannedRow
  <2>3. input[EndOf(k)] = LF
    BY <2>2 DEF RowEnds
  <2>4. QED
    BY <1>1, <1>3, <2>1, <2>2, <2>3, QuotedAtStart
<1>4. QED
  BY <1>2, <1>3

LEMMA TextRowsType ==
    ASSUME ScanInv, phase = "scanned"
    PROVE  /\ TextRows \in Nat /\ Len(row_ends) \in Nat
           /\ TextRows = Len(row_ends) \/ TextRows = Len(row_ends) + 1
           /\ TextRows = Len(row_ends) + 1 <=> EndOf(Len(row_ends)) < Len(input)
<1>1. Len(row_ends) \in Nat
  BY ScannedIndex
<1>2. QED
  BY <1>1 DEF TextRows

LEMMA EndedRow ==
    ASSUME ScanInv, phase = "scanned", NEW k \in 1..Len(row_ends)
    PROVE  RowFacts(k)
<1> DEFINE n == Len(row_ends)
           e == EndOf(k)
           p == EndOf(k - 1)
<1>1. /\ n \in Nat /\ TextRows \in Nat /\ n <= TextRows /\ Len(input) \in Nat
      /\ input \in Seq(Byte)
  BY TextRowsType, ScannedIndex
<1>2. k \in 1..TextRows /\ k \in 0..n /\ k - 1 \in 0..n /\ k - 1 \in 0..TextRows /\ k <= n
      /\ k - 1 <= n /\ k > 0 /\ k \in 0..TextRows
  BY <1>1
<1>3. /\ e \in 0..Len(input) /\ e \in Int /\ input[e] = LF
      /\ k \in 1..Cardinality(RowEnds(input)) /\ e = Nth(RowEnds(input), k)
  BY <1>2, StartFacts
<1>4. /\ p \in 0..Len(input) /\ p \in Int /\ ~Quoted(input, p + 1)
      /\ k - 1 = 0 => p = 0
      /\ k - 1 > 0 => /\ k - 1 \in 1..Cardinality(RowEnds(input))
                      /\ p = Nth(RowEnds(input), k - 1) /\ input[p] = LF
  BY <1>2, StartFacts
<1>5. e \in RowEnds(input)
  BY <1>2, StartFacts
<1>6. e \in 1..Len(input)
  BY <1>1, <1>5 DEF RowEnds
<1>7. p < e
  <2>1. CASE k - 1 = 0
    BY <1>4, <1>6, <2>1
  <2>2. CASE k - 1 # 0
    <3>1. k - 1 > 0 /\ k - 1 < k
      BY <1>2, <2>2
    <3>2. RowEnds(input) \in SUBSET Int /\ IsFiniteSet(RowEnds(input))
      BY ScannedIndex
    <3>3. QED
      BY <1>3, <1>4, <3>1, <3>2, NthIncreases
  <2>3. QED
    BY <2>1, <2>2
<1>8. row_ends[k] = IF e > 1 /\ input[e - 1] = CR THEN [pos |-> e - 2, len |-> 2]
                                                  ELSE [pos |-> e - 1, len |-> 1]
  BY <1>3, ScannedRow
<1>9. Starts[k] = p /\ Contents[k] = row_ends[k].pos /\ Resumes[k] = e /\ Resumes[k - 1] = p
  BY <1>2 DEF Starts, Contents, Resumes
<1>10. \A i \in TextSeps : i \in Int /\ i # e /\ (input[i] # CR)
  <2>1. \A i \in TextSeps : i \in Int /\ input[i] \in Separators
    BY <1>1 DEF TextSeps, SepsUpTo
  <2>2. QED
    BY <1>3, <2>1, ByteRoles
<1> HIDE DEF e, p, n
<1>11. CASE e > 1 /\ input[e - 1] = CR
  <2>1. Contents[k] = e - 2
    BY <1>8, <1>9, <1>11
  <2>2. p # e - 1
    <3>1. CASE k - 1 = 0
      BY <1>3, <1>4, <1>11, <3>1
    <3>2. CASE k - 1 # 0
      BY <1>2, <1>4, <1>11, <3>2, ByteRoles
    <3>3. QED
      BY <3>1, <3>2
  <2>3. p <= e - 2 /\ e - 2 \in Nat /\ e - 2 <= e
    BY <1>3, <1>4, <1>7, <1>11, <2>2
  <2>4. \A i \in TextSeps : i <= e => i <= e - 2
    BY <1>3, <1>10, <1>11
  <2>5. QED
    BY <1>1, <1>3, <1>4, <1>6, <1>7, <1>9, <2>1, <2>3, <2>4 DEF RowFacts
<1>12. CASE ~(e > 1 /\ input[e - 1] = CR)
  <2>1. Contents[k] = e - 1
    BY <1>8, <1>9, <1>12
  <2>2. p <= e - 1 /\ e - 1 \in Nat /\ e - 1 <= e
    BY <1>3, <1>4, <1>7
  <2>3. \A i \in TextSeps : i <= e => i <= e - 1
    BY <1>3, <1>10
  <2>4. QED
    BY <1>1, <1>3, <1>4, <1>6, <1>7, <1>9, <2>1, <2>2, <2>3 DEF RowFacts
<1>13. QED
  BY <1>11, <1>12

LEMMA RowInText ==
    ASSUME ScanInv, phase = "scanned", NEW k \in 1..TextRows
    PROVE  RowFacts(k)
<1>1. /\ Len(row_ends) \in Nat /\ TextRows \in Nat /\ Len(input) \in Nat
      /\ TextRows = Len(row_ends) \/ TextRows = Len(row_ends) + 1
      /\ TextRows = Len(row_ends) + 1 <=> EndOf(Len(row_ends)) < Len(input)
  BY TextRowsType, ScannedIndex
<1>2. CASE k \in 1..Len(row_ends)
  BY <1>2, EndedRow
<1>3. CASE k \notin 1..Len(row_ends)
  <2>1. /\ k = Len(row_ends) + 1 /\ TextRows = k /\ k - 1 = Len(row_ends)
        /\ ~(k <= Len(row_ends)) /\ k - 1 <= Len(row_ends) /\ k \in 0..TextRows
        /\ k - 1 \in 0..Len(row_ends) /\ k - 1 \in 0..TextRows
    BY <1>1, <1>3
  <2>2. EndOf(k - 1) \in 0..Len(input) /\ ~Quoted(input, EndOf(k - 1) + 1)
        /\ EndOf(k - 1) < Len(input)
    BY <1>1, <2>1, StartFacts
  <2>3. Starts[k] = EndOf(k - 1) /\ Contents[k] = Len(input) /\ Resumes[k] = Len(input)
        /\ Resumes[k - 1] = EndOf(k - 1)
    BY <2>1 DEF Starts, Contents, Resumes
  <2>4. QED
    BY <1>1, <2>2, <2>3 DEF RowFacts
<1>4. QED
  BY <1>2, <1>3

(* How many separators stand before a position is their rank. *)
LEMMA SepsBeforeIsRank ==
    ASSUME ScanInv, phase = "scanned", NEW at \in Int
    PROVE  /\ SepsBefore(at) = Rank(TextSeps, at)
           /\ SepsBefore(at) \in 0..Len(field_seps)
           /\ \A k \in 1..Len(field_seps) : field_seps[k] < at <=> k <= SepsBefore(at)
<1> DEFINE S == TextSeps
           r == Rank(S, at)
           D == {k \in DOMAIN field_seps : field_seps[k] < at}
<1>1. /\ S \in SUBSET Int /\ IsFiniteSet(S) /\ Cardinality(S) \in Nat
      /\ field_seps \in Seq(Int) /\ Len(field_seps) = Cardinality(S)
      /\ \A k \in 1..Cardinality(S) : field_seps[k] = Nth(S, k) - 1
  BY ScannedIndex
<1>2. r \in Nat /\ r <= Cardinality(S)
  BY <1>1, RankType
<1> HIDE DEF S, r
<1>3. ASSUME NEW k \in 1..Cardinality(S)
      PROVE  field_seps[k] < at <=> k <= r
  <2>1. Nth(S, k) <= at <=> k <= r
    BY <1>1, NthBelow DEF r
  <2>2. Nth(S, k) \in Int
    BY <1>1, NthOfRank
  <2>3. QED
    BY <1>1, <2>1, <2>2
<1>4. DOMAIN field_seps = 1..Cardinality(S)
  BY <1>1
<1>5. D = 1..r
  <2>1. \A k \in Int : k \in 1..r <=> k \in 1..Cardinality(S) /\ k <= r
    BY <1>1, <1>2
  <2>2. \A k \in D : k \in Int
    BY <1>4
  <2>3. \A k \in 1..r : k \in Int
    OBVIOUS
  <2>4. QED
    BY <1>3, <1>4, <2>1, <2>2, <2>3, Zenon
<1> HIDE DEF D
<1>6. Cardinality(D) = r
  <2>1. Cardinality(1..r) = IF 1 > r THEN 0 ELSE r - 1 + 1
    BY <1>2, FS_Interval
  <2>2. (IF 1 > r THEN 0 ELSE r - 1 + 1) = r
    BY <1>2
  <2>3. QED
    BY <1>5, <2>1, <2>2
<1>7. SepsBefore(at) = r
  BY <1>6 DEF SepsBefore, D
<1>8. QED
  BY <1>1, <1>2, <1>3, <1>7 DEF r, S

(* As no separator stands in a row end, those before the end of a row are  *)
(* those before the end of its content; they become no fewer.              *)
LEMMA SepsOfRows ==
    ASSUME ScanInv, phase = "scanned", NEW k \in 1..TextRows
    PROVE  /\ SepsAt[k] = SepsBefore(Contents[k])
           /\ SepsAt[k - 1] = SepsBefore(Starts[k])
           /\ SepsAt[k - 1] \in 0..Len(field_seps) /\ SepsAt[k] \in 0..Len(field_seps)
           /\ SepsAt[k - 1] <= SepsAt[k]
<1>1. TextRows \in Nat
  BY TextRowsType
<1>2. k \in 0..TextRows /\ k - 1 \in 0..TextRows
  BY <1>1
<1>3. RowFacts(k)
  BY RowInText
<1>4. /\ Starts[k] \in Int /\ Contents[k] \in Int /\ Resumes[k] \in Int
      /\ Starts[k] <= Contents[k] /\ Contents[k] <= Resumes[k] /\ Starts[k] = Resumes[k - 1]
      /\ \A i \in TextSeps : i <= Resumes[k] => i <= Contents[k]
  BY <1>3 DEF RowFacts
<1>5. SepsAt[k] = SepsBefore(Resumes[k]) /\ SepsAt[k - 1] = SepsBefore(Starts[k])
  BY <1>2, <1>4 DEF SepsAt
<1>6. TextSeps \in SUBSET Int /\ IsFiniteSet(TextSeps)
  BY ScannedIndex
<1>7. Rank(TextSeps, Resumes[k]) = Rank(TextSeps, Contents[k])
  <2>1. \A i \in TextSeps : i <= Resumes[k] <=> i <= Contents[k]
    BY <1>4, <1>6
  <2>2. {i \in TextSeps : i <= Resumes[k]} = {i \in TextSeps : i <= Contents[k]}
    BY <2>1
  <2>3. QED
    BY <2>2 DEF Rank
<1>8. /\ SepsBefore(Resumes[k]) = Rank(TextSeps, Resumes[k])
      /\ SepsBefore(Resumes[k]) \in 0..Len(field_seps)
  BY <1>4, SepsBeforeIsRank
<1>9. SepsBefore(Contents[k]) = Rank(TextSeps, Contents[k])
  BY <1>4, SepsBeforeIsRank
<1>10. /\ SepsBefore(Starts[k]) = Rank(TextSeps, Starts[k])
       /\ SepsBefore(Starts[k]) \in 0..Len(field_seps)
  BY <1>4, SepsBeforeIsRank
<1>11. Rank(TextSeps, Starts[k]) <= Rank(TextSeps, Contents[k])
  BY <1>4, <1>6, RankMonotone
<1>12. QED
  BY <1>5, <1>7, <1>8, <1>9, <1>10, <1>11

(* The walk over the separators stops where the binary search would. *)
LEMMA WalkIsSearch ==
    ASSUME ScanInv, phase = "scanned", ContentEnd \in Int,
           sep_cursor \in 0..Len(field_seps), sep_cursor <= SepsBefore(ContentEnd)
    PROVE  SepsOfRow = SepsBefore(ContentEnd)
<1> DEFINE r == SepsBefore(ContentEnd)
           n == Len(field_seps)
           C == {c \in sep_cursor..n : c = n \/ field_seps[c + 1] >= ContentEnd}
<1>1. /\ r \in 0..n /\ \A k \in 1..n : field_seps[k] < ContentEnd <=> k <= r
  BY SepsBeforeIsRank
<1>2. n \in Nat /\ field_seps \in Seq(Int)
  BY ScannedIndex
<1> HIDE DEF r, n
<1>3. r \in sep_cursor..n
  BY <1>1, <1>2 DEF r, n
<1>4. \A k \in 1..n : field_seps[k] \in Int
  BY <1>2 DEF n
<1>5. r \in C
  <2>1. CASE r = n
    BY <1>3, <2>1
  <2>2. CASE r # n
    <3>1. r + 1 \in 1..n /\ ~(r + 1 <= r)
      BY <1>1, <1>2, <2>2
    <3>2. field_seps[r + 1] >= ContentEnd
      BY <1>1, <1>4, <3>1
    <3>3. QED
      BY <1>3, <3>2
  <2>3. QED
    BY <2>1, <2>2
<1>6. \A c \in C : r <= c
  <2>1. ASSUME NEW c \in C, ~(r <= c)
        PROVE  FALSE
    <3>1. c \in Int /\ c + 1 <= r /\ c # n /\ c + 1 \in 1..n
      BY <1>1, <1>2, <2>1 DEF n
    <3>2. field_seps[c + 1] < ContentEnd /\ field_seps[c + 1] \in Int
      BY <1>1, <1>4, <3>1
    <3>3. field_seps[c + 1] >= ContentEnd
      BY <3>1
    <3>4. QED
      BY <3>2, <3>3
  <2>2. QED
    BY <2>1
<1>7. C \in SUBSET Int
  BY <1>2 DEF n
<1>8. Min(C) = r
  BY <1>5, <1>6, <1>7, MinIsLeast
<1>9. QED
  BY <1>8 DEF SepsOfRow, r, n

-----------------------------------------------------------------------------
(* The invariant. *)

(* The iterators stand at the start of a row. *)
CursorKnown ==
    /\ row_idx \in 0..TextRows
    /\ row_pos = Resumes[row_idx]
    /\ sep_cursor = SepsAt[row_idx]

(* What has been planned, extracted and returned are rows of the text. *)
RowsKnown ==
    /\ ranges = IF strategy = "parallel" THEN [k \in 1..row_idx |-> TextRanges[k]]
                                         ELSE <<>>
    /\ DOMAIN extracted \subseteq DOMAIN ranges
    /\ \A j \in DOMAIN extracted : extracted[j] = TextBounds[j]
    /\ rows = IF reply # "none" THEN TextBounds
              ELSE IF strategy = "parallel" THEN <<>>
              ELSE [k \in 1..row_idx |-> TextBounds[k]]
    /\ reply # "none" =>
          reply = IF strict /\ violation # NoViolation THEN "malformed_csv" ELSE "rows"

(* Before the scan has ended there are no rows. *)
Untouched ==
    /\ row_idx = 0 /\ row_pos = 0 /\ sep_cursor = 0
    /\ ranges = <<>> /\ extracted = <<>> /\ rows = <<>>
    /\ reply = "none" \/ (phase = "too_large" /\ reply = "input_too_large")

BatchKnown ==
    /\ strategy \in {"cursor", "parallel", "indexed"} /\ strict \in BOOLEAN
    /\ strategy = "indexed" => ~strict
    /\ phase = "too_large" => TooLarge
    /\ IF phase = "scanned" THEN CursorKnown /\ RowsKnown ELSE Untouched

(* Inductive: with the index known, so are the places of the iterators and *)
(* every row made out of it.                                               *)
BatchInv == ScanInv /\ BatchKnown

(* What the iterators do next: they yield the row they stand at. *)
LEMMA AtRow ==
    ASSUME ScanInv, phase = "scanned", CursorKnown
    PROVE  /\ MoreRows <=> row_idx < TextRows
           /\ row_idx \in Nat /\ row_idx <= TextRows
           /\ MoreRows =>
                 /\ row_idx + 1 \in 1..TextRows
                 /\ row_pos = Starts[row_idx + 1] /\ ContentEnd = Contents[row_idx + 1]
                 /\ NextStart = Resumes[row_idx + 1]
                 /\ sep_cursor = SepsAt[row_idx] /\ SepsOfRow = SepsAt[row_idx + 1]
<1> DEFINE n == Len(row_ends)
<1>1. /\ n \in Nat /\ TextRows \in Nat /\ Len(input) \in Nat
      /\ TextRows = n \/ TextRows = n + 1
      /\ TextRows = n + 1 <=> EndOf(n) < Len(input)
      /\ AsU32(Len(input)) = Len(input)
  BY TextRowsType, ScannedIndex
<1>2. /\ row_idx \in 0..TextRows /\ row_pos = Resumes[row_idx]
      /\ sep_cursor = SepsAt[row_idx]
  BY DEF CursorKnown
<1>3. row_idx \in Nat /\ row_idx <= TextRows
  BY <1>1, <1>2
<1>4. Resumes[row_idx] = IF row_idx <= n THEN EndOf(row_idx) ELSE Len(input)
  BY <1>2 DEF Resumes
<1>5. MoreRows <=> row_idx < n \/ Resumes[row_idx] < Len(input)
  BY <1>1, <1>2 DEF MoreRows
<1> HIDE DEF n
<1>6. MoreRows <=> row_idx < TextRows
  <2>1. CASE row_idx < n
    BY <1>1, <1>3, <1>5, <2>1
  <2>2. CASE row_idx = n
    BY <1>1, <1>3, <1>4, <1>5, <2>2
  <2>3. CASE row_idx > n
    BY <1>1, <1>3, <1>4, <1>5, <2>3
  <2>4. QED
    BY <1>1, <1>3, <2>1, <2>2, <2>3
<1>7. ASSUME MoreRows
      PROVE  /\ row_idx + 1 \in 1..TextRows
             /\ row_pos = Starts[row_idx + 1] /\ ContentEnd = Contents[row_idx + 1]
             /\ NextStart = Resumes[row_idx + 1]
             /\ sep_cursor = SepsAt[row_idx] /\ SepsOfRow = SepsAt[row_idx + 1]
  <2> DEFINE k == row_idx + 1
  <2>1. k \in 1..TextRows /\ k - 1 = row_idx /\ k \in 0..TextRows /\ k \in Int
        /\ (row_idx < n <=> k <= n)
    BY <1>1, <1>3, <1>6, <1>7
  <2> HIDE DEF k
  <2>2. RowFacts(k)
    BY <2>1, RowInText
  <2>3. /\ row_pos = Starts[k] /\ Contents[k] \in Nat /\ Resumes[k] \in Nat
        /\ Resumes[k] <= Len(input)
    BY <1>2, <2>1, <2>2 DEF RowFacts
  <2>4. /\ Contents[k] = IF row_idx < n THEN row_ends[k].pos ELSE Len(input)
        /\ Resumes[k] = IF row_idx < n THEN EndOf(k) ELSE Len(input)
    BY <2>1 DEF Contents, Resumes, n
  <2>5. ContentEnd = Contents[k]
    BY <1>1, <2>4 DEF ContentEnd, k, n
  <2>6. NextStart = Resumes[k]
    <3>1. CASE row_idx < n
      <4>1. NextStart = AsU32(ContentEnd + row_ends[k].len)
        BY <3>1 DEF NextStart, k, n
      <4>2. k # 0
        BY <2>1
      <4>3. EndOf(k) = row_ends[k].pos + row_ends[k].len
        BY <4>2 DEF EndOf
      <4>4. ContentEnd + row_ends[k].len = Resumes[k]
        BY <2>4, <2>5, <3>1, <4>3
      <4>5. Resumes[k] \in 0..MaxInputSize
        <5>1. Len(input) <= MaxInputSize /\ MaxInputSize \in Nat
          BY ScanAssumption DEF ScanInv, Fits
        <5>2. QED
          BY <1>1, <2>3, <5>1
      <4>6. QED
        BY <4>1, <4>4, <4>5, PositionFits
    <3>2. CASE ~(row_idx < n)
      BY <2>4, <2>5, <3>2 DEF NextStart, n
    <3>3. QED
      BY <3>1, <3>2
  <2>7. /\ SepsAt[k] = SepsBefore(Contents[k])
        /\ SepsAt[k - 1] \in 0..Len(field_seps) /\ SepsAt[k - 1] <= SepsAt[k]
    BY <2>1, SepsOfRows
  <2>8. SepsOfRow = SepsAt[k]
    <3>1. /\ sep_cursor \in 0..Len(field_seps) /\ sep_cursor <= SepsBefore(ContentEnd)
          /\ ContentEnd \in Int
      BY <1>2, <2>1, <2>3, <2>5, <2>7
    <3>2. SepsOfRow = SepsBefore(ContentEnd)
      BY <3>1, WalkIsSearch
    <3>3. QED
      BY <2>5, <2>7, <3>2
  <2>9. QED
    BY <1>2, <2>1, <2>3, <2>5, <2>6, <2>8 DEF k
<1>8. QED
  BY <1>3, <1>6, <1>7

(* The index does not change while rows are made out of it. *)
LEMMA SameText ==
    ASSUME UNCHANGED <<input, row_ends, field_seps>>
    PROVE  /\ TextRows' = TextRows /\ Resumes' = Resumes /\ SepsAt' = SepsAt
           /\ TextRanges' = TextRanges /\ TextBounds' = TextBounds
<1>1. \A k : EndOf(k)' = EndOf(k)
  BY DEF EndOf
<1>2. TextRows' = TextRows
  BY DEF TextRows, EndOf
<1>3. Starts' = Starts /\ Contents' = Contents /\ Resumes' = Resumes
  BY <1>2 DEF Starts, Contents, Resumes, EndOf
<1>4. SepsAt' = SepsAt
  BY <1>2, <1>3 DEF SepsAt, SepsBefore
<1>5. QED
  BY <1>2, <1>3, <1>4 DEF TextRanges, TextBounds, FieldBounds

LEMMA FirstOnes ==
    ASSUME NEW n \in Nat, NEW f
    PROVE  /\ Append([k \in 1..n |-> f[k]], f[n + 1]) = [k \in 1..n + 1 |-> f[k]]
           /\ <<>> = [k \in 1..0 |-> f[k]]
<1> DEFINE R == {f[k] : k \in 1..n + 1}
           g == [k \in 1..n |-> f[k]]
           h == [k \in 1..n + 1 |-> f[k]]
<1>1. g \in [1..n -> R] /\ h \in [1..n + 1 -> R] /\ f[n + 1] \in R
  BY DEF g, h, R
<1>2. /\ \A k \in 1..n : g[k] = f[k] /\ h[k] = f[k]
      /\ h[n + 1] = f[n + 1]
  BY DEF g, h
<1> HIDE DEF g, h, R
<1>3. g \in Seq(R) /\ Len(g) = n /\ h \in Seq(R) /\ Len(h) = n + 1
  BY <1>1
<1>4. Append(g, f[n + 1]) = h
  BY <1>1, <1>2, <1>3
<1>5. QED
  BY <1>4 DEF g, h

(* What the text gives as the range and as the bounds of a row. *)
LEMMA RowOfText ==
    ASSUME NEW k \in 1..TextRows
    PROVE  /\ TextRanges[k] = [start |-> Starts[k], end |-> Contents[k],
                               lo |-> SepsAt[k - 1], hi |-> SepsAt[k]]
           /\ TextBounds[k] =
                 FieldBounds(Starts[k], Contents[k],
                             SubSeq(field_seps, SepsAt[k - 1] + 1, SepsAt[k]))
BY DEF TextRanges, TextBounds

(* The scan leaves the iterators at the start of the text. *)
LEMMA AtStart ==
    ScanInv /\ phase = "scanned" /\ reply = "none" /\ Untouched => CursorKnown /\ RowsKnown
<1>1. ASSUME ScanInv, phase = "scanned", reply = "none", Untouched
      PROVE  CursorKnown /\ RowsKnown
  <2>1. TextRows \in Nat /\ Len(row_ends) \in Nat
    BY <1>1, TextRowsType
  <2>2. 0 \in 0..TextRows /\ Resumes[0] = 0
    BY <2>1 DEF Resumes, EndOf
  <2>3. SepsAt[0] = 0
    <3>1. SepsBefore(0) = Rank(TextSeps, 0)
      BY <1>1, SepsBeforeIsRank
    <3>2. {i \in TextSeps : i <= 0} = {}
      BY DEF TextSeps, SepsUpTo
    <3>3. SepsBefore(0) = 0
      BY <3>1, <3>2, FS_EmptySet DEF Rank
    <3>4. QED
      BY <2>2, <3>3 DEF SepsAt
  <2>4. CursorKnown
    BY <1>1, <2>2, <2>3 DEF CursorKnown, Untouched
  <2>5. \A f : <<>> = [k \in 1..0 |-> f[k]]
    BY FirstOnes
  <2>6. RowsKnown
    BY <1>1, <2>5 DEF RowsKnown, Untouched
  <2>7. QED
    BY <2>4, <2>6
<1>2. QED
  BY <1>1

LEMMA InitBatch == BatchInit => BatchInv
<1>1. ASSUME BatchInit
      PROVE  BatchInv
  <2>1. ScanInv
    BY <1>1, InitScan DEF BatchInit
  <2>2. phase = IF TooLarge THEN "too_large" ELSE "chunks"
    BY <1>1 DEF BatchInit, Init
  <2>3. Untouched
    BY <1>1 DEF BatchInit, Untouched
  <2>4. QED
    BY <1>1, <2>1, <2>2, <2>3 DEF BatchInit, BatchInv, BatchKnown
<1>2. QED
  BY <1>1

LEMMA ScanStep ==
    ASSUME BatchInv, Scan, UNCHANGED batchVars
    PROVE  BatchInv'
<1>1. ScanInv'
  BY NextScan DEF BatchInv, Next
<1>2. /\ phase \in {"chunks", "tail"} /\ phase' \in {"chunks", "tail", "scanned"}
      /\ input' = input
  BY DEF Scan, ScanChunk, StartTail, ScanTail, EndTail, InTail,
         TailQuotedByte, TailDoubledEscape, TailClosingEscape, TailOpeningEscape,
         TailLineFeed, TailSeparator, TailData
<1>3. Untouched /\ reply = "none"
  BY <1>2 DEF BatchInv, BatchKnown, Untouched
<1>4. Untouched' /\ reply' = "none"
  BY <1>3 DEF Untouched, batchVars, cursor
<1>5. phase' = "scanned" => CursorKnown' /\ RowsKnown'
  <2>1. (ScanInv /\ phase = "scanned" /\ reply = "none" /\ Untouched => CursorKnown /\ RowsKnown)'
    BY AtStart, PTL
  <2>2. QED
    BY <1>1, <1>4, <2>1
<1>6. QED
  BY <1>1, <1>2, <1>4, <1>5 DEF BatchInv, BatchKnown, batchVars

(* A step that leaves the scan alone keeps what the scan found out. *)
LEMMA ScanStays ==
    ASSUME BatchInv, UNCHANGED <<scanVars, strategy, strict>>, phase = "scanned",
           CursorKnown', RowsKnown'
    PROVE  BatchInv'
<1>1. UNCHANGED scanVars
  OBVIOUS
<1>2. ScanInv'
  BY <1>1, NextScan DEF BatchInv
<1>3. phase' = "scanned"
  BY DEF scanVars
<1>4. QED
  BY <1>2, <1>3 DEF BatchInv, BatchKnown

(* What a parse that is under way knows. *)
LEMMA WhileParsing ==
    ASSUME BatchInv, Parsing
    PROVE  /\ ScanInv /\ phase = "scanned" /\ reply = "none" /\ CursorKnown /\ RowsKnown
           /\ row_idx \in Nat /\ row_idx <= TextRows /\ TextRows \in Nat
           /\ MoreRows <=> row_idx < TextRows
           /\ ~MoreRows => row_idx = TextRows
<1>1. /\ ScanInv /\ phase = "scanned" /\ reply = "none" /\ CursorKnown /\ RowsKnown
  BY DEF BatchInv, BatchKnown, Parsing
<1>2. /\ row_idx \in Nat /\ row_idx <= TextRows /\ TextRows \in Nat
      /\ MoreRows <=> row_idx < TextRows
  BY <1>1, AtRow, TextRowsType
<1>3. QED
  BY <1>1, <1>2

LEMMA AdvanceCursor ==
    ASSUME BatchInv, Parsing, MoreRows, Advance, UNCHANGED scanVars
    PROVE  CursorKnown'
<1>1. /\ row_idx \in Nat /\ row_idx + 1 \in 1..TextRows /\ TextRows \in Nat
      /\ NextStart = Resumes[row_idx + 1] /\ SepsOfRow = SepsAt[row_idx + 1]
  BY WhileParsing, AtRow
<1>2. TextRows' = TextRows /\ Resumes' = Resumes /\ SepsAt' = SepsAt
  BY SameText DEF scanVars, index
<1>3. /\ row_idx' = row_idx + 1 /\ row_pos' = Resumes[row_idx'] /\ sep_cursor' = SepsAt[row_idx']
  BY <1>1 DEF Advance
<1>4. row_idx' \in 0..TextRows
  BY <1>1, <1>3
<1>5. QED
  BY <1>2, <1>3, <1>4 DEF CursorKnown

LEMMA AppendRowStep ==
    ASSUME BatchInv, Parsing, MoreRows, strategy \in {"cursor", "indexed"}, AppendRow
    PROVE  BatchInv'
<1>1. CursorKnown'
  BY AdvanceCursor DEF AppendRow
<1>2. /\ phase = "scanned" /\ reply = "none" /\ RowsKnown /\ strategy # "parallel"
      /\ row_idx \in Nat
  BY WhileParsing
<1>3. TextRows' = TextRows /\ TextBounds' = TextBounds
  BY SameText DEF AppendRow, scanVars, index
<1>4. rows = [k \in 1..row_idx |-> TextBounds[k]]
  BY <1>2 DEF RowsKnown
<1>5. FieldBounds(row_pos, ContentEnd, SubSeq(field_seps, sep_cursor + 1, SepsOfRow))
         = TextBounds[row_idx + 1]
  <2>1. /\ row_idx + 1 \in 1..TextRows
        /\ row_pos = Starts[row_idx + 1] /\ ContentEnd = Contents[row_idx + 1]
        /\ sep_cursor = SepsAt[row_idx] /\ SepsOfRow = SepsAt[row_idx + 1]
        /\ (row_idx + 1) - 1 = row_idx
    BY <1>2, WhileParsing, AtRow
  <2>2. QED
    BY <2>1, RowOfText
<1>6. rows' = [k \in 1..row_idx + 1 |-> TextBounds[k]]
  <2>1. rows' = Append(rows, TextBounds[row_idx + 1])
    BY <1>5 DEF AppendRow
  <2>2. Append([k \in 1..row_idx |-> TextBounds[k]], TextBounds[row_idx + 1])
           = [k \in 1..row_idx + 1 |-> TextBounds[k]]
    BY <1>2, FirstOnes
  <2>3. QED
    BY <1>4, <2>1, <2>2
<1>7. RowsKnown'
  <2>1. /\ row_idx' = row_idx + 1 /\ reply' = "none" /\ strategy' = strategy
        /\ ranges' = ranges /\ extracted' = extracted
    BY <1>2 DEF AppendRow, Advance
  <2>2. ranges = <<>> /\ ranges' = <<>>
    BY <1>2, <2>1 DEF RowsKnown
  <2>3. QED
    BY <1>2, <1>3, <1>6, <2>1, <2>2 DEF RowsKnown
<1>8. QED
  BY <1>1, <1>2, <1>7, ScanStays DEF AppendRow

LEMMA PlanRowStep ==
    ASSUME BatchInv, PlanRow
    PROVE  BatchInv'
<1>1. /\ Parsing /\ MoreRows /\ strategy = "parallel" /\ UNCHANGED scanVars
  BY DEF PlanRow
<1>2. CursorKnown'
  BY <1>1, AdvanceCursor DEF PlanRow
<1>3. phase = "scanned" /\ reply = "none" /\ RowsKnown /\ row_idx \in Nat
  BY <1>1, WhileParsing
<1>4. TextRows' = TextRows /\ TextBounds' = TextBounds /\ TextRanges' = TextRanges
  BY <1>1, SameText DEF scanVars, index
<1>5. ranges = [k \in 1..row_idx |-> TextRanges[k]]
  BY <1>1, <1>3 DEF RowsKnown
<1>6. [start |-> row_pos, end |-> ContentEnd, lo |-> SepsFrom, hi |-> SepsOfRow]
         = TextRanges[row_idx + 1]
  <2>1. /\ row_idx + 1 \in 1..TextRows
        /\ row_pos = Starts[row_idx + 1] /\ ContentEnd = Contents[row_idx + 1]
        /\ sep_cursor = SepsAt[row_idx] /\ SepsOfRow = SepsAt[row_idx + 1]
        /\ (row_idx + 1) - 1 = row_idx
    BY <1>1, <1>3, WhileParsing, AtRow
  <2>2. QED
    BY <2>1, RowOfText DEF SepsFrom
<1>7. ranges' = [k \in 1..row_idx + 1 |-> TextRanges[k]]
  <2>1. ranges' = Append(ranges, TextRanges[row_idx + 1])
    BY <1>6 DEF PlanRow
  <2>2. Append([k \in 1..row_idx |-> TextRanges[k]], TextRanges[row_idx + 1])
           = [k \in 1..row_idx + 1 |-> TextRanges[k]]
    BY <1>3, FirstOnes
  <2>3. QED
    BY <1>5, <2>1, <2>2
<1>8. RowsKnown'
  <2>1. /\ row_idx' = row_idx + 1 /\ reply' = "none" /\ strategy' = "parallel"
        /\ rows' = rows /\ extracted' = extracted
    BY <1>1, <1>3 DEF PlanRow, Advance
  <2>2. rows = <<>>
    BY <1>1, <1>3 DEF RowsKnown
  <2>3. DOMAIN ranges \subseteq DOMAIN ranges'
    BY <1>3, <1>5, <1>7
  <2>4. DOMAIN extracted' \subseteq DOMAIN ranges'
    BY <1>3, <2>1, <2>3 DEF RowsKnown
  <2>5. \A j \in DOMAIN extracted' : extracted'[j] = TextBounds'[j]
    BY <1>3, <1>4, <2>1 DEF RowsKnown
  <2>6. ranges' = [k \in 1..row_idx' |-> TextRanges'[k]]
    BY <1>4, <1>7, <2>1
  <2>7. QED
    BY <2>1, <2>2, <2>4, <2>5, <2>6 DEF RowsKnown
<1>9. QED
  BY <1>1, <1>2, <1>3, <1>8, ScanStays DEF PlanRow

(* A worker extracts the row that was planned, whenever its turn comes. *)
LEMMA ExtractStep ==
    ASSUME BatchInv, NEW i \in DOMAIN ranges, Extract(i)
    PROVE  BatchInv'
<1>1. /\ Parsing /\ ~MoreRows /\ strategy = "parallel" /\ UNCHANGED scanVars
      /\ UNCHANGED <<strategy, strict, cursor, ranges, rows, reply>>
  BY DEF Extract
<1>2. phase = "scanned" /\ reply = "none" /\ RowsKnown /\ row_idx \in Nat /\ CursorKnown
      /\ row_idx <= TextRows /\ TextRows \in Nat
  BY <1>1, WhileParsing
<1>3. /\ TextRows' = TextRows /\ Resumes' = Resumes /\ SepsAt' = SepsAt
      /\ TextBounds' = TextBounds /\ TextRanges' = TextRanges
  BY <1>1, SameText DEF scanVars, index
<1>4. ranges = [k \in 1..row_idx |-> TextRanges[k]]
  BY <1>1, <1>2 DEF RowsKnown
<1>5. i \in 1..row_idx /\ i \in 1..TextRows
  BY <1>2, <1>4
<1>6. LET r == ranges[i]
      IN  FieldBounds(r.start, r.end, SubSeq(field_seps, r.lo + 1, r.hi)) = TextBounds[i]
  <2>1. ranges[i] = [start |-> Starts[i], end |-> Contents[i],
                     lo |-> SepsAt[i - 1], hi |-> SepsAt[i]]
    BY <1>4, <1>5, RowOfText
  <2>2. QED
    BY <1>5, <2>1, RowOfText
<1>7. /\ DOMAIN extracted' = DOMAIN extracted \cup {i}
      /\ \A j \in DOMAIN extracted' :
            extracted'[j] = IF j = i THEN TextBounds[i] ELSE extracted[j]
  <2>1. extracted' = [j \in DOMAIN extracted \cup {i} |->
                         IF j = i THEN TextBounds[i] ELSE extracted[j]]
    BY <1>6 DEF Extract
  <2>2. QED
    BY <2>1
<1>8. \A j \in DOMAIN extracted' : extracted'[j] = TextBounds'[j]
  BY <1>2, <1>3, <1>7 DEF RowsKnown
<1>9. DOMAIN extracted' \subseteq DOMAIN ranges'
  BY <1>1, <1>2, <1>7 DEF RowsKnown
<1>10. row_idx' = row_idx /\ row_pos' = row_pos /\ sep_cursor' = sep_cursor
  BY <1>1 DEF cursor
<1>11. CursorKnown'
  BY <1>2, <1>3, <1>10 DEF CursorKnown
<1>12. RowsKnown'
  <2>1. rows' = <<>> /\ reply' = "none" /\ strategy' = "parallel"
    BY <1>1, <1>2 DEF RowsKnown
  <2>2. ranges' = [k \in 1..row_idx' |-> TextRanges'[k]]
    BY <1>1, <1>3, <1>4, <1>10
  <2>3. QED
    BY <1>8, <1>9, <2>1, <2>2 DEF RowsKnown
<1>13. QED
  BY <1>1, <1>2, <1>11, <1>12, ScanStays

LEMMA AnswerStep ==
    ASSUME BatchInv, Parsing,
           UNCHANGED <<scanVars, strategy, strict, cursor, ranges, extracted>>,
           rows' = TextBounds,
           reply' = IF strict /\ violation # NoViolation THEN "malformed_csv" ELSE "rows"
    PROVE  BatchInv'
<1>1. phase = "scanned" /\ RowsKnown /\ CursorKnown
  BY WhileParsing
<1>2. UNCHANGED scanVars
  OBVIOUS
<1>3. /\ TextRows' = TextRows /\ Resumes' = Resumes /\ SepsAt' = SepsAt
      /\ TextBounds' = TextBounds /\ TextRanges' = TextRanges
  BY <1>2, SameText DEF scanVars, index
<1>4. /\ row_idx' = row_idx /\ row_pos' = row_pos /\ sep_cursor' = sep_cursor
      /\ violation' = violation
  BY DEF cursor, scanVars, index
<1>5. CursorKnown'
  BY <1>1, <1>3, <1>4 DEF CursorKnown
<1>6. RowsKnown'
  BY <1>1, <1>3, <1>4 DEF RowsKnown
<1>7. QED
  BY <1>1, <1>2, <1>5, <1>6, ScanStays

LEMMA EndOfRowsStep ==
    ASSUME BatchInv, EndOfRows
    PROVE  BatchInv'
<1>1. Parsing /\ strategy = "cursor" /\ ~MoreRows /\ Answer(rows, violation)
  BY DEF EndOfRows
<1>2. RowsKnown /\ reply = "none" /\ row_idx = TextRows
  BY <1>1, WhileParsing
<1>3. rows = TextBounds
  BY <1>1, <1>2 DEF RowsKnown, TextBounds
<1>4. rows' = TextBounds
      /\ reply' = IF strict /\ violation # NoViolation THEN "malformed_csv" ELSE "rows"
  BY <1>1, <1>3 DEF Answer
<1>5. QED
  BY <1>1, <1>4, AnswerStep DEF EndOfRows

(* Every row starts before the end of the input, so the index has no empty *)
(* row at its end to be dropped.                                           *)
LEMMA NoEmptyTail ==
    ASSUME ScanInv, phase = "scanned"
    PROVE  WithoutEmptyTail(TextBounds) = TextBounds
<1>1. TextRows \in Nat
  BY TextRowsType
<1>2. CASE TextRows = 0
  <2>1. 1..TextRows = {}
    BY <1>2
  <2>2. TextBounds = <<>>
    BY <2>1 DEF TextBounds
  <2>3. QED
    BY <2>2 DEF WithoutEmptyTail
<1>3. CASE TextRows # 0
  <2> DEFINE k == TextRows
  <2>1. k \in 1..TextRows
    BY <1>1, <1>3
  <2>2. Starts[k] \in Nat /\ Len(input) \in Nat /\ Starts[k] < Len(input)
    BY <2>1, RowInText, ScannedIndex DEF RowFacts
  <2>3. TextBounds[k] = FieldBounds(Starts[k], Contents[k],
                                    SubSeq(field_seps, SepsAt[k - 1] + 1, SepsAt[k]))
    BY <2>1, RowOfText
  <2>4. TextBounds[k][1][1] = Starts[k]
    <3> DEFINE seps == SubSeq(field_seps, SepsAt[k - 1] + 1, SepsAt[k])
               rest == [j \in DOMAIN seps |-> seps[j] + 1]
               starts == <<Starts[k]>> \o rest
    <3>1. /\ field_seps \in Seq(Int) /\ SepsAt[k - 1] \in Int /\ SepsAt[k] \in Int
          /\ 0 <= SepsAt[k - 1] /\ SepsAt[k] <= Len(field_seps)
      BY <2>1, ScannedIndex, SepsOfRows
    <3>2. seps \in Seq(Int)
      BY <3>1
    <3> HIDE DEF seps
    <3>3. rest \in Seq(Int)
      BY <3>2
    <3> HIDE DEF rest
    <3>4. starts[1] = Starts[k] /\ 1 \in DOMAIN starts
      BY <2>2, <3>3
    <3>5. FieldBounds(Starts[k], Contents[k], seps)[1] =
             <<starts[1], Append(seps, Contents[k])[1]>>
      BY <3>4 DEF FieldBounds, rest
    <3>6. QED
      BY <2>3, <3>4, <3>5 DEF seps
  <2>5. Len(TextBounds) = k
    BY <1>1 DEF TextBounds
  <2>6. Last(TextBounds) = TextBounds[k]
    BY <2>5 DEF Last
  <2>7. TextBounds[k] # <<<<Len(input), Len(input)>>>>
    BY <2>2, <2>4
  <2>8. QED
    BY <2>6, <2>7 DEF WithoutEmptyTail
<1>4. QED
  BY <1>2, <1>3

LEMMA EndOfIndexStep ==
    ASSUME BatchInv, EndOfIndex
    PROVE  BatchInv'
<1>1. Parsing /\ strategy = "indexed" /\ ~MoreRows /\ ~strict
      /\ Answer(WithoutEmptyTail(rows), NoViolation)
  BY DEF EndOfIndex, BatchInv, BatchKnown
<1>2. RowsKnown /\ reply = "none" /\ row_idx = TextRows /\ ScanInv /\ phase = "scanned"
  BY <1>1, WhileParsing
<1>3. rows = TextBounds
  BY <1>1, <1>2 DEF RowsKnown, TextBounds
<1>4. rows' = TextBounds
      /\ reply' = IF strict /\ violation # NoViolation THEN "malformed_csv" ELSE "rows"
  BY <1>1, <1>2, <1>3, NoEmptyTail DEF Answer
<1>5. QED
  BY <1>1, <1>4, AnswerStep DEF EndOfIndex

LEMMA EmptyIsWellFormed ==
    ASSUME NEW s \in Seq(Byte), Len(s) = 0
    PROVE  FirstViolation(s, TRUE) = NoViolation
<1>1. UnexpectedQuotes(s) = {} /\ TrailingGarbage(s, TRUE) = {}
  BY DEF UnexpectedQuotes, TrailingGarbage
<1>2. ~Quoted(s, Len(s) + 1)
  <2>1. Len(s) + 1 = 0 + 1
    OBVIOUS
  <2>2. QED
    BY <2>1, QuotedAtStart
<1>3. QED
  BY <1>1, <1>2 DEF FirstViolation

LEMMA PlanIsEmptyStep ==
    ASSUME BatchInv, PlanIsEmpty
    PROVE  BatchInv'
<1>1. Parsing /\ strategy = "parallel" /\ ~MoreRows /\ ranges = <<>>
      /\ Answer(<<>>, NoViolation)
  BY DEF PlanIsEmpty
<1>2. /\ RowsKnown /\ row_idx = TextRows /\ TextRows \in Nat /\ ScanInv /\ phase = "scanned"
  BY <1>1, WhileParsing
<1>3. TextRows = 0
  <2>1. ranges = [k \in 1..TextRows |-> TextRanges[k]]
    BY <1>1, <1>2 DEF RowsKnown
  <2>2. 1..TextRows = {}
    BY <1>1, <2>1
  <2>3. QED
    BY <1>2, <2>2
<1>4. TextBounds = <<>>
  <2>1. 1..TextRows = {}
    BY <1>3
  <2>2. QED
    BY <2>1 DEF TextBounds
<1>5. violation = NoViolation
  <2>1. /\ Len(row_ends) \in Nat /\ Len(input) \in Nat /\ input \in Seq(Byte)
        /\ TextRows = Len(row_ends) \/ TextRows = Len(row_ends) + 1
        /\ TextRows = Len(row_ends) + 1 <=> EndOf(Len(row_ends)) < Len(input)
    BY <1>2, TextRowsType, ScannedIndex
  <2>2. Len(row_ends) = 0 /\ EndOf(0) = 0 /\ ~(EndOf(Len(row_ends)) < Len(input))
    BY <1>3, <2>1 DEF EndOf
  <2>3. Len(input) = 0
    BY <2>1, <2>2
  <2>4. QED
    BY <1>2, <2>1, <2>3, EmptyIsWellFormed DEF ScanInv, ViolationKnown
<1>6. rows' = TextBounds
      /\ reply' = IF strict /\ violation # NoViolation THEN "malformed_csv" ELSE "rows"
  BY <1>1, <1>4, <1>5 DEF Answer
<1>7. QED
  BY <1>1, <1>6, AnswerStep DEF PlanIsEmpty

LEMMA CollectStep ==
    ASSUME BatchInv, Collect
    PROVE  BatchInv'
<1>1. /\ Parsing /\ strategy = "parallel" /\ ~MoreRows /\ DOMAIN extracted = DOMAIN ranges
      /\ Answer([i \in DOMAIN ranges |-> extracted[i]], violation)
  BY DEF Collect
<1>2. RowsKnown /\ row_idx = TextRows /\ TextRows \in Nat
  BY <1>1, WhileParsing
<1>3. DOMAIN ranges = 1..TextRows
  BY <1>1, <1>2 DEF RowsKnown
<1>4. \A i \in 1..TextRows : extracted[i] = TextBounds[i]
  BY <1>1, <1>2, <1>3 DEF RowsKnown
<1>5. [i \in DOMAIN ranges |-> extracted[i]] = TextBounds
  BY <1>3, <1>4 DEF TextBounds
<1>6. rows' = TextBounds
      /\ reply' = IF strict /\ violation # NoViolation THEN "malformed_csv" ELSE "rows"
  BY <1>1, <1>5 DEF Answer
<1>7. QED
  BY <1>1, <1>6, AnswerStep DEF Collect

LEMMA RefuseStep ==
    ASSUME BatchInv, Refuse
    PROVE  BatchInv'
<1>1. /\ phase = "too_large" /\ UNCHANGED scanVars /\ reply' = "input_too_large"
      /\ UNCHANGED <<strategy, strict, cursor, ranges, extracted, rows>>
  BY DEF Refuse
<1>2. ScanInv'
  BY <1>1, NextScan DEF BatchInv
<1>3. phase' = "too_large" /\ input' = input
  BY <1>1 DEF scanVars
<1>4. Untouched'
  BY <1>1, <1>3 DEF BatchInv, BatchKnown, Untouched, cursor
<1>5. TooLarge'
  BY <1>1, <1>3 DEF BatchInv, BatchKnown, TooLarge
<1>6. QED
  BY <1>1, <1>2, <1>3, <1>4, <1>5 DEF BatchInv, BatchKnown

LEMMA SameBatch ==
    ASSUME BatchInv, UNCHANGED vars
    PROVE  BatchInv'
<1>1. UNCHANGED scanVars /\ UNCHANGED batchVars
  BY DEF vars
<1>2. ScanInv'
  BY <1>1, NextScan DEF BatchInv
<1>3. UNCHANGED <<input, phase, row_ends, field_seps, violation, strategy, strict,
                  row_idx, row_pos, sep_cursor, ranges, extracted, rows, reply>>
  BY <1>1 DEF scanVars, index, batchVars, cursor
<1>4. /\ TextRows' = TextRows /\ Resumes' = Resumes /\ SepsAt' = SepsAt
      /\ TextBounds' = TextBounds /\ TextRanges' = TextRanges
  BY <1>3, SameText
<1>5. CursorKnown' = CursorKnown
  BY <1>3, <1>4 DEF CursorKnown
<1>6. RowsKnown => RowsKnown'
  BY <1>3, <1>4 DEF RowsKnown
<1>7. Untouched' = Untouched /\ TooLarge' = TooLarge
  BY <1>3 DEF Untouched, TooLarge
<1>8. QED
  BY <1>2, <1>3, <1>5, <1>6, <1>7 DEF BatchInv, BatchKnown

LEMMA NextBatch == BatchInv /\ [BatchNext]_vars => BatchInv'
<1> SUFFICES ASSUME BatchInv, [BatchNext]_vars
             PROVE  BatchInv'
  OBVIOUS
<1>1. CASE Scan /\ UNCHANGED batchVars
  BY <1>1, ScanStep
<1>2. CASE NextRow
  BY <1>2, AppendRowStep DEF NextRow
<1>3. CASE IndexRow
  BY <1>3, AppendRowStep DEF IndexRow
<1>4. CASE EndOfRows
  BY <1>4, EndOfRowsStep
<1>5. CASE EndOfIndex
  BY <1>5, EndOfIndexStep
<1>6. CASE PlanRow
  BY <1>6, PlanRowStep
<1>7. CASE PlanIsEmpty
  BY <1>7, PlanIsEmptyStep
<1>8. CASE Collect
  BY <1>8, CollectStep
<1>9. CASE \E i \in DOMAIN ranges : Extract(i)
  BY <1>9, ExtractStep
<1>10. CASE Refuse
  BY <1>10, RefuseStep
<1>11. CASE Answered
  BY <1>11, SameBatch DEF Answered
<1>12. CASE UNCHANGED vars
  BY <1>12, SameBatch
<1>13. QED
  BY <1>1, <1>2, <1>3, <1>4, <1>5, <1>6, <1>7, <1>8, <1>9, <1>10, <1>11, <1>12
     DEF BatchNext

-----------------------------------------------------------------------------
(* The rows of the index are those of the text. *)

LEMMA EndIsRowEnd ==
    ASSUME ScanInv, phase = "scanned", NEW k \in 0..Len(row_ends)
    PROVE  EndOf(k) = RowEnd(input, k)
<1>1. CASE k = 0
  BY <1>1 DEF EndOf, RowEnd
<1>2. CASE k # 0
  <2>1. k > 0 /\ Len(row_ends) \in Nat
    BY <1>2, ScannedIndex
  <2>2. EndOf(k) = Nth(RowEnds(input), k)
    BY <2>1, StartFacts
  <2>3. QED
    BY <1>2, <2>2 DEF RowEnd
<1>3. QED
  BY <1>1, <1>2

(* The line that ends at a row end is the content of its row. *)
LEMMA LineOfRow ==
    ASSUME ScanInv, phase = "scanned", NEW k \in 1..Len(row_ends)
    PROVE  EndedLines(input)[k] = SubSeq(input, Starts[k] + 1, Contents[k])
<1> DEFINE n == Len(row_ends)
           e == EndOf(k)
           p == EndOf(k - 1)
<1>1. /\ n \in Nat /\ TextRows \in Nat /\ n <= TextRows /\ Len(input) \in Nat
      /\ input \in Seq(Byte) /\ n = Cardinality(RowEnds(input))
  BY TextRowsType, ScannedIndex
<1>2. k \in 1..TextRows /\ k \in 0..n /\ k - 1 \in 0..n /\ k > 0 /\ k <= n
  BY <1>1
<1>3. EndedLines(input)[k] = LineAt(input, p + 1, e)
  <2>1. EndedLines(input)[k] = LineAt(input, RowEnd(input, k - 1) + 1, RowEnd(input, k))
    BY <1>1, EndedLinesAt
  <2>2. p = RowEnd(input, k - 1) /\ e = RowEnd(input, k)
    BY <1>2, EndIsRowEnd
  <2>3. QED
    BY <2>1, <2>2
<1>4. /\ e \in Int /\ p \in Nat /\ (k - 1 = 0 => p = 0)
      /\ k - 1 > 0 => input[p] = LF
  BY <1>2, StartFacts
<1>5. /\ Starts[k] = p
      /\ Contents[k] = row_ends[k].pos
      /\ row_ends[k] = IF e > 1 /\ input[e - 1] = CR THEN [pos |-> e - 2, len |-> 2]
                                                     ELSE [pos |-> e - 1, len |-> 1]
  <2>1. Starts[k] = p /\ Contents[k] = row_ends[k].pos
    BY <1>2 DEF Starts, Contents
  <2>2. e = Nth(RowEnds(input), k)
    BY ScannedRow
  <2>3. QED
    BY <2>1, <2>2, ScannedRow
<1>6. p < e
  <2>1. RowFacts(k)
    BY <1>2, RowInText
  <2>2. /\ k \in 0..TextRows /\ Resumes[k] = e
    BY <1>1, <1>2 DEF Resumes
  <2>3. p <= row_ends[k].pos /\ row_ends[k].pos < e
    <3>1. p <= row_ends[k].pos
      BY <1>5, <2>1 DEF RowFacts
    <3>2. row_ends[k].pos = e - 2 \/ row_ends[k].pos = e - 1
      BY <1>5
    <3>3. QED
      BY <1>4, <3>1, <3>2
  <2>4. row_ends[k].pos \in Int
    BY <1>5, <2>1 DEF RowFacts
  <2>5. QED
    BY <1>4, <2>3, <2>4
<1> HIDE DEF e, p, n
<1>7. e > 1 /\ input[e - 1] = CR <=> e > p + 1 /\ input[e - 1] = CR
  <2>1. ASSUME e > 1, input[e - 1] = CR
        PROVE  e > p + 1
    <3>1. p # e - 1
      <4>1. CASE k - 1 = 0
        BY <1>4, <2>1, <4>1
      <4>2. CASE k - 1 # 0
        <5>1. input[p] = LF
          BY <1>1, <1>2, <1>4, <4>2
        <5>2. QED
          BY <2>1, <5>1, ByteRoles
      <4>3. QED
        BY <4>1, <4>2
    <3>2. QED
      BY <1>4, <1>6, <3>1
  <2>2. e > p + 1 => e > 1
    BY <1>4
  <2>3. QED
    BY <2>1, <2>2
<1>8. Contents[k] = IF e > p + 1 /\ input[e - 1] = CR THEN e - 2 ELSE e - 1
  <2>1. Contents[k] = IF e > 1 /\ input[e - 1] = CR THEN e - 2 ELSE e - 1
    BY <1>5
  <2>2. QED
    BY <1>7, <2>1
<1>9. LineAt(input, p + 1, e) = SubSeq(input, p + 1, Contents[k])
  BY <1>8 DEF LineAt
<1>10. QED
  BY <1>3, <1>5, <1>9

LEMMA LinesOfRows ==
    ASSUME ScanInv, phase = "scanned"
    PROVE  /\ Len(AllLines(input)) = TextRows /\ DOMAIN AllLines(input) = 1..TextRows
           /\ \A k \in 1..TextRows :
                 AllLines(input)[k] = SubSeq(input, Starts[k] + 1, Contents[k])
<1> DEFINE n == Len(row_ends)
           ended == EndedLines(input)
           last == LastLine(input)
           rest == IF last = <<>> THEN <<>> ELSE <<last>>
<1>1. /\ n \in Nat /\ TextRows \in Nat /\ Len(input) \in Nat
      /\ TextRows = n \/ TextRows = n + 1
      /\ TextRows = n + 1 <=> EndOf(n) < Len(input)
      /\ input \in Seq(Byte) /\ n = Cardinality(RowEnds(input))
  BY TextRowsType, ScannedIndex
<1>2. ended \in Seq(Seq(Byte)) /\ Len(ended) = n
  BY <1>1, EndedLinesAt
<1>3. \A k \in 1..n : ended[k] = SubSeq(input, Starts[k] + 1, Contents[k])
  BY LineOfRow
<1>4. EndOf(n) \in 0..Len(input)
  <2>1. n \in 0..n
    BY <1>1
  <2>2. QED
    BY <2>1, StartFacts
<1>5. last = SubSeq(input, EndOf(n) + 1, Len(input))
  <2>1. n \in 0..n
    BY <1>1
  <2>2. EndOf(n) = RowEnd(input, n)
    BY <2>1, EndIsRowEnd
  <2>3. QED
    BY <1>1, <2>2, LastLineAt
<1>6. /\ last \in Seq(Byte) /\ Len(last) = Len(input) - EndOf(n)
  <2> DEFINE p == EndOf(n)
  <2>1. p \in 0..Len(input)
    BY <1>4
  <2> HIDE DEF p
  <2>2. \A i \in p + 1..Len(input) : input[i] \in Byte
    BY <1>1, <2>1
  <2>3. /\ SubSeq(input, p + 1, Len(input)) \in Seq(Byte)
        /\ Len(SubSeq(input, p + 1, Len(input)))
              = IF p + 1 <= Len(input) THEN Len(input) - (p + 1) + 1 ELSE 0
    BY <1>1, <2>1, <2>2, SubSeqProperties
  <2>4. QED
    BY <1>1, <1>5, <2>1, <2>3 DEF p
<1>7. AllLines(input) = ended \o rest
  BY DEF AllLines
<1>8. last = <<>> <=> TextRows = n
  <2>1. last = <<>> <=> Len(last) = 0
    BY <1>6
  <2>2. QED
    BY <1>1, <1>4, <1>6, <2>1
<1>9. TextRows = n + 1 => Starts[n + 1] = EndOf(n) /\ Contents[n + 1] = Len(input)
  <2>1. ASSUME TextRows = n + 1
        PROVE  Starts[n + 1] = EndOf(n) /\ Contents[n + 1] = Len(input)
    <3>1. n + 1 \in 1..TextRows /\ (n + 1) - 1 = n /\ ~(n + 1 <= n)
      BY <1>1, <2>1
    <3>2. QED
      BY <3>1 DEF Starts, Contents
  <2>2. QED
    BY <2>1
<1> HIDE DEF ended, last, n
<1>10. CASE TextRows = n
  <2>1. rest = <<>>
    BY <1>8, <1>10
  <2>2. AllLines(input) = ended
    BY <1>2, <1>7, <2>1
  <2>3. QED
    BY <1>1, <1>2, <1>3, <1>10, <2>2
<1>11. CASE TextRows = n + 1
  <2>1. rest = <<last>>
    BY <1>1, <1>8, <1>11
  <2>2. AllLines(input) = Append(ended, last)
    BY <1>2, <1>6, <1>7, <2>1
  <2>3. /\ Len(AllLines(input)) = n + 1 /\ DOMAIN AllLines(input) = 1..n + 1
        /\ \A k \in 1..n : AllLines(input)[k] = ended[k]
        /\ AllLines(input)[n + 1] = last
    BY <1>1, <1>2, <1>6, <2>2
  <2>4. last = SubSeq(input, Starts[n + 1] + 1, Contents[n + 1])
    BY <1>5, <1>9, <1>11 DEF n
  <2>5. ASSUME NEW k \in 1..n + 1
        PROVE  AllLines(input)[k] = SubSeq(input, Starts[k] + 1, Contents[k])
    <3>1. k \in 1..n \/ k = n + 1
      BY <1>1
    <3>2. QED
      BY <1>3, <2>3, <2>4, <3>1
  <2>6. QED
    BY <1>11, <2>3, <2>5
<1>12. QED
  BY <1>1, <1>10, <1>11

(* The bounds of a row are its cuts. *)
LEMMA RowShape ==
    ASSUME ScanInv, phase = "scanned", NEW k \in 1..TextRows
    PROVE  TextBounds[k] =
              [j \in 1..Cardinality(SepsOfPart(input, Starts[k], Contents[k])) + 1 |->
                  <<CutOf(input, Starts[k], Contents[k], j - 1),
                    CutOf(input, Starts[k], Contents[k], j) - 1>>]
<1> DEFINE a == Starts[k]
           b == Contents[k]
           Q == SepsOfPart(input, a, b)
           m == Cardinality(Q)
           lo == SepsAt[k - 1]
           hi == SepsAt[k]
           seps == SubSeq(field_seps, lo + 1, hi)
           rest == [j \in DOMAIN seps |-> seps[j] + 1]
           starts == <<a>> \o rest
           ends == Append(seps, b)
<1>1. /\ a \in Nat /\ b \in Nat /\ a <= b /\ b <= Len(input) /\ Len(input) \in Nat
  <2>1. RowFacts(k)
    BY RowInText
  <2>2. QED
    BY <2>1, ScannedIndex DEF RowFacts
<1>2. /\ TextSeps \in SUBSET Int /\ IsFiniteSet(TextSeps) /\ Cardinality(TextSeps) \in Nat
      /\ field_seps \in Seq(Int) /\ Len(field_seps) = Cardinality(TextSeps)
      /\ \A i \in 1..Cardinality(TextSeps) : field_seps[i] = Nth(TextSeps, i) - 1
      /\ input \in Seq(Byte)
  BY ScannedIndex
<1>3. Q = {i \in TextSeps : a < i /\ i <= b}
  <2>1. DOMAIN input = 1..Len(input)
    BY <1>2
  <2>2. QED
    BY <2>1 DEF SepsOfPart, TextSeps, SepsUpTo
<1>4. /\ lo = Rank(TextSeps, a) /\ hi = Rank(TextSeps, b)
      /\ lo \in 0..Len(field_seps) /\ hi \in 0..Len(field_seps)
  <2>1. lo = SepsBefore(a) /\ hi = SepsBefore(b)
    BY SepsOfRows
  <2>2. a \in Int /\ b \in Int
    BY <1>1
  <2>3. QED
    BY <2>1, <2>2, SepsBeforeIsRank
<1>5. /\ Q \in SUBSET Int /\ m \in Nat /\ hi = lo + m
      /\ \A j \in 1..m : Nth(TextSeps, lo + j) = Nth(Q, j)
  <2> DEFINE P == {i \in TextSeps : a < i /\ i <= b}
  <2>0. a \in Int /\ b \in Int /\ a <= b
    BY <1>1
  <2> HIDE DEF a, b
  <2>1. /\ P \in SUBSET Int /\ IsFiniteSet(P)
        /\ Rank(TextSeps, b) = Rank(TextSeps, a) + Cardinality(P)
        /\ \A j \in 1..Cardinality(P) : Nth(TextSeps, Rank(TextSeps, a) + j) = Nth(P, j)
    BY <1>2, <2>0, NthOfPart
  <2>2. Cardinality(P) \in Nat
    BY <2>1, FS_CardinalityType
  <2>3. P = Q
    BY <1>3
  <2> HIDE DEF P, Q
  <2>4. QED
    BY <1>4, <2>1, <2>2, <2>3
<1>6. TextBounds[k] = [j \in DOMAIN starts |-> <<starts[j], ends[j]>>]
  BY RowOfText DEF FieldBounds
<1> HIDE DEF a, b, Q, m, lo, hi
<1>7. /\ seps \in Seq(Int) /\ Len(seps) = m
      /\ \A j \in 1..m : seps[j] = field_seps[lo + j]
  <2>1. \A i \in lo + 1..hi : field_seps[i] \in Int
    BY <1>2, <1>4
  <2>2. /\ seps \in Seq(Int)
        /\ Len(seps) = IF lo + 1 <= hi THEN hi - (lo + 1) + 1 ELSE 0
        /\ \A j \in 1..hi - (lo + 1) + 1 : seps[j] = field_seps[(lo + 1) + j - 1]
    BY <1>2, <1>4, <2>1, SubSeqProperties, SMTT(30)
  <2>3. hi - (lo + 1) + 1 = m /\ (IF lo + 1 <= hi THEN hi - (lo + 1) + 1 ELSE 0) = m
    BY <1>4, <1>5
  <2>4. \A j \in 1..m : (lo + 1) + j - 1 = lo + j
    BY <1>4
  <2>5. QED
    BY <2>2, <2>3, <2>4
<1>8. \A j \in 1..m : seps[j] = Nth(Q, j) - 1 /\ Nth(Q, j) \in Int
  <2>1. ASSUME NEW j \in 1..m
        PROVE  seps[j] = Nth(Q, j) - 1 /\ Nth(Q, j) \in Int
    <3>1. lo + j \in 1..Cardinality(TextSeps)
      BY <1>2, <1>4, <1>5, SMTT(30)
    <3>2. field_seps[lo + j] = Nth(TextSeps, lo + j) - 1
      BY <1>2, <3>1
    <3>3. Nth(TextSeps, lo + j) \in Int
      BY <1>2, <3>1, NthOfRank
    <3>4. QED
      BY <1>5, <1>7, <3>2, <3>3
  <2>2. QED
    BY <2>1
<1> HIDE DEF seps
<1>9. rest \in Seq(Int) /\ Len(rest) = m /\ \A j \in 1..m : rest[j] = Nth(Q, j)
  <2>1. DOMAIN seps = 1..m
    BY <1>7
  <2>2. \A j \in 1..m : rest[j] = Nth(Q, j) /\ rest[j] \in Int
    BY <1>8, <2>1
  <2>3. rest \in [1..m -> Int]
    BY <2>1, <2>2
  <2> HIDE DEF rest
  <2>4. rest \in Seq(Int) /\ Len(rest) = m
    BY <1>5, <2>3
  <2>5. QED
    BY <2>2, <2>4
<1> HIDE DEF rest
<1>10. /\ DOMAIN starts = 1..m + 1 /\ starts[1] = a
       /\ \A j \in 1..m : starts[j + 1] = Nth(Q, j)
  BY <1>1, <1>5, <1>9
<1>11. ends[m + 1] = b /\ \A j \in 1..m : ends[j] = Nth(Q, j) - 1
  <2>1. b \in Int
    BY <1>1
  <2>2. QED
    BY <1>5, <1>7, <1>8, <2>1
<1> HIDE DEF starts, ends
<1>12. ASSUME NEW j \in 1..m + 1
       PROVE  starts[j] = CutOf(input, a, b, j - 1) /\ ends[j] = CutOf(input, a, b, j) - 1
  <2>1. starts[j] = CutOf(input, a, b, j - 1)
    <3>1. CASE j = 1
      <4>1. j - 1 = 0
        BY <3>1
      <4>2. QED
        BY <1>10, <3>1, <4>1 DEF CutOf
    <3>2. CASE j # 1
      <4>1. PICK i : i = j - 1
        OBVIOUS
      <4>2. i \in 1..m /\ j = i + 1 /\ i # 0 /\ i # m + 1
        BY <1>5, <3>2, <4>1
      <4>3. starts[j] = Nth(Q, i)
        BY <1>10, <4>2
      <4>4. CutOf(input, a, b, i) = Nth(Q, i)
        BY <4>2 DEF CutOf, Q, m
      <4>5. QED
        BY <4>1, <4>3, <4>4
    <3>3. QED
      BY <3>1, <3>2
  <2>2. ends[j] = CutOf(input, a, b, j) - 1
    <3>0. j # 0
      BY <1>5
    <3>1. CASE j = m + 1
      <4>1. CutOf(input, a, b, j) = b + 1
        BY <3>0, <3>1 DEF CutOf, Q, m
      <4>2. QED
        BY <1>1, <1>11, <3>1, <4>1
    <3>2. CASE j # m + 1
      <4>1. j \in 1..m
        BY <1>5, <3>2
      <4>2. CutOf(input, a, b, j) = Nth(Q, j)
        BY <3>0, <3>2 DEF CutOf, Q, m
      <4>3. QED
        BY <1>11, <4>1, <4>2
    <3>3. QED
      BY <3>1, <3>2
  <2>3. QED
    BY <2>1, <2>2
<1>13. TextBounds[k] = [j \in 1..m + 1 |-> <<CutOf(input, a, b, j - 1),
                                             CutOf(input, a, b, j) - 1>>]
  BY <1>6, <1>10, <1>12
<1>14. QED
  BY <1>13 DEF a, b, Q, m

(* The values within the bounds of a row are the fields of its line. *)
LEMMA FieldsOfRow ==
    ASSUME ScanInv, phase = "scanned", NEW k \in 1..TextRows
    PROVE  [j \in DOMAIN TextBounds[k] |-> FieldValue(TextBounds[k][j])]
              = FieldsOf(SubSeq(input, Starts[k] + 1, Contents[k]))
<1> DEFINE a == Starts[k]
           b == Contents[k]
           m == Cardinality(SepsOfPart(input, a, b))
           bounds == TextBounds[k]
<1>1. /\ a \in Nat /\ b \in Nat /\ a <= b /\ b <= Len(input) /\ ~Quoted(input, a + 1)
      /\ input \in Seq(Byte)
  <2>1. RowFacts(k)
    BY RowInText
  <2>2. QED
    BY <2>1, ScannedIndex DEF RowFacts
<1>2. bounds = [j \in 1..m + 1 |-> <<CutOf(input, a, b, j - 1), CutOf(input, a, b, j) - 1>>]
  BY RowShape
<1> HIDE DEF a, b, bounds
<1>3. FieldsOf(SubSeq(input, a + 1, b)) =
         [j \in 1..m + 1 |->
             ExtractField(SubSeq(input, CutOf(input, a, b, j - 1) + 1,
                                        CutOf(input, a, b, j) - 1))]
  BY <1>1, FieldsOfPart
<1>4. ASSUME NEW j \in 1..m + 1
      PROVE  FieldValue(bounds[j]) =
                ExtractField(SubSeq(input, CutOf(input, a, b, j - 1) + 1,
                                           CutOf(input, a, b, j) - 1))
  <2>1. PICK x : x = CutOf(input, a, b, j - 1)
    OBVIOUS
  <2>2. PICK y : y = CutOf(input, a, b, j) - 1
    OBVIOUS
  <2>3. x \in Nat /\ y \in Int
    BY <1>1, <2>1, <2>2, CutsIncrease
  <2>4. bounds[j] = <<x, y>>
    BY <1>2, <2>1, <2>2
  <2>5. FieldValue(bounds[j]) = IF x >= y THEN <<>> ELSE ExtractField(SubSeq(input, x + 1, y))
    BY <2>4 DEF FieldValue
  <2>6. CASE x >= y
    <3>1. SubSeq(input, x + 1, y) = <<>>
      BY <1>1, <2>3, <2>6, SubSeqEmpty
    <3>2. ExtractField(<<>>) = <<>>
      BY DEF ExtractField
    <3>3. QED
      BY <2>1, <2>2, <2>5, <2>6, <3>1, <3>2
  <2>7. CASE ~(x >= y)
    BY <2>1, <2>2, <2>5, <2>7
  <2>8. QED
    BY <2>6, <2>7
<1>5. DOMAIN bounds = 1..m + 1
  BY <1>2
<1>6. QED
  BY <1>3, <1>4, <1>5 DEF a, b, bounds

-----------------------------------------------------------------------------
(* The theorems. *)

LEMMA BatchInvariant == BatchSpec => []BatchInv
<1>1. BatchInit => BatchInv
  BY InitBatch
<1>2. BatchInv /\ [BatchNext]_vars => BatchInv'
  BY NextBatch
<1>3. QED
  BY <1>1, <1>2, PTL DEF BatchSpec

(* A parse answers with the rows of the text, each field with its value:   *)
(* whichever strategy, in whatever order the workers of the parallel       *)
(* parser take the rows, and wherever the chunks of the scan fall.         *)
THEOREM RowsCorrect == BatchSpec => []ReturnsRowsOfText
<1>1. BatchInv => ReturnsRowsOfText
  <2>1. ASSUME BatchInv, reply = "rows"
        PROVE  LET lines == AllLines(input)
               IN  /\ Len(rows) = Len(lines)
                   /\ \A k \in DOMAIN lines :
                         [j \in DOMAIN rows[k] |-> FieldValue(rows[k][j])] = FieldsOf(lines[k])
    <3>1. phase = "scanned" /\ ScanInv /\ rows = TextBounds
      BY <2>1 DEF BatchInv, BatchKnown, Untouched, RowsKnown
    <3>2. TextRows \in Nat
      BY <3>1, TextRowsType
    <3>3. Len(TextBounds) = TextRows
      BY <3>2 DEF TextBounds
    <3>4. /\ Len(AllLines(input)) = TextRows /\ DOMAIN AllLines(input) = 1..TextRows
          /\ \A k \in 1..TextRows :
                AllLines(input)[k] = SubSeq(input, Starts[k] + 1, Contents[k])
      BY <3>1, LinesOfRows
    <3>5. ASSUME NEW k \in 1..TextRows
          PROVE  [j \in DOMAIN rows[k] |-> FieldValue(rows[k][j])]
                    = FieldsOf(AllLines(input)[k])
      BY <3>1, <3>4, FieldsOfRow
    <3>6. QED
      BY <3>1, <3>3, <3>4, <3>5
  <2>2. QED
    BY <2>1 DEF ReturnsRowsOfText
<1>2. QED
  BY <1>1, BatchInvariant, PTL

(* The iterators yield as many rows as they promise, and what a cursor     *)
(* finds in a row is what a binary search finds there.                     *)
THEOREM IteratorsCorrect == BatchSpec => []IteratorsAgree
<1>1. BatchInv => IteratorsAgree
  <2>1. ASSUME BatchInv, Parsing
        PROVE  /\ MoreRows <=> row_idx < RowCount
               /\ MoreRows => SubSeq(field_seps, sep_cursor + 1, SepsOfRow)
                                 = SepsInRow(row_pos, ContentEnd)
    <3>1. /\ ScanInv /\ phase = "scanned" /\ CursorKnown
          /\ MoreRows <=> row_idx < TextRows
          /\ row_idx \in Nat
      BY <2>1, WhileParsing
    <3>2. RowCount = TextRows
      <4>1. /\ AsU32(Len(input)) = Len(input) /\ Len(input) \in Nat
            /\ row_ends \in Seq([pos : 0..MaxInputSize, len : 1..2])
        BY <3>1, ScannedIndex
      <4>2. CASE row_ends = <<>>
        <5>1. Len(row_ends) = 0 /\ EndOf(0) = 0
          BY <4>2 DEF EndOf
        <5>2. QED
          BY <4>1, <4>2, <5>1 DEF RowCount, TextRows
      <4>3. CASE row_ends # <<>>
        <5> DEFINE R == [pos : 0..MaxInputSize, len : 1..2]
        <5>1. row_ends \in Seq(R)
          BY <4>1
        <5> HIDE DEF R
        <5>2. Len(row_ends) # 0
          BY <4>3, <5>1
        <5>3. Last(row_ends) = row_ends[Len(row_ends)]
          BY DEF Last
        <5>4. EndOf(Len(row_ends)) = Last(row_ends).pos + Last(row_ends).len
          BY <5>2, <5>3 DEF EndOf
        <5>5. QED
          BY <4>1, <4>3, <5>4 DEF RowCount, TextRows
      <4>4. QED
        BY <4>2, <4>3
    <3>3. ASSUME MoreRows
          PROVE  SubSeq(field_seps, sep_cursor + 1, SepsOfRow) = SepsInRow(row_pos, ContentEnd)
      <4>1. /\ row_idx + 1 \in 1..TextRows
            /\ row_pos = Starts[row_idx + 1] /\ ContentEnd = Contents[row_idx + 1]
            /\ sep_cursor = SepsAt[row_idx] /\ SepsOfRow = SepsAt[row_idx + 1]
            /\ (row_idx + 1) - 1 = row_idx
        BY <3>1, <3>3, AtRow
      <4>2. PICK k \in 1..TextRows : k = row_idx + 1 /\ k - 1 = row_idx
        BY <4>1
      <4>3. SepsAt[k] = SepsBefore(Contents[k]) /\ SepsAt[k - 1] = SepsBefore(Starts[k])
        BY <3>1, SepsOfRows
      <4>4. sep_cursor = SepsBefore(row_pos) /\ SepsOfRow = SepsBefore(ContentEnd)
        BY <4>1, <4>2, <4>3
      <4>5. QED
        BY <4>4 DEF SepsInRow
    <3>4. QED
      BY <3>1, <3>2, <3>3
  <2>2. QED
    BY <2>1 DEF IteratorsAgree
<1>2. QED
  BY <1>1, BatchInvariant, PTL

(* A text is refused exactly when the index cannot hold it, and reported   *)
(* malformed exactly to a strict caller whose text has a violation.        *)
THEOREM RefusalsCorrect == BatchSpec => []RefusesForAReason
<1>1. BatchInv => RefusesForAReason
  <2>1. ASSUME BatchInv, reply # "none"
        PROVE  /\ reply = "input_too_large" <=> Len(input) > MaxInputSize
               /\ reply = "malformed_csv" <=>
                     /\ Len(input) <= MaxInputSize /\ strict
                     /\ FirstViolation(input, TRUE) # NoViolation
    <3>1. Len(input) \in Nat /\ MaxInputSize \in Nat
      BY <2>1, ScanAssumption DEF BatchInv, ScanInv, CarryInv, CarryTyped
    <3>2. CASE phase = "scanned"
      <4>1. /\ Len(input) <= MaxInputSize /\ violation = FirstViolation(input, TRUE)
        BY <2>1, <3>2 DEF BatchInv, ScanInv, Fits, ViolationKnown
      <4>2. reply = IF strict /\ violation # NoViolation THEN "malformed_csv" ELSE "rows"
        BY <2>1, <3>2 DEF BatchInv, BatchKnown, RowsKnown
      <4>3. ~(Len(input) > MaxInputSize)
        BY <3>1, <4>1
      <4>4. reply # "input_too_large"
        BY <4>2
      <4>5. QED
        BY <4>1, <4>2, <4>3, <4>4
    <3>3. CASE phase # "scanned"
      <4>1. reply = "input_too_large" /\ phase = "too_large"
        BY <2>1, <3>3 DEF BatchInv, BatchKnown, Untouched
      <4>2. Len(input) > MaxInputSize
        BY <2>1, <4>1 DEF BatchInv, BatchKnown, TooLarge
      <4>3. ~(Len(input) <= MaxInputSize)
        BY <3>1, <4>2
      <4>4. QED
        BY <4>1, <4>2, <4>3
    <3>4. QED
      BY <3>2, <3>3
  <2>2. QED
    BY <2>1 DEF RefusesForAReason
<1>2. QED
  BY <1>1, BatchInvariant, PTL

(* Every field that an iterator or a worker cuts lies inside the input, and *)
(* its end is never before its start.                                       *)
THEOREM BoundsCorrect == BatchSpec => []BoundsInside
<1>1. BatchInv => BoundsInside
  <2>1. ASSUME BatchInv
        PROVE  BoundsInside
    <3> DEFINE Inside(fields) ==
                  \A j \in DOMAIN fields :
                      0 <= fields[j][1] /\ fields[j][1] <= fields[j][2]
                                        /\ fields[j][2] <= Len(input)
    <3>1. CASE phase # "scanned"
      <4>1. rows = <<>> /\ extracted = <<>>
        BY <2>1, <3>1 DEF BatchInv, BatchKnown, Untouched
      <4>2. QED
        BY <4>1 DEF BoundsInside
    <3>2. CASE phase = "scanned"
      <4>1. ScanInv /\ CursorKnown /\ RowsKnown
        BY <2>1, <3>2 DEF BatchInv, BatchKnown
      <4>2. row_idx \in 0..TextRows /\ TextRows \in Nat
        BY <3>2, <4>1, TextRowsType DEF CursorKnown
      <4>3. ASSUME NEW k \in 1..TextRows
            PROVE  Inside(TextBounds[k])
        <5> DEFINE a == Starts[k]
                   b == Contents[k]
                   m == Cardinality(SepsOfPart(input, a, b))
        <5>1. /\ a \in Nat /\ b \in Nat /\ a <= b /\ b <= Len(input) /\ input \in Seq(Byte)
              /\ Len(input) \in Nat
          <6>1. RowFacts(k)
            BY <3>2, <4>1, RowInText
          <6>2. QED
            BY <3>2, <4>1, <6>1, ScannedIndex DEF RowFacts
        <5>2. TextBounds[k] = [j \in 1..m + 1 |-> <<CutOf(input, a, b, j - 1),
                                                    CutOf(input, a, b, j) - 1>>]
          BY <3>2, <4>1, RowShape
        <5> HIDE DEF a, b
        <5>3. ASSUME NEW j \in 1..m + 1
              PROVE  LET x == CutOf(input, a, b, j - 1)
                         y == CutOf(input, a, b, j) - 1
                     IN  0 <= x /\ x <= y /\ y <= Len(input)
          BY <5>1, CutsIncrease
        <5>4. QED
          BY <5>2, <5>3
      <4>4. DOMAIN rows \subseteq 1..TextRows /\ \A k \in DOMAIN rows : rows[k] = TextBounds[k]
        <5>1. CASE reply # "none"
          <6>1. rows = TextBounds
            BY <4>1, <5>1 DEF RowsKnown
          <6>2. QED
            BY <6>1 DEF TextBounds
        <5>2. CASE reply = "none" /\ strategy = "parallel"
          BY <4>1, <5>2 DEF RowsKnown
        <5>3. CASE reply = "none" /\ strategy # "parallel"
          <6>1. rows = [k \in 1..row_idx |-> TextBounds[k]]
            BY <4>1, <5>3 DEF RowsKnown
          <6>2. QED
            BY <4>2, <6>1
        <5>4. QED
          BY <5>1, <5>2, <5>3
      <4>5. /\ DOMAIN extracted \subseteq 1..TextRows
            /\ \A i \in DOMAIN extracted : extracted[i] = TextBounds[i]
        <5>1. DOMAIN ranges \subseteq 1..TextRows
          <6>1. ranges = <<>> \/ ranges = [k \in 1..row_idx |-> TextRanges[k]]
            BY <4>1 DEF RowsKnown
          <6>2. QED
            BY <4>2, <6>1
        <5>2. QED
          BY <4>1, <5>1 DEF RowsKnown
      <4>6. \A k \in DOMAIN rows : Inside(rows[k])
        BY <4>3, <4>4
      <4>7. \A i \in DOMAIN extracted : Inside(extracted[i])
        BY <4>3, <4>5
      <4>8. QED
        BY <4>6, <4>7 DEF BoundsInside
    <3>3. QED
      BY <3>1, <3>2
  <2>2. QED
    BY <2>1
<1>2. QED
  BY <1>1, BatchInvariant, PTL
=============================================================================
