----------------------- MODULE GeneralStreaming_proofs ------------------------
(***************************************************************************)
(* Theorems about GeneralStreaming for every alphabet, dialect, chunking,  *)
(* limit and input length.  A general streaming parser is type correct and *)
(* reads on in every dialect; in a dialect that is clear (Clear) it        *)
(* returns what a batch parse returns.                                     *)
(***************************************************************************)
EXTENDS GeneralStreaming, GeneralDialect_proofs

-----------------------------------------------------------------------------
(* Dialects in which a parser that waits for more data has no newline      *)
(* ahead of it.                                                            *)

(* No newline begins at a place from a on.                                 *)
NoneAhead(d, s, a) == \A j \in a..Len(s) - 1 : ~(MatchLength(d.newlines, s, j) > 0)

(* Where the text ends within such a pattern no newline is ahead.          *)
LEMMA NoneInPrefix ==
    ASSUME NEW d \in Dialects, NEW s \in Seq(Byte), NEW a \in 0..Len(s), NEW p \in Seq(Byte),
           PartialSuffix(s, a, p), NoneWithin(d, p)
    PROVE  NoneAhead(d, s, a)
<1> DEFINE cut == SubSeq(p, 1, Len(p) - 1)
<1>1. Len(s) \in Nat /\ a \in Nat /\ a <= Len(s) /\ Len(p) \in Nat
  BY LenProperties
<1>2. Len(s) - a < Len(p) /\ \A i \in 1..Len(s) - a : s[a + i] = p[i]
  BY EndsWithin
<1>3. /\ cut \in Seq(Byte) /\ Len(cut) = Len(p) - 1
      /\ \A i \in 1..Len(p) - 1 : cut[i] = p[i]
  <2>1. 0 \in 0..Len(p) /\ Len(p) - 1 \in 0..Len(p)
    BY <1>1, <1>2
  <2>2. /\ SubSeq(p, 0 + 1, Len(p) - 1) \in Seq(Byte)
        /\ Len(SubSeq(p, 0 + 1, Len(p) - 1)) = (Len(p) - 1) - 0
        /\ \A i \in 1..(Len(p) - 1) - 0 : SubSeq(p, 0 + 1, Len(p) - 1)[i] = p[0 + i]
    BY <2>1, PartOf
  <2>3. 0 + 1 = 1 /\ (Len(p) - 1) - 0 = Len(p) - 1 /\ \A i \in 1..Len(p) - 1 : 0 + i = i
    BY <1>1
  <2>4. QED
    BY <2>2, <2>3
<1> HIDE DEF cut
<1>4. SUFFICES ASSUME NEW j \in a..Len(s) - 1, MatchLength(d.newlines, s, j) > 0
               PROVE  FALSE
  BY DEF NoneAhead
<1>5. j \in 0..Len(s) /\ j \in Nat /\ a <= j /\ j < Len(s)
  BY <1>1
<1>6. PICK k \in DOMAIN d.newlines : StartsWith(s, j, d.newlines[k])
  BY <1>4, <1>5, DialectTyping, MatchOf
<1> DEFINE nl == d.newlines[k]
<1>7. nl \in Seq(Byte) /\ Len(nl) \in Nat
  BY DialectTyping, PatternTyping
<1>8. j + Len(nl) <= Len(s) /\ \A i \in 1..Len(nl) : s[j + i] = nl[i]
  BY <1>5, <1>6, <1>7, StandsAt
<1>9. j - a \in 0..Len(cut) /\ j - a \in 0..Len(p) - 1
  BY <1>1, <1>2, <1>3, <1>5
<1>10. ~StartsWith(cut, j - a, nl)
  BY <1>9 DEF NoneWithin, cut
<1> HIDE DEF nl
<1>11. (j - a) + Len(nl) <= Len(cut)
  BY <1>1, <1>2, <1>3, <1>5, <1>7, <1>8
<1>12. ASSUME NEW i \in 1..Len(nl)
       PROVE  cut[(j - a) + i] = nl[i]
  <2>1. /\ (j - a) + i \in 1..Len(p) - 1 /\ (j - a) + i \in 1..Len(s) - a
        /\ a + ((j - a) + i) = j + i
    BY <1>1, <1>2, <1>5, <1>7, <1>8, SMTT(60)
  <2>2. QED
    BY <1>2, <1>3, <1>8, <2>1
<1>13. StartsWith(cut, j - a, nl)
  BY <1>3, <1>7, <1>9, <1>11, <1>12, StandsAt
<1>14. QED
  BY <1>10, <1>13

(* No room for a newline.                                                  *)
LEMMA NoRoom ==
    ASSUME NEW d \in Dialects, NEW s \in Seq(Byte), NEW a \in 0..Len(s),
           \A k \in DOMAIN d.newlines : a + Len(d.newlines[k]) > Len(s)
    PROVE  NoneAhead(d, s, a)
<1>1. Len(s) \in Nat /\ a \in Nat
  BY LenProperties
<1>2. SUFFICES ASSUME NEW j \in a..Len(s) - 1, MatchLength(d.newlines, s, j) > 0
               PROVE  FALSE
  BY DEF NoneAhead
<1>3. j \in 0..Len(s) /\ j \in Nat /\ a <= j
  BY <1>1
<1>4. PICK k \in DOMAIN d.newlines : StartsWith(s, j, d.newlines[k])
  BY <1>2, <1>3, DialectTyping, MatchOf
<1>5. d.newlines[k] \in Seq(Byte) /\ Len(d.newlines[k]) \in Nat
  BY DialectTyping, PatternTyping
<1>6. j + Len(d.newlines[k]) <= Len(s)
  BY <1>3, <1>4, <1>5, StandsAt
<1>7. a + Len(d.newlines[k]) > Len(s)
  OBVIOUS
<1> DEFINE n == Len(d.newlines[k])
<1> HIDE DEF n
<1>8. QED
  <2>1. n \in Nat /\ j + n <= Len(s) /\ a + n > Len(s)
    BY <1>5, <1>6, <1>7 DEF n
  <2>2. QED
    BY <1>1, <1>3, <2>1

(* Newlines of the same length are all as long as the longest.             *)
LEMMA EqualLengths ==
    ASSUME NEW d \in Dialects,
           \A j, k \in DOMAIN d.newlines : Len(d.newlines[j]) = Len(d.newlines[k]),
           NEW i \in DOMAIN d.newlines
    PROVE  MaxPatternLen(d) = Len(d.newlines[i])
<1> DEFINE S == {Len(d.newlines[k]) : k \in DOMAIN d.newlines}
           n == Len(d.newlines[i])
<1>1. n \in Nat /\ S = {n}
  BY DialectTyping, PatternTyping
<1>2. Max(S) = n
  <2> HIDE DEF S, n
  <2>1. S \subseteq 0..n /\ S # {}
    BY <1>1
  <2>2. Max(S) \in S
    BY <1>1, <2>1, GreatestOf
  <2>3. QED
    BY <1>1, <2>2
<1>3. QED
  BY <1>2 DEF MaxPatternLen

-----------------------------------------------------------------------------
(* The parser waits for more data: Waiting, at a place of the text.        *)
Awaits(d, s, pos, in_quotes) ==
    LET token == TokenAt(d, d.newlines, s, pos, in_quotes)
    IN  \/ PartialSuffix(s, pos, d.escape)
        \/ /\ token = "escape" /\ in_quotes
           /\ ~Doubled(d, s, pos) /\ PartialSuffix(s, pos + Len(d.escape), d.escape)
        \/ /\ token \in {"separator", "newline", "data"}
           /\ \E k \in DOMAIN d.separators : PartialSuffix(s, pos, d.separators[k])
        \/ /\ token = "data"
           /\ IF d.is_default
              THEN s[pos + 1] = CR /\ pos + 1 = Len(s)
              ELSE pos + MaxPatternLen(d) > Len(s)

(* Default newlines: the text ends within one if a carriage return is      *)
(* last.                                                                   *)
LEMMA DefaultNewlines ==
    ASSUME NEW d \in Dialects, d.is_default, NEW s \in Seq(Byte), NEW a \in 0..Len(s) - 1
    PROVE  /\ a + 1 \in 1..Len(s)
           /\ (\A k \in DOMAIN d.newlines : ~PartialSuffix(s, a, d.newlines[k]))
                <=> ~(s[a + 1] = CR /\ a + 1 = Len(s))
           /\ ~(MatchLength(d.newlines, s, a) > 0) =>
                 s[a + 1] # LF /\ (s[a + 1] = CR /\ a + 2 <= Len(s) => s[a + 2] # LF)
<1> DEFINE cl == <<CR, LF>>
           l  == <<LF>>
<1>1. d.newlines = <<cl, l>> /\ LF \in Byte /\ CR \in Byte /\ LF # CR
  BY DialectsAssumption
<1>2. /\ cl \in Seq(Byte) /\ Len(cl) = 2 /\ cl[1] = CR /\ cl[2] = LF
      /\ l \in Seq(Byte) /\ Len(l) = 1 /\ l[1] = LF
  BY <1>1
<1>3. d.newlines[1] = cl /\ d.newlines[2] = l /\ DOMAIN d.newlines = {1, 2}
  BY <1>1
<1>4. Len(s) \in Nat /\ a \in Nat /\ a < Len(s) /\ a \in 0..Len(s)
  BY LenProperties
<1> HIDE DEF cl, l
<1>5. PartialSuffix(s, a, cl) <=> s[a + 1] = CR /\ a + 1 = Len(s)
  <2>1. PartialSuffix(s, a, cl) <=> Len(s) - a < 2 /\ \A j \in 1..Len(s) - a : s[a + j] = cl[j]
    <3>1. PartialSuffix(s, a, cl)
            <=> Len(s) - a < Len(cl) /\ \A j \in 1..Len(s) - a : s[a + j] = cl[j]
      BY <1>2, <1>4, EndsWithin, Zenon
    <3>2. QED
      BY <1>2, <3>1
  <2>2. CASE a + 1 = Len(s)
    <3>1. Len(s) - a = 1
      BY <1>4, <2>2
    <3>2. QED
      BY <1>2, <2>1, <2>2, <3>1
  <2>3. CASE a + 1 # Len(s)
    BY <1>4, <2>1, <2>3
  <2>4. QED
    BY <2>2, <2>3
<1>6. ~PartialSuffix(s, a, l)
  <2>1. PartialSuffix(s, a, l) => Len(s) - a < 1
    BY <1>2, <1>4, EndsWithin
  <2>2. QED
    BY <1>4, <2>1
<1>7. ASSUME ~(MatchLength(d.newlines, s, a) > 0)
      PROVE  s[a + 1] # LF /\ (s[a + 1] = CR /\ a + 2 <= Len(s) => s[a + 2] # LF)
  <2>1. MatchLength(d.newlines, s, a) = 0
    <3>1. MatchLength(d.newlines, s, a) \in Nat
      BY <1>4, DialectTyping, MatchOf
    <3>2. QED
      BY <1>7, <3>1
  <2>2. ~StartsWith(s, a, cl) /\ ~StartsWith(s, a, l)
    <3>1. \A k \in DOMAIN d.newlines : ~StartsWith(s, a, d.newlines[k])
      BY <1>4, <2>1, DialectTyping, MatchOf
    <3>2. QED
      BY <1>3, <3>1
  <2>3. ~(a + 1 <= Len(s) /\ \A j \in 1..1 : s[a + j] = l[j])
    BY <1>2, <1>4, <2>2, StandsAt
  <2>4. ~(a + 2 <= Len(s) /\ \A j \in 1..2 : s[a + j] = cl[j])
    <3>1. ~(a + Len(cl) <= Len(s) /\ \A j \in 1..Len(cl) : s[a + j] = cl[j])
      BY <1>2, <1>4, <2>2, StandsAt, Zenon
    <3>2. QED
      BY <1>2, <3>1
  <2>5. s[a + 1] # LF
    BY <1>2, <1>4, <2>3
  <2>6. a + 2 <= Len(s) => ~(s[a + 1] = CR /\ s[a + 2] = LF)
    BY <1>2, <1>4, <2>4
  <2>7. QED
    BY <2>5, <2>6
<1>8. a + 1 \in 1..Len(s)
  BY <1>4
<1>9. QED
  BY <1>3, <1>5, <1>6, <1>7, <1>8

(* In a dialect that is clear, what a parser does not wait for is decided. *)
LEMMA AwaitsNothing ==
    ASSUME NEW d \in Dialects, Clear(d), NEW s \in Seq(Byte), NEW pos \in 0..Len(s) - 1,
           NEW in_quotes \in BOOLEAN, ~Awaits(d, s, pos, in_quotes)
    PROVE  Decided(d, s, pos, in_quotes)
<1> DEFINE token == TokenAt(d, d.newlines, s, pos, in_quotes)
<1>1. Len(s) \in Nat /\ pos \in Nat /\ pos < Len(s) /\ pos \in 0..Len(s)
  BY LenProperties
<1>2. ASSUME token \in {"newline", "data"}, NEW k \in DOMAIN d.newlines
      PROVE  ~PartialSuffix(s, pos, d.newlines[k])
  <2>1. /\ token = "newline" => MatchLength(d.newlines, s, pos) > 0
        /\ token = "data" => ~(MatchLength(d.newlines, s, pos) > 0)
    BY <1>1, DialectTyping, TokenKinds
  <2>2. PICK m \in Nat : /\ d.newlines[k] \in Seq(Byte) /\ Len(d.newlines[k]) = m
    BY DialectTyping, PatternTyping
  <2>3. CASE token = "newline"
    <3>1. PICK i \in DOMAIN d.newlines : StartsWith(s, pos, d.newlines[i])
      BY <1>1, <2>1, <2>3, DialectTyping, MatchOf
    <3>2. d.newlines[i] \in Seq(Byte) /\ Len(d.newlines[i]) \in Nat
      BY DialectTyping, PatternTyping
    <3>3. /\ pos + Len(d.newlines[i]) <= Len(s)
          /\ \A j \in 1..Len(d.newlines[i]) : s[pos + j] = d.newlines[i][j]
      BY <1>1, <3>1, <3>2, StandsAt
    <3>4. CASE d.is_default
      <4>1. \A x \in DOMAIN d.newlines : d.newlines[x] = <<CR, LF>> \/ d.newlines[x] = <<LF>>
        <5>1. d.newlines = <<<<CR, LF>>, <<LF>>>>
          BY <3>4, DialectsAssumption
        <5>2. QED
          BY <5>1
      <4>2. ~(s[pos + 1] = CR /\ pos + 1 = Len(s))
        <5>1. CASE d.newlines[i] = <<LF>>
          <6>1. s[pos + 1] = LF
            BY <3>3, <5>1
          <6>2. QED
            BY <6>1, DialectsAssumption
        <5>2. CASE d.newlines[i] = <<CR, LF>>
          <6>1. pos + 2 <= Len(s)
            BY <3>3, <5>2
          <6>2. QED
            BY <1>1, <6>1
        <5>3. QED
          BY <4>1, <5>1, <5>2
      <4>3. QED
        BY <3>4, <4>2, DefaultNewlines
    <3>5. CASE ~d.is_default
      <4>1. Len(d.newlines[i]) = m
        BY <2>2, <3>5 DEF Clear
      <4>2. ~(Len(s) - pos < m)
        BY <1>1, <2>2, <3>3, <4>1
      <4>3. QED
        BY <1>1, <2>2, <4>2, EndsWithin
    <3>6. QED
      BY <3>4, <3>5
  <2>4. CASE token = "data"
    <3>1. ~(IF d.is_default
            THEN s[pos + 1] = CR /\ pos + 1 = Len(s)
            ELSE pos + MaxPatternLen(d) > Len(s))
      BY <2>4 DEF Awaits
    <3>2. CASE d.is_default
      BY <3>1, <3>2, DefaultNewlines
    <3>3. CASE ~d.is_default
      <4>1. MaxPatternLen(d) = m
        BY <2>2, <3>3, EqualLengths DEF Clear
      <4>2. ~(pos + m > Len(s))
        BY <3>1, <3>3, <4>1
      <4>3. ~(Len(s) - pos < m)
        BY <1>1, <2>2, <4>2
      <4>4. QED
        BY <1>1, <2>2, <4>3, EndsWithin
    <3>4. QED
      BY <3>2, <3>3
  <2>5. QED
    BY <1>2, <2>3, <2>4
<1>3. QED
  BY <1>2 DEF Decided, Awaits

-----------------------------------------------------------------------------
(* The row that is left when the text ends while the parser waits.         *)

(* No newline ahead in the text, none ahead in the row.                    *)
LEMMA NoneAheadFrom ==
    ASSUME NEW d, NEW s \in Seq(Byte), NEW from \in 0..Len(s), NEW to \in from..Len(s),
           NoneAhead(d, s, to)
    PROVE  \A j \in (to - from)..Len(s) - from - 1 :
              ~(MatchLength(d.newlines, Suffix(s, from), j) > 0)
<1>1. Len(s) \in Nat /\ from \in Nat /\ to \in Nat
  BY LenProperties
<1>2. SUFFICES ASSUME NEW j \in (to - from)..Len(s) - from - 1
               PROVE  ~(MatchLength(d.newlines, Suffix(s, from), j) > 0)
  OBVIOUS
<1> DEFINE c == from + j
<1>3. j \in 0..Len(s) - from /\ c \in to..Len(s) - 1
  BY <1>1
<1>4. Suffix(Suffix(s, from), j) = Suffix(s, c)
  BY <1>3, SuffixSuffix
<1> HIDE DEF c
<1>5. MatchLength(d.newlines, Suffix(s, from), j) = MatchLength(d.newlines, s, c)
  BY <1>4 DEF MatchLength, StartsWith
<1>6. QED
  BY <1>3, <1>5 DEF NoneAhead

(* A text is a continuation of itself.                                     *)
LEMMA ExtendsItself ==
    ASSUME NEW s \in Seq(Byte)
    PROVE  s \in Extensions(s)
<1>1. Len(s) \in Nat
  BY LenProperties
<1>2. QED
  BY <1>1 DEF Extensions

(* Nothing of a newline is ahead of a parser that waits, but for the       *)
(* closing escape that may be the first of a pair.                         *)
LEMMA NoneAheadWaiting ==
    ASSUME NEW d \in Dialects, Clear(d), NEW s \in Seq(Byte), NEW to \in 0..Len(s) - 1,
           NEW in_quotes \in BOOLEAN, Awaits(d, s, to, in_quotes),
           ~(/\ TokenAt(d, d.newlines, s, to, in_quotes) = "escape" /\ in_quotes
             /\ ~Doubled(d, s, to) /\ PartialSuffix(s, to + Len(d.escape), d.escape))
    PROVE  NoneAhead(d, s, to)
<1> DEFINE token == TokenAt(d, d.newlines, s, to, in_quotes)
<1>1. Len(s) \in Nat /\ to \in Nat /\ to < Len(s) /\ to \in 0..Len(s)
  BY LenProperties
<1>2. CASE PartialSuffix(s, to, d.escape)
  BY <1>1, <1>2, DialectTyping, NoneInPrefix DEF Clear
<1>3. CASE \E k \in DOMAIN d.separators : PartialSuffix(s, to, d.separators[k])
  <2>1. PICK k \in DOMAIN d.separators : PartialSuffix(s, to, d.separators[k])
    BY <1>3
  <2>2. d.separators[k] \in Seq(Byte) /\ NoneWithin(d, d.separators[k])
    BY DialectTyping, PatternTyping DEF Clear
  <2>3. QED
    BY <1>1, <2>1, <2>2, NoneInPrefix
<1>4. CASE /\ token = "data"
           /\ IF d.is_default
              THEN s[to + 1] = CR /\ to + 1 = Len(s)
              ELSE to + MaxPatternLen(d) > Len(s)
  <2>1. CASE d.is_default
    <3>1. ~(MatchLength(d.newlines, s, to) > 0)
      BY <1>1, <1>4, DialectTyping, TokenKinds
    <3>2. \A j \in to..Len(s) - 1 : j = to
      BY <1>1, <1>4, <2>1
    <3>3. QED
      BY <3>1, <3>2 DEF NoneAhead
  <2>2. CASE ~d.is_default
    <3>1. ASSUME NEW k \in DOMAIN d.newlines
          PROVE  to + Len(d.newlines[k]) > Len(s)
      <4>1. MaxPatternLen(d) = Len(d.newlines[k])
        BY <2>2, EqualLengths DEF Clear
      <4>2. QED
        BY <1>4, <2>2, <4>1
    <3>2. QED
      BY <1>1, <3>1, NoRoom
  <2>3. QED
    BY <2>1, <2>2
<1>5. QED
  BY <1>2, <1>3, <1>4 DEF Awaits

(* The rest of the text is the last row of a batch, and it is what         *)
(* finalize takes as a line; and a violation that the scan has met is the  *)
(* first of that line.                                                     *)
LEMMA LeftOver ==
    ASSUME NEW d \in Dialects, Clear(d), NEW s \in Seq(Byte), NEW from \in 0..Len(s) - 1,
           NEW to \in from..Len(s), NEW st, ReadTo(d, s, from, to, st),
           to < Len(s) => Awaits(d, s, to, st.quote.in_quotes),
           NEW line, LineOf(s, from, Len(s), line)
    PROVE  /\ RowIsLine(d, s, from, Len(s), line)
           /\ st.quote.violation # NoViolation =>
                 ReadLine(d, line).violation = st.quote.violation
<1> DEFINE data == Suffix(s, from)
           r    == to - from
           q    == st.quote.in_quotes
<1>1. /\ Len(s) \in Nat /\ from \in Nat /\ to \in Nat /\ from < Len(s) /\ from <= to /\ to <= Len(s)
      /\ from \in 0..Len(s) /\ to \in 0..Len(s) /\ Len(s) \in to..Len(s)
  BY LenProperties
<1>2. data \in Seq(Byte) /\ Len(data) = Len(s) - from /\ r \in 0..Len(data)
  <2>1. data \in Seq(Byte) /\ Len(data) = Len(s) - from
    BY <1>1, SuffixOf
  <2> HIDE DEF data
  <2>2. r \in 0..Len(data)
    BY <1>1, <2>1
  <2>3. QED
    BY <2>1, <2>2
<1>3. line = data
  BY DEF LineOf, Suffix
<1>4. /\ st \in RowStates /\ st.next = 0 /\ st.skip = 0
      /\ RowState(d, d.newlines, data)[r] = st /\ RowState(d, <<>>, data)[r] = st
  <2>1. s \in Extensions(s) /\ data = SubSeq(s, from + 1, Len(s))
    BY ExtendsItself DEF Suffix
  <2> HIDE DEF data
  <2>2. QED
    BY <1>1, <2>1 DEF ReadTo, data
<1>5. st.quote \in QuoteStates /\ q \in BOOLEAN
  BY <1>4 DEF RowStates, QuoteStates
<1>6. d.newlines \in Patterns /\ <<>> \in Patterns /\ d.escape \in Seq(Byte) /\ Len(d.escape) \in Nat \ {0}
  BY DialectTyping
<1>7. RowIsLine(d, s, from, Len(s), line)
  <2>1. CASE NoneAhead(d, s, to)
    <3>1. \A j \in r..Len(s) - from - 1 : ~(MatchLength(d.newlines, data, j) > 0)
      BY <1>1, <2>1, NoneAheadFrom
    <3>2. r \in 0..Len(s) - from
      BY <1>1
    <3>3. RowState(d, d.newlines, data)[r] = RowState(d, <<>>, data)[r] /\ RowState(d, <<>>, data)[r].next = 0
      BY <1>4
    <3> HIDE DEF r
    <3>4. QED
      BY <3>1, <3>2, <3>3, RowLeft
  <2>2. CASE ~NoneAhead(d, s, to)
    <3> DEFINE n == Len(d.escape)
               i == r + n
               c == to + n
    <3>1. to < Len(s)
      <4>1. to = Len(s) => NoneAhead(d, s, to)
        BY <1>1 DEF NoneAhead
      <4>2. QED
        BY <1>1, <2>2, <4>1
    <3>2. /\ TokenAt(d, d.newlines, s, to, q) = "escape" /\ q
          /\ ~Doubled(d, s, to) /\ PartialSuffix(s, c, d.escape)
      <4>1. to \in 0..Len(s) - 1 /\ Awaits(d, s, to, q)
        BY <1>1, <3>1
      <4>2. QED
        BY <1>5, <2>2, <4>1, NoneAheadWaiting
    <3>3. StartsWith(s, to, d.escape)
      BY <1>1, <1>5, <1>6, <3>2, TokenKinds
    <3>4. c <= Len(s) /\ c \in Nat
      BY <1>1, <1>6, <3>3, StandsAt
    <3>5. Suffix(data, r) = Suffix(s, to) /\ Suffix(data, i) = Suffix(s, c)
      <4>1. r \in 0..Len(s) - from /\ to = from + r /\ i \in 0..Len(s) - from /\ c = from + i
        <5>1. n \in Nat
          BY <1>6
        <5> HIDE DEF n
        <5>2. to + n <= Len(s)
          BY <3>4 DEF n
        <5>3. r \in 0..Len(s) - from /\ to = from + r
          BY <1>1
        <5>4. i \in 0..Len(s) - from /\ c = from + i
          BY <1>1, <5>1, <5>2
        <5>5. QED
          BY <5>3, <5>4
      <4> HIDE DEF r, i, c
      <4>2. QED
        BY <1>1, <4>1, SuffixSuffix
    <3>6. StartsWith(data, r, d.escape) /\ ~Doubled(d, data, r)
      BY <3>2, <3>3, <3>5 DEF Doubled, StartsWith
    <3>7. /\ TokenAt(d, d.newlines, data, r, q) = "escape"
          /\ TokenAt(d, <<>>, data, r, q) = "escape"
      BY <3>6 DEF TokenAt
    <3>8. r \in 0..Len(data) - 1
      BY <1>1, <1>2, <3>1
    <3>9. PICK no \in BOOLEAN : ~no
      OBVIOUS
    <3> DEFINE after == AfterToken(d, st, r, "escape", no, 0)
    <3>10. /\ Meets(d, d.newlines, data, r, st, "escape", no, 0)
           /\ Meets(d, <<>>, data, r, st, "escape", no, 0)
           /\ n = Width(d, "escape", no, 0)
      BY <1>4, <3>6, <3>7, <3>9 DEF Meets, Width
    <3>11. /\ i \in 0..Len(data) /\ RowState(d, d.newlines, data)[i] = after
           /\ RowState(d, <<>>, data)[i] = after
      <4> HIDE DEF r, n, data
      <4>1. r + n \in 0..Len(data) /\ RowState(d, d.newlines, data)[r + n] = after
        BY <1>2, <1>6, <3>8, <3>10, TokenRead
      <4>2. RowState(d, <<>>, data)[r + n] = after
        <5> DEFINE none == <<>>
        <5>1. none \in Patterns /\ Meets(d, none, data, r, st, "escape", no, 0)
          BY <1>6, <3>10
        <5> HIDE DEF none
        <5>2. RowState(d, none, data)[r + n] = after
          BY <1>2, <3>8, <3>10, <5>1, TokenRead
        <5>3. QED
          BY <5>2 DEF none
      <4>3. QED
        BY <4>1, <4>2
    <3>12. after.next = 0
      <4>1. after = [st EXCEPT !.quote = OnEscape(@, r, no)]
        BY DEF AfterToken
      <4>2. QED
        BY <1>4, <4>1 DEF RowStates
    <3>13. NoneAhead(d, s, c)
      BY <1>1, <1>6, <3>2, <3>4, NoneInPrefix DEF Clear
    <3>14. \A j \in (c - from)..Len(s) - from - 1 : ~(MatchLength(d.newlines, data, j) > 0)
      <4>1. c \in from..Len(s)
        BY <1>1, <1>6, <3>4
      <4> HIDE DEF c
      <4>2. QED
        BY <1>1, <3>13, <4>1, NoneAheadFrom
    <3>15. c - from = i
      BY <1>1, <1>6
    <3> HIDE DEF i, c, after, data
    <3>16. QED
      BY <1>2, <3>11, <3>12, <3>14, <3>15, RowLeft DEF data
  <2>3. QED
    BY <2>1, <2>2
<1>8. ASSUME st.quote.violation # NoViolation
      PROVE  ReadLine(d, line).violation = st.quote.violation
  <2> DEFINE last == RowState(d, <<>>, data)[Len(data)]
             row  == ReadRow(d, <<>>, data)
  <2>1. last.quote.violation = st.quote.violation
    BY <1>2, <1>4, <1>6, <1>8, ViolationKept
  <2>2. row.violation \in {Finish(last.quote, last.next), Finish(last.quote, Len(data))}
    BY DEF ReadRow
  <2>3. \A e : Finish(last.quote, e) = st.quote.violation
    BY <1>8, <2>1 DEF Finish, FirstOf
  <2> HIDE DEF last, row
  <2>4. row.violation = st.quote.violation
    BY <2>2, <2>3
  <2>5. QED
    BY <1>3, <2>4 DEF ReadLine, row
<1>9. QED
  BY <1>7, <1>8

-----------------------------------------------------------------------------
(* What a parser that reads one text has read of it.                       *)

(* The quote state of a row that begins at from, of a parser that has met  *)
(* violation v before it.                                                  *)
Seen(q, v, from) == [q EXCEPT !.violation = FirstOf(v, Rebase(q.violation, from))]

(* The four fields of a quote state.                                       *)
QuoteIs(q, i, o, g, z) ==
    /\ q.in_quotes = i /\ q.at_field_start = o
    /\ q.after_closing_quote = g /\ q.violation = z

LEMMA QuoteEqual ==
    ASSUME NEW p \in QuoteStates, NEW q \in QuoteStates, NEW i, NEW o, NEW g, NEW z,
           QuoteIs(p, i, o, g, z), QuoteIs(q, i, o, g, z)
    PROVE  p = q
BY DEF QuoteStates, QuoteIs

(* What each step of the automaton makes of them.                          *)
LEMMA QuoteSteps ==
    ASSUME NEW q \in QuoteStates, NEW i, NEW o, NEW g, NEW z, QuoteIs(q, i, o, g, z),
           NEW pos, NEW doubled
    PROVE  /\ QuoteIs(OnDelimiter(q), i, TRUE, FALSE, z)
           /\ i /\ doubled => QuoteIs(OnEscape(q, pos, doubled), i, o, g, z)
           /\ i /\ ~doubled => QuoteIs(OnEscape(q, pos, doubled), FALSE, o, TRUE, z)
           /\ ~i => QuoteIs(OnEscape(q, pos, doubled), TRUE, FALSE, FALSE,
                            IF o THEN z
                            ELSE FirstOf(z, [kind |-> "unexpected_quote", pos |-> pos]))
           /\ QuoteIs(OnData(q, pos), i, FALSE, FALSE,
                      IF g THEN FirstOf(z, [kind |-> "trailing_garbage", pos |-> pos]) ELSE z)
<1>0. q.in_quotes = i /\ q.at_field_start = o /\ q.after_closing_quote = g /\ q.violation = z
  BY DEF QuoteIs
<1>1. QuoteIs(OnDelimiter(q), i, TRUE, FALSE, z)
  BY <1>0 DEF QuoteIs, QuoteStates, OnDelimiter
<1>2. i /\ doubled => QuoteIs(OnEscape(q, pos, doubled), i, o, g, z)
  BY <1>0 DEF QuoteIs, OnEscape
<1>3. i /\ ~doubled => QuoteIs(OnEscape(q, pos, doubled), FALSE, o, TRUE, z)
  BY <1>0 DEF QuoteIs, QuoteStates, OnEscape
<1>4. ~i => QuoteIs(OnEscape(q, pos, doubled), TRUE, FALSE, FALSE,
                            IF o THEN z
                            ELSE FirstOf(z, [kind |-> "unexpected_quote", pos |-> pos]))
  BY <1>0 DEF QuoteIs, QuoteStates, OnEscape
<1>5. QuoteIs(OnData(q, pos), i, FALSE, FALSE,
                      IF g THEN FirstOf(z, [kind |-> "trailing_garbage", pos |-> pos]) ELSE z)
  BY <1>0 DEF QuoteIs, QuoteStates, OnData
<1>6. QED
  BY <1>1, <1>2, <1>3, <1>4, <1>5

LEMMA SeenIs ==
    ASSUME NEW q \in QuoteStates, NEW v \in Violation, NEW from \in Nat,
           NEW i, NEW o, NEW g, NEW z, QuoteIs(q, i, o, g, z)
    PROVE  /\ Seen(q, v, from) \in QuoteStates
           /\ QuoteIs(Seen(q, v, from), i, o, g, FirstOf(v, Rebase(z, from)))
<1>1. FirstOf(v, Rebase(q.violation, from)) \in Violation
  BY RebaseTyping, FirstOfTyping DEF QuoteStates
<1>2. QED
  BY <1>1 DEF Seen, QuoteStates, QuoteIs

(* A parser sees the quotes of the row.                                    *)
LEMMA SeenFields ==
    ASSUME NEW q \in QuoteStates, NEW v \in Violation, NEW from \in Nat
    PROVE  /\ Seen(q, v, from) \in QuoteStates
           /\ Seen(q, v, from).in_quotes = q.in_quotes
           /\ Seen(q, v, from).violation = FirstOf(v, Rebase(q.violation, from))
<1>1. FirstOf(v, Rebase(q.violation, from)) \in Violation
  BY RebaseTyping, FirstOfTyping DEF QuoteStates
<1>2. QED
  BY <1>1 DEF Seen, QuoteStates

(* Place pos of the row that begins at from.                               *)
Moved(abs, from, pos) == abs = from + pos

(* The automaton of the row and that of the parser go the same way.        *)
LEMMA SeenSteps ==
    ASSUME NEW q \in QuoteStates, NEW v \in Violation, NEW from \in Nat, NEW pos \in Nat,
           NEW abs, Moved(abs, from, pos), NEW doubled \in BOOLEAN
    PROVE  /\ OnEscape(Seen(q, v, from), abs, doubled) = Seen(OnEscape(q, pos, doubled), v, from)
           /\ OnDelimiter(Seen(q, v, from)) = Seen(OnDelimiter(q), v, from)
           /\ OnData(Seen(q, v, from), abs) = Seen(OnData(q, pos), v, from)
<1> DEFINE i == q.in_quotes
           o == q.at_field_start
           g == q.after_closing_quote
           x == q.violation
           y == FirstOf(v, Rebase(x, from))
           S == Seen(q, v, from)
<1>0. abs = from + pos
  BY DEF Moved
<1>1. x \in Violation /\ QuoteIs(q, i, o, g, x) /\ abs \in Nat
  BY <1>0 DEF QuoteStates, QuoteIs
<1>2. S \in QuoteStates /\ QuoteIs(S, i, o, g, y)
  BY <1>1, SeenIs
<1>3. \A k \in {"unexpected_quote", "trailing_garbage"} :
         FirstOf(y, [kind |-> k, pos |-> abs])
           = FirstOf(v, Rebase(FirstOf(x, [kind |-> k, pos |-> pos]), from))
  <2>1. SUFFICES ASSUME NEW k \in {"unexpected_quote", "trailing_garbage"}
                 PROVE  FirstOf(y, [kind |-> k, pos |-> abs])
                          = FirstOf(v, Rebase(FirstOf(x, [kind |-> k, pos |-> pos]), from))
    OBVIOUS
  <2> DEFINE e == [kind |-> k, pos |-> pos]
  <2>2. /\ NoViolation = [kind |-> "none", pos |-> 0] /\ e # NoViolation /\ e.pos = pos
        /\ Rebase(e, from) = [kind |-> k, pos |-> abs]
    <3>1. e.kind = k /\ k # "none"
      OBVIOUS
    <3>2. e # NoViolation
      BY <3>1 DEF NoViolation
    <3>3. pos + from = abs
      BY <1>0
    <3>4. Rebase(e, from) = [e EXCEPT !.pos = @ + from]
      BY <3>2 DEF Rebase
    <3>5. [e EXCEPT !.pos = @ + from] = [kind |-> k, pos |-> pos + from]
      OBVIOUS
    <3>6. QED
      BY <3>2, <3>3, <3>4, <3>5 DEF NoViolation
  <2>3. Rebase(x, from) = NoViolation <=> x = NoViolation
    BY <1>1, RebaseTyping
  <2> HIDE DEF e
  <2>4. CASE v # NoViolation
    BY <2>4 DEF FirstOf
  <2>5. CASE v = NoViolation /\ x # NoViolation
    BY <2>3, <2>5 DEF FirstOf
  <2>6. CASE v = NoViolation /\ x = NoViolation
    BY <2>2, <2>3, <2>6 DEF FirstOf, e
  <2>7. QED
    BY <2>4, <2>5, <2>6
<1> HIDE DEF i, o, g, x, y, S
<1>4. OnDelimiter(S) = Seen(OnDelimiter(q), v, from)
  <2>1. OnDelimiter(S) \in QuoteStates /\ OnDelimiter(q) \in QuoteStates
    BY <1>2, QuoteTyping
  <2>2. QuoteIs(OnDelimiter(S), i, TRUE, FALSE, y) /\ QuoteIs(OnDelimiter(q), i, TRUE, FALSE, x)
    BY <1>1, <1>2, QuoteSteps
  <2> DEFINE yes == TRUE
             no  == FALSE
  <2>3. QuoteIs(OnDelimiter(S), i, yes, no, y) /\ QuoteIs(OnDelimiter(q), i, yes, no, x)
    BY <2>2
  <2> HIDE DEF yes, no
  <2>4. /\ Seen(OnDelimiter(q), v, from) \in QuoteStates
        /\ QuoteIs(Seen(OnDelimiter(q), v, from), i, yes, no, y)
    BY <2>1, <2>3, SeenIs DEF y
  <2>5. QED
    BY <2>1, <2>3, <2>4, QuoteEqual
<1>5. OnEscape(S, abs, doubled) = Seen(OnEscape(q, pos, doubled), v, from)
  <2> DEFINE A == OnEscape(S, abs, doubled)
             B == OnEscape(q, pos, doubled)
             yes == TRUE
             no  == FALSE
             z == IF o THEN x ELSE FirstOf(x, [kind |-> "unexpected_quote", pos |-> pos])
             u == IF o THEN y ELSE FirstOf(y, [kind |-> "unexpected_quote", pos |-> abs])
  <2>1. A \in QuoteStates /\ B \in QuoteStates
    BY <1>1, <1>2, QuoteTyping
  <2>2. CASE i /\ doubled
    <3>1. QuoteIs(A, i, o, g, y) /\ QuoteIs(B, i, o, g, x)
      BY <1>1, <1>2, <2>2, QuoteSteps
    <3> HIDE DEF A, B
    <3>2. Seen(B, v, from) \in QuoteStates /\ QuoteIs(Seen(B, v, from), i, o, g, y)
      BY <2>1, <3>1, SeenIs DEF y
    <3>3. QED
      BY <2>1, <3>1, <3>2, QuoteEqual DEF A, B
  <2>3. CASE i /\ ~doubled
    <3>1. QuoteIs(A, no, o, yes, y) /\ QuoteIs(B, no, o, yes, x)
      BY <1>1, <1>2, <2>3, QuoteSteps
    <3> HIDE DEF A, B, yes, no
    <3>2. Seen(B, v, from) \in QuoteStates /\ QuoteIs(Seen(B, v, from), no, o, yes, y)
      BY <2>1, <3>1, SeenIs DEF y
    <3>3. QED
      BY <2>1, <3>1, <3>2, QuoteEqual DEF A, B
  <2>4. CASE ~i
    <3>1. QuoteIs(A, yes, no, no, u) /\ QuoteIs(B, yes, no, no, z)
      <4>1. QuoteIs(A, TRUE, FALSE, FALSE, u)
        BY <1>2, <2>4 DEF QuoteIs, QuoteStates, OnEscape
      <4>2. QuoteIs(B, TRUE, FALSE, FALSE, z)
        BY <1>1, <2>4 DEF QuoteIs, QuoteStates, OnEscape
      <4>3. QED
        BY <4>1, <4>2
    <3>2. u = FirstOf(v, Rebase(z, from))
      <4>1. CASE o
        BY <4>1 DEF y
      <4>2. CASE ~o
        BY <1>3, <4>2 DEF y
      <4>3. QED
        BY <4>1, <4>2
    <3> HIDE DEF A, B, yes, no, u, z
    <3>3. Seen(B, v, from) \in QuoteStates /\ QuoteIs(Seen(B, v, from), yes, no, no, u)
      BY <2>1, <3>1, <3>2, SeenIs
    <3>4. QED
      BY <2>1, <3>1, <3>3, QuoteEqual DEF A, B
  <2>5. QED
    BY <2>2, <2>3, <2>4
<1>6. OnData(S, abs) = Seen(OnData(q, pos), v, from)
  <2> DEFINE A == OnData(S, abs)
             B == OnData(q, pos)
             no  == FALSE
             z == IF g THEN FirstOf(x, [kind |-> "trailing_garbage", pos |-> pos]) ELSE x
             u == IF g THEN FirstOf(y, [kind |-> "trailing_garbage", pos |-> abs]) ELSE y
  <2>1. A \in QuoteStates /\ B \in QuoteStates
    BY <1>1, <1>2, QuoteTyping
  <2>2. QuoteIs(A, i, no, no, u) /\ QuoteIs(B, i, no, no, z)
    BY <1>1, <1>2, QuoteSteps
  <2>3. u = FirstOf(v, Rebase(z, from))
    <3>1. CASE g
      BY <1>3, <3>1 DEF y
    <3>2. CASE ~g
      BY <3>2 DEF y
    <3>3. QED
      BY <3>1, <3>2
  <2> HIDE DEF A, B, no, u, z
  <2>4. Seen(B, v, from) \in QuoteStates /\ QuoteIs(Seen(B, v, from), i, no, no, u)
    BY <2>1, <2>2, <2>3, SeenIs
  <2>5. QED
    BY <2>1, <2>2, <2>4, QuoteEqual DEF A, B
<1>7. QED
  BY <1>4, <1>5, <1>6 DEF S

(* Default newlines: the last byte of the current field is not a carriage  *)
(* return that a line feed might follow, so that no field loses one.       *)
NoReturn(d, s, from, to, st) ==
    d.is_default /\ ~st.quote.in_quotes /\ from + st.start < to /\ s[to] = CR
      => to < Len(s) /\ s[to + 1] # LF

(* The rows before from are those of lines, clean of them known without a  *)
(* violation, and the row at from is read to to.                           *)
Streamed(d, s, from, to, lines, clean, q) ==
    \E st, v :
        /\ ReadTo(d, s, from, to, st)
        /\ v \in Violation /\ q = Seen(st.quote, v, from)
        /\ NoReturn(d, s, from, to, st)
        /\ \A t \in Extensions(s) : RowsDone(d, t, from, lines, v, clean)

(* At its start nothing of a row is read.                                  *)
LEMMA ReadStart ==
    ASSUME NEW d \in Dialects, NEW s \in Seq(Byte), NEW from \in 0..Len(s)
    PROVE  ReadTo(d, s, from, from, RowStart)
<1>1. Len(s) \in Nat /\ from \in Nat /\ from - from = 0 /\ from \in from..Len(s)
  BY LenProperties
<1>2. RowStart \in RowStates /\ RowStart.next = 0 /\ RowStart.skip = 0
  BY <1>1, RowStartTyping DEF RowStart
<1>3. ASSUME NEW t \in Extensions(s)
      PROVE  /\ RowState(d, d.newlines, Suffix(t, from))[from - from] = RowStart
             /\ \A e \in from..Len(t) : RowState(d, <<>>, SubSeq(t, from + 1, e))[from - from] = RowStart
  <2>1. t \in Seq(Byte) /\ from \in 0..Len(t) /\ Suffix(t, from) \in Seq(Byte)
    <3>1. t \in Seq(Byte) /\ Len(s) <= Len(t) /\ Len(t) \in Nat /\ Suffix(t, from) \in Seq(Byte)
      BY <1>1, ExtensionAgrees
    <3>2. QED
      BY <1>1, <3>1
  <2>2. d.newlines \in Patterns /\ <<>> \in Patterns
    BY DialectTyping
  <2>3. RowState(d, d.newlines, Suffix(t, from))[0] = RowStart
    BY <2>1, <2>2, RowStateIs DEF RowReads
  <2>4. ASSUME NEW e \in from..Len(t)
        PROVE  RowState(d, <<>>, SubSeq(t, from + 1, e))[0] = RowStart
    <3>1. SubSeq(t, from + 1, e) \in Seq(Byte)
      BY <2>1, PartOf
    <3>2. QED
      BY <2>2, <3>1, RowStateIs DEF RowReads
  <2>5. QED
    BY <1>1, <2>3, <2>4
<1>4. QED
  BY <1>2, <1>3 DEF ReadTo

(* After the end of a row the parser is where a new row starts.            *)
LEMMA SeenNew ==
    ASSUME NEW q \in QuoteStates, NEW v \in Violation, NEW from \in Nat,
           QuoteIs(q, FALSE, TRUE, FALSE, v)
    PROVE  q = Seen(NewQuote, v, from)
<1> DEFINE yes == TRUE
           no  == FALSE
           n   == NoViolation
<1>1. NewQuote \in QuoteStates /\ QuoteIs(NewQuote, no, yes, no, n)
  BY NewQuoteTyping DEF NewQuote, QuoteIs
<1>2. QuoteIs(q, no, yes, no, v)
  OBVIOUS
<1>3. FirstOf(v, Rebase(n, from)) = v
  BY DEF FirstOf, Rebase
<1> HIDE DEF yes, no, n
<1>4. /\ Seen(NewQuote, v, from) \in QuoteStates
      /\ QuoteIs(Seen(NewQuote, v, from), no, yes, no, v)
  BY <1>1, <1>3, SeenIs
<1>5. QED
  BY <1>2, <1>4, QuoteEqual

(* A new parser has read nothing.                                          *)
LEMMA StreamedFirst ==
    ASSUME NEW d \in Dialects
    PROVE  Streamed(d, <<>>, 0, 0, <<>>, 0, NewQuote)
<1> DEFINE s == <<>>
<1>1. s \in Seq(Byte) /\ 0 \in 0..Len(s) /\ NoViolation \in Violation
  BY DEF Violation
<1> HIDE DEF s
<1>2. ReadTo(d, s, 0, 0, RowStart)
  BY <1>1, ReadStart
<1>3. NewQuote = Seen(RowStart.quote, NoViolation, 0)
  <2>1. NewQuote \in QuoteStates /\ QuoteIs(NewQuote, FALSE, TRUE, FALSE, NoViolation) /\ 0 \in Nat
    BY NewQuoteTyping DEF NewQuote, QuoteIs
  <2>2. QED
    BY <1>1, <2>1, SeenNew DEF RowStart
<1>4. NoReturn(d, s, 0, 0, RowStart)
  BY DEF NoReturn, RowStart
<1>5. \A t \in Extensions(s) : RowsDone(d, t, 0, <<>>, NoViolation, 0)
  BY RowsDoneFirst DEF Extensions
<1>6. QED
  BY <1>1, <1>2, <1>3, <1>4, <1>5 DEF Streamed, s

(* More text changes nothing of what is read.                              *)
LEMMA StreamedMore ==
    ASSUME NEW d \in Dialects, NEW s \in Seq(Byte), NEW from \in 0..Len(s),
           NEW to \in from..Len(s), NEW lines, NEW clean, NEW q,
           Streamed(d, s, from, to, lines, clean, q), NEW more \in Extensions(s)
    PROVE  Streamed(d, more, from, to, lines, clean, q)
<1>1. PICK st, v :
         /\ ReadTo(d, s, from, to, st)
         /\ v \in Violation /\ q = Seen(st.quote, v, from)
         /\ NoReturn(d, s, from, to, st)
         /\ \A t \in Extensions(s) : RowsDone(d, t, from, lines, v, clean)
  BY DEF Streamed
<1>2. /\ Len(s) \in Nat /\ from \in Nat /\ to \in Nat /\ from <= to /\ to <= Len(s)
  BY LenProperties
<1>3. /\ more \in Seq(Byte) /\ Len(s) <= Len(more) /\ Len(more) \in Nat
      /\ \A j \in 1..Len(s) : more[j] = s[j]
  BY LenProperties DEF Extensions
<1>4. Extensions(more) \subseteq Extensions(s)
  <2>1. ASSUME NEW t \in Extensions(more)
        PROVE  t \in Extensions(s)
    <3>1. /\ t \in Seq(Byte) /\ Len(more) <= Len(t) /\ Len(t) \in Nat
          /\ \A j \in 1..Len(more) : t[j] = more[j]
      BY LenProperties DEF Extensions
    <3>2. Len(s) <= Len(t) /\ \A j \in 1..Len(s) : j \in 1..Len(more)
      BY <1>2, <1>3, <3>1
    <3>3. \A j \in 1..Len(s) : t[j] = s[j]
      BY <1>3, <3>1, <3>2
    <3>4. QED
      BY <3>1, <3>2, <3>3 DEF Extensions
  <2>2. QED
    BY <2>1
<1>5. ReadTo(d, more, from, to, st)
  BY <1>1, <1>4 DEF ReadTo
<1>6. NoReturn(d, more, from, to, st)
  <2>1. SUFFICES ASSUME d.is_default, ~st.quote.in_quotes, from + st.start < to, more[to] = CR
                 PROVE  to < Len(more) /\ more[to + 1] # LF
    BY DEF NoReturn
  <2>2. st.start \in Nat
    BY <1>1 DEF ReadTo, RowStates
  <2>3. to \in 1..Len(s)
    BY <1>2, <2>1, <2>2
  <2>4. to < Len(s) /\ s[to + 1] # LF
    BY <1>1, <1>3, <2>1, <2>3 DEF NoReturn
  <2>5. to + 1 \in 1..Len(s) /\ to < Len(more)
    BY <1>2, <1>3, <2>4
  <2>6. QED
    BY <1>3, <2>4, <2>5
<1>7. QED
  BY <1>1, <1>4, <1>5, <1>6 DEF Streamed

(* A parser that has met no violation has read clean rows.                 *)
LEMMA StreamedClean ==
    ASSUME NEW d, NEW s, NEW from \in Nat, NEW to, NEW lines \in Seq(Seq(Byte)), NEW any,
           NEW q, Streamed(d, s, from, to, lines, any, q), q.violation = NoViolation,
           NEW clean \in 0..Len(lines)
    PROVE  Streamed(d, s, from, to, lines, clean, q)
<1>1. PICK st, v :
         /\ ReadTo(d, s, from, to, st)
         /\ v \in Violation /\ q = Seen(st.quote, v, from)
         /\ NoReturn(d, s, from, to, st)
         /\ \A t \in Extensions(s) : RowsDone(d, t, from, lines, v, any)
  BY DEF Streamed
<1>2. st.quote \in QuoteStates
  BY <1>1 DEF ReadTo, RowStates
<1>3. v = NoViolation
  <2>1. q.violation = FirstOf(v, Rebase(st.quote.violation, from))
    BY <1>1, <1>2, SeenFields
  <2>2. QED
    BY <2>1 DEF FirstOf
<1>4. \A t \in Extensions(s) : RowsDone(d, t, from, lines, v, clean)
  BY <1>1, <1>3, RowsDoneClean
<1>5. QED
  BY <1>1, <1>4 DEF Streamed

-----------------------------------------------------------------------------
(* The steps of a parser that reads one text.                              *)

(* The quote state after a token.                                          *)
QuoteAfter(q, pos, token, doubled) ==
    CASE token = "escape"    -> OnEscape(q, pos, doubled)
      [] token = "quoted"    -> q
      [] token = "separator" -> OnDelimiter(q)
      [] token = "data"      -> OnData(q, pos)

LEMMA AfterTokenFields ==
    ASSUME NEW d, NEW st \in RowStates, NEW i \in Nat, NEW token \in Tokens, token # "newline",
           NEW doubled \in BOOLEAN, NEW n \in Nat
    PROVE  LET after == AfterToken(d, st, i, token, doubled, n)
           IN  /\ after.quote = QuoteAfter(st.quote, i, token, doubled)
               /\ token = "separator" => after.start = i + n
               /\ token # "separator" => after.start = st.start
<1> DEFINE after == AfterToken(d, st, i, token, doubled, n)
<1>1. CASE token = "escape"
  <2>1. after = [st EXCEPT !.quote = OnEscape(@, i, doubled)]
    BY <1>1 DEF AfterToken
  <2>2. after.quote = OnEscape(st.quote, i, doubled) /\ after.start = st.start
    BY <2>1 DEF RowStates
  <2>3. QED
    BY <1>1, <2>2 DEF QuoteAfter
<1>2. CASE token = "quoted"
  BY <1>2 DEF AfterToken, QuoteAfter
<1>3. CASE token = "separator"
  <2>1. after = [st EXCEPT !.bounds = Append(@, <<st.start, i>>),
                           !.start  = i + n,
                           !.quote  = OnDelimiter(@)]
    BY <1>3 DEF AfterToken
  <2>2. after.quote = OnDelimiter(st.quote) /\ after.start = i + n
    BY <2>1 DEF RowStates
  <2>3. QED
    BY <1>3, <2>2 DEF QuoteAfter
<1>4. CASE token = "data"
  <2>1. after = [st EXCEPT !.quote = OnData(@, i)]
    BY <1>4 DEF AfterToken, AfterData
  <2>2. after.quote = OnData(st.quote, i) /\ after.start = st.start
    BY <2>1 DEF RowStates
  <2>3. QED
    BY <1>4, <2>2 DEF QuoteAfter
<1>5. QED
  BY <1>1, <1>2, <1>3, <1>4 DEF Tokens

(* Outside quotes no carriage return of the field is followed by a line    *)
(* feed.                                                                   *)
LEMMA NoReturnAfter ==
    ASSUME NEW d \in Dialects, Clear(d), NEW s \in Seq(Byte), NEW from \in 0..Len(s),
           NEW to \in from..Len(s) - 1, NEW st \in RowStates,
           Decided(d, s, to, st.quote.in_quotes),
           NEW token, token = TokenAt(d, d.newlines, s, to, st.quote.in_quotes),
           token # "newline",
           NEW doubled \in BOOLEAN, NEW n \in Nat, NEW w, w = Width(d, token, doubled, n),
           doubled <=> st.quote.in_quotes /\ Doubled(d, s, to),
           to + w <= Len(s)
    PROVE  NoReturn(d, s, from, to + w, AfterToken(d, st, to - from, token, doubled, n))
<1> DEFINE after == AfterToken(d, st, to - from, token, doubled, n)
<1>1. /\ Len(s) \in Nat /\ from \in Nat /\ to \in Nat /\ from <= to /\ to < Len(s)
      /\ to \in 0..Len(s) /\ to - from \in Nat
  BY LenProperties
<1>2. st.quote \in QuoteStates /\ st.quote.in_quotes \in BOOLEAN
  BY DEF RowStates, QuoteStates
<1>3. /\ token \in Tokens
      /\ token = "escape" => StartsWith(s, to, d.escape)
      /\ token = "quoted" => st.quote.in_quotes
      /\ token = "data" => ~(MatchLength(d.newlines, s, to) > 0)
  BY <1>1, <1>2, DialectTyping, TokenKinds
<1>4. /\ after.quote = QuoteAfter(st.quote, to - from, token, doubled)
      /\ token = "separator" => after.start = (to - from) + n
  BY <1>1, <1>3, AfterTokenFields
<1> HIDE DEF after
<1>5. SUFFICES ASSUME d.is_default, ~after.quote.in_quotes, from + after.start < to + w,
                      s[to + w] = CR
               PROVE  to + w < Len(s) /\ s[to + w + 1] # LF
  BY DEF NoReturn, after
<1>6. CASE token = "escape"
  <2>1. after.quote = OnEscape(st.quote, to - from, doubled)
    BY <1>4, <1>6 DEF QuoteAfter
  <2>2. st.quote.in_quotes /\ ~doubled
    BY <1>2, <1>5, <2>1 DEF OnEscape
  <2> DEFINE e == d.escape
             m == Len(e)
  <2>3. e \in Seq(Byte) /\ m \in Nat \ {0}
    BY DialectTyping
  <2>4. \A j \in 1..m : s[to + j] = e[j]
    BY <1>1, <1>3, <1>6, <2>3, StandsAt
  <2>5. w = m
    BY <1>6, <2>2 DEF Width
  <2>6. s[to + m] = e[m]
    <3> HIDE DEF e, m
    <3>1. m \in 1..m
      BY <2>3
    <3>2. QED
      BY <2>4, <3>1
  <2>7. e[m] # CR
    BY <1>5 DEF Clear
  <2>8. QED
    BY <1>5, <2>5, <2>6, <2>7
<1>7. CASE token = "quoted"
  BY <1>3, <1>4, <1>5, <1>7 DEF QuoteAfter
<1>8. CASE token = "separator"
  <2>1. w = n /\ after.start = (to - from) + n
    BY <1>4, <1>8 DEF Width
  <2>2. from + ((to - from) + n) = to + n
    BY <1>1
  <2>3. from + after.start = to + w
    BY <2>1, <2>2
  <2>4. to + w \in Nat
    BY <1>1, <2>1
  <2> DEFINE x == from + after.start
             y == to + w
  <2>5. x = y /\ y \in Nat /\ x < y
    BY <1>5, <2>3, <2>4
  <2> HIDE DEF x, y
  <2>6. QED
    BY <2>5
<1>9. CASE token = "data"
  <2>1. w = 1
    BY <1>9 DEF Width
  <2>2. \A k \in DOMAIN d.newlines : ~PartialSuffix(s, to, d.newlines[k])
    BY <1>9 DEF Decided
  <2>3. ~(s[to + 1] = CR /\ to + 1 = Len(s))
    BY <1>1, <1>5, <2>2, DefaultNewlines
  <2>4. to + 1 < Len(s)
    BY <1>1, <1>5, <2>1, <2>3
  <2>5. s[to + 2] # LF
    BY <1>1, <1>3, <1>5, <1>9, <2>1, <2>4, DefaultNewlines
  <2>6. to + 1 + 1 = to + 2
    BY <1>1
  <2>7. QED
    BY <2>1, <2>4, <2>5, <2>6
<1>10. QED
  BY <1>3, <1>6, <1>7, <1>8, <1>9 DEF Tokens

(* A token that is decided is read.                                        *)
LEMMA StreamedToken ==
    ASSUME NEW d \in Dialects, Clear(d), NEW s \in Seq(Byte), NEW from \in 0..Len(s),
           NEW to \in from..Len(s) - 1, NEW lines, NEW clean, NEW q,
           Streamed(d, s, from, to, lines, clean, q), Decided(d, s, to, q.in_quotes),
           NEW token, token = TokenAt(d, d.newlines, s, to, q.in_quotes), token # "newline",
           NEW doubled \in BOOLEAN, doubled <=> q.in_quotes /\ Doubled(d, s, to),
           NEW w, w = Width(d, token, doubled, MatchSeparator(d, s, to)),
           NEW next, next = to + w
    PROVE  /\ w \in Nat \ {0} /\ next <= Len(s)
           /\ Streamed(d, s, from, next, lines, clean, QuoteAfter(q, to, token, doubled))
<1>1. PICK st, v :
         /\ ReadTo(d, s, from, to, st)
         /\ v \in Violation /\ q = Seen(st.quote, v, from)
         /\ NoReturn(d, s, from, to, st)
         /\ \A t \in Extensions(s) : RowsDone(d, t, from, lines, v, clean)
  BY DEF Streamed
<1>2. /\ Len(s) \in Nat /\ from \in Nat /\ to \in Nat /\ from <= to /\ to < Len(s)
      /\ to \in 0..Len(s) /\ to - from \in Nat /\ to = from + (to - from)
  BY LenProperties
<1>3. st \in RowStates /\ st.quote \in QuoteStates
  BY <1>1 DEF ReadTo, RowStates
<1>4. q.in_quotes = st.quote.in_quotes /\ q.in_quotes \in BOOLEAN
  BY <1>1, <1>2, <1>3, SeenFields DEF QuoteStates
<1> DEFINE n     == MatchSeparator(d, s, to)
           after == AfterToken(d, st, to - from, token, doubled, n)
<1>5. n \in Nat
  BY <1>2, DialectTyping, MatchOf DEF MatchSeparator
<1>6. w \in Nat \ {0} /\ to + w <= Len(s) /\ ReadTo(d, s, from, to + w, after)
  BY <1>1, <1>4, ReadOn
<1>7. NoReturn(d, s, from, to + w, after)
  <2> HIDE DEF n
  <2>1. w = Width(d, token, doubled, n)
    BY DEF n
  <2>2. QED
    BY <1>3, <1>4, <1>5, <1>6, <2>1, NoReturnAfter
<1>8. token \in Tokens
  BY <1>2, <1>4, DialectTyping, TokenKinds
<1>9. after.quote = QuoteAfter(st.quote, to - from, token, doubled)
  BY <1>2, <1>3, <1>5, <1>8, AfterTokenFields
<1>10. QuoteAfter(q, to, token, doubled) = Seen(after.quote, v, from)
  <2> DEFINE pos == to - from
  <2>1. pos \in Nat /\ Moved(to, from, pos)
    BY <1>2 DEF Moved
  <2> HIDE DEF pos
  <2>2. /\ OnEscape(q, to, doubled) = Seen(OnEscape(st.quote, pos, doubled), v, from)
        /\ OnDelimiter(q) = Seen(OnDelimiter(st.quote), v, from)
        /\ OnData(q, to) = Seen(OnData(st.quote, pos), v, from)
    <3> DEFINE sq == st.quote
    <3>1. sq \in QuoteStates /\ q = Seen(sq, v, from)
      BY <1>1, <1>3
    <3> HIDE DEF sq
    <3>2. /\ OnEscape(Seen(sq, v, from), to, doubled) = Seen(OnEscape(sq, pos, doubled), v, from)
          /\ OnDelimiter(Seen(sq, v, from)) = Seen(OnDelimiter(sq), v, from)
          /\ OnData(Seen(sq, v, from), to) = Seen(OnData(sq, pos), v, from)
      BY <1>1, <1>2, <2>1, <3>1, SeenSteps
    <3>3. QED
      BY <3>1, <3>2 DEF sq
  <2>3. QuoteAfter(q, to, token, doubled) = Seen(QuoteAfter(st.quote, pos, token, doubled), v, from)
    <3>1. CASE token = "escape"
      BY <2>2, <3>1 DEF QuoteAfter
    <3>2. CASE token = "quoted"
      BY <1>1, <3>2 DEF QuoteAfter
    <3>3. CASE token = "separator"
      BY <2>2, <3>3 DEF QuoteAfter
    <3>4. CASE token = "data"
      BY <2>2, <3>4 DEF QuoteAfter
    <3>5. QED
      BY <1>8, <3>1, <3>2, <3>3, <3>4 DEF Tokens
  <2>4. QED
    BY <1>9, <2>3 DEF pos
<1> HIDE DEF after
<1>11. Streamed(d, s, from, next, lines, clean, QuoteAfter(q, to, token, doubled))
  BY <1>1, <1>6, <1>7, <1>10 DEF Streamed
<1>12. QED
  BY <1>6, <1>11

(* Then the field that a newline ends is the line up to it.                *)
LEMMA FieldEndKept ==
    ASSUME NEW d \in Dialects, NEW s \in Seq(Byte), NEW from \in 0..Len(s),
           NEW to \in from..Len(s) - 1, NEW st \in RowStates, NoReturn(d, s, from, to, st),
           ~st.quote.in_quotes, NEW t \in Extensions(s)
    PROVE  FieldEnd(d, Suffix(t, from), st.start, to - from) = to - from
<1> DEFINE data == Suffix(t, from)
           r    == to - from
<1>1. /\ Len(s) \in Nat /\ from \in Nat /\ to \in Nat /\ from <= to /\ to < Len(s)
      /\ st.start \in Nat /\ r \in Nat
  BY LenProperties DEF RowStates
<1>2. SUFFICES ASSUME d.is_default, data[r + 1] = LF, r > st.start, data[r] = CR
               PROVE  FALSE
  BY DEF FieldEnd
<1>3. /\ t \in Seq(Byte) /\ Len(s) <= Len(t) /\ Len(t) \in Nat /\ \A j \in 1..Len(s) : t[j] = s[j]
  BY LenProperties DEF Extensions
<1>4. from \in 0..Len(t)
  BY <1>1, <1>3
<1>5. \A j \in 1..Len(t) - from : data[j] = t[from + j]
  BY <1>3, <1>4, SuffixOf
<1> HIDE DEF data
<1>6. data[r + 1] = s[to + 1]
  <2>1. r + 1 \in 1..Len(t) - from /\ from + (r + 1) = to + 1 /\ to + 1 \in 1..Len(s)
    BY <1>1, <1>3
  <2> HIDE DEF r
  <2>2. QED
    BY <1>3, <1>5, <2>1
<1>7. data[r] = s[to]
  <2>1. r \in 1..Len(t) - from /\ from + r = to /\ to \in 1..Len(s)
    BY <1>1, <1>2, <1>3
  <2> HIDE DEF r
  <2>2. QED
    BY <1>3, <1>5, <2>1
<1>8. from + st.start < to
  BY <1>1, <1>2
<1>9. QED
  BY <1>2, <1>6, <1>7, <1>8 DEF NoReturn

(* A newline that is decided ends a row, which is a line; and the          *)
(* violation of the row is one that the parser has met.                    *)
LEMMA StreamedNewline ==
    ASSUME NEW d \in Dialects, NEW s \in Seq(Byte), NEW from \in 0..Len(s),
           NEW to \in from..Len(s) - 1, NEW lines \in Seq(Seq(Byte)), NEW clean \in 0..Len(lines),
           NEW q \in QuoteStates,
           Streamed(d, s, from, to, lines, clean, q), Decided(d, s, to, q.in_quotes),
           TokenAt(d, d.newlines, s, to, q.in_quotes) = "newline",
           NEW next, next = to + MatchNewline(d, s, to),
           NEW line, LineOf(s, from, to, line)
    PROVE  /\ next \in to + 1..Len(s) /\ line \in Seq(Byte)
           /\ FirstOf(q.violation, Rebase(ReadLine(d, line).violation, from)) = q.violation
           /\ Streamed(d, s, next, next, Append(lines, line), clean, OnDelimiter(q))
<1>1. PICK st, v :
         /\ ReadTo(d, s, from, to, st)
         /\ v \in Violation /\ q = Seen(st.quote, v, from)
         /\ NoReturn(d, s, from, to, st)
         /\ \A t \in Extensions(s) : RowsDone(d, t, from, lines, v, clean)
  BY DEF Streamed
<1>2. /\ Len(s) \in Nat /\ from \in Nat /\ to \in Nat /\ from <= to /\ to < Len(s)
      /\ to \in 0..Len(s) /\ from \in 0..Len(s)
  BY LenProperties
<1>3. st \in RowStates /\ st.quote \in QuoteStates /\ st.quote.in_quotes \in BOOLEAN
      /\ st.quote.violation \in Violation
  BY <1>1 DEF ReadTo, RowStates, QuoteStates
<1>4. /\ q.in_quotes = st.quote.in_quotes
      /\ q.violation = FirstOf(v, Rebase(st.quote.violation, from))
  BY <1>1, <1>2, <1>3, SeenFields
<1>5. ~q.in_quotes
  BY <1>2, <1>3, <1>4, DialectTyping, TokenKinds
<1> DEFINE n == MatchNewline(d, s, to)
<1>6. n \in Nat \ {0} /\ to + n <= Len(s) /\ next = to + n /\ next \in 0..Len(s) /\ next \in to + 1..Len(s)
  <2>1. n \in Nat \ {0} /\ to + n <= Len(s)
    BY <1>1, <1>4, ExtendsItself, ReadNewline
  <2> HIDE DEF n
  <2>2. next = to + n
    BY DEF n
  <2> DEFINE y == next
  <2>3. y = to + n
    BY <2>2
  <2> HIDE DEF y
  <2>4. y \in 0..Len(s) /\ y \in to + 1..Len(s)
    BY <1>2, <2>1, <2>3
  <2>5. QED
    BY <2>1, <2>2, <2>4 DEF y
<1>7. line \in Seq(Byte)
  <2>1. to \in from..Len(s)
    BY <1>2
  <2>2. QED
    BY <2>1, PartOf DEF LineOf
<1> DEFINE x == FirstOf(v, Rebase(ReadLine(d, line).violation, from))
<1>8. ASSUME NEW t \in Extensions(s)
      PROVE  /\ RowIsLine(d, t, from, next, line)
             /\ ReadLine(d, line).violation = st.quote.violation
             /\ t \in Seq(Byte) /\ from \in 0..Len(t) - 1 /\ next \in 0..Len(t)
  <2>1. FieldEnd(d, Suffix(t, from), st.start, to - from) = to - from
    BY <1>1, <1>3, <1>4, <1>5, FieldEndKept
  <2>2. LineOf(t, from, to, line)
    <3>1. /\ t \in Seq(Byte) /\ Len(s) <= Len(t) /\ Len(t) \in Nat
          /\ \A j \in 1..Len(s) : t[j] = s[j]
      BY LenProperties DEF Extensions
    <3>2. to \in from..Len(s) /\ from \in 0..Len(t) /\ to \in from..Len(t)
      BY <1>2, <3>1
    <3> DEFINE a == SubSeq(s, from + 1, to)
               b == SubSeq(t, from + 1, to)
    <3>3. /\ a \in Seq(Byte) /\ Len(a) = to - from
          /\ \A j \in 1..to - from : a[j] = s[from + j]
      BY <3>2, PartOf
    <3>4. /\ b \in Seq(Byte) /\ Len(b) = to - from
          /\ \A j \in 1..to - from : b[j] = t[from + j]
      BY <3>1, <3>2, PartOf
    <3> HIDE DEF a, b
    <3>5. \A j \in 1..to - from : from + j \in 1..Len(s)
      BY <1>2
    <3>6. a = b
      <4>1. Len(a) = Len(b) /\ \A j \in 1..Len(a) : a[j] = b[j]
        BY <3>1, <3>3, <3>4, <3>5
      <4>2. QED
        BY <3>3, <3>4, <4>1, SeqEqual
    <3>7. QED
      BY <3>6 DEF LineOf, a, b
  <2>3. RowIsLine(d, t, from, next, line) /\ ReadLine(d, line).violation = st.quote.violation
    <3>1. Decided(d, s, to, st.quote.in_quotes) /\ TokenAt(d, d.newlines, s, to, st.quote.in_quotes) = "newline"
      BY <1>4
    <3>2. n = MatchNewline(d, s, to) /\ next = to + n
      BY <1>6
    <3> HIDE DEF n
    <3>3. QED
      BY <1>1, <2>1, <2>2, <3>1, <3>2, RowEnded, SMTT(60)
  <2>4. t \in Seq(Byte) /\ from \in 0..Len(t) - 1 /\ next \in 0..Len(t)
    <3>1. /\ t \in Seq(Byte) /\ Len(s) <= Len(t) /\ Len(t) \in Nat
      BY LenProperties DEF Extensions
    <3>2. QED
      BY <1>2, <1>6, <3>1
  <2>5. QED
    BY <2>3, <2>4
<1>9. ReadLine(d, line).violation = st.quote.violation
  BY <1>8, ExtendsItself
<1>10. x = q.violation /\ FirstOf(q.violation, Rebase(ReadLine(d, line).violation, from)) = q.violation
  BY <1>4, <1>9 DEF FirstOf
<1>11. \A t \in Extensions(s) : RowsDone(d, t, next, Append(lines, line), q.violation, clean)
  <2>1. ASSUME NEW t \in Extensions(s)
        PROVE  RowsDone(d, t, next, Append(lines, line), x, clean)
    <3>1. RowsDone(d, t, from, lines, v, clean)
      BY <1>1
    <3>2. QED
      BY <1>7, <1>8, <3>1, RowsDoneNext
  <2>2. QED
    BY <1>10, <2>1
<1>12. q.violation \in Violation
  BY DEF QuoteStates
<1>13. OnDelimiter(q) = Seen(NewQuote, q.violation, next)
  <2>1. OnDelimiter(q) \in QuoteStates
    BY <1>2, QuoteTyping
  <2>2. QuoteIs(OnDelimiter(q), FALSE, TRUE, FALSE, q.violation)
    BY <1>5 DEF QuoteIs, OnDelimiter, QuoteStates
  <2>3. next \in Nat
    BY <1>6
  <2>4. QED
    BY <1>12, <2>1, <2>2, <2>3, SeenNew
<1>14. RowStart.quote = NewQuote /\ RowStart.start = 0
  BY DEF RowStart
<1>15. NoReturn(d, s, next, next, RowStart)
  <2>1. ~(next + 0 < next)
    BY <1>6
  <2>2. QED
    BY <1>14, <2>1 DEF NoReturn
<1>16. ReadTo(d, s, next, next, RowStart)
  BY <1>6, ReadStart
<1>17. Streamed(d, s, next, next, Append(lines, line), clean, OnDelimiter(q))
  BY <1>11, <1>12, <1>13, <1>14, <1>15, <1>16 DEF Streamed
<1>18. QED
  BY <1>6, <1>7, <1>10, <1>17

(* The lines of a text that ends here, and the violation.                  *)
LinesLeft(s, from, lines) ==
    lines \o IF from < Len(s) THEN <<SubSeq(s, from + 1, Len(s))>> ELSE <<>>

ViolationLeft(d, s, from, v) ==
    IF from < Len(s)
    THEN FirstOf(v, Rebase(ReadLine(d, SubSeq(s, from + 1, Len(s))).violation, from))
    ELSE v

(* A parser that waits, or has read all, has read what a batch parse of    *)
(* the text returns, with what is left as a last line.                     *)
LEMMA StreamedLast ==
    ASSUME NEW d \in Dialects, Clear(d), NEW s \in Seq(Byte), NEW from \in 0..Len(s),
           NEW to \in from..Len(s), NEW lines \in Seq(Seq(Byte)), NEW clean \in 0..Len(lines),
           NEW q, Streamed(d, s, from, to, lines, clean, q),
           to < Len(s) => Awaits(d, s, to, q.in_quotes)
    PROVE  /\ BatchValues(d, s) = FieldsOf(d, LinesLeft(s, from, lines))
           /\ BatchViolation(d, s) = ViolationLeft(d, s, from, q.violation)
           /\ \A k \in 1..clean : BatchRows(d, s)[k].violation = NoViolation
<1>1. PICK st, v :
         /\ ReadTo(d, s, from, to, st)
         /\ v \in Violation /\ q = Seen(st.quote, v, from)
         /\ NoReturn(d, s, from, to, st)
         /\ \A t \in Extensions(s) : RowsDone(d, t, from, lines, v, clean)
  BY DEF Streamed
<1>2. /\ Len(s) \in Nat /\ from \in Nat /\ to \in Nat /\ from <= to /\ to <= Len(s)
  BY LenProperties
<1>3. st \in RowStates /\ st.quote \in QuoteStates
  BY <1>1 DEF ReadTo, RowStates
<1>4. /\ q.in_quotes = st.quote.in_quotes
      /\ q.violation = FirstOf(v, Rebase(st.quote.violation, from))
  BY <1>1, <1>2, <1>3, SeenFields
<1>5. s \in Extensions(s) /\ RowsDone(d, s, from, lines, v, clean)
  BY <1>1, ExtendsItself
<1>6. CASE from < Len(s)
  <2> DEFINE line == SubSeq(s, from + 1, Len(s))
             x == FirstOf(v, Rebase(ReadLine(d, line).violation, from))
  <2>1. from \in 0..Len(s) - 1 /\ LineOf(s, from, Len(s), line) /\ Len(s) \in from..Len(s) /\ Len(s) \in 0..Len(s)
    BY <1>2, <1>6 DEF LineOf
  <2>2. line \in Seq(Byte)
    BY <2>1, PartOf
  <2>3. LinesLeft(s, from, lines) = Append(lines, line)
    <3> DEFINE B == Seq(Byte)
    <3>1. lines \in Seq(B) /\ line \in B
      BY <2>2
    <3>2. LinesLeft(s, from, lines) = lines \o <<line>>
      BY <1>6 DEF LinesLeft
    <3> HIDE DEF B, line
    <3>3. Append(lines, line) = lines \o <<line>>
      BY <3>1, AppendIsConcat
    <3>4. QED
      BY <3>2, <3>3
  <2>4. ViolationLeft(d, s, from, q.violation)
          = FirstOf(q.violation, Rebase(ReadLine(d, line).violation, from))
    BY <1>6 DEF ViolationLeft
  <2> HIDE DEF line
  <2>5. /\ RowIsLine(d, s, from, Len(s), line)
        /\ st.quote.violation # NoViolation => ReadLine(d, line).violation = st.quote.violation
    BY <1>1, <1>4, <2>1, LeftOver
  <2>6. RowsDone(d, s, Len(s), Append(lines, line), x, clean)
    BY <1>5, <2>1, <2>2, <2>5, RowsDoneNext
  <2>7. x = ViolationLeft(d, s, from, q.violation)
    <3>1. CASE st.quote.violation # NoViolation
      BY <1>4, <2>4, <2>5, <3>1 DEF FirstOf
    <3>2. CASE st.quote.violation = NoViolation
      <4>1. q.violation = v
        BY <1>4, <3>2 DEF FirstOf, Rebase
      <4>2. QED
        BY <2>4, <4>1
    <3>3. QED
      BY <3>1, <3>2
  <2>8. Append(lines, line) \in Seq(Seq(Byte)) /\ clean \in 0..Len(Append(lines, line))
    <3> DEFINE B == Seq(Byte)
    <3>1. lines \in Seq(B) /\ line \in B
      BY <2>2
    <3> HIDE DEF B
    <3>2. Append(lines, line) \in Seq(B) /\ Len(Append(lines, line)) = Len(lines) + 1 /\ Len(lines) \in Nat
      BY <3>1, AppendProperties, LenProperties
    <3>3. clean \in 0..Len(Append(lines, line))
      BY <3>2
    <3>4. QED
      BY <3>2, <3>3 DEF B
  <2> HIDE DEF x
  <2>9. /\ BatchValues(d, s) = FieldsOf(d, Append(lines, line))
        /\ BatchViolation(d, s) = x
        /\ \A k \in 1..clean : BatchRows(d, s)[k].violation = NoViolation
    BY <2>6, <2>8, RowsDoneLast
  <2>10. QED
    BY <2>3, <2>7, <2>9
<1>7. CASE from = Len(s)
  <2>1. LinesLeft(s, from, lines) = lines
    <3> DEFINE B == Seq(Byte)
    <3>1. lines \in Seq(B) /\ LinesLeft(s, from, lines) = lines \o <<>>
      BY <1>2, <1>7 DEF LinesLeft
    <3> HIDE DEF B
    <3>2. lines \o <<>> = lines
      BY <3>1, ConcatEmptySeq
    <3>3. QED
      BY <3>1, <3>2
  <2>2. st = RowStart
    <3>1. to - from = 0 /\ to = from
      BY <1>2, <1>7
    <3>2. RowState(d, d.newlines, Suffix(s, from))[0] = st
      BY <1>1, <1>5, <3>1 DEF ReadTo
    <3>3. Suffix(s, from) \in Seq(Byte)
      BY SuffixOf
    <3>4. QED
      BY <3>2, <3>3, DialectTyping, RowStateIs DEF RowReads
  <2>3. q.violation = v
    BY <1>4, <2>2 DEF RowStart, NewQuote, FirstOf, Rebase
  <2>4. ViolationLeft(d, s, from, q.violation) = v
    BY <1>2, <1>7, <2>3 DEF ViolationLeft
  <2>5. QED
    BY <1>5, <1>7, <2>1, <2>4, RowsDoneLast
<1>8. QED
  BY <1>2, <1>6, <1>7

-----------------------------------------------------------------------------
(* The buffer of a parser is the end of the text it reads.                 *)

(* The same rest n bytes on.                                               *)
LEMMA SuffixOn ==
    ASSUME NEW s \in Seq(Byte), NEW a \in 0..Len(s), NEW t \in Seq(Byte), NEW b \in 0..Len(t),
           Suffix(s, a) = Suffix(t, b), NEW n \in 0..Len(s) - a
    PROVE  /\ Len(s) - a = Len(t) - b
           /\ Suffix(s, a + n) = Suffix(t, b + n)
<1>1. Len(Suffix(s, a)) = Len(s) - a /\ Len(Suffix(t, b)) = Len(t) - b
  BY SuffixOf
<1>2. Len(s) - a = Len(t) - b
  BY <1>1
<1> DEFINE c == a + n
           e == b + n
<1>3. Suffix(Suffix(s, a), n) = Suffix(s, c)
  <2> HIDE DEF c
  <2>1. c = a + n
    BY DEF c
  <2>2. QED
    BY <2>1, SuffixSuffix
<1>4. Suffix(Suffix(t, b), n) = Suffix(t, e)
  <2> HIDE DEF e
  <2>1. e = b + n /\ n \in 0..Len(t) - b
    BY <1>2 DEF e
  <2>2. QED
    BY <2>1, SuffixSuffix
<1>5. QED
  BY <1>2, <1>3, <1>4

(* What stands there, and what a parser waits for, is the same.            *)
LEMMA DoubledSame ==
    ASSUME NEW d \in Dialects, NEW s \in Seq(Byte), NEW a \in 0..Len(s),
           NEW t \in Seq(Byte), NEW b \in 0..Len(t), Suffix(s, a) = Suffix(t, b)
    PROVE  /\ Doubled(d, s, a) <=> Doubled(d, t, b)
           /\ StartsWith(s, a, d.escape) =>
                 Suffix(s, a + Len(d.escape)) = Suffix(t, b + Len(d.escape))
<1>1. StartsWith(s, a, d.escape) <=> StartsWith(t, b, d.escape)
  BY DEF StartsWith
<1>2. ASSUME StartsWith(s, a, d.escape)
      PROVE  Suffix(s, a + Len(d.escape)) = Suffix(t, b + Len(d.escape))
  <2> DEFINE n == Len(d.escape)
  <2>1. n \in Nat /\ a + n <= Len(s)
    BY <1>2, DialectTyping, StandsAt
  <2>2. n \in 0..Len(s) - a
    <3>1. Len(s) \in Nat /\ a \in Nat
      BY LenProperties
    <3> HIDE DEF n
    <3>2. QED
      BY <2>1, <3>1
  <2> HIDE DEF n
  <2>3. Suffix(s, a + n) = Suffix(t, b + n)
    BY <2>2, SuffixOn
  <2>4. QED
    BY <2>3 DEF n
<1>3. StartsWith(s, a, d.escape) =>
        (StartsWith(s, a + Len(d.escape), d.escape) <=> StartsWith(t, b + Len(d.escape), d.escape))
  BY <1>2 DEF StartsWith
<1>4. QED
  BY <1>1, <1>2, <1>3 DEF Doubled

LEMMA AwaitsSame ==
    ASSUME NEW d \in Dialects, NEW s \in Seq(Byte), NEW a \in 0..Len(s) - 1,
           NEW t \in Seq(Byte), NEW b \in 0..Len(t) - 1, Suffix(s, a) = Suffix(t, b),
           NEW in_quotes \in BOOLEAN
    PROVE  Awaits(d, s, a, in_quotes) <=> Awaits(d, t, b, in_quotes)
<1> DEFINE token == TokenAt(d, d.newlines, s, a, in_quotes)
<1>1. /\ Len(s) \in Nat /\ Len(t) \in Nat /\ a \in 0..Len(s) /\ b \in 0..Len(t)
      /\ a \in Nat /\ b \in Nat /\ a < Len(s) /\ b < Len(t)
  BY LenProperties
<1>2. Len(s) - a = Len(t) - b
  BY <1>1, SuffixOn
<1>3. /\ \A p : PartialSuffix(s, a, p) <=> PartialSuffix(t, b, p)
      /\ token = TokenAt(d, d.newlines, t, b, in_quotes)
  <2>1. \A p : PartialSuffix(s, a, p) <=> PartialSuffix(t, b, p)
    BY DEF PartialSuffix
  <2>2. \A p : StartsWith(s, a, p) <=> StartsWith(t, b, p)
    BY DEF StartsWith
  <2>3. \A ps : MatchLength(ps, s, a) = MatchLength(ps, t, b)
    BY DEF MatchLength, StartsWith
  <2>4. QED
    BY <2>1, <2>2, <2>3 DEF TokenAt, MatchSeparator
<1>4. Doubled(d, s, a) <=> Doubled(d, t, b)
  BY <1>1, DoubledSame
<1>5. token = "escape" =>
        (PartialSuffix(s, a + Len(d.escape), d.escape)
           <=> PartialSuffix(t, b + Len(d.escape), d.escape))
  <2>1. SUFFICES ASSUME token = "escape"
                 PROVE  PartialSuffix(s, a + Len(d.escape), d.escape)
                          <=> PartialSuffix(t, b + Len(d.escape), d.escape)
    OBVIOUS
  <2>2. StartsWith(s, a, d.escape)
    BY <1>1, <2>1, DialectTyping, TokenKinds
  <2>3. Suffix(s, a + Len(d.escape)) = Suffix(t, b + Len(d.escape))
    BY <1>1, <2>2, DoubledSame
  <2>4. QED
    BY <2>3 DEF PartialSuffix
<1>6. s[a + 1] = t[b + 1]
  <2>1. 1 \in 1..Len(s) - a /\ 1 \in 1..Len(t) - b
    BY <1>1
  <2>2. Suffix(s, a)[1] = s[a + 1] /\ Suffix(t, b)[1] = t[b + 1]
    BY <1>1, <2>1, SuffixOf
  <2>3. QED
    BY <2>2
<1>7. (a + 1 = Len(s)) <=> (b + 1 = Len(t))
  BY <1>1, <1>2
<1>8. (a + MaxPatternLen(d) > Len(s)) <=> (b + MaxPatternLen(d) > Len(t))
  <2>1. MaxPatternLen(d) \in Nat
    BY DialectTyping, PatternTyping, LongestNewline
  <2> DEFINE m == MaxPatternLen(d)
  <2>2. m \in Nat
    BY <2>1
  <2> HIDE DEF m
  <2>3. (a + m > Len(s)) <=> (b + m > Len(t))
    BY <1>1, <1>2, <2>2
  <2>4. QED
    BY <2>3 DEF m
<1> HIDE DEF token
<1>9. QED
  BY <1>3, <1>4, <1>5, <1>6, <1>7, <1>8 DEF Awaits, token

(* A part of the buffer is a part of the text.                             *)
LEMMA PartSame ==
    ASSUME NEW s \in Seq(Byte), NEW off \in 0..Len(s), NEW t, t = Suffix(s, off),
           NEW a \in 0..Len(t), NEW b \in a..Len(t), NEW from, from = off + a, NEW to, to = off + b
    PROVE  /\ LineOf(s, from, to, SubSeq(t, a + 1, b))
           /\ from \in 0..Len(s) /\ to \in from..Len(s)
<1>1. /\ t \in Seq(Byte) /\ Len(t) = Len(s) - off
      /\ \A j \in 1..Len(s) - off : t[j] = s[off + j]
  BY SuffixOf
<1>2. /\ Len(s) \in Nat /\ off \in Nat /\ a \in Nat /\ b \in Nat /\ a <= b /\ b <= Len(t)
      /\ from \in 0..Len(s) /\ to \in from..Len(s)
  BY <1>1, LenProperties
<1> DEFINE u == SubSeq(t, a + 1, b)
           v == SubSeq(s, from + 1, to)
<1>3. /\ u \in Seq(Byte) /\ Len(u) = b - a /\ \A j \in 1..b - a : u[j] = t[a + j]
  BY <1>1, PartOf
<1>4. /\ v \in Seq(Byte) /\ Len(v) = to - from /\ \A j \in 1..to - from : v[j] = s[from + j]
  BY <1>2, PartOf
<1> HIDE DEF u, v
<1>5. to - from = b - a
  BY <1>2
<1>6. ASSUME NEW j \in 1..b - a
      PROVE  u[j] = v[j]
  <2> DEFINE i == a + j
  <2>1. i \in 1..Len(s) - off /\ off + i = from + j /\ j \in 1..to - from
    BY <1>1, <1>2
  <2>2. u[j] = t[i]
    BY <1>3
  <2>3. v[j] = s[from + j]
    BY <1>4, <2>1
  <2> HIDE DEF i
  <2>4. t[i] = s[off + i]
    BY <1>1, <2>1
  <2>5. QED
    BY <2>1, <2>2, <2>3, <2>4
<1>7. u = v
  BY <1>3, <1>4, <1>5, <1>6, SeqEqual
<1>8. QED
  BY <1>2, <1>7 DEF LineOf, u, v

(* A chunk goes to the end of both.                                        *)
LEMMA FedText ==
    ASSUME NEW s \in Seq(Byte), NEW off \in 0..Len(s), NEW chunk \in Seq(Byte)
    PROVE  /\ s \o chunk \in Extensions(s)
           /\ off \in 0..Len(s \o chunk)
           /\ Suffix(s \o chunk, off) = Suffix(s, off) \o chunk
<1> DEFINE m == Len(s)
           n == Len(chunk)
           t == s \o chunk
           u == Suffix(s, off)
           v == Suffix(t, off)
           w == u \o chunk
<1>1. m \in Nat /\ n \in Nat /\ off \in Nat /\ off <= m
  BY LenProperties
<1>2. /\ t \in Seq(Byte) /\ Len(t) = m + n
      /\ \A i \in 1..m + n : t[i] = IF i <= m THEN s[i] ELSE chunk[i - m]
  BY ConcatProperties
<1>3. u \in Seq(Byte) /\ Len(u) = m - off /\ \A j \in 1..m - off : u[j] = s[off + j]
  BY SuffixOf
<1> HIDE DEF t, u
<1>4. off \in 0..Len(t)
  BY <1>1, <1>2
<1>5. v \in Seq(Byte) /\ Len(v) = Len(t) - off /\ \A j \in 1..Len(t) - off : v[j] = t[off + j]
  BY <1>2, <1>4, SuffixOf
<1>6. /\ w \in Seq(Byte) /\ Len(w) = Len(u) + n
      /\ \A j \in 1..Len(u) + n : w[j] = IF j <= Len(u) THEN u[j] ELSE chunk[j - Len(u)]
  BY <1>3, ConcatProperties
<1> HIDE DEF v, w, m, n
<1>7. Len(v) = (m + n) - off /\ Len(w) = (m + n) - off
  BY <1>1, <1>2, <1>3, <1>5, <1>6
<1>8. ASSUME NEW j \in 1..(m + n) - off
      PROVE  v[j] = w[j]
  <2>1. v[j] = t[off + j] /\ off + j \in 1..m + n
    BY <1>1, <1>2, <1>5
  <2>2. t[off + j] = IF off + j <= m THEN s[off + j] ELSE chunk[(off + j) - m]
    BY <1>2, <2>1
  <2>3. w[j] = IF j <= m - off THEN u[j] ELSE chunk[j - (m - off)]
    <3>1. Len(u) = m - off
      BY <1>3
    <3>2. j \in 1..Len(u) + n
      BY <1>1, <3>1
    <3>3. w[j] = IF j <= Len(u) THEN u[j] ELSE chunk[j - Len(u)]
      BY <1>6, <3>2
    <3>4. QED
      BY <3>1, <3>3
  <2>4. CASE j <= m - off
    <3>1. u[j] = s[off + j] /\ off + j <= m
      BY <1>1, <1>3, <2>4
    <3>2. QED
      BY <2>1, <2>2, <2>3, <2>4, <3>1
  <2>5. CASE ~(j <= m - off)
    <3>1. ~(off + j <= m) /\ (off + j) - m = j - (m - off)
      BY <1>1, <2>5
    <3>2. QED
      BY <2>1, <2>2, <2>3, <2>5, <3>1
  <2>6. QED
    BY <2>4, <2>5
<1>9. v = w
  BY <1>5, <1>6, <1>7, <1>8, SeqEqual
<1>10. t \in Extensions(s)
  <2>1. \A j \in 1..m : j \in 1..m + n /\ j <= m
    BY <1>1
  <2>2. m <= m + n
    BY <1>1
  <2>3. QED
    BY <1>2, <2>1, <2>2 DEF Extensions, m
<1>11. QED
  BY <1>4, <1>9, <1>10 DEF t, u, v, w

-----------------------------------------------------------------------------
(* Type correctness.                                                       *)

(* What TypeOK says of the positions.                                      *)
LEMMA Positions ==
    ASSUME TypeOK
    PROVE  /\ buffer \in Seq(Byte) /\ accepted \in Seq(Byte)
           /\ Len(buffer) \in Nat /\ Len(accepted) \in Nat
           /\ partial_row_start \in Nat /\ scan_pos \in Nat /\ buffer_offset \in Nat
           /\ partial_row_start <= scan_pos /\ scan_pos <= Len(buffer)
           /\ partial_row_start \in 0..Len(buffer) /\ scan_pos \in 0..Len(buffer)
           /\ dialect \in Dialects /\ quote \in QuoteStates /\ quote.in_quotes \in BOOLEAN
           /\ violation \in Violation
           /\ AbsolutePos \in Nat
<1>1. /\ buffer \in Seq(Byte) /\ accepted \in Seq(Byte)
      /\ dialect \in Dialects /\ quote \in QuoteStates /\ violation \in Violation
      /\ buffer_offset \in Nat
      /\ partial_row_start \in 0..Len(buffer) /\ scan_pos \in partial_row_start..Len(buffer)
  BY DEF TypeOK
<1>2. Len(buffer) \in Nat /\ Len(accepted) \in Nat
  BY <1>1, LenProperties
<1>3. quote.in_quotes \in BOOLEAN
  BY <1>1 DEF QuoteStates
<1>4. QED
  BY <1>1, <1>2, <1>3 DEF AbsolutePos

(* Each action keeps TypeOK.                                               *)
LEMMA InitTyping == Init => TypeOK
<1>1. Len(<<>>) = 0
  OBVIOUS
<1>2. QED
  BY <1>1, NewQuoteTyping, EmptySeq, SizeAssumption DEF Init, TypeOK, Violation

LEMMA AdvanceTyping ==
    ASSUME TypeOK, NEW n \in Nat, NEW q \in QuoteStates, Advance(q, n),
           scan_pos + n <= Len(buffer)
    PROVE  TypeOK'
<1>1. /\ quote' = q /\ scan_pos' = scan_pos + n
      /\ violation' = FirstOf(violation, q.violation)
      /\ UNCHANGED <<dialect, strict, buffer, complete_rows, partial_row_start,
                     max_buffer_size, buffer_offset, pc, reply, accepted, taken>>
  BY DEF Advance, config, history
<1>2. q.violation \in Violation /\ violation \in Violation
  BY Positions DEF QuoteStates
<1>3. violation' \in Violation
  BY <1>1, <1>2, FirstOfTyping
<1>4. scan_pos' \in partial_row_start'..Len(buffer)'
  BY <1>1, Positions
<1>5. QED
  BY <1>1, <1>3, <1>4 DEF TypeOK

(* Where an iteration ends is in the buffer.                               *)
LEMMA EscapeTyping ==
    ASSUME TypeOK, EscapeSequence
    PROVE  TypeOK'
<1> DEFINE doubled == quote.in_quotes /\ PairInBuffer
           n == IF doubled THEN 2 * Len(dialect.escape) ELSE Len(dialect.escape)
           q == OnEscape(quote, AbsolutePos, doubled)
<1>1. Advance(q, n)
  BY DEF EscapeSequence
<1>2. StartsWith(buffer, scan_pos, dialect.escape)
  <2>1. Token = "escape"
    BY DEF EscapeSequence, Scanning
  <2>2. QED
    BY <2>1, Positions, DialectTyping, TokenKinds DEF Token
<1>3. /\ ConsumeEscape(dialect, quote, buffer, scan_pos).len \in Nat \ {0}
      /\ scan_pos + ConsumeEscape(dialect, quote, buffer, scan_pos).len <= Len(buffer)
  BY <1>2, Positions, EscapeLength
<1>4. n = ConsumeEscape(dialect, quote, buffer, scan_pos).len
  BY DEF ConsumeEscape, PairInBuffer
<1>5. q \in QuoteStates
  <2>1. doubled \in BOOLEAN
    <3>1. PairInBuffer \in BOOLEAN
      BY DEF PairInBuffer, Doubled, StartsWith, IsPrefix
    <3>2. QED
      BY <3>1, Positions
  <2> HIDE DEF doubled
  <2>2. QED
    BY <2>1, Positions, QuoteTyping
<1> HIDE DEF n, q
<1>6. n \in Nat /\ scan_pos + n <= Len(buffer)
  BY <1>3, <1>4
<1>7. QED
  BY <1>1, <1>5, <1>6, AdvanceTyping

LEMMA SeparatorTyping ==
    ASSUME TypeOK, Separator
    PROVE  TypeOK'
<1>1. Advance(OnDelimiter(quote), MatchSeparator(dialect, buffer, scan_pos))
  BY DEF Separator
<1>2. MatchSeparator(dialect, buffer, scan_pos) \in Nat
      /\ scan_pos + MatchSeparator(dialect, buffer, scan_pos) <= Len(buffer)
  BY Positions, DialectTyping, MatchOf DEF MatchSeparator
<1>3. OnDelimiter(quote) \in QuoteStates
  BY Positions, QuoteTyping DEF AbsolutePos
<1>4. QED
  BY <1>1, <1>2, <1>3, AdvanceTyping

LEMMA OneByteTyping ==
    ASSUME TypeOK, QuotedByte \/ Data
    PROVE  TypeOK'
<1> DEFINE q == IF QuotedByte THEN quote ELSE OnData(quote, AbsolutePos)
<1>1. scan_pos < Len(buffer) /\ Advance(q, 1)
  BY DEF QuotedByte, Data, Scanning
<1>2. q \in QuoteStates
  <2>1. OnData(quote, AbsolutePos) \in QuoteStates /\ quote \in QuoteStates
    <3>1. PICK no \in BOOLEAN : TRUE
      OBVIOUS
    <3>2. QED
      BY <3>1, Positions, QuoteTyping
  <2>2. QED
    BY <2>1
<1> HIDE DEF q
<1>3. 1 \in Nat /\ scan_pos + 1 <= Len(buffer)
  BY <1>1, Positions
<1>4. QED
  BY <1>1, <1>2, <1>3, AdvanceTyping

LEMMA NewlineTyping ==
    ASSUME TypeOK, Newline
    PROVE  TypeOK'
<1> DEFINE n == MatchNewline(dialect, buffer, scan_pos)
           line == RowLine(partial_row_start, scan_pos)
           v == ReadLine(dialect, line).violation
           first == ViolationWithRow(partial_row_start, scan_pos)
<1>1. /\ scan_pos' = scan_pos + n /\ partial_row_start' = scan_pos + n
      /\ quote' = OnDelimiter(quote)
      /\ complete_rows' = Append(complete_rows, line)
      /\ violation' = FirstOf(first, quote.violation)
      /\ UNCHANGED <<dialect, strict, buffer, max_buffer_size, buffer_offset, pc, reply,
                     accepted, taken>>
  BY DEF Newline, config, history
<1>2. n \in Nat /\ scan_pos + n <= Len(buffer)
  BY Positions, DialectTyping, MatchOf DEF MatchNewline
<1>3. line \in Seq(Byte)
  <2>1. scan_pos \in partial_row_start..Len(buffer)
    BY Positions
  <2>2. QED
    BY <2>1, Positions, PartOf DEF RowLine
<1>4. first \in Violation
  <2>1. v \in Violation
    BY <1>3, Positions, LineViolation
  <2> DEFINE base == buffer_offset + partial_row_start
  <2>2. base \in Nat
    BY Positions
  <2>3. first = FirstOf(violation, Rebase(v, base))
    BY DEF ViolationWithRow
  <2> HIDE DEF v, base, first
  <2>4. Rebase(v, base) \in Violation
    BY <2>1, <2>2, RebaseTyping
  <2>5. FirstOf(violation, Rebase(v, base)) \in Violation
    BY <2>4, Positions, FirstOfTyping
  <2>6. QED
    BY <2>3, <2>5
<1>5. quote.violation \in Violation /\ OnDelimiter(quote) \in QuoteStates
  BY Positions, QuoteTyping DEF QuoteStates
<1> HIDE DEF n, line, first
<1>6. violation' \in Violation
  BY <1>1, <1>4, <1>5, FirstOfTyping
<1>7. complete_rows' \in Seq(Seq(Byte))
  BY <1>1, <1>3 DEF TypeOK
<1>8. partial_row_start' \in 0..Len(buffer)' /\ scan_pos' \in partial_row_start'..Len(buffer)'
  BY <1>1, <1>2, Positions
<1>9. QED
  BY <1>1, <1>5, <1>6, <1>7, <1>8 DEF TypeOK

-----------------------------------------------------------------------------
(* Compaction.                                                             *)

LEMMA EndScanTyping ==
    ASSUME TypeOK, EndScan
    PROVE  TypeOK'
<1>1. /\ pc' = "idle" /\ reply' \in {"malformed_csv", "ok"}
      /\ UNCHANGED <<dialect, strict, complete_rows, quote, max_buffer_size, violation,
                     accepted, taken>>
  BY DEF EndScan, config, history
<1>2. CASE CompactionDue
  <2>1. /\ buffer' = Suffix(buffer, partial_row_start)
        /\ buffer_offset' = buffer_offset + partial_row_start
        /\ scan_pos' = scan_pos - partial_row_start /\ partial_row_start' = 0
    BY <1>2 DEF EndScan, Compact, Suffix
  <2>2. buffer' \in Seq(Byte) /\ Len(buffer') = Len(buffer) - partial_row_start
    BY <2>1, Positions, SuffixOf
  <2>3. /\ partial_row_start' \in 0..Len(buffer')
        /\ scan_pos' \in partial_row_start'..Len(buffer')
        /\ buffer_offset' \in Nat
    BY <2>1, <2>2, Positions
  <2>4. QED
    BY <1>1, <2>2, <2>3 DEF TypeOK
<1>3. CASE ~CompactionDue
  <2>1. UNCHANGED <<buffer, buffer_offset, scan_pos, partial_row_start>>
    BY <1>3 DEF EndScan
  <2>2. QED
    BY <1>1, <2>1 DEF TypeOK
<1>4. QED
  BY <1>2, <1>3

LEMMA FeedTyping ==
    ASSUME TypeOK, NEW n \in Nat, NEW chunk \in [1..n -> Byte], Feed(chunk)
    PROVE  TypeOK' /\ chunk \in Seq(Byte)
<1>1. chunk \in Seq(Byte)
  OBVIOUS
<1>2. /\ buffer' = buffer \o chunk /\ accepted' = accepted \o chunk
      /\ pc' = "scanning" /\ reply' = "none"
      /\ UNCHANGED <<dialect, strict, complete_rows, partial_row_start, scan_pos, quote,
                     max_buffer_size, buffer_offset, violation, taken>>
  BY DEF Feed, config
<1>3. /\ buffer' \in Seq(Byte) /\ accepted' \in Seq(Byte)
      /\ Len(buffer') = Len(buffer) + Len(chunk) /\ Len(chunk) \in Nat
  BY <1>1, <1>2, Positions, ConcatProperties, LenProperties
<1>4. partial_row_start' \in 0..Len(buffer') /\ scan_pos' \in partial_row_start'..Len(buffer')
  BY <1>2, <1>3, Positions
<1>5. QED
  BY <1>1, <1>2, <1>3, <1>4 DEF TypeOK

(* What next_rows hands out and what it keeps are the rows there were.     *)
LEMMA RowsTaken ==
    ASSUME TypeOK, NEW n \in 0..Len(complete_rows)
    PROVE  /\ taken \o SubSeq(complete_rows, 1, n) \in Seq(Seq(Byte))
           /\ SubSeq(complete_rows, n + 1, Len(complete_rows)) \in Seq(Seq(Byte))
           /\ (taken \o SubSeq(complete_rows, 1, n))
                \o SubSeq(complete_rows, n + 1, Len(complete_rows)) = taken \o complete_rows
           /\ Len(taken \o SubSeq(complete_rows, 1, n)) <= Len(taken \o complete_rows)
<1> DEFINE L == Seq(Byte)
           rows == complete_rows
           m == Len(rows)
           u == SubSeq(rows, 1, n)
           w == SubSeq(rows, n + 1, m)
           a == taken \o u
           x == a \o w
           y == taken \o rows
           k == Len(taken)
<1>1. rows \in Seq(L) /\ taken \in Seq(L)
  BY DEF TypeOK
<1> HIDE DEF L
<1>2. /\ m \in Nat /\ k \in Nat /\ n \in Nat /\ n <= m
      /\ \A i \in 1..m : rows[i] \in L
  BY <1>1, LenProperties
<1>3. u \in Seq(L) /\ Len(u) = n /\ \A i \in 1..n : u[i] = rows[i]
  <2>1. \A i \in 1..n : rows[i] \in L
    BY <1>2
  <2>2. 1 \in Int /\ n \in Int /\ (n - 1) + 1 = n /\ \A i \in 1..n : (1 + i) - 1 = i
    BY <1>2
  <2> HIDE DEF rows, m, k
  <2>3. QED
    BY <1>2, <2>1, <2>2, SubSeqProperties
<1>4. w \in Seq(L) /\ Len(w) = m - n /\ \A i \in 1..m - n : w[i] = rows[n + i]
  <2>1. \A i \in (n + 1)..m : rows[i] \in L
    BY <1>2
  <2> HIDE DEF rows, m, k
  <2>2. n + 1 \in Int /\ m \in Int /\ (m - (n + 1)) + 1 = m - n
        /\ \A i \in 1..m - n : ((n + 1) + i) - 1 = n + i
        /\ (n + 1 > m => m - n = 0)
    BY <1>2
  <2>3. QED
    BY <1>2, <2>1, <2>2, SubSeqProperties
<1> HIDE DEF u, w, rows
<1>5. /\ a \in Seq(L) /\ Len(a) = k + n
      /\ \A i \in 1..k + n : a[i] = IF i <= k THEN taken[i] ELSE u[i - k]
  BY <1>1, <1>3, ConcatProperties
<1> HIDE DEF a, k, m
<1>6. /\ x \in Seq(L) /\ Len(x) = (k + n) + (m - n)
      /\ \A i \in 1..(k + n) + (m - n) :
            x[i] = IF i <= k + n THEN a[i] ELSE w[i - (k + n)]
  <2>1. /\ x \in Seq(L) /\ Len(x) = Len(a) + Len(w)
        /\ \A i \in 1..Len(a) + Len(w) : x[i] = IF i <= Len(a) THEN a[i] ELSE w[i - Len(a)]
    BY <1>4, <1>5, ConcatProperties
  <2> HIDE DEF x
  <2>2. Len(a) = k + n /\ Len(w) = m - n
    BY <1>4, <1>5
  <2>3. QED
    BY <2>1, <2>2
<1>7. /\ y \in Seq(L) /\ Len(y) = k + m
      /\ \A i \in 1..k + m : y[i] = IF i <= k THEN taken[i] ELSE rows[i - k]
  BY <1>1, ConcatProperties DEF k, m
<1> HIDE DEF x, y
<1>8. Len(x) = k + m /\ Len(y) = k + m
  BY <1>2, <1>6, <1>7
<1>9. ASSUME NEW i \in 1..k + m
      PROVE  x[i] = y[i]
  <2>1. i \in 1..(k + n) + (m - n)
    BY <1>2
  <2>2. x[i] = IF i <= k + n THEN a[i] ELSE w[i - (k + n)]
    BY <1>6, <2>1
  <2>3. y[i] = IF i <= k THEN taken[i] ELSE rows[i - k]
    BY <1>7
  <2>4. CASE i <= k
    <3>1. i <= k + n /\ i \in 1..k + n
      BY <1>2, <2>4
    <3>2. a[i] = taken[i]
      BY <1>5, <2>4, <3>1
    <3>3. QED
      BY <2>2, <2>3, <2>4, <3>1, <3>2
  <2>5. CASE ~(i <= k) /\ i <= k + n
    <3>1. i - k \in 1..n /\ i \in 1..k + n
      BY <1>2, <2>5
    <3>2. a[i] = u[i - k] /\ u[i - k] = rows[i - k]
      BY <1>3, <1>5, <2>5, <3>1
    <3>3. QED
      BY <2>2, <2>3, <2>5, <3>2
  <2>6. CASE ~(i <= k) /\ ~(i <= k + n)
    <3> DEFINE j == i - (k + n)
    <3>1. j \in 1..m - n /\ n + j = i - k
      BY <1>2, <2>6
    <3>2. x[i] = w[j]
      BY <2>2, <2>6
    <3> HIDE DEF j
    <3>3. w[j] = rows[n + j]
      BY <1>4, <3>1
    <3>4. QED
      BY <2>3, <2>6, <3>1, <3>2, <3>3
  <2>7. QED
    BY <2>4, <2>5, <2>6
<1>10. x = y
  BY <1>6, <1>7, <1>8, <1>9, SeqEqual
<1>11. Len(a) <= Len(y)
  BY <1>2, <1>5, <1>8
<1>12. QED
  BY <1>4, <1>5, <1>10, <1>11 DEF L, x, y, a, u, w, rows, m

-----------------------------------------------------------------------------
LEMMA NextRowsTyping ==
    ASSUME TypeOK, NEW max \in 1..MaxInput, NextRows(max)
    PROVE  /\ TypeOK' /\ taken' \o complete_rows' = taken \o complete_rows
           /\ Len(taken) <= Len(taken')
           /\ Len(taken') <= Len(taken \o complete_rows)
<1>1. /\ complete_rows \in Seq(Seq(Byte)) /\ taken \in Seq(Seq(Byte))
      /\ Len(complete_rows) \in Nat /\ Len(taken) \in Nat
      /\ Len(taken \o complete_rows) = Len(taken) + Len(complete_rows)
  BY LenProperties, ConcatProperties DEF TypeOK
<1>2. UNCHANGED <<dialect, strict, buffer, partial_row_start, scan_pos, quote,
                  max_buffer_size, buffer_offset, violation, pc, accepted>>
  BY DEF NextRows, config
<1>3. CASE Malformed
  <2>1. UNCHANGED <<complete_rows, taken>> /\ reply' = "malformed_csv"
    BY <1>3 DEF NextRows
  <2>2. Len(taken) <= Len(taken) /\ Len(taken) <= Len(taken \o complete_rows)
    BY <1>1
  <2>3. QED
    BY <1>2, <2>1, <2>2 DEF TypeOK
<1>4. CASE ~Malformed
  <2> DEFINE n == IF max < Len(complete_rows) THEN max ELSE Len(complete_rows)
  <2>1. n \in 0..Len(complete_rows)
    BY <1>1
  <2>2. /\ taken' = taken \o SubSeq(complete_rows, 1, n)
        /\ complete_rows' = SubSeq(complete_rows, n + 1, Len(complete_rows))
        /\ reply' = "ok"
    BY <1>4 DEF NextRows
  <2> HIDE DEF n
  <2>3. /\ taken' \in Seq(Seq(Byte)) /\ complete_rows' \in Seq(Seq(Byte))
        /\ taken' \o complete_rows' = taken \o complete_rows
        /\ Len(taken') <= Len(taken \o complete_rows)
    BY <2>1, <2>2, RowsTaken
  <2>4. TypeOK'
    BY <1>2, <2>2, <2>3 DEF TypeOK
  <2>5. Len(taken) <= Len(taken')
    <3>1. \A i \in 1..n : complete_rows[i] \in Seq(Byte)
      BY <1>1, <2>1, ElementOfSeq
    <3>2. SubSeq(complete_rows, 1, n) \in Seq(Seq(Byte))
      BY <2>1, <3>1, SubSeqProperties
    <3> DEFINE u == SubSeq(complete_rows, 1, n)
    <3> HIDE DEF u
    <3>3. u \in Seq(Seq(Byte)) /\ Len(u) \in Nat
      BY <3>2, LenProperties DEF u
    <3>4. Len(taken \o u) = Len(taken) + Len(u)
      BY <1>1, <3>3, ConcatProperties
    <3>5. Len(taken') = Len(taken) + Len(u)
      BY <2>2, <3>4 DEF u
    <3>6. QED
      BY <1>1, <3>3, <3>5
  <2>6. QED
    BY <2>3, <2>4, <2>5
<1>5. QED
  BY <1>3, <1>4

LEMMA FinalizeTyping ==
    ASSUME TypeOK, Finalize
    PROVE  TypeOK'
<1>1. Len(<<>>) = 0 /\ <<>> \in Seq(Byte) /\ <<>> \in Seq(Seq(Byte)) /\ NoViolation \in Violation
  BY EmptySeq DEF Violation
<1>2. /\ UNCHANGED <<dialect, strict, max_buffer_size, pc>>
      /\ reply' \in {"malformed_csv", "ok"}
  BY DEF Finalize, config
<1>3. /\ buffer' = <<>> /\ complete_rows' = <<>> /\ accepted' = <<>> /\ taken' = <<>>
      /\ partial_row_start' = 0 /\ scan_pos' = 0 /\ buffer_offset' = 0
      /\ quote' = NewQuote /\ violation' = NoViolation
  BY DEF Finalize
<1>4. QED
  BY <1>1, <1>2, <1>3, NewQuoteTyping DEF TypeOK

LEMMA NextTyping ==
    ASSUME TypeOK, [Next]_vars
    PROVE  TypeOK'
<1>1. ASSUME NEW n \in 0..MaxInput - Len(accepted), NEW chunk \in [1..n -> Byte], Feed(chunk)
      PROVE  TypeOK'
  <2>1. n \in Nat
    OBVIOUS
  <2>2. QED
    BY <1>1, <2>1, FeedTyping
<1>2. ASSUME NEW size \in 1..MaxInput, FeedOverflow(size)
      PROVE  TypeOK'
  <2>1. /\ reply' = "buffer_overflow"
        /\ UNCHANGED <<dialect, strict, buffer, complete_rows, partial_row_start, scan_pos,
                       quote, max_buffer_size, buffer_offset, violation, pc, accepted, taken>>
    BY <1>2 DEF FeedOverflow, config, history
  <2>2. QED
    BY <2>1 DEF TypeOK
<1>3. CASE EscapeSequence
  BY <1>3, EscapeTyping
<1>4. CASE QuotedByte \/ Data
  BY <1>4, OneByteTyping
<1>5. CASE Separator
  BY <1>5, SeparatorTyping
<1>6. CASE Newline
  BY <1>6, NewlineTyping
<1>7. CASE EndScan
  BY <1>7, EndScanTyping
<1>8. ASSUME NEW max \in 1..MaxInput, NextRows(max)
      PROVE  TypeOK'
  BY <1>8, NextRowsTyping
<1>9. CASE Finalize
  BY <1>9, FinalizeTyping
<1>10. ASSUME NEW max \in Limits, SetMaxBuffer(max)
       PROVE  TypeOK'
  <2>1. /\ reply' = "ok" /\ max_buffer_size' = max
        /\ UNCHANGED <<dialect, strict, buffer, complete_rows, partial_row_start, scan_pos,
                       quote, buffer_offset, violation, pc, accepted, taken>>
    BY <1>10 DEF SetMaxBuffer, config, history
  <2>2. QED
    BY <2>1 DEF TypeOK
<1>11. CASE UNCHANGED vars
  <2>1. UNCHANGED <<dialect, strict, buffer, complete_rows, partial_row_start, scan_pos, quote,
                    max_buffer_size, buffer_offset, violation, pc, reply, accepted, taken>>
    BY <1>11 DEF vars, config, history
  <2>2. QED
    BY <2>1 DEF TypeOK
<1>12. QED
  BY <1>1, <1>2, <1>3, <1>4, <1>5, <1>6, <1>7, <1>8, <1>9, <1>10, <1>11 DEF Next

(* Type correctness: whatever the dialect and however chunks are cut, the  *)
(* positions of a general streaming parser stay ordered and within its     *)
(* buffer, through compaction too, so that no call slices out of bounds.   *)
THEOREM TypeCorrect == Spec => []TypeOK
<1>1. Init => TypeOK
  BY InitTyping
<1>2. TypeOK /\ [Next]_vars => TypeOK'
  BY NextTyping
<1>3. QED
  BY <1>1, <1>2, PTL DEF Spec

-----------------------------------------------------------------------------
(* The scan stops at the end of its buffer or where it has to wait.        *)

(* The buffer is the end of the text that was fed.                         *)
Window ==
    /\ buffer_offset \in 0..Len(accepted)
    /\ buffer = Suffix(accepted, buffer_offset)

(* Between calls the parser has read its buffer, or waits.                 *)
Parked ==
    Idle => \/ scan_pos >= Len(buffer)
            \/ Awaits(dialect, buffer, scan_pos, quote.in_quotes)

(* Waiting is Awaits, at the position of the scan.                         *)
LEMMA WaitingIs ==
    Waiting <=> /\ scan_pos < Len(buffer)
                /\ Awaits(dialect, buffer, scan_pos, quote.in_quotes)
BY DEF Waiting, Awaits, PartialPair, PartialSeparator, WaitsForNewline, PartialEscape,
       Token, PairInBuffer

(* Compaction drops rows that were cut out: it moves no absolute position, *)
(* and the parser waits for what it waited for.                            *)
LEMMA EndScanWindow ==
    ASSUME TypeOK, Window, EndScan
    PROVE  /\ Window' /\ Parked'
           /\ AbsolutePos' = AbsolutePos
           /\ buffer_offset' + partial_row_start' = buffer_offset + partial_row_start
           /\ scan_pos' < Len(buffer') => scan_pos < Len(buffer)
           /\ scan_pos' < Len(buffer') =>
                 Awaits(dialect, buffer', scan_pos', quote.in_quotes)
<1>1. UNCHANGED <<dialect, quote, accepted>> /\ pc' = "idle"
  BY DEF EndScan, config, history
<1>2. scan_pos < Len(buffer) => Awaits(dialect, buffer, scan_pos, quote.in_quotes)
  <2>1. scan_pos >= Len(buffer) \/ Waiting
    BY DEF EndScan
  <2>2. scan_pos < Len(buffer) => ~(scan_pos >= Len(buffer))
    BY Positions
  <2>3. QED
    BY <2>1, <2>2, WaitingIs
<1>3. buffer_offset \in 0..Len(accepted) /\ buffer = Suffix(accepted, buffer_offset)
      /\ Len(buffer) = Len(accepted) - buffer_offset
  BY Positions, SuffixOf DEF Window
<1>4. CASE ~CompactionDue
  <2>1. UNCHANGED <<buffer, buffer_offset, scan_pos, partial_row_start>>
    BY <1>4 DEF EndScan
  <2>2. ~(scan_pos < Len(buffer)) => scan_pos >= Len(buffer)
    BY Positions
  <2>3. QED
    BY <1>1, <1>2, <1>3, <2>1, <2>2 DEF Window, Parked, AbsolutePos
<1>5. CASE CompactionDue
  <2> DEFINE p == partial_row_start
             off == buffer_offset + p
  <2>1. /\ buffer' = Suffix(buffer, p) /\ buffer_offset' = off
        /\ scan_pos' = scan_pos - p /\ partial_row_start' = 0
    BY <1>5 DEF EndScan, Compact, Suffix
  <2>2. buffer' \in Seq(Byte) /\ Len(buffer') = Len(buffer) - p
    BY <2>1, Positions, SuffixOf
  <2>3. p \in 0..Len(accepted) - buffer_offset
    BY <1>3, Positions
  <2>4. buffer' = Suffix(accepted, off) /\ off \in 0..Len(accepted)
    BY <1>3, <2>1, <2>3, Positions, SuffixSuffix
  <2>5. /\ scan_pos' \in Nat /\ Len(buffer') \in Nat
        /\ scan_pos' < Len(buffer') <=> scan_pos < Len(buffer)
        /\ off + scan_pos' = buffer_offset + scan_pos
        /\ ~(scan_pos' < Len(buffer')) => scan_pos' >= Len(buffer')
    <3> DEFINE x == scan_pos - p
               n == Len(buffer)
               y == n - p
    <3>1. /\ n \in Nat /\ scan_pos \in Nat /\ p \in Nat /\ p <= scan_pos /\ scan_pos <= n
          /\ buffer_offset \in Nat
      BY Positions
    <3> HIDE DEF n, p
    <3>2. x \in Nat /\ y \in Nat
      BY <3>1
    <3>3. x < y <=> scan_pos < n
      BY <3>1
    <3>4. (buffer_offset + p) + x = buffer_offset + scan_pos
      BY <3>1
    <3>5. ~(x < y) => x >= y
      BY <3>2
    <3> HIDE DEF x, y
    <3>6. scan_pos' = x /\ Len(buffer') = y
      BY <2>1, <2>2 DEF x, y, n
    <3>7. QED
      BY <3>2, <3>3, <3>4, <3>5, <3>6 DEF n
  <2>6. ASSUME scan_pos' < Len(buffer')
        PROVE  Awaits(dialect, buffer', scan_pos', quote.in_quotes)
    <3> DEFINE b == scan_pos - p
               t == Suffix(buffer, p)
    <3>1. scan_pos \in 0..Len(buffer) - 1 /\ b \in 0..Len(t) - 1 /\ t \in Seq(Byte)
      <4>1. scan_pos < Len(buffer)
        BY <2>5, <2>6
      <4>2. t \in Seq(Byte) /\ Len(t) = Len(buffer) - p
        BY Positions, SuffixOf
      <4> HIDE DEF t
      <4>3. QED
        BY <4>1, <4>2, Positions
    <3>2. Suffix(t, b) = Suffix(buffer, scan_pos)
      <4>1. b \in 0..Len(buffer) - p /\ scan_pos = p + b
        BY Positions
      <4> HIDE DEF b
      <4>2. QED
        BY <4>1, Positions, SuffixSuffix
    <3>3. Awaits(dialect, buffer, scan_pos, quote.in_quotes)
      BY <1>2, <2>5, <2>6
    <3> HIDE DEF b, t
    <3>4. Awaits(dialect, t, b, quote.in_quotes)
      BY <3>1, <3>2, <3>3, Positions, AwaitsSame
    <3>5. QED
      BY <2>1, <3>4 DEF b, t
  <2> HIDE DEF off
  <2>7. Window'
    BY <1>1, <2>1, <2>4 DEF Window
  <2>8. Parked'
    BY <1>1, <2>5, <2>6 DEF Parked
  <2>9. AbsolutePos' = AbsolutePos
    BY <2>1, <2>5 DEF AbsolutePos
  <2>10. buffer_offset' + partial_row_start' = buffer_offset + partial_row_start
    BY <2>1, <2>4, Positions DEF off
  <2>11. QED
    BY <2>5, <2>6, <2>7, <2>8, <2>9, <2>10
<1>6. QED
  BY <1>4, <1>5

LEMMA EmptySuffix == Len(<<>>) = 0 /\ Suffix(<<>>, 0) = <<>>
<1>1. Len(<<>>) = 0 /\ 0 + 1 = 1
  OBVIOUS
<1>2. SubSeq(<<>>, 1, 0) = <<>>
  BY SubSeqEmpty
<1>3. QED
  BY <1>1, <1>2 DEF Suffix

(* Each step keeps both.                                                   *)
LEMMA NextParked ==
    ASSUME TypeOK, Window, Parked, [Next]_vars
    PROVE  Window' /\ Parked'
<1>1. ASSUME NEW n \in 0..MaxInput - Len(accepted), NEW chunk \in [1..n -> Byte], Feed(chunk)
      PROVE  Window' /\ Parked'
  <2>1. n \in Nat /\ buffer' = buffer \o chunk /\ accepted' = accepted \o chunk
        /\ buffer_offset' = buffer_offset /\ pc' = "scanning"
    BY <1>1 DEF Feed
  <2>2. chunk \in Seq(Byte)
    BY <1>1, <2>1, FeedTyping
  <2>3. /\ buffer_offset \in 0..Len(accepted \o chunk)
        /\ Suffix(accepted \o chunk, buffer_offset) = buffer \o chunk
    BY <2>2, Positions, FedText DEF Window
  <2>4. QED
    BY <2>1, <2>3 DEF Window, Parked, Idle
<1>2. CASE EscapeSequence \/ QuotedByte \/ Separator \/ Data \/ Newline
  <2>1. UNCHANGED <<buffer, buffer_offset, accepted, pc>> /\ pc = "scanning"
    BY <1>2 DEF EscapeSequence, QuotedByte, Separator, Data, Newline, Scanning, Advance, history
  <2>2. QED
    BY <2>1 DEF Window, Parked, Idle
<1>3. CASE EndScan
  BY <1>3, EndScanWindow
<1>4. CASE Finalize
  <2>1. accepted' = <<>> /\ buffer' = <<>> /\ buffer_offset' = 0 /\ scan_pos' = 0
    BY <1>4 DEF Finalize
  <2>2. Len(<<>>) = 0 /\ Suffix(<<>>, 0) = <<>>
    BY EmptySuffix
  <2>3. QED
    BY <2>1, <2>2 DEF Window, Parked
<1>5. CASE UNCHANGED <<dialect, buffer, buffer_offset, accepted, scan_pos, quote, pc>>
  BY <1>5 DEF Window, Parked, Idle
<1>6. ASSUME \/ \E size \in 1..MaxInput : FeedOverflow(size)
             \/ \E max \in 1..MaxInput : NextRows(max)
             \/ \E max \in Limits : SetMaxBuffer(max)
             \/ UNCHANGED vars
      PROVE  UNCHANGED <<dialect, buffer, buffer_offset, accepted, scan_pos, quote, pc>>
  BY <1>6 DEF FeedOverflow, NextRows, SetMaxBuffer, vars, config, history
<1>7. QED
  BY <1>1, <1>2, <1>3, <1>4, <1>5, <1>6 DEF Next

(* No pattern of the dialect is longer than Lookahead.                     *)
LEMMA LookaheadBounds ==
    ASSUME dialect \in Dialects
    PROVE  /\ Lookahead \in Nat
           /\ Len(dialect.escape) <= Lookahead
           /\ \A k \in DOMAIN dialect.newlines : Len(dialect.newlines[k]) <= Lookahead
           /\ \A k \in DOMAIN dialect.separators : Len(dialect.separators[k]) <= Lookahead
<1> DEFINE N == {Len(dialect.newlines[k]) : k \in DOMAIN dialect.newlines}
           S == {Len(dialect.separators[k]) : k \in DOMAIN dialect.separators}
           e == Len(dialect.escape)
           T == ({e} \cup N) \cup S
<1>1. dialect.newlines \in Patterns /\ dialect.separators \in Patterns /\ e \in Nat
  BY DialectTyping
<1>2. PICK b \in Nat : \A k \in DOMAIN dialect.newlines : Len(dialect.newlines[k]) <= b
  BY <1>1, LengthsBounded
<1>3. PICK c \in Nat : \A k \in DOMAIN dialect.separators : Len(dialect.separators[k]) <= c
  BY <1>1, LengthsBounded
<1>4. N \subseteq 0..b /\ S \subseteq 0..c
  BY <1>1, <1>2, <1>3, PatternTyping
<1> DEFINE m == e + b + c
<1> HIDE DEF N, S, e
<1>5. /\ m \in Nat /\ e \in 0..m
      /\ \A x \in 0..b : x \in 0..m
      /\ \A x \in 0..c : x \in 0..m
  BY <1>1
<1> HIDE DEF m
<1>6. T \subseteq 0..m /\ T # {}
  BY <1>4, <1>5
<1> HIDE DEF T
<1>7. Max(T) \in T /\ \A j \in T : j <= Max(T)
  BY <1>5, <1>6, GreatestOf
<1>8. Lookahead = Max(T)
  BY DEF Lookahead, T, N, S, e
<1>9. Max(T) \in Nat
  <2>1. Max(T) \in 0..m
    BY <1>6, <1>7, Zenon
  <2> DEFINE g == Max(T)
  <2> HIDE DEF g
  <2>2. g \in 0..m
    BY <2>1 DEF g
  <2>3. g \in Nat
    BY <1>5, <2>2
  <2>4. QED
    BY <2>3 DEF g
<1>10. /\ Len(dialect.escape) \in T
       /\ \A k \in DOMAIN dialect.newlines : Len(dialect.newlines[k]) \in T
       /\ \A k \in DOMAIN dialect.separators : Len(dialect.separators[k]) \in T
  BY DEF T, N, S, e
<1>11. QED
  BY <1>7, <1>8, <1>9, <1>10

(* What a parser waits for is shorter than a pattern.                      *)
LEMMA ParkedReadsOn ==
    ASSUME TypeOK, Parked
    PROVE  ReadsOn
<1> SUFFICES ASSUME Idle
             PROVE  \/ Len(buffer) - scan_pos < Lookahead
                    \/ /\ quote.in_quotes
                       /\ Len(buffer) - scan_pos < 2 * Len(dialect.escape)
  BY DEF ReadsOn
<1> DEFINE left == Len(buffer) - scan_pos
           e == Len(dialect.escape)
           look == Lookahead
<1>1. /\ left \in Nat /\ e \in Nat \ {0} /\ look \in Nat /\ e <= look
      /\ \A k \in DOMAIN dialect.newlines : Len(dialect.newlines[k]) <= look
      /\ \A k \in DOMAIN dialect.separators : Len(dialect.separators[k]) <= look
  BY Positions, DialectTyping, LookaheadBounds
<1>2. CASE scan_pos >= Len(buffer)
  <2>1. left = 0
    BY <1>2, Positions
  <2> HIDE DEF left, e, look
  <2>2. left < look
    BY <1>1, <2>1
  <2>3. QED
    BY <2>2 DEF left, look
<1>3. CASE PartialSuffix(buffer, scan_pos, dialect.escape)
  <2>1. left < e
    BY <1>3, Positions, DialectTyping, EndsWithin
  <2> HIDE DEF left, e, look
  <2>2. left < look
    BY <1>1, <2>1
  <2>3. QED
    BY <2>2 DEF left, look
<1>4. CASE /\ Token = "escape" /\ quote.in_quotes
           /\ PartialSuffix(buffer, scan_pos + e, dialect.escape)
  <2> DEFINE p == scan_pos + e
  <2>1. StartsWith(buffer, scan_pos, dialect.escape)
    BY <1>4, Positions, DialectTyping, TokenKinds DEF Token
  <2>2. scan_pos + e <= Len(buffer)
    BY <2>1, Positions, DialectTyping, StandsAt
  <2>3. p \in 0..Len(buffer)
    BY <1>1, <2>2, Positions
  <2>4. Len(buffer) - p < e
    <3> HIDE DEF p
    <3>1. PartialSuffix(buffer, p, dialect.escape)
      BY <1>4 DEF p
    <3>2. QED
      BY <2>3, <3>1, Positions, DialectTyping, EndsWithin
  <2>5. left < 2 * e
    <3> HIDE DEF e
    <3>1. QED
      BY <1>1, <2>3, <2>4, Positions
  <2>6. QED
    BY <1>4, <2>5
<1>5. ASSUME NEW k \in DOMAIN dialect.separators,
             PartialSuffix(buffer, scan_pos, dialect.separators[k])
      PROVE  left < look
  <2> DEFINE x == Len(dialect.separators[k])
  <2>1. dialect.separators[k] \in Seq(Byte) /\ x \in Nat /\ x <= look
    BY <1>1, Positions, DialectTyping, PatternTyping
  <2>2. left < x
    BY <1>5, <2>1, Positions, EndsWithin
  <2> HIDE DEF left, look, x
  <2>3. QED
    BY <1>1, <2>1, <2>2
<1>6. CASE dialect.is_default /\ scan_pos + 1 = Len(buffer)
  <2>1. dialect.newlines = <<<<CR, LF>>, <<LF>>>>
    BY <1>6, DialectsAssumption, Positions
  <2>2. 1 \in DOMAIN dialect.newlines /\ Len(dialect.newlines[1]) = 2
    BY <2>1
  <2>3. 2 <= look
    BY <1>1, <2>2
  <2>4. left = 1
    BY <1>6, Positions
  <2> HIDE DEF left, look
  <2>5. left < look
    BY <1>1, <2>3, <2>4
  <2>6. QED
    BY <2>5 DEF left, look
<1>7. CASE scan_pos + MaxPatternLen(dialect) > Len(buffer)
  <2>1. PICK k \in DOMAIN dialect.newlines : MaxPatternLen(dialect) = Len(dialect.newlines[k])
    BY Positions, LongestNewline
  <2> DEFINE x == Len(dialect.newlines[k])
  <2>2. x \in Nat /\ x <= look
    BY <1>1, Positions, DialectTyping, PatternTyping
  <2>3. scan_pos + x > Len(buffer)
    BY <1>7, <2>1
  <2> HIDE DEF x
  <2>4. left < look
    <3> HIDE DEF look
    <3>1. QED
      BY <1>1, <2>2, <2>3, Positions
  <2>5. QED
    BY <2>4
<1>8. \/ scan_pos >= Len(buffer)
      \/ Awaits(dialect, buffer, scan_pos, quote.in_quotes)
  BY DEF Parked
<1>9. QED
  BY <1>2, <1>3, <1>4, <1>5, <1>6, <1>7, <1>8 DEF Awaits, Token

(* A general streaming parser does not sit on data: whatever its dialect,  *)
(* between calls it has read its buffer but for less than a pattern, or    *)
(* for an escape and less than another.                                    *)
THEOREM ReadsOnCorrect == Spec => []ReadsOn
<1> DEFINE Inv == TypeOK /\ Window /\ Parked
<1>1. Init => Inv
  <2>1. Len(<<>>) = 0 /\ Suffix(<<>>, 0) = <<>>
    BY EmptySuffix
  <2>2. QED
    BY <2>1, InitTyping DEF Init, Window, Parked
<1>2. Inv /\ [Next]_vars => Inv'
  BY NextTyping, NextParked
<1>3. Inv => ReadsOn
  BY ParkedReadsOn
<1>4. QED
  BY <1>1, <1>2, <1>3, PTL DEF Spec

-----------------------------------------------------------------------------
(* What a parser has read is what a batch parse of its text reads.         *)

(* The place of the text where the current row begins, the rows that were  *)
(* cut out, and how many of them are known to be clean.                    *)
RowFrom == buffer_offset + partial_row_start

Lines == taken \o complete_rows

Clean == IF strict THEN Len(taken) ELSE 0

(* So far they are what a batch parse returns, however the text goes on.   *)
ReadSoFar ==
    /\ violation = quote.violation
    /\ Streamed(dialect, accepted, RowFrom, AbsolutePos, Lines, Clean, quote)

(* These are places of the text.                                           *)
LEMMA Places ==
    ASSUME TypeOK, Window
    PROVE  /\ RowFrom \in 0..Len(accepted) /\ AbsolutePos \in RowFrom..Len(accepted)
           /\ RowFrom \in Nat /\ Len(buffer) = Len(accepted) - buffer_offset
           /\ buffer_offset \in 0..Len(accepted)
           /\ buffer_offset + Len(buffer) = Len(accepted)
           /\ scan_pos < Len(buffer) <=> AbsolutePos < Len(accepted)
           /\ partial_row_start < Len(buffer) <=> RowFrom < Len(accepted)
           /\ Lines \in Seq(Seq(Byte)) /\ Clean \in 0..Len(Lines)
<1>1. Len(buffer) = Len(accepted) - buffer_offset /\ buffer_offset \in 0..Len(accepted)
  BY Positions, SuffixOf DEF Window
<1>2. /\ RowFrom \in 0..Len(accepted) /\ AbsolutePos \in RowFrom..Len(accepted)
      /\ RowFrom \in Nat /\ buffer_offset + Len(buffer) = Len(accepted)
  BY <1>1, Positions DEF RowFrom, AbsolutePos
<1>3. /\ scan_pos < Len(buffer) <=> AbsolutePos < Len(accepted)
      /\ partial_row_start < Len(buffer) <=> RowFrom < Len(accepted)
  BY <1>1, Positions DEF RowFrom, AbsolutePos
<1>4. taken \in Seq(Seq(Byte)) /\ complete_rows \in Seq(Seq(Byte))
  BY DEF TypeOK
<1>5. /\ Lines \in Seq(Seq(Byte)) /\ Len(Lines) = Len(taken) + Len(complete_rows)
      /\ Len(taken) \in Nat /\ Len(complete_rows) \in Nat
  BY <1>4, ConcatProperties, LenProperties DEF Lines
<1>6. Clean \in 0..Len(Lines)
  BY <1>5 DEF Clean
<1>7. QED
  BY <1>1, <1>2, <1>3, <1>5, <1>6

(* The buffer shows what stands at the absolute position of the scan.      *)
LEMMA ScanShows ==
    ASSUME TypeOK, Window, scan_pos < Len(buffer)
    PROVE  /\ AbsolutePos \in 0..Len(accepted) - 1
           /\ AbsolutePos \in RowFrom..Len(accepted) - 1
           /\ Token = TokenAt(dialect, dialect.newlines, accepted, AbsolutePos, quote.in_quotes)
           /\ MatchSeparator(dialect, buffer, scan_pos)
                = MatchSeparator(dialect, accepted, AbsolutePos)
           /\ MatchNewline(dialect, buffer, scan_pos)
                = MatchNewline(dialect, accepted, AbsolutePos)
           /\ PairInBuffer <=> Doubled(dialect, accepted, AbsolutePos)
           /\ Awaits(dialect, buffer, scan_pos, quote.in_quotes)
                <=> Awaits(dialect, accepted, AbsolutePos, quote.in_quotes)
<1>1. AbsolutePos \in 0..Len(accepted) - 1 /\ AbsolutePos \in RowFrom..Len(accepted) - 1
  BY Places, Positions
<1>2. Suffix(buffer, scan_pos) = Suffix(accepted, AbsolutePos)
  <2>1. scan_pos \in 0..Len(accepted) - buffer_offset
    BY Places, Positions
  <2>2. AbsolutePos = buffer_offset + scan_pos
    BY DEF AbsolutePos
  <2>3. Suffix(Suffix(accepted, buffer_offset), scan_pos) = Suffix(accepted, AbsolutePos)
    BY <2>1, <2>2, Places, Positions, SuffixSuffix
  <2>4. QED
    BY <2>3 DEF Window
<1>3. \A p : StartsWith(buffer, scan_pos, p) <=> StartsWith(accepted, AbsolutePos, p)
  BY <1>2 DEF StartsWith
<1>4. \A ps : MatchLength(ps, buffer, scan_pos) = MatchLength(ps, accepted, AbsolutePos)
  BY <1>2 DEF MatchLength, StartsWith
<1>5. Token = TokenAt(dialect, dialect.newlines, accepted, AbsolutePos, quote.in_quotes)
  BY <1>3, <1>4 DEF Token, TokenAt, MatchSeparator
<1>6. Doubled(dialect, buffer, scan_pos) <=> Doubled(dialect, accepted, AbsolutePos)
  <2>1. scan_pos \in 0..Len(buffer) /\ AbsolutePos \in 0..Len(accepted)
    BY <1>1, Positions
  <2>2. QED
    BY <1>2, <2>1, Positions, DoubledSame
<1>7. Awaits(dialect, buffer, scan_pos, quote.in_quotes)
        <=> Awaits(dialect, accepted, AbsolutePos, quote.in_quotes)
  <2>1. scan_pos \in 0..Len(buffer) - 1
    BY Positions
  <2>2. QED
    BY <1>1, <1>2, <2>1, Positions, AwaitsSame
<1>8. QED
  BY <1>1, <1>4, <1>5, <1>6, <1>7 DEF MatchSeparator, MatchNewline, PairInBuffer

(* What the scan does not wait for is decided.                             *)
LEMMA ScanDecided ==
    ASSUME TypeOK, Window, Clear(dialect), scan_pos < Len(buffer), ~Waiting
    PROVE  Decided(dialect, accepted, AbsolutePos, quote.in_quotes)
<1>1. ~Awaits(dialect, accepted, AbsolutePos, quote.in_quotes)
  BY WaitingIs, ScanShows
<1>2. QED
  BY <1>1, ScanShows, Positions, AwaitsNothing

(* The first violation stays.                                              *)
LEMMA ViolationStays ==
    ASSUME NEW q \in QuoteStates, NEW pos \in Nat, NEW token \in Tokens, token # "newline",
           NEW doubled \in BOOLEAN
    PROVE  /\ QuoteAfter(q, pos, token, doubled) \in QuoteStates
           /\ FirstOf(q.violation, QuoteAfter(q, pos, token, doubled).violation)
                = QuoteAfter(q, pos, token, doubled).violation
<1> DEFINE after == QuoteAfter(q, pos, token, doubled)
<1>1. /\ OnDelimiter(q) \in QuoteStates /\ OnEscape(q, pos, doubled) \in QuoteStates
      /\ OnData(q, pos) \in QuoteStates
  BY QuoteTyping
<1>2. after \in {q, OnDelimiter(q), OnEscape(q, pos, doubled), OnData(q, pos)}
  BY DEF QuoteAfter, Tokens
<1>3. q.violation # NoViolation => after.violation = q.violation
  BY <1>2, QuoteKeeps
<1> HIDE DEF after
<1>4. after \in QuoteStates
  BY <1>1, <1>2
<1>5. FirstOf(q.violation, after.violation) = after.violation
  BY <1>3 DEF FirstOf
<1>6. QED
  BY <1>4, <1>5 DEF after

(* An iteration that is not a newline.                                     *)
LEMMA AdvanceRead ==
    ASSUME TypeOK, Window, Clear(dialect), ReadSoFar,
           NEW token, token # "newline", Scanning(token),
           NEW doubled \in BOOLEAN, doubled <=> quote.in_quotes /\ PairInBuffer,
           NEW w, w = Width(dialect, token, doubled, MatchSeparator(dialect, buffer, scan_pos)),
           NEW q, q = QuoteAfter(quote, AbsolutePos, token, doubled), Advance(q, w)
    PROVE  ReadSoFar'
<1>1. scan_pos < Len(buffer) /\ ~Waiting /\ Token = token
  BY DEF Scanning
<1>2. /\ quote' = q /\ scan_pos' = scan_pos + w
      /\ violation' = FirstOf(violation, q.violation)
      /\ UNCHANGED <<dialect, strict, buffer_offset, partial_row_start, complete_rows,
                     accepted, taken>>
  BY DEF Advance, config, history
<1>3. token \in Tokens
  BY <1>1, Positions, DialectTyping, TokenKinds DEF Token
<1>4. q \in QuoteStates /\ FirstOf(quote.violation, q.violation) = q.violation
  <2> DEFINE a == AbsolutePos
  <2>1. a \in Nat /\ quote \in QuoteStates /\ q = QuoteAfter(quote, a, token, doubled)
    BY Positions
  <2> HIDE DEF a
  <2>2. /\ QuoteAfter(quote, a, token, doubled) \in QuoteStates
        /\ FirstOf(quote.violation, QuoteAfter(quote, a, token, doubled).violation)
             = QuoteAfter(quote, a, token, doubled).violation
    BY <1>3, <2>1, ViolationStays
  <2>3. QED
    BY <2>1, <2>2
<1>5. /\ Streamed(dialect, accepted, RowFrom, AbsolutePos, Lines, Clean, quote)
      /\ violation = quote.violation
  BY DEF ReadSoFar
<1> DEFINE next == AbsolutePos + w
<1>6. w \in Nat \ {0} /\ Streamed(dialect, accepted, RowFrom, next, Lines, Clean, q)
  <2>1. Decided(dialect, accepted, AbsolutePos, quote.in_quotes)
    BY <1>1, ScanDecided
  <2>2. token = TokenAt(dialect, dialect.newlines, accepted, AbsolutePos, quote.in_quotes)
    BY <1>1, ScanShows
  <2>3. doubled <=> quote.in_quotes /\ Doubled(dialect, accepted, AbsolutePos)
    BY <1>1, ScanShows
  <2>4. w = Width(dialect, token, doubled, MatchSeparator(dialect, accepted, AbsolutePos))
    BY <1>1, ScanShows
  <2>5. /\ AbsolutePos \in RowFrom..Len(accepted) - 1 /\ RowFrom \in 0..Len(accepted)
        /\ dialect \in Dialects /\ accepted \in Seq(Byte)
    BY <1>1, ScanShows, Places, Positions
  <2> DEFINE a == AbsolutePos
             f == RowFrom
  <2> HIDE DEF next
  <2>6. next = a + w
    BY DEF next
  <2> HIDE DEF a, f
  <2>7. /\ a \in f..Len(accepted) - 1 /\ f \in 0..Len(accepted)
        /\ Streamed(dialect, accepted, f, a, Lines, Clean, quote)
        /\ Decided(dialect, accepted, a, quote.in_quotes)
        /\ token = TokenAt(dialect, dialect.newlines, accepted, a, quote.in_quotes)
        /\ doubled <=> quote.in_quotes /\ Doubled(dialect, accepted, a)
        /\ w = Width(dialect, token, doubled, MatchSeparator(dialect, accepted, a))
    BY <1>5, <2>1, <2>2, <2>3, <2>4, <2>5 DEF a, f
  <2>8. w \in Nat \ {0}
        /\ Streamed(dialect, accepted, f, next, Lines, Clean, QuoteAfter(quote, a, token, doubled))
    BY <2>5, <2>6, <2>7, StreamedToken
  <2>9. QED
    BY <2>8 DEF a, f
<1>7. AbsolutePos' = next
  BY <1>2, <1>6, Positions DEF AbsolutePos
<1>8. RowFrom' = RowFrom /\ Lines' = Lines /\ Clean' = Clean
  BY <1>2 DEF RowFrom, Lines, Clean
<1> HIDE DEF next
<1>9. violation' = quote'.violation
  BY <1>2, <1>4, <1>5
<1>10. QED
  BY <1>2, <1>6, <1>7, <1>8, <1>9 DEF ReadSoFar

LEMMA TokensRead ==
    ASSUME TypeOK, Window, Clear(dialect), ReadSoFar,
           EscapeSequence \/ QuotedByte \/ Separator \/ Data
    PROVE  ReadSoFar'
<1> DEFINE doubled == quote.in_quotes /\ PairInBuffer
           n == MatchSeparator(dialect, buffer, scan_pos)
<1>1. doubled \in BOOLEAN
  <2>1. PairInBuffer \in BOOLEAN
    BY DEF PairInBuffer, Doubled, StartsWith, IsPrefix
  <2>2. QED
    BY <2>1, Positions
<1>2. ASSUME NEW token, token \in {"escape", "quoted", "separator", "data"}, Scanning(token),
             NEW w, w = Width(dialect, token, doubled, n),
             NEW q, q = QuoteAfter(quote, AbsolutePos, token, doubled), Advance(q, w)
      PROVE  ReadSoFar'
  <2>1. token # "newline" /\ doubled <=> quote.in_quotes /\ PairInBuffer
    BY <1>2
  <2> DEFINE t == token
  <2> HIDE DEF doubled
  <2>2. QED
    BY <1>1, <1>2, <2>1, AdvanceRead
<1>3. CASE EscapeSequence
  <2> DEFINE w == IF doubled THEN 2 * Len(dialect.escape) ELSE Len(dialect.escape)
             q == OnEscape(quote, AbsolutePos, doubled)
  <2>1. Scanning("escape") /\ Advance(q, w)
    BY <1>3 DEF EscapeSequence
  <2>2. w = Width(dialect, "escape", doubled, n)
    BY DEF Width
  <2>3. q = QuoteAfter(quote, AbsolutePos, "escape", doubled)
    BY DEF QuoteAfter
  <2> HIDE DEF w, q, doubled, n
  <2>4. QED
    BY <1>2, <2>1, <2>2, <2>3
<1>4. CASE QuotedByte
  <2> DEFINE w == 1
  <2>1. Scanning("quoted") /\ Advance(quote, w)
    BY <1>4 DEF QuotedByte
  <2>2. w = Width(dialect, "quoted", doubled, n)
    BY DEF Width
  <2>3. quote = QuoteAfter(quote, AbsolutePos, "quoted", doubled)
    BY DEF QuoteAfter
  <2> HIDE DEF w, doubled, n
  <2>4. QED
    BY <1>2, <2>1, <2>2, <2>3
<1>5. CASE Separator
  <2> DEFINE q == OnDelimiter(quote)
  <2>1. Scanning("separator") /\ Advance(q, n)
    BY <1>5 DEF Separator
  <2>2. n = Width(dialect, "separator", doubled, n)
    BY DEF Width
  <2>3. q = QuoteAfter(quote, AbsolutePos, "separator", doubled)
    BY DEF QuoteAfter
  <2> HIDE DEF q, doubled, n
  <2>4. QED
    BY <1>2, <2>1, <2>2, <2>3
<1>6. CASE Data
  <2> DEFINE w == 1
             q == OnData(quote, AbsolutePos)
  <2>1. Scanning("data") /\ Advance(q, w)
    BY <1>6 DEF Data
  <2>2. w = Width(dialect, "data", doubled, n)
    BY DEF Width
  <2>3. q = QuoteAfter(quote, AbsolutePos, "data", doubled)
    BY DEF QuoteAfter
  <2> HIDE DEF w, q, doubled, n
  <2>4. QED
    BY <1>2, <2>1, <2>2, <2>3
<1>7. QED
  BY <1>3, <1>4, <1>5, <1>6

-----------------------------------------------------------------------------
(* push_complete_row: the row is a line, and its violation is one that was *)
(* met.                                                                    *)
LEMMA NewlineRead ==
    ASSUME TypeOK, Window, Clear(dialect), ReadSoFar, Newline
    PROVE  ReadSoFar'
<1> DEFINE line == RowLine(partial_row_start, scan_pos)
           n == MatchNewline(dialect, buffer, scan_pos)
           v == ReadLine(dialect, line).violation
           a == AbsolutePos
           f == RowFrom
           next == a + n
           q == OnDelimiter(quote)
           rows == Append(Lines, line)
<1>1. scan_pos < Len(buffer) /\ ~Waiting /\ Token = "newline"
  BY DEF Newline, Scanning
<1>2. /\ quote' = q /\ scan_pos' = scan_pos + n /\ partial_row_start' = scan_pos + n
      /\ complete_rows' = Append(complete_rows, line)
      /\ violation' = FirstOf(ViolationWithRow(partial_row_start, scan_pos), quote.violation)
      /\ UNCHANGED <<dialect, strict, buffer_offset, accepted, taken>>
  BY DEF Newline, config, history
<1>3. /\ Streamed(dialect, accepted, f, a, Lines, Clean, quote)
      /\ violation = quote.violation
  BY DEF ReadSoFar
<1>4. Decided(dialect, accepted, a, quote.in_quotes)
  BY <1>1, ScanDecided
<1>5. /\ TokenAt(dialect, dialect.newlines, accepted, a, quote.in_quotes) = "newline"
      /\ n = MatchNewline(dialect, accepted, a)
      /\ a \in f..Len(accepted) - 1
  BY <1>1, ScanShows
<1>6. LineOf(accepted, f, a, line)
  <2>1. /\ scan_pos \in partial_row_start..Len(buffer)
        /\ f = buffer_offset + partial_row_start /\ a = buffer_offset + scan_pos
    BY Positions DEF RowFrom, AbsolutePos
  <2> DEFINE g == f
             b == a
  <2> HIDE DEF f, a
  <2>2. LineOf(accepted, f, a, SubSeq(buffer, partial_row_start + 1, scan_pos))
    BY <2>1, Places, Positions, PartSame DEF Window
  <2>3. QED
    BY <2>2 DEF RowLine
<1>7. /\ f \in 0..Len(accepted) /\ Lines \in Seq(Seq(Byte)) /\ Clean \in 0..Len(Lines)
      /\ f \in Nat /\ a \in Nat
      /\ dialect \in Dialects /\ accepted \in Seq(Byte) /\ quote \in QuoteStates
  BY Places, Positions
<1>8. /\ next \in a + 1..Len(accepted) /\ line \in Seq(Byte)
      /\ FirstOf(quote.violation, Rebase(v, f)) = quote.violation
      /\ Streamed(dialect, accepted, next, next, rows, Clean, q)
  <2>1. next = a + MatchNewline(dialect, accepted, a)
    BY <1>5
  <2> HIDE DEF line, n, a, f, next
  <2>2. QED
    BY <1>3, <1>4, <1>5, <1>6, <1>7, <2>1, StreamedNewline DEF v
<1>9. AbsolutePos' = next /\ RowFrom' = next
  <2>1. n \in Nat
    BY Positions, DialectTyping, MatchOf DEF MatchNewline
  <2>2. a = buffer_offset + scan_pos
    BY DEF AbsolutePos
  <2>3. AbsolutePos' = buffer_offset + (scan_pos + n) /\ RowFrom' = buffer_offset + (scan_pos + n)
    BY <1>2 DEF AbsolutePos, RowFrom
  <2> HIDE DEF n
  <2>4. buffer_offset + (scan_pos + n) = (buffer_offset + scan_pos) + n
    BY <2>1, Positions
  <2>5. QED
    BY <2>2, <2>3, <2>4
<1>10. Lines' = rows /\ Clean' = Clean
  <2> DEFINE B == Seq(Byte)
  <2>1. /\ taken \in Seq(B) /\ complete_rows \in Seq(B) /\ line \in B
        /\ Lines = taken \o complete_rows
    BY <1>8 DEF TypeOK, Lines
  <2> HIDE DEF B, line, rows
  <2>2. /\ Lines' = taken \o Append(complete_rows, line)
    BY <1>2 DEF Lines
  <2> DEFINE x == Append(complete_rows, line)
             y == taken \o x
             z == taken \o complete_rows
             k == Len(taken)
             m == Len(complete_rows)
  <2>3. k \in Nat /\ m \in Nat
    BY <2>1, LenProperties
  <2>4. x \in Seq(B) /\ Len(x) = m + 1
        /\ \A i \in 1..m + 1 : x[i] = IF i <= m THEN complete_rows[i] ELSE line
    BY <2>1
  <2>5. z \in Seq(B) /\ Len(z) = k + m
        /\ \A i \in 1..k + m : z[i] = IF i <= k THEN taken[i] ELSE complete_rows[i - k]
    BY <2>1, ConcatProperties
  <2> HIDE DEF x, z
  <2>6. y \in Seq(B) /\ Len(y) = k + Len(x)
        /\ \A i \in 1..k + Len(x) : y[i] = IF i <= k THEN taken[i] ELSE x[i - k]
    BY <2>1, <2>4, ConcatProperties
  <2> DEFINE w == Append(z, line)
  <2>7. w \in Seq(B) /\ Len(w) = (k + m) + 1
        /\ \A i \in 1..(k + m) + 1 : w[i] = IF i <= k + m THEN z[i] ELSE line
    <3> HIDE DEF k, m
    <3>1. z \in Seq(B) /\ line \in B
      BY <2>1, <2>5
    <3>2. w \in Seq(B) /\ Len(w) = Len(z) + 1
          /\ \A i \in 1..Len(z) + 1 : w[i] = IF i <= Len(z) THEN z[i] ELSE line
      BY <3>1
    <3>3. Len(z) = k + m
      BY <2>5
    <3> HIDE DEF w
    <3>4. QED
      BY <3>2, <3>3
  <2> HIDE DEF y, w, k, m
  <2>8. Len(y) = (k + m) + 1
    BY <2>3, <2>4, <2>6
  <2>9. ASSUME NEW i \in 1..(k + m) + 1
        PROVE  y[i] = w[i]
    <3>1. y[i] = IF i <= k THEN taken[i] ELSE x[i - k]
      BY <2>3, <2>4, <2>6
    <3>2. w[i] = IF i <= k + m THEN z[i] ELSE line
      BY <2>7
    <3>3. CASE i <= k
      <4>1. i <= k + m /\ i \in 1..k + m
        BY <2>3, <3>3
      <4>2. QED
        BY <2>5, <3>1, <3>2, <3>3, <4>1
    <3>4. CASE ~(i <= k) /\ i <= k + m
      <4>1. i - k \in 1..m + 1 /\ i - k <= m /\ i \in 1..k + m
        BY <2>3, <3>4
      <4>2. x[i - k] = complete_rows[i - k]
        BY <2>4, <4>1
      <4>3. QED
        BY <2>5, <3>1, <3>2, <3>4, <4>1, <4>2
    <3>5. CASE ~(i <= k) /\ ~(i <= k + m)
      <4>1. i - k \in 1..m + 1 /\ ~(i - k <= m)
        BY <2>3, <3>5
      <4>2. x[i - k] = line
        BY <2>4, <4>1
      <4>3. QED
        BY <3>1, <3>2, <3>5, <4>2
    <3>6. QED
      BY <3>3, <3>4, <3>5
  <2>10. y = w
    BY <2>6, <2>7, <2>8, <2>9, SeqEqual
  <2>11. Lines' = rows
    BY <2>1, <2>2, <2>10 DEF rows, w, y, x, z
  <2>12. Clean' = Clean
    BY <1>2 DEF Clean
  <2>13. QED
    BY <2>11, <2>12
<1>11. violation' = quote'.violation
  <2>1. ViolationWithRow(partial_row_start, scan_pos) = FirstOf(violation, Rebase(v, f))
    BY DEF ViolationWithRow, RowFrom
  <2>2. ViolationWithRow(partial_row_start, scan_pos) = quote.violation
    BY <1>3, <1>8, <2>1
  <2>3. FirstOf(quote.violation, quote.violation) = quote.violation
    BY DEF FirstOf
  <2>4. q.violation = quote.violation
    BY <1>7 DEF OnDelimiter, QuoteStates
  <2> HIDE DEF q
  <2>5. QED
    BY <1>2, <2>2, <2>3, <2>4
<1> HIDE DEF line, n, a, f, next, q, rows
<1>12. QED
  BY <1>2, <1>8, <1>9, <1>10, <1>11 DEF ReadSoFar

(* Nothing is read at the end of a call, and compaction is not seen.       *)
LEMMA EndScanRead ==
    ASSUME TypeOK, Window, ReadSoFar, EndScan
    PROVE  ReadSoFar'
<1>1. UNCHANGED <<dialect, strict, complete_rows, quote, violation, accepted, taken>>
  BY DEF EndScan, config, history
<1>2. AbsolutePos' = AbsolutePos /\ RowFrom' = RowFrom
  BY EndScanWindow DEF RowFrom
<1>3. Lines' = Lines /\ Clean' = Clean
  BY <1>1 DEF Lines, Clean
<1>4. QED
  BY <1>1, <1>2, <1>3 DEF ReadSoFar

(* Nor is anything read when a chunk comes in.                             *)
LEMMA FeedRead ==
    ASSUME TypeOK, Window, ReadSoFar, NEW n \in Nat, NEW chunk \in [1..n -> Byte], Feed(chunk)
    PROVE  ReadSoFar'
<1>1. /\ accepted' = accepted \o chunk
      /\ UNCHANGED <<dialect, strict, complete_rows, partial_row_start, scan_pos, quote,
                     buffer_offset, violation, taken>>
  BY DEF Feed, config
<1>2. accepted \o chunk \in Extensions(accepted)
  BY FeedTyping, FedText, Positions DEF Window
<1>3. Streamed(dialect, accepted \o chunk, RowFrom, AbsolutePos, Lines, Clean, quote)
  <2> DEFINE a == AbsolutePos
             f == RowFrom
             more == accepted \o chunk
  <2>1. /\ f \in 0..Len(accepted) /\ a \in f..Len(accepted) /\ more \in Extensions(accepted)
        /\ Streamed(dialect, accepted, f, a, Lines, Clean, quote)
    BY <1>2, Places DEF ReadSoFar
  <2> HIDE DEF a, f, more
  <2>2. Streamed(dialect, more, f, a, Lines, Clean, quote)
    BY <2>1, Positions, StreamedMore
  <2>3. QED
    BY <2>2 DEF a, f, more
<1>4. /\ AbsolutePos' = AbsolutePos /\ RowFrom' = RowFrom /\ Lines' = Lines /\ Clean' = Clean
  BY <1>1 DEF AbsolutePos, RowFrom, Lines, Clean
<1>5. violation' = quote'.violation
  BY <1>1 DEF ReadSoFar
<1>6. QED
  BY <1>1, <1>3, <1>4, <1>5 DEF ReadSoFar

(* A strict parser that has met no violation has handed out clean rows.    *)
LEMMA NextRowsRead ==
    ASSUME TypeOK, Window, ReadSoFar, NEW max \in 1..MaxInput, NextRows(max)
    PROVE  ReadSoFar'
<1>1. UNCHANGED <<dialect, strict, partial_row_start, scan_pos, quote, buffer_offset,
                  violation, accepted>>
  BY DEF NextRows, config
<1>2. AbsolutePos' = AbsolutePos /\ RowFrom' = RowFrom /\ Lines' = Lines
  BY <1>1, NextRowsTyping DEF AbsolutePos, RowFrom, Lines
<1>3. /\ Streamed(dialect, accepted, RowFrom, AbsolutePos, Lines, Clean, quote)
      /\ violation = quote.violation
  BY DEF ReadSoFar
<1>4. CASE ~strict \/ Malformed
  <2>1. Clean' = Clean
    BY <1>1, <1>4 DEF Clean, NextRows
  <2>2. QED
    BY <1>1, <1>2, <1>3, <2>1 DEF ReadSoFar
<1>5. CASE strict /\ ~Malformed
  <2> DEFINE a == AbsolutePos
             f == RowFrom
             c == Len(taken')
  <2>1. quote.violation = NoViolation
    BY <1>3, <1>5 DEF Malformed
  <2>2. c \in 0..Len(Lines)
    <3>1. taken' \in Seq(Seq(Byte))
      BY NextRowsTyping DEF TypeOK
    <3>2. c \in Nat
      BY <3>1, LenProperties
    <3>3. c <= Len(Lines)
      BY NextRowsTyping DEF Lines
    <3>4. Len(Lines) \in Nat
      BY Places, LenProperties
    <3> HIDE DEF c
    <3>5. QED
      BY <3>2, <3>3, <3>4
  <2>3. Clean' = c
    BY <1>1, <1>5 DEF Clean
  <2>4. f \in Nat /\ Lines \in Seq(Seq(Byte))
    BY Places
  <2> HIDE DEF a, f, c
  <2>5. Streamed(dialect, accepted, f, a, Lines, c, quote)
    BY <1>3, <2>1, <2>2, <2>4, StreamedClean DEF a, f
  <2>6. QED
    BY <1>1, <1>2, <1>3, <2>3, <2>5 DEF ReadSoFar, a, f
<1>6. QED
  BY <1>4, <1>5

(* A new parser, and one that was finalized, has read nothing of its text. *)
LEMMA EmptyRead ==
    ASSUME dialect \in Dialects, accepted = <<>>, taken = <<>>, complete_rows = <<>>,
           partial_row_start = 0, scan_pos = 0, buffer_offset = 0, quote = NewQuote,
           violation = NoViolation
    PROVE  ReadSoFar
<1>1. Len(<<>>) = 0 /\ <<>> \o <<>> = <<>>
  BY ConcatEmptySeq, EmptySeq
<1>2. AbsolutePos = 0 /\ RowFrom = 0
  BY DEF AbsolutePos, RowFrom
<1>3. Lines = <<>> /\ Clean = 0
  BY <1>1 DEF Lines, Clean
<1>4. Streamed(dialect, <<>>, 0, 0, <<>>, 0, NewQuote)
  BY StreamedFirst
<1>5. violation = quote.violation
  BY DEF NewQuote
<1>6. QED
  BY <1>2, <1>3, <1>4, <1>5 DEF ReadSoFar

-----------------------------------------------------------------------------
Started ==
    /\ dialect \in Dialects /\ accepted = <<>> /\ taken = <<>> /\ complete_rows = <<>>
    /\ partial_row_start = 0 /\ scan_pos = 0 /\ buffer_offset = 0
    /\ quote = NewQuote /\ violation = NoViolation

LEMMA StartedRead == Started => ReadSoFar
BY EmptyRead DEF Started

LEMMA StartedReadNext == (Started => ReadSoFar)'
BY StartedRead, PTL

(* The inductive invariant.                                                *)
Inv ==
    /\ TypeOK /\ Window /\ Parked
    /\ Clear(dialect) => ReadSoFar

LEMMA InitInv == Init => Inv
<1> SUFFICES ASSUME Init PROVE Inv
  OBVIOUS
<1>1. Len(<<>>) = 0 /\ Suffix(<<>>, 0) = <<>>
  BY EmptySuffix
<1>2. Window /\ Parked
  BY <1>1 DEF Init, Window, Parked
<1>3. Started
  BY DEF Init, Started
<1>4. QED
  BY <1>2, <1>3, InitTyping, StartedRead DEF Inv

(* Every step keeps it.                                                    *)
LEMMA NextInv ==
    ASSUME Inv, [Next]_vars
    PROVE  Inv'
<1>1. TypeOK /\ Window /\ Parked /\ (Clear(dialect) => ReadSoFar)
  BY DEF Inv
<1>2. TypeOK' /\ Window' /\ Parked'
  BY <1>1, NextTyping, NextParked
<1>3. dialect' = dialect
  BY DEF Next, vars, config, Feed, FeedOverflow, EscapeSequence, QuotedByte, Separator, Data,
         Advance, Newline, EndScan, NextRows, Finalize, SetMaxBuffer
<1>4. ASSUME Clear(dialect)
      PROVE  ReadSoFar'
  <2>1. ReadSoFar
    BY <1>1, <1>4
  <2>2. ASSUME NEW n \in 0..MaxInput - Len(accepted), NEW chunk \in [1..n -> Byte], Feed(chunk)
        PROVE  ReadSoFar'
    <3>1. n \in Nat
      OBVIOUS
    <3>2. QED
      BY <1>1, <2>1, <2>2, <3>1, FeedRead
  <2>3. CASE EscapeSequence \/ QuotedByte \/ Separator \/ Data
    BY <1>1, <1>4, <2>1, <2>3, TokensRead
  <2>4. CASE Newline
    BY <1>1, <1>4, <2>1, <2>4, NewlineRead
  <2>5. CASE EndScan
    BY <1>1, <2>1, <2>5, EndScanRead
  <2>6. ASSUME NEW max \in 1..MaxInput, NextRows(max)
        PROVE  ReadSoFar'
    BY <1>1, <2>1, <2>6, NextRowsRead
  <2>7. CASE Finalize
    <3>1. Started'
      BY <1>1, <1>3, <2>7, Positions DEF Started, Finalize
    <3>2. QED
      BY <3>1, StartedReadNext
  <2>8. ASSUME \/ \E size \in 1..MaxInput : FeedOverflow(size)
               \/ \E max \in Limits : SetMaxBuffer(max)
               \/ UNCHANGED vars
        PROVE  ReadSoFar'
    <3>1. UNCHANGED <<dialect, strict, complete_rows, partial_row_start, scan_pos, quote,
                      buffer_offset, violation, accepted, taken>>
      BY <2>8 DEF FeedOverflow, SetMaxBuffer, vars, config, history
    <3>2. AbsolutePos' = AbsolutePos /\ RowFrom' = RowFrom /\ Lines' = Lines /\ Clean' = Clean
      BY <3>1 DEF AbsolutePos, RowFrom, Lines, Clean
    <3>3. QED
      BY <2>1, <3>1, <3>2 DEF ReadSoFar
  <2>9. QED
    BY <2>2, <2>3, <2>4, <2>5, <2>6, <2>7, <2>8 DEF Next
<1>5. QED
  BY <1>2, <1>3, <1>4 DEF Inv

-----------------------------------------------------------------------------
(* What finalize finds is what is left of the text.                        *)
LEMMA LastLines ==
    ASSUME TypeOK, Window
    PROVE  /\ taken \o FinalRows = LinesLeft(accepted, RowFrom, Lines)
           /\ violation = quote.violation =>
                 FinalViolation = ViolationLeft(dialect, accepted, RowFrom, quote.violation)
<1> DEFINE f == RowFrom
           n == Len(accepted)
           line == RowLine(partial_row_start, Len(buffer))
           rest == SubSeq(accepted, f + 1, n)
           last == IF f < n THEN <<rest>> ELSE <<>>
<1>1. HasPartial <=> f < n
  BY Places DEF HasPartial
<1>2. line = rest /\ rest \in Seq(Byte)
  <2>1. f = buffer_offset + partial_row_start /\ n = buffer_offset + Len(buffer)
        /\ Len(buffer) \in partial_row_start..Len(buffer)
    BY Places, Positions DEF RowFrom
  <2>2. f \in 0..Len(accepted) /\ n \in f..Len(accepted)
    BY Places, Positions
  <2> HIDE DEF f, n
  <2>3. LineOf(accepted, f, n, SubSeq(buffer, partial_row_start + 1, Len(buffer)))
    BY <2>1, Places, Positions, PartSame DEF Window
  <2>4. SubSeq(accepted, f + 1, n) \in Seq(Byte)
    BY <2>2, Positions, PartOf
  <2>5. QED
    BY <2>3, <2>4 DEF LineOf, RowLine
<1> HIDE DEF line, rest
<1>3. FinalRows = complete_rows \o last
  BY <1>1, <1>2 DEF FinalRows, line
<1>4. taken \o FinalRows = Lines \o last
  <2> DEFINE B == Seq(Byte)
  <2>1. taken \in Seq(B) /\ complete_rows \in Seq(B) /\ rest \in B
    BY <1>2 DEF TypeOK
  <2> HIDE DEF B
  <2>2. <<rest>> \in Seq(B) /\ <<>> \in Seq(B)
    BY <2>1, EmptySeq
  <2>3. last \in Seq(B)
    BY <2>2
  <2> HIDE DEF last
  <2>4. (taken \o complete_rows) \o last = taken \o (complete_rows \o last)
    BY <2>1, <2>3, ConcatAssociative
  <2>5. QED
    BY <1>3, <2>4 DEF Lines
<1>5. taken \o FinalRows = LinesLeft(accepted, RowFrom, Lines)
  BY <1>4 DEF LinesLeft, rest
<1>6. violation = quote.violation =>
        FinalViolation = ViolationLeft(dialect, accepted, RowFrom, quote.violation)
  BY <1>1, <1>2 DEF FinalViolation, ViolationLeft, ViolationWithRow, RowFrom, line, rest
<1>7. QED
  BY <1>5, <1>6

(* Between calls the rows and the violation are those of a batch parse.    *)
LEMMA ReadsBatch ==
    ASSUME Inv, Clear(dialect), Idle
    PROVE  /\ ValuesOf(taken \o FinalRows) = BatchValues(dialect, accepted)
           /\ FinalViolation = BatchViolation(dialect, accepted)
           /\ \A k \in 1..Clean : BatchRows(dialect, accepted)[k].violation = NoViolation
<1> DEFINE a == AbsolutePos
           f == RowFrom
<1>1. TypeOK /\ Window /\ Parked /\ ReadSoFar
  BY DEF Inv
<1>2. /\ Streamed(dialect, accepted, f, a, Lines, Clean, quote)
      /\ violation = quote.violation
  BY <1>1 DEF ReadSoFar
<1>3. a < Len(accepted) => Awaits(dialect, accepted, a, quote.in_quotes)
  <2>1. SUFFICES ASSUME a < Len(accepted)
                 PROVE  Awaits(dialect, accepted, a, quote.in_quotes)
    OBVIOUS
  <2>2. scan_pos < Len(buffer)
    BY <1>1, <2>1, Places
  <2>3. Awaits(dialect, buffer, scan_pos, quote.in_quotes)
    <3>1. ~(scan_pos >= Len(buffer))
      BY <1>1, <2>2, Positions
    <3>2. QED
      BY <1>1, <3>1 DEF Parked
  <2>4. QED
    BY <1>1, <2>2, <2>3, ScanShows
<1>4. /\ f \in 0..Len(accepted) /\ a \in f..Len(accepted)
      /\ Lines \in Seq(Seq(Byte)) /\ Clean \in 0..Len(Lines)
      /\ dialect \in Dialects /\ accepted \in Seq(Byte)
  BY <1>1, Places, Positions
<1>5. /\ BatchValues(dialect, accepted) = FieldsOf(dialect, LinesLeft(accepted, f, Lines))
      /\ BatchViolation(dialect, accepted)
            = ViolationLeft(dialect, accepted, f, quote.violation)
      /\ \A k \in 1..Clean : BatchRows(dialect, accepted)[k].violation = NoViolation
  <2> HIDE DEF a, f
  <2>1. QED
    BY <1>2, <1>3, <1>4, StreamedLast
<1>6. ValuesOf(taken \o FinalRows) = FieldsOf(dialect, LinesLeft(accepted, f, Lines))
  BY <1>1, LastLines DEF ValuesOf, FieldsOf
<1>7. QED
  BY <1>1, <1>2, <1>5, <1>6, LastLines

(* Streaming is batch parsing: in a dialect that is clear, the rows that a *)
(* general streaming parser has returned and would find at a finalize are  *)
(* those of a batch parse of the text it was fed, and so is the violation, *)
(* for every text, every chunking and every schedule of calls.             *)
THEOREM StreamingCorrect == Spec => [](Clear(dialect) => StreamingIsBatch)
<1>1. Inv => (Clear(dialect) => StreamingIsBatch)
  BY ReadsBatch DEF StreamingIsBatch
<1>2. QED
  BY <1>1, InitInv, NextInv, PTL DEF Spec

(* A strict parser hands out no row that holds or follows the first        *)
(* violation of its text, in a dialect that is clear.                      *)
THEOREM StrictCorrect == Spec => [](Clear(dialect) => StrictStopsAtViolation)
<1>1. Inv => (Clear(dialect) => StrictStopsAtViolation)
  BY ReadsBatch DEF StrictStopsAtViolation, Clean
<1>2. QED
  BY <1>1, InitInv, NextInv, PTL DEF Spec
=============================================================================
