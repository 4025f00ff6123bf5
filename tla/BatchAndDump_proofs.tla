------------------------- MODULE BatchAndDump_proofs -------------------------
(***************************************************************************)
(* The calls on a whole text in a dialect, for every alphabet and dialect: *)
(* a batch parse returns the rows of the text and refuses it if one is     *)
(* malformed, row after row or, where the patterns of the dialect are      *)
(* apart, with workers in any order; a dump raises exactly if something    *)
(* has no place in its encoding, and encodes no row more than twice.       *)
(***************************************************************************)
EXTENDS GeneralBatch, CsvEncode, GeneralDialect_proofs

-----------------------------------------------------------------------------
(* Patterns that stand in a text.                                          *)

(* Two patterns of which one begins in the other overlap.                  *)
LEMMA StandingOverlap ==
    ASSUME NEW s \in Seq(Byte), NEW a \in 0..Len(s), NEW p \in Seq(Byte), StartsWith(s, a, p),
           NEW b \in a..Len(s), NEW q \in Seq(Byte), StartsWith(s, b, q)
    PROVE  Overlaps(p, q, b - a)
<1>1. Len(s) \in Nat /\ Len(p) \in Nat /\ Len(q) \in Nat /\ DOMAIN q = 1..Len(q)
  BY LenProperties
<1>2. b \in 0..Len(s) /\ a \in Nat /\ b \in Nat /\ a <= b
  BY <1>1
<1>3. a + Len(p) <= Len(s) /\ \A j \in 1..Len(p) : s[a + j] = p[j]
  BY StandsAt
<1>4. b + Len(q) <= Len(s) /\ \A j \in 1..Len(q) : s[b + j] = q[j]
  BY <1>2, StandsAt
<1>5. ASSUME NEW j \in 1..Len(q), (b - a) + j <= Len(p)
      PROVE  p[(b - a) + j] = q[j]
  <2>1. (b - a) + j \in 1..Len(p) /\ a + ((b - a) + j) = b + j
    BY <1>1, <1>2, <1>5
  <2>2. QED
    BY <1>3, <1>4, <2>1
<1>6. QED
  BY <1>1, <1>5 DEF Overlaps

(* No newline begins in an escape or a separator, and no escape begins     *)
(* inside a newline or a separator, that stands in a text.                 *)
NoEscapeInside(d, text, a, len) ==
    \A b \in a + 1..a + len - 1 :
        b \in 0..Len(text) => ~StartsWith(text, b, d.escape)

NoNewlineBegins(d, text, a, len) ==
    \A b \in a..a + len - 1 : b \in 0..Len(text) =>
        \A k \in DOMAIN d.newlines : ~StartsWith(text, b, d.newlines[k])

(* In a dialect whose patterns are apart no newline begins in an escape or *)
(* a separator that stands in a text, and no escape inside what stands     *)
(* there.                                                                  *)
LEMMA ApartStands ==
    ASSUME NEW d \in Dialects, Apart(d), NEW text \in Seq(Byte), NEW a \in 0..Len(text)
    PROVE  /\ StartsWith(text, a, d.escape) => NoNewlineBegins(d, text, a, Len(d.escape))
           /\ \A k \in DOMAIN d.newlines : StartsWith(text, a, d.newlines[k]) =>
                 NoEscapeInside(d, text, a, Len(d.newlines[k]))
           /\ \A m \in DOMAIN d.separators : StartsWith(text, a, d.separators[m]) =>
                 /\ NoNewlineBegins(d, text, a, Len(d.separators[m]))
                 /\ NoEscapeInside(d, text, a, Len(d.separators[m]))
<1>1. /\ d.separators \in Patterns /\ d.newlines \in Patterns
      /\ d.escape \in Seq(Byte) /\ Len(d.escape) \in Nat \ {0}
  BY DialectTyping
<1>2. /\ \A k \in DOMAIN d.newlines : d.newlines[k] \in Seq(Byte)
      /\ \A k \in DOMAIN d.separators : d.separators[k] \in Seq(Byte)
  BY <1>1, PatternTyping
<1>3. Len(text) \in Nat /\ a \in Nat
  BY LenProperties
<1>4. ASSUME NEW p \in Seq(Byte), NEW q \in Seq(Byte), StartsWith(text, a, p),
             NEW low \in Nat, NEW b \in a + low..a + Len(p) - 1, b \in 0..Len(text),
             StartsWith(text, b, q)
      PROVE  \E i \in low..Len(p) - 1 : Overlaps(p, q, i)
  <2>1. Len(p) \in Nat /\ b \in a..Len(text) /\ b - a \in low..Len(p) - 1
    BY <1>3, <1>4, LenProperties
  <2>2. Overlaps(p, q, b - a)
    BY <1>4, <2>1, StandingOverlap
  <2>3. QED
    BY <2>1, <2>2
<1>5. /\ \A k \in DOMAIN d.newlines :
            /\ ~\E i \in 0..Len(d.escape) - 1 : Overlaps(d.escape, d.newlines[k], i)
            /\ ~\E i \in 1..Len(d.newlines[k]) - 1 : Overlaps(d.newlines[k], d.escape, i)
      /\ \A m \in DOMAIN d.separators :
            /\ \A k \in DOMAIN d.newlines :
                  ~\E i \in 0..Len(d.separators[m]) - 1 :
                      Overlaps(d.separators[m], d.newlines[k], i)
            /\ ~\E i \in 1..Len(d.separators[m]) - 1 : Overlaps(d.separators[m], d.escape, i)
  BY Zenon DEF Apart
<1>00. a + 0 = a /\ 0 \in Nat /\ 1 \in Nat
  BY <1>3
<1>6. ASSUME StartsWith(text, a, d.escape)
      PROVE  NoNewlineBegins(d, text, a, Len(d.escape))
  <2>1. ASSUME NEW b \in a..a + Len(d.escape) - 1, b \in 0..Len(text), NEW k \in DOMAIN d.newlines,
               StartsWith(text, b, d.newlines[k])
        PROVE  FALSE
    <3>1. b \in a + 0..a + Len(d.escape) - 1
      BY <1>00
    <3>2. QED
      BY <1>1, <1>2, <1>4, <1>5, <1>6, <1>00, <2>1, <3>1
  <2>2. QED
    BY <2>1 DEF NoNewlineBegins
<1>7. ASSUME NEW k \in DOMAIN d.newlines, StartsWith(text, a, d.newlines[k])
      PROVE  NoEscapeInside(d, text, a, Len(d.newlines[k]))
  <2>1. ASSUME NEW b \in a + 1..a + Len(d.newlines[k]) - 1, b \in 0..Len(text),
               StartsWith(text, b, d.escape)
        PROVE  FALSE
    BY <1>1, <1>2, <1>4, <1>5, <1>7, <1>00, <2>1
  <2>2. QED
    BY <2>1 DEF NoEscapeInside
<1>8. ASSUME NEW m \in DOMAIN d.separators, StartsWith(text, a, d.separators[m])
      PROVE  /\ NoNewlineBegins(d, text, a, Len(d.separators[m]))
             /\ NoEscapeInside(d, text, a, Len(d.separators[m]))
  <2>1. ASSUME NEW b \in a + 1..a + Len(d.separators[m]) - 1, b \in 0..Len(text),
               StartsWith(text, b, d.escape)
        PROVE  FALSE
    BY <1>1, <1>2, <1>4, <1>5, <1>8, <1>00, <2>1
  <2>2. ASSUME NEW b \in a..a + Len(d.separators[m]) - 1, b \in 0..Len(text),
               NEW k \in DOMAIN d.newlines, StartsWith(text, b, d.newlines[k])
        PROVE  FALSE
    <3>1. b \in a + 0..a + Len(d.separators[m]) - 1
      BY <1>00
    <3>2. QED
      BY <1>1, <1>2, <1>4, <1>5, <1>8, <1>00, <2>2, <3>1
  <2>3. QED
    BY <2>1, <2>2 DEF NoEscapeInside, NoNewlineBegins
<1>9. QED
  BY <1>6, <1>7, <1>8
-----------------------------------------------------------------------------
(* The reading of a row, in the text and in every line that is cut from    *)
(* it.                                                                     *)

(* The row at from is read up to to, with this result.                     *)
ReadHere(d, text, from, to, st) ==
    /\ st \in RowStates /\ st.next = 0 /\ st.skip = 0
    /\ RowState(d, d.newlines, Suffix(text, from))[to - from] = st
    /\ \A e \in to..Len(text) : RowState(d, <<>>, SubSeq(text, from + 1, e))[to - from] = st

(* What stands in the text stands in the rest from which the row is read.  *)
LEMMA RestAgrees ==
    ASSUME NEW d \in Dialects, NEW text \in Seq(Byte), NEW from \in 0..Len(text),
           NEW to \in from..Len(text), NEW in_quotes
    PROVE  LET data == Suffix(text, from)
               i    == to - from
           IN  /\ data \in Seq(Byte) /\ Len(data) = Len(text) - from /\ i \in 0..Len(data)
               /\ TokenAt(d, d.newlines, data, i, in_quotes)
                    = TokenAt(d, d.newlines, text, to, in_quotes)
               /\ MatchSeparator(d, data, i) = MatchSeparator(d, text, to)
               /\ MatchNewline(d, data, i) = MatchNewline(d, text, to)
               /\ Doubled(d, data, i) <=> Doubled(d, text, to)
<1> DEFINE data == Suffix(text, from)
           i    == to - from
           m    == Len(d.escape)
<1>1. /\ Len(text) \in Nat /\ from \in Nat /\ to \in Nat /\ i \in Nat /\ i \in 0..Len(text) - from
      /\ to = from + i /\ from <= to /\ to \in 0..Len(text)
  BY LenProperties
<1>2. d.escape \in Seq(Byte) /\ m \in Nat
  BY DialectTyping
<1>3. data \in Seq(Byte) /\ Len(data) = Len(text) - from
  BY SuffixOf
<1> HIDE DEF data, i, m
<1>4. Suffix(data, i) = Suffix(text, to)
  BY <1>1, SuffixSuffix DEF data
<1>5. /\ TokenAt(d, d.newlines, data, i, in_quotes) = TokenAt(d, d.newlines, text, to, in_quotes)
      /\ \A ps : MatchLength(ps, data, i) = MatchLength(ps, text, to)
      /\ \A p : StartsWith(data, i, p) <=> StartsWith(text, to, p)
  <2>1. \A p : StartsWith(data, i, p) <=> StartsWith(text, to, p)
    BY <1>4 DEF StartsWith
  <2>2. \A ps : MatchLength(ps, data, i) = MatchLength(ps, text, to)
    BY <1>4 DEF MatchLength, StartsWith
  <2>3. QED
    BY <2>1, <2>2 DEF TokenAt, MatchSeparator
<1>6. Doubled(d, data, i) <=> Doubled(d, text, to)
  <2>1. CASE StartsWith(text, to, d.escape)
    <3>1. to + m <= Len(text)
      BY <1>1, <1>2, <2>1, StandsAt DEF m
    <3>2. i + m \in 0..Len(text) - from /\ to + m = from + (i + m)
      BY <1>1, <1>2, <3>1
    <3>3. Suffix(data, i + m) = Suffix(text, to + m)
      BY <3>2, SuffixSuffix DEF data
    <3>4. StartsWith(data, i + m, d.escape) <=> StartsWith(text, to + m, d.escape)
      BY <3>3 DEF StartsWith
    <3>5. QED
      BY <1>5, <2>1, <3>4 DEF Doubled, m
  <2>2. CASE ~StartsWith(text, to, d.escape)
    BY <1>5, <2>2 DEF Doubled
  <2>3. QED
    BY <2>1, <2>2
<1>7. i \in 0..Len(data)
  BY <1>1, <1>3
<1>8. QED
  BY <1>3, <1>5, <1>6, <1>7 DEF data, i, MatchSeparator, MatchNewline

(* A token has bytes, all of them in the text.                             *)
LEMMA TokenFits ==
    ASSUME NEW d \in Dialects, NEW text \in Seq(Byte), NEW to \in 0..Len(text) - 1,
           NEW in_quotes \in BOOLEAN,
           NEW token, token = TokenAt(d, d.newlines, text, to, in_quotes), token # "newline",
           NEW doubled \in BOOLEAN, doubled => Doubled(d, text, to),
           NEW n, n = MatchSeparator(d, text, to),
           NEW w, w = Width(d, token, doubled, n)
    PROVE  /\ w \in Nat \ {0} /\ to + w <= Len(text)
           /\ token = "escape" => Len(d.escape) <= w
           /\ token = "escape" /\ doubled => w = 2 * Len(d.escape)
           /\ token = "separator" => w = n
<1> DEFINE m == Len(d.escape)
<1>1. Len(text) \in Nat /\ to \in Nat /\ to < Len(text) /\ to \in 0..Len(text)
  BY LenProperties
<1>2. /\ d.newlines \in Patterns /\ d.separators \in Patterns /\ d.escape \in Seq(Byte)
      /\ m \in Nat \ {0}
  BY DialectTyping
<1>3. token \in Tokens
  BY <1>1, <1>2, TokenKinds
<1>4. CASE token = "escape"
  <2>1. StartsWith(text, to, d.escape)
    BY <1>1, <1>2, <1>4, TokenKinds
  <2>2. to + m <= Len(text)
    BY <1>1, <1>2, <2>1, StandsAt
  <2>3. w = IF doubled THEN 2 * m ELSE m
    BY <1>4 DEF Width
  <2>4. ASSUME doubled
        PROVE  (to + m) + m <= Len(text)
    <3>1. StartsWith(text, to + m, d.escape) /\ to + m \in 0..Len(text)
      BY <1>1, <1>2, <2>2, <2>4 DEF Doubled
    <3>2. QED
      BY <1>2, <3>1, StandsAt
  <2> HIDE DEF m
  <2>5. CASE doubled
    <3>1. w = 2 * m /\ (to + m) + m <= Len(text)
      BY <2>3, <2>4, <2>5
    <3>2. w \in Nat \ {0} /\ to + w <= Len(text) /\ m <= w
      BY <1>1, <1>2, <3>1
    <3>3. QED
      BY <1>4, <3>1, <3>2 DEF m
  <2>6. CASE ~doubled
    <3>1. w = m
      BY <2>3, <2>6
    <3>2. w \in Nat \ {0} /\ to + w <= Len(text) /\ m <= w
      BY <1>1, <1>2, <2>2, <3>1
    <3>3. QED
      BY <1>4, <2>6, <3>2 DEF m
  <2>7. QED
    BY <2>5, <2>6
<1>5. CASE token = "separator"
  <2>1. n \in Nat /\ to + n <= Len(text)
    BY <1>1, <1>2, MatchOf DEF MatchSeparator
  <2>2. n > 0
    BY <1>1, <1>2, <1>5, TokenKinds
  <2>3. w = n
    BY <1>5 DEF Width
  <2>4. QED
    BY <1>5, <2>1, <2>2, <2>3
<1>6. CASE token \in {"quoted", "data"}
  <2>1. w = 1
    BY <1>6 DEF Width
  <2>2. QED
    BY <1>1, <1>6, <2>1
<1>7. QED
  BY <1>3, <1>4, <1>5, <1>6 DEF Tokens

(* After a token that is not a newline the row is read so far.             *)
LEMMA ReadHereOn ==
    ASSUME NEW d \in Dialects, NEW text \in Seq(Byte), NEW from \in 0..Len(text),
           NEW to \in from..Len(text) - 1, NEW st, ReadHere(d, text, from, to, st),
           NEW token, token = TokenAt(d, d.newlines, text, to, st.quote.in_quotes),
           token # "newline",
           NEW doubled \in BOOLEAN, doubled <=> st.quote.in_quotes /\ Doubled(d, text, to),
           NEW n, n = MatchSeparator(d, text, to),
           NEW w, w = Width(d, token, doubled, n)
    PROVE  /\ w \in Nat \ {0} /\ to + w <= Len(text)
           /\ ReadHere(d, text, from, to + w, AfterToken(d, st, to - from, token, doubled, n))
<1> DEFINE in_quotes == st.quote.in_quotes
           i == to - from
           m == Len(d.escape)
           after == AfterToken(d, st, i, token, doubled, n)
           data == Suffix(text, from)
<1>1. /\ st \in RowStates /\ st.next = 0 /\ st.skip = 0 /\ in_quotes \in BOOLEAN
      /\ st.quote \in QuoteStates
      /\ RowState(d, d.newlines, data)[i] = st
      /\ \A e \in to..Len(text) : RowState(d, <<>>, SubSeq(text, from + 1, e))[i] = st
  BY DEF ReadHere, RowStates, QuoteStates
<1>2. /\ Len(text) \in Nat /\ from \in Nat /\ to \in Nat /\ from <= to /\ to < Len(text)
      /\ to \in from..Len(text) /\ to \in 0..Len(text) - 1 /\ i \in Nat /\ from + i = to
  BY LenProperties
<1>3. d.newlines \in Patterns /\ <<>> \in Patterns /\ m \in Nat \ {0}
  BY DialectTyping
<1>4. /\ data \in Seq(Byte) /\ Len(data) = Len(text) - from /\ i \in 0..Len(data)
      /\ TokenAt(d, d.newlines, data, i, in_quotes) = token
      /\ MatchSeparator(d, data, i) = n
      /\ Doubled(d, data, i) <=> Doubled(d, text, to)
  BY <1>2, RestAgrees
<1>5. i \in 0..Len(data) - 1
  BY <1>2, <1>4
<1> HIDE DEF data, i
<1>6. token \in Tokens
  <2>1. TokenAt(d, d.newlines, data, i, in_quotes) \in Tokens
    <3> HIDE DEF in_quotes
    <3>1. QED
      BY <1>1, <1>3, <1>4, TokenKinds
  <2>2. QED
    BY <1>4, <2>1
<1>7. /\ w \in Nat \ {0} /\ to + w <= Len(text)
      /\ token = "escape" => m <= w
      /\ token = "escape" /\ doubled => w = 2 * m
      /\ token = "separator" => w = n
  <2>1. doubled => Doubled(d, text, to)
    OBVIOUS
  <2>2. QED
    BY <1>1, <1>2, <2>1, TokenFits
<1>8. token = "escape" => (doubled <=> in_quotes /\ Doubled(d, data, i))
  BY <1>4
<1>9. RowState(d, d.newlines, data)[i + w] = after
  <2>1. Meets(d, d.newlines, data, i, st, token, doubled, n)
    BY <1>1, <1>4, <1>8 DEF Meets
  <2>2. QED
    BY <1>3, <1>4, <1>5, <2>1, TokenRead, SMTT(60)
<1>10. ASSUME NEW e \in to + w..Len(text)
       PROVE  RowState(d, <<>>, SubSeq(text, from + 1, e))[i + w] = after
  <2> DEFINE line == SubSeq(text, from + 1, e)
  <2>0. /\ e \in to..Len(text) /\ e \in Nat /\ w <= e - to
    BY <1>2, <1>7
  <2>1. /\ line \in Seq(Byte) /\ Len(line) = e - from /\ i \in 0..Len(line)
        /\ Len(line) - i = e - to /\ e - to <= Len(data) - i
        /\ Agree(data, i, line, i)
    BY <1>2, <2>0, LineAgrees DEF data, i
  <2>2. RowState(d, <<>>, line)[i] = st
    BY <1>1, <2>0
  <2> HIDE DEF line, m
  <2>3. Len(line) - i <= Len(data) - i /\ w <= Len(line) - i /\ i \in 0..Len(line) - 1
    <3> DEFINE x == Len(line)
               y == Len(data)
               z == e - to
    <3>1. x \in Nat /\ y \in Nat /\ i \in Nat /\ w \in Nat \ {0} /\ z \in Int
      BY <1>2, <1>4, <1>7, <2>0, <2>1, LenProperties
    <3>2. x - i = z /\ w <= z /\ z <= y - i
      BY <2>0, <2>1
    <3> HIDE DEF x, y, z
    <3>3. x - i <= y - i /\ w <= x - i /\ i <= x - 1
      BY <3>1, <3>2
    <3>4. i \in 0..x - 1
      BY <3>1, <3>3
    <3>5. QED
      BY <3>3, <3>4 DEF x, y
  <2>4. token = "escape" => m <= Len(line) - i
    <3>1. m \in Nat /\ w \in Nat /\ Len(line) - i \in Int
      BY <1>3, <1>7, <2>3
    <3>2. QED
      BY <1>7, <2>3, <3>1
  <2>5. token = "separator" => MatchSeparator(d, data, i) <= Len(line) - i
    BY <1>4, <1>7, <2>3
  <2>6. SameToken(d, d.newlines, data, i, <<>>, line, i, in_quotes)
    BY <1>1, <1>3, <1>4, <2>1, <2>3, <2>4, <2>5, TokenCut DEF m
  <2>7. /\ token = TokenAt(d, <<>>, line, i, in_quotes)
        /\ token = "separator" => n = MatchSeparator(d, line, i)
    BY <1>4, <2>6 DEF SameToken
  <2>8. token = "escape" => (doubled <=> in_quotes /\ Doubled(d, line, i))
    <3>1. ASSUME token = "escape", in_quotes
          PROVE  Doubled(d, line, i) <=> doubled
      <4>1. Doubled(d, data, i) <=> doubled
        BY <1>4, <3>1
      <4>2. doubled => 2 * m <= Len(line) - i
        BY <1>7, <2>3, <3>1
      <4>3. Doubled(d, line, i) <=> Doubled(d, data, i)
        BY <1>4, <2>1, <2>3, <4>1, <4>2, DoubledCut DEF m
      <4>4. QED
        BY <4>1, <4>3
    <3>2. QED
      BY <3>1
  <2>9. RowState(d, <<>>, line)[i + w] = after
    <3> DEFINE none == <<>>
    <3>1. Meets(d, none, line, i, st, token, doubled, n) /\ none \in Patterns
      BY <1>1, <1>3, <1>4, <2>2, <2>7, <2>8 DEF Meets
    <3> HIDE DEF none
    <3>2. RowState(d, none, line)[i + w] = after
      BY <2>1, <2>3, <3>1, TokenRead, SMTT(60)
    <3>3. QED
      BY <3>2 DEF none
  <2>10. QED
    BY <2>9 DEF line
<1>11. after \in RowStates
  <2>1. i + w \in 0..Len(data)
    BY <1>2, <1>4, <1>7
  <2>2. RowReads(d, d.newlines, data)
    BY <1>3, <1>4, RowStateIs
  <2>3. QED
    BY <1>9, <2>1, <2>2 DEF RowReads
<1>12. after.next = 0 /\ after.skip = 0
  <2>1. CASE token = "escape"
    BY <1>1, <2>1 DEF AfterToken, RowStates
  <2>2. CASE token = "quoted"
    BY <1>1, <2>2 DEF AfterToken
  <2>3. CASE token = "separator"
    BY <1>1, <2>3 DEF AfterToken, RowStates
  <2>4. CASE token = "data"
    BY <1>1, <2>4 DEF AfterToken, AfterData, RowStates
  <2>5. QED
    BY <1>4, <1>6, <2>1, <2>2, <2>3, <2>4 DEF Tokens
<1>13. (to + w) - from = i + w
  BY <1>2, <1>7 DEF i
<1> HIDE DEF after
<1>14. ReadHere(d, text, from, to + w, after)
  BY <1>9, <1>10, <1>11, <1>12, <1>13 DEF ReadHere, data
<1>15. QED
  BY <1>7, <1>14 DEF after, i

(* A row starts with nothing read.                                         *)
LEMMA ReadHereFirst ==
    ASSUME NEW d \in Dialects, NEW text \in Seq(Byte), NEW from \in 0..Len(text)
    PROVE  ReadHere(d, text, from, from, RowStart)
<1>1. Len(text) \in Nat /\ from - from = 0
  BY LenProperties
<1>2. d.newlines \in Patterns /\ <<>> \in Patterns
  BY DialectTyping
<1>3. RowStart \in RowStates /\ RowStart.next = 0 /\ RowStart.skip = 0
  BY <1>1, RowStartTyping DEF RowStart
<1>4. RowState(d, d.newlines, Suffix(text, from))[0] = RowStart
  BY <1>2, SuffixOf, RowStateIs DEF RowReads
<1>5. ASSUME NEW e \in from..Len(text)
      PROVE  RowState(d, <<>>, SubSeq(text, from + 1, e))[0] = RowStart
  <2>1. SubSeq(text, from + 1, e) \in Seq(Byte)
    BY PartOf
  <2> DEFINE none == <<>>
  <2>2. none \in Patterns
    BY <1>2
  <2> HIDE DEF none
  <2>3. RowState(d, none, SubSeq(text, from + 1, e))[0] = RowStart
    BY <2>1, <2>2, RowStateIs DEF RowReads
  <2>4. QED
    BY <2>3 DEF none
<1>6. QED
  BY <1>1, <1>3, <1>4, <1>5 DEF ReadHere
-----------------------------------------------------------------------------
(* The newlines that begin in a row.                                       *)

(* The line from from to p ends inside quotes.                             *)
OpenAt(d, text, from, p) ==
    RowState(d, <<>>, SubSeq(text, from + 1, p))[p - from].quote.in_quotes

(* A newline that begins in the row and does not end in it stands in       *)
(* quotes that are open still.                                             *)
Behind(d, text, from, to, st) ==
    \A p \in from..to - 1 : \A k \in DOMAIN d.newlines :
        StartsWith(text, p, d.newlines[k]) /\ p + Len(d.newlines[k]) >= to =>
            st.quote.in_quotes /\ OpenAt(d, text, from, p)

(* No token changes that.                                                  *)
LEMMA BehindOn ==
    ASSUME NEW d \in Dialects, Apart(d), NEW text \in Seq(Byte), NEW from \in 0..Len(text),
           NEW to \in from..Len(text) - 1, NEW st, ReadHere(d, text, from, to, st),
           Behind(d, text, from, to, st),
           NEW token, token = TokenAt(d, d.newlines, text, to, st.quote.in_quotes),
           token # "newline",
           NEW doubled \in BOOLEAN, doubled <=> st.quote.in_quotes /\ Doubled(d, text, to),
           NEW n, n = MatchSeparator(d, text, to),
           NEW w, w = Width(d, token, doubled, n)
    PROVE  Behind(d, text, from, to + w, AfterToken(d, st, to - from, token, doubled, n))
<1> DEFINE in_quotes == st.quote.in_quotes
           after == AfterToken(d, st, to - from, token, doubled, n)
           m == Len(d.escape)
<1>1. /\ st \in RowStates /\ in_quotes \in BOOLEAN
      /\ \A e \in to..Len(text) :
            RowState(d, <<>>, SubSeq(text, from + 1, e))[to - from] = st
  BY DEF ReadHere, RowStates, QuoteStates
<1>2. /\ Len(text) \in Nat /\ from \in Nat /\ to \in Nat /\ from <= to /\ to < Len(text)
      /\ to \in 0..Len(text) - 1 /\ to \in 0..Len(text)
  BY LenProperties
<1>3. /\ d.newlines \in Patterns /\ d.separators \in Patterns /\ d.escape \in Seq(Byte)
      /\ m \in Nat \ {0}
  BY DialectTyping
<1>4. \A k \in DOMAIN d.newlines : d.newlines[k] \in Seq(Byte) /\ Len(d.newlines[k]) \in Nat \ {0}
  BY <1>3, PatternTyping
<1>5. w \in Nat \ {0} /\ to + w <= Len(text)
  BY ReadHereOn
<1>6. /\ token \in Tokens
      /\ token = "escape" <=> StartsWith(text, to, d.escape)
      /\ token = "quoted" => in_quotes
      /\ token \in {"separator", "newline", "data"} => ~in_quotes
      /\ token = "separator" => MatchSeparator(d, text, to) > 0
      /\ token = "data" => ~(MatchLength(d.newlines, text, to) > 0)
  BY <1>1, <1>2, <1>3, TokenKinds
<1> HIDE DEF in_quotes, after, m
<1>7. SUFFICES ASSUME NEW p \in from..(to + w) - 1, NEW k \in DOMAIN d.newlines,
                      StartsWith(text, p, d.newlines[k]), p + Len(d.newlines[k]) >= to + w
               PROVE  after.quote.in_quotes /\ OpenAt(d, text, from, p)
  BY DEF Behind, after
<1> DEFINE l == Len(d.newlines[k])
<1>8. p \in Nat /\ l \in Nat \ {0} /\ p + l >= to + w /\ p \in 0..Len(text)
  BY <1>2, <1>4, <1>5, <1>7
<1>9. p < to => in_quotes /\ OpenAt(d, text, from, p)
  <2>1. ASSUME p < to
        PROVE  in_quotes /\ OpenAt(d, text, from, p)
    <3>1. p \in from..to - 1 /\ p + l >= to
      BY <1>2, <1>5, <1>8, <2>1
    <3>2. QED
      BY <1>7, <3>1 DEF Behind, in_quotes
  <2>2. QED
    BY <2>1
<1>10. CASE token = "escape"
  <2>1. StartsWith(text, to, d.escape)
    BY <1>6, <1>10
  <2>2. CASE p < to
    <3>1. NoEscapeInside(d, text, p, l)
      BY <1>7, <1>8, ApartStands
    <3>2. to \in p + 1..p + l - 1
      BY <1>2, <1>5, <1>8, <2>2
    <3>3. QED
      BY <1>2, <2>1, <3>1, <3>2 DEF NoEscapeInside
  <2>3. CASE p >= to
    <3>1. w = IF doubled THEN 2 * m ELSE m
      BY <1>10 DEF Width, m
    <3>2. CASE p <= to + m - 1
      <4>1. NoNewlineBegins(d, text, to, m)
        BY <1>2, <2>1, ApartStands DEF m
      <4>2. p \in to..to + m - 1
        BY <1>2, <1>3, <1>8, <2>3, <3>2
      <4>3. QED
        BY <1>7, <1>8, <4>1, <4>2 DEF NoNewlineBegins
    <3>3. CASE p > to + m - 1
      <4>1. doubled /\ w = 2 * m
        <5>1. p <= to + w - 1
          BY <1>2, <1>5, <1>7
        <5>2. CASE doubled
          BY <3>1, <5>2
        <5>3. CASE ~doubled
          <6>1. w = m
            BY <3>1, <5>3
          <6>2. QED
            BY <1>2, <1>3, <1>8, <3>3, <5>1, <6>1
        <5>4. QED
          BY <5>2, <5>3
      <4>2. StartsWith(text, to + m, d.escape)
        BY <4>1 DEF Doubled, m
      <4>3. to + m \in 0..Len(text) /\ p \in to + m..(to + m) + m - 1
        <5>1. p <= to + w - 1 /\ w = m + m
          <6>1. p <= to + w - 1
            BY <1>2, <1>5
          <6>2. w = m + m
            <7>1. w = 2 * m /\ m \in Nat
              BY <1>3, <4>1, Zenon
            <7>2. QED
              BY <7>1
          <6>3. QED
            BY <6>1, <6>2
        <5> HIDE DEF l
        <5>2. to + m \in 0..Len(text)
          BY <1>2, <1>3, <1>5, <3>3, <5>1
        <5>3. to + m <= p /\ p <= (to + m) + m - 1 /\ p \in Int
          BY <1>2, <1>3, <1>5, <1>8, <3>3, <5>1
        <5>4. QED
          BY <1>3, <5>2, <5>3
      <4>4. NoNewlineBegins(d, text, to + m, m)
        BY <4>2, <4>3, ApartStands DEF m
      <4>5. QED
        BY <1>7, <1>8, <4>3, <4>4 DEF NoNewlineBegins
    <3>4. QED
      BY <1>2, <1>3, <1>8, <3>2, <3>3
  <2>4. QED
    BY <1>2, <1>8, <2>2, <2>3
<1>11. CASE token = "quoted"
  <2>1. w = 1 /\ after = st /\ in_quotes
    BY <1>6, <1>11 DEF Width, AfterToken, after
  <2>2. CASE p = to
    <3>1. RowState(d, <<>>, SubSeq(text, from + 1, to))[to - from] = st
      BY <1>1, <1>2
    <3>2. QED
      BY <2>1, <2>2, <3>1 DEF OpenAt, in_quotes
  <2>3. CASE p # to
    <3>1. p < to
      BY <1>2, <1>7, <1>8, <2>1, <2>3
    <3>2. QED
      BY <1>9, <2>1, <3>1 DEF in_quotes
  <2>4. QED
    BY <2>2, <2>3
<1>12. CASE token = "separator"
  <2>1. ~in_quotes /\ w = n
    BY <1>6, <1>12 DEF Width
  <2>2. PICK j \in DOMAIN d.separators : /\ StartsWith(text, to, d.separators[j])
                                         /\ n = Len(d.separators[j])
    BY <1>2, <1>3, <1>6, <1>12, MatchOf DEF MatchSeparator
  <2>3. NoNewlineBegins(d, text, to, n)
    BY <1>2, <2>2, ApartStands
  <2>4. p \in to..to + n - 1
    <3>1. ~(p < to)
      BY <1>9, <2>1
    <3>2. QED
      BY <1>2, <1>5, <1>7, <1>8, <2>1, <3>1
  <2>5. QED
    BY <1>7, <1>8, <2>3, <2>4 DEF NoNewlineBegins
<1>13. CASE token = "data"
  <2>1. ~in_quotes /\ w = 1 /\ ~(MatchLength(d.newlines, text, to) > 0)
    BY <1>6, <1>13 DEF Width
  <2>2. p = to
    <3>1. ~(p < to)
      BY <1>9, <2>1
    <3>2. QED
      BY <1>2, <1>7, <1>8, <2>1, <3>1
  <2>3. MatchLength(d.newlines, text, to) = 0
    <3>1. MatchLength(d.newlines, text, to) \in Nat
      BY <1>2, <1>3, MatchOf
    <3>2. QED
      BY <2>1, <3>1
  <2>4. ~StartsWith(text, to, d.newlines[k])
    BY <1>2, <1>3, <2>3, MatchOf
  <2>5. QED
    BY <1>7, <2>2, <2>4
<1>14. QED
  BY <1>6, <1>10, <1>11, <1>12, <1>13 DEF Tokens
-----------------------------------------------------------------------------
(* The search for row starts, byte by byte.                                *)

Searches == [starts : Seq(Nat), in_quotes : BOOLEAN, skip : Nat]

(* The bytes that an escape takes.                                         *)
EscapeBytes(d, doubled) == IF doubled THEN 2 * Len(d.escape) ELSE Len(d.escape)

(* What StartsByte does, case by case.                                     *)
SearchSteps(d, text, st, p) ==
    LET after   == StartsByte(d, text, st, p)
        doubled == st.in_quotes /\ Doubled(d, text, p)
        newline == MatchNewline(d, text, p)
        escape  == StartsWith(text, p, d.escape)
    IN  /\ after \in Searches
        /\ st.skip > 0 => after = [st EXCEPT !.skip = @ - 1]
        /\ st.skip = 0 /\ escape =>
              after = [starts    |-> st.starts,
                       in_quotes |-> IF doubled THEN st.in_quotes ELSE ~st.in_quotes,
                       skip      |-> EscapeBytes(d, doubled) - 1]
        /\ st.skip = 0 /\ ~escape /\ (st.in_quotes \/ newline = 0) => after = st
        /\ st.skip = 0 /\ ~escape /\ ~st.in_quotes /\ newline > 0 =>
              after = [starts    |-> IF p + newline < Len(text)
                                     THEN Append(st.starts, p + newline) ELSE st.starts,
                       in_quotes |-> st.in_quotes,
                       skip      |-> newline - 1]

(* One step of the search, case by case.                                   *)
LEMMA StartsByteIs ==
    ASSUME NEW d \in Dialects, NEW text \in Seq(Byte), NEW st \in Searches,
           NEW p \in 0..Len(text)
    PROVE  SearchSteps(d, text, st, p)
<1> DEFINE after   == StartsByte(d, text, st, p)
           doubled == st.in_quotes /\ Doubled(d, text, p)
           newline == MatchNewline(d, text, p)
           escape  == StartsWith(text, p, d.escape)
           m       == Len(d.escape)
<1>1. /\ st.starts \in Seq(Nat) /\ st.in_quotes \in BOOLEAN /\ st.skip \in Nat
      /\ st = [starts |-> st.starts, in_quotes |-> st.in_quotes, skip |-> st.skip]
  BY DEF Searches
<1>2. m \in Nat \ {0} /\ newline \in Nat /\ p \in Nat
  BY DialectTyping, MatchOf DEF MatchNewline
<1>3. CASE st.skip > 0
  <2>1. after = [st EXCEPT !.skip = @ - 1]
    BY <1>1, <1>3 DEF StartsByte
  <2>2. after \in Searches
    <3> DEFINE k == st.skip - 1
    <3>1. k \in Nat
      BY <1>1, <1>3
    <3> HIDE DEF k
    <3>2. [st EXCEPT !.skip = k] \in Searches
      BY <1>1, <3>1 DEF Searches
    <3>3. QED
      BY <2>1, <3>2 DEF k
  <2> HIDE DEF after, doubled, newline, escape
  <2>3. QED
    BY <1>1, <1>3, <2>1, <2>2 DEF SearchSteps, after
<1>4. CASE st.skip = 0 /\ escape
  <2> DEFINE turned == IF doubled THEN st.in_quotes ELSE ~st.in_quotes
             rest == (IF doubled THEN 2 ELSE 1) * m - 1
  <2>1. after = [st EXCEPT !.in_quotes = turned, !.skip = rest]
    BY <1>1, <1>4 DEF StartsByte
  <2>2. turned \in BOOLEAN
    BY <1>1
  <2>3. rest = EscapeBytes(d, doubled) - 1 /\ rest \in Nat
    <3> HIDE DEF m, doubled
    <3>1. CASE doubled
      <4>1. rest = 2 * m - 1 /\ EscapeBytes(d, doubled) = 2 * m
        BY <3>1 DEF EscapeBytes, m
      <4>2. QED
        BY <1>2, <4>1
    <3>2. CASE ~doubled
      <4>1. rest = 1 * m - 1 /\ EscapeBytes(d, doubled) = m
        BY <3>2 DEF EscapeBytes, m
      <4>2. QED
        BY <1>2, <4>1
    <3>3. QED
      BY <3>1, <3>2
  <2> HIDE DEF after, turned, rest
  <2>4. after = [starts |-> st.starts, in_quotes |-> turned, skip |-> rest] /\ after \in Searches
    BY <1>1, <2>1, <2>2, <2>3 DEF Searches
  <2> HIDE DEF doubled, newline, escape
  <2>5. QED
    BY <1>1, <1>4, <2>3, <2>4 DEF SearchSteps, after, turned, doubled, newline, escape
<1>5. CASE st.skip = 0 /\ ~escape /\ (st.in_quotes \/ newline = 0)
  <2>1. after = st
    BY <1>1, <1>5 DEF StartsByte
  <2> HIDE DEF after, doubled, newline, escape
  <2>2. QED
    BY <1>1, <1>5, <2>1 DEF SearchSteps, after, doubled, newline, escape
<1>6. CASE st.skip = 0 /\ ~escape /\ ~st.in_quotes /\ newline > 0
  <2> DEFINE longer == IF p + newline < Len(text)
                       THEN Append(st.starts, p + newline) ELSE st.starts
  <2>1. after = [st EXCEPT !.starts = longer, !.skip = newline - 1]
    BY <1>1, <1>6 DEF StartsByte
  <2>2. longer \in Seq(Nat)
    <3>1. p + newline \in Nat
      BY <1>2
    <3> HIDE DEF newline
    <3>2. Append(st.starts, p + newline) \in Seq(Nat)
      BY <1>1, <3>1, AppendProperties
    <3>3. QED
      BY <1>1, <3>2
  <2>3. newline - 1 \in Nat
    BY <1>2, <1>6
  <2> HIDE DEF after, longer, newline
  <2>4. /\ after = [starts |-> longer, in_quotes |-> st.in_quotes, skip |-> newline - 1]
        /\ after \in Searches
    BY <1>1, <2>1, <2>2, <2>3 DEF Searches
  <2> HIDE DEF doubled, escape
  <2>5. QED
    BY <1>1, <1>2, <1>6, <2>4 DEF SearchSteps, after, longer, doubled, newline, escape
<1>7. QED
  BY <1>1, <1>2, <1>3, <1>4, <1>5, <1>6

(* The search goes through the text byte by byte.                          *)
SearchReads(d, text) ==
    LET found == StartsState(d, text)
    IN  /\ found[0] = [starts |-> <<0>>, in_quotes |-> FALSE, skip |-> 0]
        /\ \A n \in 0..Len(text) - 1 : found[n + 1] = StartsByte(d, text, found[n], n)
        /\ \A n \in 0..Len(text) : found[n] \in Searches

(* The search is what its definition says.                                 *)
LEMMA StartsStateIs ==
    ASSUME NEW d \in Dialects, NEW text \in Seq(Byte)
    PROVE  SearchReads(d, text)
<1> DEFINE m == Len(text)
           first == [starts |-> <<0>>, in_quotes |-> FALSE, skip |-> 0]
           OneMore(g) == [n \in 0..m |-> IF n = 0 THEN first
                                         ELSE StartsByte(d, text, g[n - 1], n - 1)]
           step == [n \in 1..m |-> [st \in Searches |-> StartsByte(d, text, st, n - 1)]]
           found == StartsState(d, text)
<1>1. m \in Nat
  BY LenProperties
<1>2. first \in Searches
  BY DEF Searches
<1>3. ASSUME NEW st \in Searches, NEW n \in 1..m
      PROVE  StartsByte(d, text, st, n - 1) \in Searches
  <2>1. n - 1 \in 0..Len(text)
    BY <1>1
  <2>2. QED
    BY <2>1, StartsByteIs DEF SearchSteps
<1>4. step \in [1..m -> [Searches -> Searches]]
  BY <1>3
<1>5. PICK f \in [0..m -> Searches] :
         f[0] = first /\ \A n \in 1..m : f[n] = step[n][f[n - 1]]
  <2>1. Readings(m, Searches, first, step) # {}
    <3> HIDE DEF step, m, first
    <3>1. QED
      BY <1>1, <1>2, <1>4, ReadingExists
  <2>2. QED
    BY <2>1 DEF Readings
<1>6. f = OneMore(f)
  <2>1. \A n \in 0..m : n # 0 => n \in 1..m /\ n - 1 \in 0..m
    BY <1>1
  <2>2. \A n \in 1..m : f[n] = StartsByte(d, text, f[n - 1], n - 1)
    <3>1. \A n \in 1..m : n - 1 \in 0..m
      BY <1>1
    <3>2. QED
      BY <1>5, <3>1
  <2> HIDE DEF first
  <2>3. \A n \in 0..m : f[n] = OneMore(f)[n]
    BY <1>5, <2>1, <2>2
  <2>4. QED
    BY <2>3
<1>7. found = OneMore(found)
  <2>1. found = CHOOSE g : g = OneMore(g)
    BY DEF StartsState
  <2> HIDE DEF OneMore, found
  <2>2. QED
    BY <1>6, <2>1, Zenon
<1> HIDE DEF found
<1>8. found[0] = first /\ \A n \in 1..m : found[n] = StartsByte(d, text, found[n - 1], n - 1)
  <2>1. \A n \in 0..m : found[n] = OneMore(found)[n]
    BY <1>7
  <2>2. 0 \in 0..m /\ \A n \in 1..m : n \in 0..m /\ n # 0
    BY <1>1
  <2> HIDE DEF first
  <2>3. QED
    BY <2>1, <2>2
<1>9. \A n \in 0..m - 1 : found[n + 1] = StartsByte(d, text, found[n], n)
  <2>1. \A n \in 0..m - 1 : n + 1 \in 1..m /\ (n + 1) - 1 = n
    BY <1>1
  <2>2. QED
    BY <1>8, <2>1
<1>10. \A n \in 0..m : found[n] \in Searches
  <2> DEFINE P == {n \in 0..m : found[n] \in Searches}
  <2>1. 0 \in P
    BY <1>1, <1>2, <1>8
  <2>2. ASSUME NEW n \in 1..m, n - 1 \in P
        PROVE  n \in P
    <3>1. n \in 0..m /\ found[n - 1] \in Searches
      BY <1>1, <2>2
    <3>2. found[n] \in Searches
      BY <1>3, <1>8, <3>1
    <3>3. QED
      BY <3>1, <3>2
  <2> HIDE DEF P
  <2>3. \A n \in 0..m : n \in P
    BY <1>1, <2>1, <2>2, UpTo
  <2>4. QED
    BY <2>3 DEF P
<1>11. QED
  BY <1>8, <1>9, <1>10 DEF SearchReads, found

(* The rest of a pattern is skipped.                                       *)
LEMMA SearchSkips ==
    ASSUME NEW d \in Dialects, NEW text \in Seq(Byte), NEW i \in 0..Len(text),
           NEW S, NEW q, NEW m \in Nat, i + m <= Len(text),
           StartsState(d, text)[i] = [starts |-> S, in_quotes |-> q, skip |-> m]
    PROVE  StartsState(d, text)[i + m] = [starts |-> S, in_quotes |-> q, skip |-> 0]
<1> DEFINE found == StartsState(d, text)
           At(n) == [starts |-> S, in_quotes |-> q, skip |-> m - n]
           P == {n \in 0..m : found[i + n] = At(n)}
<1>1. Len(text) \in Nat /\ i \in Nat /\ SearchReads(d, text)
  BY LenProperties, StartsStateIs
<1> HIDE DEF found
<1>2. 0 \in P
  <2>1. i + 0 = i /\ m - 0 = m /\ 0 \in 0..m
    BY <1>1
  <2>2. QED
    BY <2>1 DEF found
<1>3. ASSUME NEW n \in 1..m, n - 1 \in P
      PROVE  n \in P
  <2> DEFINE j == i + (n - 1)
  <2>1. j \in 0..Len(text) - 1 /\ j + 1 = i + n /\ j \in 0..Len(text) /\ n \in 0..m
    BY <1>1
  <2>2. found[j] = At(n - 1) /\ found[j] \in Searches
    BY <1>1, <1>3, <2>1 DEF SearchReads, found
  <2>3. found[j].skip = m - (n - 1) /\ m - (n - 1) > 0 /\ (m - (n - 1)) - 1 = m - n
    <3>1. found[j].skip = m - (n - 1)
      BY <2>2
    <3>2. m - (n - 1) > 0 /\ (m - (n - 1)) - 1 = m - n
      OBVIOUS
    <3>3. QED
      BY <3>1, <3>2
  <2>4. found[j + 1] = StartsByte(d, text, found[j], j)
    BY <1>1, <2>1 DEF SearchReads, found
  <2>5. StartsByte(d, text, found[j], j) = [found[j] EXCEPT !.skip = @ - 1]
    <3>1. SearchSteps(d, text, found[j], j)
      BY <2>1, <2>2, StartsByteIs
    <3>2. found[j].skip > 0
      BY <2>3
    <3>3. QED
      BY <3>1, <3>2 DEF SearchSteps
  <2>6. [found[j] EXCEPT !.skip = @ - 1] = At(n)
    BY <2>2, <2>3
  <2>7. found[i + n] = At(n)
    BY <2>1, <2>4, <2>5, <2>6
  <2>8. QED
    BY <2>1, <2>7
<1> HIDE DEF P
<1>4. \A n \in 0..m : n \in P
  BY <1>2, <1>3, UpTo
<1>5. found[i + m] = At(m) /\ m - m = 0
  BY <1>4 DEF P
<1>6. QED
  BY <1>5 DEF found
(* Between two patterns the search knows the row starts so far and whether *)
(* it is within quotes.                                                    *)
SearchAt(d, text, to, S, q) ==
    StartsState(d, text)[to] = [starts |-> S, in_quotes |-> q, skip |-> 0]

(* It is as much within quotes as the reading of the row, and finds no row *)
(* start in a token that is not a newline.                                 *)
LEMMA SearchOn ==
    ASSUME NEW d \in Dialects, Apart(d), NEW text \in Seq(Byte), NEW from \in 0..Len(text),
           NEW to \in from..Len(text) - 1, NEW st, ReadHere(d, text, from, to, st),
           NEW S, SearchAt(d, text, to, S, st.quote.in_quotes),
           NEW token, token = TokenAt(d, d.newlines, text, to, st.quote.in_quotes),
           token # "newline",
           NEW doubled \in BOOLEAN, doubled <=> st.quote.in_quotes /\ Doubled(d, text, to),
           NEW n, n = MatchSeparator(d, text, to),
           NEW w, w = Width(d, token, doubled, n)
    PROVE  SearchAt(d, text, to + w, S,
                    AfterToken(d, st, to - from, token, doubled, n).quote.in_quotes)
<1> DEFINE q == st.quote.in_quotes
           turned == AfterToken(d, st, to - from, token, doubled, n).quote.in_quotes
           found == StartsState(d, text)
           m == Len(d.escape)
<1>1. st \in RowStates /\ st.quote \in QuoteStates /\ q \in BOOLEAN
  BY DEF ReadHere, RowStates, QuoteStates
<1>2. /\ Len(text) \in Nat /\ to \in Nat /\ to < Len(text)
      /\ to \in 0..Len(text) - 1 /\ to \in 0..Len(text)
  BY LenProperties
<1>3. d.newlines \in Patterns /\ d.separators \in Patterns /\ m \in Nat \ {0}
  BY DialectTyping
<1>4. w \in Nat \ {0} /\ to + w <= Len(text)
  BY ReadHereOn
<1>5. /\ token \in Tokens
      /\ token = "escape" <=> StartsWith(text, to, d.escape)
      /\ token = "quoted" => q
      /\ token \in {"separator", "newline", "data"} => ~q
      /\ token = "separator" => MatchSeparator(d, text, to) > 0
      /\ token = "data" => ~(MatchLength(d.newlines, text, to) > 0)
  <2> HIDE DEF q
  <2>1. token = TokenAt(d, d.newlines, text, to, q)
    BY DEF q
  <2>2. QED
    BY <1>1, <1>2, <1>3, <2>1, TokenKinds
<1>6. found[to] = [starts |-> S, in_quotes |-> q, skip |-> 0]
  BY DEF SearchAt
<1>7. /\ found[to] \in Searches
      /\ found[to + 1] = StartsByte(d, text, found[to], to)
      /\ SearchSteps(d, text, found[to], to)
  <2>1. SearchReads(d, text)
    BY StartsStateIs
  <2>2. found[to] \in Searches /\ found[to + 1] = StartsByte(d, text, found[to], to)
    BY <1>2, <2>1 DEF SearchReads
  <2> HIDE DEF found
  <2>3. QED
    BY <1>2, <2>2, StartsByteIs
<1> HIDE DEF q, turned, found, m
<1>8. found[to].skip = 0 /\ found[to].in_quotes = q /\ found[to].starts = S
  BY <1>6
<1>9. CASE token = "escape"
  <2> DEFINE twice == q /\ Doubled(d, text, to)
             next == IF twice THEN q ELSE ~q
  <2>1. found[to + 1] = [starts |-> S, in_quotes |-> next, skip |-> EscapeBytes(d, twice) - 1]
    BY <1>5, <1>7, <1>8, <1>9 DEF SearchSteps
  <2>2. EscapeBytes(d, twice) = w /\ next = turned
    <3>1. turned = OnEscape(st.quote, to - from, doubled).in_quotes
      BY <1>1, <1>9 DEF turned, AfterToken, RowStates
    <3>2. w = IF doubled THEN 2 * m ELSE m
      BY <1>9 DEF Width, m
    <3>3. twice <=> doubled
      BY DEF q
    <3>4. CASE doubled
      <4>1. twice /\ q
        BY <3>3, <3>4
      <4>2. EscapeBytes(d, twice) = 2 * m /\ next = q
        BY <4>1 DEF EscapeBytes, m
      <4>3. turned = q
        BY <3>1, <3>4, <4>1 DEF OnEscape, q
      <4>4. QED
        BY <3>2, <3>4, <4>2, <4>3
    <3>5. CASE ~doubled
      <4>1. ~twice
        BY <3>3, <3>5
      <4>2. EscapeBytes(d, twice) = m /\ next = ~q
        BY <4>1 DEF EscapeBytes, m
      <4>3. turned = ~q
        BY <1>1, <3>1, <3>5 DEF OnEscape, q, QuoteStates
      <4>4. QED
        BY <3>2, <3>5, <4>2, <4>3
    <3>6. QED
      BY <3>4, <3>5
  <2> HIDE DEF twice, next
  <2>3. found[to + 1] = [starts |-> S, in_quotes |-> turned, skip |-> w - 1]
    BY <2>1, <2>2
  <2>4. w - 1 \in Nat /\ to + 1 \in 0..Len(text) /\ (to + 1) + (w - 1) = to + w
    BY <1>2, <1>4
  <2>5. found[(to + 1) + (w - 1)] = [starts |-> S, in_quotes |-> turned, skip |-> 0]
    BY <1>4, <2>3, <2>4, SearchSkips DEF found
  <2>6. QED
    BY <2>4, <2>5 DEF SearchAt, found, turned
<1>10. CASE token = "quoted"
  <2>1. w = 1 /\ turned = q /\ q
    BY <1>5, <1>10 DEF Width, AfterToken, turned, q
  <2>2. found[to + 1] = found[to]
    BY <1>5, <1>7, <1>8, <1>10, <2>1 DEF SearchSteps
  <2>3. QED
    BY <1>6, <2>1, <2>2 DEF SearchAt, found, turned
<1>11. CASE token = "separator"
  <2>1. ~q /\ w = n /\ turned = q
    <3>1. turned = OnDelimiter(st.quote).in_quotes
      BY <1>1, <1>11 DEF turned, AfterToken, RowStates
    <3>2. turned = q
      BY <1>1, <3>1 DEF OnDelimiter, QuoteStates, q
    <3>3. QED
      BY <1>5, <1>11, <3>2 DEF Width
  <2>2. PICK j \in DOMAIN d.separators : /\ StartsWith(text, to, d.separators[j])
                                         /\ n = Len(d.separators[j])
    BY <1>2, <1>3, <1>5, <1>11, MatchOf DEF MatchSeparator
  <2>3. NoNewlineBegins(d, text, to, n) /\ NoEscapeInside(d, text, to, n)
    BY <1>2, <2>2, ApartStands
  <2> DEFINE P == {i \in 0..w : found[to + i] = found[to]}
  <2>4. 0 \in P
    BY <1>2, <1>4
  <2>5. ASSUME NEW i \in 1..w, i - 1 \in P
        PROVE  i \in P
    <3> DEFINE p == to + (i - 1)
    <3>1. /\ p \in 0..Len(text) - 1 /\ p \in 0..Len(text) /\ p + 1 = to + i
          /\ p \in to..to + n - 1 /\ (p = to \/ p \in to + 1..to + n - 1)
      BY <1>2, <1>4, <2>1
    <3>2. ~StartsWith(text, p, d.escape)
      BY <1>5, <1>11, <2>3, <3>1 DEF NoEscapeInside
    <3>3. MatchNewline(d, text, p) = 0
      <4>1. \A k \in DOMAIN d.newlines : ~StartsWith(text, p, d.newlines[k])
        BY <2>3, <3>1 DEF NoNewlineBegins
      <4>2. QED
        BY <1>3, <3>1, <4>1, MatchOf DEF MatchNewline
    <3>4. found[p] = found[to]
      BY <2>5
    <3>5. found[p + 1] = StartsByte(d, text, found[p], p)
      BY <3>1, StartsStateIs DEF SearchReads, found
    <3>6. SearchSteps(d, text, found[p], p)
      BY <1>7, <3>1, <3>4, StartsByteIs
    <3>7. StartsByte(d, text, found[p], p) = found[p]
      BY <1>8, <3>2, <3>3, <3>4, <3>6 DEF SearchSteps
    <3>8. found[to + i] = found[to]
      BY <3>1, <3>4, <3>5, <3>7
    <3>9. i \in 0..w
      BY <1>4
    <3>10. QED
      BY <3>8, <3>9
  <2> HIDE DEF P
  <2>6. \A i \in 0..w : i \in P
    BY <1>4, <2>4, <2>5, UpTo
  <2>7. found[to + w] = found[to]
    BY <1>4, <2>6 DEF P
  <2>8. QED
    BY <1>6, <2>1, <2>7 DEF SearchAt, found, turned
<1>12. CASE token = "data"
  <2>1. w = 1 /\ ~q /\ turned = q
    <3>1. turned = OnData(st.quote, to - from).in_quotes
      BY <1>1, <1>12 DEF turned, AfterToken, AfterData, RowStates
    <3>2. turned = q
      BY <1>1, <3>1 DEF OnData, QuoteStates, q
    <3>3. QED
      BY <1>5, <1>12, <3>2 DEF Width
  <2>2. MatchNewline(d, text, to) = 0
    <3>1. MatchLength(d.newlines, text, to) \in Nat
      BY <1>2, <1>3, MatchOf
    <3>2. QED
      BY <1>5, <1>12, <3>1 DEF MatchNewline
  <2>3. found[to + 1] = found[to]
    BY <1>5, <1>7, <1>8, <1>12, <2>2 DEF SearchSteps
  <2>4. QED
    BY <1>6, <2>1, <2>3 DEF SearchAt, found, turned
<1>13. QED
  BY <1>5, <1>9, <1>10, <1>11, <1>12 DEF Tokens

(* At a newline it finds the next row, if there is one.                    *)
LEMMA SearchNewline ==
    ASSUME NEW d \in Dialects, NEW text \in Seq(Byte), NEW to \in 0..Len(text) - 1,
           NEW S, SearchAt(d, text, to, S, FALSE),
           TokenAt(d, d.newlines, text, to, FALSE) = "newline",
           NEW n, n = MatchNewline(d, text, to)
    PROVE  /\ n \in Nat \ {0} /\ to + n <= Len(text)
           /\ SearchAt(d, text, to + n,
                       IF to + n < Len(text) THEN Append(S, to + n) ELSE S, FALSE)
<1> DEFINE found == StartsState(d, text)
           longer == IF to + n < Len(text) THEN Append(S, to + n) ELSE S
<1>1. /\ Len(text) \in Nat /\ to \in Nat /\ to < Len(text) /\ to \in 0..Len(text)
  BY LenProperties
<1>2. d.newlines \in Patterns
  BY DialectTyping
<1>3. ~StartsWith(text, to, d.escape) /\ n > 0
  BY <1>1, <1>2, TokenKinds DEF MatchNewline
<1>4. n \in Nat \ {0} /\ to + n <= Len(text)
  BY <1>1, <1>2, <1>3, MatchOf DEF MatchNewline
<1>5. found[to] = [starts |-> S, in_quotes |-> FALSE, skip |-> 0]
  BY DEF SearchAt
<1>6. /\ found[to + 1] = StartsByte(d, text, found[to], to)
      /\ SearchSteps(d, text, found[to], to)
  <2>1. SearchReads(d, text)
    BY StartsStateIs
  <2>2. found[to] \in Searches /\ found[to + 1] = StartsByte(d, text, found[to], to)
    BY <1>1, <2>1 DEF SearchReads
  <2> HIDE DEF found
  <2>3. QED
    BY <1>1, <2>2, StartsByteIs
<1> HIDE DEF found
<1>7. found[to].skip = 0 /\ found[to].in_quotes = FALSE /\ found[to].starts = S
  BY <1>5
<1>8. found[to + 1] = [starts |-> longer, in_quotes |-> FALSE, skip |-> n - 1]
  BY <1>3, <1>6, <1>7 DEF SearchSteps
<1> HIDE DEF longer
<1>9. n - 1 \in Nat /\ to + 1 \in 0..Len(text) /\ (to + 1) + (n - 1) = to + n
  BY <1>1, <1>4
<1>10. found[(to + 1) + (n - 1)] = [starts |-> longer, in_quotes |-> FALSE, skip |-> 0]
  <2> DEFINE off == FALSE
             i   == to + 1
             m   == n - 1
  <2>1. /\ StartsState(d, text)[i] = [starts |-> longer, in_quotes |-> off, skip |-> m]
        /\ m \in Nat /\ i \in 0..Len(text) /\ i + m <= Len(text)
    BY <1>4, <1>8, <1>9 DEF found
  <2> HIDE DEF off, i, m
  <2>2. StartsState(d, text)[i + m] = [starts |-> longer, in_quotes |-> off, skip |-> 0]
    BY <2>1, SearchSkips
  <2>3. QED
    BY <2>2 DEF found, off, i, m
<1>11. QED
  BY <1>4, <1>9, <1>10 DEF SearchAt, found, longer
-----------------------------------------------------------------------------
(* Where a worker of the parallel parser ends a line.                      *)

(* A text ends with a pattern if its last bytes are those of the pattern.  *)
LEMMA SuffixStands ==
    ASSUME NEW v \in Seq(Byte), NEW p \in Seq(Byte)
    PROVE  IsSuffix(p, v) <=> /\ Len(p) <= Len(v)
                              /\ \A j \in 1..Len(p) : v[(Len(v) - Len(p)) + j] = p[j]
<1> DEFINE m  == Len(p)
           n  == Len(v)
           rp == Reverse(p)
           rv == Reverse(v)
<1>1. m \in Nat /\ n \in Nat
  BY LenProperties
<1>2. ASSUME NEW s \in Seq(Byte)
      PROVE  /\ Reverse(s) \in Seq(Byte) /\ Len(Reverse(s)) = Len(s)
             /\ \A j \in 1..Len(s) : Reverse(s)[j] = s[(Len(s) - j) + 1]
  <2>1. Len(s) \in Nat /\ \A j \in 1..Len(s) : s[j] \in Byte
    BY LenProperties, ElementOfSeq
  <2>2. \A j \in 1..Len(s) : (Len(s) - j) + 1 \in 1..Len(s)
    BY <2>1
  <2>3. Reverse(s) \in [1..Len(s) -> Byte]
    BY <2>1, <2>2 DEF Reverse
  <2>4. QED
    BY <2>1, <2>3 DEF Reverse
<1>3. /\ rp \in Seq(Byte) /\ Len(rp) = m /\ \A j \in 1..m : rp[j] = p[(m - j) + 1]
      /\ rv \in Seq(Byte) /\ Len(rv) = n /\ \A j \in 1..n : rv[j] = v[(n - j) + 1]
  BY <1>2
<1> HIDE DEF rp, rv
<1>4. IsSuffix(p, v) <=> m <= n /\ \A j \in 1..m : rv[j] = rp[j]
  <2>1. Suffix(rv, 0) = rv
    <3>1. 0 + 1 = 1
      OBVIOUS
    <3>2. SubSeq(rv, 1, Len(rv)) = rv
      BY <1>3, SubSeqFull
    <3>3. QED
      BY <3>1, <3>2 DEF Suffix
  <2>2. IsSuffix(p, v) <=> StartsWith(rv, 0, rp)
    BY <2>1 DEF IsSuffix, StartsWith, rp, rv
  <2>3. 0 \in 0..Len(rv)
    BY <1>1, <1>3
  <2>4. StartsWith(rv, 0, rp) <=> 0 + m <= n /\ \A j \in 1..m : rv[0 + j] = rp[j]
    BY <1>3, <2>3, StandsAt
  <2>5. 0 + m = m /\ \A j \in 1..m : 0 + j = j
    BY <1>1
  <2>6. QED
    BY <2>2, <2>4, <2>5
<1>5. ASSUME m <= n
      PROVE  (\A j \in 1..m : rv[j] = rp[j]) <=> \A j \in 1..m : v[(n - m) + j] = p[j]
  <2>1. ASSUME \A j \in 1..m : rv[j] = rp[j], NEW j \in 1..m
        PROVE  v[(n - m) + j] = p[j]
    <3> DEFINE i == (m - j) + 1
    <3>1. i \in 1..m /\ i \in 1..n /\ (m - i) + 1 = j /\ (n - i) + 1 = (n - m) + j
      BY <1>1, <1>5
    <3> HIDE DEF i
    <3>2. QED
      BY <1>3, <2>1, <3>1
  <2>2. ASSUME \A j \in 1..m : v[(n - m) + j] = p[j], NEW i \in 1..m
        PROVE  rv[i] = rp[i]
    <3> DEFINE j == (m - i) + 1
    <3>1. j \in 1..m /\ i \in 1..n /\ (n - i) + 1 = (n - m) + j
      BY <1>1, <1>5
    <3> HIDE DEF j
    <3>2. v[(n - m) + j] = p[j] /\ rv[i] = v[(n - m) + j]
      BY <1>3, <2>2, <3>1
    <3>3. QED
      BY <1>3, <3>2 DEF j
  <2>3. QED
    BY <2>1, <2>2
<1>6. QED
  BY <1>4, <1>5

(* A newline that a range ends with stands in the range, at its end.       *)
LEMMA NewlineAtEnd ==
    ASSUME NEW d \in Dialects, NEW text \in Seq(Byte), NEW start \in 0..Len(text),
           NEW end \in start..Len(text), NEW k \in DOMAIN d.newlines
    PROVE  k \in NewlinesAtEnd(d, text, start, end)
             <=> /\ start <= end - Len(d.newlines[k])
                 /\ StartsWith(text, end - Len(d.newlines[k]), d.newlines[k])
<1> DEFINE p == d.newlines[k]
           m == Len(p)
           v == SubSeq(text, start + 1, end)
           n == end - start
<1>1. p \in Seq(Byte) /\ m \in Nat
  BY DialectTyping, PatternTyping
<1>2. /\ Len(text) \in Nat /\ start \in Nat /\ end \in Nat /\ n \in Nat
      /\ start <= end /\ end <= Len(text)
  BY LenProperties
<1>3. v \in Seq(Byte) /\ Len(v) = n /\ \A j \in 1..n : v[j] = text[start + j]
  BY PartOf
<1>4. k \in NewlinesAtEnd(d, text, start, end) <=> IsSuffix(p, v)
  BY DEF NewlinesAtEnd
<1> HIDE DEF p, m, v, n
<1>5. IsSuffix(p, v) <=> m <= n /\ \A j \in 1..m : v[(n - m) + j] = p[j]
  BY <1>1, <1>3, SuffixStands DEF m
<1>6. ASSUME m <= n
      PROVE  (\A j \in 1..m : v[(n - m) + j] = p[j]) <=> StartsWith(text, end - m, p)
  <2>1. end - m \in 0..Len(text) /\ (end - m) + m <= Len(text)
    BY <1>1, <1>2, <1>6 DEF n
  <2>2. StartsWith(text, end - m, p) <=> \A j \in 1..m : text[(end - m) + j] = p[j]
    BY <1>1, <2>1, StandsAt DEF m
  <2>3. ASSUME NEW j \in 1..m
        PROVE  v[(n - m) + j] = text[(end - m) + j]
    <3>1. (n - m) + j \in 1..n
      BY <1>1, <1>2, <1>6
    <3>2. start + ((n - m) + j) = (end - m) + j
      BY <1>1, <1>2 DEF n
    <3>3. QED
      BY <1>3, <3>1, <3>2
  <2>4. QED
    BY <2>2, <2>3
<1>7. m <= n <=> start <= end - m
  BY <1>1, <1>2 DEF n
<1>8. QED
  BY <1>4, <1>5, <1>6, <1>7 DEF p, m

(* The end of a line is the end of its range, or where a newline stands.   *)
LEMMA LineEndIs ==
    ASSUME NEW d \in Dialects, NEW text \in Seq(Byte), NEW start \in 0..Len(text),
           NEW end \in start..Len(text)
    PROVE  LET found == NewlinesAtEnd(d, text, start, end)
               last  == LineEnd(d, text, start, end)
           IN  /\ last \in start..end
               /\ found = {} => last = end
               /\ found # {} => \E k \in found : /\ \A j \in found : k <= j
                                                 /\ last = end - Len(d.newlines[k])
                                                 /\ StartsWith(text, last, d.newlines[k])
<1> DEFINE found == NewlinesAtEnd(d, text, start, end)
           last  == LineEnd(d, text, start, end)
<1>1. start \in Nat /\ end \in Nat /\ start <= end
  BY LenProperties
<1>2. last = IF found = {} THEN end ELSE end - Len(d.newlines[Min(found)])
  BY DEF LineEnd
<1>3. found \in SUBSET Nat /\ found \subseteq DOMAIN d.newlines
  BY DialectTyping, PatternTyping DEF NewlinesAtEnd
<1> HIDE DEF last
<1>4. CASE found = {}
  BY <1>1, <1>2, <1>4 DEF last
<1>5. CASE found # {}
  <2> DEFINE k == Min(found)
  <2>1. k \in found /\ \A j \in found : k <= j
    <3> HIDE DEF found
    <3>1. QED
      BY <1>3, <1>5, LeastOf
  <2>2. last = end - Len(d.newlines[k])
    BY <1>2, <1>5
  <2> HIDE DEF k, found
  <2>3. k \in DOMAIN d.newlines /\ Len(d.newlines[k]) \in Nat
    BY <1>3, <2>1, DialectTyping, PatternTyping
  <2>4. start <= last /\ StartsWith(text, last, d.newlines[k])
    BY <2>1, <2>2, <2>3, NewlineAtEnd DEF found
  <2>5. last \in start..end
    BY <1>1, <2>2, <2>3, <2>4
  <2>6. QED
    BY <1>5, <2>1, <2>2, <2>4, <2>5 DEF found, last
<1>6. QED
  BY <1>4, <1>5
-----------------------------------------------------------------------------
(* A row and the line that a worker makes of its range.                    *)

(* The row at a ends at b, and the line between them gives the same        *)
(* fields and violation, or both are malformed, for the row is open.       *)
RowAgrees(d, text, a, b) ==
    LET row  == RowAt(d, text, a)
        line == ParsedLine(d, text, <<a, b>>)
    IN  /\ row \in Rows /\ line \in Rows /\ row.next = b
        /\ ~row.open => line.bounds = row.bounds /\ line.violation = row.violation
        /\ row.open => line.violation # NoViolation /\ row.violation # NoViolation

(* What reading a line returns, which may be empty.                        *)
LEMMA ReadLineTyping ==
    ASSUME NEW d \in Dialects, NEW line \in Seq(Byte)
    PROVE  /\ ReadLine(d, line) \in Rows
           /\ LET st == RowState(d, <<>>, line)[Len(line)]
              IN  st.quote.in_quotes => ReadLine(d, line).violation # NoViolation
<1> DEFINE none == <<>>
           len == Len(line)
           st  == RowState(d, none, line)[len]
           row == ReadRow(d, none, line)
<1>1. len \in Nat /\ len \in 0..len
  BY LenProperties
<1>2. none \in Patterns
  BY DialectTyping
<1> HIDE DEF none
<1>3. st \in RowStates
  BY <1>1, <1>2, RowStateIs DEF RowReads
<1> HIDE DEF st
<1>4. /\ st.next \in Nat /\ st.start \in Nat /\ st.quote \in QuoteStates
      /\ st.bounds \in Seq(Nat \X Nat) /\ st.quote.in_quotes \in BOOLEAN
  BY <1>3 DEF RowStates, QuoteStates
<1>5. Append(st.bounds, <<st.start, len>>) \in Seq(Nat \X Nat)
  <2> DEFINE N == Nat \X Nat
             e == <<st.start, len>>
  <2>1. e \in N /\ st.bounds \in Seq(N)
    BY <1>1, <1>4
  <2> HIDE DEF N, e
  <2>2. Append(st.bounds, e) \in Seq(N)
    BY <2>1, AppendProperties
  <2>3. QED
    BY <2>2 DEF N, e
<1>6. PICK end \in Nat : row.violation = Finish(st.quote, end) /\ row \in Rows
  <2>1. CASE st.next > 0
    <3>1. row = [bounds |-> st.bounds, next |-> st.next, open |-> FALSE,
                 violation |-> Finish(st.quote, st.next)]
      BY <2>1 DEF ReadRow, st
    <3>2. Finish(st.quote, st.next) \in Violation
      BY <1>4, FinishTyping
    <3> HIDE DEF row
    <3>3. QED
      BY <1>4, <3>1, <3>2 DEF Rows
  <2>2. CASE ~(st.next > 0)
    <3> DEFINE b == Append(st.bounds, <<st.start, len>>)
    <3>1. row = [bounds |-> b, next |-> len, open |-> st.quote.in_quotes,
                 violation |-> Finish(st.quote, len)]
      BY <2>2 DEF ReadRow, st
    <3>2. Finish(st.quote, len) \in Violation /\ b \in Seq(Nat \X Nat)
      BY <1>1, <1>4, <1>5, FinishTyping
    <3> HIDE DEF row, b, len
    <3>3. QED
      BY <1>1, <1>4, <3>1, <3>2 DEF Rows
  <2>3. QED
    BY <2>1, <2>2
<1>7. st.quote.in_quotes => Finish(st.quote, end) # NoViolation
  BY <1>4 DEF Finish, FirstOf, NoViolation
<1>8. ReadLine(d, line) = row
  BY DEF ReadLine, none
<1>9. QED
  BY <1>6, <1>7, <1>8 DEF st, none

(* Shifted alike, two rows with the same bounds or violation have them.    *)
LEMMA ShiftAlike ==
    ASSUME NEW r \in Rows, NEW s \in Rows, NEW from \in Nat
    PROVE  /\ r.bounds = s.bounds => Shift(r, from).bounds = Shift(s, from).bounds
           /\ r.violation = s.violation => Shift(r, from).violation = Shift(s, from).violation
           /\ Shift(r, from).open = r.open
           /\ Shift(r, from).violation = NoViolation <=> r.violation = NoViolation
<1>1. r.violation \in Violation
  BY DEF Rows
<1>2. Rebase(r.violation, from) = NoViolation <=> r.violation = NoViolation
  BY <1>1, RebaseTyping
<1>3. QED
  BY <1>2 DEF Shift

(* A row at from that is read from data, the rest of the text, and a       *)
(* worker's line, shifted.                                                 *)
LEMMA AgreesIf ==
    ASSUME NEW d \in Dialects, NEW text \in Seq(Byte), NEW from \in 0..Len(text) - 1,
           NEW end \in from..Len(text),
           NEW row, row = ReadRow(d, d.newlines, Suffix(text, from)), row.next + from = end,
           NEW line, line = SubSeq(text, from + 1, LineEnd(d, text, from, end)),
           ~row.open => /\ ReadLine(d, line).bounds = row.bounds
                        /\ ReadLine(d, line).violation = row.violation,
           row.open => ReadLine(d, line).violation # NoViolation /\ row.violation # NoViolation
    PROVE  RowAgrees(d, text, from, end)
<1> DEFINE read == ReadLine(d, line)
           last == LineEnd(d, text, from, end)
<1>1. /\ Len(text) \in Nat /\ from \in Nat /\ from \in 0..Len(text) /\ from < Len(text)
      /\ end \in Nat /\ end <= Len(text)
  BY LenProperties
<1>2. row \in Rows
  <2> DEFINE data == Suffix(text, from)
  <2>1. data \in Seq(Byte) /\ Len(data) = Len(text) - from
    BY <1>1, SuffixOf
  <2>2. data # <<>>
    BY <1>1, <2>1, EmptySeq
  <2> HIDE DEF data
  <2>3. ReadRow(d, d.newlines, data) \in Rows
    BY <2>1, <2>2, DialectTyping, ReadRowTyping
  <2>4. QED
    BY <2>3 DEF data
<1>3. read \in Rows
  <2>1. last \in from..end
    BY <1>1, LineEndIs
  <2>2. last \in from..Len(text)
    BY <1>1, <2>1
  <2> HIDE DEF last
  <2>3. SubSeq(text, from + 1, last) \in Seq(Byte)
    BY <1>1, <2>2, PartOf
  <2>4. QED
    BY <2>3, ReadLineTyping DEF last
<1>4. RowAt(d, text, from) = Shift(row, from)
  BY DEF RowAt
<1>5. ParsedLine(d, text, <<from, end>>) = Shift(read, from)
  BY DEF ParsedLine, PlannedLine
<1> HIDE DEF read
<1>6. /\ Shift(row, from) \in Rows /\ Shift(row, from).next = end
      /\ Shift(read, from) \in Rows
  BY <1>1, <1>2, <1>3, ShiftTyping
<1>7. /\ Shift(row, from).open = row.open
      /\ Shift(row, from).violation = NoViolation <=> row.violation = NoViolation
      /\ Shift(read, from).violation = NoViolation <=> read.violation = NoViolation
  BY <1>1, <1>2, <1>3, ShiftAlike
<1>8. /\ read.bounds = row.bounds => Shift(read, from).bounds = Shift(row, from).bounds
      /\ read.violation = row.violation => Shift(read, from).violation = Shift(row, from).violation
  BY <1>1, <1>2, <1>3, ShiftAlike
<1>9. QED
  BY <1>4, <1>5, <1>6, <1>7, <1>8 DEF RowAgrees, read
(* A row that ends with the text.                                          *)
LEMMA LastAgrees ==
    ASSUME NEW d \in Dialects, NEW text \in Seq(Byte), NEW from \in 0..Len(text) - 1,
           NEW to, to = Len(text),
           NEW st, ReadHere(d, text, from, to, st), Behind(d, text, from, to, st)
    PROVE  RowAgrees(d, text, from, to)
<1> DEFINE data == Suffix(text, from)
           len  == to - from
           row  == ReadRow(d, d.newlines, data)
           last == LineEnd(d, text, from, to)
           line == SubSeq(text, from + 1, last)
           none == <<>>
<1>1. /\ to \in Nat /\ from \in Nat /\ from < to /\ from \in 0..Len(text)
      /\ to \in from..Len(text) /\ to \in to..Len(text)
  BY LenProperties
<1>2. data \in Seq(Byte) /\ Len(data) = len /\ data = SubSeq(text, from + 1, to)
  BY <1>1, SuffixOf DEF Suffix
<1>3. /\ RowState(d, d.newlines, data)[len] = st
      /\ RowState(d, none, data)[len] = st
      /\ st.next = 0 /\ st \in RowStates
  BY <1>1, <1>2 DEF ReadHere
<1>4. st.quote.in_quotes \in BOOLEAN /\ ~(st.next > 0)
  BY <1>3 DEF RowStates, QuoteStates
<1>5. row = ReadLine(d, data) /\ row.next = len /\ row.open = st.quote.in_quotes
  <2> HIDE DEF data, len, none
  <2>1. row = [bounds |-> Append(st.bounds, <<st.start, len>>),
               next |-> len, open |-> st.quote.in_quotes,
               violation |-> Finish(st.quote, len)]
    BY <1>2, <1>3, <1>4 DEF ReadRow
  <2>2. ReadRow(d, none, data)
           = [bounds |-> Append(st.bounds, <<st.start, len>>),
               next |-> len, open |-> st.quote.in_quotes,
               violation |-> Finish(st.quote, len)]
    BY <1>2, <1>3, <1>4 DEF ReadRow
  <2> HIDE DEF row
  <2>3. QED
    BY <2>1, <2>2 DEF ReadLine, none
<1>6. row.next + from = to
  <2> HIDE DEF row
  <2>1. QED
    BY <1>1, <1>5
<1>7. row.open => row.violation # NoViolation
  <2>1. RowState(d, <<>>, data)[Len(data)] = st
    BY <1>2, <1>3
  <2> HIDE DEF row, data, len
  <2>2. st.quote.in_quotes => ReadLine(d, data).violation # NoViolation
    BY <1>2, <2>1, ReadLineTyping
  <2>3. QED
    BY <1>5, <2>2
<1>8. last \in from..to
  BY <1>1, LineEndIs
<1> HIDE DEF last
<1>9. CASE last = to
  <2>1. line = data
    BY <1>2, <1>9
  <2> HIDE DEF data, row, line, len
  <2>2. ReadLine(d, line) = row
    BY <1>5, <2>1
  <2>3. QED
    BY <1>1, <1>6, <1>7, <2>2, AgreesIf DEF row, data, line, last
<1>10. CASE last # to
  <2>1. PICK k \in DOMAIN d.newlines : /\ last = to - Len(d.newlines[k])
                                       /\ StartsWith(text, last, d.newlines[k])
    <3> DEFINE found == NewlinesAtEnd(d, text, from, to)
    <3>1. found # {} /\ found \subseteq DOMAIN d.newlines
      BY <1>1, <1>10, LineEndIs DEF last, NewlinesAtEnd
    <3>2. \E k \in found : last = to - Len(d.newlines[k]) /\ StartsWith(text, last, d.newlines[k])
      BY <1>1, <3>1, LineEndIs DEF last
    <3>3. QED
      BY <3>1, <3>2
  <2>2. Len(d.newlines[k]) \in Nat
    BY DialectTyping, PatternTyping
  <2>3. last \in from..to - 1 /\ last + Len(d.newlines[k]) >= to
    BY <1>1, <1>8, <1>10, <2>1, <2>2
  <2>4. st.quote.in_quotes /\ OpenAt(d, text, from, last)
    BY <2>1, <2>3 DEF Behind
  <2>5. line \in Seq(Byte) /\ Len(line) = last - from
    <3>1. last \in from..Len(text)
      BY <1>1, <1>8
    <3>2. QED
      BY <1>1, <3>1, PartOf
  <2>6. RowState(d, <<>>, line)[Len(line)].quote.in_quotes
    BY <2>4, <2>5 DEF OpenAt
  <2> HIDE DEF line, row
  <2>7. ReadLine(d, line).violation # NoViolation
    BY <2>5, <2>6, ReadLineTyping
  <2>8. row.open
    BY <1>5, <2>4
  <2> HIDE DEF data, len
  <2>9. QED
    BY <1>1, <1>6, <1>7, <2>7, <2>8, AgreesIf DEF row, data, line, last
<1>11. QED
  BY <1>9, <1>10

(* The line of a range that ends with the newline of its row ends where    *)
(* the newline begins: a longer one would have begun in the row, and a     *)
(* shorter one comes later.                                                *)
LEMMA NewlineStripped ==
    ASSUME NEW d \in Dialects, NEW text \in Seq(Byte), NEW from \in 0..Len(text),
           NEW to \in from..Len(text) - 1, NEW st, Behind(d, text, from, to, st),
           ~st.quote.in_quotes, NEW n, n = MatchNewline(d, text, to), n > 0
    PROVE  n \in Nat /\ to + n <= Len(text) /\ LineEnd(d, text, from, to + n) = to
<1> DEFINE end == to + n
           found == NewlinesAtEnd(d, text, from, end)
           last == LineEnd(d, text, from, end)
<1>1. /\ Len(text) \in Nat /\ from \in Nat /\ to \in Nat /\ from <= to /\ to < Len(text)
      /\ to \in 0..Len(text)
  BY LenProperties
<1>2. d.newlines \in Patterns
  BY DialectTyping
<1>3. n \in Nat /\ to + n <= Len(text)
  BY <1>1, <1>2, MatchOf DEF MatchNewline
<1>4. PICK k \in DOMAIN d.newlines : StartsWith(text, to, d.newlines[k]) /\ n = Len(d.newlines[k])
  BY <1>1, <1>2, MatchOf DEF MatchNewline
<1>5. end \in from..Len(text) /\ end - n = to /\ end \in Nat
  BY <1>1, <1>3
<1>6. k \in found
  BY <1>1, <1>4, <1>5, NewlineAtEnd
<1> HIDE DEF end, found, last
<1>7. PICK i \in found : /\ \A j \in found : i <= j
                         /\ last = end - Len(d.newlines[i])
                         /\ StartsWith(text, last, d.newlines[i])
  BY <1>5, <1>6, LineEndIs DEF found, last
<1>8. i <= k /\ i \in DOMAIN d.newlines /\ i \in Nat /\ k \in Nat
  <2>1. i \in DOMAIN d.newlines
    BY <1>7 DEF found, NewlinesAtEnd
  <2>2. DOMAIN d.newlines \subseteq Nat
    BY <1>2, PatternTyping
  <2>3. QED
    BY <1>6, <1>7, <2>1, <2>2
<1>9. Len(d.newlines[i]) >= n /\ Len(d.newlines[i]) \in Nat
  <2>1. CASE i = k
    BY <1>3, <1>4, <2>1
  <2>2. CASE i # k
    <3>1. i < k
      BY <1>8, <2>2
    <3>2. QED
      BY <1>2, <1>4, <1>8, <3>1, LongestFirst, PatternTyping
  <2>3. QED
    BY <2>1, <2>2
<1>10. from <= last
  <2>1. last \in from..end
    BY <1>5, LineEndIs DEF last
  <2>2. QED
    BY <2>1
<1>11. ASSUME Len(d.newlines[i]) > n
       PROVE  FALSE
  <2> DEFINE m == Len(d.newlines[i])
  <2>1. last = end - m /\ m \in Nat /\ m > n
    BY <1>7, <1>9, <1>11
  <2> HIDE DEF m
  <2>2. last \in from..to - 1 /\ last + m >= to
    BY <1>1, <1>3, <1>5, <1>10, <2>1
  <2>3. QED
    BY <1>7, <1>8, <2>2 DEF Behind, m
<1>12. Len(d.newlines[i]) = n
  BY <1>3, <1>9, <1>11
<1>13. last = to
  BY <1>5, <1>7, <1>12
<1>14. QED
  BY <1>3, <1>13 DEF last, end

(* No carriage return stands before the newline: it would have been a      *)
(* newline with it.                                                        *)
LEMMA NothingLost ==
    ASSUME NEW d \in Dialects, NEW text \in Seq(Byte), NEW from \in 0..Len(text),
           NEW to \in from..Len(text) - 1, NEW st, Behind(d, text, from, to, st),
           ~st.quote.in_quotes, NEW start \in Nat
    PROVE  FieldEnd(d, Suffix(text, from), start, to - from) = to - from
<1> DEFINE data == Suffix(text, from)
           i    == to - from
<1>1. /\ Len(text) \in Nat /\ from \in Nat /\ to \in Nat /\ from <= to /\ to < Len(text)
      /\ i \in Nat /\ from + i = to
  BY LenProperties
<1>2. \A j \in 1..Len(text) - from : data[j] = text[from + j]
  BY SuffixOf
<1> HIDE DEF data, i
<1>3. ASSUME d.is_default, data[i + 1] = LF, i > start, data[i] = CR
      PROVE  FALSE
  <2>1. i + 1 \in 1..Len(text) - from /\ from + (i + 1) = to + 1
    BY <1>1 DEF i
  <2>2. i \in 1..Len(text) - from
    BY <1>1, <1>3, <2>1
  <2>3. text[to] = CR /\ text[to + 1] = LF
    <3>1. text[from + i] = CR /\ text[from + (i + 1)] = LF
      BY <1>2, <1>3, <2>1, <2>2
    <3>2. QED
      BY <1>1, <2>1, <3>1
  <2> DEFINE p == <<CR, LF>>
  <2>4. 1 \in DOMAIN d.newlines /\ d.newlines[1] = p
    BY <1>3, DialectsAssumption
  <2>5. p \in Seq(Byte) /\ Len(p) = 2 /\ p[1] = CR /\ p[2] = LF
    BY DialectsAssumption
  <2>6. /\ to - 1 \in 0..Len(text) /\ to - 1 \in from..to - 1 /\ (to - 1) + 2 >= to
        /\ (to - 1) + 2 <= Len(text) /\ (to - 1) + 1 = to /\ (to - 1) + 2 = to + 1
    <3>1. from < to
      BY <1>1, <2>2
    <3>2. QED
      BY <1>1, <3>1
  <2> HIDE DEF p
  <2>7. \A j \in 1..2 : text[(to - 1) + j] = p[j]
    <3>1. text[(to - 1) + 1] = p[1] /\ text[(to - 1) + 2] = p[2]
      BY <2>3, <2>5, <2>6
    <3>2. \A j \in 1..2 : j = 1 \/ j = 2
      OBVIOUS
    <3>3. QED
      BY <3>1, <3>2
  <2>8. StartsWith(text, to - 1, p)
    BY <2>5, <2>6, <2>7, StandsAt
  <2>9. (to - 1) + Len(d.newlines[1]) >= to /\ StartsWith(text, to - 1, d.newlines[1])
    BY <2>4, <2>5, <2>6, <2>8
  <2>10. QED
    BY <2>4, <2>6, <2>9 DEF Behind
<1>4. QED
  BY <1>3, Zenon DEF FieldEnd, data, i
(* A row that a newline ends.                                              *)
LEMMA EndedAgrees ==
    ASSUME NEW d \in Dialects, NEW text \in Seq(Byte), NEW from \in 0..Len(text),
           NEW to \in from..Len(text) - 1,
           NEW st, ReadHere(d, text, from, to, st), Behind(d, text, from, to, st),
           TokenAt(d, d.newlines, text, to, st.quote.in_quotes) = "newline",
           NEW n, n = MatchNewline(d, text, to)
    PROVE  RowAgrees(d, text, from, to + n)
<1> DEFINE data == Suffix(text, from)
           len  == Len(data)
           i    == to - from
           row  == ReadRow(d, d.newlines, data)
           last == RowState(d, d.newlines, data)[len]
           line == SubSeq(text, from + 1, to)
           b    == Append(st.bounds, <<st.start, i>>)
           none == <<>>
<1>1. /\ Len(text) \in Nat /\ from \in Nat /\ to \in Nat /\ from <= to /\ to < Len(text)
      /\ from \in 0..Len(text) - 1 /\ to \in from..Len(text) /\ to \in to..Len(text)
      /\ to \in 0..Len(text) /\ i \in Nat /\ i + from = to
  BY LenProperties
<1>2. /\ st \in RowStates /\ st.next = 0 /\ st.skip = 0
      /\ RowState(d, d.newlines, data)[i] = st
      /\ RowState(d, none, line)[i] = st
  BY <1>1 DEF ReadHere
<1>3. /\ st.quote \in QuoteStates /\ st.start \in Nat /\ ~(st.next > 0)
      /\ st.quote.in_quotes \in BOOLEAN
  BY <1>2 DEF RowStates, QuoteStates
<1>4. d.newlines \in Patterns
  BY DialectTyping
<1>5. ~st.quote.in_quotes /\ n > 0
  BY <1>1, <1>3, <1>4, TokenKinds DEF MatchNewline
<1>6. n \in Nat /\ to + n <= Len(text) /\ LineEnd(d, text, from, to + n) = to
  BY <1>5, NewlineStripped
<1>7. FieldEnd(d, data, st.start, i) = i
  BY <1>3, <1>5, NothingLost
<1>8. /\ data \in Seq(Byte) /\ len = Len(text) - from /\ i \in 0..len
      /\ TokenAt(d, d.newlines, data, i, st.quote.in_quotes) = "newline"
      /\ MatchNewline(d, data, i) = n
  BY <1>1, RestAgrees
<1>9. i \in 0..Len(data) - 1 /\ line \in Seq(Byte) /\ Len(line) = i
  BY <1>1, <1>8, PartOf
<1> HIDE DEF data, i, last, line, none, len
<1>10. last = AfterNewline(st, i, i + n)
  <2>1. TokenRuns(d, d.newlines, data, i)
    BY <1>2, <1>4, <1>8, <1>9, TokenRun
  <2>2. RowState(d, d.newlines, data)[Len(data)]
          = AfterNewline(st, FieldEnd(d, data, st.start, i), i + MatchLength(d.newlines, data, i))
    BY <1>2, <1>8, <2>1 DEF TokenRuns
  <2>3. QED
    BY <1>7, <1>8, <2>2 DEF MatchNewline, last, len
<1>11. /\ row.bounds = b /\ row.next = i + n /\ row.violation = st.quote.violation
       /\ row.open = FALSE
  <2>1. last.next = i + n /\ last.bounds = b /\ last.quote = OnDelimiter(st.quote)
    BY <1>2, <1>10 DEF AfterNewline, RowStates
  <2> HIDE DEF b
  <2>2. last.next > 0
    BY <1>1, <1>5, <1>6, <2>1
  <2>3. row = [bounds |-> last.bounds, next |-> last.next, open |-> FALSE,
               violation |-> Finish(last.quote, last.next)]
    BY <2>2 DEF ReadRow, last, len
  <2>4. Finish(OnDelimiter(st.quote), last.next) = st.quote.violation
    BY <1>3, <1>5 DEF Finish, OnDelimiter, QuoteStates
  <2> HIDE DEF row
  <2>5. QED
    BY <2>1, <2>3, <2>4
<1>12. ReadLine(d, line).bounds = b /\ ReadLine(d, line).violation = st.quote.violation
  <2> DEFINE read == ReadRow(d, none, line)
  <2>1. read = [bounds |-> Append(st.bounds, <<st.start, i>>),
                next |-> i, open |-> st.quote.in_quotes,
                violation |-> Finish(st.quote, i)]
    BY <1>2, <1>3, <1>9 DEF ReadRow
  <2>2. Finish(st.quote, i) = st.quote.violation
    BY <1>5 DEF Finish
  <2> HIDE DEF read
  <2>3. read.bounds = b /\ read.violation = st.quote.violation
    BY <2>1, <2>2
  <2>4. QED
    BY <2>3 DEF ReadLine, read, none
<1> DEFINE end == to + n
<1>13. /\ end \in from..Len(text) /\ row.next + from = end
       /\ line = SubSeq(text, from + 1, LineEnd(d, text, from, end))
  <2>1. (i + n) + from = to + n /\ to + n \in from..Len(text)
    BY <1>1, <1>6
  <2> HIDE DEF row
  <2>2. QED
    BY <1>6, <1>11, <2>1 DEF line
<1> HIDE DEF row, b, end
<1>14. RowAgrees(d, text, from, end)
  BY <1>1, <1>11, <1>12, <1>13, AgreesIf DEF row, data
<1>15. QED
  BY <1>14 DEF end
-----------------------------------------------------------------------------
(* The row and the search go through the text side by side.                *)

(* S are the starts of the rows up to the one at from, whose lines agree   *)
(* with them.                                                              *)
Chain(d, text, S, from) ==
    /\ S \in Seq(0..Len(text) - 1) /\ Len(S) > 0 /\ S[1] = 0 /\ S[Len(S)] = from
    /\ \A k \in 1..Len(S) - 1 : RowAgrees(d, text, S[k], S[k + 1])

(* Between two patterns, in the row at from.                               *)
Walk(d, text, to, from, st, S) ==
    /\ from \in 0..Len(text) - 1 /\ to \in from..Len(text)
    /\ ReadHere(d, text, from, to, st) /\ Behind(d, text, from, to, st)
    /\ SearchAt(d, text, to, S, st.quote.in_quotes) /\ Chain(d, text, S, from)

Walks(d, text, to) == \E from, st, S : Walk(d, text, to, from, st, S)

(* All rows are found, and agree with their lines.                         *)
Walked(d, text) ==
    \E from \in 0..Len(text) - 1 : /\ Chain(d, text, RowStarts(d, text), from)
                                   /\ RowAgrees(d, text, from, Len(text))

(* Row and search start together.                                          *)
LEMMA WalkFirst ==
    ASSUME NEW d \in Dialects, NEW text \in Seq(Byte), text # <<>>
    PROVE  Walks(d, text, 0)
<1> DEFINE S == <<0>>
           N == 0..Len(text) - 1
<1>1. Len(text) \in Nat \ {0} /\ 0 \in N /\ 0 \in 0..Len(text)
  BY EmptySeq
<1>2. ReadHere(d, text, 0, 0, RowStart)
  BY <1>1, ReadHereFirst
<1>3. ~RowStart.quote.in_quotes
  BY DEF RowStart, NewQuote
<1>4. RowStart.quote.in_quotes = FALSE
  BY DEF RowStart, NewQuote
<1>5. SearchAt(d, text, 0, S, FALSE)
  BY StartsStateIs DEF SearchReads, SearchAt
<1>6. Chain(d, text, S, 0)
  <2>1. S \in Seq(N) /\ Len(S) = 1 /\ S[1] = 0
    BY <1>1
  <2> HIDE DEF S
  <2>2. QED
    BY <2>1 DEF Chain, N
<1>7. Behind(d, text, 0, 0, RowStart)
  BY DEF Behind
<1>8. Walk(d, text, 0, 0, RowStart, S)
  BY <1>1, <1>2, <1>4, <1>5, <1>6, <1>7 DEF Walk
<1>9. QED
  BY <1>8 DEF Walks

(* A token that is not a newline.                                          *)
LEMMA WalkToken ==
    ASSUME NEW d \in Dialects, Apart(d), NEW text \in Seq(Byte), NEW to \in 0..Len(text) - 1,
           NEW from, NEW st, NEW S, Walk(d, text, to, from, st, S),
           TokenAt(d, d.newlines, text, to, st.quote.in_quotes) # "newline"
    PROVE  \E next \in to + 1..Len(text) : Walks(d, text, next)
<1> DEFINE token   == TokenAt(d, d.newlines, text, to, st.quote.in_quotes)
           doubled == st.quote.in_quotes /\ Doubled(d, text, to)
           n       == MatchSeparator(d, text, to)
           w       == Width(d, token, doubled, n)
           after   == AfterToken(d, st, to - from, token, doubled, n)
<1>1. /\ from \in 0..Len(text) - 1 /\ to \in from..Len(text)
      /\ ReadHere(d, text, from, to, st) /\ Behind(d, text, from, to, st)
      /\ SearchAt(d, text, to, S, st.quote.in_quotes) /\ Chain(d, text, S, from)
  BY DEF Walk
<1>2. from \in 0..Len(text) /\ to \in from..Len(text) - 1 /\ Len(text) \in Nat /\ to \in Nat
  BY <1>1, LenProperties
<1>3. doubled \in BOOLEAN /\ (doubled <=> st.quote.in_quotes /\ Doubled(d, text, to))
  BY Zenon
<1>4. token = TokenAt(d, d.newlines, text, to, st.quote.in_quotes) /\ token # "newline"
  OBVIOUS
<1> HIDE DEF token, doubled, n, w, after
<1>5. /\ w \in Nat \ {0} /\ to + w <= Len(text)
      /\ ReadHere(d, text, from, to + w, after)
  BY <1>1, <1>2, <1>3, <1>4, ReadHereOn DEF n, w, after
<1>6. Behind(d, text, from, to + w, after)
  BY <1>1, <1>2, <1>3, <1>4, BehindOn DEF n, w, after
<1>7. SearchAt(d, text, to + w, S, after.quote.in_quotes)
  BY <1>1, <1>2, <1>3, <1>4, SearchOn DEF n, w, after
<1> DEFINE next == to + w
<1>8. next \in to + 1..Len(text) /\ next \in from..Len(text)
  BY <1>2, <1>5
<1>9. Walk(d, text, next, from, after, S)
  BY <1>1, <1>5, <1>6, <1>7, <1>8 DEF Walk
<1> HIDE DEF next
<1>10. Walks(d, text, next)
  BY <1>9 DEF Walks
<1>11. QED
  BY <1>8, <1>10

(* A newline ends the row, and is behind the next.                         *)
LEMMA WalkNewline ==
    ASSUME NEW d \in Dialects, NEW text \in Seq(Byte), NEW to \in 0..Len(text) - 1,
           NEW from, NEW st, NEW S, Walk(d, text, to, from, st, S),
           TokenAt(d, d.newlines, text, to, st.quote.in_quotes) = "newline"
    PROVE  Walked(d, text) \/ \E next \in to + 1..Len(text) : Walks(d, text, next)
<1> DEFINE n    == MatchNewline(d, text, to)
           next == to + n
           T    == IF next < Len(text) THEN Append(S, next) ELSE S
           N    == 0..Len(text) - 1
<1>1. /\ from \in 0..Len(text) - 1 /\ to \in from..Len(text)
      /\ ReadHere(d, text, from, to, st) /\ Behind(d, text, from, to, st)
      /\ SearchAt(d, text, to, S, st.quote.in_quotes) /\ Chain(d, text, S, from)
  BY DEF Walk
<1>2. /\ from \in 0..Len(text) /\ to \in from..Len(text) - 1 /\ Len(text) \in Nat /\ to \in Nat
      /\ to \in 0..Len(text)
  BY <1>1, LenProperties
<1>3. st.quote.in_quotes = FALSE
  <2>1. st.quote.in_quotes \in BOOLEAN
    BY <1>1 DEF ReadHere, RowStates, QuoteStates
  <2>2. ~st.quote.in_quotes
    BY <1>2, <2>1, DialectTyping, TokenKinds
  <2>3. QED
    BY <2>1, <2>2
<1>4. RowAgrees(d, text, from, next)
  BY <1>1, <1>2, EndedAgrees
<1>5. n \in Nat \ {0} /\ next <= Len(text) /\ SearchAt(d, text, next, T, FALSE)
  <2>1. SearchAt(d, text, to, S, FALSE) /\ TokenAt(d, d.newlines, text, to, FALSE) = "newline"
    BY <1>1, <1>3
  <2>2. QED
    BY <1>2, <2>1, SearchNewline
<1> HIDE DEF n
<1>6. next \in to + 1..Len(text) /\ next \in Nat
  BY <1>2, <1>5
<1> HIDE DEF next
<1>7. CASE next = Len(text)
  <2>1. T = S
    BY <1>2, <1>7
  <2>2. RowStarts(d, text) = S
    <3>1. StartsState(d, text)[Len(text)] = [starts |-> S, in_quotes |-> FALSE, skip |-> 0]
      BY <1>5, <1>7, <2>1 DEF SearchAt
    <3>2. QED
      BY <3>1 DEF RowStarts
  <2>3. QED
    BY <1>1, <1>4, <1>7, <2>2 DEF Walked
<1>8. CASE next # Len(text)
  <2>1. next < Len(text) /\ next \in N /\ next \in 0..Len(text)
    BY <1>2, <1>6, <1>8
  <2>2. T = Append(S, next)
    BY <2>1
  <2>3. /\ S \in Seq(N) /\ Len(S) > 0 /\ S[1] = 0 /\ S[Len(S)] = from
        /\ \A k \in 1..Len(S) - 1 : RowAgrees(d, text, S[k], S[k + 1])
    BY <1>1 DEF Chain
  <2> HIDE DEF N, T
  <2>4. /\ T \in Seq(N) /\ Len(T) = Len(S) + 1 /\ T[Len(S) + 1] = next /\ Len(S) \in Nat
        /\ \A k \in 1..Len(S) : T[k] = S[k]
    BY <2>1, <2>2, <2>3, AppendProperties, LenProperties
  <2>5. ASSUME NEW k \in 1..Len(T) - 1
        PROVE  RowAgrees(d, text, T[k], T[k + 1])
    <3>1. CASE k = Len(S)
      <4>1. T[k] = from /\ T[k + 1] = next
        BY <2>3, <2>4, <3>1
      <4>2. QED
        BY <1>4, <4>1
    <3>2. CASE k # Len(S)
      <4>1. k \in 1..Len(S) - 1 /\ k \in 1..Len(S) /\ k + 1 \in 1..Len(S)
        BY <2>4, <3>2
      <4>2. T[k] = S[k] /\ T[k + 1] = S[k + 1]
        BY <2>4, <4>1
      <4>3. QED
        BY <2>3, <4>1, <4>2
    <3>3. QED
      BY <3>1, <3>2
  <2>6. Chain(d, text, T, next)
    <3>1. T[1] = 0 /\ T[Len(T)] = next /\ Len(T) > 0
      <4>1. 1 \in 1..Len(S)
        BY <2>3, <2>4
      <4>2. QED
        BY <2>3, <2>4, <4>1
    <3>2. QED
      BY <2>4, <2>5, <3>1 DEF Chain, N
  <2>7. ReadHere(d, text, next, next, RowStart)
    BY <2>1, ReadHereFirst
  <2>8. Behind(d, text, next, next, RowStart)
    <3>1. \A p \in next..next - 1 : FALSE
      BY <1>6
    <3>2. QED
      BY <3>1 DEF Behind
  <2>9. RowStart.quote.in_quotes = FALSE
    BY DEF RowStart, NewQuote
  <2>10. next \in next..Len(text)
    BY <1>6
  <2>11. Walk(d, text, next, next, RowStart, T)
    BY <1>5, <2>1, <2>6, <2>7, <2>8, <2>9, <2>10 DEF Walk, N, T
  <2>12. Walks(d, text, next)
    BY <2>11 DEF Walks
  <2>13. QED
    BY <1>6, <2>12
<1>9. QED
  BY <1>7, <1>8

(* At the end of the text the last row has ended.                          *)
LEMMA WalkLast ==
    ASSUME NEW d \in Dialects, NEW text \in Seq(Byte), NEW to, to = Len(text),
           Walks(d, text, to)
    PROVE  Walked(d, text)
<1>1. PICK from, st, S : Walk(d, text, to, from, st, S)
  BY DEF Walks
<1>2. /\ from \in 0..Len(text) - 1
      /\ ReadHere(d, text, from, to, st) /\ Behind(d, text, from, to, st)
      /\ SearchAt(d, text, to, S, st.quote.in_quotes) /\ Chain(d, text, S, from)
  BY <1>1 DEF Walk
<1>3. RowAgrees(d, text, from, to)
  BY <1>2, LastAgrees
<1>4. RowStarts(d, text) = S
  BY <1>2 DEF RowStarts, SearchAt
<1>5. QED
  BY <1>2, <1>3, <1>4 DEF Walked

(* So in a dialect whose patterns are apart the search finds the rows, and *)
(* their lines agree with them.                                            *)
LEMMA AllWalked ==
    ASSUME NEW d \in Dialects, Apart(d), NEW text \in Seq(Byte), text # <<>>
    PROVE  Walked(d, text)
<1> DEFINE P == {to \in 0..Len(text) : Walks(d, text, to)}
           last == Max(P)
<1>1. Len(text) \in Nat /\ 0 \in 0..Len(text)
  BY LenProperties
<1>2. 0 \in P /\ P \subseteq 0..Len(text)
  BY <1>1, WalkFirst
<1>3. last \in P /\ \A to \in P : to <= last
  <2> HIDE DEF P
  <2>1. QED
    BY <1>1, <1>2, GreatestOf
<1>4. last \in 0..Len(text) /\ Walks(d, text, last)
  BY <1>3
<1>5. CASE last = Len(text)
  <2> HIDE DEF last
  <2>1. QED
    BY <1>4, <1>5, WalkLast
<1>6. CASE last # Len(text)
  <2> HIDE DEF P, last
  <2>1. last \in 0..Len(text) - 1
    BY <1>1, <1>4, <1>6
  <2>2. PICK from, st, S : Walk(d, text, last, from, st, S)
    BY <1>4 DEF Walks
  <2>3. \A next \in last + 1..Len(text) : ~Walks(d, text, next)
    <3>1. ASSUME NEW next \in last + 1..Len(text), Walks(d, text, next)
          PROVE  FALSE
      <4>1. next \in 0..Len(text) /\ ~(next <= last)
        BY <1>1, <2>1
      <4>2. next \in P
        BY <3>1, <4>1 DEF P
      <4>3. QED
        BY <1>3, <4>1, <4>2
    <3>2. QED
      BY <3>1
  <2>4. TokenAt(d, d.newlines, text, last, st.quote.in_quotes) = "newline"
    BY <2>1, <2>2, <2>3, WalkToken
  <2>5. QED
    BY <2>1, <2>2, <2>3, <2>4, WalkNewline
<1>7. QED
  BY <1>5, <1>6
-----------------------------------------------------------------------------
(* The rows of a text and the lines that the workers make.                 *)

(* done are the rows of text before to.                                    *)
RowsTo(d, text, to, done) ==
    done \in Seq(Rows) /\ RowsFrom(d, text)[0] = done \o RowsFrom(d, text)[to]

(* Before the text there are none.                                         *)
LEMMA RowsToFirst ==
    ASSUME NEW d \in Dialects, NEW text \in Seq(Byte)
    PROVE  RowsTo(d, text, 0, <<>>)
<1> DEFINE all == RowsFrom(d, text)[0]
           none == <<>>
<1>1. 0 \in 0..Len(text)
  BY LenProperties
<1>2. all \in Seq(Rows)
  BY <1>1, RowsFromIs DEF RowsRead
<1>3. none \in Seq(Rows) /\ none \o all = all
  <2> HIDE DEF all
  <2>1. QED
    BY <1>2, EmptySeq, ConcatEmptySeq
<1> HIDE DEF none
<1>4. RowsTo(d, text, 0, none)
  BY <1>3 DEF RowsTo, all
<1>5. QED
  BY <1>4 DEF none

(* One row more.                                                           *)
LEMMA RowsToNext ==
    ASSUME NEW d \in Dialects, NEW text \in Seq(Byte), NEW from \in 0..Len(text) - 1,
           NEW done, RowsTo(d, text, from, done), NEW row, row = RowAt(d, text, from)
    PROVE  /\ row \in Rows /\ row.next \in from + 1..Len(text)
           /\ RowsTo(d, text, row.next, Append(done, row))
<1> DEFINE F    == RowsFrom(d, text)
           one  == <<row>>
           rest == F[row.next]
           more == Append(done, row)
<1>1. row \in Rows /\ row.next \in from + 1..Len(text)
  BY RowAtTyping
<1>2. done \in Seq(Rows) /\ F[0] = done \o F[from]
  BY DEF RowsTo
<1>3. row.next \in 0..Len(text)
  <2> DEFINE n == row.next
  <2>1. n \in from + 1..Len(text) /\ Len(text) \in Nat /\ from \in Nat
    BY <1>1, LenProperties
  <2> HIDE DEF n
  <2>2. n \in 0..Len(text)
    BY <2>1
  <2>3. QED
    BY <2>2 DEF n
<1>4. F[from] = one \o rest /\ rest \in Seq(Rows)
  BY <1>3, RowsFromIs DEF RowsRead
<1>5. one \in Seq(Rows) /\ more = done \o one /\ more \in Seq(Rows)
  BY <1>1, <1>2, AppendIsConcat, AppendProperties
<1> HIDE DEF F, one, rest, more
<1>6. F[0] = more \o rest
  <2>1. done \o (one \o rest) = (done \o one) \o rest
    <3>1. ASSUME NEW a \in Seq(Rows), NEW b \in Seq(Rows), NEW c \in Seq(Rows)
          PROVE  a \o (b \o c) = (a \o b) \o c
      BY RowsAssociative
    <3>2. QED
      BY <1>2, <1>4, <1>5, <3>1
  <2>2. QED
    BY <1>2, <1>4, <1>5, <2>1
<1>7. RowsTo(d, text, row.next, more)
  BY <1>5, <1>6 DEF RowsTo, F, rest
<1>8. QED
  BY <1>1, <1>7 DEF more

(* At its end they are all the rows.                                       *)
LEMMA RowsToLast ==
    ASSUME NEW d \in Dialects, NEW text \in Seq(Byte), NEW to, to = Len(text),
           NEW done, RowsTo(d, text, to, done)
    PROVE  BatchRows(d, text) = done
<1>1. RowsFrom(d, text)[to] = <<>>
  BY RowsFromIs DEF RowsRead
<1>2. done \in Seq(Rows) /\ RowsFrom(d, text)[0] = done \o RowsFrom(d, text)[to]
  BY DEF RowsTo
<1>3. QED
  BY <1>1, <1>2, ConcatEmptySeq DEF BatchRows

(* Rows with the same violations have the same first one.                  *)
LEMMA SameViolations ==
    ASSUME NEW r \in Seq(Rows), NEW s \in Seq(Rows), Len(r) = Len(s),
           \A k \in 1..Len(r) : r[k].violation = s[k].violation
    PROVE  RowsViolation(r) = RowsViolation(s)
<1> DEFINE m == Len(r)
<1>1. m \in Nat
  BY LenProperties
<1>2. PICK f : FirstReads(r, f) /\ RowsViolation(r) = f[m]
  BY FirstExists
<1>3. PICK g : FirstReads(s, g) /\ RowsViolation(s) = g[m]
  BY FirstExists
<1>4. /\ f[0] = NoViolation /\ \A k \in 1..m : f[k] = FirstOf(f[k - 1], r[k].violation)
      /\ g[0] = NoViolation /\ \A k \in 1..m : g[k] = FirstOf(g[k - 1], s[k].violation)
  BY <1>2, <1>3 DEF FirstReads
<1>5. \A k \in 1..m : r[k].violation = s[k].violation
  OBVIOUS
<1> DEFINE P == {k \in 0..m : f[k] = g[k]}
<1> HIDE DEF m
<1>6. 0 \in P
  BY <1>1, <1>4
<1>7. ASSUME NEW k \in 1..m, k - 1 \in P
      PROVE  k \in P
  <2>1. k \in 0..m /\ f[k - 1] = g[k - 1]
    BY <1>1, <1>7
  <2>2. f[k] = g[k]
    BY <1>4, <1>5, <2>1
  <2>3. QED
    BY <2>1, <2>2
<1> HIDE DEF P
<1>8. \A k \in 0..m : k \in P
  BY <1>1, <1>6, <1>7, UpTo
<1>9. f[m] = g[m]
  BY <1>1, <1>8 DEF P
<1>10. QED
  BY <1>2, <1>3, <1>9

(* Rows without violations have no first one.                              *)
LEMMA CleanRows ==
    ASSUME NEW given \in Seq(Rows), \A k \in 1..Len(given) : given[k].violation = NoViolation
    PROVE  RowsViolation(given) = NoViolation
<1> DEFINE m == Len(given)
<1>1. m \in Nat
  BY LenProperties
<1>2. PICK f : FirstReads(given, f) /\ RowsViolation(given) = f[m]
  BY FirstExists
<1>3. f[0] = NoViolation /\ \A k \in 1..m : f[k] = FirstOf(f[k - 1], given[k].violation)
  BY <1>2 DEF FirstReads
<1>4. \A k \in 1..m : given[k].violation = NoViolation
  OBVIOUS
<1> DEFINE P == {k \in 0..m : f[k] = NoViolation}
<1> HIDE DEF m
<1>5. 0 \in P
  BY <1>1, <1>3
<1>6. ASSUME NEW k \in 1..m, k - 1 \in P
      PROVE  k \in P
  <2>1. k \in 0..m /\ f[k - 1] = NoViolation
    BY <1>1, <1>6
  <2>2. f[k] = NoViolation
    BY <1>3, <1>4, <2>1 DEF FirstOf
  <2>3. QED
    BY <2>1, <2>2
<1> HIDE DEF P
<1>7. \A k \in 0..m : k \in P
  BY <1>1, <1>5, <1>6, UpTo
<1>8. f[m] = NoViolation
  BY <1>1, <1>7 DEF P
<1>9. QED
  BY <1>2, <1>8
(* The rows between the first starts of a chain.                           *)
Between(d, text, S, n, done) ==
    /\ RowsTo(d, text, S[n + 1], done) /\ Len(done) = n
    /\ \A j \in 1..n : done[j] = RowAt(d, text, S[j])

(* One more.                                                               *)
LEMMA BetweenNext ==
    ASSUME NEW d \in Dialects, NEW text \in Seq(Byte), NEW S, NEW n \in Nat, NEW done,
           Between(d, text, S, n, done), NEW a, a = S[n + 1], a \in 0..Len(text) - 1,
           NEW row, row = RowAt(d, text, a)
    PROVE  /\ row \in Rows /\ Append(done, row) \in Seq(Rows) /\ Len(Append(done, row)) = n + 1
           /\ RowsTo(d, text, row.next, Append(done, row))
           /\ \A j \in 1..n + 1 : Append(done, row)[j] = RowAt(d, text, S[j])
<1>1. /\ RowsTo(d, text, a, done) /\ done \in Seq(Rows) /\ Len(done) = n
      /\ \A j \in 1..n : done[j] = RowAt(d, text, S[j])
  BY DEF Between, RowsTo
<1>2. row \in Rows /\ RowsTo(d, text, row.next, Append(done, row))
  BY <1>1, RowsToNext
<1> DEFINE more == Append(done, row)
<1>3. /\ more \in Seq(Rows) /\ Len(more) = n + 1 /\ more[n + 1] = row
      /\ \A j \in 1..n : more[j] = done[j]
  BY <1>1, <1>2, AppendProperties
<1> HIDE DEF more
<1>4. ASSUME NEW j \in 1..n + 1
      PROVE  more[j] = RowAt(d, text, S[j])
  <2>1. CASE j = n + 1
    BY <1>3, <2>1
  <2>2. CASE j # n + 1
    <3>1. j \in 1..n
      BY <2>2
    <3>2. QED
      BY <1>1, <1>3, <3>1
  <2>3. QED
    BY <2>1, <2>2
<1>5. QED
  BY <1>2, <1>3, <1>4 DEF more

(* The rows of a text are those at the starts of a chain to its end.       *)
LEMMA ChainRows ==
    ASSUME NEW d \in Dialects, NEW text \in Seq(Byte), NEW S, NEW from \in 0..Len(text) - 1,
           Chain(d, text, S, from), RowAgrees(d, text, from, Len(text))
    PROVE  /\ BatchRows(d, text) \in Seq(Rows) /\ Len(BatchRows(d, text)) = Len(S)
           /\ Len(S) \in Nat \ {0}
           /\ \A k \in 1..Len(S) : BatchRows(d, text)[k] = RowAt(d, text, S[k])
<1> DEFINE m == Len(S)
           N == 0..Len(text) - 1
<1>1. S \in Seq(N) /\ m > 0 /\ S[1] = 0 /\ S[m] = from
  BY DEF Chain
<1>2. m \in Nat \ {0} /\ \A k \in 1..m : S[k] \in N
  <2> HIDE DEF N
  <2>1. QED
    BY <1>1, ElementOfSeq, LenProperties
<1>3. \A k \in 1..m - 1 : RowAt(d, text, S[k]).next = S[k + 1]
  BY DEF Chain, RowAgrees
<1> HIDE DEF m, N
<1> DEFINE P == {n \in 0..m - 1 : \E done : Between(d, text, S, n, done)}
<1>4. 0 \in P
  <2> DEFINE none == <<>>
  <2>1. RowsTo(d, text, 0, none)
    BY RowsToFirst
  <2>2. Len(none) = 0 /\ 0 \in 0..m - 1 /\ \A j : j \notin 1..0
    BY <1>2
  <2> HIDE DEF none
  <2>3. S[0 + 1] = 0
    BY <1>1
  <2>4. Between(d, text, S, 0, none)
    BY <2>1, <2>2, <2>3 DEF Between
  <2>5. QED
    BY <2>2, <2>4
<1>5. ASSUME NEW n \in 1..m - 1, n - 1 \in P
      PROVE  n \in P
  <2> DEFINE a == S[n]
             row == RowAt(d, text, a)
  <2>1. n \in 0..m - 1 /\ n - 1 \in Nat /\ (n - 1) + 1 = n /\ n \in 1..m
    BY <1>2
  <2>2. PICK done : Between(d, text, S, n - 1, done)
    BY <1>5
  <2>3. a = S[(n - 1) + 1] /\ a \in 0..Len(text) - 1
    BY <1>2, <2>1 DEF N
  <2> DEFINE more == Append(done, row)
  <2>4. /\ Len(more) = (n - 1) + 1 /\ RowsTo(d, text, row.next, more)
        /\ \A j \in 1..(n - 1) + 1 : more[j] = RowAt(d, text, S[j])
    <3> DEFINE less == n - 1
    <3>1. row = RowAt(d, text, a) /\ more = Append(done, row)
      OBVIOUS
    <3>2. less \in Nat /\ a = S[less + 1] /\ Between(d, text, S, less, done)
      BY <2>1, <2>2, <2>3
    <3> HIDE DEF a, row, less, more
    <3>3. /\ Len(more) = less + 1 /\ RowsTo(d, text, row.next, more)
          /\ \A j \in 1..less + 1 : more[j] = RowAt(d, text, S[j])
      BY <2>3, <3>1, <3>2, BetweenNext
    <3>4. QED
      BY <3>3 DEF less
  <2>5. row.next = S[n + 1]
    BY <1>3
  <2> HIDE DEF more, row, a
  <2>6. Between(d, text, S, n, more)
    BY <2>1, <2>4, <2>5 DEF Between
  <2>7. QED
    BY <2>1, <2>6
<1> HIDE DEF P
<1>6. \A n \in 0..m - 1 : n \in P
  <2>1. m - 1 \in Nat
    BY <1>2
  <2>2. QED
    BY <1>4, <1>5, <2>1, UpTo
<1>7. m - 1 \in Nat /\ m - 1 \in 0..m - 1 /\ (m - 1) + 1 = m /\ m \in 1..m
  BY <1>2
<1>8. PICK done : Between(d, text, S, m - 1, done)
  BY <1>6, <1>7 DEF P
<1> DEFINE row == RowAt(d, text, from)
           more == Append(done, row)
<1>9. from = S[(m - 1) + 1]
  BY <1>1, <1>7
<1>10. /\ more \in Seq(Rows) /\ Len(more) = (m - 1) + 1 /\ RowsTo(d, text, row.next, more)
       /\ \A j \in 1..(m - 1) + 1 : more[j] = RowAt(d, text, S[j])
  BY <1>7, <1>8, <1>9, BetweenNext
<1>11. row.next = Len(text)
  BY DEF RowAgrees
<1> HIDE DEF row, more
<1>12. BatchRows(d, text) = more
  BY <1>10, <1>11, RowsToLast
<1>13. QED
  BY <1>2, <1>7, <1>10, <1>12 DEF m

(* What the workers make of all ranges.                                    *)
Lines(d, text) ==
    [k \in DOMAIN RowRanges(d, text) |-> ParsedLine(d, text, RowRanges(d, text)[k])]

(* A range and a row for each start, which agree.                          *)
LEMMA RangesAgree ==
    ASSUME NEW d \in Dialects, NEW text \in Seq(Byte), Walked(d, text)
    PROVE  LET all == BatchRows(d, text)
               lines == Lines(d, text)
           IN  /\ all \in Seq(Rows) /\ lines \in Seq(Rows) /\ Len(lines) = Len(all)
               /\ Len(all) \in Nat /\ RowRanges(d, text) # <<>>
               /\ \A k \in 1..Len(all) :
                     /\ ~all[k].open => /\ lines[k].bounds = all[k].bounds
                                        /\ lines[k].violation = all[k].violation
                     /\ all[k].open => /\ lines[k].violation # NoViolation
                                       /\ all[k].violation # NoViolation
<1> DEFINE S == RowStarts(d, text)
           m == Len(S)
           N == 0..Len(text) - 1
           R == RowRanges(d, text)
           all == BatchRows(d, text)
           lines == Lines(d, text)
<1>1. PICK from \in N : Chain(d, text, S, from) /\ RowAgrees(d, text, from, Len(text))
  BY DEF Walked
<1>2. /\ all \in Seq(Rows) /\ Len(all) = m /\ m \in Nat \ {0}
      /\ \A k \in 1..m : all[k] = RowAt(d, text, S[k])
  <2> HIDE DEF S
  <2>1. QED
    BY <1>1, ChainRows
<1>3. /\ S \in Seq(N) /\ S[m] = from
      /\ \A k \in 1..m - 1 : RowAgrees(d, text, S[k], S[k + 1])
  BY <1>1 DEF Chain
<1>4. DOMAIN S = 1..m
  <2> HIDE DEF N, S
  <2>1. QED
    BY <1>3, LenProperties
<1>5. R = [k \in 1..m |-> <<S[k], IF k < m THEN S[k + 1] ELSE Len(text)>>]
  BY <1>4 DEF RowRanges
<1>6. lines = [k \in 1..m |-> ParsedLine(d, text, R[k])]
  BY <1>5 DEF Lines
<1> HIDE DEF S, m, N, R, all, lines
<1>7. ASSUME NEW k \in 1..m
      PROVE  /\ lines[k] \in Rows
             /\ ~all[k].open => /\ lines[k].bounds = all[k].bounds
                                /\ lines[k].violation = all[k].violation
             /\ all[k].open => /\ lines[k].violation # NoViolation
                               /\ all[k].violation # NoViolation
  <2> DEFINE a == S[k]
             b == IF k < m THEN S[k + 1] ELSE Len(text)
  <2>1. RowAgrees(d, text, a, b)
    <3>1. CASE k < m
      <4>1. k \in 1..m - 1
        BY <1>2, <3>1
      <4>2. QED
        BY <1>3, <3>1, <4>1
    <3>2. CASE ~(k < m)
      <4>1. k = m
        BY <1>2, <3>2
      <4>2. QED
        BY <1>1, <1>3, <3>2, <4>1
    <3>3. QED
      BY <3>1, <3>2
  <2>2. lines[k] = ParsedLine(d, text, <<a, b>>) /\ all[k] = RowAt(d, text, a)
    BY <1>2, <1>5, <1>6
  <2> HIDE DEF a, b
  <2>3. QED
    BY <2>1, <2>2 DEF RowAgrees
<1>8. lines \in Seq(Rows) /\ Len(lines) = m
  <2>1. lines \in [1..m -> Rows]
    BY <1>6, <1>7
  <2>2. QED
    BY <1>2, <2>1
<1>9. R # <<>>
  <2>1. 1 \in DOMAIN R
    BY <1>2, <1>5
  <2>2. QED
    BY <2>1
<1>10. QED
  BY <1>2, <1>7, <1>8, <1>9 DEF R, all, lines
(* The empty text has one range, of a line without violations, and no row. *)
LEMMA EmptyText ==
    ASSUME NEW d \in Dialects
    PROVE  /\ Lines(d, <<>>) \in Seq(Rows) /\ RowRanges(d, <<>>) # <<>>
           /\ RowsViolation(Lines(d, <<>>)) = NoViolation
           /\ BatchViolation(d, <<>>) = NoViolation
<1> DEFINE none == <<>>
           first == <<0>>
           lines == Lines(d, none)
           line == PlannedLine(d, none, <<0, 0>>)
           read == ReadLine(d, line)
<1>1. none \in Seq(Byte) /\ Len(none) = 0 /\ 0 \in 0..Len(none)
  BY EmptySeq
<1>2. StartsState(d, none)[0] = [starts |-> <<0>>, in_quotes |-> FALSE, skip |-> 0]
  BY <1>1, StartsStateIs DEF SearchReads
<1>3. RowStarts(d, none) = <<0>>
  BY <1>1, <1>2 DEF RowStarts
<1>4. RowRanges(d, none) = [k \in 1..1 |-> <<0, 0>>]
  <2>1. DOMAIN first = 1..1 /\ Len(first) = 1 /\ \A k \in 1..1 : first[k] = 0 /\ ~(k < 1)
    OBVIOUS
  <2>2. RowRanges(d, none) = [k \in DOMAIN first |->
            <<first[k], IF k < Len(first) THEN first[k + 1] ELSE Len(none)>>]
    BY <1>3 DEF RowRanges
  <2> HIDE DEF first
  <2>3. QED
    BY <1>1, <2>1, <2>2
<1>5. line = none
  <2> DEFINE last == LineEnd(d, none, 0, 0)
             u == SubSeq(none, 0 + 1, last)
  <2>1. last \in 0..0
    <3>1. 0 \in 0..Len(none) /\ 0 \in 0..Len(none) /\ 0 \in Nat
      BY <1>1
    <3> HIDE DEF none
    <3>2. last \in 0..0
      BY <1>1, <3>1, LineEndIs
    <3>3. QED
      BY <3>2
  <2>2. last = 0
    BY <2>1
  <2> HIDE DEF none
  <2>3. u \in Seq(Byte) /\ Len(u) = 0 - 0
    BY <1>1, <2>2, PartOf
  <2>4. u = none
    BY <2>3, EmptySeq DEF none
  <2>5. line = u
    BY DEF PlannedLine
  <2>6. QED
    BY <2>4, <2>5
<1> HIDE DEF none
<1>6. read \in Rows /\ read.violation = NoViolation
  <2> DEFINE st == RowState(d, <<>>, none)[0]
             off == FALSE
  <2>1. read \in Rows
    <3> HIDE DEF line
    <3>1. QED
      BY <1>1, <1>5, ReadLineTyping
  <2>2. st = RowStart
    <3>1. <<>> \in Patterns
      BY DialectTyping
    <3> DEFINE nls == <<>>
    <3> HIDE DEF nls
    <3>2. nls \in Patterns => RowReads(d, nls, none)
      BY <1>1, RowStateIs
    <3>3. RowReads(d, <<>>, none)
      BY <3>1, <3>2 DEF nls
    <3>4. QED
      BY <1>1, <3>3 DEF RowReads
  <2>3. st.next = 0 /\ st.quote = NewQuote
    BY <2>2 DEF RowStart
  <2>4. read.violation = Finish(st.quote, Len(none))
    <3>1. read = ReadRow(d, <<>>, none)
      BY <1>5 DEF ReadLine
    <3> HIDE DEF read
    <3>2. QED
      BY <1>1, <2>3, <3>1 DEF ReadRow
  <2>5. QED
    BY <2>1, <2>3, <2>4 DEF Finish, NewQuote, FirstOf
<1> HIDE DEF line, read
<1>7. Shift(read, 0) \in Rows /\ Shift(read, 0).violation = NoViolation
  <2>1. Shift(read, 0) \in Rows
    BY <1>6, ShiftTyping
  <2>2. QED
    BY <1>6, <2>1 DEF Shift, Rebase
<1>8. lines = [k \in 1..1 |-> Shift(read, 0)]
  <2>1. ParsedLine(d, none, <<0, 0>>) = Shift(read, 0)
    BY DEF ParsedLine, read, line
  <2>2. QED
    BY <1>4, <2>1 DEF Lines
<1> HIDE DEF lines
<1>9. /\ lines \in Seq(Rows) /\ Len(lines) = 1
      /\ \A k \in 1..Len(lines) : lines[k].violation = NoViolation
  <2> DEFINE line1 == Shift(read, 0)
  <2> HIDE DEF line1
  <2>1. lines = [k \in 1..1 |-> line1] /\ line1 \in Rows /\ line1.violation = NoViolation
    BY <1>7, <1>8 DEF line1
  <2>2. lines \in [1..1 -> Rows]
    BY <2>1
  <2>3. lines \in Seq(Rows) /\ Len(lines) = 1
    BY <2>1, <2>2
  <2>4. QED
    BY <2>1, <2>3
<1>10. RowsViolation(lines) = NoViolation
  BY <1>9, CleanRows
<1>11. BatchViolation(d, none) = NoViolation
  <2>1. RowsFrom(d, none)[Len(none)] = <<>>
    BY <1>1, RowsFromIs DEF RowsRead
  <2>2. BatchRows(d, none) = <<>>
    BY <1>1, <2>1 DEF BatchRows
  <2>3. QED
    BY <2>2, NoRows DEF BatchViolation
<1>12. RowRanges(d, none) # <<>>
  <2>1. 1 \in DOMAIN RowRanges(d, none)
    BY <1>4
  <2>2. QED
    BY <2>1
<1>13. QED
  BY <1>9, <1>10, <1>11, <1>12 DEF none, lines

(* What the workers make of a text in a dialect whose patterns are apart:  *)
(* what the cursor makes of it, but for an empty text and one that ends    *)
(* inside quotes; and a violation exactly if there is one.                 *)
LEMMA WorkersAgree ==
    ASSUME NEW d \in Dialects, Apart(d), NEW text \in Seq(Byte)
    PROVE  LET all == BatchRows(d, text)
               lines == Lines(d, text)
           IN  /\ lines \in Seq(Rows) /\ RowRanges(d, text) # <<>>
               /\ text # <<>> /\ (\A k \in DOMAIN all : ~all[k].open) =>
                     /\ [k \in DOMAIN lines |-> lines[k].bounds] = [k \in DOMAIN all |-> all[k].bounds]
                     /\ RowsViolation(lines) = RowsViolation(all)
               /\ RowsViolation(lines) = NoViolation <=> RowsViolation(all) = NoViolation
<1> DEFINE all == BatchRows(d, text)
           lines == Lines(d, text)
<1>1. CASE text = <<>>
  BY <1>1, EmptyText DEF BatchViolation
<1>2. CASE text # <<>>
  <2>1. /\ all \in Seq(Rows) /\ lines \in Seq(Rows) /\ Len(lines) = Len(all)
        /\ Len(all) \in Nat /\ RowRanges(d, text) # <<>>
        /\ \A k \in 1..Len(all) :
              /\ ~all[k].open => /\ lines[k].bounds = all[k].bounds
                                 /\ lines[k].violation = all[k].violation
              /\ all[k].open => /\ lines[k].violation # NoViolation
                                /\ all[k].violation # NoViolation
    BY <1>2, AllWalked, RangesAgree
  <2> HIDE DEF all, lines
  <2>2. DOMAIN all = 1..Len(all) /\ DOMAIN lines = 1..Len(all)
    BY <2>1, LenProperties
  <2>3. ASSUME \A k \in DOMAIN all : ~all[k].open
        PROVE  /\ [k \in DOMAIN lines |-> lines[k].bounds] = [k \in DOMAIN all |-> all[k].bounds]
               /\ RowsViolation(lines) = RowsViolation(all)
    <3>1. \A k \in 1..Len(all) : lines[k].bounds = all[k].bounds /\ lines[k].violation = all[k].violation
      BY <2>1, <2>2, <2>3
    <3>2. RowsViolation(lines) = RowsViolation(all)
      BY <2>1, <3>1, SameViolations
    <3>3. QED
      BY <2>2, <3>1, <3>2
  <2>4. \A k \in 1..Len(all) :
           lines[k].violation = NoViolation <=> all[k].violation = NoViolation
    <3>1. ASSUME NEW k \in 1..Len(all)
          PROVE  lines[k].violation = NoViolation <=> all[k].violation = NoViolation
      BY <2>1, Zenon
    <3>2. QED
      BY <3>1
  <2>5. RowsViolation(lines) = NoViolation => RowsViolation(all) = NoViolation
    <3>1. HAVE RowsViolation(lines) = NoViolation
    <3>2. \A k \in 1..Len(all) : all[k].violation = NoViolation
      BY <2>1, <2>4, <3>1, NoneOfRows
    <3>3. QED
      BY <2>1, <3>2, CleanRows
  <2>6. RowsViolation(all) = NoViolation => RowsViolation(lines) = NoViolation
    <3>1. HAVE RowsViolation(all) = NoViolation
    <3>2. \A k \in 1..Len(lines) : lines[k].violation = NoViolation
      BY <2>1, <2>4, <3>1, NoneOfRows
    <3>3. QED
      BY <2>1, <3>2, CleanRows
  <2>7. QED
    BY <1>2, <2>1, <2>3, <2>5, <2>6, Zenon DEF all, lines
<1>3. QED
  BY <1>1, <1>2
-----------------------------------------------------------------------------
(* The invariant of a call.                                                *)

InputInv ==
    /\ dialect \in Dialects /\ input \in Texts /\ strict \in BOOLEAN
    /\ parser \in {"cursor", "parallel"} /\ answer \in {"none", "rows", "malformed_csv"}

(* What is returned are the fields of rows, and their first violation.     *)
Returns(given) ==
    /\ boundaries = [k \in DOMAIN given |-> given[k].bounds]
    /\ violation = RowsViolation(given)

(* The cursor has the rows before pos.                                     *)
CursorInv ==
    parser = "cursor" =>
        /\ pos \in 0..Len(input)
        /\ \E done : RowsTo(dialect, input, pos, done) /\ Returns(done)
        /\ answer # "none" => pos = Len(input)

(* The workers have made lines of some of the ranges.                      *)
WorkersInv ==
    parser = "parallel" =>
        /\ ranges \in {<<>>, RowRanges(dialect, input)} /\ DOMAIN parsed \subseteq DOMAIN ranges
        /\ \A i \in DOMAIN parsed : parsed[i] = ParsedLine(dialect, input, ranges[i])
        /\ answer # "none" => Returns(Lines(dialect, input))

AnswerInv ==
    answer # "none" => (answer = "malformed_csv" <=> strict /\ violation # NoViolation)

ParseInv == InputInv /\ CursorInv /\ WorkersInv /\ AnswerInv

(* It holds before the call.                                               *)
LEMMA InitParse == BatchInit => ParseInv
<1> SUFFICES ASSUME BatchInit PROVE ParseInv
  OBVIOUS
<1>1. /\ dialect \in Dialects /\ input \in Texts /\ parser \in {"cursor", "parallel"}
      /\ strict \in BOOLEAN /\ pos = 0 /\ ranges = <<>> /\ parsed = <<>>
      /\ boundaries = <<>> /\ violation = NoViolation /\ answer = "none"
  BY DEF BatchInit
<1>2. input \in Seq(Byte)
  BY <1>1, TextsAssumption
<1>3. CursorInv
  <2> DEFINE none == <<>>
  <2>1. RowsTo(dialect, input, pos, none)
    BY <1>1, <1>2, RowsToFirst
  <2>2. Returns(none)
    BY <1>1, NoRows DEF Returns
  <2>3. pos \in 0..Len(input)
    BY <1>1, <1>2, LenProperties
  <2> HIDE DEF none
  <2>4. QED
    BY <1>1, <2>1, <2>2, <2>3 DEF CursorInv
<1>4. WorkersInv
  <2>1. DOMAIN parsed = {}
    BY <1>1
  <2>2. QED
    BY <1>1, <2>1 DEF WorkersInv
<1>5. InputInv /\ AnswerInv
  BY <1>1 DEF InputInv, AnswerInv
<1>6. QED
  BY <1>3, <1>4, <1>5 DEF ParseInv

(* A row more of the cursor.                                               *)
LEMMA NextRowInv == ParseInv /\ NextRow => ParseInv'
<1> SUFFICES ASSUME ParseInv, NextRow PROVE ParseInv'
  OBVIOUS
<1> DEFINE row == RowAt(dialect, input, pos)
<1>1. /\ parser = "cursor" /\ answer = "none" /\ pos < Len(input)
      /\ boundaries' = Append(boundaries, row.bounds)
      /\ violation' = FirstOf(violation, row.violation) /\ pos' = row.next
      /\ dialect' = dialect /\ input' = input /\ parser' = parser /\ strict' = strict
      /\ ranges' = ranges /\ parsed' = parsed /\ answer' = answer
  BY DEF NextRow, call
<1>2. dialect \in Dialects /\ input \in Texts /\ strict \in BOOLEAN
  BY DEF ParseInv, InputInv
<1>3. input \in Seq(Byte)
  BY <1>2, TextsAssumption
<1>4. PICK done : RowsTo(dialect, input, pos, done) /\ Returns(done)
  BY <1>1 DEF ParseInv, CursorInv
<1>5. pos \in 0..Len(input) - 1
  <2>1. pos \in 0..Len(input) /\ Len(input) \in Nat
    BY <1>1, <1>3, LenProperties DEF ParseInv, CursorInv
  <2>2. QED
    BY <1>1, <2>1
<1> DEFINE more == Append(done, row)
<1>6. /\ row \in Rows /\ row.next \in pos + 1..Len(input)
      /\ RowsTo(dialect, input, row.next, more)
  BY <1>2, <1>3, <1>4, <1>5, RowsToNext
<1>7. done \in Seq(Rows) /\ boundaries = [k \in DOMAIN done |-> done[k].bounds]
      /\ violation = RowsViolation(done)
  BY <1>4 DEF RowsTo, Returns
<1>8. violation' = RowsViolation(more)
  <2> HIDE DEF row
  <2>1. QED
    BY <1>1, <1>6, <1>7, OneMoreRow
<1>9. boundaries' = [k \in DOMAIN more |-> more[k].bounds]
  <2> DEFINE B == Seq(Nat \X Nat)
  <2> HIDE DEF row
  <2>1. /\ more \in Seq(Rows) /\ Len(more) = Len(done) + 1 /\ more[Len(done) + 1] = row
        /\ \A k \in 1..Len(done) : more[k] = done[k]
    BY <1>6, <1>7, AppendProperties
  <2>2. /\ Len(done) \in Nat /\ DOMAIN done = 1..Len(done)
        /\ DOMAIN more = 1..Len(done) + 1
    BY <1>7, <2>1, LenProperties
  <2>3. /\ row.bounds \in B /\ \A k \in 1..Len(done) : done[k].bounds \in B
    <3>1. \A k \in 1..Len(done) : done[k] \in Rows
      BY <1>7, ElementOfSeq
    <3>2. QED
      BY <1>6, <3>1 DEF Rows
  <2> HIDE DEF more, B
  <2>4. boundaries \in [1..Len(done) -> B]
    BY <1>7, <2>2, <2>3
  <2>5. boundaries \in Seq(B) /\ Len(boundaries) = Len(done)
    BY <2>2, <2>4
  <2> DEFINE b == Append(boundaries, row.bounds)
  <2>6. /\ b \in Seq(B) /\ Len(b) = Len(done) + 1 /\ b[Len(done) + 1] = row.bounds
        /\ \A k \in 1..Len(done) : b[k] = boundaries[k]
    BY <2>3, <2>5, AppendProperties
  <2> HIDE DEF b
  <2>7. b \in [1..Len(done) + 1 -> B]
    BY <2>6, LenProperties
  <2>8. ASSUME NEW k \in 1..Len(done) + 1
        PROVE  b[k] = more[k].bounds
    <3>1. CASE k = Len(done) + 1
      BY <2>1, <2>6, <3>1
    <3>2. CASE k # Len(done) + 1
      <4>1. k \in 1..Len(done)
        BY <2>2, <3>2
      <4>2. b[k] = boundaries[k] /\ boundaries[k] = done[k].bounds /\ more[k] = done[k]
        BY <1>7, <2>1, <2>2, <2>6, <4>1
      <4>3. QED
        BY <4>2
    <3>3. QED
      BY <3>1, <3>2
  <2>9. b = [k \in 1..Len(done) + 1 |-> more[k].bounds]
    BY <2>7, <2>8
  <2>10. QED
    BY <1>1, <2>2, <2>9 DEF b
<1>10. pos' \in 0..Len(input)
  <2> DEFINE n == row.next
  <2>1. n \in pos + 1..Len(input) /\ Len(input) \in Nat /\ pos \in Nat
    BY <1>3, <1>5, <1>6, LenProperties
  <2> HIDE DEF n
  <2>2. n \in 0..Len(input)
    BY <2>1
  <2>3. QED
    BY <1>1, <2>2 DEF n
<1>11. CursorInv'
  <2>1. PICK longer : longer = more
    OBVIOUS
  <2> HIDE DEF more, row
  <2>2. Returns(longer)'
    BY <1>8, <1>9, <2>1 DEF Returns
  <2>3. RowsTo(dialect, input, pos, longer)'
    BY <1>1, <1>6, <2>1 DEF RowsTo
  <2>4. QED
    BY <1>1, <1>10, <2>2, <2>3 DEF CursorInv
<1>12. InputInv' /\ WorkersInv' /\ AnswerInv'
  <2>1. InputInv'
    BY <1>1 DEF ParseInv, InputInv
  <2>2. QED
    BY <1>1, <2>1 DEF WorkersInv, AnswerInv
<1>13. QED
  BY <1>11, <1>12 DEF ParseInv
(* What is answered is what came back.                                     *)
LEMMA AnswerGives ==
    ASSUME NEW given, NEW found, Answer(given, found), strict \in BOOLEAN, UNCHANGED strict
    PROVE  /\ boundaries' = given /\ violation' = found
           /\ answer' \in {"rows", "malformed_csv"} /\ AnswerInv'
<1>1. /\ boundaries' = given /\ violation' = found
      /\ answer' = IF strict /\ found # NoViolation THEN "malformed_csv" ELSE "rows"
  BY DEF Answer
<1>2. answer' \in {"rows", "malformed_csv"}
  BY <1>1
<1>3. AnswerInv'
  BY <1>1 DEF AnswerInv
<1>4. QED
  BY <1>1, <1>2, <1>3

(* The cursor is done.                                                     *)
LEMMA CursorAtEndInv == ParseInv /\ CursorAtEnd => ParseInv'
<1> SUFFICES ASSUME ParseInv, CursorAtEnd PROVE ParseInv'
  OBVIOUS
<1>1. /\ parser = "cursor" /\ pos = Len(input) /\ Answer(boundaries, violation)
      /\ dialect' = dialect /\ input' = input /\ parser' = parser /\ strict' = strict
      /\ pos' = pos /\ ranges' = ranges /\ parsed' = parsed
  BY DEF CursorAtEnd, call
<1>2. InputInv /\ strict \in BOOLEAN
  BY DEF ParseInv, InputInv
<1>3. /\ boundaries' = boundaries /\ violation' = violation
      /\ answer' \in {"rows", "malformed_csv"} /\ AnswerInv'
  BY <1>1, <1>2, AnswerGives
<1>4. pos \in 0..Len(input)
  BY <1>1 DEF ParseInv, CursorInv
<1>5. PICK done : RowsTo(dialect, input, pos, done) /\ Returns(done)
  BY <1>1 DEF ParseInv, CursorInv
<1>6. RowsTo(dialect, input, pos, done)' /\ Returns(done)'
  BY <1>1, <1>3, <1>5 DEF RowsTo, Returns
<1>7. CursorInv'
  BY <1>1, <1>4, <1>6 DEF CursorInv
<1>8. InputInv' /\ WorkersInv'
  BY <1>1, <1>2, <1>3 DEF InputInv, WorkersInv
<1>9. QED
  BY <1>3, <1>7, <1>8 DEF ParseInv

(* The ranges of the rows.                                                 *)
LEMMA PlanRowsInv == ParseInv /\ PlanRows => ParseInv'
<1> SUFFICES ASSUME ParseInv, PlanRows PROVE ParseInv'
  OBVIOUS
<1>1. /\ parser = "parallel" /\ answer = "none" /\ ranges = <<>>
      /\ ranges' = RowRanges(dialect, input)
      /\ dialect' = dialect /\ input' = input /\ parser' = parser /\ strict' = strict
      /\ pos' = pos /\ parsed' = parsed /\ answer' = answer
  BY DEF PlanRows, call
<1>2. DOMAIN parsed = {}
  <2>1. DOMAIN parsed \subseteq DOMAIN ranges
    BY <1>1 DEF ParseInv, WorkersInv
  <2>2. DOMAIN ranges = {}
    BY <1>1
  <2>3. QED
    BY <2>1, <2>2
<1>3. WorkersInv'
  BY <1>1, <1>2 DEF WorkersInv
<1>4. InputInv' /\ CursorInv' /\ AnswerInv'
  BY <1>1 DEF ParseInv, InputInv, CursorInv, AnswerInv
<1>5. QED
  BY <1>3, <1>4 DEF ParseInv

(* A line of a worker.                                                     *)
LEMMA ParseLineInv ==
    ASSUME NEW i \in DOMAIN ranges, ParseInv, ParseLine(i)
    PROVE  ParseInv'
<1>1. /\ parser = "parallel" /\ answer = "none"
      /\ parsed' = [k \in DOMAIN parsed \cup {i} |->
                       IF k = i THEN ParsedLine(dialect, input, ranges[i]) ELSE parsed[k]]
      /\ dialect' = dialect /\ input' = input /\ parser' = parser /\ strict' = strict
      /\ pos' = pos /\ ranges' = ranges /\ answer' = answer
  BY DEF ParseLine, call
<1>2. /\ ranges \in {<<>>, RowRanges(dialect, input)} /\ DOMAIN parsed \subseteq DOMAIN ranges
      /\ \A k \in DOMAIN parsed : parsed[k] = ParsedLine(dialect, input, ranges[k])
  BY <1>1 DEF ParseInv, WorkersInv
<1>3. DOMAIN parsed' = DOMAIN parsed \cup {i}
  BY <1>1
<1>4. ASSUME NEW k \in DOMAIN parsed'
      PROVE  parsed'[k] = ParsedLine(dialect, input, ranges[k])
  <2>1. CASE k = i
    BY <1>1, <1>3, <2>1
  <2>2. CASE k # i
    BY <1>1, <1>2, <1>3, <2>2
  <2>3. QED
    BY <2>1, <2>2
<1>5. WorkersInv'
  BY <1>1, <1>2, <1>3, <1>4 DEF WorkersInv
<1>6. InputInv' /\ CursorInv' /\ AnswerInv'
  BY <1>1 DEF ParseInv, InputInv, CursorInv, AnswerInv
<1>7. QED
  BY <1>5, <1>6 DEF ParseInv

(* The lines of all workers.                                               *)
LEMMA CollectInv == ParseInv /\ Collect => ParseInv'
<1> SUFFICES ASSUME ParseInv, Collect PROVE ParseInv'
  OBVIOUS
<1>1. /\ parser = "parallel" /\ ranges # <<>> /\ DOMAIN parsed = DOMAIN ranges
      /\ Answer([k \in DOMAIN ranges |-> parsed[k].bounds], CollectedViolation)
      /\ dialect' = dialect /\ input' = input /\ parser' = parser /\ strict' = strict
      /\ pos' = pos /\ ranges' = ranges /\ parsed' = parsed
  BY DEF Collect, call
<1>2. InputInv /\ strict \in BOOLEAN
  BY DEF ParseInv, InputInv
<1>3. /\ boundaries' = [k \in DOMAIN ranges |-> parsed[k].bounds]
      /\ violation' = CollectedViolation
      /\ answer' \in {"rows", "malformed_csv"} /\ AnswerInv'
  BY <1>1, <1>2, AnswerGives
<1>4. /\ ranges = RowRanges(dialect, input)
      /\ \A k \in DOMAIN ranges : parsed[k] = ParsedLine(dialect, input, ranges[k])
  BY <1>1 DEF ParseInv, WorkersInv
<1>5. PICK lines : lines = Lines(dialect, input)
  OBVIOUS
<1>6. lines = [k \in DOMAIN ranges |-> parsed[k]]
  BY <1>4, <1>5 DEF Lines
<1>7. /\ boundaries' = [k \in DOMAIN lines |-> lines[k].bounds]
      /\ violation' = RowsViolation(lines)
  BY <1>3, <1>6 DEF CollectedViolation
<1>8. Returns(lines)' /\ lines = Lines(dialect, input)'
  BY <1>1, <1>5, <1>7 DEF Returns
<1>9. WorkersInv'
  <2>1. Returns(Lines(dialect, input))'
    BY <1>8
  <2>2. ranges' = RowRanges(dialect', input') /\ DOMAIN parsed' \subseteq DOMAIN ranges'
    BY <1>1, <1>4
  <2>3. \A k \in DOMAIN parsed' : parsed'[k] = ParsedLine(dialect', input', ranges'[k])
    BY <1>1, <1>4
  <2>4. QED
    BY <2>1, <2>2, <2>3 DEF WorkersInv
<1>10. InputInv' /\ CursorInv'
  BY <1>1, <1>2, <1>3 DEF InputInv, CursorInv
<1>11. QED
  BY <1>3, <1>9, <1>10 DEF ParseInv

(* Every step keeps it.                                                    *)
LEMMA StepInv == ParseInv /\ [BatchNext]_batch => ParseInv'
<1> SUFFICES ASSUME ParseInv, [BatchNext]_batch PROVE ParseInv'
  OBVIOUS
<1>1. CASE UNCHANGED batch
  <2>1. /\ dialect' = dialect /\ input' = input /\ parser' = parser /\ strict' = strict
        /\ pos' = pos /\ ranges' = ranges /\ parsed' = parsed /\ boundaries' = boundaries
        /\ violation' = violation /\ answer' = answer
    BY <1>1 DEF batch, call
  <2>2. QED
    BY <2>1 DEF ParseInv, InputInv, CursorInv, WorkersInv, AnswerInv, Returns, RowsTo
<1>2. CASE NextRow
  BY <1>2, NextRowInv
<1>3. CASE CursorAtEnd
  BY <1>3, CursorAtEndInv
<1>4. CASE PlanRows
  BY <1>4, PlanRowsInv
<1>5. CASE Collect
  BY <1>5, CollectInv
<1>6. CASE \E i \in DOMAIN ranges : ParseLine(i)
  <2>1. PICK i \in DOMAIN ranges : ParseLine(i)
    BY <1>6
  <2>2. QED
    BY <2>1, ParseLineInv
<1>7. CASE Answered
  BY <1>1, <1>7 DEF Answered
<1>8. QED
  BY <1>1, <1>2, <1>3, <1>4, <1>5, <1>6, <1>7 DEF BatchNext

(* So it holds throughout a call.                                          *)
LEMMA ParseInvariant == BatchSpec => []ParseInv
<1>1. QED
  BY InitParse, StepInv, PTL DEF BatchSpec

-----------------------------------------------------------------------------
(* What is returned has the values of the rows of the text.                *)
LEMMA ValuesOf ==
    ASSUME NEW all, all = BatchRows(dialect, input),
           boundaries = [k \in DOMAIN all |-> all[k].bounds]
    PROVE  Values = BatchValues(dialect, input)
<1>1. BatchValues(dialect, input)
        = [k \in DOMAIN all |-> [j \in DOMAIN all[k].bounds |->
              FieldValue(dialect, input, all[k].bounds[j])]]
  BY DEF BatchValues, RowValues
<1>2. DOMAIN boundaries = DOMAIN all /\ \A k \in DOMAIN all : boundaries[k] = all[k].bounds
  OBVIOUS
<1>3. QED
  BY <1>1, <1>2 DEF Values

(* The cursor has answered with all the rows.                              *)
LEMMA CursorAnswers ==
    ASSUME ParseInv, parser = "cursor", answer # "none"
    PROVE  Returns(BatchRows(dialect, input))
<1>1. dialect \in Dialects /\ input \in Seq(Byte)
  BY TextsAssumption DEF ParseInv, InputInv
<1>2. PICK done : RowsTo(dialect, input, pos, done) /\ Returns(done) /\ pos = Len(input)
  BY DEF ParseInv, CursorInv
<1>3. BatchRows(dialect, input) = done
  BY <1>1, <1>2, RowsToLast
<1>4. QED
  BY <1>2, <1>3

(* The workers have answered, in a dialect whose patterns are apart.       *)
LEMMA WorkersAnswer ==
    ASSUME ParseInv, parser = "parallel", answer # "none", Apart(dialect),
           NEW all, all = BatchRows(dialect, input)
    PROVE  /\ input # <<>> /\ ~EndsInQuotes => Returns(all)
           /\ violation = NoViolation <=> RowsViolation(all) = NoViolation
<1>1. dialect \in Dialects /\ input \in Seq(Byte)
  BY TextsAssumption DEF ParseInv, InputInv
<1>2. PICK lines : lines = Lines(dialect, input)
  OBVIOUS
<1>3. boundaries = [k \in DOMAIN lines |-> lines[k].bounds] /\ violation = RowsViolation(lines)
  BY <1>2 DEF ParseInv, WorkersInv, Returns
<1>4. /\ input # <<>> /\ (\A k \in DOMAIN all : ~all[k].open) =>
            /\ [k \in DOMAIN lines |-> lines[k].bounds] = [k \in DOMAIN all |-> all[k].bounds]
            /\ RowsViolation(lines) = RowsViolation(all)
      /\ RowsViolation(lines) = NoViolation <=> RowsViolation(all) = NoViolation
  BY <1>1, <1>2, WorkersAgree
<1>5. ~EndsInQuotes => \A k \in DOMAIN all : ~all[k].open
  BY DEF EndsInQuotes
<1>6. input # <<>> /\ ~EndsInQuotes => Returns(all)
  BY <1>3, <1>4, <1>5 DEF Returns
<1>7. QED
  BY <1>3, <1>4, <1>6

(* In a dialect whose patterns are apart, or row after row, a batch parse  *)
(* returns the values and the violation of the rows of the text, unless it *)
(* is empty or ends inside quotes: parse_csv_boundaries_general and        *)
(* parse_csv_parallel_boundaries_general with their scanned_rows.          *)
THEOREM BatchAgrees ==
    BatchSpec => []((parser = "cursor" \/ Apart(dialect)) => StrategiesAgreeOnTerminated)
<1>1. ASSUME ParseInv, parser = "cursor" \/ Apart(dialect)
      PROVE  StrategiesAgreeOnTerminated
  <2> SUFFICES ASSUME answer # "none", input # <<>>, ~EndsInQuotes
               PROVE  /\ Values = BatchValues(dialect, input)
                      /\ violation = BatchViolation(dialect, input)
    BY DEF StrategiesAgreeOnTerminated
  <2>1. parser \in {"cursor", "parallel"}
    BY <1>1 DEF ParseInv, InputInv
  <2>2. PICK all : all = BatchRows(dialect, input)
    OBVIOUS
  <2>3. Returns(all)
    BY <1>1, <2>1, <2>2, CursorAnswers, WorkersAnswer
  <2>4. Values = BatchValues(dialect, input)
    BY <2>2, <2>3, ValuesOf DEF Returns
  <2>5. QED
    BY <2>2, <2>3, <2>4 DEF Returns, BatchViolation
<1>2. ParseInv => ((parser = "cursor" \/ Apart(dialect)) => StrategiesAgreeOnTerminated)
  BY <1>1
<1>3. QED
  BY <1>2, ParseInvariant, PTL

(* And, whatever the text, a strict caller is refused exactly if some row  *)
(* of the text is malformed.                                               *)
THEOREM BatchRefuses ==
    BatchSpec => []((parser = "cursor" \/ Apart(dialect)) => StrategiesRefuseAlike)
<1>1. ASSUME ParseInv, parser = "cursor" \/ Apart(dialect)
      PROVE  StrategiesRefuseAlike
  <2> SUFFICES ASSUME answer # "none"
               PROVE  answer = "malformed_csv" <=>
                         strict /\ BatchViolation(dialect, input) # NoViolation
    BY DEF StrategiesRefuseAlike
  <2>1. parser \in {"cursor", "parallel"}
    BY <1>1 DEF ParseInv, InputInv
  <2>2. PICK all : all = BatchRows(dialect, input)
    OBVIOUS
  <2>3. violation = NoViolation <=> RowsViolation(all) = NoViolation
    <3>1. CASE parser = "cursor"
      BY <1>1, <2>2, <3>1, CursorAnswers DEF Returns
    <3>2. CASE parser = "parallel"
      BY <1>1, <2>2, <3>2, WorkersAnswer
    <3>3. QED
      BY <2>1, <3>1, <3>2
  <2>4. answer = "malformed_csv" <=> strict /\ violation # NoViolation
    BY <1>1 DEF ParseInv, AnswerInv
  <2>5. QED
    BY <2>2, <2>3, <2>4, Zenon DEF BatchViolation
<1>2. ParseInv => ((parser = "cursor" \/ Apart(dialect)) => StrategiesRefuseAlike)
  BY <1>1
<1>3. QED
  BY <1>2, ParseInvariant, PTL

-----------------------------------------------------------------------------
(* The dump: fields and rows.                                              *)

LEMMA TextOfField ==
    ASSUME NEW f \in Field
    PROVE  /\ Text(f) \in Seq(Byte) /\ Text(f) \in Field /\ Text(f) \notin Terms
           /\ Text(Text(f)) = Text(f)
           /\ f \notin Terms => Text(f) = f
BY DumpAssumption DEF Text, Field

(* Two rows whose fields have the same text. *)
SameText(a, b) == Len(a) = Len(b) /\ \A j \in 1..Len(a) : Text(a[j]) = Text(b[j])

LEMMA SameTextFits ==
    ASSUME NEW a \in Seq(Field), NEW b \in Seq(Field), SameText(a, b), NEW o
    PROVE  RowFits(o, a) <=> RowFits(o, b)
<1>1. DOMAIN a = 1..Len(a) /\ DOMAIN b = 1..Len(a)
  BY DEF SameText
<1>2. QED
  BY <1>1, Zenon DEF RowFits, SameText

LEMMA FaultOfRow ==
    ASSUME NEW o, NEW row \in Seq(Field)
    PROVE  /\ RowFault(o, row) \in {"none", "non_binary_field", "encoding_error"}
           /\ RowFault(o, row) = "none" => RowFits(o, row)
           /\ RowFault(o, row) = "non_binary_field" => NotBinary(row) # {}
           /\ RowFault(o, row) = "encoding_error" => ~RowFits(o, row)
<1> DEFINE bad == {i \in DOMAIN row : row[i] \in Terms \/ ~Mappable(o, FieldText(o, row[i]))}
<1>1. RowFault(o, row) = IF bad = {} THEN "none"
                         ELSE IF row[Min(bad)] \in Terms THEN "non_binary_field"
                         ELSE "encoding_error"
  BY Zenon DEF RowFault
<1>2. \A i \in DOMAIN row : row[i] \in Field
  OBVIOUS
<1>3. CASE bad = {}
  <2>1. \A i \in DOMAIN row : row[i] \notin Terms /\ Mappable(o, FieldText(o, row[i]))
    BY <1>3, Zenon
  <2>2. \A i \in DOMAIN row : Text(row[i]) = row[i]
    BY <2>1, <1>2, TextOfField, Zenon
  <2>3. RowFits(o, row)
    BY <2>1, <2>2, Zenon DEF RowFits
  <2>4. QED
    BY <1>1, <1>3, <2>3
<1>4. CASE bad # {}
  <2>1. bad \in SUBSET Nat
    OBVIOUS
  <2>2. Min(bad) \in bad
    BY <2>1, <1>4, LeastOf, Zenon
  <2> HIDE DEF bad
  <2>3. Min(bad) \in DOMAIN row
    BY <2>2, Zenon DEF bad
  <2>4. CASE row[Min(bad)] \in Terms
    <3>1. NotBinary(row) # {}
      BY <2>3, <2>4, Zenon DEF NotBinary
    <3>2. QED
      BY <1>1, <1>4, <2>4, <3>1
  <2>5. CASE row[Min(bad)] \notin Terms
    <3>1. ~Mappable(o, FieldText(o, row[Min(bad)]))
      BY <2>2, <2>5, Zenon DEF bad
    <3>2. Text(row[Min(bad)]) = row[Min(bad)]
      BY <2>3, <2>5, <1>2, TextOfField, Zenon
    <3>3. ~RowFits(o, row)
      BY <2>3, <3>1, <3>2, Zenon DEF RowFits
    <3>4. QED
      BY <1>1, <1>4, <2>5, <3>3
  <2>6. QED
    BY <2>4, <2>5
<1>5. QED
  BY <1>3, <1>4

(* A row of binaries fits if what the workers look at does. *)
LEMMA BinaryRowFits ==
    ASSUME NEW o, NEW row \in Seq(Field), NotBinary(row) = {}
    PROVE  RowMappable(o, row) <=> RowFits(o, row)
<1>1. \A i \in DOMAIN row : row[i] \in Field /\ row[i] \notin Terms
  BY DEF NotBinary
<1>2. \A i \in DOMAIN row : Text(row[i]) = row[i]
  BY <1>1, TextOfField, Zenon
<1>3. QED
  BY <1>2, Zenon DEF RowMappable, RowFits
-----------------------------------------------------------------------------
(* The inductive invariant. *)

RowTexts == {RowText(o, row) : o \in Options, row \in Seq(Field)}

InCall == phase \in {"called", "encoding", "pool", "returned"}

(* What the rows of a call are, before coercion. *)
Source == IF strategy = "stream" THEN <<table[Len(output) + 1]>> ELSE table

TypeInv ==
    /\ options \in Options /\ table \in Seq(Seq(Field))
    /\ strategy \in {"serial", "parallel", "stream"}
    /\ rows \in Seq(Seq(Field))
    /\ phase \in {"ready", "called", "encoding", "pool", "returned"}
    /\ encoded \in [DOMAIN encoded -> RowTexts]
    /\ strategy # "parallel" => encoded \in Seq(RowTexts)
    /\ result \in {"none", "rows", "non_binary_field", "encoding_error", "badarg"}
    /\ output \in Seq(RowTexts)
    /\ reply \in {"none", "done", "raised", "badarg"}
    /\ calls \in 0..2

(* A call encodes the texts of its source; a second call, binaries only. *)
CallInv ==
    InCall =>
        /\ reply = "none" /\ calls \in {1, 2}
        /\ strategy = "stream" => Len(output) < Len(table)
        /\ strategy # "stream" => output = <<>>
        /\ Len(rows) = Len(Source)
        /\ \A k \in 1..Len(rows) : SameText(rows[k], Source[k])
        /\ calls = 2 => \A k \in 1..Len(rows) : NotBinary(rows[k]) = {}

(* The worker threads of an earlier call have left nothing. *)
FreshInv ==
    /\ strategy # "parallel" => failed = {}
    /\ reply = "none" /\ phase \in {"ready", "called"} => failed = {}
    /\ phase = "returned" /\ result # "encoding_error" => failed = {}
    /\ phase = "called" => encoded = <<>>
    /\ reply # "none" => phase = "ready"

WalkInv ==
    phase = "encoding" =>
        /\ strategy # "parallel" /\ SeparatorsMappable(options)
        /\ Len(encoded) <= Len(rows)
        /\ \A k \in 1..Len(encoded) : RowFits(options, rows[k])

PoolInv ==
    phase = "pool" =>
        /\ strategy = "parallel" /\ SeparatorsMappable(options)
        /\ \A k \in 1..Len(rows) : NotBinary(rows[k]) = {}
        /\ DOMAIN encoded \subseteq 1..Len(rows) /\ failed \subseteq 1..Len(rows)
        /\ \A k \in DOMAIN encoded : RowFits(options, rows[k])
        /\ \A k \in failed : ~RowFits(options, rows[k])

ResultInv ==
    phase = "returned" =>
        /\ result # "none"
        /\ result = "rows" =>
               /\ DOMAIN encoded = 1..Len(rows)
               /\ \A k \in 1..Len(rows) : RowFits(options, rows[k])
               /\ rows # <<>> => SeparatorsMappable(options)
        /\ result = "encoding_error" =>
               \/ ~SeparatorsMappable(options)
               \/ \E k \in 1..Len(rows) : ~RowFits(options, rows[k])
        /\ result = "non_binary_field" => \E k \in 1..Len(rows) : NotBinary(rows[k]) # {}
        /\ result = "badarg" => strategy = "parallel" /\ ~SingleByteDialect(options)

(* What has been put out had a text; how a dump ends says whether all has. *)
OutputInv ==
    /\ strategy # "stream" /\ reply = "none" => output = <<>>
    /\ Len(output) <= Len(table)
    /\ \A k \in 1..Len(output) : RowFits(options, table[k])
    /\ output # <<>> => SeparatorsMappable(options)
    /\ reply = "done" => Len(output) = Len(table)
    /\ reply = "raised" =>
           \/ ~SeparatorsMappable(options)
           \/ \E k \in 1..Len(table) : ~RowFits(options, table[k])
    /\ reply = "badarg" => strategy = "parallel" /\ ~SingleByteDialect(options)

IInv ==
    /\ TypeInv /\ CallInv /\ FreshInv
    /\ WalkInv /\ PoolInv /\ ResultInv /\ OutputInv

USE DEF dump

LEMMA InitInv == Init => IInv
<1> SUFFICES ASSUME Init PROVE IInv
  OBVIOUS
<1> USE DEF Init
<1>1. TypeInv
  BY DumpAssumption, EmptySeq DEF TypeInv
<1>2. CallInv /\ FreshInv /\ WalkInv /\ PoolInv /\ ResultInv
  BY DEF CallInv, FreshInv, WalkInv, PoolInv, ResultInv, InCall
<1>3. OutputInv
  BY DumpAssumption DEF OutputInv
<1>4. QED
  BY <1>1, <1>2, <1>3 DEF IInv

LEMMA BeginRowsInv == IInv /\ BeginRows => IInv'
<1> SUFFICES ASSUME IInv, BeginRows PROVE IInv'
  OBVIOUS
<1> USE DEF IInv, BeginRows, Return
<1>1. TypeInv'
  BY DEF TypeInv
<1>2. CallInv'
  BY DEF CallInv, InCall, Source
<1>3. FreshInv' /\ PoolInv' /\ OutputInv'
  BY DEF FreshInv, PoolInv, OutputInv
<1>4. WalkInv'
  BY DEF WalkInv, FreshInv, TypeInv
<1>5. ResultInv'
  BY DEF ResultInv
<1>6. QED
  BY <1>1, <1>2, <1>3, <1>4, <1>5

LEMMA TextOfRow ==
    ASSUME NEW o \in Options, NEW row \in Seq(Field)
    PROVE  RowText(o, row) \in RowTexts
BY DEF RowTexts

LEMMA EncodeRowInv == IInv /\ EncodeRow => IInv'
<1> SUFFICES ASSUME IInv, EncodeRow PROVE IInv'
  OBVIOUS
<1> USE DEF IInv, EncodeRow
<1> DEFINE row == rows[Len(encoded) + 1]
<1>1. /\ strategy # "parallel" /\ encoded \in Seq(RowTexts) /\ SeparatorsMappable(options)
      /\ Len(encoded) + 1 \in 1..Len(rows) /\ failed = {} /\ rows \in Seq(Seq(Field))
      /\ \A k \in 1..Len(encoded) : RowFits(options, rows[k])
  BY DEF TypeInv, WalkInv, FreshInv
<1>2. row \in Seq(Field) /\ RowText(options, row) \in RowTexts
  <2>1. row \in Seq(Field) /\ options \in Options
    BY <1>1 DEF TypeInv
  <2>2. QED
    BY <2>1, TextOfRow, Zenon
<1>3. CallInv' /\ OutputInv' /\ PoolInv'
  BY <1>1 DEF CallInv, OutputInv, PoolInv, InCall, Source, Return
<1>4. CASE RowFault(options, row) = "none"
  <2>1. encoded' = Append(encoded, RowText(options, row)) /\ UNCHANGED <<phase, result>>
    BY <1>4
  <2>2. encoded' \in Seq(RowTexts) /\ Len(encoded') = Len(encoded) + 1
    BY <2>1, <1>1, <1>2
  <2>3. encoded' \in [DOMAIN encoded' -> RowTexts]
    BY <2>2
  <2>4. RowFits(options, row)
    BY <1>2, <1>4, FaultOfRow
  <2>5. TypeInv'
    BY <2>1, <2>2, <2>3, <1>1 DEF TypeInv
  <2>6. FreshInv' /\ ResultInv'
    BY <1>1, <2>1 DEF FreshInv, ResultInv
  <2>7. \A k \in 1..Len(encoded') : RowFits(options, rows[k])
    BY <1>1, <2>2, <2>4
  <2>8. WalkInv'
    BY <1>1, <2>1, <2>2, <2>7 DEF WalkInv
  <2>9. QED
    BY <1>3, <2>5, <2>6, <2>8
<1>5. CASE RowFault(options, row) # "none"
  <2>1. /\ phase' = "returned" /\ result' = RowFault(options, row) /\ encoded' = encoded
        /\ result' \in {"non_binary_field", "encoding_error"}
    BY <1>5, <1>2, FaultOfRow DEF Return
  <2>2. TypeInv'
    BY <2>1 DEF TypeInv
  <2>3. FreshInv' /\ WalkInv'
    BY <1>1, <2>1 DEF FreshInv, WalkInv, CallInv, InCall
  <2>4. ResultInv'
    BY <1>1, <1>2, <2>1, FaultOfRow DEF ResultInv
  <2>5. QED
    BY <1>3, <2>2, <2>3, <2>4
<1>6. QED
  BY <1>4, <1>5

LEMMA EndOfRowsInv == IInv /\ EndOfRows => IInv'
<1> SUFFICES ASSUME IInv, EndOfRows PROVE IInv'
  OBVIOUS
<1> USE DEF IInv, EndOfRows, Return
<1>1. TypeInv'
  BY DEF TypeInv
<1>2. CallInv' /\ OutputInv' /\ PoolInv' /\ WalkInv'
  BY DEF CallInv, OutputInv, PoolInv, WalkInv, InCall, Source
<1>3. FreshInv'
  BY DEF FreshInv, WalkInv, CallInv, InCall
<1>4. ResultInv'
  BY DEF ResultInv, WalkInv, TypeInv
<1>5. QED
  BY <1>1, <1>2, <1>3, <1>4

LEMMA CollectFieldsInv == IInv /\ CollectFields => IInv'
<1> SUFFICES ASSUME IInv, CollectFields PROVE IInv'
  OBVIOUS
<1> USE DEF IInv, CollectFields
<1>1. /\ encoded' = encoded /\ encoded = <<>> /\ failed' = failed /\ failed = {}
      /\ strategy = "parallel" /\ phase = "called" /\ rows' = rows /\ rows \in Seq(Seq(Field))
      /\ calls' = calls /\ output' = output /\ reply' = reply /\ UNCHANGED dump
      /\ reply = "none"
  BY DEF FreshInv, CallInv, InCall, TypeInv
<1>2. \/ phase' = "returned" /\ result' = "badarg" /\ ~SingleByteDialect(options)
      \/ /\ phase' = "returned" /\ result' = "non_binary_field"
         /\ \E k \in 1..Len(rows) : NotBinary(rows[k]) # {}
      \/ phase' = "returned" /\ result' = "rows" /\ rows = <<>>
      \/ phase' = "returned" /\ result' = "encoding_error" /\ ~SeparatorsMappable(options)
      \/ /\ phase' = "pool" /\ UNCHANGED result /\ SeparatorsMappable(options)
         /\ \A k \in 1..Len(rows) : NotBinary(rows[k]) = {}
  <2>1. DOMAIN rows = 1..Len(rows)
    BY <1>1
  <2>2. QED
    BY <2>1 DEF Return
<1>3. TypeInv'
  BY <1>1, <1>2 DEF TypeInv
<1>4. CallInv' /\ OutputInv' /\ FreshInv' /\ WalkInv'
  BY <1>1, <1>2 DEF CallInv, OutputInv, FreshInv, WalkInv, InCall, Source
<1>5. DOMAIN encoded = {}
  BY <1>1
<1>6. PoolInv'
  BY <1>1, <1>2, <1>5 DEF PoolInv
<1>7. ResultInv'
  <2>1. rows = <<>> => DOMAIN encoded = 1..Len(rows) /\ 1..Len(rows) = {}
    BY <1>1, <1>5
  <2>2. CASE phase' = "returned" /\ result' = "rows"
    <3>1. rows = <<>>
      BY <1>2, <2>2
    <3>2. QED
      BY <1>1, <2>1, <2>2, <3>1 DEF ResultInv
  <2>3. CASE ~(phase' = "returned" /\ result' = "rows")
    BY <1>1, <1>2, <2>3 DEF ResultInv
  <2>4. QED
    BY <2>2, <2>3
<1>8. QED
  BY <1>3, <1>4, <1>6, <1>7

LEMMA EncodeInPoolInv ==
    ASSUME IInv, NEW i \in DOMAIN rows, EncodeInPool(i)
    PROVE  IInv'
<1> USE DEF IInv, EncodeInPool
<1>1. /\ phase = "pool" /\ i \notin failed
      /\ UNCHANGED <<dump, rows, phase, result, output, reply, calls>>
  OBVIOUS
<1>2. rows \in Seq(Seq(Field)) /\ options \in Options
  BY DEF TypeInv
<1>3. i \in 1..Len(rows) /\ rows[i] \in Seq(Field)
  BY <1>2
<1>4. strategy = "parallel" /\ NotBinary(rows[i]) = {}
  BY <1>1, <1>3 DEF PoolInv
<1>5. RowMappable(options, rows[i]) <=> RowFits(options, rows[i])
  BY <1>3, <1>4, BinaryRowFits
<1>6. RowText(options, rows[i]) \in RowTexts
  BY <1>2, <1>3, TextOfRow
<1>7. CallInv' /\ OutputInv' /\ FreshInv' /\ WalkInv' /\ ResultInv'
  BY <1>1, <1>4 DEF CallInv, OutputInv, FreshInv, WalkInv, ResultInv, InCall, Source
<1>8. CASE RowMappable(options, rows[i])
  <2>1. /\ failed' = failed
        /\ encoded' = [k \in DOMAIN encoded \cup {i} |->
                          IF k = i THEN RowText(options, rows[i]) ELSE encoded[k]]
    BY <1>8
  <2>2. DOMAIN encoded' = DOMAIN encoded \cup {i}
    BY <2>1
  <2>3. encoded' \in [DOMAIN encoded' -> RowTexts]
    BY <2>1, <2>2, <1>6 DEF TypeInv
  <2>4. TypeInv'
    BY <1>1, <1>4, <2>1, <2>3 DEF TypeInv
  <2>5. PoolInv'
    BY <1>1, <1>5, <1>8, <1>3, <2>1, <2>2 DEF PoolInv
  <2>6. QED
    BY <1>7, <2>4, <2>5
<1>9. CASE ~RowMappable(options, rows[i])
  <2>1. failed' = failed \cup {i} /\ encoded' = encoded
    BY <1>9
  <2>2. TypeInv'
    BY <1>1, <2>1 DEF TypeInv
  <2>3. PoolInv'
    BY <1>1, <1>5, <1>9, <1>3, <2>1 DEF PoolInv
  <2>4. QED
    BY <1>7, <2>2, <2>3
<1>10. QED
  BY <1>8, <1>9

LEMMA JoinPoolInv == IInv /\ JoinPool => IInv'
<1> SUFFICES ASSUME IInv, JoinPool PROVE IInv'
  OBVIOUS
<1> USE DEF IInv, JoinPool, Return
<1>1. TypeInv'
  BY DEF TypeInv
<1>2. CallInv' /\ OutputInv' /\ PoolInv' /\ WalkInv'
  BY DEF CallInv, OutputInv, PoolInv, WalkInv, InCall, Source
<1>3. FreshInv'
  BY DEF FreshInv, PoolInv, CallInv, InCall
<1>4. ResultInv'
  BY DEF ResultInv, PoolInv, TypeInv
<1>5. QED
  BY <1>1, <1>2, <1>3, <1>4

(* What a call is given has a text where what it encodes has. *)
LEMMA SourceFits ==
    ASSUME TypeInv, CallInv, InCall
    PROVE  /\ Source \in Seq(Seq(Field)) /\ DOMAIN Source = 1..Len(rows)
           /\ \A k \in 1..Len(rows) : RowFits(options, rows[k]) <=> RowFits(options, Source[k])
<1>1. Source \in Seq(Seq(Field)) /\ Len(rows) = Len(Source)
  <2>1. output \in Seq(RowTexts) /\ table \in Seq(Seq(Field))
    BY DEF TypeInv
  <2>2. CASE strategy = "stream"
    <3>1. Len(output) + 1 \in 1..Len(table)
      BY <2>1, <2>2 DEF CallInv
    <3>2. QED
      BY <2>1, <2>2, <3>1 DEF Source, CallInv
  <2>3. CASE strategy # "stream"
    BY <2>1, <2>3 DEF Source, CallInv
  <2>4. QED
    BY <2>2, <2>3
<1>2. rows \in Seq(Seq(Field))
  BY DEF TypeInv
<1>3. ASSUME NEW k \in 1..Len(rows)
      PROVE  RowFits(options, rows[k]) <=> RowFits(options, Source[k])
  <2>1. rows[k] \in Seq(Field) /\ Source[k] \in Seq(Field)
    BY <1>1, <1>2
  <2>2. SameText(rows[k], Source[k])
    BY DEF CallInv
  <2>3. QED
    BY <2>1, <2>2, SameTextFits
<1>4. QED
  BY <1>1, <1>3

LEMMA CallNifInv == IInv /\ CallNif => IInv'
<1> SUFFICES ASSUME IInv, CallNif PROVE IInv'
  OBVIOUS
<1> USE DEF IInv, CallNif
<1>1. /\ rows' = Source /\ Source' = Source /\ calls' = 1 /\ phase' = "called"
      /\ encoded' = <<>> /\ UNCHANGED <<dump, failed, result, output, reply>>
      /\ reply = "none" /\ phase = "ready"
  BY DEF Source
<1>2. Source \in Seq(Seq(Field))
  BY DEF Source, TypeInv
<1>3. TypeInv'
  BY <1>1, <1>2 DEF TypeInv
<1>4. CallInv'
  <2>1. \A k \in 1..Len(rows') : SameText(rows'[k], Source'[k])
    BY <1>1 DEF SameText
  <2>2. QED
    BY <1>1, <2>1 DEF CallInv, OutputInv
<1>5. FreshInv' /\ OutputInv' /\ WalkInv' /\ PoolInv' /\ ResultInv'
  BY <1>1 DEF FreshInv, OutputInv, WalkInv, PoolInv, ResultInv
<1>6. QED
  BY <1>3, <1>4, <1>5

LEMMA RetryCoercedInv == IInv /\ RetryCoerced => IInv'
<1> SUFFICES ASSUME IInv, RetryCoerced PROVE IInv'
  OBVIOUS
<1> USE DEF IInv, RetryCoerced
<1>1. /\ rows' = CoerceFields /\ calls' = calls + 1 /\ phase' = "called" /\ encoded' = <<>>
      /\ UNCHANGED <<dump, failed, output, reply>> /\ result' = "none" /\ phase = "returned"
      /\ Source' = Source /\ rows \in Seq(Seq(Field))
  BY DEF Source, TypeInv
<1>2. rows' = [k \in 1..Len(rows) |-> [j \in 1..Len(rows[k]) |-> Text(rows[k][j])]]
  <2>1. DOMAIN rows = 1..Len(rows) /\ \A k \in 1..Len(rows) : DOMAIN rows[k] = 1..Len(rows[k])
    BY <1>1
  <2>2. QED
    BY <1>1, <2>1, Zenon DEF CoerceFields, Text
<1>3. ASSUME NEW k \in 1..Len(rows)
      PROVE  /\ rows'[k] \in Seq(Field) /\ Len(rows'[k]) = Len(rows[k])
             /\ NotBinary(rows'[k]) = {} /\ SameText(rows'[k], Source[k])
  <2>1. rows[k] \in Seq(Field) /\ rows'[k] = [j \in 1..Len(rows[k]) |-> Text(rows[k][j])]
    BY <1>1, <1>2
  <2>2. \A j \in 1..Len(rows[k]) : rows[k][j] \in Field
    BY <2>1
  <2>3. \A j \in 1..Len(rows[k]) :
            /\ rows'[k][j] = Text(rows[k][j]) /\ rows'[k][j] \in Field /\ rows'[k][j] \notin Terms
            /\ Text(rows'[k][j]) = Text(rows[k][j])
    <3>1. \A j \in 1..Len(rows[k]) : rows'[k][j] = Text(rows[k][j])
      BY <2>1
    <3>2. \A f \in Field : Text(f) \in Field /\ Text(f) \notin Terms /\ Text(Text(f)) = Text(f)
      BY TextOfField, Zenon
    <3>3. QED
      BY <3>1, <3>2, <2>2
  <2>4. rows'[k] \in Seq(Field) /\ Len(rows'[k]) = Len(rows[k]) /\ DOMAIN rows'[k] = 1..Len(rows[k])
    <3>1. Len(rows[k]) \in Nat
      BY <2>1
    <3>2. \A j \in 1..Len(rows[k]) : Text(rows[k][j]) \in Field
      BY <2>3
    <3>3. rows'[k] \in [1..Len(rows[k]) -> Field]
      BY <2>1, <3>2
    <3>4. QED
      BY <3>1, <3>3
  <2>5. NotBinary(rows'[k]) = {}
    BY <2>3, <2>4 DEF NotBinary
  <2>6. SameText(rows[k], Source[k])
    BY <1>1 DEF CallInv, InCall
  <2>7. SameText(rows'[k], Source[k])
    BY <2>3, <2>4, <2>6 DEF SameText
  <2>8. QED
    BY <2>4, <2>5, <2>7
<1>4. rows' \in Seq(Seq(Field)) /\ Len(rows') = Len(rows)
  <2>1. Len(rows) \in Nat
    BY <1>1
  <2>2. rows' = [k \in 1..Len(rows) |-> rows'[k]]
    BY <1>2
  <2>3. rows' \in [1..Len(rows) -> Seq(Field)]
    BY <2>2, <1>3
  <2>4. QED
    BY <2>1, <2>3
<1>5. calls' = 2
  <2>1. \E k \in 1..Len(rows) : NotBinary(rows[k]) # {}
    BY <1>1 DEF ResultInv
  <2>2. calls \in {1, 2} /\ calls # 2
    BY <1>1, <2>1 DEF CallInv, InCall
  <2>3. QED
    BY <1>1, <2>2
<1>6. TypeInv'
  BY <1>1, <1>4, <1>5 DEF TypeInv
<1>7. CallInv'
  BY <1>1, <1>3, <1>4, <1>5 DEF CallInv, InCall
<1>8. FreshInv' /\ OutputInv' /\ WalkInv' /\ PoolInv' /\ ResultInv'
  BY <1>1 DEF FreshInv, OutputInv, WalkInv, PoolInv, ResultInv
<1>9. QED
  BY <1>6, <1>7, <1>8

LEMMA RaiseInv == IInv /\ Raise => IInv'
<1> SUFFICES ASSUME IInv, Raise PROVE IInv'
  OBVIOUS
<1> USE DEF IInv, Raise
<1>1. /\ phase = "returned" /\ result \in {"encoding_error", "badarg"} /\ phase' = "ready"
      /\ reply' = IF result = "badarg" THEN "badarg" ELSE "raised"
      /\ UNCHANGED <<dump, rows, encoded, failed, result, output, calls>>
  OBVIOUS
<1>2. TypeInv' /\ CallInv' /\ FreshInv' /\ WalkInv' /\ PoolInv' /\ ResultInv'
  BY <1>1 DEF TypeInv, CallInv, FreshInv, WalkInv, PoolInv, ResultInv, InCall
<1>3. result = "encoding_error" =>
          \/ ~SeparatorsMappable(options)
          \/ \E k \in 1..Len(table) : ~RowFits(options, table[k])
  <2> SUFFICES ASSUME result = "encoding_error", SeparatorsMappable(options)
               PROVE  \E k \in 1..Len(table) : ~RowFits(options, table[k])
    OBVIOUS
  <2>1. PICK k \in 1..Len(rows) : ~RowFits(options, rows[k])
    BY <1>1 DEF ResultInv
  <2>2. ~RowFits(options, Source[k])
    BY <1>1, <2>1, SourceFits DEF InCall
  <2>3. CASE strategy = "stream"
    <3>1. Len(rows) = 1 /\ Source[1] = table[Len(output) + 1] /\ Len(output) + 1 \in 1..Len(table)
      BY <1>1, <2>3 DEF CallInv, InCall, Source, TypeInv
    <3>2. k = 1
      BY <3>1
    <3>3. QED
      BY <2>2, <3>1, <3>2
  <2>4. CASE strategy # "stream"
    BY <1>1, <2>2, <2>4 DEF CallInv, InCall, Source
  <2>5. QED
    BY <2>3, <2>4
<1>4. OutputInv'
  BY <1>1, <1>3 DEF OutputInv, ResultInv, CallInv, InCall
<1>5. QED
  BY <1>2, <1>4

LEMMA DeliverInv == IInv /\ Deliver => IInv'
<1> SUFFICES ASSUME IInv, Deliver PROVE IInv'
  OBVIOUS
<1> USE DEF IInv, Deliver
<1> DEFINE texts == [i \in 1..Len(rows) |-> encoded[i]]
<1>1. /\ phase = "returned" /\ result = "rows" /\ output' = output \o texts
      /\ phase' = "ready" /\ result' = "none"
      /\ reply' = IF strategy = "stream" THEN "none" ELSE "done"
      /\ UNCHANGED <<dump, rows, encoded, failed, calls>>
  OBVIOUS
<1>2. /\ output \in Seq(RowTexts) /\ table \in Seq(Seq(Field)) /\ rows \in Seq(Seq(Field))
      /\ encoded \in [DOMAIN encoded -> RowTexts] /\ failed = {}
      /\ DOMAIN encoded = 1..Len(rows)
      /\ rows # <<>> => SeparatorsMappable(options)
  BY <1>1 DEF TypeInv, ResultInv, FreshInv
<1>3. texts \in Seq(RowTexts) /\ Len(texts) = Len(rows)
  BY <1>2
<1> HIDE DEF texts
<1>4. output' \in Seq(RowTexts) /\ Len(output') = Len(output) + Len(rows)
  BY <1>1, <1>2, <1>3
<1>5. \A k \in 1..Len(rows) : RowFits(options, Source[k])
  BY <1>1, SourceFits DEF InCall, ResultInv
<1>6. /\ Len(output') <= Len(table)
      /\ \A k \in 1..Len(output') : RowFits(options, table[k])
      /\ strategy # "stream" => Len(output') = Len(table)
  <2>1. CASE strategy = "stream"
    <3>1. Len(rows) = 1 /\ Source[1] = table[Len(output) + 1] /\ Len(output) < Len(table)
      BY <1>1, <2>1 DEF CallInv, InCall, Source
    <3>2. \A k \in 1..Len(output) : RowFits(options, table[k])
      BY DEF OutputInv
    <3>3. RowFits(options, table[Len(output) + 1])
      BY <1>5, <3>1
    <3>4. Len(output) \in Nat /\ Len(table) \in Nat /\ Len(output') = Len(output) + 1
      BY <1>2, <1>4, <3>1
    <3>5. \A k \in 1..Len(output') : k \in 1..Len(output) \/ k = Len(output) + 1
      BY <3>4
    <3>6. \A k \in 1..Len(output') : RowFits(options, table[k])
      BY <3>2, <3>3, <3>5
    <3>7. QED
      BY <2>1, <3>1, <3>4, <3>6
  <2>2. CASE strategy # "stream"
    <3>1. Len(rows) = Len(table) /\ Source = table /\ output = <<>>
      BY <1>1, <2>2 DEF CallInv, InCall, Source
    <3>2. Len(output') = Len(table)
      BY <1>2, <1>4, <3>1
    <3>3. QED
      BY <1>2, <1>5, <3>1, <3>2
  <2>3. QED
    BY <2>1, <2>2
<1>7. output' # <<>> => SeparatorsMappable(options)
  <2>1. CASE rows = <<>>
    BY <1>1, <1>2, <1>3, <2>1 DEF OutputInv
  <2>2. CASE rows # <<>>
    BY <1>2, <2>2
  <2>3. QED
    BY <2>1, <2>2
<1>8. TypeInv'
  BY <1>1, <1>2, <1>4 DEF TypeInv
<1>9. CallInv' /\ FreshInv' /\ WalkInv' /\ PoolInv' /\ ResultInv'
  BY <1>1, <1>2 DEF CallInv, FreshInv, WalkInv, PoolInv, ResultInv, InCall
<1>10. OutputInv'
  BY <1>1, <1>6, <1>7 DEF OutputInv
<1>11. QED
  BY <1>8, <1>9, <1>10

LEMMA EndOfStreamInv == IInv /\ EndOfStream => IInv'
<1> SUFFICES ASSUME IInv, EndOfStream PROVE IInv'
  OBVIOUS
<1> USE DEF IInv, EndOfStream
<1>1. TypeInv' /\ CallInv' /\ FreshInv' /\ WalkInv' /\ PoolInv' /\ ResultInv'
  BY DEF TypeInv, CallInv, FreshInv, WalkInv, PoolInv, ResultInv, InCall
<1>2. OutputInv'
  BY DEF OutputInv
<1>3. QED
  BY <1>1, <1>2

LEMMA StutterInv == IInv /\ UNCHANGED vars => IInv'
<1> SUFFICES ASSUME IInv, UNCHANGED vars PROVE IInv'
  OBVIOUS
<1> USE DEF IInv, vars
<1>1. TypeInv' /\ CallInv' /\ FreshInv'
  BY DEF TypeInv, CallInv, FreshInv, InCall, Source
<1>2. WalkInv' /\ PoolInv' /\ ResultInv' /\ OutputInv'
  BY DEF WalkInv, PoolInv, ResultInv, OutputInv
<1>3. QED
  BY <1>1, <1>2

LEMMA NextInv == IInv /\ [Next]_vars => IInv'
<1> SUFFICES ASSUME IInv, [Next]_vars PROVE IInv'
  OBVIOUS
<1>1. CASE CallNif \/ RetryCoerced \/ Raise \/ Deliver \/ EndOfStream
  BY <1>1, CallNifInv, RetryCoercedInv, RaiseInv, DeliverInv, EndOfStreamInv, Zenon
<1>2. CASE BeginRows \/ EncodeRow \/ EndOfRows \/ CollectFields \/ JoinPool
  BY <1>2, BeginRowsInv, EncodeRowInv, EndOfRowsInv, CollectFieldsInv, JoinPoolInv, Zenon
<1>3. ASSUME NEW i \in DOMAIN rows, EncodeInPool(i) PROVE IInv'
  BY <1>3, EncodeInPoolInv, Zenon
<1>4. CASE Dumped \/ UNCHANGED vars
  BY <1>4, StutterInv, Zenon DEF Dumped
<1>5. QED
  BY <1>1, <1>2, <1>3, <1>4, Zenon DEF Next

LEMMA Invariant == Spec => []IInv
<1>1. Init => IInv
  BY InitInv
<1>2. IInv /\ [Next]_vars => IInv'
  BY NextInv
<1>3. QED
  BY <1>1, <1>2, PTL DEF Spec

-----------------------------------------------------------------------------
(* The theorems. *)

(* A dump says that something has no place in the encoding exactly if that *)
(* is so, wherever it stands, whichever row a worker met first and however *)
(* often fields had to be coerced before (the raise of rusty_csv.ex after  *)
(* the NIFs' answers).                                                     *)
THEOREM AnswersCorrect == Spec => []AnswersAgree
<1>1. IInv => AnswersAgree
  <2> SUFFICES ASSUME IInv PROVE AnswersAgree
    OBVIOUS
  <2>1. table \in Seq(Seq(Field)) /\ output \in Seq(RowTexts) /\ OutputInv
    BY DEF IInv, TypeInv
  <2>2. Fits <=> SeparatorsMappable(options) /\ \A k \in 1..Len(table) : RowFits(options, table[k])
    BY <2>1 DEF Fits
  <2>3. reply = "done" /\ table # <<>> => Fits
    BY <2>1, <2>2 DEF OutputInv
  <2>4. reply = "raised" => ~Fits
    BY <2>1, <2>2 DEF OutputInv
  <2>5. QED
    BY <2>1, <2>3, <2>4 DEF AnswersAgree, OutputInv
<1>2. QED
  BY <1>1, Invariant, PTL

(* Fields are coerced for no row a second time: retry_with_coerced_fields  *)
(* leaves only binaries in the rows it passes on, so a NIF that has been   *)
(* called twice does not ask for a third time.                             *)
THEOREM RetriesCorrect == Spec => []RetriesOnce
<1>1. IInv => RetriesOnce
  BY DEF IInv, TypeInv, RetriesOnce
<1>2. QED
  BY <1>1, Invariant, PTL
=============================================================================
