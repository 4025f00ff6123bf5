------------------------ MODULE GeneralDialect_proofs -------------------------
(***************************************************************************)
(* Lemmas about the reading of rows in a dialect, for every alphabet and   *)
(* dialect: what a pattern, a token, a row and the rows of a text are, and *)
(* that a row is read alike in every text that goes on after it and in the *)
(* line that is cut from it.                                               *)
(***************************************************************************)
EXTENDS GeneralDialect, SequenceTheorems, FiniteSetTheorems,
        WellFoundedInduction, TLAPS

(* Counting up reaches every number.                                       *)
LEMMA UpTo ==
    ASSUME NEW m \in Nat, NEW P, 0 \in P, \A n \in 1..m : n - 1 \in P => n \in P
    PROVE  \A n \in 0..m : n \in P
<1> DEFINE Q == {n \in 0..m : n \notin P}
<1>1. SUFFICES ASSUME Q # {} PROVE FALSE
  OBVIOUS
<1>2. Q \in SUBSET Nat
  OBVIOUS
<1>3. PICK i \in Q : \A j \in Q : ~(<<j, i>> \in OpToRel(<, Nat))
  <2> HIDE DEF Q
  <2>1. QED
    BY <1>1, <1>2, NatLessThanWellFounded, WFMin, Zenon
<1>4. \A j \in Q : ~(j < i)
  BY <1>2, <1>3 DEF OpToRel
<1>5. i \in 1..m /\ i - 1 \in 0..m /\ i - 1 < i
  <2>1. i \in 0..m /\ i \notin P
    OBVIOUS
  <2>2. i # 0
    BY <2>1
  <2>3. QED
    BY <2>1, <2>2
<1>6. i - 1 \in P
  BY <1>4, <1>5
<1>7. QED
  BY <1>3, <1>5, <1>6

(* A set of numbers has a least one.                                       *)
LEMMA LeastOf ==
    ASSUME NEW S \in SUBSET Nat, S # {}
    PROVE  Min(S) \in S /\ \A j \in S : Min(S) <= j
<1>1. \E x \in S : \A y \in S : ~ (<<y, x>> \in OpToRel(<, Nat))
  BY NatLessThanWellFounded, WFMin, Zenon
<1>2. PICK x \in S : \A y \in S : ~ (y < x)
  BY <1>1 DEF OpToRel
<1>3. \A y \in S : x =< y
  BY <1>2
<1>4. QED
  BY <1>3, Zenon DEF Min

(* And what is in it and below the rest is the least.                      *)
LEMMA LeastIs ==
    ASSUME NEW S \in SUBSET Nat, NEW i \in S, \A j \in S : i <= j
    PROVE  Min(S) = i
<1>1. Min(S) \in S /\ \A j \in S : Min(S) <= j
  BY LeastOf
<1>2. Min(S) <= i /\ i <= Min(S) /\ i \in Nat /\ Min(S) \in Nat
  BY <1>1
<1>3. QED
  BY <1>2

(* A finite set of numbers has a greatest one.                             *)
LEMMA GreatestOf ==
    ASSUME NEW S, NEW m \in Nat, S \subseteq 0..m, S # {}
    PROVE  Max(S) \in S /\ \A j \in S : j <= Max(S)
<1> DEFINE T == {m - j : j \in S}
<1>0. \A j \in S : j \in 0..m /\ m - j \in Nat
  OBVIOUS
<1>1. T \in SUBSET Nat /\ T # {}
  BY <1>0
<1>2. PICK x \in T : \A y \in T : ~(<<y, x>> \in OpToRel(<, Nat))
  <2> HIDE DEF T
  <2>1. QED
    BY <1>1, NatLessThanWellFounded, WFMin, Zenon
<1>3. \A y \in T : y \in Nat /\ x \in Nat /\ x <= y
  <2>1. \A y \in T : ~(y < x)
    BY <1>1, <1>2 DEF OpToRel
  <2> HIDE DEF T
  <2>2. QED
    BY <1>1, <2>1
<1>4. PICK i \in S : x = m - i
  OBVIOUS
<1>5. \A j \in S : i >= j
  <2>1. \A j \in S : m - i <= m - j
    BY <1>3, <1>4
  <2>2. \A j \in S : i \in 0..m /\ j \in 0..m
    BY <1>0
  <2> HIDE DEF T
  <2>3. QED
    BY <2>1, <2>2
<1>6. Max(S) \in S /\ \A j \in S : Max(S) >= j
  <2>1. \E k \in S : \A j \in S : k >= j
    BY <1>5, Zenon
  <2>2. QED
    BY <2>1, Zenon DEF Max
<1>7. QED
  BY <1>6

(* A reading that goes on from a state by steps.                           *)
Readings(m, S, first, step) ==
    {f \in [0..m -> S] : f[0] = first /\ \A n \in 1..m : f[n] = step[n][f[n - 1]]}
(* Reading from a first state, step by step, is possible.                  *)
LEMMA ReadingExists ==
    ASSUME NEW m \in Nat, NEW S, NEW first \in S, NEW step \in [1..m -> [S -> S]]
    PROVE  Readings(m, S, first, step) # {}
<1> DEFINE Reads(k, f) == f[0] = first /\ \A n \in 1..k : f[n] = step[n][f[n - 1]]
           P == {k \in 0..m : \E f \in [0..k -> S] : Reads(k, f)}
<1>1. 0 \in P
  <2> DEFINE g == [n \in 0..0 |-> first]
  <2>1. g \in [0..0 -> S] /\ Reads(0, g) /\ 0 \in 0..m
    OBVIOUS
  <2> HIDE DEF g, Reads
  <2>2. QED
    BY <2>1
<1>2. ASSUME NEW k \in 1..m, k - 1 \in P
      PROVE  k \in P
  <2>1. PICK f \in [0..k - 1 -> S] : Reads(k - 1, f)
    BY <1>2
  <2> DEFINE g == [n \in 0..k |-> IF n = k THEN step[k][f[k - 1]] ELSE f[n]]
  <2>2. k - 1 \in 0..k - 1 /\ step[k] \in [S -> S] /\ f[k - 1] \in S
    OBVIOUS
  <2>3. step[k][f[k - 1]] \in S
    BY <2>2
  <2>4. \A n \in 0..k : n # k => n \in 0..k - 1
    OBVIOUS
  <2>5. g \in [0..k -> S]
    BY <2>3, <2>4
  <2>6. g[0] = first
    BY <2>1
  <2>7. ASSUME NEW n \in 1..k
        PROVE  g[n] = step[n][g[n - 1]]
    <3>1. n - 1 \in 0..k - 1 /\ n - 1 # k /\ n \in 0..k /\ n - 1 \in 0..k
      OBVIOUS
    <3>2. g[n - 1] = f[n - 1]
      BY <3>1
    <3>3. CASE n = k
      <4>1. g[n] = step[k][f[k - 1]]
        BY <3>1, <3>3
      <4>2. QED
        BY <3>2, <3>3, <4>1
    <3>4. CASE n # k
      <4>1. g[n] = f[n] /\ n \in 1..k - 1
        BY <3>1, <3>4
      <4>2. f[n] = step[n][f[n - 1]]
        BY <2>1, <4>1
      <4>3. QED
        BY <3>2, <4>1, <4>2
    <3>5. QED
      BY <3>3, <3>4
  <2> HIDE DEF g
  <2>8. Reads(k, g)
    BY <2>6, <2>7
  <2> HIDE DEF Reads
  <2>9. QED
    BY <2>5, <2>8
<1> HIDE DEF P
<1>3. \A k \in 0..m : k \in P
  BY <1>1, <1>2, UpTo
<1>4. m \in P
  BY <1>3
<1>5. QED
  BY <1>4 DEF P, Readings

-----------------------------------------------------------------------------
(* Parts of texts.                                                         *)

(* A part of a text, and the rest of it: their length and their bytes.     *)
LEMMA PartOf ==
    ASSUME NEW s \in Seq(Byte), NEW a \in 0..Len(s), NEW b \in a..Len(s)
    PROVE  /\ SubSeq(s, a + 1, b) \in Seq(Byte)
           /\ Len(SubSeq(s, a + 1, b)) = b - a
           /\ \A j \in 1..b - a : SubSeq(s, a + 1, b)[j] = s[a + j]
<1>1. Len(s) \in Nat /\ \A j \in 1..Len(s) : s[j] \in Byte
  BY ElementOfSeq
<1>2. \A j \in a + 1..b : s[j] \in Byte
  BY <1>1
<1>3. a + 1 \in Int /\ b \in Int
  OBVIOUS
<1>4. /\ SubSeq(s, a + 1, b) \in Seq(Byte)
      /\ Len(SubSeq(s, a + 1, b)) = IF a + 1 <= b THEN b - (a + 1) + 1 ELSE 0
      /\ \A j \in 1..b - (a + 1) + 1 : SubSeq(s, a + 1, b)[j] = s[(a + 1) + j - 1]
  BY <1>2, <1>3, SubSeqProperties
<1>5. b - (a + 1) + 1 = b - a /\ (IF a + 1 <= b THEN b - (a + 1) + 1 ELSE 0) = b - a
  BY <1>1
<1>6. \A j \in 1..b - a : (a + 1) + j - 1 = a + j
  BY <1>1
<1>7. QED
  BY <1>4, <1>5, <1>6

LEMMA SuffixOf ==
    ASSUME NEW s \in Seq(Byte), NEW a \in 0..Len(s)
    PROVE  /\ Suffix(s, a) \in Seq(Byte)
           /\ Len(Suffix(s, a)) = Len(s) - a
           /\ \A j \in 1..Len(s) - a : Suffix(s, a)[j] = s[a + j]
<1>1. Len(s) \in a..Len(s)
  BY LenProperties
<1>2. QED
  BY <1>1, PartOf DEF Suffix

(* A pattern stands at a place if its bytes are there.                     *)
LEMMA StandsAt ==
    ASSUME NEW s \in Seq(Byte), NEW a \in 0..Len(s), NEW p \in Seq(Byte)
    PROVE  /\ Len(p) \in Nat
           /\ StartsWith(s, a, p)
                <=> a + Len(p) <= Len(s) /\ \A j \in 1..Len(p) : s[a + j] = p[j]
<1> DEFINE u == Suffix(s, a)
<1>1. u \in Seq(Byte) /\ Len(u) = Len(s) - a /\ \A j \in 1..Len(s) - a : u[j] = s[a + j]
  BY SuffixOf
<1>2. Len(p) \in Nat /\ Len(s) \in Nat /\ a \in Nat
  BY LenProperties
<1> HIDE DEF u
<1>3. StartsWith(s, a, p) <=> Len(p) <= Len(u) /\ SubSeq(p, 1, Len(p)) = SubSeq(u, 1, Len(p))
  BY DEF StartsWith, IsPrefix, u
<1>4. SubSeq(p, 1, Len(p)) = p
  BY SubSeqFull
<1>5. Len(p) <= Len(u) <=> a + Len(p) <= Len(s)
  BY <1>1, <1>2
<1>6. CASE Len(p) <= Len(u)
  <2> DEFINE v == SubSeq(u, 1, Len(p))
  <2>1. v \in Seq(Byte) /\ Len(v) = Len(p) /\ \A j \in 1..Len(p) : v[j] = u[j]
    <3>1. 0 \in 0..Len(u) /\ Len(p) \in 0..Len(u)
      BY <1>1, <1>2, <1>6
    <3>2. /\ SubSeq(u, 0 + 1, Len(p)) \in Seq(Byte)
          /\ Len(SubSeq(u, 0 + 1, Len(p))) = Len(p) - 0
          /\ \A j \in 1..Len(p) - 0 : SubSeq(u, 0 + 1, Len(p))[j] = u[0 + j]
      BY <1>1, <3>1, PartOf
    <3>3. 0 + 1 = 1 /\ Len(p) - 0 = Len(p) /\ \A j \in 1..Len(p) : 0 + j = j
      BY <1>2
    <3>4. QED
      BY <3>2, <3>3
  <2>2. \A j \in 1..Len(p) : u[j] = s[a + j]
    BY <1>1, <1>2, <1>6
  <2> HIDE DEF v
  <2>3. p = v <=> \A j \in 1..Len(p) : v[j] = p[j]
    <3>1. ASSUME \A j \in 1..Len(p) : v[j] = p[j]
          PROVE  p = v
      BY <2>1, <3>1, SeqEqual
    <3>2. QED
      BY <3>1
  <2>4. QED
    BY <1>2, <1>3, <1>4, <1>5, <1>6, <2>1, <2>2, <2>3 DEF v
<1>7. CASE ~(Len(p) <= Len(u))
  BY <1>2, <1>3, <1>5, <1>7
<1>8. QED
  BY <1>6, <1>7

(* A text ends within a pattern if its last bytes begin it.                *)
LEMMA EndsWithin ==
    ASSUME NEW s \in Seq(Byte), NEW a \in 0..Len(s), NEW p \in Seq(Byte)
    PROVE  PartialSuffix(s, a, p)
             <=> Len(s) - a < Len(p) /\ \A j \in 1..Len(s) - a : s[a + j] = p[j]
<1> DEFINE u == Suffix(s, a)
<1>1. u \in Seq(Byte) /\ Len(u) = Len(s) - a /\ \A j \in 1..Len(s) - a : u[j] = s[a + j]
  BY SuffixOf
<1>2. Len(p) \in Nat /\ Len(s) \in Nat /\ a \in Nat /\ Len(u) \in Nat
  BY <1>1, LenProperties
<1> HIDE DEF u
<1>3. PartialSuffix(s, a, p)
        <=> Len(u) <= Len(p) /\ SubSeq(u, 1, Len(u)) = SubSeq(p, 1, Len(u)) /\ u # p
  BY DEF PartialSuffix, IsStrictPrefix, IsPrefix, u
<1>4. SubSeq(u, 1, Len(u)) = u
  BY <1>1, SubSeqFull
<1>5. CASE Len(u) < Len(p)
  <2> DEFINE v == SubSeq(p, 1, Len(u))
  <2>1. v \in Seq(Byte) /\ Len(v) = Len(u) /\ \A j \in 1..Len(u) : v[j] = p[j]
    <3>1. 0 \in 0..Len(p) /\ Len(u) \in 0..Len(p)
      BY <1>2, <1>5
    <3>2. /\ SubSeq(p, 0 + 1, Len(u)) \in Seq(Byte)
          /\ Len(SubSeq(p, 0 + 1, Len(u))) = Len(u) - 0
          /\ \A j \in 1..Len(u) - 0 : SubSeq(p, 0 + 1, Len(u))[j] = p[0 + j]
      BY <3>1, PartOf
    <3>3. 0 + 1 = 1 /\ Len(u) - 0 = Len(u) /\ \A j \in 1..Len(u) : 0 + j = j
      BY <1>2
    <3>4. QED
      BY <3>2, <3>3
  <2> HIDE DEF v
  <2>2. u = v <=> \A j \in 1..Len(u) : u[j] = p[j]
    <3>1. ASSUME \A j \in 1..Len(u) : u[j] = p[j]
          PROVE  u = v
      <4>1. \A j \in 1..Len(u) : u[j] = v[j]
        BY <2>1, <3>1
      <4>2. QED
        BY <1>1, <2>1, <4>1, SeqEqual
    <3>2. QED
      BY <2>1, <3>1
  <2>3. u # p
    BY <1>2, <1>5
  <2>4. QED
    BY <1>1, <1>2, <1>3, <1>4, <1>5, <2>2, <2>3, SMTT(60) DEF v
<1>6. CASE ~(Len(u) < Len(p))
  <2>1. ~PartialSuffix(s, a, p)
    <3>1. SUFFICES ASSUME Len(u) <= Len(p), u = SubSeq(p, 1, Len(u)) PROVE u = p
      BY <1>3, <1>4
    <3>2. Len(u) = Len(p)
      BY <1>2, <1>6, <3>1
    <3>3. QED
      BY <3>1, <3>2, SubSeqFull
  <2>2. QED
    BY <1>1, <1>2, <1>6, <2>1
<1>7. QED
  BY <1>2, <1>5, <1>6

-----------------------------------------------------------------------------
(* Patterns of a dialect.                                                  *)

Patterns == Seq(Seq(Byte) \ {<<>>})

(* What a list of patterns and a dialect are.                              *)
LEMMA PatternTyping ==
    ASSUME NEW ps \in Patterns
    PROVE  /\ Len(ps) \in Nat /\ DOMAIN ps = 1..Len(ps)
           /\ \A k \in DOMAIN ps : ps[k] \in Seq(Byte) /\ Len(ps[k]) \in Nat \ {0}
<1>1. Len(ps) \in Nat /\ DOMAIN ps = 1..Len(ps)
  BY LenProperties DEF Patterns
<1>2. ASSUME NEW k \in DOMAIN ps
      PROVE  ps[k] \in Seq(Byte) /\ Len(ps[k]) \in Nat \ {0}
  <2>1. ps[k] \in Seq(Byte) \ {<<>>}
    BY <1>1, ElementOfSeq DEF Patterns
  <2>2. QED
    BY <2>1, EmptySeq
<1>3. QED
  BY <1>1, <1>2

LEMMA DialectTyping ==
    ASSUME NEW d \in Dialects
    PROVE  /\ d.separators \in Patterns /\ d.newlines \in Patterns /\ d.newlines # <<>>
           /\ <<>> \in Patterns
           /\ d.escape \in Seq(Byte) /\ Len(d.escape) \in Nat \ {0}
           /\ d.is_default \in BOOLEAN
<1>1. /\ d.separators \in Patterns /\ d.newlines \in Patterns /\ d.newlines # <<>>
      /\ d.escape \in Seq(Byte) /\ d.escape # <<>> /\ d.is_default \in BOOLEAN
  BY DialectsAssumption DEF Patterns
<1>2. <<>> \in Patterns
  BY EmptySeq DEF Patterns
<1>3. Len(d.escape) \in Nat \ {0}
  BY <1>1, EmptySeq
<1>4. QED
  BY <1>1, <1>2, <1>3

(* What is matched is one of the patterns and stands in the text.          *)
LEMMA MatchOf ==
    ASSUME NEW ps \in Patterns, NEW s \in Seq(Byte), NEW a \in 0..Len(s)
    PROVE  /\ MatchLength(ps, s, a) \in Nat
           /\ MatchLength(ps, s, a) = 0 <=> \A k \in DOMAIN ps : ~StartsWith(s, a, ps[k])
           /\ MatchLength(ps, s, a) > 0 =>
                 \E k \in DOMAIN ps : /\ StartsWith(s, a, ps[k])
                                      /\ MatchLength(ps, s, a) = Len(ps[k])
           /\ a + MatchLength(ps, s, a) <= Len(s)
<1> DEFINE found == {k \in DOMAIN ps : StartsWith(s, a, ps[k])}
<1>1. MatchLength(ps, s, a) = IF found = {} THEN 0 ELSE Len(ps[Min(found)])
  BY DEF MatchLength
<1>2. a \in Nat /\ Len(s) \in Nat /\ a + 0 <= Len(s)
  BY LenProperties
<1>3. CASE found = {}
  <2>1. MatchLength(ps, s, a) = 0
    BY <1>1, <1>3
  <2>2. \A k \in DOMAIN ps : ~StartsWith(s, a, ps[k])
    BY <1>3
  <2>3. QED
    BY <1>2, <2>1, <2>2
<1>4. CASE found # {}
  <2>1. found \in SUBSET Nat
    BY PatternTyping
  <2>2. Min(found) \in found
    <3> HIDE DEF found
    <3>1. QED
      BY <1>4, <2>1, LeastOf
  <2>3. PICK k \in DOMAIN ps : StartsWith(s, a, ps[k]) /\ MatchLength(ps, s, a) = Len(ps[k])
    <3>1. Min(found) \in DOMAIN ps /\ StartsWith(s, a, ps[Min(found)])
      BY <2>2
    <3>2. MatchLength(ps, s, a) = Len(ps[Min(found)])
      BY <1>1, <1>4
    <3>3. QED
      BY <3>1, <3>2
  <2>4. ps[k] \in Seq(Byte) /\ Len(ps[k]) \in Nat \ {0}
    BY PatternTyping
  <2>5. a + Len(ps[k]) <= Len(s)
    BY <2>3, <2>4, StandsAt
  <2>6. MatchLength(ps, s, a) \in Nat \ {0} /\ a + MatchLength(ps, s, a) <= Len(s)
    BY <2>3, <2>4, <2>5
  <2> HIDE DEF found
  <2>7. QED
    BY <2>3, <2>6
<1>5. QED
  BY <1>3, <1>4

-----------------------------------------------------------------------------
(* The quote automaton stays within its states.                            *)

LEMMA QuoteTyping ==
    ASSUME NEW q \in QuoteStates, NEW pos \in Nat, NEW doubled \in BOOLEAN
    PROVE  /\ OnEscape(q, pos, doubled) \in QuoteStates
           /\ OnDelimiter(q) \in QuoteStates
           /\ OnData(q, pos) \in QuoteStates
<1>1. OnEscape(q, pos, doubled) \in QuoteStates
  BY DEF OnEscape, QuoteStates, Violation, NoViolation, FirstOf
<1>2. OnDelimiter(q) \in QuoteStates
  BY DEF OnDelimiter, QuoteStates
<1>3. OnData(q, pos) \in QuoteStates
  BY DEF OnData, QuoteStates, Violation, NoViolation, FirstOf
<1>4. QED
  BY <1>1, <1>2, <1>3

LEMMA NewQuoteTyping == NewQuote \in QuoteStates
BY DEF NewQuote, QuoteStates, Violation, NoViolation

(* A violation, moved or first of two, is one.                             *)
LEMMA FinishTyping ==
    ASSUME NEW q \in QuoteStates, NEW end \in Nat
    PROVE  Finish(q, end) \in Violation
BY DEF Finish, QuoteStates, Violation, NoViolation, FirstOf

LEMMA RebaseTyping ==
    ASSUME NEW v \in Violation, NEW base \in Nat
    PROVE  /\ Rebase(v, base) \in Violation
           /\ Rebase(v, base) = NoViolation <=> v = NoViolation
BY DEF Rebase, Violation, NoViolation

LEMMA FirstOfTyping ==
    ASSUME NEW v \in Violation, NEW w \in Violation
    PROVE  FirstOf(v, w) \in Violation /\ NoViolation \in Violation
BY DEF FirstOf, Violation

-----------------------------------------------------------------------------
(* The reading of a row, step by step.                                     *)

(* The states of a reading, and what may stand at a place.                 *)
RowStates ==
    [bounds : Seq(Nat \X Nat), start : Nat, skip : Nat, next : Nat, quote : QuoteStates]

Tokens == {"escape", "quoted", "separator", "newline", "data"}

(* What stands at a place is one of five things.                           *)
LEMMA TokenKinds ==
    ASSUME NEW d \in Dialects, NEW nls \in Patterns, NEW data \in Seq(Byte),
           NEW pos \in 0..Len(data), NEW in_quotes \in BOOLEAN
    PROVE  LET token == TokenAt(d, nls, data, pos, in_quotes)
           IN  /\ token \in Tokens
               /\ token = "escape" <=> StartsWith(data, pos, d.escape)
               /\ token = "quoted" => in_quotes
               /\ token \in {"separator", "newline", "data"} => ~in_quotes
               /\ token = "separator" => MatchSeparator(d, data, pos) > 0
               /\ token \in {"newline", "data"} => ~(MatchSeparator(d, data, pos) > 0)
               /\ token = "newline" => MatchLength(nls, data, pos) > 0
               /\ token = "data" => ~(MatchLength(nls, data, pos) > 0)
BY Zenon DEF TokenAt, Tokens

(* An escape, or two of them, stands in the text.                          *)
LEMMA EscapeLength ==
    ASSUME NEW d \in Dialects, NEW q \in QuoteStates, NEW data \in Seq(Byte),
           NEW pos \in 0..Len(data), StartsWith(data, pos, d.escape)
    PROVE  /\ ConsumeEscape(d, q, data, pos).quote \in QuoteStates
           /\ ConsumeEscape(d, q, data, pos).len \in Nat \ {0}
           /\ pos + ConsumeEscape(d, q, data, pos).len <= Len(data)
<1> DEFINE doubled == q.in_quotes /\ Doubled(d, data, pos)
           m == Len(d.escape)
<1>1. d.escape \in Seq(Byte) /\ m \in Nat \ {0} /\ pos \in Nat /\ Len(data) \in Nat
  BY DialectTyping, LenProperties
<1>2. ConsumeEscape(d, q, data, pos)
        = [quote |-> OnEscape(q, pos, doubled), len |-> IF doubled THEN 2 * m ELSE m]
  BY Zenon DEF ConsumeEscape
<1>0. ConsumeEscape(d, q, data, pos).quote \in QuoteStates
  <2>1. doubled \in BOOLEAN
    BY Zenon
  <2> HIDE DEF doubled, m
  <2>2. OnEscape(q, pos, doubled) \in QuoteStates
    BY <1>1, <2>1, QuoteTyping
  <2>3. QED
    BY <1>2, <2>2
<1>3. pos + m <= Len(data)
  BY <1>1, StandsAt
<1>4. CASE doubled
  <2>1. StartsWith(data, pos + m, d.escape) /\ pos + m \in 0..Len(data)
    BY <1>1, <1>3, <1>4 DEF Doubled
  <2>2. (pos + m) + m <= Len(data)
    BY <1>1, <2>1, StandsAt
  <2>3. ConsumeEscape(d, q, data, pos).len = 2 * m
    BY <1>2, <1>4
  <2> HIDE DEF doubled, m
  <2>4. QED
    BY <1>0, <1>1, <2>2, <2>3
<1>5. CASE ~doubled
  <2>1. ConsumeEscape(d, q, data, pos).len = m
    BY <1>2, <1>5
  <2> HIDE DEF doubled, m
  <2>2. QED
    BY <1>0, <1>1, <1>3, <2>1
<1>6. QED
  BY <1>4, <1>5

-----------------------------------------------------------------------------
(* The reading after each of the things that may stand at a place.         *)

(* An escape, or two of them, with the bytes that are still to be skipped. *)
AfterEscape(d, st, data, pos) ==
    [st EXCEPT !.quote = ConsumeEscape(d, st.quote, data, pos).quote,
               !.skip  = ConsumeEscape(d, st.quote, data, pos).len - 1]

(* A separator of n bytes ends a field.                                    *)
AfterSeparator(st, pos, n) ==
    [st EXCEPT !.bounds = Append(@, <<st.start, pos>>),
               !.start  = pos + n,
               !.skip   = n - 1,
               !.quote  = OnDelimiter(@)]

(* A newline ends the last field, and the row.                             *)
AfterNewline(st, end, next) ==
    [st EXCEPT !.bounds = Append(@, <<st.start, end>>),
               !.next   = next,
               !.quote  = OnDelimiter(@)]

(* Any other byte outside quotes.                                          *)
AfterData(st, pos) == [st EXCEPT !.quote = OnData(@, pos)]

(* What RowByte does, case by case.                                        *)
RowSteps(d, nls, data, pos, st) ==
    LET token == TokenAt(d, nls, data, pos, st.quote.in_quotes)
        after == RowByte(d, nls, data, st, pos)
    IN  /\ st.next > 0 => after = st
        /\ st.next = 0 /\ st.skip > 0 => after = [st EXCEPT !.skip = @ - 1]
        /\ st.next = 0 /\ st.skip = 0 =>
              /\ token \in Tokens
              /\ token = "escape" => after = AfterEscape(d, st, data, pos)
              /\ token = "quoted" => after = st
              /\ token = "separator" =>
                    after = AfterSeparator(st, pos, MatchSeparator(d, data, pos))
              /\ token = "newline" =>
                    after = AfterNewline(st, FieldEnd(d, data, st.start, pos),
                                         pos + MatchLength(nls, data, pos))
              /\ token = "data" => after = AfterData(st, pos)

LEMMA RowByteIs ==
    ASSUME NEW d \in Dialects, NEW nls \in Patterns, NEW data \in Seq(Byte),
           NEW pos \in 0..Len(data), NEW st \in RowStates
    PROVE  RowSteps(d, nls, data, pos, st)
<1> DEFINE token == TokenAt(d, nls, data, pos, st.quote.in_quotes)
           after == RowByte(d, nls, data, st, pos)
<1>2. st.next \in Nat /\ st.skip \in Nat /\ st.quote.in_quotes \in BOOLEAN
  BY DEF RowStates, QuoteStates
<1>3. token \in Tokens
  BY <1>2, TokenKinds
<1>4. CASE st.next > 0
  <2>1. after = st
    BY <1>2, <1>4 DEF RowByte
  <2>2. QED
    BY <1>2, <1>4, <2>1 DEF RowSteps
<1>5. CASE st.next = 0 /\ st.skip > 0
  <2>1. after = [st EXCEPT !.skip = @ - 1]
    BY <1>2, <1>5 DEF RowByte
  <2>2. QED
    BY <1>2, <1>5, <2>1 DEF RowSteps
<1>6. CASE st.next = 0 /\ st.skip = 0
  <2>1. CASE token = "escape"
    <3>1. after = AfterEscape(d, st, data, pos)
      BY <1>6, <2>1 DEF RowByte, AfterEscape
    <3>2. QED
      BY <1>3, <1>6, <2>1, <3>1 DEF RowSteps
  <2>2. CASE token = "quoted"
    <3>1. after = st
      BY <1>6, <2>2 DEF RowByte
    <3>2. QED
      BY <1>3, <1>6, <2>2, <3>1 DEF RowSteps
  <2>3. CASE token = "separator"
    <3>1. after = AfterSeparator(st, pos, MatchSeparator(d, data, pos))
      BY <1>6, <2>3 DEF RowByte, AfterSeparator
    <3>2. QED
      BY <1>3, <1>6, <2>3, <3>1 DEF RowSteps
  <2>4. CASE token = "newline"
    <3>1. after = AfterNewline(st, FieldEnd(d, data, st.start, pos),
                               pos + MatchLength(nls, data, pos))
      BY <1>6, <2>4 DEF RowByte, AfterNewline
    <3>2. QED
      BY <1>3, <1>6, <2>4, <3>1 DEF RowSteps
  <2>5. CASE token = "data"
    <3>1. after = AfterData(st, pos)
      BY <1>6, <2>5 DEF RowByte, AfterData
    <3>2. QED
      BY <1>3, <1>6, <2>5, <3>1 DEF RowSteps
  <2>6. QED
    BY <1>3, <2>1, <2>2, <2>3, <2>4, <2>5 DEF Tokens
<1>7. QED
  BY <1>2, <1>4, <1>5, <1>6

(* The bounds and the rest of a pattern stay within the data.              *)
Inside(st, i, len) ==
    /\ st.next = 0 => i + st.skip <= len /\ st.start <= i + st.skip
    /\ st.next <= len
    /\ st.next > 0 => ~st.quote.in_quotes
    /\ \A k \in DOMAIN st.bounds : st.bounds[k][2] <= i

(* A field that loses its carriage return ends one byte earlier.           *)
LEMMA FieldEndIn ==
    ASSUME NEW d \in Dialects, NEW data, NEW start \in Nat, NEW pos \in Nat
    PROVE  FieldEnd(d, data, start, pos) \in Nat /\ FieldEnd(d, data, start, pos) <= pos
<1>1. CASE pos > start /\ FieldEnd(d, data, start, pos) = pos - 1
  BY <1>1
<1>2. CASE FieldEnd(d, data, start, pos) = pos
  BY <1>2
<1>3. QED
  BY <1>1, <1>2, Zenon DEF FieldEnd

(* One more field keeps the bounds in front of the next byte.              *)
LEMMA BoundsGrow ==
    ASSUME NEW bounds \in Seq(Nat \X Nat), NEW a \in Nat, NEW b \in Nat, NEW i \in Nat,
           \A k \in DOMAIN bounds : bounds[k][2] <= i, b <= i
    PROVE  /\ Append(bounds, <<a, b>>) \in Seq(Nat \X Nat)
           /\ \A k \in DOMAIN Append(bounds, <<a, b>>) : Append(bounds, <<a, b>>)[k][2] <= i + 1
<1> DEFINE N == Nat \X Nat
           e == <<a, b>>
<1>1. e \in N /\ e[2] = b
  OBVIOUS
<1>2. bounds \in Seq(N) /\ \A k \in DOMAIN bounds : bounds[k][2] \in Nat
  <2>1. \A k \in DOMAIN bounds : bounds[k] \in Nat \X Nat
    BY ElementOfSeq, LenProperties
  <2>2. QED
    BY <2>1
<1> HIDE DEF N, e
<1>3. /\ Append(bounds, e) \in Seq(N)
      /\ Len(Append(bounds, e)) = Len(bounds) + 1
      /\ \A k \in 1..Len(bounds) : Append(bounds, e)[k] = bounds[k]
      /\ Append(bounds, e)[Len(bounds) + 1] = e
  BY <1>1, <1>2, AppendProperties
<1>4. /\ DOMAIN Append(bounds, e) = 1..Len(bounds) + 1
      /\ DOMAIN bounds = 1..Len(bounds) /\ Len(bounds) \in Nat
  BY <1>2, <1>3, LenProperties
<1>5. ASSUME NEW k \in DOMAIN Append(bounds, e)
      PROVE  Append(bounds, e)[k][2] <= i + 1
  <2>1. CASE k = Len(bounds) + 1
    BY <1>1, <1>3, <2>1
  <2>2. CASE k # Len(bounds) + 1
    <3>1. k \in 1..Len(bounds)
      BY <1>4, <2>2
    <3>2. Append(bounds, e)[k] = bounds[k] /\ bounds[k][2] <= i /\ bounds[k][2] \in Nat
      BY <1>2, <1>3, <1>4, <3>1
    <3>3. QED
      BY <3>2
  <2>3. QED
    BY <2>1, <2>2
<1>6. QED
  BY <1>3, <1>5 DEF N, e

(* A byte leaves the reading typed and inside.                             *)
LEMMA RowByteTyping ==
    ASSUME NEW d \in Dialects, NEW nls \in Patterns, NEW data \in Seq(Byte),
           NEW pos \in 0..Len(data) - 1, NEW st \in RowStates
    PROVE  /\ RowByte(d, nls, data, st, pos) \in RowStates
           /\ Inside(st, pos, Len(data)) =>
                 Inside(RowByte(d, nls, data, st, pos), pos + 1, Len(data))
<1> DEFINE token == TokenAt(d, nls, data, pos, st.quote.in_quotes)
           after == RowByte(d, nls, data, st, pos)
           len == Len(data)
           Fits(s) == s \in RowStates /\ (Inside(st, pos, len) => Inside(s, pos + 1, len))
<1>0. pos \in 0..Len(data) /\ len \in Nat /\ pos \in Nat /\ pos < len
  BY LenProperties
<1>00. RowSteps(d, nls, data, pos, st)
  BY <1>0, RowByteIs
<1>1. /\ st.next \in Nat /\ st.skip \in Nat /\ st.quote.in_quotes \in BOOLEAN /\ st.start \in Nat
      /\ st.quote \in QuoteStates /\ st.bounds \in Seq(Nat \X Nat)
  BY DEF RowStates, QuoteStates
<1>2. \A k \in DOMAIN st.bounds : st.bounds[k][2] \in Nat
  <2>1. \A k \in DOMAIN st.bounds : st.bounds[k] \in Nat \X Nat
    BY <1>1, ElementOfSeq, LenProperties
  <2>2. QED
    BY <2>1
<1>20. (\A k \in DOMAIN st.bounds : st.bounds[k][2] <= pos)
         => \A k \in DOMAIN st.bounds : st.bounds[k][2] <= pos + 1
  BY <1>0, <1>2
<1>3. CASE st.next > 0
  <2>1. after = st
    BY <1>00, <1>3 DEF RowSteps
  <2>2. Fits(st)
    BY <1>0, <1>1, <1>3, <1>20 DEF Inside
  <2>3. QED
    BY <2>1, <2>2
<1>4. CASE st.next = 0 /\ st.skip > 0
  <2> DEFINE s == [st EXCEPT !.skip = @ - 1]
  <2>1. after = s
    BY <1>00, <1>4 DEF RowSteps
  <2>2. /\ s.skip = st.skip - 1 /\ s.next = st.next /\ s.start = st.start
        /\ s.bounds = st.bounds /\ s.quote = st.quote
    BY DEF RowStates
  <2>3. s \in RowStates
    BY <1>1, <1>4 DEF RowStates
  <2> HIDE DEF s
  <2>4. Fits(s)
    BY <1>0, <1>1, <1>4, <1>20, <2>2, <2>3 DEF Inside
  <2>5. QED
    BY <2>1, <2>4
<1>5. CASE st.next = 0 /\ st.skip = 0
  <2>1. token \in Tokens
    BY <1>00, <1>5 DEF RowSteps
  <2>2. CASE token = "escape"
    <3> DEFINE c == ConsumeEscape(d, st.quote, data, pos)
               s == AfterEscape(d, st, data, pos)
    <3>1. after = s
      BY <1>00, <1>5, <2>2 DEF RowSteps
    <3>2. StartsWith(data, pos, d.escape)
      BY <1>0, <1>1, <2>2, TokenKinds
    <3>3. c.quote \in QuoteStates /\ c.len \in Nat \ {0} /\ pos + c.len <= len
      BY <1>0, <1>1, <3>2, EscapeLength
    <3>4. /\ s.skip = c.len - 1 /\ s.next = st.next /\ s.start = st.start
          /\ s.bounds = st.bounds /\ s.quote = c.quote
      BY DEF RowStates, AfterEscape
    <3>5. s = [st EXCEPT !.quote = c.quote, !.skip = c.len - 1]
      BY DEF AfterEscape
    <3> HIDE DEF c
    <3>6. s \in RowStates
      <4>1. c.len - 1 \in Nat
        BY <3>3
      <4>2. QED
        BY <1>1, <3>3, <3>5, <4>1 DEF RowStates
    <3> HIDE DEF s
    <3>7. Fits(s)
      BY <1>0, <1>1, <1>5, <1>20, <3>3, <3>4, <3>6 DEF Inside
    <3>8. QED
      BY <3>1, <3>7
  <2>3. CASE token = "quoted"
    <3>1. after = st
      BY <1>00, <1>5, <2>3 DEF RowSteps
    <3>2. Fits(st)
      BY <1>0, <1>1, <1>5, <1>20 DEF Inside
    <3>3. QED
      BY <3>1, <3>2
  <2>4. CASE token = "separator"
    <3> DEFINE n == MatchSeparator(d, data, pos)
               s == AfterSeparator(st, pos, n)
               b == Append(st.bounds, <<st.start, pos>>)
    <3>1. after = s
      BY <1>00, <1>5, <2>4 DEF RowSteps
    <3>2. n \in Nat \ {0} /\ pos + n <= len
      <4>1. n > 0
        BY <1>0, <1>1, <2>4, TokenKinds
      <4>2. n \in Nat /\ pos + n <= len
        BY <1>0, MatchOf, DialectTyping DEF MatchSeparator
      <4>3. QED
        BY <4>1, <4>2
    <3> HIDE DEF n
    <3>3. /\ s.skip = n - 1 /\ s.next = st.next /\ s.start = pos + n
          /\ s.bounds = b /\ s.quote = OnDelimiter(st.quote)
      BY DEF RowStates, AfterSeparator
    <3>4. /\ b \in Seq(Nat \X Nat)
          /\ Inside(st, pos, len) => \A k \in DOMAIN b : b[k][2] <= pos + 1
      <4>1. b \in Seq(Nat \X Nat)
        BY <1>0, <1>1
      <4>2. ASSUME Inside(st, pos, len)
            PROVE  \A k \in DOMAIN b : b[k][2] <= pos + 1
        <5>1. (\A k \in DOMAIN st.bounds : st.bounds[k][2] <= pos) /\ pos <= pos
          BY <1>0, <4>2 DEF Inside
        <5>2. QED
          BY <1>0, <1>1, <5>1, BoundsGrow
      <4>3. QED
        BY <4>1, <4>2
    <3>5. s = [st EXCEPT !.bounds = b, !.start = pos + n, !.skip = n - 1,
                         !.quote = OnDelimiter(st.quote)]
      BY DEF AfterSeparator
    <3> HIDE DEF b
    <3>6. s \in RowStates
      <4>1. n - 1 \in Nat /\ pos + n \in Nat /\ OnDelimiter(st.quote) \in QuoteStates
        BY <1>0, <1>1, <3>2, QuoteTyping
      <4>2. QED
        BY <1>1, <3>4, <3>5, <4>1 DEF RowStates
    <3> HIDE DEF s
    <3>7. Fits(s)
      BY <1>0, <1>5, <3>2, <3>3, <3>4, <3>6 DEF Inside
    <3>8. QED
      BY <3>1, <3>7
  <2>5. CASE token = "newline"
    <3> DEFINE n == MatchLength(nls, data, pos)
               e == FieldEnd(d, data, st.start, pos)
               s == AfterNewline(st, e, pos + n)
               b == Append(st.bounds, <<st.start, e>>)
    <3>1. after = s
      BY <1>00, <1>5, <2>5 DEF RowSteps
    <3>2. n \in Nat \ {0} /\ pos + n <= len
      <4>1. n > 0
        BY <1>0, <1>1, <2>5, TokenKinds
      <4>2. n \in Nat /\ pos + n <= len
        BY <1>0, MatchOf
      <4>3. QED
        BY <4>1, <4>2
    <3>3. e \in Nat /\ e <= pos
      BY <1>0, <1>1, FieldEndIn
    <3> HIDE DEF n, e
    <3>4. /\ s.skip = st.skip /\ s.next = pos + n /\ s.start = st.start
          /\ s.bounds = b /\ s.quote = OnDelimiter(st.quote)
      BY DEF RowStates, AfterNewline
    <3>5. /\ b \in Seq(Nat \X Nat)
          /\ Inside(st, pos, len) => \A k \in DOMAIN b : b[k][2] <= pos + 1
      <4>1. b \in Seq(Nat \X Nat)
        BY <1>0, <1>1, <3>3
      <4>2. ASSUME Inside(st, pos, len)
            PROVE  \A k \in DOMAIN b : b[k][2] <= pos + 1
        <5>1. \A k \in DOMAIN st.bounds : st.bounds[k][2] <= pos
          BY <4>2 DEF Inside
        <5>2. QED
          BY <1>0, <1>1, <3>3, <5>1, BoundsGrow
      <4>3. QED
        BY <4>1, <4>2
    <3>6. s = [st EXCEPT !.bounds = b, !.next = pos + n, !.quote = OnDelimiter(st.quote)]
      BY DEF AfterNewline
    <3>7. ~OnDelimiter(st.quote).in_quotes
      <4>1. ~st.quote.in_quotes
        BY <1>0, <1>1, <2>5, TokenKinds
      <4>2. QED
        BY <1>1, <4>1 DEF OnDelimiter, QuoteStates
    <3> HIDE DEF b
    <3>8. s \in RowStates
      <4>1. pos + n \in Nat /\ OnDelimiter(st.quote) \in QuoteStates
        BY <1>0, <1>1, <3>2, QuoteTyping
      <4>2. QED
        BY <1>1, <3>5, <3>6, <4>1 DEF RowStates
    <3> HIDE DEF s
    <3>9. Fits(s)
      BY <1>0, <1>5, <3>2, <3>4, <3>5, <3>7, <3>8 DEF Inside
    <3>10. QED
      BY <3>1, <3>9
  <2>6. CASE token = "data"
    <3> DEFINE s == AfterData(st, pos)
    <3>1. after = s
      BY <1>00, <1>5, <2>6 DEF RowSteps
    <3>2. /\ s.skip = st.skip /\ s.next = st.next /\ s.start = st.start
          /\ s.bounds = st.bounds /\ s.quote = OnData(st.quote, pos)
      BY DEF RowStates, AfterData
    <3>3. s \in RowStates
      <4>1. OnData(st.quote, pos) \in QuoteStates
        BY <1>0, <1>1, QuoteTyping
      <4>2. QED
        BY <1>1, <4>1 DEF RowStates, AfterData
    <3> HIDE DEF s
    <3>4. Fits(s)
      BY <1>0, <1>1, <1>5, <1>20, <3>2, <3>3 DEF Inside
    <3>5. QED
      BY <3>1, <3>4
  <2>7. QED
    BY <2>1, <2>2, <2>3, <2>4, <2>5, <2>6 DEF Tokens
<1>6. QED
  BY <1>1, <1>3, <1>4, <1>5

-----------------------------------------------------------------------------
(* The reading of a row, byte by byte.                                     *)

(* The reading starts with RowStart and goes on by RowByte, typed and      *)
(* inside.                                                                 *)
RowReads(d, nls, data) ==
    LET read == RowState(d, nls, data)
    IN  /\ read[0] = RowStart
        /\ \A n \in 0..Len(data) - 1 : read[n + 1] = RowByte(d, nls, data, read[n], n)
        /\ \A n \in 0..Len(data) : read[n] \in RowStates /\ Inside(read[n], n, Len(data))

LEMMA RowStartTyping ==
    ASSUME NEW len \in Nat
    PROVE  RowStart \in RowStates /\ Inside(RowStart, 0, len)
<1>1. NewQuote \in QuoteStates
  BY NewQuoteTyping
<1>2. <<>> \in Seq(Nat \X Nat)
  BY EmptySeq
<1>3. RowStart \in RowStates
  BY <1>1, <1>2 DEF RowStart, RowStates
<1>4. /\ RowStart.next = 0 /\ RowStart.skip = 0 /\ RowStart.start = 0
      /\ RowStart.bounds = <<>> /\ DOMAIN RowStart.bounds = {}
  BY DEF RowStart
<1>5. QED
  BY <1>3, <1>4 DEF Inside

(* The bytes of a text are read one after another.                         *)
LEMMA RowStateIs ==
    ASSUME NEW d \in Dialects, NEW nls \in Patterns, NEW data \in Seq(Byte)
    PROVE  RowReads(d, nls, data)
<1> DEFINE m == Len(data)
           OneMore(g) == [n \in 0..m |-> IF n = 0 THEN RowStart
                                         ELSE RowByte(d, nls, data, g[n - 1], n - 1)]
           step == [n \in 1..m |-> [st \in RowStates |-> RowByte(d, nls, data, st, n - 1)]]
           read == RowState(d, nls, data)
<1>1. m \in Nat
  BY LenProperties
<1>2. RowStart \in RowStates /\ Inside(RowStart, 0, m)
  BY <1>1, RowStartTyping
<1>3. ASSUME NEW st \in RowStates, NEW n \in 1..m
      PROVE  RowByte(d, nls, data, st, n - 1) \in RowStates
  <2>1. n - 1 \in 0..Len(data) - 1
    BY <1>1
  <2>2. QED
    BY <2>1, RowByteTyping
<1>4. step \in [1..m -> [RowStates -> RowStates]]
  BY <1>3
<1>5. PICK f \in [0..m -> RowStates] :
         f[0] = RowStart /\ \A n \in 1..m : f[n] = step[n][f[n - 1]]
  <2>1. Readings(m, RowStates, RowStart, step) # {}
    <3> HIDE DEF step, m
    <3>1. QED
      BY <1>1, <1>2, <1>4, ReadingExists
  <2>2. QED
    BY <2>1 DEF Readings
<1>6. f = OneMore(f)
  <2>1. \A n \in 0..m : n # 0 => n \in 1..m /\ n - 1 \in 0..m
    BY <1>1
  <2>2. \A n \in 1..m : f[n] = RowByte(d, nls, data, f[n - 1], n - 1)
    <3>1. \A n \in 1..m : n - 1 \in 0..m
      BY <1>1
    <3>2. QED
      BY <1>5, <3>1
  <2>3. \A n \in 0..m : f[n] = OneMore(f)[n]
    BY <1>5, <2>1, <2>2
  <2>4. QED
    BY <2>3
<1>7. read = OneMore(read)
  <2>1. read = CHOOSE g : g = OneMore(g)
    BY DEF RowState
  <2> HIDE DEF OneMore, read
  <2>2. QED
    BY <1>6, <2>1, Zenon
<1> HIDE DEF read
<1>8. read[0] = RowStart /\ \A n \in 1..m : read[n] = RowByte(d, nls, data, read[n - 1], n - 1)
  <2>1. \A n \in 0..m : read[n] = OneMore(read)[n]
    BY <1>7
  <2>2. 0 \in 0..m /\ \A n \in 1..m : n \in 0..m /\ n # 0
    BY <1>1
  <2>3. QED
    BY <2>1, <2>2
<1>9. \A n \in 0..m - 1 : read[n + 1] = RowByte(d, nls, data, read[n], n)
  <2>1. \A n \in 0..m - 1 : n + 1 \in 1..m /\ (n + 1) - 1 = n
    BY <1>1
  <2>2. QED
    BY <1>8, <2>1
<1>10. \A n \in 0..m : read[n] \in RowStates /\ Inside(read[n], n, m)
  <2> DEFINE P == {n \in 0..m : read[n] \in RowStates /\ Inside(read[n], n, m)}
  <2>1. 0 \in P
    BY <1>1, <1>2, <1>8
  <2>2. ASSUME NEW n \in 1..m, n - 1 \in P
        PROVE  n \in P
    <3>1. n - 1 \in 0..m - 1 /\ (n - 1) + 1 = n
      BY <1>1
    <3>2. read[n - 1] \in RowStates /\ Inside(read[n - 1], n - 1, m)
      BY <2>2
    <3>3. read[n] \in RowStates /\ Inside(read[n], (n - 1) + 1, m)
      <4>1. read[n] = RowByte(d, nls, data, read[n - 1], n - 1)
        BY <1>8
      <4>2. QED
        BY <3>1, <3>2, <4>1, RowByteTyping
    <3>4. QED
      BY <3>1, <3>3
  <2> HIDE DEF P
  <2>3. \A n \in 0..m : n \in P
    BY <1>1, <2>1, <2>2, UpTo
  <2>4. QED
    BY <2>3 DEF P
<1>11. QED
  BY <1>8, <1>9, <1>10 DEF RowReads, read

(* The rest of a pattern is skipped.                                       *)
SkipRuns(d, nls, data, i) ==
    LET read == RowState(d, nls, data)
        skip == read[i].skip
    IN  /\ skip \in Nat /\ i + skip \in 0..Len(data)
        /\ read[i + skip] = [read[i] EXCEPT !.skip = 0]

LEMMA SkipRun ==
    ASSUME NEW d \in Dialects, NEW nls \in Patterns, NEW data \in Seq(Byte),
           NEW i \in 0..Len(data), RowState(d, nls, data)[i].next = 0
    PROVE  SkipRuns(d, nls, data, i)
<1> DEFINE read == RowState(d, nls, data)
           st == read[i]
           m == st.skip
           len == Len(data)
<1>1. RowReads(d, nls, data)
  BY RowStateIs
<1>2. st \in RowStates /\ Inside(st, i, len) /\ len \in Nat /\ i \in Nat
  BY <1>1, LenProperties DEF RowReads
<1>3. m \in Nat /\ i + m <= len
  <2>1. m \in Nat
    BY <1>2 DEF RowStates
  <2>2. QED
    BY <1>2, <2>1 DEF Inside
<1> HIDE DEF read
<1>4. \A k \in 0..m : k \in {n \in 0..m : read[i + n] = [st EXCEPT !.skip = m - n]}
  <2> DEFINE P == {n \in 0..m : read[i + n] = [st EXCEPT !.skip = m - n]}
  <2>1. 0 \in P
    <3>1. st = [st EXCEPT !.skip = m]
      BY <1>2 DEF RowStates
    <3>2. i + 0 = i /\ m - 0 = m /\ 0 \in 0..m
      BY <1>2, <1>3
    <3> HIDE DEF m
    <3>3. QED
      BY <3>1, <3>2
  <2>2. ASSUME NEW n \in 1..m, n - 1 \in P
        PROVE  n \in P
    <3> DEFINE j == i + (n - 1)
               w == read[j]
    <3>1. j \in 0..len - 1 /\ j + 1 = i + n /\ j \in 0..Len(data)
      BY <1>2, <1>3
    <3>2. w = [st EXCEPT !.skip = m - (n - 1)]
      BY <2>2
    <3>3. w \in RowStates
      BY <1>1, <3>1 DEF RowReads, read
    <3>4. read[j + 1] = RowByte(d, nls, data, w, j)
      BY <1>1, <3>1 DEF RowReads, read
    <3>5. w.next = 0 /\ w.skip = m - (n - 1) /\ w.skip > 0
      <4>1. w.next = st.next /\ w.skip = m - (n - 1)
        BY <1>2, <3>2 DEF RowStates
      <4>2. QED
        BY <1>3, <4>1 DEF read
    <3>6. RowByte(d, nls, data, w, j) = [w EXCEPT !.skip = w.skip - 1]
      <4>1. RowSteps(d, nls, data, j, w)
        BY <3>1, <3>3, RowByteIs
      <4>2. QED
        BY <3>5, <4>1 DEF RowSteps
    <3>7. [w EXCEPT !.skip = w.skip - 1] = [st EXCEPT !.skip = m - n]
      <4>1. w.skip - 1 = m - n
        BY <1>3, <3>5
      <4> HIDE DEF w, m
      <4>2. QED
        BY <1>2, <3>2, <4>1 DEF RowStates
    <3>8. read[i + n] = [st EXCEPT !.skip = m - n]
      <4>1. read[j + 1] = [st EXCEPT !.skip = m - n]
        BY <3>4, <3>6, <3>7
      <4>2. QED
        BY <3>1, <4>1
    <3>9. n \in 0..m
      BY <1>3
    <3> HIDE DEF m
    <3>10. QED
      BY <3>8, <3>9
  <2> HIDE DEF P
  <2>3. \A n \in 0..m : n \in P
    BY <1>3, <2>1, <2>2, UpTo
  <2>4. QED
    BY <2>3 DEF P
<1>5. read[i + m] = [st EXCEPT !.skip = 0]
  <2>1. m \in 0..m /\ m - m = 0
    BY <1>3
  <2>2. read[i + m] = [st EXCEPT !.skip = m - m]
    BY <1>4, <2>1
  <2>3. QED
    BY <2>1, <2>2
<1>6. QED
  BY <1>2, <1>3, <1>5 DEF read, SkipRuns

(* A row that has ended stays as it is.                                    *)
LEMMA DoneRun ==
    ASSUME NEW d \in Dialects, NEW nls \in Patterns, NEW data \in Seq(Byte),
           NEW i \in 0..Len(data), RowState(d, nls, data)[i].next > 0
    PROVE  RowState(d, nls, data)[Len(data)] = RowState(d, nls, data)[i]
<1> DEFINE read == RowState(d, nls, data)
           len == Len(data)
           P == {n \in 0..len - i : read[i + n] = read[i]}
<1>1. RowReads(d, nls, data)
  BY RowStateIs
<1>2. len \in Nat /\ i \in Nat /\ i <= len
  BY LenProperties
<1>3. 0 \in P
  BY <1>2
<1>4. ASSUME NEW n \in 1..len - i, n - 1 \in P
      PROVE  n \in P
  <2> DEFINE j == i + (n - 1)
  <2>1. j \in 0..len - 1 /\ j + 1 = i + n /\ j \in 0..Len(data)
    BY <1>2
  <2>2. read[j] = read[i] /\ read[j] \in RowStates /\ read[j].next > 0
    BY <1>1, <1>4, <2>1 DEF RowReads
  <2>3. read[j + 1] = RowByte(d, nls, data, read[j], j)
    BY <1>1, <2>1 DEF RowReads
  <2>4. RowSteps(d, nls, data, j, read[j])
    BY <2>1, <2>2, RowByteIs
  <2>5. read[j + 1] = read[j]
    BY <2>2, <2>3, <2>4 DEF RowSteps
  <2>6. QED
    BY <2>1, <2>2, <2>5
<1> HIDE DEF P
<1>5. len - i \in Nat /\ len - i \in 0..len - i
  BY <1>2
<1>6. \A n \in 0..len - i : n \in P
  BY <1>3, <1>4, <1>5, UpTo
<1>7. read[i + (len - i)] = read[i]
  BY <1>5, <1>6 DEF P
<1>8. i + (len - i) = len
  BY <1>2
<1>9. QED
  BY <1>7, <1>8

(* What a token that is met between two patterns does.                     *)
TokenRuns(d, nls, data, i) ==
    LET read  == RowState(d, nls, data)
        st    == read[i]
        token == TokenAt(d, nls, data, i, st.quote.in_quotes)
        c     == ConsumeEscape(d, st.quote, data, i)
        n     == MatchSeparator(d, data, i)
    IN  /\ token \in Tokens
        /\ token = "escape" =>
              /\ i + c.len \in 0..Len(data)
              /\ read[i + c.len] = [st EXCEPT !.quote = c.quote]
        /\ token = "quoted" => read[i + 1] = st
        /\ token = "separator" =>
              /\ i + n \in 0..Len(data)
              /\ read[i + n] = [st EXCEPT !.bounds = Append(@, <<st.start, i>>),
                                          !.start  = i + n,
                                          !.quote  = OnDelimiter(@)]
        /\ token = "newline" =>
              read[Len(data)] = AfterNewline(st, FieldEnd(d, data, st.start, i),
                                             i + MatchLength(nls, data, i))
        /\ token = "data" => read[i + 1] = AfterData(st, i)

LEMMA TokenRun ==
    ASSUME NEW d \in Dialects, NEW nls \in Patterns, NEW data \in Seq(Byte),
           NEW i \in 0..Len(data) - 1,
           RowState(d, nls, data)[i].next = 0, RowState(d, nls, data)[i].skip = 0
    PROVE  TokenRuns(d, nls, data, i)
<1> DEFINE read  == RowState(d, nls, data)
           st    == read[i]
           token == TokenAt(d, nls, data, i, st.quote.in_quotes)
           c     == ConsumeEscape(d, st.quote, data, i)
           n     == MatchSeparator(d, data, i)
           len   == Len(data)
           w     == read[i + 1]
<1>1. /\ len \in Nat /\ i \in Nat /\ i \in 0..Len(data) /\ i + 1 \in 0..Len(data)
      /\ i + 1 <= len
  BY LenProperties
<1>2. RowReads(d, nls, data)
  BY RowStateIs
<1>3. st \in RowStates /\ w = RowByte(d, nls, data, st, i) /\ w \in RowStates
  BY <1>1, <1>2 DEF RowReads
<1>4. RowSteps(d, nls, data, i, st)
  BY <1>1, <1>3, RowByteIs
<1>5. token \in Tokens
  BY <1>4 DEF RowSteps
<1>6. st.quote \in QuoteStates /\ st.quote.in_quotes \in BOOLEAN
  BY <1>3 DEF RowStates, QuoteStates
<1>7. CASE token = "escape"
  <2>1. w = AfterEscape(d, st, data, i)
    BY <1>3, <1>4, <1>7 DEF RowSteps
  <2>2. StartsWith(data, i, d.escape)
    BY <1>1, <1>6, <1>7, TokenKinds
  <2>3. c.len \in Nat \ {0} /\ i + c.len <= len
    BY <1>1, <1>6, <2>2, EscapeLength
  <2>4. w.next = 0 /\ w.skip = c.len - 1 /\ [w EXCEPT !.skip = 0] = [st EXCEPT !.quote = c.quote]
    <3>1. w = [st EXCEPT !.quote = c.quote, !.skip = c.len - 1]
      BY <2>1 DEF AfterEscape
    <3> HIDE DEF w, c, st
    <3>2. QED
      BY <1>3, <3>1 DEF RowStates, st
  <2>5. /\ (i + 1) + w.skip = i + c.len /\ i + c.len \in 0..len
    <3> HIDE DEF w, c, st, len
    <3>1. QED
      BY <1>1, <2>3, <2>4
  <2>6. read[(i + 1) + w.skip] = [w EXCEPT !.skip = 0]
    <3>1. SkipRuns(d, nls, data, i + 1)
      BY <1>1, <2>4, SkipRun
    <3>2. QED
      BY <3>1 DEF SkipRuns
  <2>7. read[i + c.len] = [st EXCEPT !.quote = c.quote]
    BY <2>4, <2>5, <2>6
  <2>8. QED
    BY <1>5, <1>7, <2>5, <2>7 DEF TokenRuns
<1>8. CASE token = "quoted"
  <2>1. w = st
    BY <1>3, <1>4, <1>8 DEF RowSteps
  <2>2. QED
    BY <1>5, <1>8, <2>1 DEF TokenRuns
<1>9. CASE token = "separator"
  <2> DEFINE b == Append(st.bounds, <<st.start, i>>)
             r == [st EXCEPT !.bounds = Append(@, <<st.start, i>>),
                             !.start  = i + n,
                             !.quote  = OnDelimiter(@)]
  <2>1. w = AfterSeparator(st, i, n)
    BY <1>3, <1>4, <1>9 DEF RowSteps
  <2>2. n \in Nat \ {0} /\ i + n <= len
    <3>1. n > 0
      BY <1>1, <1>6, <1>9, TokenKinds
    <3>2. n \in Nat /\ i + n <= len
      BY <1>1, MatchOf, DialectTyping DEF MatchSeparator
    <3>3. QED
      BY <3>1, <3>2
  <2>3. w.next = 0 /\ w.skip = n - 1 /\ [w EXCEPT !.skip = 0] = r
    <3>1. w = [st EXCEPT !.bounds = b, !.start = i + n, !.skip = n - 1,
                         !.quote = OnDelimiter(st.quote)]
      BY <2>1 DEF AfterSeparator
    <3>2. r = [st EXCEPT !.bounds = b, !.start = i + n, !.quote = OnDelimiter(st.quote)]
      OBVIOUS
    <3> HIDE DEF w, n, st, b, r
    <3>3. QED
      BY <1>3, <3>1, <3>2 DEF RowStates, st
  <2>4. (i + 1) + w.skip = i + n /\ i + n \in 0..len
    <3>1. w.skip = n - 1
      BY <2>3
    <3> HIDE DEF w, n, st, len
    <3>2. QED
      BY <1>1, <2>2, <3>1
  <2>5. read[(i + 1) + w.skip] = [w EXCEPT !.skip = 0]
    <3>1. SkipRuns(d, nls, data, i + 1)
      BY <1>1, <2>3, SkipRun
    <3>2. QED
      BY <3>1 DEF SkipRuns
  <2>6. read[i + n] = r
    <3> HIDE DEF r
    <3>1. QED
      BY <2>3, <2>4, <2>5
  <2>7. QED
    BY <1>5, <1>9, <2>4, <2>6 DEF TokenRuns
<1>10. CASE token = "newline"
  <2> DEFINE e == FieldEnd(d, data, st.start, i)
             m == MatchLength(nls, data, i)
  <2>1. w = AfterNewline(st, e, i + m)
    BY <1>3, <1>4, <1>10 DEF RowSteps
  <2>2. m > 0 /\ m \in Nat
    <3>1. m > 0
      BY <1>1, <1>6, <1>10, TokenKinds
    <3>2. m \in Nat
      BY <1>1, MatchOf
    <3>3. QED
      BY <3>1, <3>2
  <2>3. w.next > 0
    <3>1. w.next = i + m
      BY <1>3, <2>1 DEF AfterNewline, RowStates
    <3> HIDE DEF w, m
    <3>2. QED
      BY <1>1, <2>2, <3>1
  <2>4. read[len] = w
    BY <1>1, <2>3, DoneRun
  <2>5. QED
    BY <1>5, <1>10, <2>1, <2>4 DEF TokenRuns
<1>11. CASE token = "data"
  <2>1. w = AfterData(st, i)
    BY <1>3, <1>4, <1>11 DEF RowSteps
  <2>2. QED
    BY <1>5, <1>11, <2>1 DEF TokenRuns
<1>12. QED
  BY <1>5, <1>7, <1>8, <1>9, <1>10, <1>11 DEF Tokens

-----------------------------------------------------------------------------
(* Two texts that agree from two places on.                                *)

(* As far as both go.                                                      *)
Agree(s, a, t, b) ==
    \A j \in 1..Len(s) - a : j <= Len(t) - b => s[a + j] = t[b + j]

LEMMA AgreeBack ==
    ASSUME NEW s \in Seq(Byte), NEW a \in 0..Len(s), NEW t \in Seq(Byte), NEW b \in 0..Len(t),
           Agree(s, a, t, b)
    PROVE  Agree(t, b, s, a)
<1>1. Len(s) \in Nat /\ Len(t) \in Nat /\ a \in Nat /\ b \in Nat
  BY LenProperties
<1>2. ASSUME NEW j \in 1..Len(t) - b, j <= Len(s) - a
      PROVE  t[b + j] = s[a + j]
  <2>1. j \in 1..Len(s) - a /\ j <= Len(t) - b
    BY <1>1, <1>2
  <2>2. QED
    BY <2>1 DEF Agree
<1>3. QED
  BY <1>2 DEF Agree

LEMMA AgreeOn ==
    ASSUME NEW s \in Seq(Byte), NEW a \in 0..Len(s), NEW t \in Seq(Byte), NEW b \in 0..Len(t),
           Agree(s, a, t, b), NEW n \in Nat
    PROVE  Agree(s, a + n, t, b + n)
<1>1. Len(s) \in Nat /\ Len(t) \in Nat /\ a \in Nat /\ b \in Nat
  BY LenProperties
<1>2. ASSUME NEW j \in 1..Len(s) - (a + n), j <= Len(t) - (b + n)
      PROVE  s[(a + n) + j] = t[(b + n) + j]
  <2>1. n + j \in 1..Len(s) - a /\ n + j <= Len(t) - b
    BY <1>1, <1>2
  <2>2. s[a + (n + j)] = t[b + (n + j)]
    BY <2>1 DEF Agree
  <2>3. a + (n + j) = (a + n) + j /\ b + (n + j) = (b + n) + j
    BY <1>1
  <2>4. QED
    BY <2>2, <2>3
<1>3. QED
  BY <1>2 DEF Agree

(* A pattern stands in both if it fits.                                    *)
LEMMA PatternFits ==
    ASSUME NEW s \in Seq(Byte), NEW a \in 0..Len(s), NEW t \in Seq(Byte), NEW b \in 0..Len(t),
           Agree(s, a, t, b), NEW p \in Seq(Byte),
           StartsWith(s, a, p), Len(p) <= Len(t) - b
    PROVE  StartsWith(t, b, p)
<1>1. Len(s) \in Nat /\ Len(t) \in Nat /\ a \in Nat /\ b \in Nat /\ Len(p) \in Nat
  BY LenProperties
<1>2. a + Len(p) <= Len(s) /\ \A j \in 1..Len(p) : s[a + j] = p[j]
  BY StandsAt
<1>3. ASSUME NEW j \in 1..Len(p)
      PROVE  t[b + j] = p[j]
  <2>1. j \in 1..Len(s) - a /\ j <= Len(t) - b
    BY <1>1, <1>2
  <2>2. QED
    BY <1>2, <2>1 DEF Agree
<1>4. b + Len(p) <= Len(t)
  BY <1>1
<1>5. QED
  BY <1>3, <1>4, StandsAt

(* A text that goes on has the same patterns, unless it ended within one.  *)
LEMMA PatternExtended ==
    ASSUME NEW s \in Seq(Byte), NEW a \in 0..Len(s), NEW t \in Seq(Byte), NEW b \in 0..Len(t),
           Agree(s, a, t, b), Len(s) - a <= Len(t) - b, NEW p \in Seq(Byte),
           ~PartialSuffix(s, a, p)
    PROVE  StartsWith(t, b, p) <=> StartsWith(s, a, p)
<1>1. Len(s) \in Nat /\ Len(t) \in Nat /\ a \in Nat /\ b \in Nat /\ Len(p) \in Nat
  BY LenProperties
<1>2. ASSUME StartsWith(s, a, p)
      PROVE  StartsWith(t, b, p)
  <2>1. Len(p) <= Len(t) - b
    <3>1. a + Len(p) <= Len(s)
      BY <1>2, StandsAt
    <3>2. QED
      BY <1>1, <3>1
  <2>2. QED
    BY <1>2, <2>1, PatternFits
<1>3. ASSUME StartsWith(t, b, p)
      PROVE  StartsWith(s, a, p)
  <2>1. CASE Len(p) <= Len(s) - a
    <3>1. Agree(t, b, s, a)
      BY AgreeBack
    <3>2. QED
      BY <1>3, <2>1, <3>1, PatternFits
  <2>2. CASE Len(s) - a < Len(p)
    <3>1. \A j \in 1..Len(p) : t[b + j] = p[j]
      BY <1>3, StandsAt
    <3>2. ASSUME NEW j \in 1..Len(s) - a
          PROVE  s[a + j] = p[j]
      <4>1. j \in 1..Len(p) /\ j <= Len(t) - b
        BY <1>1, <2>2
      <4>2. QED
        BY <3>1, <4>1 DEF Agree
    <3>3. PartialSuffix(s, a, p)
      BY <2>2, <3>2, EndsWithin
    <3>4. QED
      BY <3>3
  <2>3. QED
    BY <1>1, <2>1, <2>2
<1>4. QED
  BY <1>2, <1>3

(* And the same match.                                                     *)
LEMMA MatchExtended ==
    ASSUME NEW s \in Seq(Byte), NEW a \in 0..Len(s), NEW t \in Seq(Byte), NEW b \in 0..Len(t),
           Agree(s, a, t, b), Len(s) - a <= Len(t) - b, NEW ps \in Patterns,
           \A k \in DOMAIN ps : ~PartialSuffix(s, a, ps[k])
    PROVE  MatchLength(ps, t, b) = MatchLength(ps, s, a)
<1>1. ASSUME NEW k \in DOMAIN ps
      PROVE  StartsWith(t, b, ps[k]) <=> StartsWith(s, a, ps[k])
  <2>1. ps[k] \in Seq(Byte)
    BY PatternTyping
  <2>2. QED
    BY <2>1, PatternExtended
<1>2. {k \in DOMAIN ps : StartsWith(t, b, ps[k])} = {k \in DOMAIN ps : StartsWith(s, a, ps[k])}
  BY <1>1
<1>3. QED
  BY <1>2, Zenon DEF MatchLength

(* A text that is cut has the same pattern if it fits.                     *)
LEMMA MatchCut ==
    ASSUME NEW s \in Seq(Byte), NEW a \in 0..Len(s), NEW t \in Seq(Byte), NEW b \in 0..Len(t),
           Agree(s, a, t, b), Len(t) - b <= Len(s) - a, NEW ps \in Patterns,
           MatchLength(ps, s, a) <= Len(t) - b
    PROVE  MatchLength(ps, t, b) = MatchLength(ps, s, a)
<1> DEFINE S == {k \in DOMAIN ps : StartsWith(s, a, ps[k])}
           T == {k \in DOMAIN ps : StartsWith(t, b, ps[k])}
<1>0. Len(s) \in Nat /\ Len(t) \in Nat /\ a \in Nat /\ b \in Nat
  BY LenProperties
<1>1. T \subseteq S
  <2>1. ASSUME NEW k \in DOMAIN ps, StartsWith(t, b, ps[k])
        PROVE  StartsWith(s, a, ps[k])
    <3>1. ps[k] \in Seq(Byte) /\ Len(ps[k]) \in Nat
      BY PatternTyping
    <3>2. b + Len(ps[k]) <= Len(t)
      BY <2>1, <3>1, StandsAt
    <3>3. Len(ps[k]) <= Len(s) - a /\ Agree(t, b, s, a)
      BY <1>0, <3>1, <3>2, AgreeBack
    <3>4. QED
      BY <2>1, <3>1, <3>3, PatternFits
  <2>2. QED
    BY <2>1
<1>2. S \in SUBSET Nat /\ T \in SUBSET Nat
  BY PatternTyping
<1>3. /\ MatchLength(ps, s, a) = IF S = {} THEN 0 ELSE Len(ps[Min(S)])
      /\ MatchLength(ps, t, b) = IF T = {} THEN 0 ELSE Len(ps[Min(T)])
  BY DEF MatchLength
<1>4. CASE S = {}
  BY <1>1, <1>3, <1>4
<1>5. CASE S # {}
  <2> DEFINE k == Min(S)
  <2>1. k \in S /\ \A j \in S : k <= j
    <3> HIDE DEF S
    <3>1. QED
      BY <1>2, <1>5, LeastOf
  <2>2. k \in DOMAIN ps /\ StartsWith(s, a, ps[k])
    BY <2>1
  <2>3. Len(ps[k]) <= Len(t) - b
    BY <1>3, <1>5
  <2> HIDE DEF k
  <2>4. ps[k] \in Seq(Byte)
    BY <2>2, PatternTyping
  <2>5. StartsWith(t, b, ps[k])
    BY <2>2, <2>3, <2>4, PatternFits
  <2>6. k \in T
    BY <2>2, <2>5
  <2> HIDE DEF S, T
  <2>7. Min(T) = k
    BY <1>1, <1>2, <2>1, <2>6, LeastIs
  <2>8. QED
    BY <1>3, <1>5, <2>6, <2>7 DEF k
<1>6. QED
  BY <1>4, <1>5

(* The same thing stands at both places.                                   *)
SameToken(d, ns, s, a, nt, t, b, in_quotes) ==
    /\ TokenAt(d, nt, t, b, in_quotes) = TokenAt(d, ns, s, a, in_quotes)
    /\ TokenAt(d, ns, s, a, in_quotes) = "separator" =>
          MatchSeparator(d, t, b) = MatchSeparator(d, s, a)
    /\ TokenAt(d, ns, s, a, in_quotes) = "newline" =>
          MatchLength(nt, t, b) = MatchLength(ns, s, a)

(* A token stays when the text goes on, unless it ended within a pattern   *)
(* that would come first.                                                  *)
LEMMA TokenExtended ==
    ASSUME NEW d \in Dialects, NEW nls \in Patterns, NEW in_quotes \in BOOLEAN,
           NEW s \in Seq(Byte), NEW a \in 0..Len(s), NEW t \in Seq(Byte), NEW b \in 0..Len(t),
           Agree(s, a, t, b), Len(s) - a <= Len(t) - b,
           ~PartialSuffix(s, a, d.escape),
           TokenAt(d, nls, s, a, in_quotes) \in {"separator", "newline", "data"} =>
              \A k \in DOMAIN d.separators : ~PartialSuffix(s, a, d.separators[k]),
           TokenAt(d, nls, s, a, in_quotes) \in {"newline", "data"} =>
              \A k \in DOMAIN nls : ~PartialSuffix(s, a, nls[k])
    PROVE  SameToken(d, nls, s, a, nls, t, b, in_quotes)
<1> DEFINE token == TokenAt(d, nls, s, a, in_quotes)
<1>1. StartsWith(t, b, d.escape) <=> StartsWith(s, a, d.escape)
  BY DialectTyping, PatternExtended
<1>2. token \in {"separator", "newline", "data"} =>
         MatchSeparator(d, t, b) = MatchSeparator(d, s, a)
  <2>1. ASSUME token \in {"separator", "newline", "data"}
        PROVE  MatchSeparator(d, t, b) = MatchSeparator(d, s, a)
    <3>1. d.separators \in Patterns
      BY DialectTyping
    <3>2. QED
      BY <2>1, <3>1, MatchExtended DEF MatchSeparator
  <2>2. QED
    BY <2>1
<1>3. token \in {"newline", "data"} => MatchLength(nls, t, b) = MatchLength(nls, s, a)
  BY MatchExtended
<1>4. TokenAt(d, nls, t, b, in_quotes) = token
  <2>1. token \in Tokens
    BY TokenKinds
  <2>2. CASE token = "escape"
    BY <1>1, <2>2, TokenKinds DEF TokenAt
  <2>3. CASE token = "quoted"
    BY <1>1, <2>3, TokenKinds DEF TokenAt
  <2>4. CASE token = "separator"
    BY <1>1, <1>2, <2>4 DEF TokenAt
  <2>5. CASE token = "newline"
    BY <1>1, <1>2, <1>3, <2>5 DEF TokenAt
  <2>6. CASE token = "data"
    BY <1>1, <1>2, <1>3, <2>6 DEF TokenAt
  <2>7. QED
    BY <2>1, <2>2, <2>3, <2>4, <2>5, <2>6 DEF Tokens
<1>5. QED
  BY <1>2, <1>3, <1>4 DEF SameToken

(* A token of a row stays in a line that holds it, where no newlines are   *)
(* looked for.                                                             *)
LEMMA TokenCut ==
    ASSUME NEW d \in Dialects, NEW nls \in Patterns, NEW in_quotes \in BOOLEAN,
           NEW s \in Seq(Byte), NEW a \in 0..Len(s), NEW t \in Seq(Byte), NEW b \in 0..Len(t),
           Agree(s, a, t, b), Len(t) - b <= Len(s) - a,
           TokenAt(d, nls, s, a, in_quotes) # "newline",
           TokenAt(d, nls, s, a, in_quotes) = "escape" => Len(d.escape) <= Len(t) - b,
           TokenAt(d, nls, s, a, in_quotes) = "separator" =>
              MatchSeparator(d, s, a) <= Len(t) - b
    PROVE  SameToken(d, nls, s, a, <<>>, t, b, in_quotes)
<1> DEFINE token == TokenAt(d, nls, s, a, in_quotes)
<1>0. Len(s) \in Nat /\ Len(t) \in Nat /\ a \in Nat /\ b \in Nat
  BY LenProperties
<1>1. token \in Tokens
  BY TokenKinds
<1>2. StartsWith(t, b, d.escape) <=> token = "escape"
  <2>1. d.escape \in Seq(Byte) /\ Len(d.escape) \in Nat
    BY DialectTyping
  <2>2. ASSUME StartsWith(t, b, d.escape)
        PROVE  token = "escape"
    <3>1. b + Len(d.escape) <= Len(t)
      BY <2>1, <2>2, StandsAt
    <3>2. Len(d.escape) <= Len(s) - a /\ Agree(t, b, s, a)
      BY <1>0, <2>1, <3>1, AgreeBack
    <3>3. StartsWith(s, a, d.escape)
      BY <2>1, <2>2, <3>2, PatternFits
    <3>4. QED
      BY <3>3, TokenKinds
  <2>3. ASSUME token = "escape"
        PROVE  StartsWith(t, b, d.escape)
    <3>1. StartsWith(s, a, d.escape)
      BY <2>3, TokenKinds
    <3>2. QED
      BY <2>1, <2>3, <3>1, PatternFits
  <2>4. QED
    BY <2>2, <2>3
<1>3. token \in {"separator", "data"} => MatchSeparator(d, t, b) = MatchSeparator(d, s, a)
  <2>1. d.separators \in Patterns
    BY DialectTyping
  <2>2. token = "data" => MatchSeparator(d, s, a) <= Len(t) - b
    <3>1. token = "data" => ~(MatchSeparator(d, s, a) > 0)
      BY TokenKinds
    <3>2. MatchSeparator(d, s, a) \in Nat
      BY <2>1, MatchOf DEF MatchSeparator
    <3>3. QED
      BY <1>0, <3>1, <3>2
  <2>3. ASSUME token \in {"separator", "data"}
        PROVE  MatchSeparator(d, t, b) = MatchSeparator(d, s, a)
    <3>1. MatchLength(d.separators, s, a) <= Len(t) - b
      BY <2>2, <2>3 DEF MatchSeparator
    <3>2. QED
      BY <2>1, <3>1, MatchCut DEF MatchSeparator
  <2>4. QED
    BY <2>3
<1>4. MatchLength(<<>>, t, b) = 0
  <2>1. DOMAIN <<>> = {}
    OBVIOUS
  <2>2. {k \in DOMAIN <<>> : StartsWith(t, b, <<>>[k])} = {}
    BY <2>1
  <2>3. QED
    BY <2>2 DEF MatchLength
<1>5. TokenAt(d, <<>>, t, b, in_quotes) = token
  <2>2. CASE token = "escape"
    BY <1>2, <2>2 DEF TokenAt
  <2>3. CASE token = "quoted"
    <3>1. in_quotes /\ ~StartsWith(t, b, d.escape)
      BY <1>2, <2>3, TokenKinds
    <3>2. QED
      BY <2>3, <3>1 DEF TokenAt
  <2>4. CASE token = "separator"
    <3>1. ~in_quotes /\ ~StartsWith(t, b, d.escape) /\ MatchSeparator(d, t, b) > 0
      BY <1>2, <1>3, <2>4, TokenKinds
    <3>2. QED
      BY <2>4, <3>1 DEF TokenAt
  <2>6. CASE token = "data"
    <3>1. ~in_quotes /\ ~StartsWith(t, b, d.escape) /\ ~(MatchSeparator(d, t, b) > 0)
      BY <1>2, <1>3, <2>6, TokenKinds
    <3>2. ~(MatchLength(<<>>, t, b) > 0)
      BY <1>4
    <3>3. QED
      BY <2>6, <3>1, <3>2 DEF TokenAt
  <2>7. QED
    BY <1>1, <2>2, <2>3, <2>4, <2>6 DEF Tokens
<1>6. QED
  BY <1>3, <1>5 DEF SameToken

(* The same of an escape that is doubled: it stands in both if it fits,    *)
(* stays when the text goes on, and stays in a line that holds it.         *)
LEMMA DoubledFits ==
    ASSUME NEW d \in Dialects,
           NEW s \in Seq(Byte), NEW a \in 0..Len(s), NEW t \in Seq(Byte), NEW b \in 0..Len(t),
           Agree(s, a, t, b), Doubled(d, s, a), 2 * Len(d.escape) <= Len(t) - b
    PROVE  Doubled(d, t, b)
<1> DEFINE m == Len(d.escape)
<1>1. /\ Len(s) \in Nat /\ Len(t) \in Nat /\ a \in Nat /\ b \in Nat /\ m \in Nat
      /\ d.escape \in Seq(Byte)
  BY LenProperties, DialectTyping
<1>2. StartsWith(s, a, d.escape) /\ StartsWith(s, a + m, d.escape)
  BY DEF Doubled
<1>3. m <= Len(t) - b /\ m <= Len(t) - (b + m) /\ b + m \in 0..Len(t)
  BY <1>1
<1>4. a + m \in 0..Len(s)
  <2>1. a + m <= Len(s)
    BY <1>1, <1>2, StandsAt
  <2>2. QED
    BY <1>1, <2>1
<1>5. StartsWith(t, b, d.escape)
  BY <1>1, <1>2, <1>3, PatternFits
<1>6. Agree(s, a + m, t, b + m)
  BY <1>1, AgreeOn
<1>7. StartsWith(t, b + m, d.escape)
  BY <1>1, <1>2, <1>3, <1>4, <1>6, PatternFits
<1>8. QED
  BY <1>5, <1>7 DEF Doubled

LEMMA DoubledExtended ==
    ASSUME NEW d \in Dialects,
           NEW s \in Seq(Byte), NEW a \in 0..Len(s), NEW t \in Seq(Byte), NEW b \in 0..Len(t),
           Agree(s, a, t, b), Len(s) - a <= Len(t) - b, StartsWith(s, a, d.escape),
           ~Doubled(d, s, a) => ~PartialSuffix(s, a + Len(d.escape), d.escape)
    PROVE  Doubled(d, t, b) <=> Doubled(d, s, a)
<1> DEFINE m == Len(d.escape)
<1>1. /\ Len(s) \in Nat /\ Len(t) \in Nat /\ a \in Nat /\ b \in Nat /\ m \in Nat
      /\ d.escape \in Seq(Byte)
  BY LenProperties, DialectTyping
<1>2. a + m <= Len(s)
  BY <1>1, StandsAt
<1>3. a + m \in 0..Len(s) /\ b + m \in 0..Len(t) /\ Len(s) - (a + m) <= Len(t) - (b + m)
  BY <1>1, <1>2
<1>4. Agree(s, a + m, t, b + m)
  BY <1>1, AgreeOn
<1>5. CASE Doubled(d, s, a)
  <2>1. StartsWith(s, a + m, d.escape)
    BY <1>5 DEF Doubled
  <2>2. (a + m) + m <= Len(s)
    BY <1>1, <1>3, <2>1, StandsAt
  <2>3. 2 * m <= Len(t) - b
    BY <1>1, <2>2
  <2>4. QED
    BY <1>5, <2>3, DoubledFits
<1>6. CASE ~Doubled(d, s, a)
  <2>1. ~StartsWith(s, a + m, d.escape)
    BY <1>6 DEF Doubled
  <2>2. ~StartsWith(t, b + m, d.escape)
    BY <1>1, <1>3, <1>4, <1>6, <2>1, PatternExtended
  <2>3. QED
    BY <1>6, <2>2 DEF Doubled
<1>7. QED
  BY <1>5, <1>6

LEMMA DoubledCut ==
    ASSUME NEW d \in Dialects,
           NEW s \in Seq(Byte), NEW a \in 0..Len(s), NEW t \in Seq(Byte), NEW b \in 0..Len(t),
           Agree(s, a, t, b), Len(t) - b <= Len(s) - a,
           Doubled(d, s, a) => 2 * Len(d.escape) <= Len(t) - b
    PROVE  Doubled(d, t, b) <=> Doubled(d, s, a)
<1>1. ASSUME Doubled(d, t, b)
      PROVE  Doubled(d, s, a)
  <2> DEFINE m == Len(d.escape)
  <2>1. /\ Len(s) \in Nat /\ Len(t) \in Nat /\ a \in Nat /\ b \in Nat /\ m \in Nat
        /\ d.escape \in Seq(Byte)
    BY LenProperties, DialectTyping
  <2>2. StartsWith(t, b, d.escape) /\ StartsWith(t, b + m, d.escape)
    BY <1>1 DEF Doubled
  <2>3. b + m \in 0..Len(t)
    <3>1. b + m <= Len(t)
      BY <2>1, <2>2, StandsAt
    <3>2. QED
      BY <2>1, <3>1
  <2>4. (b + m) + m <= Len(t)
    BY <2>1, <2>2, <2>3, StandsAt
  <2>5. 2 * m <= Len(s) - a
    BY <2>1, <2>4
  <2>6. Agree(t, b, s, a)
    BY AgreeBack
  <2>7. QED
    BY <1>1, <2>5, <2>6, DoubledFits
<1>2. QED
  BY <1>1, DoubledFits

-----------------------------------------------------------------------------
(* The reading after a token that is not a newline, and its width.         *)

(* The reading after a token at place i; n is the width of a separator.    *)
AfterToken(d, st, i, token, doubled, n) ==
    CASE token = "escape"    -> [st EXCEPT !.quote = OnEscape(@, i, doubled)]
      [] token = "quoted"    -> st
      [] token = "separator" -> [st EXCEPT !.bounds = Append(@, <<st.start, i>>),
                                           !.start  = i + n,
                                           !.quote  = OnDelimiter(@)]
      [] token = "data"      -> AfterData(st, i)

(* The bytes of a token.                                                   *)
Width(d, token, doubled, n) ==
    CASE token = "escape"    -> IF doubled THEN 2 * Len(d.escape) ELSE Len(d.escape)
      [] token = "separator" -> n
      [] token \in {"quoted", "data"} -> 1

(* The token at place i of data, met in the reading st.                    *)
Meets(d, nls, data, i, st, token, doubled, n) ==
    /\ RowState(d, nls, data)[i] = st /\ st.next = 0 /\ st.skip = 0
    /\ token = TokenAt(d, nls, data, i, st.quote.in_quotes) /\ token # "newline"
    /\ token = "separator" => n = MatchSeparator(d, data, i)
    /\ token = "escape" => (doubled <=> st.quote.in_quotes /\ Doubled(d, data, i))

(* So many bytes later, this is the reading.                               *)
LEMMA TokenRead ==
    ASSUME NEW d \in Dialects, NEW nls \in Patterns, NEW data \in Seq(Byte),
           NEW i \in 0..Len(data) - 1, NEW st, NEW token, NEW doubled \in BOOLEAN, NEW n,
           Meets(d, nls, data, i, st, token, doubled, n),
           NEW w, w = Width(d, token, doubled, n)
    PROVE  /\ i + w \in 0..Len(data)
           /\ RowState(d, nls, data)[i + w] = AfterToken(d, st, i, token, doubled, n)
<1> DEFINE read == RowState(d, nls, data)
           c    == ConsumeEscape(d, st.quote, data, i)
<1>1. i + 1 \in 0..Len(data)
  BY LenProperties
<1>0. /\ RowState(d, nls, data)[i] = st /\ st.next = 0 /\ st.skip = 0
      /\ token = TokenAt(d, nls, data, i, st.quote.in_quotes) /\ token # "newline"
      /\ token = "separator" => n = MatchSeparator(d, data, i)
      /\ token = "escape" => (doubled <=> st.quote.in_quotes /\ Doubled(d, data, i))
  BY DEF Meets
<1>2. TokenRuns(d, nls, data, i)
  BY <1>0, TokenRun
<1>3. token \in Tokens
  BY <1>0, <1>2 DEF TokenRuns
<1>4. CASE token = "escape"
  <2>1. i + c.len \in 0..Len(data) /\ read[i + c.len] = [st EXCEPT !.quote = c.quote]
    BY <1>0, <1>2, <1>4 DEF TokenRuns
  <2>2. /\ c.quote = OnEscape(st.quote, i, doubled)
        /\ c.len = IF doubled THEN 2 * Len(d.escape) ELSE Len(d.escape)
    <3> DEFINE e == st.quote.in_quotes /\ Doubled(d, data, i)
    <3>1. e = doubled
      <4>1. e \in BOOLEAN /\ (e <=> doubled)
        BY <1>0, <1>4, Zenon
      <4> HIDE DEF e
      <4>2. QED
        BY <4>1
    <3>2. c = [quote |-> OnEscape(st.quote, i, e),
               len   |-> IF e THEN 2 * Len(d.escape) ELSE Len(d.escape)]
      BY Zenon DEF ConsumeEscape
    <3> HIDE DEF e, c
    <3>3. QED
      BY <3>1, <3>2
  <2>3. Width(d, token, doubled, n) = c.len
    BY <1>4, <2>2 DEF Width
  <2>4. AfterToken(d, st, i, token, doubled, n) = [st EXCEPT !.quote = c.quote]
    <3> HIDE DEF c
    <3>1. AfterToken(d, st, i, token, doubled, n) = [st EXCEPT !.quote = OnEscape(st.quote, i, doubled)]
      BY <1>4 DEF AfterToken
    <3>2. QED
      BY <2>2, <3>1
  <2> HIDE DEF c, read
  <2>5. QED
    BY <2>1, <2>3, <2>4 DEF read
<1>5. CASE token = "quoted"
  <2>1. read[i + 1] = st
    BY <1>0, <1>2, <1>5 DEF TokenRuns
  <2>2. Width(d, token, doubled, n) = 1 /\ AfterToken(d, st, i, token, doubled, n) = st
    BY <1>5 DEF Width, AfterToken
  <2>3. QED
    BY <1>1, <2>1, <2>2
<1>6. CASE token = "separator"
  <2>1. /\ i + n \in 0..Len(data)
        /\ read[i + n] = [st EXCEPT !.bounds = Append(@, <<st.start, i>>),
                                    !.start  = i + n,
                                    !.quote  = OnDelimiter(@)]
    BY <1>0, <1>2, <1>6 DEF TokenRuns
  <2>2. /\ Width(d, token, doubled, n) = n
        /\ AfterToken(d, st, i, token, doubled, n)
             = [st EXCEPT !.bounds = Append(@, <<st.start, i>>),
                          !.start  = i + n,
                          !.quote  = OnDelimiter(@)]
    BY <1>6 DEF Width, AfterToken
  <2>3. QED
    BY <2>1, <2>2
<1>7. CASE token = "data"
  <2>1. read[i + 1] = AfterData(st, i)
    BY <1>0, <1>2, <1>7 DEF TokenRuns
  <2>2. Width(d, token, doubled, n) = 1 /\ AfterToken(d, st, i, token, doubled, n) = AfterData(st, i)
    BY <1>7 DEF Width, AfterToken
  <2>3. QED
    BY <1>1, <2>1, <2>2
<1>8. QED
  BY <1>0, <1>3, <1>4, <1>5, <1>6, <1>7 DEF Tokens

-----------------------------------------------------------------------------
(* The reading of a row that holds however the text goes on, and wherever  *)
(* the row is cut off as a line.                                           *)

(* The texts that s may become.                                            *)
Extensions(s) ==
    {t \in Seq(Byte) : Len(s) <= Len(t) /\ \A j \in 1..Len(s) : t[j] = s[j]}

(* The row at from is read up to to, with this result.                     *)
ReadTo(d, s, from, to, st) ==
    /\ st \in RowStates /\ st.next = 0 /\ st.skip = 0
    /\ \A t \in Extensions(s) :
          /\ RowState(d, d.newlines, Suffix(t, from))[to - from] = st
          /\ \A e \in to..Len(t) : RowState(d, <<>>, SubSeq(t, from + 1, e))[to - from] = st

(* What stands at a place will stay, however the text goes on.             *)
Decided(d, s, pos, in_quotes) ==
    LET token == TokenAt(d, d.newlines, s, pos, in_quotes)
    IN  /\ ~PartialSuffix(s, pos, d.escape)
        /\ token = "escape" /\ in_quotes /\ ~Doubled(d, s, pos) =>
              ~PartialSuffix(s, pos + Len(d.escape), d.escape)
        /\ token \in {"separator", "newline", "data"} =>
              \A k \in DOMAIN d.separators : ~PartialSuffix(s, pos, d.separators[k])
        /\ token \in {"newline", "data"} =>
              \A k \in DOMAIN d.newlines : ~PartialSuffix(s, pos, d.newlines[k])

(* A continuation, and a line that is cut from it, agree with the text.    *)
LEMMA ExtensionAgrees ==
    ASSUME NEW s \in Seq(Byte), NEW from \in 0..Len(s), NEW to \in from..Len(s),
           NEW t \in Extensions(s)
    PROVE  /\ t \in Seq(Byte) /\ Len(s) <= Len(t) /\ Len(t) \in Nat
           /\ Suffix(t, from) \in Seq(Byte) /\ Len(Suffix(t, from)) = Len(t) - from
           /\ to - from \in 0..Len(Suffix(t, from))
           /\ Len(s) - to <= Len(Suffix(t, from)) - (to - from)
           /\ Agree(s, to, Suffix(t, from), to - from)
<1>1. t \in Seq(Byte) /\ Len(s) <= Len(t) /\ \A j \in 1..Len(s) : t[j] = s[j]
  BY DEF Extensions
<1>2. Len(s) \in Nat /\ Len(t) \in Nat /\ from \in Nat /\ to \in Nat /\ from <= to /\ to <= Len(s)
  BY <1>1, LenProperties
<1>3. from \in 0..Len(t)
  BY <1>1, <1>2
<1>4. /\ Suffix(t, from) \in Seq(Byte) /\ Len(Suffix(t, from)) = Len(t) - from
      /\ \A j \in 1..Len(t) - from : Suffix(t, from)[j] = t[from + j]
  BY <1>1, <1>3, SuffixOf
<1>5. /\ to - from \in 0..Len(Suffix(t, from))
      /\ Len(s) - to <= Len(Suffix(t, from)) - (to - from)
  BY <1>1, <1>2, <1>4
<1>6. ASSUME NEW j \in 1..Len(s) - to
      PROVE  s[to + j] = Suffix(t, from)[(to - from) + j]
  <2>1. (to - from) + j \in 1..Len(t) - from /\ from + ((to - from) + j) = to + j /\ to + j \in 1..Len(s)
    BY <1>1, <1>2
  <2>2. Suffix(t, from)[(to - from) + j] = t[to + j]
    BY <1>4, <2>1
  <2>3. QED
    BY <1>1, <2>1, <2>2
<1>7. QED
  BY <1>1, <1>2, <1>4, <1>5, <1>6 DEF Agree

LEMMA LineAgrees ==
    ASSUME NEW t \in Seq(Byte), NEW from \in 0..Len(t), NEW to \in from..Len(t), NEW e \in to..Len(t)
    PROVE  /\ SubSeq(t, from + 1, e) \in Seq(Byte) /\ Len(SubSeq(t, from + 1, e)) = e - from
           /\ to - from \in 0..Len(SubSeq(t, from + 1, e))
           /\ Len(SubSeq(t, from + 1, e)) - (to - from) = e - to
           /\ e - to <= Len(Suffix(t, from)) - (to - from)
           /\ Agree(Suffix(t, from), to - from, SubSeq(t, from + 1, e), to - from)
<1> DEFINE u == Suffix(t, from)
           v == SubSeq(t, from + 1, e)
<1>1. Len(t) \in Nat /\ from \in Nat /\ to \in Nat /\ e \in Nat /\ from <= to /\ to <= e /\ e <= Len(t)
  BY LenProperties
<1>2. u \in Seq(Byte) /\ Len(u) = Len(t) - from /\ \A j \in 1..Len(t) - from : u[j] = t[from + j]
  BY SuffixOf
<1>3. v \in Seq(Byte) /\ Len(v) = e - from /\ \A j \in 1..e - from : v[j] = t[from + j]
  <2>1. e \in from..Len(t)
    BY <1>1
  <2>2. QED
    BY <2>1, PartOf
<1> HIDE DEF u, v
<1>4. ASSUME NEW j \in 1..Len(u) - (to - from), j <= Len(v) - (to - from)
      PROVE  u[(to - from) + j] = v[(to - from) + j]
  <2>1. (to - from) + j \in 1..Len(t) - from /\ (to - from) + j \in 1..e - from
    BY <1>1, <1>2, <1>3, <1>4
  <2>2. QED
    BY <1>2, <1>3, <2>1
<1>5. Agree(u, to - from, v, to - from)
  BY <1>4 DEF Agree
<1>6. to - from \in 0..Len(v) /\ Len(v) - (to - from) = e - to /\ e - to <= Len(u) - (to - from)
  BY <1>1, <1>2, <1>3
<1>7. QED
  BY <1>3, <1>5, <1>6 DEF u, v

(* A token that is decided is the same in every continuation.              *)
LEMMA DecidedToken ==
    ASSUME NEW d \in Dialects, NEW s \in Seq(Byte), NEW from \in 0..Len(s),
           NEW to \in from..Len(s), NEW in_quotes \in BOOLEAN,
           Decided(d, s, to, in_quotes), NEW t \in Extensions(s)
    PROVE  LET data == Suffix(t, from)
           IN  /\ SameToken(d, d.newlines, s, to, d.newlines, data, to - from, in_quotes)
               /\ TokenAt(d, d.newlines, s, to, in_quotes) = "escape" =>
                     (in_quotes /\ Doubled(d, data, to - from)
                        <=> in_quotes /\ Doubled(d, s, to))
<1> DEFINE data == Suffix(t, from)
           token == TokenAt(d, d.newlines, s, to, in_quotes)
           b == to - from
<1>1. /\ data \in Seq(Byte) /\ b \in 0..Len(data) /\ Len(s) - to <= Len(data) - b
      /\ Agree(s, to, data, b)
  BY ExtensionAgrees
<1>2. to \in 0..Len(s) /\ d.newlines \in Patterns
  BY LenProperties, DialectTyping
<1> HIDE DEF data, b
<1>3. /\ ~PartialSuffix(s, to, d.escape)
      /\ token = "escape" /\ in_quotes /\ ~Doubled(d, s, to) =>
            ~PartialSuffix(s, to + Len(d.escape), d.escape)
      /\ token \in {"separator", "newline", "data"} =>
            \A k \in DOMAIN d.separators : ~PartialSuffix(s, to, d.separators[k])
      /\ token \in {"newline", "data"} =>
            \A k \in DOMAIN d.newlines : ~PartialSuffix(s, to, d.newlines[k])
  BY DEF Decided
<1>4. SameToken(d, d.newlines, s, to, d.newlines, data, b, in_quotes)
  BY <1>1, <1>2, <1>3, TokenExtended
<1>5. ASSUME token = "escape", in_quotes
      PROVE  Doubled(d, data, b) <=> Doubled(d, s, to)
  <2>1. StartsWith(s, to, d.escape)
    BY <1>2, <1>5, TokenKinds
  <2>2. QED
    BY <1>1, <1>2, <1>3, <1>5, <2>1, DoubledExtended
<1>6. QED
  BY <1>4, <1>5 DEF data, b

(* A token that is decided is read alike in every continuation of the text *)
(* and in every line that holds it.                                        *)
LEMMA ReadOn ==
    ASSUME NEW d \in Dialects, NEW s \in Seq(Byte), NEW from \in 0..Len(s),
           NEW to \in from..Len(s) - 1, NEW st, ReadTo(d, s, from, to, st),
           Decided(d, s, to, st.quote.in_quotes),
           NEW token, token = TokenAt(d, d.newlines, s, to, st.quote.in_quotes),
           token # "newline",
           NEW doubled \in BOOLEAN, doubled <=> st.quote.in_quotes /\ Doubled(d, s, to),
           NEW n, n = MatchSeparator(d, s, to),
           NEW w, w = Width(d, token, doubled, n)
    PROVE  /\ w \in Nat \ {0} /\ to + w <= Len(s)
           /\ ReadTo(d, s, from, to + w, AfterToken(d, st, to - from, token, doubled, n))
<1> DEFINE in_quotes == st.quote.in_quotes
           i == to - from
           m == Len(d.escape)
           after == AfterToken(d, st, i, token, doubled, n)
<1>1. /\ st \in RowStates /\ st.next = 0 /\ st.skip = 0 /\ in_quotes \in BOOLEAN
      /\ st.quote \in QuoteStates
  BY DEF ReadTo, RowStates, QuoteStates
<1>2. /\ Len(s) \in Nat /\ from \in Nat /\ to \in Nat /\ from <= to /\ to < Len(s)
      /\ to \in from..Len(s) /\ to \in 0..Len(s) /\ i \in Nat /\ from + i = to
  BY LenProperties
<1>3. /\ d.newlines \in Patterns /\ <<>> \in Patterns /\ d.escape \in Seq(Byte)
      /\ m \in Nat \ {0} /\ d.separators \in Patterns
  BY DialectTyping
<1>4. token \in Tokens
  BY <1>1, <1>2, <1>3, TokenKinds
<1>5. n \in Nat /\ to + n <= Len(s) /\ (token = "separator" => n > 0)
  <2>1. n \in Nat /\ to + n <= Len(s)
    BY <1>2, <1>3, MatchOf DEF MatchSeparator
  <2>2. token = "separator" => n > 0
    BY <1>1, <1>2, <1>3, TokenKinds
  <2>3. QED
    BY <2>1, <2>2
<1>6. /\ w \in Nat \ {0} /\ to + w <= Len(s)
      /\ token = "escape" => m <= w
      /\ token = "escape" /\ doubled => w = 2 * m
      /\ token = "separator" => w = n
  <2>1. CASE token = "escape"
    <3>1. StartsWith(s, to, d.escape)
      <4>1. token = TokenAt(d, d.newlines, s, to, in_quotes)
        OBVIOUS
      <4> HIDE DEF in_quotes, i, m, after
      <4>2. TokenAt(d, d.newlines, s, to, in_quotes) = "escape" <=> StartsWith(s, to, d.escape)
        BY <1>1, <1>2, <1>3, TokenKinds
      <4>3. QED
        BY <2>1, <4>1, <4>2
    <3>2. to + m <= Len(s)
      BY <1>2, <1>3, <3>1, StandsAt
    <3>3. w = IF doubled THEN 2 * m ELSE m
      BY <2>1 DEF Width
    <3>4. doubled => (to + m) + m <= Len(s)
      <4>1. ASSUME doubled
            PROVE  (to + m) + m <= Len(s)
        <5>1. StartsWith(s, to + m, d.escape) /\ to + m \in 0..Len(s)
          BY <1>2, <1>3, <3>2, <4>1 DEF Doubled
        <5>2. QED
          BY <1>3, <5>1, StandsAt
      <4>2. QED
        BY <4>1
    <3> HIDE DEF m
    <3>5. CASE doubled
      <4>1. w = 2 * m /\ (to + m) + m <= Len(s)
        BY <3>3, <3>4, <3>5
      <4>2. w \in Nat \ {0} /\ to + w <= Len(s) /\ m <= w
        BY <1>2, <1>3, <4>1
      <4>3. QED
        BY <2>1, <4>1, <4>2
    <3>6. CASE ~doubled
      BY <1>2, <1>3, <2>1, <3>2, <3>3, <3>6
    <3>7. QED
      BY <3>5, <3>6
  <2>2. CASE token = "separator"
    <3>1. w = n
      BY <2>2 DEF Width
    <3>2. QED
      BY <1>5, <2>2, <3>1
  <2>3. CASE token \in {"quoted", "data"}
    <3>1. w = 1
      BY <2>3 DEF Width
    <3>2. QED
      BY <1>2, <2>3, <3>1
  <2>4. QED
    BY <1>4, <2>1, <2>2, <2>3 DEF Tokens
<1>7. (to + w) - from = i + w
  BY <1>2, <1>6
<1>8. ASSUME NEW t \in Extensions(s)
      PROVE  /\ RowState(d, d.newlines, Suffix(t, from))[i + w] = after
             /\ \A e \in to + w..Len(t) : RowState(d, <<>>, SubSeq(t, from + 1, e))[i + w] = after
  <2> DEFINE data == Suffix(t, from)
  <2>1. /\ t \in Seq(Byte) /\ Len(s) <= Len(t) /\ Len(t) \in Nat
        /\ data \in Seq(Byte) /\ Len(data) = Len(t) - from /\ i \in 0..Len(data)
    BY <1>2, ExtensionAgrees
  <2>2. i \in 0..Len(data) - 1
    BY <1>2, <2>1
  <2>3. RowState(d, d.newlines, data)[i] = st
    BY DEF ReadTo
  <2>4. /\ SameToken(d, d.newlines, s, to, d.newlines, data, i, in_quotes)
        /\ token = "escape" => (in_quotes /\ Doubled(d, data, i) <=> doubled)
    BY <1>1, <1>2, DecidedToken
  <2> HIDE DEF data
  <2>5. /\ token = TokenAt(d, d.newlines, data, i, in_quotes)
        /\ token = "separator" => n = MatchSeparator(d, data, i)
        /\ token = "escape" => (doubled <=> st.quote.in_quotes /\ Doubled(d, data, i))
    BY <2>4 DEF SameToken
  <2>6. RowState(d, d.newlines, data)[i + w] = after
    <3>1. Meets(d, d.newlines, data, i, st, token, doubled, n)
      BY <1>1, <2>3, <2>5 DEF Meets
    <3> HIDE DEF i
    <3>2. QED
      BY <1>3, <2>1, <2>2, <3>1, TokenRead, SMTT(60)
  <2>7. ASSUME NEW e \in to + w..Len(t)
        PROVE  RowState(d, <<>>, SubSeq(t, from + 1, e))[i + w] = after
    <3> DEFINE line == SubSeq(t, from + 1, e)
    <3>0. /\ e \in to..Len(t) /\ from \in 0..Len(t) /\ to \in from..Len(t) /\ e \in Nat
          /\ w <= e - to
      BY <1>2, <1>6, <2>1
    <3>1. /\ line \in Seq(Byte) /\ Len(line) = e - from /\ i \in 0..Len(line)
          /\ Len(line) - i = e - to /\ e - to <= Len(data) - i
          /\ Agree(data, i, line, i)
      BY <2>1, <3>0, LineAgrees DEF data
    <3>2. RowState(d, <<>>, line)[i] = st
      BY <3>0 DEF ReadTo
    <3> HIDE DEF line, m
    <3>3. Len(line) - i <= Len(data) - i /\ w <= Len(line) - i /\ i \in 0..Len(line) - 1
      BY <1>2, <1>6, <3>0, <3>1
    <3>4. token = "escape" => m <= Len(line) - i
      <4>1. token = "escape" => m <= w
        BY <1>6
      <4>2. m \in Nat /\ w \in Nat /\ Len(line) - i \in Int
        BY <1>3, <1>6, <3>3
      <4>3. QED
        BY <3>3, <4>1, <4>2
    <3>5. token = "separator" => MatchSeparator(d, data, i) <= Len(line) - i
      BY <1>6, <2>5, <3>3
    <3>6. SameToken(d, d.newlines, data, i, <<>>, line, i, in_quotes)
      BY <1>1, <1>3, <2>1, <2>5, <3>1, <3>3, <3>4, <3>5, TokenCut DEF m
    <3>7. /\ token = TokenAt(d, <<>>, line, i, in_quotes)
          /\ token = "separator" => n = MatchSeparator(d, line, i)
      BY <2>5, <3>6 DEF SameToken
    <3>8. token = "escape" => (doubled <=> in_quotes /\ Doubled(d, line, i))
      <4>1. ASSUME token = "escape", in_quotes
            PROVE  Doubled(d, line, i) <=> doubled
        <5>1. Doubled(d, data, i) <=> doubled
          BY <2>4, <4>1
        <5>2. doubled => 2 * m <= Len(line) - i
          BY <1>6, <3>3, <4>1
        <5>3. Doubled(d, line, i) <=> Doubled(d, data, i)
          BY <2>1, <3>1, <3>3, <5>1, <5>2, DoubledCut DEF m
        <5>4. QED
          BY <5>1, <5>3
      <4>2. QED
        BY <4>1
    <3>9. RowState(d, <<>>, line)[i + w] = after
      <4>1. Meets(d, <<>>, line, i, st, token, doubled, n)
        BY <1>1, <3>2, <3>7, <3>8 DEF Meets
      <4> HIDE DEF i
      <4>2. QED
        BY <1>3, <3>1, <3>3, <4>1, TokenRead
    <3>10. QED
      BY <3>9 DEF line
  <2>8. QED
    BY <2>6, <2>7 DEF data
<1>9. after \in RowStates
  <2>1. s \in Extensions(s)
    BY <1>2 DEF Extensions
  <2>2. Suffix(s, from) \in Seq(Byte) /\ Len(Suffix(s, from)) = Len(s) - from
    BY <1>2, SuffixOf
  <2>3. i + w \in 0..Len(Suffix(s, from))
    BY <1>2, <1>6, <2>2
  <2>4. RowReads(d, d.newlines, Suffix(s, from))
    BY <1>3, <2>2, RowStateIs
  <2>5. QED
    BY <1>8, <2>1, <2>3, <2>4 DEF RowReads
<1>10. after.next = 0 /\ after.skip = 0
  <2>1. CASE token = "escape"
    BY <1>1, <2>1 DEF AfterToken, RowStates
  <2>2. CASE token = "quoted"
    BY <1>1, <2>2 DEF AfterToken
  <2>3. CASE token = "separator"
    BY <1>1, <2>3 DEF AfterToken, RowStates
  <2>4. CASE token = "data"
    BY <1>1, <2>4 DEF AfterToken, AfterData, RowStates
  <2>5. QED
    BY <1>4, <2>1, <2>2, <2>3, <2>4 DEF Tokens
<1> HIDE DEF after
<1>11. ReadTo(d, s, from, to + w, after)
  BY <1>7, <1>8, <1>9, <1>10 DEF ReadTo
<1>12. QED
  BY <1>6, <1>11 DEF after

(* A newline that is decided ends the row in every continuation of the     *)
(* text.                                                                   *)
LEMMA ReadNewline ==
    ASSUME NEW d \in Dialects, NEW s \in Seq(Byte), NEW from \in 0..Len(s),
           NEW to \in from..Len(s) - 1, NEW st, ReadTo(d, s, from, to, st),
           Decided(d, s, to, st.quote.in_quotes),
           TokenAt(d, d.newlines, s, to, st.quote.in_quotes) = "newline",
           NEW n, n = MatchNewline(d, s, to), NEW t \in Extensions(s)
    PROVE  /\ n \in Nat \ {0} /\ to + n <= Len(s)
           /\ RowState(d, d.newlines, Suffix(t, from))[Len(Suffix(t, from))]
                = AfterNewline(st, FieldEnd(d, Suffix(t, from), st.start, to - from),
                               (to - from) + n)
<1> DEFINE in_quotes == st.quote.in_quotes
           i == to - from
           data == Suffix(t, from)
<1>1. /\ st \in RowStates /\ st.next = 0 /\ st.skip = 0 /\ in_quotes \in BOOLEAN
  BY DEF ReadTo, RowStates, QuoteStates
<1>2. /\ Len(s) \in Nat /\ from \in Nat /\ to \in Nat /\ from <= to /\ to < Len(s)
      /\ to \in from..Len(s) /\ to \in 0..Len(s) /\ i \in Nat
  BY LenProperties
<1>3. d.newlines \in Patterns
  BY DialectTyping
<1>4. n \in Nat \ {0} /\ to + n <= Len(s)
  <2>1. n \in Nat /\ to + n <= Len(s)
    BY <1>2, <1>3, MatchOf DEF MatchNewline
  <2>2. n > 0
    BY <1>1, <1>2, <1>3, TokenKinds DEF MatchNewline
  <2>3. QED
    BY <2>1, <2>2
<1>5. /\ Len(s) <= Len(t) /\ Len(t) \in Nat
      /\ data \in Seq(Byte) /\ Len(data) = Len(t) - from
  BY <1>2, ExtensionAgrees
<1>6. i \in 0..Len(data) - 1
  BY <1>2, <1>5
<1>7. RowState(d, d.newlines, data)[i] = st
  BY DEF ReadTo
<1>8. SameToken(d, d.newlines, s, to, d.newlines, data, i, in_quotes)
  BY <1>1, <1>2, DecidedToken
<1> HIDE DEF data
<1>9. /\ TokenAt(d, d.newlines, data, i, in_quotes) = "newline"
      /\ MatchLength(d.newlines, data, i) = n
  BY <1>8 DEF SameToken, MatchNewline
<1>10. TokenRuns(d, d.newlines, data, i)
  BY <1>1, <1>3, <1>5, <1>6, <1>7, TokenRun
<1>11. RowState(d, d.newlines, data)[Len(data)]
         = AfterNewline(st, FieldEnd(d, data, st.start, i), i + n)
  BY <1>7, <1>9, <1>10 DEF TokenRuns
<1>12. QED
  BY <1>4, <1>11 DEF data

-----------------------------------------------------------------------------
(* The end of a row.                                                       *)

(* Where no newline stands, looking for newlines makes no difference.      *)
LEMMA TailSame ==
    ASSUME NEW d \in Dialects, NEW data \in Seq(Byte), NEW i \in 0..Len(data),
           RowState(d, d.newlines, data)[i] = RowState(d, <<>>, data)[i],
           RowState(d, <<>>, data)[i].next = 0,
           \A j \in i..Len(data) - 1 : ~(MatchLength(d.newlines, data, j) > 0)
    PROVE  /\ RowState(d, d.newlines, data)[Len(data)] = RowState(d, <<>>, data)[Len(data)]
           /\ RowState(d, <<>>, data)[Len(data)].next = 0
<1> DEFINE with == RowState(d, d.newlines, data)
           less == RowState(d, <<>>, data)
           len  == Len(data)
           P    == {n \in 0..len - i : with[i + n] = less[i + n] /\ less[i + n].next = 0}
<1>1. d.newlines \in Patterns /\ <<>> \in Patterns
  BY DialectTyping
<1>2. RowReads(d, d.newlines, data) /\ RowReads(d, <<>>, data)
  BY <1>1, RowStateIs
<1>3. len \in Nat /\ i \in Nat /\ i <= len
  BY LenProperties
<1>4. 0 \in P
  BY <1>3
<1>5. ASSUME NEW n \in 1..len - i, n - 1 \in P
      PROVE  n \in P
  <2> DEFINE j == i + (n - 1)
             st == less[j]
             q == st.quote.in_quotes
             a == RowByte(d, <<>>, data, st, j)
             b == RowByte(d, d.newlines, data, st, j)
  <2>1. j \in 0..len - 1 /\ j + 1 = i + n /\ j \in 0..Len(data) /\ j \in i..Len(data) - 1
    BY <1>3
  <2>2. with[j] = st /\ st.next = 0 /\ st \in RowStates
    BY <1>2, <1>5, <2>1 DEF RowReads
  <2>3. less[j + 1] = a /\ with[j + 1] = b /\ a \in RowStates
    <3>1. j + 1 \in 0..Len(data)
      BY <1>3, <2>1
    <3>2. QED
      BY <1>2, <2>1, <2>2, <3>1 DEF RowReads
  <2>4. RowSteps(d, <<>>, data, j, st) /\ RowSteps(d, d.newlines, data, j, st)
    BY <1>1, <2>1, <2>2, RowByteIs
  <2>5. st.skip \in Nat /\ q \in BOOLEAN
    BY <2>2 DEF RowStates, QuoteStates
  <2>6. ~(MatchLength(d.newlines, data, j) > 0) /\ ~(MatchLength(<<>>, data, j) > 0)
    <3>1. MatchLength(<<>>, data, j) = 0
      <4>1. DOMAIN <<>> = {}
        OBVIOUS
      <4>2. {k \in DOMAIN <<>> : StartsWith(data, j, <<>>[k])} = {}
        BY <4>1
      <4>3. QED
        BY <4>2 DEF MatchLength
    <3>2. QED
      BY <2>1, <3>1
  <2> HIDE DEF j, with, less
  <2>7. TokenAt(d, d.newlines, data, j, q) = TokenAt(d, <<>>, data, j, q)
    BY <2>6, Zenon DEF TokenAt
  <2>8. a = b /\ a.next = 0
    <3>1. CASE st.skip > 0
      <4>1. a = [st EXCEPT !.skip = @ - 1] /\ b = [st EXCEPT !.skip = @ - 1]
        BY <2>2, <2>4, <3>1 DEF RowSteps
      <4>2. QED
        BY <2>2, <4>1 DEF RowStates
    <3>2. CASE st.skip = 0
      <4> DEFINE token == TokenAt(d, <<>>, data, j, q)
      <4>1. token \in Tokens /\ token # "newline"
        <5>1. token \in Tokens
          BY <2>2, <2>4, <3>2 DEF RowSteps
        <5>2. token # "newline"
          BY <1>1, <2>1, <2>5, <2>6, TokenKinds
        <5>3. QED
          BY <5>1, <5>2
      <4>2. CASE token = "escape"
        <5>1. a = AfterEscape(d, st, data, j) /\ b = AfterEscape(d, st, data, j)
          BY <2>2, <2>4, <2>7, <3>2, <4>2 DEF RowSteps
        <5>2. QED
          BY <2>2, <5>1 DEF RowStates, AfterEscape
      <4>3. CASE token = "quoted"
        BY <2>2, <2>4, <2>7, <3>2, <4>3 DEF RowSteps
      <4>4. CASE token = "separator"
        <5>1. /\ a = AfterSeparator(st, j, MatchSeparator(d, data, j))
              /\ b = AfterSeparator(st, j, MatchSeparator(d, data, j))
          BY <2>2, <2>4, <2>7, <3>2, <4>4 DEF RowSteps
        <5>2. QED
          BY <2>2, <5>1 DEF RowStates, AfterSeparator
      <4>5. CASE token = "data"
        <5>1. a = AfterData(st, j) /\ b = AfterData(st, j)
          BY <2>2, <2>4, <2>7, <3>2, <4>5 DEF RowSteps
        <5>2. QED
          BY <2>2, <5>1 DEF RowStates, AfterData
      <4>6. QED
        BY <4>1, <4>2, <4>3, <4>4, <4>5 DEF Tokens
    <3>3. QED
      BY <2>5, <3>1, <3>2
  <2>9. with[i + n] = less[i + n] /\ less[i + n].next = 0
    <3> HIDE DEF a, b
    <3>1. QED
      BY <2>1, <2>3, <2>8
  <2>10. QED
    BY <1>3, <2>9 DEF with, less
<1> HIDE DEF P
<1>6. len - i \in Nat /\ len - i \in 0..len - i
  BY <1>3
<1>7. \A n \in 0..len - i : n \in P
  BY <1>4, <1>5, <1>6, UpTo
<1>8. with[i + (len - i)] = less[i + (len - i)] /\ less[i + (len - i)].next = 0
  BY <1>6, <1>7 DEF P
<1>9. i + (len - i) = len
  BY <1>3
<1>10. QED
  BY <1>8, <1>9

(* A violation that is met stays.                                          *)
LEMMA QuoteKeeps ==
    ASSUME NEW q \in QuoteStates, q.violation # NoViolation, NEW pos, NEW doubled
    PROVE  /\ OnEscape(q, pos, doubled).violation = q.violation
           /\ OnDelimiter(q).violation = q.violation
           /\ OnData(q, pos).violation = q.violation
<1>1. OnEscape(q, pos, doubled).violation = q.violation
  BY DEF OnEscape, QuoteStates, FirstOf
<1>2. OnDelimiter(q).violation = q.violation
  BY DEF OnDelimiter, QuoteStates
<1>3. OnData(q, pos).violation = q.violation
  BY DEF OnData, QuoteStates, FirstOf
<1>4. QED
  BY <1>1, <1>2, <1>3

LEMMA ViolationKept ==
    ASSUME NEW d \in Dialects, NEW nls \in Patterns, NEW data \in Seq(Byte),
           NEW i \in 0..Len(data), RowState(d, nls, data)[i].quote.violation # NoViolation
    PROVE  RowState(d, nls, data)[Len(data)].quote.violation
             = RowState(d, nls, data)[i].quote.violation
<1> DEFINE read == RowState(d, nls, data)
           len  == Len(data)
           v    == read[i].quote.violation
           P    == {n \in 0..len - i : read[i + n].quote.violation = v}
<1>1. RowReads(d, nls, data)
  BY RowStateIs
<1>2. len \in Nat /\ i \in Nat /\ i <= len
  BY LenProperties
<1>3. 0 \in P
  BY <1>2
<1>4. ASSUME NEW n \in 1..len - i, n - 1 \in P
      PROVE  n \in P
  <2> DEFINE j == i + (n - 1)
             st == read[j]
             a == RowByte(d, nls, data, st, j)
             token == TokenAt(d, nls, data, j, st.quote.in_quotes)
  <2>1. j \in 0..len - 1 /\ j + 1 = i + n /\ j \in 0..Len(data)
    BY <1>2
  <2>2. st \in RowStates /\ read[j + 1] = a
    BY <1>1, <2>1 DEF RowReads
  <2>3. st.quote.violation = v /\ v # NoViolation
    BY <1>4
  <2>4. RowSteps(d, nls, data, j, st)
    BY <2>1, <2>2, RowByteIs
  <2>5. st.skip \in Nat /\ st.next \in Nat /\ st.quote \in QuoteStates
    BY <2>2 DEF RowStates
  <2> HIDE DEF j, st, v, a, token
  <2>6. /\ OnDelimiter(st.quote).violation = v
        /\ OnData(st.quote, j).violation = v
        /\ ConsumeEscape(d, st.quote, data, j).quote.violation = v
    <3> DEFINE e == st.quote.in_quotes /\ Doubled(d, data, j)
    <3>1. ConsumeEscape(d, st.quote, data, j)
            = [quote |-> OnEscape(st.quote, j, e),
               len   |-> IF e THEN 2 * Len(d.escape) ELSE Len(d.escape)]
      BY Zenon DEF ConsumeEscape
    <3> HIDE DEF e
    <3>2. ConsumeEscape(d, st.quote, data, j).quote = OnEscape(st.quote, j, e)
      BY <3>1
    <3>3. /\ OnEscape(st.quote, j, e).violation = st.quote.violation
          /\ OnDelimiter(st.quote).violation = st.quote.violation
          /\ OnData(st.quote, j).violation = st.quote.violation
      BY <2>3, <2>5, QuoteKeeps
    <3>4. QED
      BY <2>3, <3>2, <3>3
  <2>7. a.quote.violation = v
    <3>1. CASE st.next > 0
      BY <2>3, <2>4, <3>1 DEF RowSteps, a
    <3>2. CASE st.next = 0 /\ st.skip > 0
      <4>1. a = [st EXCEPT !.skip = @ - 1]
        BY <2>4, <3>2 DEF RowSteps, a
      <4>2. QED
        BY <2>2, <2>3, <4>1 DEF RowStates
    <3>3. CASE st.next = 0 /\ st.skip = 0
      <4>1. token \in Tokens
        BY <2>4, <3>3 DEF RowSteps, token
      <4>2. CASE token = "escape"
        <5>1. a = AfterEscape(d, st, data, j)
          BY <2>4, <3>3, <4>2 DEF RowSteps, a, token
        <5>2. QED
          BY <2>2, <2>6, <5>1 DEF RowStates, AfterEscape
      <4>3. CASE token = "quoted"
        BY <2>3, <2>4, <3>3, <4>3 DEF RowSteps, a, token
      <4>4. CASE token = "separator"
        <5>1. a = AfterSeparator(st, j, MatchSeparator(d, data, j))
          BY <2>4, <3>3, <4>4 DEF RowSteps, a, token
        <5>2. QED
          BY <2>2, <2>6, <5>1 DEF RowStates, AfterSeparator
      <4>5. CASE token = "newline"
        <5>1. a = AfterNewline(st, FieldEnd(d, data, st.start, j), j + MatchLength(nls, data, j))
          BY <2>4, <3>3, <4>5 DEF RowSteps, a, token
        <5>2. QED
          BY <2>2, <2>6, <5>1 DEF RowStates, AfterNewline
      <4>6. CASE token = "data"
        <5>1. a = AfterData(st, j)
          BY <2>4, <3>3, <4>6 DEF RowSteps, a, token
        <5>2. QED
          BY <2>2, <2>6, <5>1 DEF RowStates, AfterData
      <4>7. QED
        BY <4>1, <4>2, <4>3, <4>4, <4>5, <4>6 DEF Tokens
    <3>4. QED
      BY <2>5, <3>1, <3>2, <3>3
  <2>8. n \in 0..len - i
    BY <1>2
  <2>9. QED
    BY <2>1, <2>2, <2>7, <2>8 DEF v
<1> HIDE DEF P
<1>5. len - i \in Nat /\ len - i \in 0..len - i
  BY <1>2
<1>6. \A n \in 0..len - i : n \in P
  BY <1>3, <1>4, <1>5, UpTo
<1>7. read[i + (len - i)].quote.violation = v
  BY <1>5, <1>6 DEF P
<1>8. i + (len - i) = len
  BY <1>2
<1>9. QED
  BY <1>7, <1>8

-----------------------------------------------------------------------------
(* Rows and the values of their fields.                                    *)

(* What reading a row returns.                                             *)
Rows == [bounds : Seq(Nat \X Nat), next : Nat, open : BOOLEAN, violation : Violation]

(* It ends behind its first byte and within the data, and so do its        *)
(* fields.                                                                 *)
LEMMA ReadRowTyping ==
    ASSUME NEW d \in Dialects, NEW nls \in Patterns, NEW data \in Seq(Byte), data # <<>>
    PROVE  /\ ReadRow(d, nls, data) \in Rows
           /\ ReadRow(d, nls, data).next \in 1..Len(data)
           /\ \A k \in DOMAIN ReadRow(d, nls, data).bounds :
                 ReadRow(d, nls, data).bounds[k][2] <= Len(data)
<1> DEFINE len == Len(data)
           st  == RowState(d, nls, data)[len]
           row == ReadRow(d, nls, data)
<1>1. len \in Nat \ {0} /\ len \in 0..len
  BY EmptySeq
<1>2. RowReads(d, nls, data)
  BY RowStateIs
<1>3. st \in RowStates /\ Inside(st, len, len)
  BY <1>1, <1>2 DEF RowReads
<1> HIDE DEF st
<1>4. /\ st.next \in Nat /\ st.start \in Nat /\ st.quote \in QuoteStates
      /\ st.bounds \in Seq(Nat \X Nat) /\ st.quote.in_quotes \in BOOLEAN
  BY <1>3 DEF RowStates, QuoteStates
<1>5. CASE st.next > 0
  <2>1. row = [bounds |-> st.bounds, next |-> st.next, open |-> FALSE,
               violation |-> Finish(st.quote, st.next)]
    BY <1>5 DEF ReadRow, st
  <2>2. Finish(st.quote, st.next) \in Violation
    BY <1>4, FinishTyping
  <2>3. st.next \in 1..len
    BY <1>1, <1>3, <1>4, <1>5 DEF Inside
  <2>4. \A k \in DOMAIN st.bounds : st.bounds[k][2] <= len
    BY <1>3 DEF Inside
  <2> HIDE DEF row, len
  <2>5. QED
    BY <1>4, <2>1, <2>2, <2>3, <2>4 DEF Rows, row, len
<1>6. CASE ~(st.next > 0)
  <2> DEFINE b == Append(st.bounds, <<st.start, len>>)
  <2>1. row = [bounds |-> b, next |-> len, open |-> st.quote.in_quotes,
               violation |-> Finish(st.quote, len)]
    BY <1>6 DEF ReadRow, st
  <2>2. Finish(st.quote, len) \in Violation
    BY <1>1, <1>4, FinishTyping
  <2>3. b \in Seq(Nat \X Nat)
    BY <1>1, <1>4
  <2>4. \A k \in DOMAIN b : b[k][2] <= len
    <3> DEFINE N == Nat \X Nat
               e == <<st.start, len>>
    <3>1. e \in N /\ e[2] = len /\ st.bounds \in Seq(N)
      BY <1>1, <1>4
    <3> HIDE DEF N, e
    <3>2. /\ Append(st.bounds, e) \in Seq(N)
          /\ Len(Append(st.bounds, e)) = Len(st.bounds) + 1
          /\ \A k \in 1..Len(st.bounds) : Append(st.bounds, e)[k] = st.bounds[k]
          /\ Append(st.bounds, e)[Len(st.bounds) + 1] = e
      BY <3>1, AppendProperties
    <3>3. /\ DOMAIN Append(st.bounds, e) = 1..Len(st.bounds) + 1
          /\ DOMAIN st.bounds = 1..Len(st.bounds) /\ Len(st.bounds) \in Nat
      BY <3>1, <3>2, LenProperties
    <3>4. ASSUME NEW k \in DOMAIN Append(st.bounds, e)
          PROVE  Append(st.bounds, e)[k][2] <= len
      <4>1. CASE k = Len(st.bounds) + 1
        BY <1>1, <3>1, <3>2, <4>1
      <4>2. CASE k # Len(st.bounds) + 1
        <5>1. k \in 1..Len(st.bounds)
          BY <3>3, <4>2
        <5>2. st.bounds[k][2] <= len
          BY <1>3, <3>3, <5>1 DEF Inside
        <5>3. QED
          BY <3>2, <5>1, <5>2
      <4>3. QED
        BY <4>1, <4>2
    <3>5. QED
      BY <3>4 DEF e
  <2>5. len \in 1..len
    BY <1>1
  <2> HIDE DEF row, len, b
  <2>6. QED
    BY <1>4, <2>1, <2>2, <2>3, <2>4, <2>5 DEF Rows, row, len
<1>7. QED
  BY <1>5, <1>6

(* The row at from that ends in front of next has the fields and the       *)
(* violation of line.                                                      *)
RowIsLine(d, text, from, next, line) ==
    LET row == RowAt(d, text, from)
    IN  /\ row \in Rows /\ row.next = next
        /\ row.violation = Rebase(ReadLine(d, line).violation, from)
        /\ [j \in DOMAIN row.bounds |-> FieldValue(d, text, row.bounds[j])]
             = LineFields(d, line)

(* The bytes of text between two places.                                   *)
LineOf(text, from, to, line) == line = SubSeq(text, from + 1, to)

(* The bounds <<p, q>> of text are <<a, b>> of a part of it.               *)
MovedBounds(a, b, p, q, from) == p = a + from /\ q = b + from

(* A field of a row has the value that it has in the line.                 *)
LEMMA FieldMoves ==
    ASSUME NEW d, NEW text \in Seq(Byte), NEW from \in 0..Len(text), NEW to \in from..Len(text),
           NEW a \in Nat, NEW b \in Nat, b <= to - from,
           NEW p, NEW q, MovedBounds(a, b, p, q, from), NEW line, LineOf(text, from, to, line)
    PROVE  FieldValue(d, text, <<p, q>>) = FieldValue(d, line, <<a, b>>)
<1>1. /\ Len(text) \in Nat /\ from \in Nat /\ to \in Nat /\ from <= to /\ to <= Len(text)
  BY LenProperties
<1>2. line \in Seq(Byte) /\ Len(line) = to - from /\ \A j \in 1..to - from : line[j] = text[from + j]
  BY PartOf DEF LineOf
<1>30. p = a + from /\ q = b + from
  BY DEF MovedBounds
<1>3. CASE a < b
  <2> DEFINE u == SubSeq(text, (a + from) + 1, b + from)
             v == SubSeq(line, a + 1, b)
  <2>1. a + from \in 0..Len(text) /\ b + from \in a + from..Len(text)
    BY <1>1, <1>3
  <2>2. /\ u \in Seq(Byte) /\ Len(u) = (b + from) - (a + from)
        /\ \A j \in 1..(b + from) - (a + from) : u[j] = text[(a + from) + j]
    BY <2>1, PartOf
  <2>3. a \in 0..Len(line) /\ b \in a..Len(line)
    BY <1>1, <1>2, <1>3
  <2>4. v \in Seq(Byte) /\ Len(v) = b - a /\ \A j \in 1..b - a : v[j] = line[a + j]
    BY <1>2, <2>3, PartOf
  <2> HIDE DEF u, v
  <2>5. (b + from) - (a + from) = b - a
    BY <1>1
  <2>6. ASSUME NEW j \in 1..b - a
        PROVE  u[j] = v[j]
    <3>1. (a + from) + j = from + (a + j) /\ a + j \in 1..to - from
      BY <1>1
    <3>2. QED
      BY <1>2, <2>2, <2>4, <2>5, <3>1
  <2>7. u = v
    BY <2>2, <2>4, <2>5, <2>6, SeqEqual
  <2>8. /\ FieldValue(d, text, <<p, q>>) = ExtractField(d, u)
        /\ FieldValue(d, line, <<a, b>>) = ExtractField(d, v)
    <3>1. ~(a + from >= b + from) /\ ~(a >= b)
      BY <1>1, <1>3
    <3>2. QED
      BY <1>30, <3>1 DEF FieldValue, u, v
  <2>9. QED
    BY <2>7, <2>8
<1>4. CASE ~(a < b)
  <2>1. a + from >= b + from /\ a >= b
    BY <1>1, <1>4
  <2>2. QED
    BY <1>30, <2>1 DEF FieldValue
<1>5. QED
  BY <1>3, <1>4

(* A row that is moved is a row.                                           *)
LEMMA ShiftTyping ==
    ASSUME NEW row \in Rows, NEW from \in Nat
    PROVE  /\ Shift(row, from) \in Rows
           /\ Shift(row, from).next = row.next + from
           /\ DOMAIN Shift(row, from).bounds = DOMAIN row.bounds
<1> DEFINE b == row.bounds
           shifted == [k \in DOMAIN b |-> <<b[k][1] + from, b[k][2] + from>>]
           moved == Shift(row, from)
<1>1. moved = [bounds |-> shifted, next |-> row.next + from, open |-> row.open,
               violation |-> Rebase(row.violation, from)]
  BY DEF Shift
<1>2. /\ b \in Seq(Nat \X Nat) /\ row.next \in Nat /\ row.open \in BOOLEAN
      /\ row.violation \in Violation
  BY DEF Rows
<1>3. /\ DOMAIN b = 1..Len(b) /\ Len(b) \in Nat
      /\ \A k \in DOMAIN b : b[k] \in Nat \X Nat
  BY <1>2, ElementOfSeq, LenProperties
<1> HIDE DEF b
<1>4. shifted \in Seq(Nat \X Nat) /\ DOMAIN shifted = DOMAIN b
  <2>1. ASSUME NEW k \in 1..Len(b)
        PROVE  <<b[k][1] + from, b[k][2] + from>> \in Nat \X Nat
    <3>1. b[k][1] \in Nat /\ b[k][2] \in Nat
      BY <1>3
    <3>2. b[k][1] + from \in Nat /\ b[k][2] + from \in Nat
      <4> DEFINE x == b[k][1]
                 y == b[k][2]
      <4>1. x \in Nat /\ y \in Nat
        BY <3>1
      <4> HIDE DEF x, y
      <4>2. x + from \in Nat /\ y + from \in Nat
        BY <4>1
      <4>3. QED
        BY <4>2 DEF x, y
    <3>3. QED
      BY <3>2
  <2>2. shifted \in [1..Len(b) -> Nat \X Nat]
    BY <1>3, <2>1
  <2>3. QED
    BY <1>3, <2>2
<1>5. Rebase(row.violation, from) \in Violation
  BY <1>2, RebaseTyping
<1>6. row.next + from \in Nat
  BY <1>2
<1> HIDE DEF shifted, moved
<1>7. moved \in Rows /\ moved.next = row.next + from /\ moved.bounds = shifted
  BY <1>1, <1>2, <1>4, <1>5, <1>6 DEF Rows
<1>8. QED
  BY <1>4, <1>7 DEF moved, b

(* A row of a text whose fields are those of a line, moved.                *)
LEMMA RowMoves ==
    ASSUME NEW d \in Dialects, NEW text \in Seq(Byte), NEW from \in 0..Len(text),
           NEW to \in from..Len(text), NEW next \in Nat, NEW row,
           row = ReadRow(d, d.newlines, Suffix(text, from)), row \in Rows, next = row.next + from,
           NEW line, LineOf(text, from, to, line),
           ReadLine(d, line).bounds = row.bounds,
           ReadLine(d, line).violation = row.violation,
           \A k \in DOMAIN row.bounds : row.bounds[k][2] <= to - from
    PROVE  RowIsLine(d, text, from, next, line)
<1> DEFINE b == row.bounds
           shifted == [k \in DOMAIN b |-> <<b[k][1] + from, b[k][2] + from>>]
           moved == RowAt(d, text, from)
<1>1. moved = [bounds |-> shifted, next |-> row.next + from, open |-> row.open,
               violation |-> Rebase(row.violation, from)]
  BY DEF RowAt, Shift
<1>2. /\ b \in Seq(Nat \X Nat) /\ row.next \in Nat /\ row.open \in BOOLEAN
      /\ row.violation \in Violation /\ from \in Nat
  BY DEF Rows
<1>20. from \in Nat
  BY <1>2
<1>3. /\ DOMAIN b = 1..Len(b) /\ Len(b) \in Nat
      /\ \A k \in DOMAIN b : b[k] \in Nat \X Nat
  BY <1>2, ElementOfSeq, LenProperties
<1> HIDE DEF b
<1>4. moved \in Rows /\ moved.next = next /\ DOMAIN shifted = DOMAIN b
  <2>1. moved = Shift(row, from)
    BY DEF RowAt
  <2>2. moved \in Rows /\ moved.next = row.next + from
    BY <1>20, <2>1, ShiftTyping
  <2>3. QED
    BY <2>2
<1>7. moved.violation = Rebase(ReadLine(d, line).violation, from)
  BY <1>1
<1>8. [j \in DOMAIN moved.bounds |-> FieldValue(d, text, moved.bounds[j])] = LineFields(d, line)
  <2>1. ASSUME NEW j \in DOMAIN b
        PROVE  FieldValue(d, text, shifted[j]) = FieldValue(d, line, b[j])
    <3>1. b[j] = <<b[j][1], b[j][2]>> /\ b[j][1] \in Nat /\ b[j][2] \in Nat
      BY <1>3
    <3>2. b[j][2] <= to - from
      BY DEF b
    <3>3. FieldValue(d, text, <<b[j][1] + from, b[j][2] + from>>)
            = FieldValue(d, line, <<b[j][1], b[j][2]>>)
      <4> DEFINE x == b[j][1]
                 y == b[j][2]
                 p == x + from
                 q == y + from
      <4>1. x \in Nat /\ y \in Nat /\ y <= to - from /\ MovedBounds(x, y, p, q, from)
        BY <3>1, <3>2 DEF MovedBounds
      <4> HIDE DEF x, y, p, q
      <4>2. FieldValue(d, text, <<p, q>>) = FieldValue(d, line, <<x, y>>)
        BY <4>1, FieldMoves
      <4>3. QED
        BY <4>2 DEF x, y, p, q
    <3>4. shifted[j] = <<b[j][1] + from, b[j][2] + from>>
      OBVIOUS
    <3>5. QED
      BY <3>1, <3>3, <3>4
  <2>2. moved.bounds = shifted
    BY <1>1
  <2>3. LineFields(d, line) = [j \in DOMAIN b |-> FieldValue(d, line, b[j])]
    BY DEF LineFields, b
  <2> HIDE DEF shifted, moved
  <2>4. QED
    BY <1>4, <2>1, <2>2, <2>3
<1>9. QED
  BY <1>4, <1>7, <1>8 DEF RowIsLine

-----------------------------------------------------------------------------
(* A row that a newline ends is the line before the newline.               *)

LEMMA RowEnded ==
    ASSUME NEW d \in Dialects, NEW s \in Seq(Byte), NEW from \in 0..Len(s),
           NEW to \in from..Len(s) - 1, NEW st, ReadTo(d, s, from, to, st),
           Decided(d, s, to, st.quote.in_quotes),
           TokenAt(d, d.newlines, s, to, st.quote.in_quotes) = "newline",
           NEW n, n = MatchNewline(d, s, to), NEW t \in Extensions(s),
           FieldEnd(d, Suffix(t, from), st.start, to - from) = to - from,
           NEW next, next = to + n, NEW line, LineOf(t, from, to, line)
    PROVE  /\ RowIsLine(d, t, from, next, line)
           /\ ReadLine(d, line).violation = st.quote.violation
<1> DEFINE data == Suffix(t, from)
           len  == Len(data)
           r    == to - from
           row  == ReadRow(d, d.newlines, data)
           last == RowState(d, d.newlines, data)[len]
           b    == Append(st.bounds, <<st.start, r>>)
<1>1. /\ Len(s) \in Nat /\ from \in Nat /\ to \in Nat /\ from <= to /\ to < Len(s)
      /\ from \in 0..Len(s) /\ to \in from..Len(s)
  BY LenProperties
<1>2. /\ t \in Seq(Byte) /\ Len(s) <= Len(t) /\ Len(t) \in Nat
      /\ data \in Seq(Byte) /\ len = Len(t) - from /\ r \in 0..len
  BY <1>1, ExtensionAgrees
<1>3. /\ st \in RowStates /\ st.next = 0
      /\ RowState(d, d.newlines, data)[r] = st
      /\ \A e \in to..Len(t) : RowState(d, <<>>, SubSeq(t, from + 1, e))[r] = st
  BY DEF ReadTo
<1>4. /\ n \in Nat \ {0} /\ to + n <= Len(s)
      /\ last = AfterNewline(st, r, r + n)
  BY ReadNewline
<1>5. /\ st.quote \in QuoteStates /\ st.start \in Nat /\ st.bounds \in Seq(Nat \X Nat)
      /\ st.quote.in_quotes \in BOOLEAN /\ st.quote.violation \in Violation
  BY <1>3 DEF RowStates, QuoteStates
<1>6. ~st.quote.in_quotes
  <2>1. /\ d.newlines \in Patterns /\ to \in 0..Len(s)
    BY <1>1, DialectTyping
  <2>2. QED
    BY <1>5, <2>1, TokenKinds
<1>7. r \in Nat /\ r + n \in Nat /\ r + n > 0
  BY <1>1, <1>4
<1>8. /\ row.bounds = b /\ row.next = r + n /\ row.violation = st.quote.violation
  <2>1. /\ last.next = r + n /\ last.bounds = b /\ last.quote = OnDelimiter(st.quote)
    BY <1>3, <1>4 DEF AfterNewline, RowStates
  <2> HIDE DEF last, b
  <2>2. row = [bounds |-> last.bounds, next |-> last.next, open |-> FALSE,
               violation |-> Finish(last.quote, last.next)]
    BY <1>7, <2>1 DEF ReadRow, last
  <2>3. Finish(OnDelimiter(st.quote), last.next) = st.quote.violation
    BY <1>5, <1>6 DEF Finish, OnDelimiter, QuoteStates
  <2> HIDE DEF row
  <2>4. QED
    BY <2>1, <2>2, <2>3
<1>9. /\ ReadLine(d, line).bounds = b /\ ReadLine(d, line).violation = st.quote.violation
  <2>1. /\ line = SubSeq(t, from + 1, to) /\ to \in to..Len(t) /\ from \in 0..Len(t) /\ to \in from..Len(t)
    BY <1>1, <1>2 DEF LineOf
  <2>2. Len(line) = r
    BY <1>2, <2>1, LineAgrees
  <2>3. RowState(d, <<>>, line)[Len(line)] = st
    BY <1>3, <2>1, <2>2
  <2> DEFINE ll == ReadRow(d, <<>>, line)
  <2>4. ll = [bounds |-> Append(st.bounds, <<st.start, Len(line)>>),
              next |-> Len(line), open |-> st.quote.in_quotes,
              violation |-> Finish(st.quote, Len(line))]
    <3> DEFINE cur == RowState(d, <<>>, line)[Len(line)]
    <3>1. cur = st /\ ~(st.next > 0)
      BY <1>3, <2>3
    <3>2. ll = IF cur.next > 0
               THEN [bounds |-> cur.bounds, next |-> cur.next, open |-> FALSE,
                     violation |-> Finish(cur.quote, cur.next)]
               ELSE [bounds |-> Append(cur.bounds, <<cur.start, Len(line)>>),
                     next |-> Len(line), open |-> cur.quote.in_quotes,
                     violation |-> Finish(cur.quote, Len(line))]
      BY DEF ReadRow
    <3> HIDE DEF cur, ll
    <3>3. QED
      BY <3>1, <3>2
  <2>5. Finish(st.quote, Len(line)) = st.quote.violation
    BY <1>6 DEF Finish
  <2> HIDE DEF ll
  <2>6. ll.bounds = b /\ ll.violation = st.quote.violation
    BY <2>2, <2>4, <2>5
  <2>7. QED
    BY <2>6 DEF ReadLine, ll
<1>10. \A k \in DOMAIN b : b[k][2] <= r
  <2>1. RowReads(d, d.newlines, data)
    BY <1>2, DialectTyping, RowStateIs
  <2>2. Inside(st, r, len)
    BY <1>2, <1>3, <2>1 DEF RowReads
  <2>3. \A k \in DOMAIN st.bounds : st.bounds[k][2] <= r
    BY <2>2 DEF Inside
  <2> DEFINE N == Nat \X Nat
             e == <<st.start, r>>
  <2>4. e \in N /\ e[2] = r /\ st.bounds \in Seq(N)
    BY <1>5, <1>7
  <2> HIDE DEF N, e
  <2>5. /\ Append(st.bounds, e) \in Seq(N)
        /\ Len(Append(st.bounds, e)) = Len(st.bounds) + 1
        /\ \A k \in 1..Len(st.bounds) : Append(st.bounds, e)[k] = st.bounds[k]
        /\ Append(st.bounds, e)[Len(st.bounds) + 1] = e
    BY <2>4, AppendProperties
  <2>6. /\ DOMAIN Append(st.bounds, e) = 1..Len(st.bounds) + 1
        /\ DOMAIN st.bounds = 1..Len(st.bounds) /\ Len(st.bounds) \in Nat
    BY <2>4, <2>5, LenProperties
  <2>7. ASSUME NEW k \in DOMAIN Append(st.bounds, e)
        PROVE  Append(st.bounds, e)[k][2] <= r
    <3>1. CASE k = Len(st.bounds) + 1
      BY <1>7, <2>4, <2>5, <3>1
    <3>2. CASE k # Len(st.bounds) + 1
      <4>1. k \in 1..Len(st.bounds)
        BY <2>6, <3>2
      <4>2. QED
        BY <2>3, <2>5, <2>6, <4>1
    <3>3. QED
      BY <3>1, <3>2
  <2>8. QED
    BY <2>7 DEF e
<1>11. row \in Rows
  <2>1. data # <<>>
    BY <1>1, <1>2, EmptySeq
  <2>2. QED
    BY <1>2, <2>1, DialectTyping, ReadRowTyping
<1>12. from \in 0..Len(t) /\ to \in from..Len(t) /\ next \in Nat /\ next = row.next + from
  <2>1. (r + n) + from = to + n /\ to + n \in Nat
    BY <1>1, <1>4
  <2>2. row.next = r + n
    BY <1>8
  <2> HIDE DEF row, r
  <2>3. QED
    BY <1>1, <1>2, <2>1, <2>2
<1>13. RowIsLine(d, t, from, next, line)
  <2>1. row = ReadRow(d, d.newlines, Suffix(t, from))
    OBVIOUS
  <2>2. ReadLine(d, line).bounds = row.bounds /\ ReadLine(d, line).violation = row.violation
    BY <1>8, <1>9
  <2>3. \A k \in DOMAIN row.bounds : row.bounds[k][2] <= to - from
    BY <1>8, <1>10
  <2> HIDE DEF row, b, r
  <2>4. QED
    BY <1>2, <1>11, <1>12, <2>1, <2>2, <2>3, RowMoves
<1>14. QED
  BY <1>9, <1>13

(* What is left at the end of a text is one row, and a line.               *)
LEMMA RowLeft ==
    ASSUME NEW d \in Dialects, NEW s \in Seq(Byte), NEW from \in 0..Len(s) - 1,
           NEW i \in 0..Len(s) - from,
           RowState(d, d.newlines, Suffix(s, from))[i] = RowState(d, <<>>, Suffix(s, from))[i],
           RowState(d, <<>>, Suffix(s, from))[i].next = 0,
           \A j \in i..Len(s) - from - 1 : ~(MatchLength(d.newlines, Suffix(s, from), j) > 0),
           NEW line, LineOf(s, from, Len(s), line)
    PROVE  RowIsLine(d, s, from, Len(s), line)
<1> DEFINE data == Suffix(s, from)
           row  == ReadRow(d, d.newlines, data)
           st   == RowState(d, <<>>, data)[Len(data)]
<1>1. /\ Len(s) \in Nat /\ from \in Nat /\ from < Len(s) /\ from \in 0..Len(s) /\ Len(s) \in from..Len(s)
  BY LenProperties
<1>2. data \in Seq(Byte) /\ Len(data) = Len(s) - from
  BY <1>1, SuffixOf
<1>3. RowState(d, d.newlines, data)[Len(data)] = st /\ st.next = 0
  BY <1>2, TailSame
<1>4. line = data
  BY DEF LineOf, Suffix
<1>5. row = ReadLine(d, line) /\ row.next = Len(data)
  <2> HIDE DEF data, st
  <2>1. row = [bounds |-> Append(st.bounds, <<st.start, Len(data)>>),
               next |-> Len(data), open |-> st.quote.in_quotes,
               violation |-> Finish(st.quote, Len(data))]
    BY <1>3 DEF ReadRow
  <2>2. ReadLine(d, line) = [bounds |-> Append(st.bounds, <<st.start, Len(data)>>),
               next |-> Len(data), open |-> st.quote.in_quotes,
               violation |-> Finish(st.quote, Len(data))]
    BY <1>3, <1>4 DEF ReadRow, ReadLine, st
  <2>3. QED
    BY <2>1, <2>2
<1>6. data # <<>>
  BY <1>1, <1>2, EmptySeq
<1>7. row \in Rows /\ \A k \in DOMAIN row.bounds : row.bounds[k][2] <= Len(s) - from
  BY <1>2, <1>6, DialectTyping, ReadRowTyping
<1>8. Len(s) = row.next + from
  BY <1>1, <1>2, <1>5
<1>9. row = ReadRow(d, d.newlines, Suffix(s, from))
  OBVIOUS
<1> HIDE DEF row
<1>10. ReadLine(d, line).bounds = row.bounds /\ ReadLine(d, line).violation = row.violation
  BY <1>5
<1>11. QED
  BY <1>1, <1>7, <1>8, <1>9, <1>10, RowMoves

-----------------------------------------------------------------------------
(* What stands at a place depends on the text from there on.               *)

(* The rest of the rest.                                                   *)
LEMMA SuffixSuffix ==
    ASSUME NEW s \in Seq(Byte), NEW a \in 0..Len(s), NEW b \in 0..Len(s) - a,
           NEW c, c = a + b
    PROVE  Suffix(Suffix(s, a), b) = Suffix(s, c) /\ c \in 0..Len(s)
<1> DEFINE u == Suffix(s, a)
           v == Suffix(u, b)
           w == Suffix(s, c)
<1>1. Len(s) \in Nat /\ a \in Nat /\ b \in Nat /\ c \in Nat /\ c <= Len(s)
  BY LenProperties
<1>2. u \in Seq(Byte) /\ Len(u) = Len(s) - a /\ \A j \in 1..Len(s) - a : u[j] = s[a + j]
  BY SuffixOf
<1>3. v \in Seq(Byte) /\ Len(v) = Len(u) - b /\ \A j \in 1..Len(u) - b : v[j] = u[b + j]
  BY <1>2, SuffixOf
<1>4. w \in Seq(Byte) /\ Len(w) = Len(s) - c /\ \A j \in 1..Len(s) - c : w[j] = s[c + j]
  <2>1. c \in 0..Len(s)
    BY <1>1
  <2>2. QED
    BY <2>1, SuffixOf
<1> HIDE DEF u, v, w
<1>5. Len(v) = Len(s) - c /\ Len(w) = Len(s) - c /\ Len(u) - b = Len(s) - c
  BY <1>1, <1>2, <1>3, <1>4
<1>6. ASSUME NEW j \in 1..Len(s) - c
      PROVE  v[j] = w[j]
  <2>1. b + j \in 1..Len(s) - a /\ a + (b + j) = c + j
    BY <1>1
  <2>2. QED
    BY <1>2, <1>3, <1>4, <1>5, <2>1
<1>7. v = w
  BY <1>3, <1>4, <1>5, <1>6, SeqEqual
<1>8. QED
  BY <1>1, <1>7 DEF u, v, w

-----------------------------------------------------------------------------
(* The rows of a text.                                                     *)

(* A row ends behind its start, and within the text.                       *)
LEMMA RowAtTyping ==
    ASSUME NEW d \in Dialects, NEW text \in Seq(Byte), NEW start \in 0..Len(text) - 1
    PROVE  RowAt(d, text, start) \in Rows /\ RowAt(d, text, start).next \in start + 1..Len(text)
<1> DEFINE data == Suffix(text, start)
           row  == ReadRow(d, d.newlines, data)
           moved == Shift(row, start)
<1>1. Len(text) \in Nat /\ start \in Nat /\ start < Len(text) /\ start \in 0..Len(text)
  BY LenProperties
<1>2. data \in Seq(Byte) /\ Len(data) = Len(text) - start
  BY <1>1, SuffixOf
<1>3. data # <<>>
  BY <1>1, <1>2, EmptySeq
<1>4. row \in Rows /\ row.next \in 1..Len(data)
  BY <1>2, <1>3, DialectTyping, ReadRowTyping
<1> HIDE DEF row, data
<1>5. moved \in Rows /\ moved.next = row.next + start
  BY <1>1, <1>4, ShiftTyping
<1>6. moved.next \in start + 1..Len(text)
  <2> DEFINE m == moved.next
             n == row.next
  <2>1. m = n + start /\ n \in 1..Len(text) - start
    BY <1>2, <1>4, <1>5
  <2> HIDE DEF m, n
  <2>2. m \in start + 1..Len(text)
    BY <1>1, <2>1
  <2>3. QED
    BY <2>2 DEF m
<1>7. QED
  BY <1>5, <1>6 DEF RowAt, row, data, moved

(* The functions that read the rows from a place on, for the places from   *)
(* low on: they exist, down to the start of the text, so that RowsFrom is  *)
(* one.                                                                    *)
RowsOf(d, text, low) ==
    {f \in [low..Len(text) -> Seq(Rows)] :
        \A start \in low..Len(text) :
            f[start] = IF start = Len(text)
                       THEN <<>>
                       ELSE <<RowAt(d, text, start)>> \o f[RowAt(d, text, start).next]}

LEMMA RowsExist ==
    ASSUME NEW d \in Dialects, NEW text \in Seq(Byte)
    PROVE  RowsOf(d, text, 0) # {}
<1> DEFINE len == Len(text)
           P   == {n \in 0..len : RowsOf(d, text, len - n) # {}}
<1>1. len \in Nat
  BY LenProperties
<1>2. 0 \in P
  <2> DEFINE f == [start \in len..len |-> <<>>]
  <2>1. len - 0 = len /\ 0 \in 0..len /\ len..len = {len}
    BY <1>1
  <2>2. f \in [len..len -> Seq(Rows)]
    OBVIOUS
  <2>3. \A start \in len..len :
            f[start] = IF start = len
                       THEN <<>>
                       ELSE <<RowAt(d, text, start)>> \o f[RowAt(d, text, start).next]
    BY <2>1
  <2>4. f \in RowsOf(d, text, len)
    BY <2>2, <2>3 DEF RowsOf
  <2>5. QED
    BY <2>1, <2>4
<1>3. ASSUME NEW n \in 1..len, n - 1 \in P
      PROVE  n \in P
  <2> DEFINE low == len - n
             row == RowAt(d, text, low)
  <2>1. /\ low \in 0..len - 1 /\ low + 1 = len - (n - 1) /\ n \in 0..len /\ low \in Nat /\ low < len
    BY <1>1
  <2>2. PICK g : g \in RowsOf(d, text, low + 1)
    BY <1>3, <2>1
  <2>3. row \in Rows /\ row.next \in low + 1..len
    BY <2>1, RowAtTyping
  <2>4. /\ g \in [low + 1..len -> Seq(Rows)]
        /\ \A start \in low + 1..len :
              g[start] = IF start = len
                         THEN <<>>
                         ELSE <<RowAt(d, text, start)>> \o g[RowAt(d, text, start).next]
    BY <2>2 DEF RowsOf
  <2> DEFINE first == <<row>> \o g[row.next]
             f == [start \in low..len |-> IF start = low THEN first ELSE g[start]]
  <2>5. first \in Seq(Rows)
    <3>1. <<row>> \in Seq(Rows) /\ g[row.next] \in Seq(Rows)
      BY <2>3, <2>4
    <3> DEFINE a == <<row>>
               b == g[row.next]
    <3> HIDE DEF a, b
    <3>2. a \in Seq(Rows) /\ b \in Seq(Rows)
      BY <3>1 DEF a, b
    <3>3. a \o b \in Seq(Rows)
      BY <3>2, ConcatProperties
    <3>4. QED
      BY <3>3 DEF a, b
  <2>6. \A start \in low + 1..len : start \in low..len /\ start # low
    BY <2>1
  <2>7. \A start \in low..len : start # low => start \in low + 1..len
    BY <2>1
  <2> HIDE DEF first
  <2>8. f \in [low..len -> Seq(Rows)]
    BY <2>4, <2>5, <2>7
  <2>9. ASSUME NEW start \in low..len
        PROVE  f[start] = IF start = len
                          THEN <<>>
                          ELSE <<RowAt(d, text, start)>> \o f[RowAt(d, text, start).next]
    <3>1. CASE start = low
      <4>1. f[start] = first /\ start # len /\ RowAt(d, text, start) = row
        BY <2>1, <3>1
      <4>2. f[row.next] = g[row.next]
        BY <2>3, <2>6
      <4>3. QED
        BY <4>1, <4>2 DEF first
    <3>2. CASE start # low
      <4>1. start \in low + 1..len /\ f[start] = g[start]
        BY <2>7, <3>2
      <4>2. CASE start = len
        BY <2>4, <4>1, <4>2
      <4>3. CASE start # len
        <5>1. start \in 0..len - 1
          BY <1>1, <2>1, <4>3
        <5>2. RowAt(d, text, start).next \in start + 1..len
          BY <5>1, RowAtTyping
        <5>3. \A m \in start + 1..len : m \in low + 1..len
          BY <1>1, <2>1, <4>1
        <5>4. f[RowAt(d, text, start).next] = g[RowAt(d, text, start).next]
          BY <2>6, <5>2, <5>3
        <5>5. g[start] = <<RowAt(d, text, start)>> \o g[RowAt(d, text, start).next]
          BY <2>4, <4>1, <4>3
        <5>6. QED
          BY <4>1, <4>3, <5>4, <5>5
      <4>4. QED
        BY <4>2, <4>3
    <3>3. QED
      BY <3>1, <3>2
  <2> HIDE DEF f
  <2>10. f \in RowsOf(d, text, low)
    BY <2>8, <2>9 DEF RowsOf
  <2>11. QED
    BY <2>1, <2>10
<1> HIDE DEF P
<1>4. \A n \in 0..len : n \in P
  BY <1>1, <1>2, <1>3, UpTo
<1>5. len \in P /\ len - len = 0
  BY <1>1, <1>4
<1>6. QED
  BY <1>5 DEF P

(* RowsFrom is what its definition says.                                   *)
RowsRead(d, text) ==
    LET from == RowsFrom(d, text)
    IN  /\ from[Len(text)] = <<>>
        /\ \A start \in 0..Len(text) : from[start] \in Seq(Rows)
        /\ \A start \in 0..Len(text) - 1 :
              from[start] = <<RowAt(d, text, start)>> \o from[RowAt(d, text, start).next]

LEMMA RowsFromIs ==
    ASSUME NEW d \in Dialects, NEW text \in Seq(Byte)
    PROVE  RowsRead(d, text)
<1> DEFINE len == Len(text)
           from == RowsFrom(d, text)
<1>1. PICK f : f \in RowsOf(d, text, 0)
  BY RowsExist
<1> DEFINE F == CHOOSE g : g = [start \in 0..len |->
                   IF start = len
                   THEN <<>>
                   ELSE <<RowAt(d, text, start)>> \o g[RowAt(d, text, start).next]]
<1>2. from = F
  BY DEF RowsFrom
<1>3. f = [start \in 0..len |->
                   IF start = len
                   THEN <<>>
                   ELSE <<RowAt(d, text, start)>> \o f[RowAt(d, text, start).next]]
  BY <1>1 DEF RowsOf
<1>4. F = [start \in 0..len |->
                   IF start = len
                   THEN <<>>
                   ELSE <<RowAt(d, text, start)>> \o F[RowAt(d, text, start).next]]
  BY <1>3
<1> HIDE DEF F
<1>5. len \in Nat
  BY LenProperties
<1>6. /\ F[len] = <<>>
      /\ \A start \in 0..len - 1 :
            F[start] = <<RowAt(d, text, start)>> \o F[RowAt(d, text, start).next]
  <2>1. \A start \in 0..len :
           F[start] = IF start = len
                      THEN <<>>
                      ELSE <<RowAt(d, text, start)>> \o F[RowAt(d, text, start).next]
    BY <1>4
  <2>2. len \in 0..len /\ \A start \in 0..len - 1 : start \in 0..len /\ start # len
    BY <1>5
  <2> HIDE DEF len
  <2>3. QED
    BY <2>1, <2>2
<1> DEFINE P == {n \in 0..len : \A start \in len - n..len : F[start] \in Seq(Rows)}
<1>7. 0 \in P
  <2>1. 0 \in 0..len /\ \A start \in len - 0..len : start = len
    BY <1>5
  <2>2. F[len] \in Seq(Rows)
    BY <1>6, EmptySeq
  <2> HIDE DEF len
  <2>3. QED
    BY <2>1, <2>2
<1>8. ASSUME NEW n \in 1..len, n - 1 \in P
      PROVE  n \in P
  <2> DEFINE low == len - n
             row == RowAt(d, text, low)
  <2>1. low \in 0..len - 1 /\ n \in 0..len /\ len - (n - 1) = low + 1
    BY <1>5
  <2>2. row \in Rows /\ row.next \in low + 1..len
    BY <2>1, RowAtTyping
  <2>3. \A start \in low + 1..len : F[start] \in Seq(Rows)
    BY <1>8, <2>1
  <2>4. F[low] \in Seq(Rows)
    <3> DEFINE a == <<row>>
               b == F[row.next]
    <3>1. F[low] = a \o b
      BY <1>6, <2>1
    <3>2. a \in Seq(Rows) /\ b \in Seq(Rows)
      BY <2>2, <2>3
    <3> HIDE DEF a, b
    <3>3. a \o b \in Seq(Rows)
      BY <3>2, ConcatProperties
    <3>4. QED
      BY <3>1, <3>3
  <2>5. \A start \in low..len : start = low \/ start \in low + 1..len
    BY <1>5, <2>1
  <2>6. QED
    BY <2>1, <2>3, <2>4, <2>5
<1> HIDE DEF P
<1>9. \A n \in 0..len : n \in P
  BY <1>5, <1>7, <1>8, UpTo
<1>10. \A start \in 0..len : F[start] \in Seq(Rows)
  <2>1. len \in P /\ len - len = 0
    BY <1>5, <1>9
  <2>2. QED
    BY <2>1 DEF P
<1>11. QED
  BY <1>2, <1>6, <1>10 DEF RowsRead

-----------------------------------------------------------------------------
(* The first violation of some rows.                                       *)

(* The first violation of the first k rows.                                *)
FirstReads(rows, first) ==
    /\ \A k \in 0..Len(rows) : first[k] \in Violation
    /\ first[0] = NoViolation
    /\ \A k \in 1..Len(rows) : first[k] = FirstOf(first[k - 1], rows[k].violation)

LEMMA FirstExists ==
    ASSUME NEW rows \in Seq(Rows)
    PROVE  \E first : FirstReads(rows, first) /\ RowsViolation(rows) = first[Len(rows)]
<1> DEFINE m == Len(rows)
           OneMore(g) == [k \in 0..m |-> IF k = 0 THEN NoViolation
                                         ELSE FirstOf(g[k - 1], rows[k].violation)]
           step == [k \in 1..m |-> [v \in Violation |-> FirstOf(v, rows[k].violation)]]
           F == CHOOSE g : g = OneMore(g)
<1>1. m \in Nat /\ NoViolation \in Violation
  BY LenProperties DEF Violation
<1>2. \A k \in 1..m : rows[k].violation \in Violation
  <2>1. \A k \in 1..m : rows[k] \in Rows
    BY ElementOfSeq
  <2>2. QED
    BY <2>1 DEF Rows
<1>3. step \in [1..m -> [Violation -> Violation]]
  BY <1>2, FirstOfTyping
<1>4. PICK f \in [0..m -> Violation] :
         f[0] = NoViolation /\ \A k \in 1..m : f[k] = step[k][f[k - 1]]
  <2>1. Readings(m, Violation, NoViolation, step) # {}
    <3> HIDE DEF step, m
    <3>1. QED
      BY <1>1, <1>3, ReadingExists
  <2>2. QED
    BY <2>1 DEF Readings
<1>5. f = OneMore(f)
  <2>1. \A k \in 1..m : k - 1 \in 0..m
    BY <1>1
  <2>2. \A k \in 1..m : f[k] = FirstOf(f[k - 1], rows[k].violation)
    BY <1>4, <2>1
  <2>3. \A k \in 0..m : k # 0 => k \in 1..m
    BY <1>1
  <2>4. \A k \in 0..m : f[k] = OneMore(f)[k]
    BY <1>4, <2>2, <2>3
  <2>5. QED
    BY <2>4
<1>6. F = OneMore(F)
  BY <1>5
<1>7. RowsViolation(rows) = F[m]
  BY DEF RowsViolation
<1> HIDE DEF F
<1>8. /\ F[0] = NoViolation
      /\ \A k \in 1..m : F[k] = FirstOf(F[k - 1], rows[k].violation)
  <2>1. \A k \in 0..m : F[k] = OneMore(F)[k]
    BY <1>6
  <2>2. 0 \in 0..m /\ \A k \in 1..m : k \in 0..m /\ k # 0
    BY <1>1
  <2> HIDE DEF m
  <2>3. QED
    BY <2>1, <2>2
<1> DEFINE P == {k \in 0..m : F[k] \in Violation}
<1>9. 0 \in P
  BY <1>1, <1>8
<1>10. ASSUME NEW k \in 1..m, k - 1 \in P
       PROVE  k \in P
  <2>1. k \in 0..m
    BY <1>1
  <2>2. F[k] = FirstOf(F[k - 1], rows[k].violation)
    BY <1>8
  <2>3. F[k] \in Violation
    BY <1>2, <1>10, <2>2, FirstOfTyping
  <2>4. QED
    BY <2>1, <2>3
<1> HIDE DEF P
<1>11. \A k \in 0..m : k \in P
  BY <1>1, <1>9, <1>10, UpTo
<1>12. \A k \in 0..m : F[k] \in Violation
  BY <1>11 DEF P
<1> HIDE DEF m
<1>13. FirstReads(rows, F)
  BY <1>8, <1>12 DEF FirstReads, m
<1>14. QED
  BY <1>7, <1>13 DEF m

(* No rows, no violation; and one row more.                                *)
LEMMA NoRows == RowsViolation(<<>>) = NoViolation
<1>1. <<>> \in Seq(Rows) /\ Len(<<>>) = 0
  BY EmptySeq
<1>2. PICK first : FirstReads(<<>>, first) /\ RowsViolation(<<>>) = first[Len(<<>>)]
  BY <1>1, FirstExists
<1>3. QED
  BY <1>1, <1>2 DEF FirstReads

LEMMA OneMoreRow ==
    ASSUME NEW rows \in Seq(Rows), NEW row \in Rows
    PROVE  RowsViolation(Append(rows, row)) = FirstOf(RowsViolation(rows), row.violation)
<1> DEFINE m == Len(rows)
           all == Append(rows, row)
<1>1. m \in Nat
  BY LenProperties
<1>2. /\ all \in Seq(Rows) /\ Len(all) = m + 1 /\ all[m + 1] = row
      /\ \A k \in 1..m : all[k] = rows[k]
  BY AppendProperties
<1>3. PICK f : FirstReads(rows, f) /\ RowsViolation(rows) = f[m]
  BY FirstExists
<1> HIDE DEF all
<1>4. PICK g : FirstReads(all, g) /\ RowsViolation(all) = g[Len(all)]
  BY <1>2, FirstExists
<1> DEFINE P == {k \in 0..m : g[k] = f[k]}
<1>5. 0 \in P
  BY <1>1, <1>3, <1>4 DEF FirstReads
<1>6. ASSUME NEW k \in 1..m, k - 1 \in P
      PROVE  k \in P
  <2>1. k \in 0..m /\ k \in 1..Len(all) /\ k \in 1..Len(rows)
    BY <1>1, <1>2
  <2>2. g[k] = FirstOf(g[k - 1], all[k].violation) /\ f[k] = FirstOf(f[k - 1], rows[k].violation)
    BY <1>3, <1>4, <2>1 DEF FirstReads
  <2>3. g[k - 1] = f[k - 1]
    BY <1>6
  <2>4. all[k] = rows[k]
    BY <1>2
  <2>5. QED
    BY <2>1, <2>2, <2>3, <2>4
<1> HIDE DEF P
<1>7. \A k \in 0..m : k \in P
  BY <1>1, <1>5, <1>6, UpTo
<1>8. g[m] = f[m]
  BY <1>1, <1>7 DEF P
<1>9. m + 1 \in 1..Len(all) /\ (m + 1) - 1 = m
  BY <1>1, <1>2
<1>10. g[m + 1] = FirstOf(g[m], all[m + 1].violation)
  BY <1>4, <1>9 DEF FirstReads
<1>11. QED
  BY <1>2, <1>3, <1>4, <1>8, <1>10 DEF all

(* Rows without a first violation have none.                               *)
LEMMA NoneOfRows ==
    ASSUME NEW rows \in Seq(Rows), RowsViolation(rows) = NoViolation
    PROVE  \A k \in 1..Len(rows) : rows[k].violation = NoViolation
<1> DEFINE m == Len(rows)
<1>1. m \in Nat
  BY LenProperties
<1>2. PICK f : FirstReads(rows, f) /\ RowsViolation(rows) = f[m]
  BY FirstExists
<1>3. /\ f[m] = NoViolation
      /\ \A k \in 1..m : f[k] = FirstOf(f[k - 1], rows[k].violation)
  BY <1>2 DEF FirstReads
<1> DEFINE P == {n \in 0..m : f[m - n] = NoViolation}
<1>4. 0 \in P
  BY <1>1, <1>3
<1>5. ASSUME NEW n \in 1..m, n - 1 \in P
      PROVE  n \in P
  <2> DEFINE k == m - (n - 1)
  <2>1. n \in 0..m /\ k \in 1..m /\ k - 1 = m - n
    BY <1>1
  <2>2. f[k] = NoViolation
    BY <1>5
  <2>3. f[k - 1] = NoViolation
    BY <1>3, <2>1, <2>2 DEF FirstOf
  <2>4. QED
    BY <2>1, <2>3
<1> HIDE DEF P
<1>6. \A n \in 0..m : n \in P
  BY <1>1, <1>4, <1>5, UpTo
<1>7. ASSUME NEW k \in 1..m
      PROVE  rows[k].violation = NoViolation
  <2>1. m - k \in 0..m /\ m - (m - k) = k /\ m - (k - 1) \in 0..m /\ m - (m - (k - 1)) = k - 1
    BY <1>1
  <2>2. f[k] = NoViolation /\ f[k - 1] = NoViolation
    BY <1>6, <2>1 DEF P
  <2>3. QED
    BY <1>3, <2>2 DEF FirstOf
<1>8. QED
  BY <1>7

-----------------------------------------------------------------------------
(* The rows of a text up to a place: those of some lines.                  *)

(* The values of lines, and of a row.                                      *)
FieldsOf(d, lines) == [k \in DOMAIN lines |-> LineFields(d, lines[k])]

RowFields(d, text, row) ==
    [j \in DOMAIN row.bounds |-> FieldValue(d, text, row.bounds[j])]

(* The rows of text up to place to have the values of lines, their first   *)
(* violation is v, and the first clean of them have none.                  *)
RowsDone(d, text, to, lines, v, clean) ==
    \E done \in Seq(Rows) :
        /\ RowsFrom(d, text)[0] = done \o RowsFrom(d, text)[to]
        /\ RowValues(d, text, done) = FieldsOf(d, lines)
        /\ RowsViolation(done) = v
        /\ \A k \in 1..clean : done[k].violation = NoViolation

(* As many rows as lines, with the same values.                            *)
LEMMA SameNumber ==
    ASSUME NEW d, NEW text, NEW done \in Seq(Rows), NEW lines \in Seq(Seq(Byte)),
           RowValues(d, text, done) = FieldsOf(d, lines)
    PROVE  /\ Len(done) = Len(lines) /\ Len(done) \in Nat
           /\ \A k \in 1..Len(done) : RowFields(d, text, done[k]) = LineFields(d, lines[k])
<1>1. /\ Len(done) \in Nat /\ Len(lines) \in Nat
      /\ DOMAIN done = 1..Len(done) /\ DOMAIN lines = 1..Len(lines)
  BY LenProperties
<1>2. DOMAIN RowValues(d, text, done) = DOMAIN done /\ DOMAIN FieldsOf(d, lines) = DOMAIN lines
  BY DEF RowValues, FieldsOf
<1> DEFINE m == Len(done)
           n == Len(lines)
<1>3. m \in Nat /\ n \in Nat /\ 1..m = 1..n
  BY <1>1, <1>2
<1> HIDE DEF m, n
<1>4. m = n
  <2>1. CASE m < n
    <3>1. n \in 1..n /\ n \notin 1..m
      BY <1>3, <2>1
    <3>2. QED
      BY <1>3, <3>1
  <2>2. CASE n < m
    <3>1. m \in 1..m /\ m \notin 1..n
      BY <1>3, <2>2
    <3>2. QED
      BY <1>3, <3>1
  <2>3. QED
    BY <1>3, <2>1, <2>2
<1>5. ASSUME NEW k \in 1..Len(done)
      PROVE  RowFields(d, text, done[k]) = LineFields(d, lines[k])
  <2>1. k \in DOMAIN done /\ k \in DOMAIN lines
    BY <1>1, <1>4 DEF m, n
  <2>2. /\ RowValues(d, text, done)[k] = RowFields(d, text, done[k])
        /\ FieldsOf(d, lines)[k] = LineFields(d, lines[k])
    BY <2>1 DEF RowValues, FieldsOf, RowFields
  <2>3. QED
    BY <2>2
<1>6. QED
  BY <1>1, <1>4, <1>5 DEF m, n

(* At the start of a text there are none.                                  *)
LEMMA RowsDoneFirst ==
    ASSUME NEW d \in Dialects, NEW text \in Seq(Byte)
    PROVE  RowsDone(d, text, 0, <<>>, NoViolation, 0)
<1> DEFINE all == RowsFrom(d, text)[0]
           done == <<>>
<1>1. all \in Seq(Rows)
  <2>1. 0 \in 0..Len(text)
    BY LenProperties
  <2>2. QED
    BY <2>1, RowsFromIs DEF RowsRead
<1>2. done \in Seq(Rows) /\ done \o all = all
  <2> HIDE DEF all
  <2>1. QED
    BY <1>1, EmptySeq, ConcatEmptySeq
<1>3. RowValues(d, text, done) = FieldsOf(d, <<>>)
  BY DEF RowValues, FieldsOf
<1>4. RowsViolation(done) = NoViolation
  BY NoRows
<1>5. \A k \in 1..0 : done[k].violation = NoViolation
  OBVIOUS
<1> HIDE DEF done, all
<1>6. QED
  BY <1>2, <1>3, <1>4, <1>5 DEF RowsDone, all

(* Rows and rows and rows.                                                 *)
LEMMA Associative ==
    ASSUME NEW S, NEW a \in Seq(S), NEW b \in Seq(S), NEW c \in Seq(S)
    PROVE  (a \o b) \o c = a \o (b \o c)
BY ConcatAssociative, SMTT(20)

LEMMA RowsAssociative ==
    \A a, b, c \in Seq(Rows) : (a \o b) \o c = a \o (b \o c)
BY Associative, SMTT(20)

(* One row more, that is a line.                                           *)
LEMMA RowsDoneNext ==
    ASSUME NEW d \in Dialects, NEW text \in Seq(Byte), NEW from \in 0..Len(text) - 1,
           NEW lines \in Seq(Seq(Byte)), NEW v, NEW clean \in 0..Len(lines),
           RowsDone(d, text, from, lines, v, clean),
           NEW next \in 0..Len(text), NEW line \in Seq(Byte), RowIsLine(d, text, from, next, line)
    PROVE  RowsDone(d, text, next, Append(lines, line),
                    FirstOf(v, Rebase(ReadLine(d, line).violation, from)), clean)
<1> DEFINE row  == RowAt(d, text, from)
           F    == RowsFrom(d, text)
<1>1. PICK done \in Seq(Rows) :
         /\ F[0] = done \o F[from]
         /\ RowValues(d, text, done) = FieldsOf(d, lines)
         /\ RowsViolation(done) = v
         /\ \A k \in 1..clean : done[k].violation = NoViolation
  BY DEF RowsDone
<1>2. /\ row \in Rows /\ row.next = next
      /\ row.violation = Rebase(ReadLine(d, line).violation, from)
      /\ RowFields(d, text, row) = LineFields(d, line)
  BY DEF RowIsLine, RowFields
<1>3. /\ F[from] = <<row>> \o F[next] /\ F[next] \in Seq(Rows)
  BY <1>2, RowsFromIs DEF RowsRead
<1> HIDE DEF row, F
<1> DEFINE more == Append(done, row)
<1>4. F[0] = more \o F[next]
  <2>1. <<row>> \in Seq(Rows) /\ Append(done, row) = done \o <<row>>
    BY <1>2, AppendIsConcat
  <2> DEFINE one == <<row>>
             rest == F[next]
  <2>2. one \in Seq(Rows) /\ rest \in Seq(Rows) /\ F[0] = done \o (one \o rest) /\ more = done \o one
    BY <1>1, <1>3, <2>1
  <2> HIDE DEF one, rest, more
  <2>3. done \o (one \o rest) = (done \o one) \o rest
    <3>1. ASSUME NEW a \in Seq(Rows), NEW b \in Seq(Rows), NEW c \in Seq(Rows)
          PROVE  a \o (b \o c) = (a \o b) \o c
      BY RowsAssociative
    <3>2. QED
      BY <2>2, <3>1
  <2>4. QED
    BY <2>2, <2>3 DEF rest
<1>5. /\ more \in Seq(Rows) /\ Len(more) = Len(done) + 1 /\ more[Len(done) + 1] = row
      /\ \A k \in 1..Len(done) : more[k] = done[k]
  BY <1>2, AppendProperties
<1>6. /\ Len(done) = Len(lines) /\ Len(done) \in Nat
      /\ \A k \in 1..Len(done) : RowFields(d, text, done[k]) = LineFields(d, lines[k])
  BY <1>1, SameNumber
<1> DEFINE longer == Append(lines, line)
<1>7. /\ longer \in Seq(Seq(Byte)) /\ Len(longer) = Len(lines) + 1 /\ longer[Len(lines) + 1] = line
      /\ \A k \in 1..Len(lines) : longer[k] = lines[k]
  <2> DEFINE B == Seq(Byte)
  <2>1. lines \in Seq(B) /\ line \in B
    OBVIOUS
  <2> HIDE DEF B
  <2>2. /\ Append(lines, line) \in Seq(B) /\ Len(Append(lines, line)) = Len(lines) + 1
        /\ Append(lines, line)[Len(lines) + 1] = line
        /\ \A k \in 1..Len(lines) : Append(lines, line)[k] = lines[k]
    BY <2>1, AppendProperties
  <2>3. QED
    BY <2>2 DEF B
<1> HIDE DEF more, longer
<1>8. RowValues(d, text, more) = FieldsOf(d, longer)
  <2>1. DOMAIN more = 1..Len(done) + 1 /\ DOMAIN longer = 1..Len(done) + 1
    BY <1>5, <1>6, <1>7, LenProperties
  <2>2. ASSUME NEW k \in 1..Len(done) + 1
        PROVE  RowFields(d, text, more[k]) = LineFields(d, longer[k])
    <3>1. CASE k = Len(done) + 1
      BY <1>2, <1>5, <1>6, <1>7, <3>1
    <3>2. CASE k # Len(done) + 1
      <4>1. k \in 1..Len(done)
        BY <1>6, <3>2
      <4>2. QED
        BY <1>5, <1>6, <1>7, <4>1
    <3>3. QED
      BY <3>1, <3>2
  <2>3. QED
    BY <2>1, <2>2 DEF RowValues, FieldsOf, RowFields
<1>9. RowsViolation(more) = FirstOf(v, Rebase(ReadLine(d, line).violation, from))
  BY <1>1, <1>2, OneMoreRow DEF more
<1>10. \A k \in 1..clean : more[k].violation = NoViolation
  <2>1. \A k \in 1..clean : k \in 1..Len(done)
    BY <1>6
  <2>2. QED
    BY <1>1, <1>5, <2>1
<1>11. QED
  BY <1>4, <1>5, <1>8, <1>9, <1>10 DEF RowsDone, F, longer

(* Rows without a first violation are all clean.                           *)
LEMMA RowsDoneClean ==
    ASSUME NEW d, NEW text, NEW to, NEW lines \in Seq(Seq(Byte)), NEW clean \in 0..Len(lines),
           NEW any, RowsDone(d, text, to, lines, NoViolation, any)
    PROVE  RowsDone(d, text, to, lines, NoViolation, clean)
<1>1. PICK done \in Seq(Rows) :
         /\ RowsFrom(d, text)[0] = done \o RowsFrom(d, text)[to]
         /\ RowValues(d, text, done) = FieldsOf(d, lines)
         /\ RowsViolation(done) = NoViolation
  BY DEF RowsDone
<1>2. Len(done) = Len(lines) /\ Len(done) \in Nat
  BY <1>1, SameNumber
<1>3. \A k \in 1..Len(done) : done[k].violation = NoViolation
  BY <1>1, NoneOfRows
<1>4. \A k \in 1..clean : k \in 1..Len(done)
  BY <1>2
<1>5. QED
  BY <1>1, <1>3, <1>4 DEF RowsDone

(* At the end of the text they are what a batch parse returns.             *)
LEMMA RowsDoneLast ==
    ASSUME NEW d \in Dialects, NEW text \in Seq(Byte), NEW lines \in Seq(Seq(Byte)),
           NEW v, NEW clean \in 0..Len(lines), NEW to, to = Len(text),
           RowsDone(d, text, to, lines, v, clean)
    PROVE  /\ BatchValues(d, text) = FieldsOf(d, lines)
           /\ BatchViolation(d, text) = v
           /\ \A k \in 1..clean : BatchRows(d, text)[k].violation = NoViolation
<1>1. PICK done \in Seq(Rows) :
         /\ RowsFrom(d, text)[0] = done \o RowsFrom(d, text)[to]
         /\ RowValues(d, text, done) = FieldsOf(d, lines)
         /\ RowsViolation(done) = v
         /\ \A k \in 1..clean : done[k].violation = NoViolation
  BY DEF RowsDone
<1>2. RowsFrom(d, text)[to] = <<>>
  BY RowsFromIs DEF RowsRead
<1>3. BatchRows(d, text) = done
  BY <1>1, <1>2, ConcatEmptySeq DEF BatchRows
<1>4. QED
  BY <1>1, <1>3 DEF BatchValues, BatchViolation

(* The quote state after a row is read, and its violation.                 *)
LEMMA LineViolation ==
    ASSUME NEW d \in Dialects, NEW line \in Seq(Byte)
    PROVE  ReadLine(d, line).violation \in Violation
<1> DEFINE st == RowState(d, <<>>, line)[Len(line)]
<1>1. Len(line) \in Nat
  BY LenProperties
<1>2. st \in RowStates
  <2>1. <<>> \in Patterns
    BY DialectTyping
  <2> DEFINE none == <<>>
  <2>2. none \in Patterns
    BY <2>1
  <2> HIDE DEF none
  <2>3. RowReads(d, none, line)
    BY <2>2, RowStateIs
  <2>4. Len(line) \in 0..Len(line)
    BY <1>1
  <2>5. RowState(d, none, line)[Len(line)] \in RowStates
    BY <2>3, <2>4 DEF RowReads
  <2>6. QED
    BY <2>5 DEF none
<1> HIDE DEF st
<1>3. st.quote \in QuoteStates /\ st.next \in Nat
  BY <1>2 DEF RowStates
<1>4. Finish(st.quote, st.next) \in Violation /\ Finish(st.quote, Len(line)) \in Violation
  BY <1>1, <1>3, FinishTyping
<1>5. ReadLine(d, line).violation \in {Finish(st.quote, st.next), Finish(st.quote, Len(line))}
  BY DEF ReadLine, ReadRow, st
<1>6. QED
  BY <1>4, <1>5

-----------------------------------------------------------------------------
(* The patterns of a dialect are no longer than some number.               *)

LEMMA LengthsBounded ==
    ASSUME NEW ps \in Patterns
    PROVE  \E b \in Nat : \A k \in DOMAIN ps : Len(ps[k]) <= b
<1> DEFINE m == Len(ps)
           Bounded(n) == \E b \in Nat : \A k \in 1..n : Len(ps[k]) <= b
           P == {n \in 0..m : Bounded(n)}
<1>1. m \in Nat /\ DOMAIN ps = 1..m /\ \A k \in 1..m : Len(ps[k]) \in Nat
  BY PatternTyping
<1> HIDE DEF m
<1>2. 0 \in P
  BY <1>1
<1>3. ASSUME NEW n \in 1..m, n - 1 \in P
      PROVE  n \in P
  <2>1. n - 1 \in Nat /\ n \in 0..m
    BY <1>1
  <2>2. PICK b \in Nat : \A k \in 1..n - 1 : Len(ps[k]) <= b
    BY <1>3
  <2>3. PICK c \in Nat : b <= c /\ Len(ps[n]) <= c
    <3>1. Len(ps[n]) \in Nat
      BY <1>1
    <3> DEFINE x == Len(ps[n])
    <3> HIDE DEF x
    <3>2. x \in Nat
      BY <3>1 DEF x
    <3>3. b + x \in Nat /\ b <= b + x /\ x <= b + x
      BY <3>2
    <3>4. QED
      BY <3>3 DEF x
  <2>4. ASSUME NEW k \in 1..n
        PROVE  Len(ps[k]) <= c
    <3>1. CASE k = n
      BY <2>3, <3>1
    <3>2. CASE k # n
      <4>1. k \in 1..n - 1 /\ k \in 1..m
        BY <1>1, <3>2
      <4>2. Len(ps[k]) <= b /\ Len(ps[k]) \in Nat
        BY <1>1, <2>2, <4>1
      <4>3. QED
        BY <2>3, <4>2
    <3>3. QED
      BY <3>1, <3>2
  <2>5. QED
    BY <2>1, <2>4
<1> HIDE DEF P
<1>4. m \in P
  <2>1. m \in 0..m
    BY <1>1
  <2>2. \A n \in 0..m : n \in P
    BY <1>1, <1>2, <1>3, UpTo
  <2>3. QED
    BY <2>1, <2>2
<1>5. Bounded(m)
  BY <1>4 DEF P
<1>6. QED
  BY <1>1, <1>5

(* So one of them is the longest.                                          *)
LEMMA LengthsGreatest ==
    ASSUME NEW ps \in Patterns, ps # <<>>
    PROVE  LET S == {Len(ps[k]) : k \in DOMAIN ps}
           IN  Max(S) \in S /\ \A j \in S : j <= Max(S)
<1> DEFINE S == {Len(ps[k]) : k \in DOMAIN ps}
<1>1. PICK b \in Nat : \A k \in DOMAIN ps : Len(ps[k]) <= b
  BY LengthsBounded
<1>2. \A k \in DOMAIN ps : Len(ps[k]) \in 0..b
  BY <1>1, PatternTyping
<1>3. S \subseteq 0..b
  BY <1>2
<1>4. DOMAIN ps # {}
  <2>1. Len(ps) \in Nat /\ DOMAIN ps = 1..Len(ps) /\ ps \in Seq(Seq(Byte))
    BY PatternTyping DEF Patterns
  <2>2. Len(ps) # 0
    BY <2>1, EmptySeq
  <2>3. 1 \in DOMAIN ps
    BY <2>1, <2>2
  <2>4. QED
    BY <2>3
<1>5. S # {}
  BY <1>4
<1> HIDE DEF S
<1>6. Max(S) \in S /\ \A j \in S : j <= Max(S)
  BY <1>3, <1>5, GreatestOf
<1>7. QED
  BY <1>6 DEF S

LEMMA LongestNewline ==
    ASSUME NEW d \in Dialects
    PROVE  \E k \in DOMAIN d.newlines : MaxPatternLen(d) = Len(d.newlines[k])
<1> DEFINE S == {Len(d.newlines[k]) : k \in DOMAIN d.newlines}
<1>1. Max(S) \in S
  BY DialectTyping, LengthsGreatest
<1>2. QED
  BY <1>1 DEF MaxPatternLen
=============================================================================
