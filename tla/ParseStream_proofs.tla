------------------------- MODULE ParseStream_proofs -------------------------
(***************************************************************************)
(* On its way from the source to the parser no unit is lost, doubled or    *)
(* reordered; the lines handed on are those of the source; a stream raises *)
(* when a batch parse of the source does; and its consumer gets the rows,  *)
(* or maps, of that parse: for every source, encoding, options and         *)
(* chunking.                                                               *)
(*                                                                         *)
(* IInv, of the stages, is inductive by itself; CutsOK, RaisesOK and       *)
(* EmitsInv are inductive with it.                                         *)
(***************************************************************************)
EXTENDS ParseStream, CsvText_proofs

(* Sequences. *)

LEMMA PartOf ==
    ASSUME NEW S, NEW s \in Seq(S), NEW m \in 1..Len(s) + 1, NEW n \in m - 1..Len(s)
    PROVE  /\ SubSeq(s, m, n) \in Seq(S)
           /\ Len(SubSeq(s, m, n)) = n - m + 1
           /\ \A i \in 1..n - m + 1 : SubSeq(s, m, n)[i] = s[m + i - 1]
<1>1. m \in Int /\ n \in Int
  OBVIOUS
<1>2. \A i \in m..n : s[i] \in S
  BY ElementOfSeq
<1>3. QED
  BY <1>1, <1>2, SubSeqProperties

LEMMA SuffixOf ==
    ASSUME NEW S, NEW s \in Seq(S), NEW n \in 0..Len(s)
    PROVE  /\ SubSeq(s, n + 1, Len(s)) \in Seq(S)
           /\ Len(SubSeq(s, n + 1, Len(s))) = Len(s) - n
           /\ \A i \in 1..Len(s) - n : SubSeq(s, n + 1, Len(s))[i] = s[n + i]
<1> DEFINE m == n + 1
<1>1. Len(s) \in Nat
  BY LenProperties
<1>2. m \in 1..Len(s) + 1 /\ Len(s) \in m - 1..Len(s) /\ m - 1 = n /\ Len(s) - m + 1 = Len(s) - n
  BY <1>1
<1>3. \A i \in 1..Len(s) - n : m + i - 1 = n + i
  BY <1>1
<1> HIDE DEF m
<1>4. /\ SubSeq(s, m, Len(s)) \in Seq(S)
      /\ Len(SubSeq(s, m, Len(s))) = Len(s) - m + 1
      /\ \A i \in 1..Len(s) - m + 1 : SubSeq(s, m, Len(s))[i] = s[m + i - 1]
  BY <1>2, PartOf
<1>5. QED
  BY <1>2, <1>3, <1>4 DEF m

LEMMA BytesAssociative ==
    \A s, t, u \in Seq(Byte) : (s \o t) \o u = s \o (t \o u)
BY ConcatAssociative, SMTT(60)

(* What is left of a sequence that grows, less its first n members. *)
LEMMA DropConcat ==
    ASSUME NEW S, NEW s \in Seq(S), NEW t \in Seq(S), NEW n \in 0..Len(s)
    PROVE  SubSeq(s \o t, n + 1, Len(s \o t)) = SubSeq(s, n + 1, Len(s)) \o t
<1> DEFINE whole == SubSeq(s \o t, n + 1, Len(s \o t))
           left  == SubSeq(s, n + 1, Len(s))
<1>1. /\ s \o t \in Seq(S) /\ Len(s \o t) = Len(s) + Len(t)
      /\ \A i \in 1..Len(s) + Len(t) : (s \o t)[i] = IF i <= Len(s) THEN s[i] ELSE t[i - Len(s)]
  BY ConcatProperties
<1>2. Len(s) \in Nat /\ Len(t) \in Nat
  BY LenProperties
<1>3. /\ whole \in Seq(S) /\ Len(whole) = Len(s \o t) - n
      /\ \A i \in 1..Len(s \o t) - n : whole[i] = (s \o t)[n + i]
  <2>1. n \in 0..Len(s \o t)
    BY <1>1, <1>2
  <2>2. QED
    BY <1>1, <2>1, SuffixOf
<1>4. /\ left \in Seq(S) /\ Len(left) = Len(s) - n
      /\ \A i \in 1..Len(s) - n : left[i] = s[n + i]
  BY SuffixOf
<1> HIDE DEF whole, left
<1>5. /\ left \o t \in Seq(S) /\ Len(left \o t) = Len(left) + Len(t)
      /\ \A i \in 1..Len(left) + Len(t) :
            (left \o t)[i] = IF i <= Len(left) THEN left[i] ELSE t[i - Len(left)]
  BY <1>4, ConcatProperties
<1>6. Len(whole) = Len(left \o t) /\ \A i \in 1..Len(whole) : whole[i] = (left \o t)[i]
  BY <1>1, <1>2, <1>3, <1>4, <1>5
<1> DEFINE joined == left \o t
<1>7. joined \in Seq(S) /\ Len(whole) = Len(joined) /\ \A i \in 1..Len(whole) : whole[i] = joined[i]
  BY <1>5, <1>6
<1> HIDE DEF joined
<1>8. whole = joined
  BY <1>3, <1>7, SeqEqual
<1>9. QED
  BY <1>8 DEF whole, left, joined

-----------------------------------------------------------------------------
(* The conversion.  Units are the units of a source with these options. *)

Units == IF opts.encoded THEN Unit ELSE Byte

LEMMA Half ==
    ASSUME NEW n \in Nat
    PROVE  n \div 2 \in Nat /\ 2 * (n \div 2) <= n /\ n <= 2 * (n \div 2) + 1
OBVIOUS

LEMMA ConvertTyping ==
    ASSUME NEW u \in Seq(Units)
    PROVE  /\ Rest(u) \in Seq(Units)
           /\ ~opts.encoded => Rest(u) = <<>>
           /\ ~Invalid(u) => Converted(u) \in Seq(Byte)
<1>1. CASE ~opts.encoded
  BY <1>1, EmptySeq DEF Rest, Converted, Units
<1>2. CASE opts.encoded
  <2> DEFINE k == Len(u) \div 2
  <2>1. Len(u) \in Nat /\ k \in Nat /\ 2 * k <= Len(u) /\ Len(u) <= 2 * k + 1
    BY Half, LenProperties
  <2> HIDE DEF k
  <2> DEFINE r == SubSeq(u, 2 * k + 1, Len(u))
  <2>2. r \in Seq(Units) /\ Len(r) = Len(u) - 2 * k /\ \A i \in 1..Len(u) - 2 * k : r[i] = u[2 * k + i]
    <3>1. 2 * k \in 0..Len(u)
      BY <2>1
    <3>2. QED
      BY <3>1, SuffixOf
  <2>3. Rest(u) = r
    BY <1>2 DEF Rest, k
  <2> HIDE DEF r
  <2>4. ASSUME ~Invalid(u)
        PROVE  Converted(u) \in Seq(Byte)
    <3>1. InvalidPairs(u) = {}
      BY <1>2, <2>4 DEF Invalid
    <3>2. \A i \in 1..k : CharacterOf(Pair(u, i)) \in Byte
      BY <3>1 DEF InvalidPairs, CharacterOf, k
    <3>3. Converted(u) = [i \in 1..k |-> CharacterOf(Pair(u, i))]
      BY <1>2 DEF Converted, k
    <3>4. QED
      BY <2>1, <3>2, <3>3, IsASeq
  <2>5. QED
    BY <1>2, <2>2, <2>3, <2>4
<1>3. QED
  BY <1>1, <1>2

(* A character that is whole is converted the same whatever follows. *)
LEMMA ConvertWhole ==
    ASSUME opts.encoded, NEW w \in Seq(Units), NEW k \in Nat, 2 * k <= Len(w),
           NEW v \in Seq(Units), v = SubSeq(w, 2 * k + 1, Len(w))
    PROVE  /\ Len(w) \div 2 = k + (Len(v) \div 2)
           /\ \A i \in 1..Len(v) \div 2 : Pair(w, k + i) = Pair(v, i)
           /\ Rest(w) = Rest(v)
<1> DEFINE h == Len(v) \div 2
<1>1. Len(w) \in Nat /\ Len(v) \in Nat
  BY LenProperties
<1>2. Len(v) = Len(w) - 2 * k /\ \A i \in 1..Len(w) - 2 * k : v[i] = w[2 * k + i]
  <2>1. 2 * k \in 0..Len(w)
    BY <1>1
  <2>2. QED
    BY <2>1, SuffixOf
<1>3. h \in Nat /\ 2 * h <= Len(v) /\ Len(v) <= 2 * h + 1
  BY <1>1, Half
<1>4. Len(w) \div 2 = k + h
  <2>1. /\ Len(w) \div 2 \in Nat
        /\ 2 * (Len(w) \div 2) <= Len(w) /\ Len(w) <= 2 * (Len(w) \div 2) + 1
    BY <1>1, Half
  <2> HIDE DEF h
  <2>2. QED
    BY <1>1, <1>2, <1>3, <2>1, SMTT(40)
<1>5. \A i \in 1..h : Pair(w, k + i) = Pair(v, i)
  <2> HIDE DEF h
  <2> TAKE i \in 1..h
  <2>1. /\ 2 * i - 1 \in 1..Len(w) - 2 * k /\ 2 * i \in 1..Len(w) - 2 * k
        /\ 2 * (k + i) - 1 = 2 * k + (2 * i - 1) /\ 2 * (k + i) = 2 * k + 2 * i
    BY <1>1, <1>2, <1>3
  <2>2. v[2 * i - 1] = w[2 * k + (2 * i - 1)] /\ v[2 * i] = w[2 * k + 2 * i]
    BY <1>2, <2>1
  <2>3. QED
    BY <2>1, <2>2 DEF Pair
<1>6. Rest(w) = Rest(v)
  <2> DEFINE a == SubSeq(w, 2 * (k + h) + 1, Len(w))
             c == SubSeq(v, 2 * h + 1, Len(v))
  <2>1. Rest(w) = a /\ Rest(v) = c
    BY <1>4 DEF Rest
  <2> HIDE DEF h
  <2>2. /\ a \in Seq(Units) /\ Len(a) = Len(w) - 2 * (k + h)
        /\ \A i \in 1..Len(w) - 2 * (k + h) : a[i] = w[2 * (k + h) + i]
    <3>1. 2 * (k + h) \in 0..Len(w)
      BY <1>1, <1>2, <1>3
    <3>2. QED
      BY <3>1, SuffixOf
  <2>3. /\ c \in Seq(Units) /\ Len(c) = Len(v) - 2 * h
        /\ \A i \in 1..Len(v) - 2 * h : c[i] = v[2 * h + i]
    <3>1. 2 * h \in 0..Len(v)
      BY <1>1, <1>3
    <3>2. QED
      BY <3>1, SuffixOf
  <2> HIDE DEF a, c
  <2>4. Len(a) = Len(c)
    BY <1>1, <1>2, <1>3, <2>2, <2>3
  <2>5. \A i \in 1..Len(a) : a[i] = c[i]
    <3> TAKE i \in 1..Len(a)
    <3>1. /\ i \in 1..Len(v) - 2 * h /\ i \in 1..Len(w) - 2 * (k + h)
          /\ 2 * h + i \in 1..Len(w) - 2 * k
          /\ 2 * (k + h) + i = 2 * k + (2 * h + i)
      BY <1>1, <1>2, <1>3, <2>2, <2>3
    <3>2. a[i] = w[2 * (k + h) + i] /\ c[i] = v[2 * h + i] /\ v[2 * h + i] = w[2 * k + (2 * h + i)]
      BY <1>2, <2>2, <2>3, <3>1
    <3>3. QED
      BY <3>1, <3>2
  <2>6. a = c
    BY <2>2, <2>3, <2>4, <2>5, SeqEqual
  <2>7. QED
    BY <2>1, <2>6
<1>7. QED
  BY <1>4, <1>5, <1>6 DEF h

LEMMA ConvertConcat ==
    ASSUME NEW s \in Seq(Units), NEW t \in Seq(Units),
           ~Invalid(s), ~Invalid(Rest(s) \o t)
    PROVE  /\ ~Invalid(s \o t)
           /\ Converted(s \o t) = Converted(s) \o Converted(Rest(s) \o t)
           /\ Rest(s \o t) = Rest(Rest(s) \o t)
<1>1. CASE ~opts.encoded
  <2>1. Rest(s) = <<>> /\ Rest(s) \o t = t
    BY <1>1, ConcatEmptySeq DEF Rest
  <2>2. QED
    BY <1>1, <2>1 DEF Rest, Converted, Invalid
<1>2. CASE opts.encoded
  <2> DEFINE w == s \o t
             r == Rest(s)
             v == r \o t
             k == Len(s) \div 2
             h == Len(v) \div 2
  <2>1. Len(s) \in Nat /\ Len(t) \in Nat /\ k \in Nat /\ 2 * k <= Len(s)
    BY Half, LenProperties
  <2>2. r = SubSeq(s, 2 * k + 1, Len(s)) /\ r \in Seq(Units)
    BY <1>2, ConvertTyping DEF Rest
  <2>3. w \in Seq(Units) /\ Len(w) = Len(s) + Len(t) /\ \A i \in 1..Len(s) : w[i] = s[i]
    BY <2>1, ConcatProperties
  <2>4. v \in Seq(Units)
    BY <2>2, ConcatProperties
  <2>5. v = SubSeq(w, 2 * k + 1, Len(w))
    <3> HIDE DEF k
    <3>1. 2 * k \in 0..Len(s)
      BY <2>1
    <3>2. QED
      BY <2>2, <3>1, DropConcat
  <2>6. 2 * k <= Len(w)
    <3> HIDE DEF k, w
    <3>1. QED
      BY <2>1, <2>3
  <2>7. h \in Nat
    BY <2>4, LenProperties, Half
  <2>8. /\ Len(w) \div 2 = k + h
        /\ \A i \in 1..h : Pair(w, k + i) = Pair(v, i)
        /\ Rest(w) = Rest(v)
    <3> HIDE DEF w, v, k
    <3>1. QED
      BY <1>2, <2>1, <2>3, <2>4, <2>5, <2>6, ConvertWhole, ZenonT(40) DEF h
  <2>9. \A i \in 1..k : Pair(w, i) = Pair(s, i)
    <3> HIDE DEF w, k
    <3> TAKE i \in 1..k
    <3>1. 2 * i - 1 \in 1..Len(s) /\ 2 * i \in 1..Len(s)
      BY <2>1
    <3>2. QED
      BY <2>3, <3>1 DEF Pair
  <2>10. InvalidPairs(s) = {} /\ InvalidPairs(v) = {}
    BY <1>2 DEF Invalid
  <2>11. /\ \A i \in 1..k : \E b \in Byte : Code[b] = Pair(s, i)
         /\ \A i \in 1..h : \E b \in Byte : Code[b] = Pair(v, i)
    BY <2>10 DEF InvalidPairs
  <2>12. \A i \in 1..k + h : i <= k \/ (i - k \in 1..h /\ i = k + (i - k))
    <3> HIDE DEF k, h
    <3>1. QED
      BY <2>1, <2>7
  <2>13. \A i \in 1..k + h : \E b \in Byte : Code[b] = Pair(w, i)
    <3> HIDE DEF k, h, w, v
    <3> TAKE i \in 1..k + h
    <3>1. CASE i <= k
      BY <2>1, <2>7, <2>9, <2>11, <3>1
    <3>2. CASE i - k \in 1..h /\ i = k + (i - k)
      BY <2>8, <2>11, <3>2
    <3>3. QED
      BY <2>12, <3>1, <3>2
  <2>14. ~Invalid(w)
    <3> HIDE DEF k, h, w, v
    <3>1. InvalidPairs(w) = {}
      BY <2>8, <2>13 DEF InvalidPairs
    <3>2. QED
      BY <3>1 DEF Invalid
  <2> DEFINE left  == Converted(s)
             right == Converted(v)
             whole == Converted(w)
  <2>15. /\ left \in Seq(Byte) /\ Len(left) = k
         /\ \A i \in 1..k : left[i] = CharacterOf(Pair(s, i))
    <3>1. left = [i \in 1..k |-> CharacterOf(Pair(s, i))]
      BY <1>2 DEF Converted
    <3> HIDE DEF k
    <3>2. QED
      BY <2>1, <3>1, ConvertTyping
  <2>16. /\ right \in Seq(Byte) /\ Len(right) = h
         /\ \A i \in 1..h : right[i] = CharacterOf(Pair(v, i))
    <3>1. right = [i \in 1..h |-> CharacterOf(Pair(v, i))]
      BY <1>2 DEF Converted
    <3> HIDE DEF h, v
    <3>2. right \in Seq(Byte)
      BY <2>4, ConvertTyping DEF v
    <3>3. QED
      BY <2>7, <3>1, <3>2
  <2>17. /\ whole \in Seq(Byte) /\ Len(whole) = k + h
         /\ \A i \in 1..k + h : whole[i] = CharacterOf(Pair(w, i))
    <3>1. whole = [i \in 1..Len(w) \div 2 |-> CharacterOf(Pair(w, i))]
      BY <1>2 DEF Converted
    <3> HIDE DEF k, h, w
    <3>2. whole \in Seq(Byte)
      BY <2>3, <2>14, ConvertTyping
    <3>3. k + h \in Nat
      BY <2>1, <2>7
    <3>4. QED
      BY <2>8, <3>1, <3>2, <3>3
  <2> HIDE DEF left, right, whole, k, h, w, v
  <2> DEFINE joined == left \o right
  <2>18. /\ joined \in Seq(Byte) /\ Len(joined) = Len(left) + Len(right)
         /\ \A i \in 1..Len(left) + Len(right) :
               joined[i] = IF i <= Len(left) THEN left[i] ELSE right[i - Len(left)]
    BY <2>15, <2>16, ConcatProperties
  <2> HIDE DEF joined
  <2>19. Len(whole) = Len(joined)
    BY <2>15, <2>16, <2>17, <2>18
  <2>20. \A i \in 1..Len(whole) : whole[i] = joined[i]
    <3> TAKE i \in 1..Len(whole)
    <3>1. i \in 1..k + h
      BY <2>17
    <3>2. CASE i <= k
      BY <2>1, <2>7, <2>9, <2>15, <2>16, <2>17, <2>18, <3>1, <3>2
    <3>3. CASE ~(i <= k)
      <4>1. i - k \in 1..h /\ i = k + (i - k)
        BY <2>12, <3>1, <3>3
      <4>2. joined[i] = right[i - k]
        BY <2>15, <2>16, <2>18, <3>1, <3>3
      <4>3. right[i - k] = CharacterOf(Pair(v, i - k)) /\ Pair(w, k + (i - k)) = Pair(v, i - k)
        BY <2>8, <2>16, <4>1
      <4>4. whole[i] = CharacterOf(Pair(w, i))
        BY <2>17, <3>1
      <4>5. QED
        BY <4>1, <4>2, <4>3, <4>4
    <3>4. QED
      BY <3>2, <3>3
  <2>21. whole = joined
    BY <2>17, <2>18, <2>19, <2>20, SeqEqual
  <2>22. QED
    BY <2>8, <2>14, <2>21 DEF w, v, left, right, whole, joined
<1>3. QED
  BY <1>1, <1>2

LEMMA ConvertEmpty == ~Invalid(<<>>) /\ Converted(<<>>) = <<>> /\ Rest(<<>>) = <<>>
<1>1. Len(<<>>) = 0 /\ 0 \div 2 = 0
  OBVIOUS
<1>2. InvalidPairs(<<>>) = {}
  BY <1>1 DEF InvalidPairs
<1>3. [i \in 1..Len(<<>>) \div 2 |-> CharacterOf(Pair(<<>>, i))] = <<>>
  BY <1>1
<1>4. SubSeq(<<>>, 1, 0) = <<>>
  BY SubSeqEmpty
<1>5. QED
  BY <1>1, <1>2, <1>3, <1>4 DEF Invalid, Converted, Rest

(* A part of a sequence, cut in two. *)
LEMMA SplitPart ==
    ASSUME NEW S, NEW s \in Seq(S), NEW h \in 0..Len(s), NEW r \in h..Len(s), NEW n \in 0..r - h
    PROVE  /\ SubSeq(SubSeq(s, h + 1, r), 1, n) = SubSeq(s, h + 1, h + n)
           /\ SubSeq(SubSeq(s, h + 1, r), n + 1, r - h) = SubSeq(s, h + n + 1, r)
           /\ SubSeq(s, h + n + 1, r) \in Seq(S) /\ Len(SubSeq(s, h + n + 1, r)) = r - h - n
<1> DEFINE part == SubSeq(s, h + 1, r)
           a    == SubSeq(part, 1, n)
           b    == SubSeq(s, h + 1, h + n)
           c    == SubSeq(part, n + 1, r - h)
           d    == SubSeq(s, h + n + 1, r)
<1>0. Len(s) \in Nat /\ \A i \in 1..Len(s) : s[i] \in S
  BY LenProperties, ElementOfSeq
<1>1. part \in Seq(S) /\ Len(part) = r - h /\ \A i \in 1..r - h : part[i] = s[h + i]
  BY <1>0, SubSeqProperties
<1>2. b \in Seq(S) /\ Len(b) = n /\ \A i \in 1..n : b[i] = s[h + i]
  BY <1>0, SubSeqProperties
<1>3. d \in Seq(S) /\ Len(d) = r - h - n /\ \A i \in 1..r - h - n : d[i] = s[h + n + i]
  BY <1>0, SubSeqProperties
<1> HIDE DEF part, b, d
<1>4. \A i \in 1..r - h : part[i] \in S
  BY <1>1, ElementOfSeq
<1>5. a \in Seq(S) /\ Len(a) = n /\ \A i \in 1..n : a[i] = part[i]
  BY <1>0, <1>4, SubSeqProperties
<1>6. c \in Seq(S) /\ Len(c) = r - h - n /\ \A i \in 1..r - h - n : c[i] = part[n + i]
  BY <1>0, <1>4, SubSeqProperties
<1> HIDE DEF a, c
<1>7. \A i \in 1..Len(a) : a[i] = b[i]
  <2> TAKE i \in 1..Len(a)
  <2>1. i \in 1..n /\ i \in 1..r - h
    BY <1>0, <1>5
  <2>2. a[i] = part[i] /\ part[i] = s[h + i] /\ b[i] = s[h + i]
    BY <1>1, <1>2, <1>5, <2>1
  <2>3. QED
    BY <2>2
<1>8. \A i \in 1..Len(c) : c[i] = d[i]
  <2> TAKE i \in 1..Len(c)
  <2>1. i \in 1..r - h - n /\ n + i \in 1..r - h /\ h + (n + i) = h + n + i
    BY <1>0, <1>6
  <2>2. c[i] = part[n + i] /\ part[n + i] = s[h + (n + i)] /\ d[i] = s[h + n + i]
    BY <1>1, <1>3, <1>6, <2>1
  <2>3. QED
    BY <2>1, <2>2
<1>9. a = b
  BY <1>2, <1>5, <1>7, SeqEqual
<1>10. c = d
  BY <1>3, <1>6, <1>8, SeqEqual
<1>11. QED
  BY <1>3, <1>9, <1>10 DEF a, b, c, d, part

LEMMA MinOf ==
    ASSUME NEW S \in SUBSET Nat, S # {}
    PROVE  Min(S) \in S /\ \A x \in S : Min(S) <= x
<1>1. \E x \in S : \A y \in S : ~ (<<y, x>> \in OpToRel(<, Nat))
  BY NatLessThanWellFounded, WFMin, Zenon
<1>2. PICK x \in S : \A y \in S : ~ (y < x)
  BY <1>1 DEF OpToRel
<1>3. \A y \in S : x =< y
  BY <1>2
<1>4. QED
  BY <1>3, Zenon DEF Min

LEMMA MaxOf ==
    ASSUME NEW n \in Nat, NEW S \in SUBSET (0..n), S # {}
    PROVE  Max(S) \in S
<1> DEFINE mirror == {n - x : x \in S}
<1>1. mirror \in SUBSET Nat /\ mirror # {}
  <2>1. \A x \in S : n - x \in Nat
    OBVIOUS
  <2>2. mirror \in SUBSET Nat
    BY <2>1
  <2>3. PICK x \in S : TRUE
    OBVIOUS
  <2>4. n - x \in mirror
    OBVIOUS
  <2>5. QED
    BY <2>2, <2>4
<1>2. \E x \in mirror : \A y \in mirror : ~ (<<y, x>> \in OpToRel(<, Nat))
  <2> HIDE DEF mirror
  <2>1. QED
    BY <1>1, NatLessThanWellFounded, WFMin, Zenon
<1>3. PICK m \in mirror : \A y \in mirror : ~ (y < m)
  BY <1>1, <1>2 DEF OpToRel
<1>4. PICK x \in S : m = n - x
  BY <1>3
<1>5. \A y \in S : x >= y
  BY <1>3, <1>4
<1>6. QED
  BY <1>5, Zenon DEF Max

-----------------------------------------------------------------------------
(* The inductive invariant. *)

(* to_line_stream holds the last units read, none if it is not there. *)
LineOK ==
    /\ source \in Seq(Units)
    /\ undecoded \in Seq(Units)
    /\ lineAcc = SubSeq(source, read - Len(lineAcc) + 1, read)
    /\ ~opts.lined => lineAcc = <<>>

(* No element has been handed on, or the first held the mark. *)
MarkOK ==
    /\ mark = "unread" => read = Len(lineAcc)
    /\ mark = "stripped" => Len(Bom) <= read - Len(lineAcc)

StagesOK ==
    fresh /\ phase = "reading" =>
        ~Invalid(Kept) /\ Converted(Kept) = text \o acc /\ Rest(Kept) = undecoded

ClosedOK == phase \in {"draining", "done"} => text = <<>> /\ delivered = <<>>

IInv == TypeOK /\ LineOK /\ MarkOK /\ StagesOK /\ ClosedOK

LEMMA BomTyping == Bom \in Seq(Units)
<1>1. CASE opts.encoded
  BY <1>1, DriverAssumption DEF Bom, Units
<1>2. CASE ~opts.encoded
  BY <1>2, DriverAssumption DEF Bom, Units
<1>3. QED
  BY <1>1, <1>2

LEMMA LessBomTyping ==
    ASSUME NEW u \in Seq(Units), Len(Bom) <= Len(u)
    PROVE  LessBom(u) \in Seq(Units)
<1>1. Len(Bom) \in 0..Len(u)
  BY BomTyping, LenProperties
<1>2. QED
  BY <1>1, SuffixOf DEF LessBom

(* What strip_bom_stream lets through of an element. *)
Stripped(element) == IF HasBom(element) THEN LessBom(element) ELSE element

LEMMA StrippedTyping ==
    ASSUME NEW u \in Seq(Units)
    PROVE  Stripped(u) \in Seq(Units)
BY LessBomTyping DEF Stripped, HasBom, IsPrefix

LEMMA HandedTyping ==
    ASSUME TypeOK, LineOK
    PROVE  /\ Handed \in Seq(Units)
           /\ Len(Handed) = read - Len(lineAcc)
           /\ read - Len(lineAcc) \in 0..Len(source)
           /\ Handed \o lineAcc = SubSeq(source, 1, read)
<1>1. /\ read \in 0..Len(source) /\ Len(lineAcc) <= read
      /\ Len(lineAcc) \in Nat /\ Len(source) \in Nat
  BY LenProperties DEF TypeOK, LineOK
<1> DEFINE h == read - Len(lineAcc)
<1>2. h \in 0..Len(source) /\ h \in 0..read /\ read \in h..Len(source)
  BY <1>1
<1>3. Handed = SubSeq(source, 1, h) /\ lineAcc = SubSeq(source, h + 1, read)
  BY DEF Handed, LineOK
<1>4. source \in Seq(Units)
  BY DEF LineOK
<1> HIDE DEF h
<1>5. 1 \in 1..Len(source) + 1 /\ h \in 1 - 1..Len(source) /\ h - 1 + 1 = h
  BY <1>1, <1>2
<1>6. SubSeq(source, 1, h) \in Seq(Units) /\ Len(SubSeq(source, 1, h)) = h
  BY <1>4, <1>5, PartOf
<1>7. SubSeq(source, 1, h) \o SubSeq(source, h + 1, read) = SubSeq(source, 1, read)
  BY <1>2, <1>4, <1>5, ConcatAdjacentSubSeq
<1>8. QED
  BY <1>2, <1>3, <1>6, <1>7 DEF h

LEMMA KeptTyping ==
    ASSUME TypeOK, LineOK, MarkOK
    PROVE  Kept \in Seq(Units)
BY HandedTyping, LessBomTyping DEF MarkOK, Kept

(* An element that is handed on: what the stages keep grows by what        *)
(* strip_bom_stream lets through.                                          *)
LEMMA KeptGrows ==
    ASSUME TypeOK, LineOK, MarkOK, NEW element \in Seq(Units),
           mark' = MarkAfter(element), Handed' = Handed \o element, UNCHANGED opts
    PROVE  Kept' = Kept \o Stripped(element)
<1>0. Handed \in Seq(Units) /\ Len(Handed) = read - Len(lineAcc) /\ Len(Handed) \in Nat
  BY HandedTyping, LenProperties
<1>1. (LessBom(Handed))' = LessBom(Handed')
  BY DEF LessBom, Bom
<1>2. CASE mark = "unread"
  <2>1. Handed = <<>>
    BY <1>0, <1>2, EmptySeq DEF MarkOK
  <2>2. Handed' = element /\ Kept = <<>>
    BY <1>2, <2>1, ConcatEmptySeq DEF Kept
  <2>3. Kept' = Stripped(element)
    BY <1>1, <1>2, <2>2 DEF Kept, MarkAfter, Stripped
  <2>4. QED
    BY <2>2, <2>3, StrippedTyping, ConcatEmptySeq
<1>3. CASE mark = "stripped"
  <2>1. Len(Bom) \in 0..Len(Handed)
    BY <1>0, <1>3, BomTyping, LenProperties DEF MarkOK
  <2>2. LessBom(Handed \o element) = LessBom(Handed) \o element
    BY <1>0, <2>1, DropConcat DEF LessBom
  <2>3. mark' = "stripped" /\ Stripped(element) = element
    BY <1>3 DEF MarkAfter, Stripped, HasBom
  <2>4. QED
    BY <1>1, <1>3, <2>2, <2>3 DEF Kept
<1>4. CASE mark = "kept"
  BY <1>4 DEF Kept, MarkAfter, Stripped, HasBom
<1>5. QED
  BY <1>2, <1>3, <1>4 DEF TypeOK

(* The variables that one element changes. *)
DriverOK ==
    /\ text \in Seq(Byte) /\ acc \in Seq(Byte) /\ Len(acc) < MinBuffer
    /\ undecoded \in Seq(Units)
    /\ mark \in {"unread", "stripped", "kept"}
    /\ phase \in {"built", "reading", "draining", "done", "halted", "raised"}
    /\ error \in {"none", "malformed", "encoding", "overflow"}
    /\ phase = "raised" <=> error # "none"

LEMMA GatherKeeps ==
    ASSUME DriverOK, Reading, NEW bytes \in Seq(Byte), Gather(bytes)
    PROVE  /\ text' \in Seq(Byte) /\ acc' \in Seq(Byte) /\ Len(acc') < MinBuffer
           /\ \/ phase' = "reading" /\ error' = "none" /\ text' \o acc' = text \o bytes
              \/ phase' = "raised" /\ error' \in {"malformed", "overflow"}
<1>0. phase = "reading" /\ error = "none" /\ text \in Seq(Byte)
  BY DEF DriverOK, Reading
<1>1. MinBuffer \in Nat \ {0} /\ <<>> \in Seq(Byte) /\ Len(<<>>) = 0
  BY DriverAssumption
<1>2. text \o bytes \in Seq(Byte) /\ (text \o bytes) \o <<>> = text \o bytes
  BY <1>0, ConcatProperties, ConcatEmptySeq
<1>3. CASE EnoughToFeed(bytes)
  <2>1. acc' = <<>> /\ (FeedAndTake(bytes) \/ Overflow(bytes))
    BY <1>3 DEF Gather
  <2>2. CASE FeedAndTake(bytes)
    <3>1. text' = text \o bytes
      BY <2>2 DEF FeedAndTake
    <3>2. \/ phase' = "raised" /\ error' = "malformed"
          \/ phase' = phase /\ error' = error
      BY <2>2, Zenon DEF FeedAndTake, Raise
    <3>3. QED
      BY <1>0, <1>1, <1>2, <2>1, <3>1, <3>2
  <2>3. CASE Overflow(bytes)
    BY <1>0, <1>1, <2>1, <2>3 DEF Overflow, Raise, streamVars
  <2>4. QED
    BY <2>1, <2>2, <2>3
<1>4. CASE ~EnoughToFeed(bytes)
  <2>1. acc' = bytes /\ UNCHANGED <<streamVars, pending, phase, error>>
    BY <1>4 DEF Gather
  <2>2. Len(bytes) < MinBuffer
    BY <1>1, <1>4, LenProperties DEF EnoughToFeed
  <2>3. QED
    BY <1>0, <2>1, <2>2 DEF streamVars
<1>5. QED
  BY <1>3, <1>4

(* One element through the stages. *)
LEMMA PullKeeps ==
    ASSUME IInv, NEW element \in Seq(Units), Pull(element),
           Handed' = Handed \o element, UNCHANGED fresh
    PROVE  DriverOK' /\ StagesOK' /\ ClosedOK'
<1> DEFINE input == Input(element)
           kept  == Stripped(element)
<1>0. /\ Reading /\ mark' = MarkAfter(element) /\ UNCHANGED opts
      /\ IF Invalid(input)
         THEN Raise("encoding") /\ UNCHANGED <<streamVars, undecoded, acc, pending>>
         ELSE undecoded' = Rest(input) /\ Gather(acc \o Converted(input))
  BY DEF Pull
<1>1. /\ TypeOK /\ LineOK /\ MarkOK /\ DriverOK
      /\ undecoded \in Seq(Units) /\ acc \in Seq(Byte) /\ text \in Seq(Byte)
  BY DEF IInv, TypeOK, LineOK, DriverOK
<1>2. kept \in Seq(Units) /\ input = undecoded \o kept /\ input \in Seq(Units)
  BY <1>1, StrippedTyping, ConcatProperties DEF Input, Stripped
<1>3. Kept \in Seq(Units) /\ Kept' = Kept \o kept
  BY <1>0, <1>1, KeptTyping, KeptGrows
<1>4. mark' \in {"unread", "stripped", "kept"}
  BY <1>0, <1>1 DEF MarkAfter, DriverOK
<1>5. Units' = Units
  BY <1>0 DEF Units
<1> HIDE DEF input, kept
<1>6. CASE Invalid(input)
  <2>1. Raise("encoding") /\ UNCHANGED <<streamVars, undecoded, acc, pending>>
    BY <1>0, <1>6
  <2>2. DriverOK'
    BY <1>1, <1>4, <1>5, <2>1 DEF DriverOK, Raise, streamVars
  <2>3. QED
    BY <2>1, <2>2 DEF StagesOK, ClosedOK, Raise
<1>7. CASE ~Invalid(input)
  <2> DEFINE more == Converted(input)
  <2>1. undecoded' = Rest(input) /\ Gather(acc \o more)
    BY <1>0, <1>7
  <2>2. more \in Seq(Byte) /\ Rest(input) \in Seq(Units)
    BY <1>2, <1>7, ConvertTyping
  <2>3. acc \o more \in Seq(Byte)
    BY <1>1, <2>2, ConcatProperties
  <2> HIDE DEF more
  <2>4. /\ text' \in Seq(Byte) /\ acc' \in Seq(Byte) /\ Len(acc') < MinBuffer
        /\ \/ phase' = "reading" /\ error' = "none" /\ text' \o acc' = text \o (acc \o more)
           \/ phase' = "raised" /\ error' \in {"malformed", "overflow"}
    BY <1>0, <1>1, <2>1, <2>3, GatherKeeps
  <2>5. DriverOK'
    BY <1>4, <1>5, <2>1, <2>2, <2>4 DEF DriverOK
  <2>6. ClosedOK'
    BY <2>4 DEF ClosedOK
  <2>7. ASSUME fresh, phase' = "reading"
        PROVE  ~Invalid(Kept') /\ Converted(Kept') = text' \o acc' /\ Rest(Kept') = undecoded'
    <3>1. ~Invalid(Kept) /\ Converted(Kept) = text \o acc /\ Rest(Kept) = undecoded
      BY <1>0, <2>7 DEF IInv, StagesOK, Reading
    <3>2. /\ ~Invalid(Kept \o kept)
          /\ Converted(Kept \o kept) = Converted(Kept) \o more
          /\ Rest(Kept \o kept) = Rest(input)
      BY <1>2, <1>3, <1>7, <3>1, ConvertConcat DEF more
    <3>3. (text \o acc) \o more = text \o (acc \o more)
      <4>1. text \in Seq(Byte) /\ acc \in Seq(Byte) /\ more \in Seq(Byte)
        BY <1>1, <2>2
      <4>2. QED
        BY <4>1, BytesAssociative
    <3>4. QED
      BY <1>3, <2>1, <2>4, <2>7, <3>1, <3>2, <3>3
  <2>8. /\ Invalid(Kept)' = Invalid(Kept')
        /\ Converted(Kept)' = Converted(Kept')
        /\ Rest(Kept)' = Rest(Kept')
    BY <1>0 DEF Invalid, InvalidPairs, Converted, Rest, Pair, CharacterOf
  <2>9. StagesOK'
    BY <2>7, <2>8 DEF StagesOK
  <2>10. QED
    BY <2>5, <2>6, <2>9
<1>8. QED
  BY <1>6, <1>7

-----------------------------------------------------------------------------
(* The steps. *)

LineTyping == read \in 0..Len(source) /\ Len(lineAcc) <= read /\ cuts \subseteq 0..read

LEMMA UnitsAreUnits == \A u \in Seq(Units) : u \in Seq(Unit)
<1>1. Units \subseteq Unit
  BY DriverAssumption DEF Units
<1>2. QED
  BY <1>1, SeqMonotonic

LEMMA PartsOfType ==
    ASSUME TypeOK, LineOK
    PROVE  /\ DriverOK /\ LineTyping /\ lineAcc \in Seq(Units)
           /\ Len(lineAcc) \in Nat /\ Len(source) \in Nat /\ read \in Nat
<1>1. /\ source \in Seq(Units) /\ Len(source) \in Nat /\ lineAcc \in Seq(Unit)
      /\ Len(lineAcc) \in Nat /\ read \in 0..Len(source) /\ Len(lineAcc) <= read
  BY LenProperties DEF LineOK, TypeOK
<1> DEFINE m == read - Len(lineAcc) + 1
<1>2. m \in Int /\ read \in Int /\ \A i \in m..read : i \in 1..Len(source)
  BY <1>1
<1>3. lineAcc = SubSeq(source, m, read)
  BY DEF LineOK
<1> HIDE DEF m
<1>4. \A i \in m..read : source[i] \in Units
  BY <1>1, <1>2, ElementOfSeq
<1>5. lineAcc \in Seq(Units)
  BY <1>2, <1>3, <1>4, SubSeqProperties
<1>6. QED
  BY <1>1, <1>5 DEF DriverOK, LineTyping, TypeOK, LineOK

(* After an element the first of them has been looked at; if it was        *)
(* stripped, it held the mark.                                             *)
LEMMA MarkKeeps ==
    ASSUME IInv, NEW element \in Seq(Units), mark' = MarkAfter(element), UNCHANGED opts,
           read' - Len(lineAcc') = read - Len(lineAcc) + Len(element)
    PROVE  MarkOK'
<1>1. /\ Len(element) \in Nat /\ Len(Bom) \in Nat /\ Bom' = Bom
      /\ Len(lineAcc) \in Nat /\ read \in Nat /\ Len(lineAcc) <= read
  BY LenProperties, BomTyping, PartsOfType DEF Bom, IInv, LineTyping
<1>2. mark' # "unread"
  BY DEF MarkAfter
<1>3. ASSUME mark' = "stripped"
      PROVE  Len(Bom) <= read - Len(lineAcc) + Len(element)
  <2>1. CASE mark = "unread"
    <3>1. Len(Bom) <= Len(element)
      BY <1>3, <2>1 DEF MarkAfter, HasBom, IsPrefix
    <3>2. QED
      BY <1>1, <3>1
  <2>2. CASE mark # "unread"
    <3>1. Len(Bom) <= read - Len(lineAcc)
      BY <1>3, <2>2 DEF MarkAfter, IInv, MarkOK
    <3>2. QED
      BY <1>1, <3>1
  <2>3. QED
    BY <2>1, <2>2
<1>4. QED
  BY <1>1, <1>2, <1>3 DEF MarkOK

(* An element without to_line_stream. *)
LEMMA ElementHands ==
    ASSUME IInv, PullElement
    PROVE  \E element \in Seq(Units) :
              /\ Pull(element) /\ Handed' = Handed \o element
              /\ read' = read + Len(element) /\ read' \in read..Len(source)
              /\ lineAcc = <<>> /\ Len(lineAcc) = 0 /\ lineAcc' = <<>>
              /\ UNCHANGED <<source, cuts, toDrop, runs, fresh, opts>>
<1>1. PICK element \in Elements : Pull(element) /\ read' = read + Len(element)
  BY DEF PullElement
<1>2. PICK n \in read..Len(source) : element = SubSeq(source, read + 1, n)
  BY DEF Elements
<1>3. LineOK /\ LineTyping /\ source \in Seq(Units) /\ Len(source) \in Nat /\ read \in 0..Len(source)
  BY PartsOfType DEF IInv, LineOK, LineTyping
<1>4. lineAcc = <<>> /\ Len(lineAcc) = 0 /\ lineAcc' = <<>>
  BY <1>3 DEF PullElement, LineOK
<1>5. UNCHANGED <<source, cuts, toDrop, runs, fresh, opts>>
  BY <1>1 DEF PullElement, headerVars, Pull
<1>6. element \in Seq(Units) /\ Len(element) = n - read
  <2>1. read + 1 \in 1..Len(source) + 1 /\ n \in read + 1 - 1..Len(source) /\ n - (read + 1) + 1 = n - read
    BY <1>3
  <2>2. QED
    BY <1>2, <1>3, <2>1, PartOf
<1>7. read' = n
  BY <1>1, <1>3, <1>6
<1>8. Handed' = Handed \o element
  <2>1. Handed = SubSeq(source, 1, read) /\ Handed' = SubSeq(source, 1, n)
    BY <1>3, <1>4, <1>5, <1>7 DEF Handed
  <2>2. 1 \in 1..Len(source) + 1 /\ read \in 1 - 1..Len(source) /\ n \in read..Len(source)
    BY <1>3
  <2>3. QED
    BY <1>2, <1>3, <2>1, <2>2, ConcatAdjacentSubSeq
<1>9. QED
  BY <1>1, <1>4, <1>5, <1>6, <1>7, <1>8

LEMMA PullElementKeeps ==
    ASSUME IInv, PullElement
    PROVE  IInv'
<1>1. PICK element \in Seq(Units) :
         /\ Pull(element) /\ Handed' = Handed \o element
         /\ read' = read + Len(element) /\ read' \in read..Len(source)
         /\ lineAcc = <<>> /\ Len(lineAcc) = 0 /\ lineAcc' = <<>>
         /\ UNCHANGED <<source, cuts, toDrop, runs, fresh, opts>>
  BY ElementHands
<1>2. /\ TypeOK /\ LineOK /\ source \in Seq(Units) /\ Len(source) \in Nat
      /\ read \in 0..Len(source) /\ lineAcc \in Seq(Units) /\ DriverOK /\ LineTyping
  BY PartsOfType DEF IInv, LineOK, LineTyping
<1>3. mark' = MarkAfter(element)
  BY <1>1 DEF Pull
<1>4. DriverOK' /\ StagesOK' /\ ClosedOK'
  BY <1>1, PullKeeps
<1>5. Units' = Units
  BY <1>1 DEF Units
<1>6. read' \in Nat /\ read' \in 0..Len(source) /\ read <= read'
  BY <1>1, <1>2
<1>7. LineOK'
  <2>1. \A n \in Nat : n - 0 + 1 > n /\ n - 0 + 1 \in Int /\ n \in Int
    OBVIOUS
  <2>2. SubSeq(source, read' - 0 + 1, read') = <<>>
    BY <1>6, <2>1, SubSeqEmpty
  <2>3. undecoded' \in Seq(Units)
    BY <1>4, <1>5 DEF DriverOK
  <2>4. QED
    BY <1>1, <1>2, <1>5, <2>2, <2>3 DEF LineOK
<1>8. LineTyping'
  BY <1>1, <1>2, <1>6 DEF LineTyping
<1>9. MarkOK'
  <2>1. read' - Len(lineAcc') = read - Len(lineAcc) + Len(element)
    BY <1>1, <1>2, LenProperties
  <2>2. QED
    BY <1>1, <1>3, <2>1, MarkKeeps
<1>10. TypeOK'
  <2>1. lineAcc' \in Seq(Units) /\ undecoded' \in Seq(Units)
    BY <1>1, <1>2, <1>4, <1>5 DEF DriverOK
  <2>2. lineAcc' \in Seq(Unit) /\ undecoded' \in Seq(Unit)
    BY <2>1, UnitsAreUnits
  <2>3. toDrop' \in 0..1 /\ runs' \in 0..MaxRuns
    BY <1>1, <1>2 DEF TypeOK
  <2>4. QED
    BY <1>4, <1>8, <2>2, <2>3 DEF TypeOK, DriverOK, LineTyping
<1>11. QED
  BY <1>4, <1>7, <1>9, <1>10 DEF IInv

(* The line stream hands on the first n of its units. *)
LEMMA HandOnHands ==
    ASSUME IInv, NEW n \in 0..Len(lineAcc), HandOn(SubSeq(lineAcc, 1, n))
    PROVE  LET element == SubSeq(lineAcc, 1, n)
               h       == read - Len(lineAcc)
           IN  /\ element \in Seq(Units) /\ Len(element) = n /\ Pull(element)
               /\ h \in 0..Len(source) /\ h + n \in 0..read /\ h + n <= Len(source)
               /\ lineAcc' = SubSeq(source, h + n + 1, read)
               /\ lineAcc' \in Seq(Units) /\ Len(lineAcc') = Len(lineAcc) - n
               /\ read - Len(lineAcc') = h + n /\ Len(lineAcc') <= read
               /\ Handed' = Handed \o element
               /\ cuts' = cuts \cup {h + n}
               /\ UNCHANGED <<source, read, toDrop, runs, fresh, opts>>
<1> DEFINE element == SubSeq(lineAcc, 1, n)
           h       == read - Len(lineAcc)
<1>1. /\ Pull(element) /\ lineAcc' = SubSeq(lineAcc, Len(element) + 1, Len(lineAcc))
      /\ cuts' = cuts \cup {read - Len(lineAcc')}
      /\ UNCHANGED <<source, read, toDrop, runs, fresh>>
  BY DEF HandOn, headerVars
<1>2. UNCHANGED opts
  BY <1>1 DEF Pull
<1>3. /\ TypeOK /\ LineOK /\ source \in Seq(Units) /\ Len(source) \in Nat
      /\ read \in 0..Len(source) /\ lineAcc \in Seq(Units) /\ Len(lineAcc) \in Nat
      /\ DriverOK /\ LineTyping /\ Len(lineAcc) <= read
  BY PartsOfType DEF IInv, LineOK, LineTyping
<1>4. /\ h \in 0..Len(source) /\ read \in h..Len(source) /\ n \in 0..read - h
      /\ Len(lineAcc) = read - h
  BY <1>3
<1>5. lineAcc = SubSeq(source, h + 1, read)
  BY <1>3 DEF LineOK
<1>6. element \in Seq(Units) /\ Len(element) = n
  <2>1. 1 \in 1..Len(lineAcc) + 1 /\ n \in 1 - 1..Len(lineAcc) /\ n - 1 + 1 = n
    BY <1>3
  <2>2. QED
    BY <1>3, <2>1, PartOf
<1> HIDE DEF h
<1>7. /\ SubSeq(SubSeq(source, h + 1, read), 1, n) = SubSeq(source, h + 1, h + n)
      /\ SubSeq(SubSeq(source, h + 1, read), n + 1, read - h) = SubSeq(source, h + n + 1, read)
      /\ SubSeq(source, h + n + 1, read) \in Seq(Units)
      /\ Len(SubSeq(source, h + n + 1, read)) = read - h - n
  BY <1>3, <1>4, SplitPart
<1>8. element = SubSeq(source, h + 1, h + n)
  BY <1>5, <1>7
<1> HIDE DEF element
<1>9. lineAcc' = SubSeq(source, h + n + 1, read)
  BY <1>1, <1>4, <1>5, <1>6, <1>7
<1>10. lineAcc' \in Seq(Units) /\ Len(lineAcc') = read - h - n
  BY <1>7, <1>9
<1>11. read - Len(lineAcc') = h + n /\ Len(lineAcc') \in Nat /\ Len(lineAcc') <= read
  BY <1>3, <1>4, <1>10
<1>12. Handed' = Handed \o element
  <2>1. Handed = SubSeq(source, 1, h) /\ Handed' = SubSeq(source, 1, h + n)
    BY <1>1, <1>11 DEF Handed, h
  <2>2. 1 \in 1..Len(source) + 1 /\ h \in 1 - 1..Len(source) /\ h + n \in h..Len(source)
    BY <1>3, <1>4
  <2>3. QED
    BY <1>3, <1>8, <2>1, <2>2, ConcatAdjacentSubSeq
<1>13. h + n \in 0..read /\ h + n <= Len(source) /\ Len(lineAcc') = Len(lineAcc) - n
  BY <1>3, <1>4, <1>10
<1>14. QED
  BY <1>1, <1>2, <1>4, <1>6, <1>9, <1>10, <1>11, <1>12, <1>13 DEF h, element

LEMMA HandOnKeeps ==
    ASSUME IInv, NEW n \in 0..Len(lineAcc), opts.lined, HandOn(SubSeq(lineAcc, 1, n))
    PROVE  IInv'
<1> DEFINE element == SubSeq(lineAcc, 1, n)
           h       == read - Len(lineAcc)
<1>1. /\ element \in Seq(Units) /\ Len(element) = n /\ Pull(element)
      /\ h \in 0..Len(source) /\ h + n \in 0..read /\ h + n <= Len(source)
      /\ lineAcc' = SubSeq(source, h + n + 1, read)
      /\ lineAcc' \in Seq(Units) /\ Len(lineAcc') = Len(lineAcc) - n
      /\ read - Len(lineAcc') = h + n /\ Len(lineAcc') <= read
      /\ Handed' = Handed \o element
      /\ cuts' = cuts \cup {h + n}
      /\ UNCHANGED <<source, read, toDrop, runs, fresh, opts>>
  BY HandOnHands
<1> HIDE DEF element, h
<1>2. /\ TypeOK /\ LineOK /\ source \in Seq(Units) /\ LineTyping
  BY PartsOfType DEF IInv, LineOK
<1>3. DriverOK' /\ StagesOK' /\ ClosedOK'
  BY <1>1, PullKeeps
<1>4. Units' = Units /\ mark' = MarkAfter(element)
  BY <1>1 DEF Units, Pull
<1>5. LineOK'
  <2>1. undecoded' \in Seq(Units)
    BY <1>3, <1>4 DEF DriverOK
  <2>2. lineAcc' = SubSeq(source', read' - Len(lineAcc') + 1, read')
    BY <1>1
  <2>3. QED
    BY <1>1, <1>2, <1>4, <2>1, <2>2 DEF LineOK
<1>6. LineTyping'
  BY <1>1, <1>2 DEF LineTyping
<1>7. MarkOK'
  <2>1. read' - Len(lineAcc') = read - Len(lineAcc) + Len(element)
    BY <1>1 DEF h
  <2>2. QED
    BY <1>1, <1>4, <2>1, MarkKeeps
<1>8. TypeOK'
  <2>1. undecoded' \in Seq(Units)
    BY <1>3, <1>4 DEF DriverOK
  <2>2. lineAcc' \in Seq(Unit) /\ undecoded' \in Seq(Unit)
    BY <1>1, <2>1, UnitsAreUnits
  <2>3. toDrop' \in 0..1 /\ runs' \in 0..MaxRuns
    BY <1>1, <1>2 DEF TypeOK
  <2>4. QED
    BY <1>3, <1>6, <2>2, <2>3 DEF TypeOK, DriverOK, LineTyping
<1>9. QED
  BY <1>3, <1>5, <1>7, <1>8 DEF IInv

(* A newline that is found ends within the units searched. *)
LEMMA LineLengthInside ==
    ASSUME lineAcc \in Seq(Units), HasLine(Newlines, lineAcc)
    PROVE  LineLength(Newlines, lineAcc) \in 0..Len(lineAcc)
<1> DEFINE starts == NewlineStarts(Newlines, lineAcc)
           first  == Min(starts)
           found  == {newline \in Newlines : StandsAt(newline, lineAcc, first)}
           ends   == {first + Len(newline) - 1 : newline \in found}
<1>1. Len(lineAcc) \in Nat /\ DOMAIN lineAcc = 1..Len(lineAcc)
  BY LenProperties
<1>2. starts \in SUBSET Nat /\ starts # {} /\ starts \subseteq 1..Len(lineAcc)
  BY <1>1 DEF NewlineStarts, HasLine
<1>3. first \in starts
  <2> HIDE DEF starts
  <2>1. QED
    BY <1>2, MinOf
<1>4. first \in 1..Len(lineAcc)
  BY <1>2, <1>3
<1>5. PICK newline \in Newlines : StandsAt(newline, lineAcc, first)
  <2> HIDE DEF first
  <2>1. QED
    BY <1>3 DEF NewlineStarts
<1>6. \A nl \in Newlines : Len(nl) \in Nat
  <2>1. /\ LF \in Byte /\ CR \in Byte /\ Code[LF] \in Unit \X Unit /\ Code[CR] \in Unit \X Unit
    BY ByteAssumption, DriverAssumption
  <2>2. Code[LF] \in Seq(Unit) /\ Code[CR] \in Seq(Unit)
    <3>1. \A x, y \in Unit : <<x, y>> \in Seq(Unit)
      OBVIOUS
    <3>2. \A p \in Unit \X Unit : p = <<p[1], p[2]>> /\ p[1] \in Unit /\ p[2] \in Unit
      OBVIOUS
    <3>3. QED
      BY <2>1, <3>1, <3>2, ZenonT(60)
  <2>3. <<LF>> \in Seq(Byte) /\ <<CR, LF>> \in Seq(Byte)
    BY <2>1
  <2>4. Code[CR] \o Code[LF] \in Seq(Unit)
    BY <2>2, ConcatProperties
  <2>5. Len(Code[LF]) \in Nat /\ Len(Code[CR] \o Code[LF]) \in Nat /\ Len(<<LF>>) \in Nat /\ Len(<<CR, LF>>) \in Nat
    BY <2>2, <2>3, <2>4, LenProperties
  <2>6. QED
    BY <2>5 DEF Newlines, LineFeed, CrLf
<1> HIDE DEF first
<1>7. \A nl \in found : first + Len(nl) - 1 \in 0..Len(lineAcc)
  BY <1>1, <1>4, <1>6 DEF StandsAt
<1>8. ends \in SUBSET (0..Len(lineAcc)) /\ ends # {}
  <2>1. newline \in found
    BY <1>5
  <2> HIDE DEF found
  <2>2. QED
    BY <1>7, <2>1
<1>9. Max(ends) \in ends
  <2> HIDE DEF ends
  <2>1. QED
    BY <1>1, <1>8, MaxOf
<1>10. LineLength(Newlines, lineAcc) = Max(ends)
  BY DEF LineLength, MatchEnd, first
<1>11. QED
  BY <1>8, <1>9, <1>10

(* A line is what stands first in the units that the line stream holds. *)
LEMMA LineIsPart ==
    ASSUME IInv, PullLine \/ PullLastLine
    PROVE  opts.lined /\ \E n \in 0..Len(lineAcc) : HandOn(SubSeq(lineAcc, 1, n))
<1>1. lineAcc \in Seq(Units) /\ Len(lineAcc) \in Nat
  BY PartsOfType DEF IInv
<1>2. CASE PullLine
  BY <1>1, <1>2, LineLengthInside DEF PullLine
<1>3. CASE PullLastLine
  <2>1. SubSeq(lineAcc, 1, Len(lineAcc)) = lineAcc
    BY <1>1, SubSeqFull
  <2>2. Len(lineAcc) \in 0..Len(lineAcc)
    BY <1>1
  <2>3. opts.lined /\ HandOn(SubSeq(lineAcc, 1, Len(lineAcc)))
    BY <1>3, <2>1 DEF PullLastLine
  <2>4. QED
    BY <2>2, <2>3
<1>4. QED
  BY <1>2, <1>3

LEMMA PullLineKeeps ==
    ASSUME IInv, PullLine \/ PullLastLine
    PROVE  IInv'
BY LineIsPart, HandOnKeeps

(* An element is handed on and nothing else: it follows what was handed on *)
(* before it.                                                              *)
LEMMA PullHands ==
    ASSUME IInv, PullElement \/ PullLine \/ PullLastLine
    PROVE  \E element \in Seq(Units) :
              Pull(element) /\ Handed' = Handed \o element /\ UNCHANGED <<source, fresh>>
<1>1. CASE PullElement
  BY <1>1, ElementHands
<1>2. CASE PullLine \/ PullLastLine
  BY <1>2, LineIsPart, HandOnHands
<1>3. QED
  BY <1>1, <1>2

LEMMA ReadElementKeeps ==
    ASSUME IInv, ReadElement
    PROVE  IInv'
<1>1. PICK n \in read..Len(source) :
          /\ lineAcc' = lineAcc \o SubSeq(source, read + 1, n)
          /\ read' = read + Len(SubSeq(source, read + 1, n))
  BY DEF ReadElement, Elements
<1>2. /\ opts.lined
      /\ UNCHANGED <<text, delivered, opts, mark, undecoded, acc, phase, error,
                     source, cuts, toDrop, runs, fresh>>
  BY DEF ReadElement, streamVars, driverVars, headerVars
<1>3. /\ TypeOK /\ LineOK /\ source \in Seq(Units) /\ Len(source) \in Nat
      /\ read \in 0..Len(source) /\ lineAcc \in Seq(Units) /\ Len(lineAcc) \in Nat
      /\ DriverOK /\ LineTyping /\ Len(lineAcc) <= read
  BY PartsOfType DEF IInv, LineOK, LineTyping
<1> DEFINE h == read - Len(lineAcc)
           element == SubSeq(source, read + 1, n)
<1>4. element \in Seq(Units) /\ Len(element) = n - read
  <2>1. read + 1 \in 1..Len(source) + 1 /\ n \in read + 1 - 1..Len(source) /\ n - (read + 1) + 1 = n - read
    BY <1>3
  <2>2. QED
    BY <1>3, <2>1, PartOf
<1>5. h \in Nat /\ h + 1 \in 1..Len(source) + 1 /\ read \in h + 1 - 1..Len(source) /\ n \in read..Len(source)
  BY <1>3
<1>6. lineAcc = SubSeq(source, h + 1, read)
  BY <1>3 DEF LineOK
<1> HIDE DEF h
<1>7. lineAcc' = SubSeq(source, h + 1, n)
  <2>1. SubSeq(source, h + 1, read) \o SubSeq(source, read + 1, n) = SubSeq(source, h + 1, n)
    <3> DEFINE m == h + 1
    <3>1. m \in 1..Len(source) + 1 /\ read \in m - 1..Len(source)
      BY <1>5
    <3> HIDE DEF m
    <3>2. SubSeq(source, m, read) \o SubSeq(source, read + 1, n) = SubSeq(source, m, n)
      BY <1>3, <1>5, <3>1, ConcatAdjacentSubSeq
    <3>3. QED
      BY <3>2 DEF m
  <2>2. QED
    BY <1>1, <1>6, <2>1
<1>8. lineAcc' \in Seq(Units) /\ Len(lineAcc') = Len(lineAcc) + Len(element) /\ read' = read + Len(element)
  BY <1>1, <1>3, <1>4, ConcatProperties
<1> HIDE DEF element
<1>9. /\ read' = n /\ read' - Len(lineAcc') = read - Len(lineAcc) /\ read <= read' /\ read' \in 0..Len(source)
      /\ Len(lineAcc') <= read'
  BY <1>3, <1>4, <1>8
<1>10. Units' = Units /\ Bom' = Bom /\ Handed' = Handed
  BY <1>2, <1>9 DEF Units, Bom, Handed
<1>11. TypeOK'
  <2>1. lineAcc' \in Seq(Unit)
    BY <1>8, UnitsAreUnits
  <2>2. cuts' \subseteq 0..read'
    BY <1>2, <1>3, <1>9 DEF LineTyping
  <2>3. QED
    BY <1>2, <1>3, <1>9, <2>1, <2>2 DEF TypeOK
<1>12. LineOK'
  <2>1. lineAcc' = SubSeq(source', read' - Len(lineAcc') + 1, read')
    BY <1>2, <1>7, <1>9 DEF h
  <2>2. QED
    BY <1>2, <1>3, <1>10, <2>1 DEF LineOK
<1>13. MarkOK'
  <2>1. MarkOK
    BY DEF IInv
  <2>2. (read = Len(lineAcc)) => (read' = Len(lineAcc'))
    BY <1>3, <1>8
  <2>3. QED
    BY <1>2, <1>9, <1>10, <2>1, <2>2 DEF MarkOK
<1>14. StagesOK' /\ ClosedOK'
  <2>1. Kept' = Kept
    BY <1>2, <1>10 DEF Kept, LessBom
  <2>2. /\ Invalid(Kept)' = Invalid(Kept')
        /\ Converted(Kept)' = Converted(Kept')
        /\ Rest(Kept)' = Rest(Kept')
    BY <1>2 DEF Invalid, InvalidPairs, Converted, Rest, Pair, CharacterOf
  <2>3. QED
    BY <1>2, <2>1, <2>2 DEF IInv, StagesOK, ClosedOK
<1>15. QED
  BY <1>11, <1>12, <1>13, <1>14 DEF IInv

(* The source has ended. *)
LEMMA SourceEndsKeeps ==
    ASSUME IInv, SourceEnds
    PROVE  IInv'
<1>1. /\ LastFun /\ Reading
      /\ UNCHANGED <<source, read, lineAcc, cuts, toDrop, runs, fresh, opts, mark, undecoded>>
  BY DEF SourceEnds, LastFun, sourceVars, headerVars
<1>2. /\ TypeOK /\ LineOK /\ MarkOK
      /\ text \in Seq(Byte) /\ acc \in Seq(Byte) /\ error = "none" /\ phase = "reading"
  BY <1>1 DEF IInv, TypeOK, Reading
<1>3. MinBuffer \in Nat \ {0} /\ <<>> \in Seq(Byte) /\ Len(<<>>) = 0
  BY DriverAssumption
<1>4. text \o acc \in Seq(Byte)
  BY <1>2, ConcatProperties
<1>5. /\ text' \in Seq(Byte) /\ (acc' = acc \/ acc' = <<>>)
      /\ \/ phase' = "raised" /\ error' \in {"malformed", "encoding", "overflow"}
         \/ phase' = "draining" /\ error' = "none" /\ text' = <<>> /\ delivered' = <<>>
  <2>1. CASE undecoded # <<>>
    <3>1. Raise("encoding") /\ UNCHANGED <<streamVars, acc, pending>>
      BY <1>1, <2>1 DEF LastFun
    <3>2. QED
      BY <1>2, <3>1 DEF Raise, streamVars
  <2>2. CASE undecoded = <<>>
    <3>1. acc' = <<>> /\ (FeedLast \/ Overflow(acc))
      BY <1>1, <2>2 DEF LastFun
    <3>2. CASE FeedLast
      <4>1. CASE Refuses(Leftover, FALSE)
        BY <1>4, <3>1, <3>2, <4>1 DEF FeedLast, Raise, Leftover
      <4>2. CASE ~Refuses(Leftover, FALSE)
        <5>1. /\ Close
              /\ IF FinalError(Leftover)
                 THEN Raise("malformed") /\ UNCHANGED pending
                 ELSE /\ phase' = "draining"
                      /\ pending' = After(AllRows(Leftover), Len(delivered))
                      /\ UNCHANGED error
          BY <3>2, <4>2 DEF FeedLast
        <5>2. \/ phase' = "raised" /\ error' = "malformed"
              \/ phase' = "draining" /\ error' = error
          BY <5>1 DEF Raise
        <5>3. text' = <<>> /\ delivered' = <<>>
          BY <5>1 DEF Close
        <5>4. QED
          BY <1>2, <1>3, <3>1, <5>2, <5>3
      <4>3. QED
        BY <4>1, <4>2
    <3>3. CASE Overflow(acc)
      BY <1>2, <3>1, <3>3 DEF Overflow, Raise, streamVars
    <3>4. QED
      BY <3>1, <3>2, <3>3
  <2>3. QED
    BY <2>1, <2>2
<1>6. acc' \in Seq(Byte) /\ Len(acc') < MinBuffer
  <2>1. CASE acc' = acc
    BY <1>2, <2>1 DEF TypeOK
  <2>2. CASE acc' = <<>>
    <3>1. 0 < MinBuffer
      BY <1>3
    <3>2. QED
      BY <1>3, <2>2, <3>1
  <2>3. QED
    BY <1>5, <2>1, <2>2
<1>7. TypeOK'
  BY <1>1, <1>2, <1>5, <1>6 DEF TypeOK
<1>8. LineOK' /\ MarkOK'
  BY <1>1, <1>2 DEF LineOK, MarkOK, Units, Bom
<1>9. StagesOK' /\ ClosedOK'
  BY <1>5 DEF StagesOK, ClosedOK
<1>10. QED
  BY <1>7, <1>8, <1>9 DEF IInv

(* The consumer's steps leave the way of the units alone. *)
LEMMA ConsumerKeeps ==
    ASSUME IInv, TakeRow \/ Halt \/ Complete
    PROVE  IInv'
<1>1. /\ UNCHANGED <<text, delivered, opts, mark, undecoded, acc, error, source, read, lineAcc, cuts, runs, fresh>>
      /\ phase' = phase \/ (phase' = "halted" /\ phase \in {"reading", "draining"})
                        \/ (phase' = "done" /\ phase = "draining")
  BY DEF TakeRow, Halt, Complete, streamVars, sourceVars
<1>2. toDrop' = toDrop \/ (toDrop > 0 /\ toDrop' = toDrop - 1)
  BY DEF TakeRow, Halt, Complete, DropRow, KeepKeys, GiveRow, GiveMap, headerVars
<1>3. TypeOK
  BY DEF IInv
<1>4. toDrop' \in 0..1
  BY <1>2, <1>3 DEF TypeOK
<1>5. TypeOK'
  BY <1>1, <1>3, <1>4 DEF TypeOK
<1>6. LineOK' /\ MarkOK'
  BY <1>1 DEF IInv, LineOK, MarkOK, Units, Bom
<1>7. StagesOK'
  <2>1. Kept' = Kept
    BY <1>1 DEF Kept, LessBom, Handed, Bom
  <2>2. /\ Invalid(Kept)' = Invalid(Kept')
        /\ Converted(Kept)' = Converted(Kept')
        /\ Rest(Kept)' = Rest(Kept')
    BY <1>1 DEF Invalid, InvalidPairs, Converted, Rest, Pair, CharacterOf
  <2>3. QED
    BY <1>1, <2>1, <2>2 DEF IInv, StagesOK
<1>8. ClosedOK'
  BY <1>1 DEF IInv, ClosedOK
<1>9. QED
  BY <1>5, <1>6, <1>7, <1>8 DEF IInv

LEMMA StartKeeps ==
    ASSUME IInv, Start
    PROVE  IInv'
<1>1. /\ mark' = "unread" /\ undecoded' = <<>> /\ acc' = <<>>
      /\ phase' = "reading" /\ error' = "none"
      /\ read' = 0 /\ lineAcc' = <<>> /\ cuts' = {}
      /\ UNCHANGED <<opts, source>>
      /\ runs < MaxRuns /\ runs' = runs + 1
      /\ toDrop' = FirstDrop
  BY DEF Start, StartStages
<1>2. text' = text \/ text' = <<>>
  BY DEF Start, StartStages, Close, streamVars
<1>3. fresh' => text' = <<>>
  BY DEF Start, StartStages, Close, streamVars
<1>4. /\ TypeOK /\ LineOK /\ text \in Seq(Byte) /\ runs \in 0..MaxRuns
      /\ source \in Seq(Units) /\ Len(source) \in Nat
  BY PartsOfType DEF IInv, TypeOK, LineOK
<1>5. /\ MinBuffer \in Nat \ {0} /\ MaxRuns \in Nat
      /\ <<>> \in Seq(Byte) /\ <<>> \in Seq(Unit) /\ <<>> \in Seq(Units) /\ Len(<<>>) = 0
  BY DriverAssumption, JobsAssumption
<1>6. runs' \in 0..MaxRuns /\ toDrop' \in 0..1
  BY <1>1, <1>4, <1>5 DEF FirstDrop
<1>7. text' \in Seq(Byte)
  BY <1>2, <1>4, <1>5
<1>8. Len(acc') < MinBuffer /\ read' \in 0..Len(source) /\ Len(lineAcc') <= read'
  BY <1>1, <1>4, <1>5
<1>9. TypeOK'
  BY <1>1, <1>5, <1>6, <1>7, <1>8 DEF TypeOK
<1>10. LineOK'
  <2>1. SubSeq(source, 0 - 0 + 1, 0) = <<>>
    BY SubSeqEmpty
  <2>2. QED
    BY <1>1, <1>4, <1>5, <2>1 DEF LineOK, Units
<1>11. MarkOK'
  BY <1>1, <1>5 DEF MarkOK
<1>12. StagesOK'
  <2>1. SubSeq(source, 1, 0 - 0) = <<>>
    BY SubSeqEmpty
  <2>2. Kept' = <<>>
    BY <1>1, <1>5, <2>1 DEF Kept, Handed
  <2>3. /\ Invalid(Kept)' = Invalid(Kept')
        /\ Converted(Kept)' = Converted(Kept')
        /\ Rest(Kept)' = Rest(Kept')
    BY <1>1 DEF Invalid, InvalidPairs, Converted, Rest, Pair, CharacterOf
  <2>4. <<>> \o <<>> = <<>>
    BY <1>5, ConcatEmptySeq
  <2>5. QED
    BY <1>1, <1>3, <2>2, <2>3, <2>4, ConvertEmpty DEF StagesOK
<1>13. ClosedOK'
  BY <1>1 DEF ClosedOK
<1>14. QED
  BY <1>9, <1>10, <1>11, <1>12, <1>13 DEF IInv

LEMMA InitHolds == Init => IInv
<1> SUFFICES ASSUME Init PROVE IInv
  OBVIOUS
<1>1. PICK job \in Jobs : source = job.source /\ opts = job.opts
  BY DEF Init
<1>2. source \in Seq(Units)
  BY <1>1, JobsAssumption DEF Units
<1>3. /\ mark = "unread" /\ undecoded = <<>> /\ acc = <<>> /\ text = <<>>
      /\ phase = "built" /\ error = "none"
      /\ read = 0 /\ lineAcc = <<>> /\ cuts = {} /\ runs = 0 /\ toDrop \in 0..1
  BY DEF Init, StreamInit, FirstDrop
<1>4. /\ MinBuffer \in Nat \ {0} /\ MaxRuns \in Nat /\ Len(source) \in Nat
      /\ <<>> \in Seq(Byte) /\ <<>> \in Seq(Unit) /\ <<>> \in Seq(Units) /\ Len(<<>>) = 0
  BY <1>2, DriverAssumption, JobsAssumption, LenProperties
<1>5. Len(acc) < MinBuffer /\ read \in 0..Len(source) /\ Len(lineAcc) <= read /\ runs \in 0..MaxRuns
  BY <1>3, <1>4
<1>6. TypeOK
  BY <1>3, <1>4, <1>5 DEF TypeOK
<1>7. LineOK
  <2>1. SubSeq(source, 0 - 0 + 1, 0) = <<>>
    BY SubSeqEmpty
  <2>2. QED
    BY <1>2, <1>3, <1>4, <2>1 DEF LineOK
<1>8. MarkOK /\ StagesOK /\ ClosedOK
  BY <1>3, <1>4 DEF MarkOK, StagesOK, ClosedOK
<1>9. QED
  BY <1>6, <1>7, <1>8 DEF IInv

LEMMA StepKeeps == IInv /\ [Next]_vars => IInv'
<1> SUFFICES ASSUME IInv, [Next]_vars PROVE IInv'
  OBVIOUS
<1>1. CASE Start
  BY <1>1, StartKeeps
<1>2. CASE PullElement
  BY <1>2, PullElementKeeps
<1>3. CASE ReadElement
  BY <1>3, ReadElementKeeps
<1>4. CASE PullLine \/ PullLastLine
  BY <1>4, PullLineKeeps
<1>5. CASE SourceEnds
  BY <1>5, SourceEndsKeeps
<1>6. CASE TakeRow \/ Halt \/ Complete
  BY <1>6, ConsumerKeeps
<1>7. CASE UNCHANGED vars
  <2>1. UNCHANGED <<text, delivered, strict, driverVars, sourceVars, toDrop, runs, fresh>>
    BY <1>7 DEF vars, streamVars, headerVars
  <2>2. TypeOK'
    BY <2>1 DEF IInv, TypeOK, driverVars, sourceVars
  <2>3. LineOK' /\ MarkOK' /\ ClosedOK'
    BY <2>1 DEF IInv, LineOK, MarkOK, ClosedOK, Units, Bom, driverVars, sourceVars
  <2>4. StagesOK'
    <3>1. UNCHANGED <<text, acc, opts, mark, undecoded, phase, source, read, lineAcc, fresh>>
      BY <2>1 DEF driverVars, sourceVars
    <3>2. Kept' = Kept
      BY <3>1 DEF Kept, LessBom, Handed, Bom
    <3>3. /\ Invalid(Kept)' = Invalid(Kept')
          /\ Converted(Kept)' = Converted(Kept')
          /\ Rest(Kept)' = Rest(Kept')
      BY <3>1 DEF Invalid, InvalidPairs, Converted, Rest, Pair, CharacterOf
    <3>4. QED
      BY <3>1, <3>2, <3>3 DEF IInv, StagesOK
  <2>5. QED
    BY <2>2, <2>3, <2>4 DEF IInv
<1>8. QED
  BY <1>1, <1>2, <1>3, <1>4, <1>5, <1>6, <1>7 DEF Next

-----------------------------------------------------------------------------
(* Types, and what the parser gets. *)

(* Types, and nothing is gathered beyond MinBuffer, for every source,      *)
(* encoding, options and chunking.                                         *)
THEOREM TypeCorrect == Spec => []TypeOK
<1>1. IInv => TypeOK
  BY DEF IInv
<1>2. QED
  BY <1>1, InitHolds, StepKeeps, PTL DEF Spec

LEMMA IInvSkipsNothing == IInv => NoByteSkipped
<1> SUFFICES ASSUME IInv PROVE NoByteSkipped
  OBVIOUS
<1>1. /\ Handed \o lineAcc = SubSeq(source, 1, read)
      /\ source \in Seq(Units) /\ read \in 0..Len(source) /\ Len(source) \in Nat
  BY HandedTyping, PartsOfType DEF IInv, LineOK, LineTyping
<1>2. 1 \in 1..Len(source) + 1 /\ read \in 1 - 1..Len(source) /\ read - 1 + 1 = read
  BY <1>1
<1>3. Len(SubSeq(source, 1, read)) = read /\ SubSeq(source, 1, read) \in Seq(Units)
  BY <1>1, <1>2, PartOf
<1>4. SubSeq(SubSeq(source, 1, read), 1, read) = SubSeq(source, 1, read)
  BY <1>3, SubSeqFull
<1>5. IsPrefix(SubSeq(source, 1, read), source)
  BY <1>1, <1>3, <1>4 DEF IsPrefix
<1>6. QED
  BY <1>1, <1>5 DEF IInv, StagesOK, NoByteSkipped

(* On the way from the source through the line stream, the mark, the       *)
(* conversion and the buffer to the parser, no unit is lost, doubled or    *)
(* reordered, for every source, encoding, options and chunking.            *)
THEOREM NothingSkipped == Spec => []NoByteSkipped
BY IInvSkipsNothing, InitHolds, StepKeeps, PTL DEF Spec

(* An enumeration that completes leaves an empty parser, whatever happened *)
(* in the enumerations before.                                             *)
THEOREM CompletionCorrect == Spec => []CompletionEmptiesParser
<1>1. IInv => CompletionEmptiesParser
  BY DEF IInv, ClosedOK, CompletionEmptiesParser
<1>2. QED
  BY <1>1, InitHolds, StepKeeps, PTL DEF Spec

-----------------------------------------------------------------------------
(* The lines of to_line_stream. *)

(* Where the lines of the source end. *)
LineEnds == LineFeedEnds(source) \cup {Len(source)}

(* What is handed on ends where a line ends, and its first element told    *)
(* whether the source begins with a mark.                                  *)
CutsOK ==
    opts.lined =>
        /\ cuts = {n \in LineEnds \ {0} : n <= read - Len(lineAcc)}
        /\ read - Len(lineAcc) \in LineEnds \cup {0}
        /\ mark # "unread" => (mark = "stripped" <=> opts.trim /\ IsPrefix(Bom, source))

(* A line feed is one unit or two, and a CR is as many. *)
LEMMA NewlineUnits ==
    /\ LineFeed \in Seq(Units) /\ CrLf \in Seq(Units)
    /\ Len(LineFeed) \in 1..2 /\ Len(CrLf) = 2 * Len(LineFeed)
    /\ \A k \in 1..Len(LineFeed) : CrLf[Len(LineFeed) + k] = LineFeed[k]
    /\ \E k \in 1..Len(LineFeed) : CrLf[k] # LineFeed[k]
    /\ Len(LineFeed) = 2 => LineFeed[1] # LineFeed[2]
<1>1. LF \in Byte /\ CR \in Byte /\ LF # CR
  BY ByteAssumption
<1>2. CASE ~opts.encoded
  <2>1. LineFeed = <<LF>> /\ CrLf = <<CR, LF>> /\ Units = Byte
    BY <1>2 DEF LineFeed, CrLf, Units
  <2>2. /\ <<LF>> \in Seq(Byte) /\ <<CR, LF>> \in Seq(Byte) /\ Len(<<LF>>) = 1 /\ Len(<<CR, LF>>) = 2
        /\ <<LF>>[1] = LF /\ <<CR, LF>>[1] = CR /\ <<CR, LF>>[2] = LF
    BY <1>1
  <2>3. /\ LineFeed \in Seq(Units) /\ CrLf \in Seq(Units) /\ Len(LineFeed) = 1 /\ Len(CrLf) = 2
        /\ LineFeed[1] = LF /\ CrLf[1] = CR /\ CrLf[2] = LF
    BY <2>1, <2>2
  <2>4. QED
    BY <1>1, <2>3
<1>3. CASE opts.encoded
  <2>1. LineFeed = Code[LF] /\ CrLf = Code[CR] \o Code[LF] /\ Units = Unit
    BY <1>3 DEF LineFeed, CrLf, Units
  <2>2. PICK x, y \in Unit : Code[LF] = <<x, y>>
    BY <1>1, DriverAssumption
  <2>3. PICK u, v \in Unit : Code[CR] = <<u, v>>
    BY <1>1, DriverAssumption
  <2>4. x # y
    BY <2>2, NewlineAssumption
  <2>5. u # x \/ v # y
    <3>1. <<x, y>> # <<u, v>>
      BY <1>1, <2>2, <2>3, DriverAssumption, Zenon
    <3>2. QED
      BY <3>1
  <2>6. /\ <<x, y>> \in Seq(Unit) /\ <<u, v>> \in Seq(Unit)
        /\ Len(<<x, y>>) = 2 /\ Len(<<u, v>>) = 2
        /\ <<x, y>>[1] = x /\ <<x, y>>[2] = y /\ <<u, v>>[1] = u /\ <<u, v>>[2] = v
    OBVIOUS
  <2> DEFINE l == <<x, y>>
             c == <<u, v>>
  <2>7. /\ l \in Seq(Unit) /\ c \in Seq(Unit) /\ Len(l) = 2 /\ Len(c) = 2
        /\ l[1] = x /\ l[2] = y /\ c[1] = u /\ c[2] = v
        /\ LineFeed = l /\ CrLf = c \o l
    BY <2>1, <2>2, <2>3, <2>6
  <2> HIDE DEF l, c
  <2>8. /\ c \o l \in Seq(Unit) /\ Len(c \o l) = 4
        /\ (c \o l)[1] = u /\ (c \o l)[2] = v /\ (c \o l)[3] = x /\ (c \o l)[4] = y
    <3>1. /\ c \o l \in Seq(Unit) /\ Len(c \o l) = Len(c) + Len(l)
          /\ \A k \in 1..Len(c) + Len(l) : (c \o l)[k] = IF k <= Len(c) THEN c[k] ELSE l[k - Len(c)]
      BY <2>7, ConcatProperties
    <3>2. /\ Len(c \o l) = 4
          /\ \A k \in 1..4 : (c \o l)[k] = IF k <= 2 THEN c[k] ELSE l[k - 2]
      BY <2>7, <3>1
    <3>3. (c \o l)[1] = u /\ (c \o l)[2] = v
      BY <2>7, <3>2
    <3>4. (c \o l)[3] = l[1] /\ (c \o l)[4] = l[2]
      BY <3>2
    <3>5. QED
      BY <2>7, <3>1, <3>2, <3>3, <3>4
  <2>9. /\ LineFeed \in Seq(Units) /\ CrLf \in Seq(Units) /\ Len(LineFeed) = 2 /\ Len(CrLf) = 4
        /\ LineFeed[1] = x /\ LineFeed[2] = y /\ CrLf[1] = u /\ CrLf[2] = v
        /\ CrLf[3] = x /\ CrLf[4] = y
    BY <2>1, <2>7, <2>8
  <2>10. QED
    BY <2>4, <2>5, <2>9
<1>4. QED
  BY <1>2, <1>3

(* That a newline stands at a position, unit by unit. *)
LEMMA StandsIs ==
    ASSUME NEW s \in Seq(Units), NEW t \in Seq(Units), Len(t) # 0, NEW i \in 1..Len(s)
    PROVE  StandsAt(t, s, i) <=> /\ i + Len(t) - 1 <= Len(s)
                                 /\ \A k \in 1..Len(t) : s[i + k - 1] = t[k]
<1> DEFINE e == i + Len(t) - 1
<1>1. Len(s) \in Nat /\ Len(t) \in Nat \ {0}
  BY LenProperties
<1>2. ASSUME e <= Len(s)
      PROVE  SubSeq(s, i, e) = t <=> \A k \in 1..Len(t) : s[i + k - 1] = t[k]
  <2>1. i \in 1..Len(s) + 1 /\ e \in i - 1..Len(s) /\ e - i + 1 = Len(t)
    BY <1>1, <1>2
  <2> HIDE DEF e
  <2>2. /\ SubSeq(s, i, e) \in Seq(Units) /\ Len(SubSeq(s, i, e)) = Len(t)
        /\ \A k \in 1..Len(t) : SubSeq(s, i, e)[k] = s[i + k - 1]
    BY <2>1, PartOf
  <2> DEFINE part == SubSeq(s, i, e)
  <2> HIDE DEF part
  <2>3. part \in Seq(Units) /\ Len(part) = Len(t) /\ \A k \in 1..Len(t) : part[k] = s[i + k - 1]
    BY <2>2 DEF part
  <2>4. (\A k \in 1..Len(t) : part[k] = t[k]) => part = t
    BY <2>3, SeqEqual
  <2>5. part = t <=> \A k \in 1..Len(t) : s[i + k - 1] = t[k]
    BY <2>3, <2>4
  <2>6. QED
    BY <2>5 DEF part
<1>3. QED
  BY <1>2 DEF StandsAt

(* LineLength finds the first line feed, with a CR before it if there is   *)
(* one.                                                                    *)
LEMMA FirstLine ==
    ASSUME NEW s \in Seq(Units), HasLine(Newlines, s)
    PROVE  LET n == LineLength(Newlines, s)
               w == Len(LineFeed)
           IN  /\ n \in w..Len(s) /\ StandsAt(LineFeed, s, n - w + 1)
               /\ \A j \in 1..Len(s) : StandsAt(LineFeed, s, j) => n <= j + w - 1
<1> DEFINE starts == NewlineStarts(Newlines, s)
           first  == Min(starts)
           found  == {newline \in Newlines : StandsAt(newline, s, first)}
           ends   == {first + Len(newline) - 1 : newline \in found}
           w      == Len(LineFeed)
           n      == LineLength(Newlines, s)
<1>1. Len(s) \in Nat /\ DOMAIN s = 1..Len(s)
  BY LenProperties
<1>2. starts \in SUBSET Nat /\ starts # {} /\ starts \subseteq 1..Len(s)
  BY <1>1 DEF NewlineStarts, HasLine
<1>3. first \in starts /\ \A j \in starts : first <= j
  <2> HIDE DEF starts
  <2>1. QED
    BY <1>2, MinOf
<1>4. first \in 1..Len(s)
  BY <1>2, <1>3
<1>5. PICK newline \in Newlines : StandsAt(newline, s, first)
  <2> HIDE DEF first
  <2>1. QED
    BY <1>3 DEF NewlineStarts
<1>6. /\ LineFeed \in Seq(Units) /\ CrLf \in Seq(Units) /\ w \in 1..2 /\ Len(CrLf) = 2 * w
      /\ \A k \in 1..w : CrLf[w + k] = LineFeed[k]
      /\ \E k \in 1..w : CrLf[k] # LineFeed[k]
      /\ w = 2 => LineFeed[1] # LineFeed[2]
  BY NewlineUnits
<1>7. Newlines = {CrLf, LineFeed}
  BY DEF Newlines
<1>8. \A nl \in Newlines : Len(nl) \in Nat
  BY <1>6, <1>7
<1>9. \A j \in 1..Len(s) : StandsAt(LineFeed, s, j) => first <= j
  BY <1>1, <1>3, <1>7 DEF NewlineStarts
<1> HIDE DEF first, starts
<1>10. \A nl \in found : first + Len(nl) - 1 \in 0..Len(s)
  BY <1>1, <1>4, <1>8 DEF StandsAt
<1>11. ends \in SUBSET (0..Len(s)) /\ ends # {}
  <2>1. newline \in found
    BY <1>5
  <2> HIDE DEF found
  <2>2. QED
    BY <1>10, <2>1
<1>12. Max(ends) \in ends
  <2> HIDE DEF ends
  <2>1. QED
    BY <1>1, <1>11, MaxOf
<1>13. n = Max(ends)
  BY DEF LineLength, MatchEnd, first, starts
<1>14. PICK nl \in Newlines : StandsAt(nl, s, first) /\ n = first + Len(nl) - 1
  BY <1>12, <1>13
<1> HIDE DEF n, ends, found, w
<1>15. CASE nl = LineFeed
  <2>1. n = first + w - 1 /\ first = n - w + 1 /\ StandsAt(LineFeed, s, n - w + 1)
    <3>1. n = first + w - 1
      BY <1>14, <1>15 DEF w
    <3>2. n - w + 1 = first
      BY <1>4, <1>6, <3>1
    <3>3. QED
      BY <1>14, <1>15, <3>1, <3>2
  <2>2. n <= Len(s)
    BY <1>14, <1>15, <2>1 DEF StandsAt, w
  <2>3. n \in w..Len(s)
    <3>1. n = first + w - 1
      BY <1>14, <1>15 DEF w
    <3>2. first \in Nat /\ 1 <= first /\ w \in Nat
      BY <1>4, <1>6
    <3>3. n \in Nat /\ w <= n
      BY <3>1, <3>2
    <3>4. QED
      BY <1>1, <2>2, <3>2, <3>3
  <2>4. \A j \in 1..Len(s) : StandsAt(LineFeed, s, j) => n <= j + w - 1
    BY <1>1, <1>4, <1>6, <1>9, <2>1
  <2>5. QED
    BY <2>1, <2>3, <2>4 DEF n, w
<1>16. CASE nl = CrLf
  <2>1. n = first + 2 * w - 1
    BY <1>6, <1>14, <1>16
  <2>2. n <= Len(s) /\ \A k \in 1..2 * w : s[first + k - 1] = CrLf[k]
    <3>1. Len(CrLf) # 0
      BY <1>6
    <3>2. /\ first + Len(CrLf) - 1 <= Len(s)
          /\ \A k \in 1..Len(CrLf) : s[first + k - 1] = CrLf[k]
      BY <1>4, <1>6, <1>14, <1>16, <3>1, StandsIs
    <3>3. first + Len(CrLf) - 1 = n
      BY <1>14, <1>16
    <3>4. QED
      BY <1>6, <3>2, <3>3
  <2>3. n \in w..Len(s) /\ n - w + 1 = first + w /\ first + w \in 1..Len(s) /\ first + w + w - 1 <= Len(s)
    <3>1. n \in Nat /\ w <= n
      BY <1>4, <1>6, <2>1
    <3>2. n - w + 1 = first + w /\ first + w \in 1..Len(s) /\ first + w + w - 1 <= Len(s)
      BY <1>1, <1>4, <1>6, <2>1, <2>2
    <3>3. QED
      BY <1>1, <1>6, <2>2, <3>1, <3>2
  <2>4. Len(LineFeed) # 0
    BY <1>6 DEF w
  <2>5. StandsAt(LineFeed, s, first + w)
    <3>1. \A k \in 1..w : s[first + w + k - 1] = LineFeed[k]
      <4>1. SUFFICES ASSUME NEW k \in 1..w PROVE s[first + w + k - 1] = LineFeed[k]
        OBVIOUS
      <4>2. w + k \in 1..2 * w /\ first + (w + k) - 1 = first + w + k - 1
        BY <1>4, <1>6
      <4>3. s[first + (w + k) - 1] = CrLf[w + k]
        BY <2>2, <4>2
      <4>4. QED
        BY <1>6, <4>2, <4>3
    <3>2. QED
      BY <1>6, <2>3, <2>4, <3>1, StandsIs DEF w
  <2>6. ASSUME NEW j \in 1..Len(s), StandsAt(LineFeed, s, j)
        PROVE  n <= j + w - 1
    <3>1. \A k \in 1..w : s[j + k - 1] = LineFeed[k]
      BY <1>6, <2>4, <2>6, StandsIs DEF w
    <3>2. first <= j
      BY <1>9, <2>6
    <3>3. j # first
      <4>1. PICK k \in 1..w : CrLf[k] # LineFeed[k]
        BY <1>6
      <4>2. k \in 1..2 * w
        BY <1>6
      <4>3. s[first + k - 1] = CrLf[k] /\ s[j + k - 1] = LineFeed[k]
        BY <2>2, <3>1, <4>2
      <4>4. QED
        BY <4>1, <4>3
    <3>4. CASE w = 1
      BY <1>4, <2>1, <3>2, <3>3, <3>4
    <3>5. CASE w = 2
      <4>1. j # first + 1
        <5>1. SUFFICES ASSUME j = first + 1 PROVE FALSE
          OBVIOUS
        <5>2. s[j + 2 - 1] = LineFeed[2]
          BY <3>1, <3>5
        <5>3. s[first + 3 - 1] = CrLf[3] /\ CrLf[2 + 1] = LineFeed[1]
          BY <1>6, <2>2, <3>5
        <5>4. j + 2 - 1 = first + 3 - 1 /\ 2 + 1 = 3
          BY <1>4, <5>1
        <5>5. LineFeed[1] = LineFeed[2]
          BY <5>2, <5>3, <5>4
        <5>6. QED
          BY <1>6, <3>5, <5>5
      <4>2. QED
        BY <1>4, <2>1, <3>2, <3>3, <3>5, <4>1
    <3>6. QED
      BY <1>6, <3>4, <3>5
  <2>7. QED
    BY <2>3, <2>5, <2>6 DEF n, w
<1>17. QED
  BY <1>7, <1>14, <1>15, <1>16

(* The units that the line stream holds follow those it has handed on.     *)
LEMMA HeldUnits ==
    ASSUME IInv
    PROVE  LET h == read - Len(lineAcc)
           IN  /\ h \in 0..Len(source) /\ Len(lineAcc) \in Nat /\ Len(source) \in Nat
               /\ h + Len(lineAcc) = read /\ read \in 0..Len(source)
               /\ source \in Seq(Units) /\ lineAcc \in Seq(Units)
               /\ \A i \in 1..Len(lineAcc) : lineAcc[i] = source[h + i]
<1> DEFINE h == read - Len(lineAcc)
<1>1. /\ source \in Seq(Units) /\ Len(source) \in Nat /\ read \in 0..Len(source)
      /\ lineAcc \in Seq(Units) /\ Len(lineAcc) \in Nat /\ Len(lineAcc) <= read
  BY PartsOfType DEF IInv, LineOK, LineTyping
<1>2. /\ h \in 0..Len(source) /\ h + Len(lineAcc) = read
      /\ h + 1 \in 1..Len(source) + 1 /\ read \in h + 1 - 1..Len(source)
      /\ read - (h + 1) + 1 = Len(lineAcc) /\ \A i \in 1..Len(lineAcc) : h + 1 + i - 1 = h + i
  BY <1>1
<1>3. lineAcc = SubSeq(source, h + 1, read)
  BY DEF IInv, LineOK
<1> HIDE DEF h
<1> DEFINE m == h + 1
<1>4. m \in 1..Len(source) + 1 /\ read \in m - 1..Len(source) /\ read - m + 1 = Len(lineAcc)
  BY <1>2
<1> HIDE DEF m
<1>5. \A i \in 1..read - m + 1 : SubSeq(source, m, read)[i] = source[m + i - 1]
  BY <1>1, <1>4, PartOf
<1>6. \A i \in 1..Len(lineAcc) : lineAcc[i] = source[h + i]
  <2>1. lineAcc = SubSeq(source, m, read) /\ \A i \in 1..Len(lineAcc) : m + i - 1 = h + i
    BY <1>2, <1>3 DEF m
  <2>2. QED
    BY <1>4, <1>5, <2>1
<1>7. QED
  BY <1>1, <1>2, <1>6 DEF h

(* A line feed stands in what is held where it stands in the source.       *)
LEMMA HeldLineFeed ==
    ASSUME IInv, NEW j \in 1..Len(lineAcc), j + Len(LineFeed) - 1 <= Len(lineAcc)
    PROVE  StandsAt(LineFeed, lineAcc, j) <=> StandsAt(LineFeed, source, read - Len(lineAcc) + j)
<1> DEFINE h == read - Len(lineAcc)
           w == Len(LineFeed)
<1>1. /\ h \in 0..Len(source) /\ Len(lineAcc) \in Nat /\ Len(source) \in Nat
      /\ h + Len(lineAcc) = read /\ read \in 0..Len(source)
      /\ source \in Seq(Units) /\ lineAcc \in Seq(Units)
      /\ \A i \in 1..Len(lineAcc) : lineAcc[i] = source[h + i]
  BY HeldUnits
<1>2. LineFeed \in Seq(Units) /\ w \in 1..2 /\ Len(LineFeed) # 0
  BY NewlineUnits
<1> HIDE DEF h
<1>3. h + j \in 1..Len(source) /\ h + j + w - 1 <= Len(source)
  BY <1>1, <1>2
<1>4. StandsAt(LineFeed, lineAcc, j) <=> \A k \in 1..w : lineAcc[j + k - 1] = LineFeed[k]
  BY <1>1, <1>2, StandsIs
<1>5. StandsAt(LineFeed, source, h + j) <=> \A k \in 1..w : source[h + j + k - 1] = LineFeed[k]
  BY <1>1, <1>2, <1>3, StandsIs
<1>6. \A k \in 1..w : lineAcc[j + k - 1] = source[h + j + k - 1]
  <2>1. \A k \in 1..w : j + k - 1 \in 1..Len(lineAcc) /\ h + (j + k - 1) = h + j + k - 1
    BY <1>1, <1>2
  <2>2. QED
    BY <1>1, <2>1
<1>7. QED
  BY <1>4, <1>5, <1>6 DEF h

LEMMA LineFeedEndsIs ==
    ASSUME NEW s \in Seq(Units)
    PROVE  \A f : f \in LineFeedEnds(s) <=>
              /\ f \in Len(LineFeed)..Len(s)
              /\ StandsAt(LineFeed, s, f - Len(LineFeed) + 1)
<1> DEFINE w == Len(LineFeed)
<1>1. Len(s) \in Nat /\ DOMAIN s = 1..Len(s) /\ w \in 1..2
  BY LenProperties, NewlineUnits
<1>2. LineFeedEnds(s) = {i + w - 1 : i \in {i \in 1..Len(s) : StandsAt(LineFeed, s, i)}}
  BY <1>1 DEF LineFeedEnds, NewlineStarts
<1>3. SUFFICES ASSUME NEW f
               PROVE  f \in LineFeedEnds(s) <=>
                        f \in w..Len(s) /\ StandsAt(LineFeed, s, f - w + 1)
  OBVIOUS
<1>4. ASSUME f \in LineFeedEnds(s)
      PROVE  f \in w..Len(s) /\ StandsAt(LineFeed, s, f - w + 1)
  <2>1. PICK i \in 1..Len(s) : StandsAt(LineFeed, s, i) /\ f = i + w - 1
    BY <1>2, <1>4
  <2>2. i + w - 1 <= Len(s)
    BY <2>1 DEF StandsAt
  <2> HIDE DEF w
  <2>3. f \in w..Len(s) /\ f - w + 1 = i
    BY <1>1, <2>1, <2>2
  <2>4. QED
    BY <2>1, <2>3
<1>5. ASSUME f \in w..Len(s), StandsAt(LineFeed, s, f - w + 1)
      PROVE  f \in LineFeedEnds(s)
  <2> DEFINE i == f - w + 1
  <2> HIDE DEF w
  <2>1. i \in 1..Len(s) /\ f = i + w - 1
    BY <1>1, <1>5
  <2> HIDE DEF i
  <2>2. StandsAt(LineFeed, s, i)
    BY <1>5 DEF i
  <2>3. QED
    BY <1>2, <2>1, <2>2
<1>6. QED
  BY <1>4, <1>5

(* No line feed stands across the end of a line: its first unit and its    *)
(* last are not equal.                                                     *)
LEMMA NotAcross ==
    ASSUME NEW s \in Seq(Units), NEW h \in LineFeedEnds(s) \cup {Len(s)} \cup {0},
           NEW f \in LineFeedEnds(s), h < f
    PROVE  h < f - Len(LineFeed) + 1
<1> DEFINE w == Len(LineFeed)
<1>1. /\ w \in 1..2 /\ Len(LineFeed) # 0 /\ LineFeed \in Seq(Units)
      /\ w = 2 => LineFeed[1] # LineFeed[2]
      /\ Len(s) \in Nat
  BY LenProperties, NewlineUnits
<1>2. f \in w..Len(s) /\ StandsAt(LineFeed, s, f - w + 1)
  BY LineFeedEndsIs
<1>3. h \in Nat
  BY <1>1, LineFeedEndsIs
<1> HIDE DEF w
<1>4. CASE w = 1
  BY <1>2, <1>3, <1>4 DEF w
<1>5. CASE w = 2
  <2>1. SUFFICES ASSUME f - 2 + 1 <= h PROVE FALSE
    BY <1>2, <1>3, <1>5 DEF w
  <2>2. h = f - 1 /\ f \in 2..Len(s)
    BY <1>2, <1>3, <1>5, <2>1
  <2>3. h \in LineFeedEnds(s)
    BY <1>1, <2>2
  <2>4. h \in 2..Len(s) /\ StandsAt(LineFeed, s, h - 2 + 1)
    BY <1>5, <2>3, LineFeedEndsIs DEF w
  <2>5. h - 2 + 1 \in 1..Len(s) /\ f - 2 + 1 \in 1..Len(s) /\ h - 2 + 1 + 2 - 1 = h /\ f - 2 + 1 + 1 - 1 = h
    BY <1>1, <2>2, <2>4
  <2> DEFINE i == h - 2 + 1
             j == f - 2 + 1
  <2>6. /\ i \in 1..Len(s) /\ j \in 1..Len(s) /\ i + 2 - 1 = h /\ j + 1 - 1 = h
        /\ StandsAt(LineFeed, s, i) /\ StandsAt(LineFeed, s, j)
    BY <1>2, <1>5, <2>4, <2>5 DEF w
  <2> HIDE DEF i, j
  <2>7. \A k \in 1..Len(LineFeed) : s[i + k - 1] = LineFeed[k]
    BY <1>1, <2>6, StandsIs
  <2>8. \A k \in 1..Len(LineFeed) : s[j + k - 1] = LineFeed[k]
    BY <1>1, <2>6, StandsIs
  <2>9. s[h] = LineFeed[2] /\ s[h] = LineFeed[1]
    BY <1>5, <2>6, <2>7, <2>8 DEF w
  <2>10. QED
    BY <1>1, <1>5, <2>9
<1>6. QED
  BY <1>1, <1>4, <1>5

(* A line that is handed on ends at the next end of a line.                *)
LEMMA NextCut ==
    ASSUME IInv, CutsOK, PullLine \/ PullLastLine
    PROVE  \E n \in 1..Len(lineAcc) :
              /\ HandOn(SubSeq(lineAcc, 1, n))
              /\ read - Len(lineAcc) + n \in LineEnds
              /\ \A f \in LineEnds : read - Len(lineAcc) < f => read - Len(lineAcc) + n <= f
<1> DEFINE h == read - Len(lineAcc)
           w == Len(LineFeed)
<1>1. /\ h \in 0..Len(source) /\ Len(lineAcc) \in Nat /\ Len(source) \in Nat
      /\ h + Len(lineAcc) = read /\ read \in 0..Len(source)
      /\ source \in Seq(Units) /\ lineAcc \in Seq(Units)
  BY HeldUnits
<1>2. w \in 1..2
  BY NewlineUnits
<1>3. h \in LineFeedEnds(source) \cup {Len(source)} \cup {0}
  BY DEF CutsOK, PullLine, PullLastLine, LineEnds
<1>4. \A f \in LineFeedEnds(source) : h < f => h < f - w + 1
  BY <1>1, <1>3, NotAcross
<1>5. \A f \in LineFeedEnds(source) : f \in w..Len(source) /\ StandsAt(LineFeed, source, f - w + 1)
  BY <1>1, LineFeedEndsIs
<1>6. \A j \in 1..Len(lineAcc) : j + w - 1 <= Len(lineAcc) =>
         (StandsAt(LineFeed, lineAcc, j) <=> StandsAt(LineFeed, source, h + j))
  BY HeldLineFeed
<1> HIDE DEF h, w
<1>7. \A f \in LineFeedEnds(source) : h < f /\ f <= read =>
         /\ f - w + 1 - h \in 1..Len(lineAcc)
         /\ StandsAt(LineFeed, lineAcc, f - w + 1 - h)
  <2>1. SUFFICES ASSUME NEW f \in LineFeedEnds(source), h < f, f <= read
                 PROVE  /\ f - w + 1 - h \in 1..Len(lineAcc)
                        /\ StandsAt(LineFeed, lineAcc, f - w + 1 - h)
    OBVIOUS
  <2> DEFINE j == f - w + 1 - h
  <2>2. f \in w..Len(source) /\ StandsAt(LineFeed, source, f - w + 1) /\ h < f - w + 1
    BY <1>4, <1>5, <2>1
  <2>3. j \in 1..Len(lineAcc) /\ j + w - 1 <= Len(lineAcc) /\ h + j = f - w + 1
    BY <1>1, <1>2, <2>1, <2>2
  <2> HIDE DEF j
  <2>4. StandsAt(LineFeed, lineAcc, j)
    BY <1>6, <2>2, <2>3
  <2>5. QED
    BY <2>3, <2>4 DEF j
<1>8. CASE PullLine
  <2> DEFINE n == LineLength(Newlines, lineAcc)
  <2>1. HasLine(Newlines, lineAcc) /\ HandOn(SubSeq(lineAcc, 1, n))
    BY <1>8 DEF PullLine
  <2>2. /\ n \in w..Len(lineAcc) /\ StandsAt(LineFeed, lineAcc, n - w + 1)
        /\ \A j \in 1..Len(lineAcc) : StandsAt(LineFeed, lineAcc, j) => n <= j + w - 1
    BY <1>1, <2>1, FirstLine DEF w
  <2> HIDE DEF n
  <2>3. n \in 1..Len(lineAcc) /\ n - w + 1 \in 1..Len(lineAcc) /\ n - w + 1 + w - 1 <= Len(lineAcc)
    BY <1>1, <1>2, <2>2
  <2>4. h + n \in LineEnds
    <3>1. StandsAt(LineFeed, source, h + (n - w + 1))
      BY <1>6, <2>2, <2>3
    <3> DEFINE f == h + n
    <3>2. h + (n - w + 1) = f - w + 1 /\ f \in w..Len(source)
      BY <1>1, <1>2, <2>2
    <3> HIDE DEF f
    <3>3. f \in w..Len(source) /\ StandsAt(LineFeed, source, f - w + 1)
      BY <3>1, <3>2
    <3>4. f \in LineFeedEnds(source)
      BY <1>1, <3>3, LineFeedEndsIs DEF w
    <3>5. QED
      BY <3>4 DEF LineEnds, f
  <2>5. ASSUME NEW f \in LineEnds, h < f
        PROVE  h + n <= f
    <3>1. CASE f = Len(source) \/ read < f
      BY <1>1, <2>3, <3>1, <2>5, <1>5 DEF LineEnds
    <3>2. CASE f \in LineFeedEnds(source) /\ f <= read
      <4>1. f - w + 1 - h \in 1..Len(lineAcc) /\ n <= f - w + 1 - h + w - 1
        BY <1>7, <2>2, <2>5, <3>2
      <4>2. f \in Nat
        BY <1>1, <1>2, <1>5, <3>2
      <4>3. QED
        BY <1>1, <1>2, <2>3, <4>1, <4>2
    <3>3. f \in Nat
      BY <1>1, <1>2, <1>5 DEF LineEnds
    <3>4. QED
      BY <1>1, <3>1, <3>2, <3>3 DEF LineEnds
  <2>6. QED
    BY <2>1, <2>3, <2>4, <2>5 DEF h
<1>9. CASE PullLastLine
  <2> DEFINE n == Len(lineAcc)
  <2>1. ~HasLine(Newlines, lineAcc) /\ lineAcc # <<>> /\ read = Len(source) /\ HandOn(lineAcc)
    BY <1>9 DEF PullLastLine
  <2>2. SubSeq(lineAcc, 1, n) = lineAcc
    BY <1>1, SubSeqFull
  <2>3. n \in 1..Len(lineAcc) /\ h + n = Len(source)
    BY <1>1, <2>1, EmptySeq
  <2>4. ASSUME NEW f \in LineEnds, h < f
        PROVE  h + n <= f
    <3>1. CASE f = Len(source)
      BY <2>3, <3>1, <1>1
    <3>2. CASE f \in LineFeedEnds(source)
      <4>1. f <= read
        BY <1>1, <1>2, <1>5, <2>1, <3>2
      <4>2. f - w + 1 - h \in 1..Len(lineAcc) /\ StandsAt(LineFeed, lineAcc, f - w + 1 - h)
        BY <1>7, <2>4, <3>2, <4>1
      <4>3. DOMAIN lineAcc = 1..Len(lineAcc) /\ LineFeed \in Newlines
        BY <1>1, LenProperties DEF Newlines
      <4>4. QED
        BY <2>1, <4>2, <4>3 DEF HasLine, NewlineStarts
    <3>3. QED
      BY <3>1, <3>2 DEF LineEnds
  <2>5. QED
    BY <2>1, <2>2, <2>3, <2>4 DEF h, LineEnds
<1>10. QED
  BY <1>8, <1>9

LEMMA PrefixIs ==
    ASSUME NEW s \in Seq(Units), NEW t \in Seq(Units)
    PROVE  IsPrefix(s, t) <=> Len(s) <= Len(t) /\ \A i \in 1..Len(s) : s[i] = t[i]
<1> DEFINE n == Len(s)
           part == SubSeq(t, 1, n)
<1>1. n \in Nat /\ Len(t) \in Nat
  BY LenProperties
<1>2. SubSeq(s, 1, n) = s
  BY SubSeqFull
<1>3. ASSUME n <= Len(t)
      PROVE  s = part <=> \A i \in 1..n : s[i] = t[i]
  <2>1. 1 \in 1..Len(t) + 1 /\ n \in 1 - 1..Len(t) /\ n - 1 + 1 = n /\ \A i \in 1..n : 1 + i - 1 = i
    BY <1>1, <1>3
  <2>2. /\ part \in Seq(Units) /\ Len(part) = n - 1 + 1
        /\ \A i \in 1..n - 1 + 1 : part[i] = t[1 + i - 1]
    BY <2>1, PartOf
  <2>3. part \in Seq(Units) /\ Len(part) = n /\ \A i \in 1..n : part[i] = t[i]
    BY <2>1, <2>2
  <2> HIDE DEF part
  <2>4. (\A i \in 1..n : s[i] = part[i]) => s = part
    BY <2>3, SeqEqual
  <2>5. QED
    BY <2>3, <2>4
<1>4. QED
  BY <1>2, <1>3 DEF IsPrefix

LEMMA NoLineFeedInBom ==
    ASSUME NEW i \in 1..Len(Bom)
    PROVE  ~StandsAt(LineFeed, Bom, i)
<1>1. CASE opts.encoded
  <2>1. Bom = EncodedMark /\ LineFeed = Code[LF]
    BY <1>1 DEF Bom, LineFeed
  <2>2. DOMAIN EncodedMark = 1..Len(EncodedMark)
    BY DriverAssumption, LenProperties
  <2>3. QED
    BY <2>1, <2>2, NewlineAssumption DEF NewlineStarts
<1>2. CASE ~opts.encoded
  <2>1. Bom = Mark /\ LineFeed = <<LF>> /\ Units = Byte /\ LF \in Byte
    BY <1>2, ByteAssumption DEF Bom, LineFeed, Units
  <2>2. <<LF>> \in Seq(Byte) /\ Len(<<LF>>) = 1 /\ <<LF>>[1] = LF
    BY <2>1
  <2>3. Mark \in Seq(Units) /\ Len(Mark) \in Nat /\ DOMAIN Mark = 1..Len(Mark)
    BY <2>1, DriverAssumption, LenProperties
  <2>4. ASSUME StandsAt(<<LF>>, Mark, i) PROVE FALSE
    <3> DEFINE l == <<LF>>
    <3>0. l \in Seq(Units) /\ Len(l) = 1 /\ Len(l) # 0 /\ l[1] = LF /\ StandsAt(l, Mark, i) /\ i \in 1..Len(Mark)
      BY <2>1, <2>2, <2>4
    <3> HIDE DEF l
    <3>a. \A k \in 1..Len(l) : Mark[i + k - 1] = l[k]
      BY <2>3, <3>0, StandsIs
    <3>1. Mark[i + 1 - 1] = LF
      BY <3>0, <3>a
    <3>2. Mark[i] = LF /\ i \in DOMAIN Mark
      BY <2>3, <3>0, <3>1
    <3>3. QED
      BY <3>2, NewlineAssumption DEF Range
  <2>5. QED
    BY <2>1, <2>4
<1>3. QED
  BY <1>1, <1>2

(* The first line holds a mark whole.                                      *)
LEMMA FirstLineHoldsMark ==
    ASSUME IInv, read = Len(lineAcc), NEW n \in 1..Len(lineAcc), n \in LineEnds
    PROVE  IsPrefix(Bom, SubSeq(lineAcc, 1, n)) <=> IsPrefix(Bom, source)
<1> DEFINE element == SubSeq(lineAcc, 1, n)
           w == Len(LineFeed)
<1>1. /\ Len(lineAcc) \in Nat /\ Len(source) \in Nat /\ read \in 0..Len(source)
      /\ source \in Seq(Units) /\ lineAcc \in Seq(Units)
      /\ \A i \in 1..Len(lineAcc) : lineAcc[i] = source[read - Len(lineAcc) + i]
  BY HeldUnits
<1>2. \A i \in 1..Len(lineAcc) : lineAcc[i] = source[i]
  <2>1. \A i \in 1..Len(lineAcc) : read - Len(lineAcc) + i = i
    BY <1>1
  <2>2. QED
    BY <1>1, <2>1
<1>3. element \in Seq(Units) /\ Len(element) = n /\ \A i \in 1..n : element[i] = source[i]
  <2>1. /\ 1 \in 1..Len(lineAcc) + 1 /\ n \in 1 - 1..Len(lineAcc) /\ n - 1 + 1 = n
        /\ \A i \in 1..n : 1 + i - 1 = i /\ i \in 1..Len(lineAcc)
    BY <1>1
  <2>2. /\ element \in Seq(Units) /\ Len(element) = n - 1 + 1
        /\ \A i \in 1..n - 1 + 1 : element[i] = lineAcc[1 + i - 1]
    BY <1>1, <2>1, PartOf
  <2>3. QED
    BY <1>2, <2>1, <2>2
<1>4. /\ Bom \in Seq(Units) /\ Len(Bom) \in Nat
      /\ LineFeed \in Seq(Units) /\ w \in 1..2 /\ Len(LineFeed) # 0
  BY BomTyping, NewlineUnits, LenProperties
<1> HIDE DEF element, w
<1>5. IsPrefix(Bom, element) <=> Len(Bom) <= n /\ \A i \in 1..Len(Bom) : Bom[i] = element[i]
  BY <1>3, <1>4, PrefixIs
<1>6. IsPrefix(Bom, source) <=> Len(Bom) <= Len(source) /\ \A i \in 1..Len(Bom) : Bom[i] = source[i]
  BY <1>1, <1>4, PrefixIs
<1>7. n <= Len(source)
  BY <1>1
<1>8. ASSUME Len(Bom) <= n
      PROVE  IsPrefix(Bom, element) <=> IsPrefix(Bom, source)
  BY <1>1, <1>3, <1>4, <1>5, <1>6, <1>7, <1>8
<1>9. ASSUME n < Len(Bom), IsPrefix(Bom, source)
      PROVE  FALSE
  <2>1. n \in LineFeedEnds(source)
    BY <1>1, <1>4, <1>6, <1>9 DEF LineEnds
  <2>2. n \in w..Len(source) /\ StandsAt(LineFeed, source, n - w + 1)
    BY <1>1, <2>1, LineFeedEndsIs DEF w
  <2> DEFINE j == n - w + 1
  <2>3. j \in 1..Len(source) /\ j \in 1..Len(Bom) /\ j + w - 1 <= Len(Bom)
        /\ \A k \in 1..w : j + k - 1 \in 1..Len(Bom)
    BY <1>1, <1>4, <1>9, <2>2
  <2>4. StandsAt(LineFeed, source, j)
    BY <2>2
  <2> HIDE DEF j
  <2>5. \A k \in 1..w : source[j + k - 1] = LineFeed[k]
    BY <1>1, <1>4, <2>3, <2>4, StandsIs DEF w
  <2>6. \A k \in 1..w : Bom[j + k - 1] = LineFeed[k]
    BY <1>6, <1>9, <2>3, <2>5
  <2>7. StandsAt(LineFeed, Bom, j)
    BY <1>4, <2>3, <2>6, StandsIs DEF w
  <2>8. QED
    BY <2>3, <2>7, NoLineFeedInBom
<1>10. ASSUME n < Len(Bom)
       PROVE  ~IsPrefix(Bom, element)
  BY <1>1, <1>4, <1>5, <1>10
<1>11. Len(Bom) <= n \/ n < Len(Bom)
  BY <1>1, <1>4
<1>12. IsPrefix(Bom, element) <=> IsPrefix(Bom, source)
  BY <1>8, <1>9, <1>10, <1>11
<1>13. QED
  BY <1>12 DEF element

LEMMA LineEndsSame ==
    ASSUME UNCHANGED <<source, opts>>
    PROVE  LineEnds' = LineEnds /\ Bom' = Bom
BY DEF LineEnds, LineFeedEnds, NewlineStarts, StandsAt, LineFeed, Bom

LEMMA LineEndsAreNumbers ==
    ASSUME IInv
    PROVE  LineEnds \subseteq 0..Len(source)
<1>1. source \in Seq(Units) /\ Len(source) \in Nat
  BY HeldUnits
<1>2. \A f \in LineFeedEnds(source) : f \in Len(LineFeed)..Len(source)
  BY <1>1, LineFeedEndsIs
<1>3. QED
  BY <1>1, <1>2, NewlineUnits DEF LineEnds

LEMMA NoneAtZero ==
    ASSUME NEW n \in Nat, NEW S \in SUBSET (0..n)
    PROVE  {f \in S \ {0} : f <= 0} = {}
<1>1. \A f \in S : f # 0 => ~(f <= 0)
  OBVIOUS
<1>2. QED
  BY <1>1, Zenon

LEMMA LineCuts ==
    ASSUME IInv, CutsOK, PullLine \/ PullLastLine
    PROVE  CutsOK'
<1> DEFINE h == read - Len(lineAcc)
<1>1. PICK n \in 1..Len(lineAcc) :
         /\ HandOn(SubSeq(lineAcc, 1, n))
         /\ h + n \in LineEnds
         /\ \A f \in LineEnds : h < f => h + n <= f
  BY NextCut
<1> DEFINE element == SubSeq(lineAcc, 1, n)
<1>2. /\ h \in 0..Len(source) /\ Len(lineAcc) \in Nat /\ Len(source) \in Nat
  BY HeldUnits
<1>3. /\ element \in Seq(Units) /\ Len(element) = n /\ Pull(element)
      /\ read - Len(lineAcc') = h + n /\ cuts' = cuts \cup {h + n}
      /\ UNCHANGED <<source, read, opts>>
  <2>1. n \in 0..Len(lineAcc)
    BY <1>2
  <2>2. QED
    BY <1>1, <2>1, HandOnHands
<1>4. LineEnds' = LineEnds /\ Bom' = Bom
  BY <1>3, LineEndsSame
<1>5. /\ cuts = {f \in LineEnds \ {0} : f <= h}
      /\ mark # "unread" => (mark = "stripped" <=> opts.trim /\ IsPrefix(Bom, source))
      /\ opts.lined
  BY DEF CutsOK, PullLine, PullLastLine
<1>6. cuts' = {f \in LineEnds' \ {0} : f <= read' - Len(lineAcc')}
  <2>1. LineEnds \subseteq 0..Len(source)
    BY LineEndsAreNumbers
  <2> DEFINE Ends == LineEnds
  <2> HIDE DEF h, Ends
  <2>2. cuts' = {f \in Ends \ {0} : f <= h + n}
    <3>1. \A f \in Ends : f \in Nat /\ (h < f => h + n <= f) /\ h + n \in Ends /\ h + n # 0
      BY <1>1, <1>2, <2>1 DEF Ends
    <3>2. \A f \in Ends : f <= h + n <=> f <= h \/ f = h + n
      BY <1>2, <3>1
    <3>3. cuts' = {f \in Ends \ {0} : f <= h} \cup {h + n}
      BY <1>3, <1>5 DEF Ends
    <3>4. h + n \in Ends \ {0}
      BY <1>1, <1>2 DEF Ends
    <3>5. QED
      BY <3>2, <3>3, <3>4
  <2>3. read' - Len(lineAcc') = h + n
    BY <1>3
  <2>4. QED
    BY <1>4, <2>2, <2>3 DEF Ends
<1>7. mark' = "stripped" <=> opts.trim /\ IsPrefix(Bom, source)
  <2>1. mark' = MarkAfter(element)
    BY <1>3 DEF Pull
  <2>2. CASE mark = "unread"
    <3>1. read = Len(lineAcc)
      BY <2>2 DEF IInv, MarkOK
    <3>2. n \in LineEnds
      <4>1. h + n = n
        BY <1>2, <3>1
      <4>2. QED
        BY <1>1, <4>1
    <3>3. IsPrefix(Bom, element) <=> IsPrefix(Bom, source)
      BY <3>1, <3>2, FirstLineHoldsMark
    <3>4. mark' = "stripped" <=> opts.trim /\ IsPrefix(Bom, element)
      BY <2>1, <2>2 DEF MarkAfter, HasBom
    <3>5. QED
      BY <3>3, <3>4
  <2>3. CASE mark # "unread"
    BY <1>5, <2>1, <2>3 DEF MarkAfter
  <2>4. QED
    BY <2>2, <2>3
<1>8. QED
  <2>1. read' - Len(lineAcc') \in LineEnds'
    BY <1>1, <1>3, <1>4
  <2>2. mark' = "stripped" <=> opts'.trim /\ IsPrefix(Bom', source')
    BY <1>3, <1>4, <1>7
  <2>3. QED
    BY <1>6, <2>1, <2>2 DEF CutsOK

LEMMA CutsKept ==
    ASSUME IInv, CutsOK, UNCHANGED <<source, opts, cuts, mark>>,
           read' - Len(lineAcc') = read - Len(lineAcc)
    PROVE  CutsOK'
<1>1. LineEnds' = LineEnds /\ Bom' = Bom
  BY LineEndsSame
<1>2. QED
  BY <1>1 DEF CutsOK

LEMMA StepCuts == IInv /\ CutsOK /\ [Next]_vars => CutsOK'
<1> SUFFICES ASSUME IInv, CutsOK, [Next]_vars PROVE CutsOK'
  OBVIOUS
<1>1. CASE Start
  <2>1. /\ cuts' = {} /\ read' = 0 /\ lineAcc' = <<>> /\ mark' = "unread"
        /\ UNCHANGED <<source, opts>>
    BY <1>1 DEF Start, StartStages
  <2>2. LineEnds' = LineEnds /\ LineEnds \subseteq 0..Len(source) /\ Len(source) \in Nat
    BY <2>1, LineEndsSame, LineEndsAreNumbers, HeldUnits
  <2>3. read' - Len(lineAcc') = 0
    <3>1. Len(lineAcc') = 0
      BY <2>1
    <3>2. read' = 0
      BY <2>1
    <3>3. QED
      BY <3>1, <3>2
  <2>4. cuts' = {n \in LineEnds' \ {0} : n <= 0}
    BY <2>1, <2>2, NoneAtZero
  <2>5. QED
    BY <2>1, <2>3, <2>4 DEF CutsOK
<1>2. CASE PullElement
  BY <1>2 DEF PullElement, Pull, CutsOK
<1>3. CASE ReadElement
  <2>1. PICK n \in read..Len(source) :
          /\ lineAcc' = lineAcc \o SubSeq(source, read + 1, n)
          /\ read' = read + Len(SubSeq(source, read + 1, n))
    BY <1>3 DEF ReadElement, Elements
  <2>2. UNCHANGED <<source, opts, cuts, mark>>
    BY <1>3 DEF ReadElement, driverVars
  <2> DEFINE element == SubSeq(source, read + 1, n)
  <2>3. /\ source \in Seq(Units) /\ Len(source) \in Nat /\ read \in 0..Len(source)
        /\ lineAcc \in Seq(Units) /\ Len(lineAcc) \in Nat
    BY HeldUnits
  <2>4. element \in Seq(Units) /\ Len(element) \in Nat
    <3>1. read + 1 \in 1..Len(source) + 1 /\ n \in read + 1 - 1..Len(source)
      BY <2>3
    <3>2. QED
      BY <2>3, <3>1, PartOf, LenProperties
  <2>5. Len(lineAcc') = Len(lineAcc) + Len(element) /\ read' = read + Len(element)
    BY <2>1, <2>3, <2>4, ConcatProperties
  <2> HIDE DEF element
  <2>6. read' - Len(lineAcc') = read - Len(lineAcc)
    BY <2>3, <2>4, <2>5
  <2>7. QED
    BY <2>2, <2>6, CutsKept
<1>4. CASE PullLine \/ PullLastLine
  BY <1>4, LineCuts
<1>5. CASE SourceEnds \/ TakeRow \/ Halt \/ Complete \/ UNCHANGED vars
  <2>1. UNCHANGED <<sourceVars, opts, mark>>
    BY <1>5 DEF SourceEnds, LastFun, TakeRow, Halt, Complete, vars, driverVars
  <2>2. UNCHANGED <<source, opts, cuts, mark>> /\ read' - Len(lineAcc') = read - Len(lineAcc)
    BY <2>1 DEF sourceVars
  <2>3. QED
    BY <2>2, CutsKept
<1>6. QED
  BY <1>1, <1>2, <1>3, <1>4, <1>5 DEF Next

LEMMA InitCuts == Init => CutsOK
<1> SUFFICES ASSUME Init PROVE CutsOK
  OBVIOUS
<1>1. IInv
  BY InitHolds
<1>2. cuts = {} /\ read = 0 /\ lineAcc = <<>> /\ mark = "unread"
  BY DEF Init
<1>3. LineEnds \subseteq 0..Len(source) /\ Len(source) \in Nat
  BY <1>1, LineEndsAreNumbers, HeldUnits
<1>4. read - Len(lineAcc) = 0
  <2>1. Len(lineAcc) = 0
    BY <1>2
  <2>2. read = 0
    BY <1>2
  <2>3. QED
    BY <2>1, <2>2
<1>5. cuts = {n \in LineEnds \ {0} : n <= 0}
  BY <1>2, <1>3, NoneAtZero
<1>6. QED
  BY <1>2, <1>4, <1>5 DEF CutsOK

LEMMA CutsFollow == IInv /\ CutsOK => LinesOfSource
<1> SUFFICES ASSUME IInv, CutsOK, opts.lined
             PROVE  /\ cuts = {n \in (LineFeedEnds(source) \cup {Len(source)}) \ {0} : n <= Len(Handed)}
                    /\ mark # "unread" => (mark = "stripped" <=> opts.trim /\ IsPrefix(Bom, source))
  BY DEF LinesOfSource
<1>1. Len(Handed) = read - Len(lineAcc)
  BY HandedTyping DEF IInv
<1>2. QED
  BY <1>1 DEF CutsOK, LineEnds

(* However the source is cut, the elements handed on are its lines, and a  *)
(* mark is found where the source begins with one.                         *)
THEOREM LinesCorrect == Spec => []LinesOfSource
<1>1. Init => IInv /\ CutsOK
  BY InitHolds, InitCuts
<1>2. (IInv /\ CutsOK) /\ [Next]_vars => (IInv /\ CutsOK)'
  BY StepKeeps, StepCuts
<1>3. QED
  BY <1>1, <1>2, CutsFollow, PTL DEF Spec

-----------------------------------------------------------------------------
(* Maps: both ways of making a map from a row make the same. *)

(* The made maps: a map for every number of names read. *)
MapOfFirst(names, values, n) ==
    [k \in {names[j] : j \in 1..n} |-> values[Max({j \in 1..n : names[j] = k})]]

(* One more key and value. *)
LEMMA PutNext ==
    ASSUME NEW names, NEW values, NEW n \in Nat, n > 0
    PROVE  MapOfFirst(names, values, n)
              = MapPut(MapOfFirst(names, values, n - 1), names[n], values[n])
<1> DEFINE key  == names[n]
           before == {names[j] : j \in 1..n - 1}
           upto   == {names[j] : j \in 1..n}
<1>1. \A j : j \in 1..n <=> j \in 1..n - 1 \/ j = n
  OBVIOUS
<1>2. upto = before \cup {key}
  BY <1>1
<1>3. Max({j \in 1..n : names[j] = key}) = n
  <2> DEFINE S == {j \in 1..n : names[j] = key}
  <2>1. S \in SUBSET Int /\ n \in S /\ \A j \in S : j <= n
    OBVIOUS
  <2> HIDE DEF S
  <2>2. Max(S) = n
    BY <2>1, MaxIsGreatest
  <2>3. QED
    BY <2>2 DEF S
<1>4. \A k : k # key => {j \in 1..n : names[j] = k} = {j \in 1..n - 1 : names[j] = k}
  BY <1>1
<1> DEFINE map == MapOfFirst(names, values, n - 1)
<1>5. DOMAIN map = before
  BY DEF MapOfFirst
<1>6. \A k \in before : map[k] = values[Max({j \in 1..n - 1 : names[j] = k})]
  BY DEF MapOfFirst
<1>7. MapOfFirst(names, values, n) = [k \in upto |-> values[Max({j \in 1..n : names[j] = k})]]
  BY DEF MapOfFirst
<1>8. MapPut(map, key, values[n]) = [k \in before \cup {key} |-> IF k = key THEN values[n] ELSE map[k]]
  BY <1>5 DEF MapPut
<1> HIDE DEF map, before, upto, key
<1>9. \A k \in upto : values[Max({j \in 1..n : names[j] = k})] = IF k = key THEN values[n] ELSE map[k]
  <2>1. ASSUME NEW k \in upto, k # key
        PROVE  values[Max({j \in 1..n : names[j] = k})] = map[k]
    <3>1. k \in before
      BY <1>2, <2>1
    <3>2. QED
      BY <1>4, <1>6, <2>1, <3>1
  <2>2. QED
    BY <1>3, <2>1
<1>10. QED
  BY <1>2, <1>7, <1>8, <1>9 DEF map, key

(* make_map puts the values one after another: of equal names the last wins. *)
LEMMA MakeMapIs ==
    ASSUME NEW K, NEW names \in Seq(K), NEW V, NEW values \in [1..Len(names) -> V]
    PROVE  MakeMap(names, values) = MapOfFirst(names, values, Len(names))
<1> DEFINE m == Len(names)
           maps == UNION {[D -> V] : D \in SUBSET K}
           step == [n \in 1..m |-> [map \in maps |-> MapPut(map, names[n], values[n])]]
           OneMore(g) == [n \in 0..m |-> IF n = 0 THEN <<>> ELSE MapPut(g[n - 1], names[n], values[n])]
           made == CHOOSE g : g = OneMore(g)
<1>1. m \in Nat /\ \A n \in 1..m : names[n] \in K /\ values[n] \in V
  OBVIOUS
<1>2. <<>> \in maps
  <2>1. <<>> \in [{} -> V]
    OBVIOUS
  <2>2. {} \in SUBSET K
    OBVIOUS
  <2>3. QED
    BY <2>1, <2>2
<1>3. \A map \in maps, n \in 1..m : MapPut(map, names[n], values[n]) \in maps
  <2>1. ASSUME NEW map \in maps, NEW k \in K, NEW v \in V
        PROVE  MapPut(map, k, v) \in maps
    <3>1. PICK D \in SUBSET K : map \in [D -> V]
      OBVIOUS
    <3>2. MapPut(map, k, v) \in [D \cup {k} -> V]
      BY <3>1 DEF MapPut
    <3>3. D \cup {k} \in SUBSET K
      BY <2>1
    <3>4. QED
      BY <3>2, <3>3
  <2> HIDE DEF maps
  <2>2. QED
    BY <1>1, <2>1
<1>4. step \in [1..m -> [maps -> maps]]
  <2> HIDE DEF maps
  <2>1. QED
    BY <1>3
<1>5. PICK f \in [0..m -> maps] :
         f[0] = <<>> /\ \A n \in 1..m : f[n] = step[n][f[n - 1]]
  <2>1. Readings(m, maps, <<>>, step) # {}
    <3> HIDE DEF step, m, maps
    <3>1. QED
      BY <1>1, <1>2, <1>4, ReadingExists
  <2>2. QED
    BY <2>1 DEF Readings
<1> HIDE DEF maps
<1>6. f = OneMore(f)
  <2>1. \A n \in 0..m : n # 0 => n \in 1..m /\ n - 1 \in 0..m
    OBVIOUS
  <2>2. \A n \in 1..m : f[n] = MapPut(f[n - 1], names[n], values[n])
    <3>1. \A n \in 1..m : n - 1 \in 0..m
      OBVIOUS
    <3>2. QED
      BY <1>5, <3>1
  <2>3. \A n \in 0..m : f[n] = OneMore(f)[n]
    BY <1>5, <2>1, <2>2
  <2>4. QED
    BY <2>3
<1>7. made = OneMore(made)
  <2> HIDE DEF OneMore
  <2>1. QED
    BY <1>6, Zenon
<1>8. MakeMap(names, values) = made[m]
  BY DEF MakeMap
<1> HIDE DEF made
<1>9. made[0] = <<>> /\ \A n \in 1..m : made[n] = MapPut(made[n - 1], names[n], values[n])
  <2>1. \A n \in 0..m : made[n] = OneMore(made)[n]
    BY <1>7
  <2>2. 0 \in 0..m /\ \A n \in 1..m : n \in 0..m /\ n # 0
    BY <1>1
  <2>3. QED
    BY <2>1, <2>2
<1>10. \A n \in 0..m : made[n] = MapOfFirst(names, values, n)
  <2> DEFINE P == {n \in 0..m : made[n] = MapOfFirst(names, values, n)}
  <2>1. 0 \in P
    <3>1. \A j : j \notin 1..0
      OBVIOUS
    <3>2. MapOfFirst(names, values, 0) = <<>>
      BY <3>1 DEF MapOfFirst
    <3>3. QED
      BY <1>1, <1>9, <3>2
  <2>2. ASSUME NEW n \in 1..m, n - 1 \in P
        PROVE  n \in P
    <3>1. n \in Nat /\ n > 0 /\ n \in 0..m
      BY <1>1
    <3>2. made[n] = MapPut(MapOfFirst(names, values, n - 1), names[n], values[n])
      BY <1>9, <2>2
    <3>3. QED
      BY <3>1, <3>2, PutNext
  <2> HIDE DEF P, m
  <2>3. \A n \in 0..m : n \in P
    BY <1>1, <2>1, <2>2, UpTo
  <2>4. QED
    BY <2>3 DEF P
<1>11. m \in 0..m
  BY <1>1
<1>12. QED
  BY <1>8, <1>10, <1>11

(* A stream and a batch parse make the same map of a row, however many      *)
(* columns it has and whichever names are equal.                             *)
LEMMA SameMap ==
    ASSUME NEW K, NEW names \in Seq(K), NEW R, NEW row \in Seq(R)
    PROVE  ZipToMap(names, row) = RowToMap(names, row)
<1> DEFINE n == Len(names)
           V == R \cup {Nil}
           values == [i \in DOMAIN names |-> IF i <= Len(row) THEN row[i] ELSE Nil]
           nils == [i \in 1..n - Len(row) |-> Nil]
           padded == Padded(row, n)
<1>1. n \in Nat /\ Len(row) \in Nat /\ DOMAIN names = 1..n /\ row \in Seq(V)
  OBVIOUS
<1>2. values \in [1..n -> V] /\ values \in Seq(V) /\ Len(values) = n
  OBVIOUS
<1>3. \A i \in 1..n : values[i] = IF i <= Len(row) THEN row[i] ELSE Nil
  OBVIOUS
<1> HIDE DEF V, values
<1>4. padded = values
  <2>1. CASE Len(row) < n
    <3>1. nils \in Seq(V) /\ Len(nils) = n - Len(row) /\ \A i \in 1..n - Len(row) : nils[i] = Nil
      BY <1>1, <2>1 DEF V
    <3> HIDE DEF nils
    <3>2. /\ row \o nils \in Seq(V) /\ Len(row \o nils) = Len(row) + Len(nils)
          /\ \A i \in 1..Len(row) + Len(nils) :
                (row \o nils)[i] = IF i <= Len(row) THEN row[i] ELSE nils[i - Len(row)]
      BY <1>1, <3>1, ConcatProperties
    <3>3. padded = row \o nils
      BY <2>1 DEF Padded, nils
    <3> HIDE DEF padded, n
    <3>4. \A i \in 1..n : ~(i <= Len(row)) => i - Len(row) \in 1..n - Len(row)
      BY <1>1
    <3>5. Len(row) + Len(nils) = n
      BY <1>1, <3>1
    <3>6. \A i \in 1..n : padded[i] = values[i]
      BY <1>3, <3>1, <3>2, <3>3, <3>4, <3>5
    <3>7. padded \in Seq(V) /\ Len(padded) = n
      BY <3>2, <3>3, <3>5
    <3>8. QED
      BY <1>2, <3>6, <3>7, SeqEqual
  <2>2. CASE ~(Len(row) < n)
    <3>1. padded = SubSeq(row, 1, n)
      BY <2>2 DEF Padded
    <3> HIDE DEF padded, n
    <3>2. n <= Len(row) /\ \A i \in 1..n : i \in 1..Len(row) /\ i <= Len(row)
      BY <1>1, <2>2
    <3>3. /\ 1 \in Int /\ n \in Int /\ \A i \in 1..n : row[i] \in V
      BY <1>1, <3>2, ElementOfSeq
    <3>4. /\ padded \in Seq(V) /\ Len(padded) = n
          /\ \A i \in 1..n : padded[i] = row[i]
      BY <1>1, <3>1, <3>3, SubSeqProperties
    <3>5. \A i \in 1..n : padded[i] = values[i]
      BY <1>3, <3>2, <3>4
    <3>6. QED
      BY <1>2, <3>4, <3>5, SeqEqual
  <2>3. QED
    BY <2>1, <2>2
<1>5. SubSeq(names, 1, Min({n, Len(padded)})) = names
  <2>1. Min({n}) = n
    <3>1. {n} \in SUBSET Int /\ n \in {n} /\ \A j \in {n} : n <= j
      BY <1>1
    <3>2. QED
      BY <3>1, MinIsLeast
  <2>2. Min({n, Len(padded)}) = n
    BY <1>2, <1>4, <2>1
  <2>3. QED
    BY <2>2, SubSeqFull
<1>6. ZipToMap(names, row) = MapNew(names, values)
  BY <1>4, <1>5 DEF ZipToMap
<1>7. MapNew(names, values) = MapOfFirst(names, values, n)
  BY <1>1 DEF MapNew, MapOfFirst, Range
<1>8. RowToMap(names, row) = MakeMap(names, values)
  BY DEF RowToMap, values
<1>9. MakeMap(names, values) = MapOfFirst(names, values, n)
  BY <1>2, MakeMapIs
<1>10. QED
  BY <1>6, <1>7, <1>8, <1>9

-----------------------------------------------------------------------------
(* Whether a stream raises. *)

(* What stands first in a sequence. *)
LEMMA FrontPart ==
    ASSUME NEW S, NEW w \in Seq(S), NEW s \in Seq(S), Len(s) <= Len(w),
           \A i \in 1..Len(s) : w[i] = s[i]
    PROVE  /\ SubSeq(w, Len(s) + 1, Len(w)) \in Seq(S)
           /\ w = s \o SubSeq(w, Len(s) + 1, Len(w))
<1> DEFINE n == Len(s)
           c == SubSeq(w, n + 1, Len(w))
           j == s \o c
<1>1. n \in 0..Len(w) /\ n \in Nat /\ Len(w) \in Nat
  BY LenProperties
<1>2. c \in Seq(S) /\ Len(c) = Len(w) - n /\ \A i \in 1..Len(w) - n : c[i] = w[n + i]
  BY <1>1, SuffixOf
<1> HIDE DEF c
<1>3. /\ j \in Seq(S) /\ Len(j) = Len(s) + Len(c)
      /\ \A i \in 1..Len(s) + Len(c) : j[i] = IF i <= Len(s) THEN s[i] ELSE c[i - Len(s)]
  BY <1>2, ConcatProperties
<1> HIDE DEF j
<1>4. Len(w) = Len(j)
  BY <1>1, <1>2, <1>3
<1>5. \A i \in 1..Len(w) : w[i] = j[i]
  <2> TAKE i \in 1..Len(w)
  <2>1. CASE i <= n
    <3>1. i \in 1..n /\ i \in 1..Len(s) + Len(c)
      BY <1>1, <1>2, <2>1
    <3>2. QED
      BY <1>3, <2>1, <3>1
  <2>2. CASE ~(i <= n)
    <3>1. i - n \in 1..Len(w) - n /\ i \in 1..Len(s) + Len(c) /\ n + (i - n) = i
      BY <1>1, <1>2, <2>2
    <3>2. j[i] = c[i - n] /\ c[i - n] = w[n + (i - n)]
      BY <1>2, <1>3, <2>2, <3>1
    <3>3. QED
      BY <3>1, <3>2
  <2>3. QED
    BY <2>1, <2>2
<1>6. w = j
  BY <1>3, <1>4, <1>5, SeqEqual
<1>7. QED
  BY <1>2, <1>6 DEF c, j

(* A pair of units stands for no byte whatever follows it. *)
LEMMA PairsGrow ==
    ASSUME NEW s \in Seq(Units), NEW t \in Seq(Units)
    PROVE  /\ Len(s) \div 2 \in Nat /\ Len(s \o t) \div 2 \in Nat
           /\ Len(s) \div 2 <= Len(s \o t) \div 2
           /\ \A i \in 1..Len(s) \div 2 : Pair(s \o t, i) = Pair(s, i)
           /\ \A i \in 1..Len(s) \div 2 : i \in InvalidPairs(s \o t) <=> i \in InvalidPairs(s)
<1> DEFINE w == s \o t
           k == Len(s) \div 2
           n == Len(w) \div 2
<1>1. /\ Len(w) = Len(s) + Len(t) /\ Len(s) \in Nat /\ Len(t) \in Nat
      /\ \A i \in 1..Len(s) : w[i] = s[i]
  BY LenProperties, ConcatProperties
<1>2. k \in Nat /\ 2 * k <= Len(s) /\ n \in Nat /\ Len(w) <= 2 * n + 1
  <2> HIDE DEF w
  <2>1. Len(w) \in Nat
    BY <1>1
  <2>2. QED
    BY <1>1, <2>1, Half
<1> HIDE DEF w, k, n
<1>3. k <= n
  BY <1>1, <1>2, SMTT(40)
<1>4. \A i \in 1..k : Pair(w, i) = Pair(s, i)
  <2> TAKE i \in 1..k
  <2>1. 2 * i - 1 \in 1..Len(s) /\ 2 * i \in 1..Len(s)
    BY <1>1, <1>2
  <2>2. QED
    BY <1>1, <2>1 DEF Pair
<1>5. \A i \in 1..k : i \in InvalidPairs(w) <=> i \in InvalidPairs(s)
  <2> TAKE i \in 1..k
  <2>1. i \in 1..n
    BY <1>2, <1>3
  <2>2. /\ i \in InvalidPairs(w) <=> \A b \in Byte : Code[b] # Pair(w, i)
        /\ i \in InvalidPairs(s) <=> \A b \in Byte : Code[b] # Pair(s, i)
    BY <2>1 DEF InvalidPairs, n, k
  <2>3. QED
    BY <1>4, <2>2
<1>6. QED
  BY <1>2, <1>3, <1>4, <1>5 DEF w, k, n

LEMMA InvalidStays ==
    ASSUME NEW s \in Seq(Units), NEW t \in Seq(Units), Invalid(s)
    PROVE  Invalid(s \o t)
<1>1. PICK i \in InvalidPairs(s) : TRUE
  BY DEF Invalid
<1>2. i \in 1..Len(s) \div 2
  BY <1>1 DEF InvalidPairs
<1>3. i \in InvalidPairs(s \o t)
  BY <1>1, <1>2, PairsGrow
<1>4. QED
  BY <1>3 DEF Invalid

(* What cannot be converted with the half before it cannot be converted. *)
LEMMA InvalidWithHalf ==
    ASSUME NEW s \in Seq(Units), NEW t \in Seq(Units), Invalid(Rest(s) \o t)
    PROVE  Invalid(s \o t)
<1> DEFINE w == s \o t
           r == Rest(s)
           v == r \o t
           k == Len(s) \div 2
<1>1. opts.encoded
  BY DEF Invalid
<1>2. Len(s) \in Nat /\ Len(t) \in Nat /\ k \in Nat /\ 2 * k <= Len(s)
  BY Half, LenProperties
<1>3. r = SubSeq(s, 2 * k + 1, Len(s)) /\ r \in Seq(Units)
  BY <1>1, ConvertTyping DEF Rest
<1>4. w \in Seq(Units) /\ Len(w) = Len(s) + Len(t)
  BY ConcatProperties
<1>5. v \in Seq(Units)
  BY <1>3, ConcatProperties
<1>6. v = SubSeq(w, 2 * k + 1, Len(w))
  <2> HIDE DEF k
  <2>1. 2 * k \in 0..Len(s)
    BY <1>2
  <2>2. QED
    BY <1>3, <2>1, DropConcat
<1>7. Invalid(v)
  OBVIOUS
<1> HIDE DEF k, w, v
<1>8. 2 * k <= Len(w)
  BY <1>2, <1>4
<1>9. /\ Len(w) \div 2 = k + (Len(v) \div 2)
      /\ \A i \in 1..Len(v) \div 2 : Pair(w, k + i) = Pair(v, i)
  BY <1>1, <1>2, <1>4, <1>5, <1>6, <1>8, ConvertWhole, ZenonT(40)
<1>10. PICK i \in 1..Len(v) \div 2 : \A b \in Byte : Code[b] # Pair(v, i)
  BY <1>7 DEF Invalid, InvalidPairs
<1>11. k + i \in 1..k + (Len(v) \div 2)
  <2>1. Len(v) \div 2 \in Nat
    BY <1>5, LenProperties, Half
  <2>2. QED
    BY <1>2, <2>1
<1>12. k + i \in InvalidPairs(w)
  BY <1>9, <1>10, <1>11 DEF InvalidPairs
<1>13. QED
  BY <1>1, <1>12 DEF Invalid, w

-----------------------------------------------------------------------------
(* What the stages keep, and the source without its mark. *)

Unread == SubSeq(source, read - Len(lineAcc) + 1, Len(source))

LEMMA KeptPart ==
    IInv => Unmarked = Kept \o Unread /\ Kept \in Seq(Units) /\ Unread \in Seq(Units)
<1> SUFFICES ASSUME IInv
             PROVE  Unmarked = Kept \o Unread /\ Kept \in Seq(Units) /\ Unread \in Seq(Units)
  OBVIOUS
<1> DEFINE h == read - Len(lineAcc)
<1>1. /\ TypeOK /\ LineOK /\ MarkOK /\ source \in Seq(Units)
      /\ Handed \in Seq(Units) /\ Len(Handed) = h /\ h \in 0..Len(source)
      /\ Len(source) \in Nat /\ Kept \in Seq(Units)
  BY HandedTyping, KeptTyping, LenProperties DEF IInv, LineOK
<1>2. Handed = SubSeq(source, 1, h) /\ Unread = SubSeq(source, h + 1, Len(source))
  BY DEF Handed, Unread
<1>3. MarkOK => (mark = "stripped" => Len(Bom) <= h)
  BY DEF MarkOK
<1> HIDE DEF h
<1>4. Unread \in Seq(Units)
  BY <1>1, <1>2, SuffixOf
<1>5. source = Handed \o Unread
  <2>1. 1 \in 1..Len(source) + 1 /\ h \in 1 - 1..Len(source) /\ Len(source) \in h..Len(source)
    BY <1>1
  <2>2. SubSeq(source, 1, h) \o SubSeq(source, h + 1, Len(source)) = SubSeq(source, 1, Len(source))
    BY <1>1, <2>1, ConcatAdjacentSubSeq
  <2>3. QED
    BY <1>1, <1>2, <2>2, SubSeqFull
<1>6. CASE mark = "stripped"
  <2>1. Len(Bom) \in 0..Len(Handed)
    BY <1>1, <1>3, <1>6, BomTyping, LenProperties
  <2>2. LessBom(Handed \o Unread) = LessBom(Handed) \o Unread
    BY <1>1, <1>4, <2>1, DropConcat DEF LessBom
  <2>3. QED
    BY <1>1, <1>4, <1>5, <1>6, <2>2 DEF Unmarked, Kept
<1>7. CASE mark # "stripped"
  BY <1>1, <1>4, <1>5, <1>7 DEF Unmarked, Kept
<1>8. QED
  BY <1>6, <1>7

LEMMA KeptPartNext == (IInv => Unmarked = Kept \o Unread /\ Kept \in Seq(Units) /\ Unread \in Seq(Units))'
BY KeptPart, PTL

-----------------------------------------------------------------------------
(* Converting as far as it goes. *)

LEMMA ConvertibleIs ==
    ASSUME opts.encoded, NEW u \in Seq(Units)
    PROVE  \E n \in 0..Len(u) \div 2 :
              /\ \A i \in 1..n : i \notin InvalidPairs(u)
              /\ IF Invalid(u) THEN n + 1 \in InvalidPairs(u) ELSE n = Len(u) \div 2
              /\ Converted(Convertible(u)) \in Seq(Byte)
              /\ Len(Converted(Convertible(u))) = n
              /\ \A i \in 1..n : Converted(Convertible(u))[i] = CharacterOf(Pair(u, i))
<1> DEFINE k == Len(u) \div 2
           bad == InvalidPairs(u)
           n == IF Invalid(u) THEN Min(bad) - 1 ELSE k
           part == Convertible(u)
<1>1. Len(u) \in Nat /\ k \in Nat /\ 2 * k <= Len(u) /\ Len(u) <= 2 * k + 1
  BY LenProperties, Half
<1>2. bad \subseteq 1..k /\ (Invalid(u) <=> bad # {})
  BY DEF InvalidPairs, Invalid
<1>3. Invalid(u) => Min(bad) \in bad /\ \A i \in bad : Min(bad) <= i
  <2>1. ASSUME Invalid(u)
        PROVE  Min(bad) \in bad /\ \A i \in bad : Min(bad) <= i
    <3>1. bad \in SUBSET Int /\ IsFiniteSet(bad) /\ bad # {}
      <4>1. IsFiniteSet(1..k) /\ 1..k \in SUBSET Int
        BY <1>1, FS_Interval
      <4>2. QED
        BY <1>2, <2>1, <4>1, FS_Subset
    <3> HIDE DEF bad
    <3>2. PICK i \in bad : \A j \in bad : i <= j
      BY <3>1, LeastOfFinite
    <3>3. Min(bad) = i
      BY <3>1, <3>2, MinIsLeast
    <3>4. QED
      BY <3>2, <3>3
  <2>2. QED
    BY <2>1
<1> HIDE DEF bad, k
<1>4. /\ n \in 0..k
      /\ IF Invalid(u) THEN n + 1 \in bad ELSE n = k
      /\ \A i \in 1..n : i \notin bad
  <2>1. CASE Invalid(u)
    <3>1. Min(bad) \in 1..k /\ n = Min(bad) - 1
      BY <1>2, <1>3, <2>1
    <3>2. n \in 0..k /\ n + 1 = Min(bad)
      BY <1>1, <3>1
    <3>3. \A i \in 1..n : ~(Min(bad) <= i)
      BY <1>1, <3>1, <3>2
    <3>4. QED
      BY <1>3, <2>1, <3>2, <3>3
  <2>2. CASE ~Invalid(u)
    <3>1. n = k /\ bad = {}
      BY <1>2, <2>2
    <3>2. QED
      BY <1>1, <2>2, <3>1
  <2>3. QED
    BY <2>1, <2>2
<1>5. part \in Seq(Units) /\ Len(part) \div 2 = n /\ \A i \in 1..2 * n : part[i] = u[i]
  <2>1. CASE Invalid(u)
    <3>1. part = SubSeq(u, 1, 2 * n)
      <4>1. Min(bad) \in Int
        <5>1. Min(bad) \in 1..k
          BY <1>2, <1>3, <2>1
        <5>2. QED
          BY <1>1, <5>1
      <4>2. 2 * Min(bad) - 2 = 2 * (Min(bad) - 1)
        BY <4>1
      <4>3. QED
        BY <2>1, <4>2 DEF Convertible, bad
    <3> HIDE DEF n, part
    <3>2. 1 \in 1..Len(u) + 1 /\ 2 * n \in 1 - 1..Len(u) /\ 2 * n - 1 + 1 = 2 * n
      BY <1>1, <1>4
    <3>3. part \in Seq(Units) /\ Len(part) = 2 * n /\ \A i \in 1..2 * n : part[i] = u[1 + i - 1]
      BY <3>1, <3>2, PartOf
    <3>4. (2 * n) \div 2 = n
      BY <1>1, <1>4
    <3>5. \A i \in 1..2 * n : 1 + i - 1 = i
      BY <1>1, <1>4
    <3>6. QED
      BY <3>3, <3>4, <3>5
  <2>2. CASE ~Invalid(u)
    BY <2>2 DEF Convertible, k
  <2>3. QED
    BY <2>1, <2>2
<1> HIDE DEF n, part
<1>6. \A i \in 1..n : Pair(part, i) = Pair(u, i)
  <2> TAKE i \in 1..n
  <2>1. 2 * i - 1 \in 1..2 * n /\ 2 * i \in 1..2 * n
    BY <1>1, <1>4
  <2>2. QED
    BY <1>5, <2>1 DEF Pair
<1> DEFINE full == Converted(part)
<1>7. full = [i \in 1..n |-> CharacterOf(Pair(part, i))]
  BY <1>5 DEF Converted
<1>8. \A i \in 1..n : CharacterOf(Pair(part, i)) \in Byte
  <2> TAKE i \in 1..n
  <2>1. i \in 1..k /\ i \notin bad
    BY <1>1, <1>4
  <2>2. PICK b \in Byte : Code[b] = Pair(u, i)
    BY <2>1 DEF InvalidPairs, bad, k
  <2>3. QED
    BY <1>6, <2>2 DEF CharacterOf
<1>9. n \in Nat
  BY <1>1, <1>4
<1>10. full \in Seq(Byte) /\ Len(full) = n /\ \A i \in 1..n : full[i] = CharacterOf(Pair(u, i))
  <2>1. full \in Seq(Byte)
    BY <1>7, <1>8, <1>9, IsASeq
  <2>2. QED
    BY <1>6, <1>7, <1>9, <2>1
<1> HIDE DEF full
<1>11. QED
  BY <1>4, <1>10 DEF bad, k, full, part

(* What is converted of units stands first in what is converted of more. *)
LEMMA ConvertibleGrows ==
    ASSUME NEW s \in Seq(Units), NEW t \in Seq(Units), ~Invalid(s)
    PROVE  \E c \in Seq(Byte) : Converted(Convertible(s \o t)) = Converted(s) \o c
<1> DEFINE w == s \o t
           full == Converted(Convertible(w))
           front == Converted(s)
<1>1. w \in Seq(Units) /\ front \in Seq(Byte)
  BY ConcatProperties, ConvertTyping
<1>2. CASE ~opts.encoded
  <2>1. full = s \o t /\ front = s /\ t \in Seq(Byte)
    BY <1>2 DEF Converted, Convertible, Invalid, Units
  <2>2. QED
    BY <2>1
<1>3. CASE opts.encoded
  <2> DEFINE k == Len(s) \div 2
  <2>1. PICK n \in 0..Len(w) \div 2 :
           /\ \A i \in 1..n : i \notin InvalidPairs(w)
           /\ IF Invalid(w) THEN n + 1 \in InvalidPairs(w) ELSE n = Len(w) \div 2
           /\ full \in Seq(Byte)
           /\ Len(full) = n
           /\ \A i \in 1..n : full[i] = CharacterOf(Pair(w, i))
    <3> HIDE DEF w
    <3>1. QED
      BY <1>1, <1>3, ConvertibleIs
  <2>2. /\ k \in Nat /\ Len(w) \div 2 \in Nat /\ k <= Len(w) \div 2
        /\ \A i \in 1..k : Pair(w, i) = Pair(s, i)
        /\ \A i \in 1..k : i \in InvalidPairs(w) <=> i \in InvalidPairs(s)
    BY PairsGrow
  <2>3. InvalidPairs(s) = {}
    BY <1>3 DEF Invalid
  <2>4. Len(front) = k /\ \A i \in 1..k : front[i] = CharacterOf(Pair(s, i))
    <3>1. front = [i \in 1..k |-> CharacterOf(Pair(s, i))]
      BY <1>3 DEF Converted
    <3> HIDE DEF k
    <3>2. QED
      BY <1>1, <2>2, <3>1
  <2> HIDE DEF w, full, front, k
  <2>5. k <= n
    <3>1. CASE Invalid(w)
      <4>1. n + 1 \notin 1..k
        BY <2>1, <2>2, <2>3, <3>1
      <4>2. n \in Nat
        BY <2>1, <2>2
      <4>3. QED
        BY <2>2, <4>1, <4>2
    <3>2. CASE ~Invalid(w)
      BY <2>1, <2>2, <3>2
    <3>3. QED
      BY <3>1, <3>2
  <2>6. \A i \in 1..Len(front) : full[i] = front[i]
    <3> TAKE i \in 1..Len(front)
    <3>1. i \in 1..k /\ i \in 1..n
      BY <2>1, <2>2, <2>4, <2>5
    <3>2. QED
      BY <2>1, <2>2, <2>4, <3>1
  <2>7. Len(front) <= Len(full)
    BY <2>1, <2>4, <2>5
  <2>8. QED
    BY <1>1, <2>1, <2>6, <2>7, FrontPart DEF full, front, w
<1>4. QED
  BY <1>2, <1>3

LEMMA AllConvertible == \A u : ~Invalid(u) => Convertible(u) = u
BY DEF Convertible

-----------------------------------------------------------------------------
(* A stream raises as a batch parse does. *)

RaisesOK ==
    fresh => /\ phase = "raised" /\ error # "overflow" => BatchRaises(Unmarked)
             /\ phase \in {"draining", "done"} => ~BatchRaises(Unmarked)

(* A text that is refused while it is read is refused when it is whole. *)
LEMMA RefusedStays ==
    ASSUME NEW u \in Seq(Units), NEW t \in Seq(Units), ~Invalid(u),
           Refuses(Converted(u), FALSE)
    PROVE  BatchRaises(u \o t)
<1>1. CASE Invalid(u \o t)
  BY <1>1 DEF BatchRaises
<1>2. CASE ~Invalid(u \o t)
  <2>1. PICK c \in Seq(Byte) : Converted(u \o t) = Converted(u) \o c
    <3>1. PICK c \in Seq(Byte) : Converted(Convertible(u \o t)) = Converted(u) \o c
      BY ConvertibleGrows
    <3>2. Convertible(u \o t) = u \o t
      BY <1>2, AllConvertible
    <3>3. QED
      BY <3>1, <3>2
  <2>2. Converted(u) \in Seq(Byte)
    BY ConvertTyping
  <2>3. FirstViolation(Converted(u \o t), TRUE) # NoViolation
    BY <2>1, <2>2, ViolationStays DEF Refuses
  <2>4. QED
    BY <2>3 DEF BatchRaises, Refuses
<1>3. QED
  BY <1>1, <1>2

(* What a parse does with units in the next state, with the options and    *)
(* the mode it has now.                                                    *)
LEMMA BatchRaisesNext ==
    ASSUME UNCHANGED <<opts, strict>>
    PROVE  BatchRaises(Unmarked)' = BatchRaises(Unmarked')
BY DEF BatchRaises, Invalid, InvalidPairs, Converted, Rest, Pair, CharacterOf, Refuses

LEMMA RefusesEnd ==
    ASSUME NEW t \in Seq(Byte), Refuses(t, FALSE)
    PROVE  Refuses(t, TRUE)
<1>1. t \o <<>> = t /\ <<>> \in Seq(Byte)
  BY ConcatEmptySeq
<1>2. QED
  BY <1>1, ViolationStays DEF Refuses

(* An element goes through the stages. *)
LEMMA PullRaises ==
    ASSUME IInv, IInv', RaisesOK, NEW element \in Seq(Units), Pull(element),
           Handed' = Handed \o element, UNCHANGED <<source, fresh>>
    PROVE  RaisesOK'
<1> DEFINE input == Input(element)
           kept  == Stripped(element)
<1>0. /\ Reading /\ mark' = MarkAfter(element) /\ UNCHANGED opts
      /\ IF Invalid(input)
         THEN Raise("encoding") /\ UNCHANGED <<streamVars, undecoded, acc, pending>>
         ELSE undecoded' = Rest(input) /\ Gather(acc \o Converted(input))
  BY DEF Pull
<1>1. /\ TypeOK /\ LineOK /\ MarkOK /\ DriverOK
      /\ undecoded \in Seq(Units) /\ acc \in Seq(Byte) /\ text \in Seq(Byte)
      /\ phase = "reading" /\ error = "none"
  BY <1>0 DEF IInv, TypeOK, LineOK, DriverOK, Reading
<1>2. kept \in Seq(Units) /\ input = undecoded \o kept /\ input \in Seq(Units)
  BY <1>1, StrippedTyping, ConcatProperties DEF Input, Stripped
<1>3. Kept \in Seq(Units) /\ Kept' = Kept \o kept
  BY <1>0, <1>1, KeptTyping, KeptGrows
<1>4. Units' = Units
  BY <1>0 DEF Units
<1>5. Unmarked' = Kept' \o Unread' /\ Kept' \in Seq(Units) /\ Unread' \in Seq(Units)
  BY <1>4, KeptPartNext
<1>6. strict' = strict
  <2>1. CASE Invalid(input)
    BY <1>0, <2>1 DEF streamVars
  <2>2. CASE ~Invalid(input)
    BY <1>0, <2>2 DEF Gather, FeedAndTake, Overflow, streamVars
  <2>3. QED
    BY <2>1, <2>2
<1>7. BatchRaises(Unmarked)' = BatchRaises(Unmarked')
  BY <1>0, <1>6, BatchRaisesNext
<1> HIDE DEF input, kept
<1>8. SUFFICES ASSUME fresh, phase' # "reading", error' # "overflow"
               PROVE  phase' = "raised" /\ BatchRaises(Unmarked')
  <2>1. ASSUME fresh' => (phase' # "reading" /\ error' # "overflow" => phase' = "raised" /\ BatchRaises(Unmarked'))
        PROVE  RaisesOK'
    <3>1. error' = "overflow" => phase' \notin {"draining", "done"}
      BY DEF IInv, TypeOK
    <3>2. QED
      BY <1>7, <2>1, <3>1 DEF RaisesOK
  <2>2. QED
    BY <2>1
<1>9. ~Invalid(Kept) /\ Converted(Kept) = text \o acc /\ Rest(Kept) = undecoded
  BY <1>1, <1>8 DEF IInv, StagesOK
<1>10. CASE Invalid(input)
  <2>1. phase' = "raised"
    BY <1>0, <1>10 DEF Raise
  <2>2. Invalid(Kept')
    BY <1>2, <1>3, <1>9, <1>10, InvalidWithHalf
  <2>3. Invalid(Unmarked')
    BY <1>5, <2>2, InvalidStays
  <2>4. QED
    BY <2>1, <2>3 DEF BatchRaises
<1>11. CASE ~Invalid(input)
  <2> DEFINE more  == Converted(input)
             bytes == acc \o more
  <2>1. Gather(bytes)
    BY <1>0, <1>11
  <2>2. /\ ~Invalid(Kept') /\ Converted(Kept') = (text \o acc) \o more
    <3>1. Rest(Kept) \o kept = input
      BY <1>2, <1>9
    <3>2. /\ ~Invalid(Kept \o kept)
          /\ Converted(Kept \o kept) = Converted(Kept) \o Converted(Rest(Kept) \o kept)
      BY <1>2, <1>3, <1>9, <1>11, <3>1, ConvertConcat
    <3>3. QED
      BY <1>3, <1>9, <3>1, <3>2
  <2>3. more \in Seq(Byte)
    BY <1>2, <1>11, ConvertTyping
  <2>4. Converted(Kept') = text \o bytes
    BY <1>1, <2>2, <2>3, BytesAssociative
  <2> HIDE DEF more, bytes
  <2>5. FeedAndTake(bytes)
    BY <1>1, <1>8, <2>1 DEF Gather, Overflow, Raise
  <2>6. Refuses(text \o bytes, FALSE) /\ phase' = "raised"
    BY <1>1, <1>8, <2>5 DEF FeedAndTake, Raise
  <2>7. BatchRaises(Unmarked')
    BY <1>5, <2>2, <2>4, <2>6, RefusedStays
  <2>8. QED
    BY <2>6, <2>7
<1>12. QED
  BY <1>10, <1>11

LEMMA SourceEndsRaises ==
    ASSUME IInv, IInv', RaisesOK, SourceEnds
    PROVE  RaisesOK'
<1>1. /\ LastFun /\ Reading /\ read = Len(source) /\ lineAcc = <<>>
      /\ UNCHANGED <<source, fresh, opts, mark>>
  BY DEF SourceEnds, LastFun, sourceVars
<1>2. /\ TypeOK /\ phase = "reading" /\ error = "none" /\ Kept \in Seq(Units) /\ source \in Seq(Units)
      /\ text \in Seq(Byte) /\ acc \in Seq(Byte)
  BY <1>1, KeptPart DEF IInv, TypeOK, LineOK, Reading
<1>3. Unmarked = Kept
  <2>1. Len(lineAcc) = 0 /\ Len(source) \in Nat /\ Len(source) - 0 = Len(source)
    BY <1>1, <1>2, LenProperties
  <2>2. Handed = source
    BY <1>1, <1>2, <2>1, SubSeqFull DEF Handed
  <2>3. QED
    BY <2>2 DEF Kept, Unmarked
<1>4. Unmarked' = Unmarked
  BY <1>1 DEF Unmarked, LessBom, Bom
<1>5. strict' = strict
  BY <1>1 DEF LastFun, FeedLast, Overflow, Close, streamVars
<1>6. BatchRaises(Unmarked)' = BatchRaises(Unmarked)
  BY <1>1, <1>4, <1>5, BatchRaisesNext
<1>7. SUFFICES ASSUME fresh
               PROVE  /\ phase' = "raised" /\ error' # "overflow" => BatchRaises(Unmarked)
                      /\ phase' \in {"draining", "done"} => ~BatchRaises(Unmarked)
  BY <1>1, <1>6 DEF RaisesOK
<1>8. ~Invalid(Unmarked) /\ Converted(Unmarked) = Leftover /\ Rest(Unmarked) = undecoded
  BY <1>2, <1>3, <1>7 DEF IInv, StagesOK, Leftover
<1>9. CASE undecoded # <<>>
  BY <1>1, <1>8, <1>9 DEF LastFun, Raise, BatchRaises
<1>10. CASE undecoded = <<>>
  <2>1. FeedLast \/ Overflow(acc)
    BY <1>1, <1>10 DEF LastFun
  <2>2. BatchRaises(Unmarked) <=> Refuses(Leftover, TRUE)
    BY <1>8, <1>10 DEF BatchRaises
  <2>3. CASE Overflow(acc)
    BY <2>3 DEF Overflow, Raise
  <2>4. CASE FeedLast
    <3>1. CASE Refuses(Leftover, FALSE)
      <4>1. Leftover \in Seq(Byte)
        BY <1>2, ConcatProperties DEF Leftover
      <4>2. Refuses(Leftover, TRUE)
        BY <3>1, <4>1, RefusesEnd
      <4>3. phase' = "raised"
        BY <2>4, <3>1 DEF FeedLast, Raise
      <4>4. QED
        BY <2>2, <4>2, <4>3
    <3>2. CASE ~Refuses(Leftover, FALSE)
      <4>1. IF Refuses(Leftover, TRUE) THEN phase' = "raised" ELSE phase' = "draining"
        BY <2>4, <3>2 DEF FeedLast, Raise, FinalError
      <4>2. QED
        BY <2>2, <4>1
    <3>3. QED
      BY <3>1, <3>2
  <2>5. QED
    BY <2>1, <2>3, <2>4
<1>11. QED
  BY <1>9, <1>10

LEMMA StepRaises == IInv /\ IInv' /\ RaisesOK /\ [Next]_vars => RaisesOK'
<1> SUFFICES ASSUME IInv, IInv', RaisesOK, [Next]_vars PROVE RaisesOK'
  OBVIOUS
<1>1. CASE Start
  <2>1. phase' = "reading"
    BY <1>1 DEF Start, StartStages
  <2>2. QED
    BY <2>1 DEF RaisesOK
<1>2. CASE PullElement \/ PullLine \/ PullLastLine
  <2>1. \E element \in Seq(Units) :
           Pull(element) /\ Handed' = Handed \o element /\ UNCHANGED <<source, fresh>>
    BY <1>2, PullHands
  <2>2. QED
    BY <2>1, PullRaises
<1>3. CASE SourceEnds
  BY <1>3, SourceEndsRaises
<1>4. CASE ReadElement \/ TakeRow \/ Halt \/ Complete \/ UNCHANGED vars
  <2>1. /\ UNCHANGED <<strict, opts, mark, source, fresh, error>>
        /\ phase' = phase \/ phase' = "halted" \/ (phase = "draining" /\ phase' = "done")
    BY <1>4 DEF ReadElement, TakeRow, Halt, Complete, vars, streamVars, driverVars, sourceVars
  <2>2. Unmarked' = Unmarked
    BY <2>1 DEF Unmarked, LessBom, Bom
  <2>3. BatchRaises(Unmarked)' = BatchRaises(Unmarked)
    BY <2>1, <2>2, BatchRaisesNext
  <2>4. QED
    BY <2>1, <2>3 DEF RaisesOK
<1>5. QED
  BY <1>1, <1>2, <1>3, <1>4 DEF Next

(* In an enumeration that found the parser empty a stream raises when a    *)
(* batch parse of its source does and not otherwise, but for the limit of  *)
(* the buffer and a consumer that stops first.                             *)
THEOREM RaisesCorrect == Spec => []RaisesAsBatch
<1>1. Init => RaisesOK
  BY DEF Init, RaisesOK
<1>2. RaisesOK => RaisesAsBatch
  BY DEF RaisesOK, RaisesAsBatch
<1>3. QED
  BY <1>1, <1>2, InitHolds, StepKeeps, StepRaises, PTL DEF Spec

-----------------------------------------------------------------------------
(* What the consumer gets. *)

(* The rows of the source, and what do_stream_with_headers has made of the *)
(* rows it has taken.                                                      *)
Whole == AllRows(Converted(Convertible(Unmarked)))

HeadersMade(taken, drop, names, made) ==
    /\ drop = IF taken = <<>> THEN FirstDrop ELSE 0
    /\ names = IF opts.headers.kind = "first_row" /\ taken # <<>> THEN <<taken[1]>> ELSE FirstKeys
    /\ made = BatchRows(opts.headers, taken)

HeadersAfter(taken) == HeadersMade(taken, toDrop, keys, out)

(* The options are those of a job. *)
OptionsOK ==
    /\ opts.headers.kind \in {"lists", "first_row", "keys"}
    /\ opts.headers.keys \in Seq(Range(opts.headers.keys))

DeliveredOK ==
    /\ text = <<>> => delivered = <<>>
    /\ fresh /\ phase = "reading" =>
          delivered = IF opts.api = "chunks" THEN <<>> ELSE EndedRows(text)

(* The consumer has taken the first rows of the source; the next of them   *)
(* are pending.                                                            *)
RowsOK ==
    fresh => \E n \in 0..Len(Whole) :
                /\ HeadersAfter(SubSeq(Whole, 1, n))
                /\ phase = "reading" =>
                      n <= Len(delivered) /\ pending = SubSeq(Whole, n + 1, Len(delivered))
                /\ phase = "draining" => pending = SubSeq(Whole, n + 1, Len(Whole))
                /\ phase = "done" => n = Len(Whole)

-----------------------------------------------------------------------------
(* The rows of a text. *)

Row == {FieldsOf(line) : line \in Seq(Byte)}

LEMMA RowsOfIs ==
    ASSUME NEW lines \in Seq(Seq(Byte))
    PROVE  /\ RowsOf[lines] \in Seq(Row) /\ Len(RowsOf[lines]) = Len(lines)
           /\ \A k \in 1..Len(lines) : RowsOf[lines][k] = FieldsOf(lines[k])
<1> DEFINE n == Len(lines)
           R == Seq(Byte)
           rows == RowsOf[lines]
<1>1. n \in Nat /\ DOMAIN lines = 1..n
  OBVIOUS
<1> HIDE DEF n
<1>2. \A k \in 1..n : lines[k] \in R
  <2>1. lines \in Seq(R)
    OBVIOUS
  <2> HIDE DEF R
  <2>2. QED
    BY <2>1, ElementOfSeq DEF n
<1>3. rows = [k \in 1..n |-> FieldsOfLine[lines[k]]]
  BY <1>1 DEF RowsOf
<1>4. \A k \in 1..n : FieldsOfLine[lines[k]] = FieldsOf(lines[k])
  BY <1>2 DEF FieldsOfLine
<1>5. rows = [k \in 1..n |-> FieldsOf(lines[k])]
  BY <1>3, <1>4
<1> HIDE DEF rows
<1>6. \A k \in 1..n : FieldsOf(lines[k]) \in Row
  BY <1>2 DEF Row
<1> HIDE DEF R
<1>7. rows \in Seq(Row)
  <2> HIDE DEF Row
  <2>1. QED
    BY <1>1, <1>5, <1>6, IsASeq
<1>8. QED
  BY <1>1, <1>5, <1>7 DEF rows, n

(* A row is a sequence of fields. *)
LEMMA RowIsSeq ==
    ASSUME NEW row \in Row
    PROVE  \E F : row \in Seq(F)
<1>1. PICK line \in Seq(Byte) : row = FieldsOf(line)
  BY DEF Row
<1> DEFINE S == {i \in DOMAIN line : line[i] \in Separators /\ ~Quoted(line, i)}
           m == Len(InOrder(S)) + 1
           f(k) == ExtractField(SubSeq(line, (<<0>> \o InOrder(S) \o <<Len(line) + 1>>)[k] + 1,
                                             (<<0>> \o InOrder(S) \o <<Len(line) + 1>>)[k + 1] - 1))
<1>2. row = [k \in 1..m |-> f(k)]
  BY <1>1 DEF FieldsOf
<1>3. m \in Nat
  <2>1. S \in SUBSET Int /\ IsFiniteSet(S)
    <3>1. Len(line) \in Nat /\ S \subseteq 1..Len(line)
      OBVIOUS
    <3>2. IsFiniteSet(1..Len(line))
      BY <3>1, FS_Interval
    <3> HIDE DEF S
    <3>3. 1..Len(line) \in SUBSET Int
      BY <3>1
    <3>4. IsFiniteSet(S)
      BY <3>1, <3>2, FS_Subset
    <3>5. QED
      BY <3>1, <3>3, <3>4
  <2> HIDE DEF S
  <2>2. InOrder(S) \in Seq(Int)
    BY <2>1, InOrderLists
  <2>3. QED
    BY <2>2, LenProperties
<1> HIDE DEF f, m
<1> DEFINE F == {f(k) : k \in 1..m}
<1>4. \A k \in 1..m : f(k) \in F
  OBVIOUS
<1> HIDE DEF F
<1>5. row \in Seq(F)
  BY <1>2, <1>3, <1>4, IsASeq
<1>6. QED
  BY <1>5

(* The rows that have ended are the first rows of every text that goes on. *)
LEMMA RowsGrow ==
    ASSUME NEW s \in Seq(Byte), NEW c \in Seq(Byte)
    PROVE  /\ EndedRows(s) \in Seq(Row) /\ AllRows(s \o c) \in Seq(Row)
           /\ Len(EndedRows(s)) <= Len(AllRows(s \o c))
           /\ \A k \in 1..Len(EndedRows(s)) : AllRows(s \o c)[k] = EndedRows(s)[k]
           /\ Len(EndedRows(s)) <= Len(EndedRows(s \o c))
<1> DEFINE a == EndedLines(s)
           b == AllLines(s \o c)
           d == EndedLines(s \o c)
<1>1. /\ a \in Seq(Seq(Byte)) /\ b \in Seq(Seq(Byte))
      /\ Len(a) <= Len(b) /\ \A k \in 1..Len(a) : b[k] = a[k]
  BY EndedLinesAt, AllLinesGrow
<1>2. EndedRows(s) = RowsOf[a] /\ AllRows(s \o c) = RowsOf[b] /\ EndedRows(s \o c) = RowsOf[d]
  BY DEF EndedRows, AllRows
<1>9. d \in Seq(Seq(Byte)) /\ Len(a) <= Len(d)
  <2>1. s \o c \in Seq(Byte)
    BY ConcatProperties
  <2>2. QED
    BY <2>1, EndedLinesAt, EndedLinesGrow
<1> HIDE DEF a, b, d
<1>10. Len(RowsOf[d]) = Len(d)
  BY <1>9, RowsOfIs
<1>3. /\ RowsOf[a] \in Seq(Row) /\ Len(RowsOf[a]) = Len(a)
      /\ \A k \in 1..Len(a) : RowsOf[a][k] = FieldsOf(a[k])
  BY <1>1, RowsOfIs
<1>4. /\ RowsOf[b] \in Seq(Row) /\ Len(RowsOf[b]) = Len(b)
      /\ \A k \in 1..Len(b) : RowsOf[b][k] = FieldsOf(b[k])
  BY <1>1, RowsOfIs
<1>5. Len(a) \in Nat /\ Len(b) \in Nat
  BY <1>3, <1>4, LenProperties
<1>6. \A k \in 1..Len(a) : k \in 1..Len(b)
  BY <1>1, <1>5
<1>7. \A k \in 1..Len(a) : RowsOf[b][k] = RowsOf[a][k]
  BY <1>1, <1>3, <1>4, <1>6
<1>8. QED
  BY <1>1, <1>2, <1>3, <1>4, <1>7, <1>9, <1>10

-----------------------------------------------------------------------------
(* What a batch parse makes of rows, row by row. *)

Skipped(headers, rows) ==
    IF rows # <<>> /\ (headers.kind = "first_row" \/ headers.skip) THEN 1 ELSE 0

MadeOf(headers, first, row) ==
    IF headers.kind = "lists" THEN row
    ELSE RowToMap(IF headers.kind = "keys" THEN headers.keys ELSE first, row)

Made(headers, R) ==
    R \cup {RowToMap(k, row) : k \in R \cup {headers.keys}, row \in R}

KnownKind(headers) == headers.kind \in {"lists", "first_row", "keys"}

(* made is what is made of rows: of each but those skipped, one after      *)
(* another.                                                                *)
MadeOfEach(headers, R, rows, made) ==
    LET d == Skipped(headers, rows)
    IN  /\ made \in Seq(Made(headers, R))
        /\ Len(made) = Len(rows) - d
        /\ \A i \in 1..Len(rows) - d : made[i] = MadeOf(headers, rows[1], rows[i + d])

LEMMA BatchRowsAt ==
    ASSUME NEW headers, KnownKind(headers), NEW R, NEW rows \in Seq(R)
    PROVE  MadeOfEach(headers, R, rows, BatchRows(headers, rows))
<1> DEFINE n == Len(rows)
           d == Skipped(headers, rows)
           T == Made(headers, R)
           made == BatchRows(headers, rows)
           kept == IF d = 1 THEN Tail(rows) ELSE rows
           f(i) == MadeOf(headers, rows[1], rows[i + d])
<1>1. n \in Nat /\ d \in {0, 1} /\ (d = 1 => n >= 1) /\ \A i \in 1..n : rows[i] \in R
  <2>1. n \in Nat /\ (rows # <<>> => n >= 1) /\ \A i \in 1..n : rows[i] \in R
    BY EmptySeq, LenProperties, ElementOfSeq
  <2>2. QED
    BY <2>1 DEF Skipped
<1>2. kept \in Seq(R) /\ Len(kept) = n - d /\ \A i \in 1..n - d : kept[i] = rows[i + d]
  <2>1. CASE d = 1
    <3>1. rows # <<>>
      BY <1>1, <2>1
    <3>2. Tail(rows) \in Seq(R) /\ Len(Tail(rows)) = n - 1 /\ \A i \in 1..n - 1 : Tail(rows)[i] = rows[i + 1]
      BY <3>1, HeadTailProperties
    <3> HIDE DEF d
    <3>3. QED
      BY <2>1, <3>2
  <2>2. CASE d = 0
    <3> HIDE DEF d
    <3>1. \A i \in 1..n - 0 : i + 0 = i
      BY <1>1
    <3>2. n - 0 = n
      BY <1>1
    <3>3. QED
      BY <2>2, <3>1, <3>2
  <2>3. QED
    BY <1>1, <2>1, <2>2
<1>3. \A i \in 1..n - d : i + d \in 1..n
  <2> HIDE DEF n, d
  <2>1. QED
    BY <1>1
<1>4. \A i \in 1..n - d : f(i) \in T
  <2> TAKE i \in 1..n - d
  <2>1. rows[i + d] \in R /\ rows[1] \in R
    <3>1. 1 \in 1..n
      <4> HIDE DEF n, d
      <4>1. QED
        BY <1>1
    <3>2. QED
      BY <1>1, <1>3, <3>1
  <2> DEFINE row == rows[i + d]
             first == rows[1]
  <2> HIDE DEF row, first
  <2>2. MadeOf(headers, first, row) \in Made(headers, R)
    <3>1. row \in R /\ first \in R
      BY <2>1 DEF row, first
    <3>2. CASE headers.kind = "lists"
      BY <3>1, <3>2 DEF MadeOf, Made
    <3>3. CASE headers.kind # "lists"
      <4>1. PICK k \in R \cup {headers.keys} : MadeOf(headers, first, row) = RowToMap(k, row)
        BY <3>1, <3>3 DEF MadeOf
      <4>2. QED
        BY <3>1, <4>1 DEF Made
    <3>4. QED
      BY <3>2, <3>3
  <2>3. QED
    BY <2>2 DEF row, first
<1>5. made = [i \in 1..n - d |-> f(i)]
  <2>1. CASE headers.kind = "lists"
    <3>1. made = kept
      BY <1>1, <2>1 DEF BatchRows, Skipped
    <3>2. \A i \in 1..n - d : f(i) = kept[i]
      BY <1>2, <2>1 DEF MadeOf
    <3>3. kept = [i \in 1..Len(kept) |-> kept[i]]
      <4> HIDE DEF kept
      <4>1. QED
        BY <1>2
    <3> HIDE DEF kept, f, made, n, d
    <3>4. QED
      BY <1>2, <3>1, <3>2, <3>3
  <2>2. CASE headers.kind = "keys"
    <3>1. made = [i \in DOMAIN kept |-> RowToMap(headers.keys, kept[i])]
      BY <1>1, <2>2 DEF BatchRows, Skipped
    <3>2. \A i \in 1..n - d : f(i) = RowToMap(headers.keys, kept[i])
      BY <1>2, <2>2 DEF MadeOf
    <3>3. DOMAIN kept = 1..n - d
      <4> HIDE DEF kept
      <4>1. QED
        BY <1>2
    <3> HIDE DEF kept, f, made, n, d
    <3>4. QED
      BY <3>1, <3>2, <3>3
  <2>3. CASE headers.kind = "first_row"
    <3>1. CASE rows = <<>>
      <4>1. made = <<>> /\ n = 0 /\ d = 0
        BY <2>3, <3>1 DEF BatchRows, Skipped
      <4>2. 1..n - d = {}
        BY <4>1
      <4> HIDE DEF made, n, d, f
      <4>3. QED
        BY <4>1, <4>2
    <3>2. CASE rows # <<>>
      <4>1. d = 1
        BY <2>3, <3>2 DEF Skipped
      <4>2. made = [i \in DOMAIN kept |-> RowToMap(rows[1], kept[i])]
        BY <2>3, <3>2, <4>1 DEF BatchRows
      <4>3. \A i \in 1..n - d : f(i) = RowToMap(rows[1], kept[i])
        BY <1>2, <2>3 DEF MadeOf
      <4>4. DOMAIN kept = 1..n - d
        <5> HIDE DEF kept
        <5>1. QED
          BY <1>2
      <4> HIDE DEF kept, f, made, n, d
      <4>5. QED
        BY <4>2, <4>3, <4>4
    <3>3. QED
      BY <3>1, <3>2
  <2>4. QED
    BY <2>1, <2>2, <2>3 DEF KnownKind
<1>6. n - d \in Nat
  <2> HIDE DEF n, d
  <2>1. QED
    BY <1>1
<1> HIDE DEF made, n, d, f, T
<1>7. made \in Seq(T)
  BY <1>4, <1>5, <1>6, IsASeq
<1>8. QED
  BY <1>5, <1>6, <1>7 DEF made, n, d, f, T, MadeOfEach

LEMMA PrefixFrom ==
    ASSUME NEW S, NEW a \in Seq(S), NEW b \in Seq(S), Len(a) <= Len(b),
           \A i \in 1..Len(a) : b[i] = a[i]
    PROVE  IsPrefix(a, b)
<1> DEFINE n == Len(a)
           c == SubSeq(b, 1, n)
<1>1. n \in Nat /\ Len(b) \in Nat
  BY LenProperties
<1> HIDE DEF n
<1>2. 1 \in 1..Len(b) + 1 /\ n \in 1 - 1..Len(b) /\ n - 1 + 1 = n /\ \A i \in 1..n : 1 + i - 1 = i
  BY <1>1 DEF n
<1>3. c \in Seq(S) /\ Len(c) = n /\ \A i \in 1..n : c[i] = b[1 + i - 1]
  BY <1>2, PartOf
<1> HIDE DEF c
<1>4. a = c
  BY <1>2, <1>3, SeqEqual DEF n
<1>5. SubSeq(a, 1, Len(a)) = a
  BY SubSeqFull
<1>6. QED
  BY <1>4, <1>5 DEF IsPrefix, c, n

(* What is made of the first rows stands first in what is made of all. *)
LEMMA BatchPrefix ==
    ASSUME NEW headers, KnownKind(headers), NEW R, NEW rows \in Seq(R), NEW n \in 0..Len(rows)
    PROVE  IsPrefix(BatchRows(headers, SubSeq(rows, 1, n)), BatchRows(headers, rows))
<1> DEFINE part == SubSeq(rows, 1, n)
           a == BatchRows(headers, part)
           b == BatchRows(headers, rows)
           d == Skipped(headers, part)
           e == Skipped(headers, rows)
           T == Made(headers, R)
<1>1. Len(rows) \in Nat /\ part \in Seq(R) /\ Len(part) = n /\ \A i \in 1..n : part[i] = rows[i]
  <2>1. Len(rows) \in Nat
    BY LenProperties
  <2>2. 1 \in 1..Len(rows) + 1 /\ n \in 1 - 1..Len(rows) /\ n - 1 + 1 = n /\ \A i \in 1..n : 1 + i - 1 = i
    BY <2>1
  <2>3. QED
    BY <2>1, <2>2, PartOf
<1> HIDE DEF part
<1>2. a \in Seq(T) /\ Len(a) = n - d /\ \A i \in 1..n - d : a[i] = MadeOf(headers, part[1], part[i + d])
  BY <1>1, BatchRowsAt DEF MadeOfEach
<1>3. b \in Seq(T) /\ Len(b) = Len(rows) - e /\ \A i \in 1..Len(rows) - e : b[i] = MadeOf(headers, rows[1], rows[i + e])
  BY BatchRowsAt DEF MadeOfEach
<1>4. /\ d \in {0, 1} /\ e \in {0, 1} /\ (n > 0 => d = e /\ part # <<>> /\ rows # <<>>)
      /\ (n = 0 => part = <<>> /\ d = 0) /\ (d = 1 => n >= 1) /\ (e = 1 => Len(rows) >= 1)
  <2>1. n = 0 => part = <<>>
    BY <1>1, EmptySeq
  <2>2. n > 0 => part # <<>> /\ rows # <<>>
    BY <1>1
  <2>3. rows # <<>> => Len(rows) >= 1
    BY <1>1, EmptySeq
  <2>4. n \in Nat
    BY <1>1
  <2>5. QED
    BY <2>1, <2>2, <2>3, <2>4 DEF Skipped
<1> HIDE DEF a, b, d, e, T
<1>5. Len(a) <= Len(b) /\ Len(a) \in Nat
  BY <1>1, <1>2, <1>3, <1>4
<1>6. \A i \in 1..Len(a) : b[i] = a[i]
  <2> TAKE i \in 1..Len(a)
  <2>1. n > 0 /\ i \in 1..n - d /\ i \in 1..Len(rows) - e /\ d = e /\ 1 \in 1..n /\ i + d \in 1..n
    BY <1>1, <1>2, <1>3, <1>4
  <2>2. part[1] = rows[1] /\ part[i + d] = rows[i + e]
    BY <1>1, <2>1
  <2>3. QED
    BY <1>2, <1>3, <2>1, <2>2
<1>7. QED
  BY <1>2, <1>3, <1>5, <1>6, PrefixFrom DEF a, b, part

(* One more row. *)
LEMMA BatchNext ==
    ASSUME NEW headers, KnownKind(headers), NEW R, NEW rows \in Seq(R), NEW row \in R
    PROVE  BatchRows(headers, Append(rows, row)) =
              IF rows = <<>> /\ (headers.kind = "first_row" \/ headers.skip)
              THEN BatchRows(headers, rows)
              ELSE Append(BatchRows(headers, rows),
                          MadeOf(headers, Append(rows, row)[1], row))
<1> DEFINE more == Append(rows, row)
           n == Len(rows)
           a == BatchRows(headers, rows)
           b == BatchRows(headers, more)
           d == Skipped(headers, rows)
           e == Skipped(headers, more)
           T == Made(headers, R)
           x == MadeOf(headers, more[1], row)
           c == Append(a, x)
<1>1. /\ n \in Nat /\ more \in Seq(R) /\ Len(more) = n + 1 /\ more[n + 1] = row
      /\ \A i \in 1..n : more[i] = rows[i]
  BY AppendProperties, LenProperties
<1>2. rows = <<>> <=> n = 0
  BY EmptySeq
<1> HIDE DEF more, n
<1>3. a \in Seq(T) /\ Len(a) = n - d /\ \A i \in 1..n - d : a[i] = MadeOf(headers, rows[1], rows[i + d])
  BY BatchRowsAt DEF MadeOfEach, n
<1>4. b \in Seq(T) /\ Len(b) = n + 1 - e /\ \A i \in 1..n + 1 - e : b[i] = MadeOf(headers, more[1], more[i + e])
  <2>1. MadeOfEach(headers, R, more, b)
    BY <1>1, BatchRowsAt
  <2>2. /\ b \in Seq(T) /\ Len(b) = Len(more) - e
        /\ \A i \in 1..Len(more) - e : b[i] = MadeOf(headers, more[1], more[i + e])
    BY <2>1 DEF MadeOfEach
  <2>3. e \in {0, 1}
    BY DEF Skipped
  <2>4. Len(more) = n + 1
    BY <1>1
  <2> HIDE DEF b, e, T
  <2>5. QED
    BY <1>1, <2>2, <2>3, <2>4
<1>5. more # <<>>
  BY <1>1
<1>6. CASE rows = <<>> /\ (headers.kind = "first_row" \/ headers.skip)
  <2>1. d = 0 /\ e = 1 /\ n = 0
    BY <1>2, <1>5, <1>6 DEF Skipped
  <2>2. Len(a) = 0 /\ Len(b) = 0
    BY <1>3, <1>4, <2>1
  <2> HIDE DEF a, b, T
  <2>3. a = <<>> /\ b = <<>>
    BY <1>3, <1>4, <2>2, EmptySeq
  <2>4. QED
    BY <1>6, <2>3 DEF a, b, more
<1>7. CASE ~(rows = <<>> /\ (headers.kind = "first_row" \/ headers.skip))
  <2>1. d = e /\ d \in {0, 1} /\ (d = 1 => n >= 1)
    BY <1>1, <1>2, <1>5, <1>7 DEF Skipped
  <2> HIDE DEF a, b, d, e, T
  <2>2. n + 1 - e \in Nat /\ n - d \in Nat /\ Len(b) = Len(a) + 1 /\ Len(b) \in 1..n + 1 - e /\ Len(b) + e = n + 1
    BY <1>1, <1>3, <1>4, <2>1
  <2>3. x = b[Len(b)] /\ x \in T
    <3>1. b[Len(b)] = MadeOf(headers, more[1], more[Len(b) + e])
      BY <1>4, <2>2
    <3>2. Len(b) \in 1..Len(b)
      BY <2>2
    <3>3. b[Len(b)] \in T
      BY <1>4, <3>2, ElementOfSeq
    <3>4. QED
      BY <1>1, <2>2, <3>1, <3>3
  <2> HIDE DEF x
  <2>4. /\ c \in Seq(T) /\ Len(c) = Len(a) + 1 /\ c[Len(a) + 1] = x
        /\ \A i \in 1..Len(a) : c[i] = a[i]
    BY <1>3, <2>3, AppendProperties
  <2> HIDE DEF c
  <2>5. \A i \in 1..Len(b) : b[i] = c[i]
    <3> TAKE i \in 1..Len(b)
    <3>1. CASE i = Len(b)
      BY <2>2, <2>3, <2>4, <3>1
    <3>2. CASE i # Len(b)
      <4>1. i \in 1..n - d /\ i \in 1..n + 1 - e /\ i + d \in 1..n /\ 1 \in 1..n /\ i \in 1..Len(a)
        BY <1>1, <1>3, <2>1, <2>2, <3>2
      <4>2. more[1] = rows[1] /\ more[i + e] = rows[i + d]
        BY <1>1, <2>1, <4>1
      <4>3. QED
        BY <1>3, <1>4, <2>4, <4>1, <4>2
    <3>3. QED
      BY <3>1, <3>2
  <2>6. b = c
    BY <1>4, <2>2, <2>4, <2>5, SeqEqual
  <2>7. QED
    BY <1>7, <2>6 DEF a, b, c, x, more
<1>8. QED
  BY <1>6, <1>7

(* do_stream_with_headers takes one more row. *)
LEMMA HeadersStep ==
    ASSUME OptionsOK, NEW taken \in Seq(Row), NEW row \in Row, row = Head(pending),
           HeadersMade(taken, toDrop, keys, out),
           DropRow \/ KeepKeys \/ GiveRow \/ GiveMap
    PROVE  HeadersMade(Append(taken, row), toDrop', keys', out')
<1> DEFINE h == opts.headers
           more == Append(taken, row)
           old == BatchRows(h, taken)
           new == BatchRows(h, more)
<1>1. KnownKind(h)
  BY DEF OptionsOK, KnownKind
<1>2. more # <<>> /\ (taken = <<>> => more[1] = row) /\ (taken # <<>> => more[1] = taken[1])
  <2>1. Len(taken) \in Nat /\ (taken # <<>> => Len(taken) >= 1) /\ (taken = <<>> => Len(taken) = 0)
    BY EmptySeq, LenProperties
  <2>2. /\ Len(more) = Len(taken) + 1 /\ more[Len(taken) + 1] = row
        /\ \A i \in 1..Len(taken) : more[i] = taken[i]
    BY AppendProperties
  <2> HIDE DEF more
  <2>3. QED
    BY <2>1, <2>2
<1>3. new = IF taken = <<>> /\ (h.kind = "first_row" \/ h.skip)
            THEN old ELSE Append(old, MadeOf(h, more[1], row))
  <2> HIDE DEF h
  <2>1. QED
    BY <1>1, BatchNext
<1>4. \A names : (\E K : names \in Seq(K)) => ZipToMap(names, row) = RowToMap(names, row)
  <2>1. PICK F : row \in Seq(F)
    BY RowIsSeq
  <2>2. QED
    BY <2>1, SameMap
<1> HIDE DEF more, old, new
<1>5. CASE DropRow
  <2>1. taken = <<>> /\ h.kind # "first_row" /\ h.skip /\ toDrop = 1
    BY <1>5 DEF DropRow, HeadersMade, FirstDrop
  <2>2. new = old /\ out' = out /\ keys' = keys /\ toDrop' = 0
    BY <1>3, <1>5, <2>1 DEF DropRow
  <2>3. QED
    BY <1>2, <2>1, <2>2 DEF HeadersMade, more, old, new
<1>6. CASE KeepKeys
  <2>1. toDrop = 0 /\ h.kind = "first_row" /\ keys = <<>> /\ keys' = <<row>> /\ toDrop' = toDrop /\ out' = out
    BY <1>6 DEF KeepKeys
  <2>2. taken = <<>>
    BY <2>1 DEF HeadersMade
  <2>3. new = old
    BY <1>3, <2>1, <2>2
  <2>4. QED
    BY <1>2, <2>1, <2>2, <2>3 DEF HeadersMade, more, old, new
<1>7. CASE GiveRow
  <2>1. toDrop = 0 /\ h.kind = "lists" /\ out' = Append(out, row) /\ keys' = keys /\ toDrop' = toDrop
    BY <1>7 DEF GiveRow, headerVars
  <2>2. taken = <<>> => ~h.skip
    BY <2>1 DEF HeadersMade, FirstDrop
  <2>3. new = Append(old, row)
    BY <1>3, <2>1, <2>2 DEF MadeOf
  <2>4. QED
    BY <1>2, <2>1, <2>3 DEF HeadersMade, more, old, new
<1>8. CASE GiveMap
  <2>1. /\ toDrop = 0 /\ h.kind # "lists" /\ keys # <<>> /\ out' = Append(out, ZipToMap(keys[1], row))
        /\ keys' = keys /\ toDrop' = toDrop
    BY <1>8 DEF GiveMap, headerVars
  <2>2. CASE h.kind = "keys"
    <3>1. taken = <<>> => ~h.skip
      BY <2>1, <2>2 DEF HeadersMade, FirstDrop
    <3>2. keys[1] = h.keys
      BY <2>2 DEF HeadersMade, FirstKeys
    <3>3. ZipToMap(h.keys, row) = RowToMap(h.keys, row)
      BY <1>4 DEF OptionsOK
    <3>4. new = Append(old, RowToMap(h.keys, row))
      BY <1>3, <2>2, <3>1 DEF MadeOf
    <3>5. QED
      BY <1>2, <2>1, <2>2, <3>2, <3>3, <3>4 DEF HeadersMade, more, old, new
  <2>3. CASE h.kind = "first_row"
    <3>1. taken # <<>> /\ keys = <<taken[1]>>
      BY <2>1, <2>3 DEF HeadersMade, FirstKeys
    <3>2. \E K : taken[1] \in Seq(K)
      <4>1. 1 \in 1..Len(taken)
        BY <3>1, EmptySeq, LenProperties
      <4>2. taken[1] \in Row
        BY <4>1, ElementOfSeq
      <4>3. QED
        BY <4>2, RowIsSeq
    <3>3. ZipToMap(taken[1], row) = RowToMap(taken[1], row)
      BY <1>4, <3>2
    <3>4. new = Append(old, RowToMap(taken[1], row))
      BY <1>2, <1>3, <2>3, <3>1 DEF MadeOf
    <3>5. QED
      BY <1>2, <2>1, <2>3, <3>1, <3>3, <3>4 DEF HeadersMade, more, old, new
  <2>4. QED
    BY <2>1, <2>2, <2>3 DEF OptionsOK
<1>9. QED
  BY <1>5, <1>6, <1>7, <1>8

LEMMA NoRows == EndedRows(<<>>) = <<>> /\ <<>> \in Seq(Byte) /\ Len(<<>>) = 0
<1>1. <<>> \in Seq(Byte) /\ Len(<<>>) = 0
  OBVIOUS
<1>2. RowEnds(<<>>) = {}
  BY <1>1 DEF RowEnds
<1>3. Len(EndedLines(<<>>)) = 0 /\ EndedLines(<<>>) \in Seq(Seq(Byte))
  BY <1>1, <1>2, EndedLinesAt, FS_EmptySet
<1>4. EndedRows(<<>>) \in Seq(Row) /\ Len(EndedRows(<<>>)) = 0
  BY <1>3, RowsOfIs DEF EndedRows
<1>5. QED
  BY <1>1, <1>4, EmptySeq

-----------------------------------------------------------------------------
(* The rows of the source. *)

LEMMA WholeTyping == IInv => Whole \in Seq(Row) /\ Len(Whole) \in Nat
<1> SUFFICES ASSUME IInv PROVE Whole \in Seq(Row) /\ Len(Whole) \in Nat
  OBVIOUS
<1>1. Unmarked \in Seq(Units)
  BY KeptPart, ConcatProperties
<1>2. <<>> \in Seq(Units) /\ <<>> \o Unmarked = Unmarked
  BY <1>1, ConcatEmptySeq
<1>3. PICK c \in Seq(Byte) : Converted(Convertible(<<>> \o Unmarked)) = Converted(<<>>) \o c
  BY <1>1, <1>2, ConvertEmpty, ConvertibleGrows
<1>4. Whole = AllRows(<<>> \o c)
  BY <1>2, <1>3, ConvertEmpty DEF Whole
<1>5. Whole \in Seq(Row)
  BY <1>4, NoRows, RowsGrow
<1>6. QED
  BY <1>5, LenProperties

LEMMA WholeTypingNext == (IInv => Whole \in Seq(Row) /\ Len(Whole) \in Nat)'
BY WholeTyping, PTL

(* What the parser has handed out. *)
Handing ==
    /\ delivered \in Seq(Row) /\ Len(delivered) \in Nat
    /\ Len(delivered) <= Len(Whole)
    /\ \A k \in 1..Len(delivered) : Whole[k] = delivered[k]

LEMMA DeliveredPrefix == IInv /\ DeliveredOK /\ fresh /\ phase = "reading" => Handing
<1> SUFFICES ASSUME IInv, DeliveredOK, fresh, phase = "reading" PROVE Handing
  OBVIOUS
<1>1. /\ Unmarked = Kept \o Unread /\ Kept \in Seq(Units) /\ Unread \in Seq(Units)
      /\ ~Invalid(Kept) /\ Converted(Kept) = text \o acc
      /\ text \in Seq(Byte) /\ acc \in Seq(Byte)
  BY KeptPart DEF IInv, StagesOK, TypeOK
<1>2. PICK c \in Seq(Byte) : Converted(Convertible(Unmarked)) = (text \o acc) \o c
  BY <1>1, ConvertibleGrows
<1>3. (text \o acc) \o c = text \o (acc \o c) /\ acc \o c \in Seq(Byte)
  BY <1>1, BytesAssociative, ConcatProperties
<1>4. Whole = AllRows(text \o (acc \o c))
  BY <1>2, <1>3 DEF Whole
<1>5. /\ EndedRows(text) \in Seq(Row) /\ Len(EndedRows(text)) <= Len(Whole)
      /\ \A k \in 1..Len(EndedRows(text)) : Whole[k] = EndedRows(text)[k]
  BY <1>1, <1>3, <1>4, RowsGrow
<1>6. CASE delivered = EndedRows(text)
  BY <1>5, <1>6, LenProperties DEF Handing
<1>7. CASE delivered = <<>>
  <2>1. <<>> \in Seq(Row) /\ Len(<<>>) = 0 /\ Len(Whole) \in Nat /\ \A k : k \notin 1..0
    BY WholeTyping
  <2>2. QED
    BY <1>7, <2>1 DEF Handing
<1>8. QED
  BY <1>6, <1>7 DEF DeliveredOK

LEMMA DeliveredPrefixNext == (IInv /\ DeliveredOK /\ fresh /\ phase = "reading" => Handing)'
BY DeliveredPrefix, PTL

LEMMA WholeSame ==
    ASSUME UNCHANGED <<opts, source, mark>>
    PROVE  Whole' = Whole
<1>1. Unmarked' = Unmarked
  BY DEF Unmarked, LessBom, Bom
<1>2. QED
  BY <1>1 DEF Whole, Convertible, Converted, Invalid, InvalidPairs, Pair, CharacterOf

(* The same part of two sequences that begin alike. *)
LEMMA SamePart ==
    ASSUME NEW S, NEW a \in Seq(S), NEW b \in Seq(S), NEW m \in 0..Len(a), m <= Len(b),
           \A k \in 1..m : a[k] = b[k], NEW n \in 0..m
    PROVE  SubSeq(a, n + 1, m) = SubSeq(b, n + 1, m)
<1> DEFINE c == SubSeq(a, n + 1, m)
           d == SubSeq(b, n + 1, m)
<1>1. Len(a) \in Nat /\ Len(b) \in Nat
  BY LenProperties
<1>2. /\ n + 1 \in 1..Len(a) + 1 /\ m \in (n + 1) - 1..Len(a)
      /\ n + 1 \in 1..Len(b) + 1 /\ m \in (n + 1) - 1..Len(b)
      /\ \A i \in 1..m - (n + 1) + 1 : (n + 1) + i - 1 \in 1..m
  BY <1>1
<1>3. /\ c \in Seq(S) /\ Len(c) = m - (n + 1) + 1
      /\ \A i \in 1..m - (n + 1) + 1 : c[i] = a[(n + 1) + i - 1]
  BY <1>2, PartOf
<1>4. /\ d \in Seq(S) /\ Len(d) = m - (n + 1) + 1
      /\ \A i \in 1..m - (n + 1) + 1 : d[i] = b[(n + 1) + i - 1]
  BY <1>2, PartOf
<1> HIDE DEF c, d
<1>5. Len(c) = Len(d) /\ \A i \in 1..Len(c) : c[i] = d[i]
  BY <1>2, <1>3, <1>4
<1>6. QED
  BY <1>3, <1>4, <1>5, SeqEqual DEF c, d

(* The next of a part. *)
LEMMA TakeOne ==
    ASSUME NEW S, NEW w \in Seq(S), NEW m \in 0..Len(w), NEW n \in 0..m,
           SubSeq(w, n + 1, m) # <<>>
    PROVE  /\ n + 1 \in 0..m /\ n + 1 \in 1..Len(w)
           /\ Head(SubSeq(w, n + 1, m)) = w[n + 1]
           /\ Tail(SubSeq(w, n + 1, m)) = SubSeq(w, (n + 1) + 1, m)
           /\ SubSeq(w, 1, n) \in Seq(S)
           /\ SubSeq(w, 1, n + 1) = Append(SubSeq(w, 1, n), w[n + 1])
<1> DEFINE c == SubSeq(w, n + 1, m)
           d == SubSeq(w, (n + 1) + 1, m)
           p == SubSeq(w, 1, n)
           q == SubSeq(w, 1, n + 1)
<1>1. Len(w) \in Nat
  BY LenProperties
<1>2. n + 1 \in 1..Len(w) + 1 /\ m \in (n + 1) - 1..Len(w) /\ m - (n + 1) + 1 = m - n
      /\ \A i \in 1..m - n : (n + 1) + i - 1 = n + i
  BY <1>1
<1>3. c \in Seq(S) /\ Len(c) = m - n /\ \A i \in 1..m - n : c[i] = w[n + i]
  <2>1. /\ c \in Seq(S) /\ Len(c) = m - (n + 1) + 1
        /\ \A i \in 1..m - (n + 1) + 1 : c[i] = w[(n + 1) + i - 1]
    BY <1>2, PartOf
  <2>2. QED
    BY <1>2, <2>1
<1> HIDE DEF c
<1>4. n < m
  BY <1>1, <1>3, EmptySeq DEF c
<1>5. Head(c) = c[1] /\ Tail(c) \in Seq(S) /\ Len(Tail(c)) = (m - n) - 1
      /\ \A i \in 1..(m - n) - 1 : Tail(c)[i] = c[i + 1]
  <2>1. c # <<>>
    BY DEF c
  <2>2. QED
    BY <1>3, <2>1, HeadTailProperties
<1>6. d \in Seq(S) /\ Len(d) = (m - n) - 1 /\ \A i \in 1..(m - n) - 1 : d[i] = w[n + (i + 1)]
  <2> DEFINE r == (n + 1) + 1
  <2>1. r \in 1..Len(w) + 1 /\ m \in r - 1..Len(w) /\ m - r + 1 = (m - n) - 1
        /\ \A i \in 1..(m - n) - 1 : r + i - 1 = n + (i + 1)
    BY <1>1, <1>4
  <2> HIDE DEF r
  <2>2. /\ SubSeq(w, r, m) \in Seq(S) /\ Len(SubSeq(w, r, m)) = m - r + 1
        /\ \A i \in 1..m - r + 1 : SubSeq(w, r, m)[i] = w[r + i - 1]
    BY <2>1, PartOf
  <2>3. QED
    BY <2>1, <2>2 DEF r
<1> HIDE DEF d
<1>7. Tail(c) = d
  <2> DEFINE t == Tail(c)
  <2>1. t \in Seq(S) /\ Len(t) = Len(d) /\ \A i \in 1..Len(t) : t[i] = d[i]
    <3>1. \A i \in 1..(m - n) - 1 : i + 1 \in 1..m - n
      BY <1>1, <1>4
    <3>2. QED
      BY <1>3, <1>5, <1>6, <3>1
  <2> HIDE DEF t
  <2>2. t = d
    BY <1>6, <2>1, SeqEqual
  <2>3. QED
    BY <2>2 DEF t
<1>8. p \in Seq(S) /\ Len(p) = n /\ \A i \in 1..n : p[i] = w[i]
  <2>1. 1 \in 1..Len(w) + 1 /\ n \in 1 - 1..Len(w) /\ n - 1 + 1 = n /\ \A i \in 1..n : 1 + i - 1 = i
    BY <1>1
  <2>2. QED
    BY <2>1, PartOf
<1>9. q \in Seq(S) /\ Len(q) = n + 1 /\ \A i \in 1..n + 1 : q[i] = w[i]
  <2> DEFINE r == n + 1
  <2>1. 1 \in 1..Len(w) + 1 /\ r \in 1 - 1..Len(w) /\ r - 1 + 1 = r /\ \A i \in 1..r : 1 + i - 1 = i
    BY <1>1, <1>4
  <2> HIDE DEF r
  <2>2. SubSeq(w, 1, r) \in Seq(S) /\ Len(SubSeq(w, 1, r)) = r /\ \A i \in 1..r : SubSeq(w, 1, r)[i] = w[i]
    BY <2>1, PartOf
  <2>3. QED
    BY <2>2 DEF r
<1> HIDE DEF p, q
<1>10. n + 1 \in 1..Len(w) /\ n + 1 \in 0..m
  BY <1>1, <1>4
<1> DEFINE x == w[n + 1]
           y == Append(p, x)
<1>11. x \in S
  BY <1>10, ElementOfSeq
<1> HIDE DEF x
<1>12. /\ y \in Seq(S) /\ Len(y) = n + 1 /\ y[n + 1] = x
       /\ \A i \in 1..n : y[i] = p[i]
  BY <1>8, <1>11, AppendProperties
<1> HIDE DEF y
<1>13. \A i \in 1..Len(q) : q[i] = y[i]
  <2>1. \A i \in 1..n + 1 : i \in 1..n \/ i = n + 1
    BY <1>1
  <2>2. QED
    BY <1>8, <1>9, <1>12, <2>1 DEF x
<1>14. q = y
  BY <1>9, <1>12, <1>13, SeqEqual
<1>15. c[1] = w[n + 1]
  <2>1. 1 \in 1..m - n
    BY <1>1, <1>4
  <2>2. QED
    BY <1>3, <2>1
<1>16. QED
  BY <1>5, <1>7, <1>8, <1>10, <1>14, <1>15 DEF c, d, p, q, x, y

-----------------------------------------------------------------------------
(* The steps. *)

LEMMA OptionsKept ==
    ASSUME OptionsOK, UNCHANGED opts
    PROVE  OptionsOK'
BY DEF OptionsOK

(* What one element does to the parser. *)
LEMMA PullFeeds ==
    ASSUME IInv, NEW element \in Seq(Units), Pull(element)
    PROVE  /\ phase = "reading" /\ pending = <<>>
           /\ UNCHANGED <<opts, strict>> /\ text \in Seq(Byte)
           /\ (mark' = mark \/ mark = "unread")
           /\ \/ UNCHANGED <<text, delivered, pending>> /\ phase' \in {"reading", "raised"}
              \/ \E bytes \in Seq(Byte) :
                    /\ text' = text \o bytes
                    /\ \/ phase' = "raised" /\ UNCHANGED <<delivered, pending>>
                       \/ /\ phase' = "reading"
                          /\ delivered' = IF opts.api = "chunks" THEN delivered
                                                                 ELSE EndedRows(text \o bytes)
                          /\ pending' = After(delivered', Len(delivered))
<1> DEFINE input == Input(element)
           kept  == Stripped(element)
<1>0. /\ Reading /\ mark' = MarkAfter(element) /\ UNCHANGED opts
      /\ IF Invalid(input)
         THEN Raise("encoding") /\ UNCHANGED <<streamVars, undecoded, acc, pending>>
         ELSE undecoded' = Rest(input) /\ Gather(acc \o Converted(input))
  BY DEF Pull
<1>1. /\ TypeOK /\ LineOK /\ undecoded \in Seq(Units) /\ acc \in Seq(Byte) /\ text \in Seq(Byte)
      /\ phase = "reading" /\ pending = <<>>
  BY <1>0 DEF IInv, TypeOK, LineOK, Reading
<1>2. kept \in Seq(Units) /\ input = undecoded \o kept /\ input \in Seq(Units)
  BY <1>1, StrippedTyping, ConcatProperties DEF Input, Stripped
<1>3. mark' = mark \/ mark = "unread"
  BY <1>0 DEF MarkAfter
<1> HIDE DEF input, kept
<1>4. CASE Invalid(input)
  <2>1. Raise("encoding") /\ UNCHANGED <<streamVars, pending>>
    BY <1>0, <1>4
  <2>2. QED
    BY <1>0, <1>1, <1>3, <2>1 DEF Raise, streamVars
<1>5. CASE ~Invalid(input)
  <2> DEFINE bytes == acc \o Converted(input)
  <2>1. Gather(bytes)
    BY <1>0, <1>5
  <2>2. bytes \in Seq(Byte)
    BY <1>1, <1>2, <1>5, ConvertTyping, ConcatProperties
  <2> HIDE DEF bytes
  <2>3. CASE UNCHANGED <<streamVars, pending, phase, error>>
    BY <1>0, <1>1, <1>3, <2>3 DEF streamVars
  <2>4. CASE Overflow(bytes)
    BY <1>0, <1>1, <1>3, <2>4 DEF Overflow, Raise, streamVars
  <2>5. CASE FeedAndTake(bytes)
    <3>1. CASE Refuses(text \o bytes, FALSE)
      <4>1. text' = text \o bytes /\ phase' = "raised" /\ UNCHANGED <<delivered, pending, strict>>
        BY <2>5, <3>1 DEF FeedAndTake, Raise
      <4>2. QED
        BY <1>0, <1>1, <1>3, <2>2, <4>1
    <3>2. CASE ~Refuses(text \o bytes, FALSE)
      <4>1. /\ text' = text \o bytes /\ phase' = phase /\ strict' = strict
            /\ delivered' = IF opts.api = "chunks" THEN delivered ELSE EndedRows(text \o bytes)
            /\ pending' = After(delivered', Len(delivered))
        BY <2>5, <3>2 DEF FeedAndTake
      <4>2. QED
        BY <1>0, <1>1, <1>3, <2>2, <4>1
    <3>3. QED
      BY <3>1, <3>2
  <2>6. QED
    BY <2>1, <2>3, <2>4, <2>5 DEF Gather
<1>6. QED
  BY <1>4, <1>5

(* A text that has grown is empty only if nothing was fed. *)
LEMMA GrownEmpty ==
    ASSUME NEW s \in Seq(Byte), NEW c \in Seq(Byte), s \o c = <<>>
    PROVE  s = <<>>
<1>1. Len(s \o c) = Len(s) + Len(c) /\ Len(s) \in Nat /\ Len(c) \in Nat /\ Len(<<>>) = 0
  BY ConcatProperties, LenProperties
<1>2. QED
  BY <1>1, EmptySeq

LEMMA PullDelivers ==
    ASSUME IInv, DeliveredOK, NEW element \in Seq(Units), Pull(element), UNCHANGED fresh
    PROVE  DeliveredOK'
<1>1. /\ phase = "reading" /\ UNCHANGED opts /\ text \in Seq(Byte)
      /\ \/ UNCHANGED <<text, delivered, pending>> /\ phase' \in {"reading", "raised"}
         \/ \E bytes \in Seq(Byte) :
               /\ text' = text \o bytes
               /\ \/ phase' = "raised" /\ UNCHANGED <<delivered, pending>>
                  \/ /\ phase' = "reading"
                     /\ delivered' = IF opts.api = "chunks" THEN delivered
                                                            ELSE EndedRows(text \o bytes)
                     /\ pending' = After(delivered', Len(delivered))
  BY PullFeeds
<1>2. CASE UNCHANGED <<text, delivered>>
  BY <1>1, <1>2 DEF DeliveredOK, EndedRows, RowsOf, FieldsOfLine
<1>3. ASSUME NEW bytes \in Seq(Byte), text' = text \o bytes,
             \/ phase' = "raised" /\ UNCHANGED delivered
             \/ /\ phase' = "reading"
                /\ delivered' = IF opts.api = "chunks" THEN delivered ELSE EndedRows(text')
      PROVE  DeliveredOK'
  <2>1. text' = <<>> => text = <<>>
    BY <1>1, <1>3, GrownEmpty
  <2>2. text' = <<>> => delivered' = <<>>
    BY <1>3, <2>1, NoRows DEF DeliveredOK
  <2>3. fresh /\ phase' = "reading" =>
           delivered' = IF opts.api = "chunks" THEN <<>> ELSE EndedRows(text')
    BY <1>1, <1>3 DEF DeliveredOK
  <2>4. EndedRows(text)' = EndedRows(text')
    BY DEF EndedRows, RowsOf, FieldsOfLine
  <2>5. QED
    BY <1>1, <2>2, <2>3, <2>4 DEF DeliveredOK
<1>4. QED
  BY <1>1, <1>2, <1>3

LEMMA SourceEndsDelivers ==
    ASSUME IInv, DeliveredOK, SourceEnds
    PROVE  DeliveredOK'
<1>1. LastFun /\ text \in Seq(Byte) /\ acc \in Seq(Byte) /\ phase = "reading"
  BY DEF SourceEnds, IInv, TypeOK, LastFun, Reading
<1>2. \/ phase' = "raised" /\ UNCHANGED <<text, delivered>>
      \/ FeedLast
  BY <1>1 DEF LastFun, Raise, Overflow, streamVars
<1>3. CASE FeedLast
  <2>1. \/ text' = text \o acc /\ UNCHANGED delivered /\ phase' = "raised"
        \/ text' = <<>> /\ delivered' = <<>> /\ phase' # "reading"
    BY <1>3 DEF FeedLast, Leftover, Close, Raise
  <2>2. text' = <<>> => delivered' = <<>>
    BY <1>1, <2>1, GrownEmpty DEF DeliveredOK
  <2>3. QED
    BY <2>1, <2>2 DEF DeliveredOK
<1>4. QED
  BY <1>2, <1>3 DEF DeliveredOK

LEMMA StepDelivers == IInv /\ DeliveredOK /\ [Next]_vars => DeliveredOK'
<1> SUFFICES ASSUME IInv, DeliveredOK, [Next]_vars PROVE DeliveredOK'
  OBVIOUS
<1>1. CASE Start
  <2>1. UNCHANGED opts /\ fresh' = (opts.api = "chunks" \/ text = <<>>)
    BY <1>1 DEF Start, StartStages
  <2>2. CASE opts.api = "chunks"
    <3>1. text' = <<>> /\ delivered' = <<>>
      BY <1>1, <2>2 DEF Start, StartStages, Close
    <3>2. QED
      BY <2>1, <2>2, <3>1 DEF DeliveredOK
  <2>3. CASE opts.api # "chunks"
    <3>1. UNCHANGED <<text, delivered>>
      BY <1>1, <2>3 DEF Start, StartStages, streamVars
    <3>2. fresh' => EndedRows(text') = <<>> /\ delivered' = <<>>
      BY <2>1, <2>3, <3>1, NoRows DEF DeliveredOK
    <3>3. EndedRows(text)' = EndedRows(text')
      BY DEF EndedRows, RowsOf, FieldsOfLine
    <3>4. QED
      BY <2>1, <2>3, <3>1, <3>2, <3>3 DEF DeliveredOK
  <2>4. QED
    BY <2>2, <2>3
<1>2. CASE PullElement \/ PullLine \/ PullLastLine
  <2>1. \E element \in Seq(Units) : Pull(element) /\ UNCHANGED fresh
    BY <1>2, PullHands
  <2>2. QED
    BY <2>1, PullDelivers
<1>3. CASE SourceEnds
  BY <1>3, SourceEndsDelivers
<1>4. CASE ReadElement \/ TakeRow \/ Halt \/ Complete \/ UNCHANGED vars
  <2>1. /\ UNCHANGED <<text, delivered, opts, fresh>>
        /\ phase' = phase \/ phase' = "halted" \/ phase' = "done"
    BY <1>4 DEF ReadElement, TakeRow, Halt, Complete, vars, streamVars, driverVars
  <2>2. EndedRows(text)' = EndedRows(text)
    BY <2>1 DEF EndedRows, RowsOf, FieldsOfLine
  <2>3. QED
    BY <2>1, <2>2 DEF DeliveredOK
<1>5. QED
  BY <1>1, <1>2, <1>3, <1>4 DEF Next

(* How far the consumer has got: it has taken the first n rows.            *)
TakenSoFar(n) ==
    /\ n \in 0..Len(Whole)
    /\ HeadersAfter(SubSeq(Whole, 1, n))
    /\ phase = "reading" =>
          n <= Len(delivered) /\ pending = SubSeq(Whole, n + 1, Len(delivered))
    /\ phase = "draining" => pending = SubSeq(Whole, n + 1, Len(Whole))
    /\ phase = "done" => n = Len(Whole)

LEMMA RowsTaken == RowsOK <=> (fresh => \E n : TakenSoFar(n))
BY DEF RowsOK, TakenSoFar

(* A consumer that waits for rows has taken all that were delivered.        *)
LEMMA TakenAll ==
    ASSUME IInv, DeliveredOK, fresh, phase = "reading", pending = <<>>,
           NEW n, TakenSoFar(n)
    PROVE  n = Len(delivered)
<1>1. Whole \in Seq(Row) /\ Len(Whole) \in Nat /\ Len(delivered) \in Nat /\ Len(delivered) <= Len(Whole)
  BY WholeTyping, DeliveredPrefix DEF Handing
<1>2. n \in 0..Len(delivered) /\ Len(delivered) \in 0..Len(Whole)
  BY <1>1 DEF TakenSoFar
<1>3. SubSeq(Whole, n + 1, Len(delivered)) = <<>>
  BY DEF TakenSoFar
<1>4. Len(SubSeq(Whole, n + 1, Len(delivered))) = Len(delivered) - (n + 1) + 1
  <2>1. n + 1 \in 1..Len(Whole) + 1 /\ Len(delivered) \in (n + 1) - 1..Len(Whole)
    BY <1>1, <1>2
  <2>2. QED
    BY <1>1, <2>1, PartOf
<1>5. Len(delivered) - (n + 1) + 1 = 0
  BY <1>3, <1>4, NoRows
<1>6. QED
  BY <1>1, <1>2, <1>5

(* Before the first element no row has been delivered. *)
LEMMA UnreadEmpty ==
    ASSUME IInv, DeliveredOK, fresh, phase = "reading", mark = "unread"
    PROVE  delivered = <<>>
<1>1. Handed \in Seq(Units) /\ Len(Handed) = 0
  <2>1. Handed \in Seq(Units) /\ Len(Handed) = read - Len(lineAcc) /\ read \in Nat /\ read = Len(lineAcc)
    BY HandedTyping, PartsOfType DEF IInv, MarkOK
  <2>2. QED
    BY <2>1
<1>2. Kept = <<>>
  BY <1>1, EmptySeq DEF Kept
<1>3. text \o acc = <<>> /\ text \in Seq(Byte) /\ acc \in Seq(Byte)
  BY <1>2, ConvertEmpty DEF IInv, StagesOK, TypeOK
<1>4. text = <<>>
  BY <1>3, GrownEmpty
<1>5. QED
  BY <1>4 DEF DeliveredOK

LEMMA PullTakes ==
    ASSUME IInv, IInv', DeliveredOK, DeliveredOK', RowsOK,
           NEW element \in Seq(Units), Pull(element),
           UNCHANGED <<source, fresh, headerVars, out>>
    PROVE  RowsOK'
<1> SUFFICES ASSUME fresh PROVE \E n : TakenSoFar(n)'
  BY DEF RowsOK, TakenSoFar
<1>1. /\ phase = "reading" /\ pending = <<>> /\ UNCHANGED opts /\ text \in Seq(Byte)
      /\ (mark' = mark \/ mark = "unread")
      /\ \/ UNCHANGED <<text, delivered, pending>> /\ phase' \in {"reading", "raised"}
         \/ \E bytes \in Seq(Byte) :
               /\ text' = text \o bytes
               /\ \/ phase' = "raised" /\ UNCHANGED <<delivered, pending>>
                  \/ /\ phase' = "reading"
                     /\ delivered' = IF opts.api = "chunks" THEN delivered
                                                            ELSE EndedRows(text \o bytes)
                     /\ pending' = After(delivered', Len(delivered))
  BY PullFeeds
<1>2. PICK n : TakenSoFar(n)
  BY RowsTaken
<1>3. n = Len(delivered)
  BY <1>1, <1>2, TakenAll
<1>4. /\ Whole \in Seq(Row) /\ Whole' \in Seq(Row) /\ Len(Whole) \in Nat /\ Len(Whole') \in Nat
      /\ Handing
  BY <1>1, WholeTyping, WholeTypingNext, DeliveredPrefix
<1>5. n \in Nat /\ n \in 0..Len(Whole)
  BY <1>3, <1>4 DEF Handing
<1>6. n \in 0..Len(Whole') /\ SubSeq(Whole', 1, n) = SubSeq(Whole, 1, n)
  <2>1. CASE mark' = mark
    BY <1>1, <1>5, <2>1, WholeSame
  <2>2. CASE mark = "unread"
    <3>1. n = 0
      BY <1>1, <1>3, <2>2, UnreadEmpty
    <3>2. SubSeq(Whole', 1, 0) = <<>> /\ SubSeq(Whole, 1, 0) = <<>>
      BY SubSeqEmpty
    <3>3. QED
      BY <1>4, <3>1, <3>2
  <2>3. QED
    BY <1>1, <2>1, <2>2
<1>7. HeadersAfter(SubSeq(Whole, 1, n))'
  <2>1. HeadersMade(SubSeq(Whole', 1, n), toDrop', keys', out')
    BY <1>2, <1>6 DEF TakenSoFar, HeadersAfter, headerVars
  <2>2. FirstDrop' = FirstDrop /\ FirstKeys' = FirstKeys
    BY <1>1 DEF FirstDrop, FirstKeys
  <2>3. QED
    BY <1>1, <2>1, <2>2 DEF HeadersAfter, HeadersMade
<1>8. phase' \in {"reading", "raised"}
  BY <1>1
<1>9. ASSUME phase' = "reading"
      PROVE  n <= Len(delivered') /\ pending' = SubSeq(Whole', n + 1, Len(delivered'))
  <2>1. Handing'
    BY <1>9, DeliveredPrefixNext
  <2>2. CASE UNCHANGED <<text, delivered, pending>>
    <3>1. n + 1 \in Int /\ n \in Int /\ n < n + 1
      BY <1>5
    <3>2. SubSeq(Whole', n + 1, n) = <<>>
      BY <3>1, SubSeqEmpty
    <3>3. QED
      BY <1>1, <1>3, <1>5, <2>2, <3>2
  <2>3. ASSUME NEW bytes \in Seq(Byte), text' = text \o bytes,
               delivered' = IF opts.api = "chunks" THEN delivered ELSE EndedRows(text \o bytes),
               pending' = After(delivered', Len(delivered))
        PROVE  n <= Len(delivered') /\ pending' = SubSeq(Whole', n + 1, Len(delivered'))
    <3>1. /\ delivered' \in Seq(Row) /\ Len(delivered') \in Nat /\ Len(delivered') <= Len(Whole')
          /\ \A k \in 1..Len(delivered') : Whole'[k] = delivered'[k]
      BY <2>1 DEF Handing
    <3>2. n <= Len(delivered')
      <4>1. CASE opts.api = "chunks"
        BY <1>3, <1>5, <2>3, <4>1
      <4>2. CASE opts.api # "chunks"
        <5>1. delivered = EndedRows(text)
          BY <1>1, <4>2 DEF DeliveredOK
        <5>2. Len(EndedRows(text)) <= Len(EndedRows(text \o bytes))
          BY <1>1, <2>3, RowsGrow
        <5>3. QED
          BY <1>3, <2>3, <4>2, <5>1, <5>2
      <4>3. QED
        BY <4>1, <4>2
    <3>3. pending' = SubSeq(delivered', n + 1, Len(delivered'))
      BY <1>3, <2>3 DEF After
    <3>4. SubSeq(Whole', n + 1, Len(delivered')) = SubSeq(delivered', n + 1, Len(delivered'))
      <4>1. Len(delivered') \in 0..Len(Whole') /\ Len(delivered') <= Len(delivered') /\ n \in 0..Len(delivered')
        BY <1>4, <1>5, <3>1, <3>2
      <4>2. QED
        BY <1>4, <3>1, <4>1, SamePart
    <3>5. QED
      BY <3>2, <3>3, <3>4
  <2>4. QED
    BY <1>1, <1>9, <2>2, <2>3
<1>10. TakenSoFar(n)'
  BY <1>6, <1>7, <1>8, <1>9 DEF TakenSoFar
<1>11. QED
  BY <1>10

LEMMA SourceEndsTakes ==
    ASSUME IInv, IInv', DeliveredOK, RowsOK, SourceEnds
    PROVE  RowsOK'
<1> SUFFICES ASSUME fresh' PROVE \E n : TakenSoFar(n)'
  BY DEF RowsOK, TakenSoFar
<1>1. /\ LastFun /\ phase = "reading" /\ pending = <<>> /\ read = Len(source) /\ lineAcc = <<>>
      /\ UNCHANGED <<source, fresh, opts, mark, toDrop, keys, out>>
  BY DEF SourceEnds, LastFun, Reading, sourceVars, headerVars
<1>2. PICK n : TakenSoFar(n)
  BY <1>1, RowsTaken
<1>3. n = Len(delivered)
  BY <1>1, <1>2, TakenAll
<1>4. Whole' = Whole
  BY <1>1, WholeSame
<1>5. HeadersAfter(SubSeq(Whole, 1, n))'
  BY <1>1, <1>2, <1>4 DEF TakenSoFar, HeadersAfter, HeadersMade, FirstDrop, FirstKeys
<1>6. CASE phase' = "raised"
  BY <1>2, <1>4, <1>5, <1>6 DEF TakenSoFar
<1>7. CASE phase' # "raised"
  <2>1. undecoded = <<>> /\ FeedLast
    BY <1>1, <1>7 DEF LastFun, Raise, Overflow
  <2>2. phase' = "draining" /\ pending' = After(AllRows(Leftover), Len(delivered))
    BY <1>7, <2>1 DEF FeedLast, Raise
  <2>3. Whole = AllRows(Leftover)
    <3>1. /\ source \in Seq(Units) /\ Kept \in Seq(Units)
          /\ ~Invalid(Kept) /\ Converted(Kept) = text \o acc
      BY <1>1, KeptPart DEF IInv, LineOK, StagesOK
    <3>2. Unmarked = Kept
      <4>1. Len(lineAcc) = 0 /\ Len(source) \in Nat /\ Len(source) - 0 = Len(source)
        BY <1>1, <3>1, LenProperties
      <4>2. Handed = source
        BY <1>1, <3>1, <4>1, SubSeqFull DEF Handed
      <4>3. QED
        BY <4>2 DEF Kept, Unmarked
    <3>3. QED
      BY <3>1, <3>2, AllConvertible DEF Whole, Leftover
  <2>4. pending' = SubSeq(Whole', n + 1, Len(Whole'))
    BY <1>3, <1>4, <2>2, <2>3 DEF After
  <2>5. QED
    BY <1>2, <1>4, <1>5, <2>2, <2>4 DEF TakenSoFar
<1>8. QED
  BY <1>6, <1>7

LEMMA TakeRowTakes ==
    ASSUME IInv, OptionsOK, DeliveredOK, RowsOK, TakeRow
    PROVE  RowsOK'
<1> SUFFICES ASSUME fresh' PROVE \E n : TakenSoFar(n)'
  BY DEF RowsOK, TakenSoFar
<1>1. /\ phase \in {"reading", "draining"} /\ pending # <<>> /\ pending' = Tail(pending)
      /\ DropRow \/ KeepKeys \/ GiveRow \/ GiveMap
      /\ UNCHANGED <<source, fresh, opts, mark, phase, delivered>>
  BY DEF TakeRow, sourceVars, streamVars
<1>2. PICK n : TakenSoFar(n)
  BY <1>1, RowsTaken
<1>3. Whole' = Whole
  BY <1>1, WholeSame
<1>4. Whole \in Seq(Row) /\ Len(Whole) \in Nat
  BY WholeTyping
<1> DEFINE m == IF phase = "reading" THEN Len(delivered) ELSE Len(Whole)
<1>5. m \in 0..Len(Whole) /\ n \in 0..m /\ pending = SubSeq(Whole, n + 1, m)
  <2>1. CASE phase = "reading"
    <3>1. Len(delivered) \in Nat /\ Len(delivered) <= Len(Whole)
      BY <1>1, <2>1, DeliveredPrefix DEF Handing
    <3>2. QED
      BY <1>2, <1>4, <2>1, <3>1 DEF TakenSoFar
  <2>2. CASE phase # "reading"
    BY <1>1, <1>2, <1>4, <2>2 DEF TakenSoFar
  <2>3. QED
    BY <2>1, <2>2
<1> HIDE DEF m
<1>6. /\ n + 1 \in 0..m /\ n + 1 \in 1..Len(Whole)
      /\ Head(pending) = Whole[n + 1]
      /\ Tail(pending) = SubSeq(Whole, (n + 1) + 1, m)
      /\ SubSeq(Whole, 1, n) \in Seq(Row)
      /\ SubSeq(Whole, 1, n + 1) = Append(SubSeq(Whole, 1, n), Whole[n + 1])
  BY <1>1, <1>4, <1>5, TakeOne
<1>7. Whole[n + 1] \in Row
  BY <1>4, <1>6, ElementOfSeq
<1>8. HeadersMade(SubSeq(Whole, 1, n + 1), toDrop', keys', out')
  <2>1. HeadersMade(SubSeq(Whole, 1, n), toDrop, keys, out)
    BY <1>2 DEF TakenSoFar, HeadersAfter
  <2>2. HeadersMade(Append(SubSeq(Whole, 1, n), Whole[n + 1]), toDrop', keys', out')
    BY <1>1, <1>6, <1>7, <2>1, HeadersStep
  <2>3. QED
    BY <1>6, <2>2
<1>9. HeadersAfter(SubSeq(Whole, 1, n + 1))'
  BY <1>1, <1>3, <1>8 DEF HeadersAfter, HeadersMade, FirstDrop, FirstKeys
<1>10. n + 1 \in 0..Len(Whole')
  BY <1>3, <1>4, <1>6
<1>11. TakenSoFar(n + 1)'
  <2>1. phase' = "reading" => n + 1 <= Len(delivered') /\ pending' = SubSeq(Whole', (n + 1) + 1, Len(delivered'))
    BY <1>1, <1>3, <1>5, <1>6 DEF m
  <2>2. phase' = "draining" => pending' = SubSeq(Whole', (n + 1) + 1, Len(Whole'))
    BY <1>1, <1>3, <1>6 DEF m
  <2>3. phase' # "done"
    BY <1>1
  <2>4. QED
    BY <1>9, <1>10, <2>1, <2>2, <2>3 DEF TakenSoFar
<1>12. QED
  BY <1>11

LEMMA StepTakes ==
    IInv /\ IInv' /\ OptionsOK /\ DeliveredOK /\ DeliveredOK' /\ RowsOK /\ [Next]_vars => RowsOK'
<1> SUFFICES ASSUME IInv, IInv', OptionsOK, DeliveredOK, DeliveredOK', RowsOK, [Next]_vars
             PROVE  RowsOK'
  OBVIOUS
<1>1. CASE Start
  <2> SUFFICES ASSUME fresh' PROVE TakenSoFar(0)'
    BY DEF RowsOK, TakenSoFar
  <2>1. /\ phase' = "reading" /\ pending' = <<>> /\ UNCHANGED opts
        /\ toDrop' = FirstDrop /\ keys' = FirstKeys /\ out' = <<>>
    BY <1>1 DEF Start, StartStages
  <2>2. delivered' = <<>>
    <3>1. CASE opts.api = "chunks"
      BY <1>1, <3>1 DEF Start, StartStages, Close
    <3>2. CASE opts.api # "chunks"
      BY <1>1, <3>2 DEF Start, StartStages, DeliveredOK, streamVars
    <3>3. QED
      BY <3>1, <3>2
  <2>3. Whole' \in Seq(Row) /\ Len(Whole') \in Nat
    BY WholeTypingNext
  <2>4. \A w : SubSeq(w, 1, 0) = <<>> /\ SubSeq(w, 0 + 1, 0) = <<>>
    BY SubSeqEmpty
  <2>5. BatchRows(opts.headers, <<>>) = <<>>
    <3>1. opts.headers.kind \in {"lists", "first_row", "keys"}
      BY DEF OptionsOK
    <3>2. DOMAIN <<>> = {}
      OBVIOUS
    <3>3. QED
      BY <3>1, <3>2 DEF BatchRows
  <2>6. HeadersAfter(SubSeq(Whole, 1, 0))'
    BY <2>1, <2>4, <2>5 DEF HeadersAfter, HeadersMade, FirstDrop, FirstKeys
  <2>7. QED
    BY <2>1, <2>2, <2>3, <2>4, <2>6, NoRows DEF TakenSoFar
<1>2. CASE PullElement \/ PullLine \/ PullLastLine
  <2>1. \E element \in Seq(Units) : Pull(element) /\ UNCHANGED <<source, fresh>>
    BY <1>2, PullHands
  <2>2. UNCHANGED <<headerVars, out>>
    BY <1>2 DEF PullElement, PullLine, PullLastLine, HandOn
  <2>3. QED
    BY <2>1, <2>2, PullTakes
<1>3. CASE SourceEnds
  BY <1>3, SourceEndsTakes
<1>4. CASE TakeRow
  BY <1>4, TakeRowTakes
<1>5. CASE ReadElement \/ Halt \/ Complete \/ UNCHANGED vars
  <2>1. /\ UNCHANGED <<delivered, opts, source, mark, fresh, toDrop, keys, out>>
        /\ \/ UNCHANGED <<phase, pending>>
           \/ phase' = "halted"
           \/ phase = "draining" /\ pending = <<>> /\ phase' = "done"
    BY <1>5 DEF ReadElement, Halt, Complete, vars, streamVars, driverVars, sourceVars, headerVars
  <2>2. Whole' = Whole
    BY <2>1, WholeSame
  <2> SUFFICES ASSUME fresh' PROVE \E n : TakenSoFar(n)'
    BY DEF RowsOK, TakenSoFar
  <2>3. PICK n : TakenSoFar(n)
    BY <2>1, RowsTaken
  <2>4. n \in 0..Len(Whole') /\ HeadersAfter(SubSeq(Whole, 1, n))'
    BY <2>1, <2>2, <2>3 DEF TakenSoFar, HeadersAfter, HeadersMade, FirstDrop, FirstKeys
  <2>5. CASE UNCHANGED <<phase, pending>>
    BY <2>1, <2>2, <2>3, <2>4, <2>5 DEF TakenSoFar
  <2>6. CASE phase' = "halted"
    BY <2>4, <2>6 DEF TakenSoFar
  <2>7. CASE phase = "draining" /\ pending = <<>> /\ phase' = "done"
    <3>1. Whole \in Seq(Row) /\ Len(Whole) \in Nat /\ n \in 0..Len(Whole)
      BY <2>3, WholeTyping DEF TakenSoFar
    <3>2. Len(SubSeq(Whole, n + 1, Len(Whole))) = Len(Whole) - n
      BY <3>1, SuffixOf
    <3>3. Len(Whole) - n = 0
      BY <2>3, <2>7, <3>2, NoRows DEF TakenSoFar
    <3>4. n = Len(Whole)
      BY <3>1, <3>3
    <3>5. QED
      BY <2>2, <2>4, <2>7, <3>4 DEF TakenSoFar
  <2>8. QED
    BY <2>1, <2>5, <2>6, <2>7
<1>6. QED
  BY <1>1, <1>2, <1>3, <1>4, <1>5 DEF Next

(* The inductive invariant of what the consumer gets. *)
EmitsInv == IInv /\ OptionsOK /\ DeliveredOK /\ RowsOK

LEMMA EmitsInit == Init => EmitsInv
<1> SUFFICES ASSUME Init PROVE EmitsInv
  OBVIOUS
<1>1. IInv
  BY InitHolds
<1>2. PICK job \in Jobs : opts = job.opts
  BY DEF Init
<1>3. OptionsOK
  BY <1>2, HeadersAssumption DEF OptionsOK
<1>4. /\ phase = "built" /\ text = <<>> /\ delivered = <<>> /\ out = <<>>
      /\ keys = FirstKeys /\ toDrop = FirstDrop
  BY DEF Init, StreamInit
<1>5. DeliveredOK
  BY <1>4 DEF DeliveredOK
<1>6. RowsOK
  <2>1. Whole \in Seq(Row) /\ Len(Whole) \in Nat
    BY <1>1, WholeTyping
  <2>2. SubSeq(Whole, 1, 0) = <<>>
    BY SubSeqEmpty
  <2>3. BatchRows(opts.headers, <<>>) = <<>>
    <3>1. DOMAIN <<>> = {}
      OBVIOUS
    <3>2. QED
      BY <1>3, <3>1 DEF BatchRows, OptionsOK
  <2>4. HeadersMade(<<>>, toDrop, keys, out)
    BY <1>4, <2>3 DEF HeadersMade
  <2>5. HeadersAfter(SubSeq(Whole, 1, 0))
    BY <2>2, <2>4 DEF HeadersAfter
  <2>6. 0 \in 0..Len(Whole)
    BY <2>1
  <2>7. TakenSoFar(0)
    BY <1>4, <2>5, <2>6 DEF TakenSoFar
  <2>8. QED
    BY <2>7, RowsTaken
<1>7. QED
  BY <1>1, <1>3, <1>5, <1>6 DEF EmitsInv

LEMMA EmitsStep == EmitsInv /\ [Next]_vars => EmitsInv'
<1> SUFFICES ASSUME EmitsInv, [Next]_vars PROVE EmitsInv'
  OBVIOUS
<1>1. IInv'
  BY StepKeeps DEF EmitsInv
<1>2. DeliveredOK'
  BY StepDelivers DEF EmitsInv
<1>3. UNCHANGED opts
  BY DEF Next, Start, StartStages, PullElement, PullLine, PullLastLine, HandOn, Pull, ReadElement,
         SourceEnds, LastFun, TakeRow, Halt, Complete, vars, driverVars
<1>4. OptionsOK'
  BY <1>3, OptionsKept DEF EmitsInv
<1>5. RowsOK'
  BY <1>1, <1>2, StepTakes DEF EmitsInv
<1>6. QED
  BY <1>1, <1>2, <1>4, <1>5 DEF EmitsInv

LEMMA EmitsFollows == EmitsInv => EmitsRowsOfSource
<1> SUFFICES ASSUME EmitsInv, fresh
             PROVE  /\ IsPrefix(out, RowsOfUnits(Unmarked))
                    /\ phase = "done" => out = RowsOfUnits(Unmarked)
  BY DEF EmitsRowsOfSource
<1>1. PICK n : TakenSoFar(n)
  BY RowsTaken DEF EmitsInv
<1>2. Whole \in Seq(Row) /\ Len(Whole) \in Nat /\ KnownKind(opts.headers)
  BY WholeTyping DEF EmitsInv, OptionsOK, KnownKind
<1>3. n \in 0..Len(Whole) /\ out = BatchRows(opts.headers, SubSeq(Whole, 1, n))
  BY <1>1 DEF TakenSoFar, HeadersAfter, HeadersMade
<1>4. RowsOfUnits(Unmarked) = BatchRows(opts.headers, Whole)
  BY DEF RowsOfUnits, Whole
<1>5. IsPrefix(out, RowsOfUnits(Unmarked))
  BY <1>2, <1>3, <1>4, BatchPrefix
<1>6. phase = "done" => SubSeq(Whole, 1, n) = Whole
  BY <1>1, <1>2, SubSeqFull DEF TakenSoFar
<1>7. QED
  BY <1>3, <1>4, <1>5, <1>6

(* In an enumeration that found the parser empty the consumer gets the     *)
(* first rows that a batch parse of the source returns, as lists or maps,  *)
(* and all of them when the enumeration completes.                         *)
THEOREM EmitsCorrect == Spec => []EmitsRowsOfSource
BY EmitsInit, EmitsStep, EmitsFollows, PTL DEF Spec
=============================================================================
