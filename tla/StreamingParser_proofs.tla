----------------------- MODULE StreamingParser_proofs -----------------------
(***************************************************************************)
(* Theorems about StreamingParser for every alphabet, dialect, chunking,   *)
(* limit and input length.  The streaming parser, however it is fed, cuts  *)
(* a text at its row ends, splits each line into its fields, reports the   *)
(* first violation of the text and implements the abstract stream.         *)
(***************************************************************************)
EXTENDS StreamingParser, CsvText_proofs

(* The quote automaton stays within its states. *)
LEMMA QuoteTyping ==
    ASSUME NEW q \in QuoteStates, NEW pos \in Nat, NEW doubled \in BOOLEAN
    PROVE  /\ OnEscape(q, pos, doubled) \in QuoteStates
           /\ OnDelimiter(q) \in QuoteStates
           /\ OnData(q, pos) \in QuoteStates
<1>1. OnEscape(q, pos, doubled) \in QuoteStates
  BY DEF OnEscape, QuoteStates, Violation, NoViolation, FirstOf
<1>2. OnDelimiter(q) \in QuoteStates
  BY DEF OnDelimiter, QuoteStates
<1>3. OnData(q, pos) \in QuoteStates
  BY DEF OnData, QuoteStates, Violation, NoViolation, FirstOf
<1>4. QED
  BY <1>1, <1>2, <1>3

LEMMA NewQuoteTyping == NewQuote \in QuoteStates
BY DEF NewQuote, QuoteStates, Violation, NoViolation

LEMMA InitTyping == Init => TypeOK
BY NewQuoteTyping
DEF Init, TypeOK, PositionsOK, BuffersOK, StatesOK

(* A byte that is scanned is a byte of the buffer. *)
LEMMA ScanStaysInside ==
    ASSUME TypeOK, Scanning, NEW n \in 1..2,
           n = 2 => scan_pos + 1 < Len(buffer)
    PROVE  /\ scan_pos + n \in Nat
           /\ scan_pos + n <= Len(buffer)
           /\ AbsolutePos \in Nat
BY DEF TypeOK, PositionsOK, BuffersOK, StatesOK, Scanning, AbsolutePos

(* The doubled escape and the CRLF, the two steps of two bytes, have both  *)
(* in the buffer: the scan would wait otherwise.                           *)
LEMMA LookaheadIsThere ==
    ASSUME TypeOK, Scanning,
           \/ quote.in_quotes /\ Class = "escape"
           \/ ~quote.in_quotes /\ Class = "cr"
    PROVE  scan_pos + 1 < Len(buffer)
BY DEF TypeOK, PositionsOK, BuffersOK, Scanning, Waiting

LEMMA AdvanceTyping ==
    ASSUME TypeOK, Scanning, NEW n \in 1..2,
           n = 2 => scan_pos + 1 < Len(buffer),
           NEW q \in QuoteStates, Advance(q, n)
    PROVE  TypeOK'
BY ScanStaysInside
DEF TypeOK, PositionsOK, BuffersOK, StatesOK, Advance, history

LEMMA EndRowTyping ==
    ASSUME TypeOK, Scanning, NEW n \in 1..2,
           n = 2 => scan_pos + 1 < Len(buffer),
           EndRow(n)
    PROVE  TypeOK'
<1>1. OnDelimiter(quote) \in QuoteStates
  BY DEF TypeOK, StatesOK, OnDelimiter, QuoteStates
<1>2. RowLine(partial_row_start, scan_pos) \in Seq(Byte)
  BY SubSeqProperties DEF TypeOK, PositionsOK, BuffersOK, RowLine
<1>3. PositionsOK'
  BY ScanStaysInside DEF TypeOK, PositionsOK, BuffersOK, EndRow
<1>4. BuffersOK'
  BY <1>2 DEF TypeOK, BuffersOK, EndRow, history
<1>5. StatesOK'
  BY <1>1 DEF TypeOK, StatesOK, EndRow
<1>6. QED
  BY <1>3, <1>4, <1>5 DEF TypeOK

LEMMA IterateTyping ==
    ASSUME TypeOK, Iterate
    PROVE  TypeOK'
<1>1. quote \in QuoteStates /\ AbsolutePos \in Nat
  BY DEF TypeOK, PositionsOK, StatesOK, AbsolutePos
<1>2. CASE QuotedByte
  BY <1>1, <1>2, AdvanceTyping DEF QuotedByte
<1>3. CASE QuotedEscape
  <2> DEFINE doubled == NextByte = Escape
             n       == IF doubled THEN 2 ELSE 1
             q       == OnEscape(quote, AbsolutePos, doubled)
  <2>1. q \in QuoteStates
    BY <1>1, QuoteTyping
  <2>2. Scanning /\ scan_pos + 1 < Len(buffer) /\ Advance(q, n)
    BY <1>3, LookaheadIsThere DEF QuotedEscape
  <2>3. n \in 1..2
    OBVIOUS
  <2> HIDE DEF n, q
  <2>4. QED
    BY <2>1, <2>2, <2>3, AdvanceTyping
<1>4. CASE OpeningEscape
  <2> DEFINE q == OnEscape(quote, AbsolutePos, FALSE)
  <2>1. q \in QuoteStates
    BY <1>1, QuoteTyping
  <2>2. Scanning /\ Advance(q, 1)
    BY <1>4 DEF OpeningEscape
  <2> HIDE DEF q
  <2>3. QED
    BY <2>1, <2>2, AdvanceTyping
<1>5. CASE Separator
  <2>1. OnDelimiter(quote) \in QuoteStates
    BY <1>1, QuoteTyping
  <2>2. Scanning /\ Advance(OnDelimiter(quote), 1)
    BY <1>5 DEF Separator
  <2>3. QED
    BY <2>1, <2>2, AdvanceTyping
<1>6. CASE LineFeed
  BY <1>6, EndRowTyping DEF LineFeed
<1>7. CASE CrLf
  BY <1>7, LookaheadIsThere, EndRowTyping DEF CrLf
<1>8. CASE Data
  <2>1. OnData(quote, AbsolutePos) \in QuoteStates
    BY <1>1, QuoteTyping
  <2>2. Scanning /\ Advance(OnData(quote, AbsolutePos), 1)
    BY <1>8 DEF Data
  <2>3. QED
    BY <2>1, <2>2, AdvanceTyping
<1>9. QED
  BY <1>2, <1>3, <1>4, <1>5, <1>6, <1>7, <1>8 DEF Iterate

(* Compaction moves the three positions together. *)
LEMMA EndScanTyping ==
    ASSUME TypeOK, EndScan
    PROVE  TypeOK'
<1>1. PositionsOK'
  BY SubSeqProperties
     DEF TypeOK, PositionsOK, BuffersOK, EndScan, CompactionDue, Compact
<1>2. BuffersOK'
  <2>1. SubSeq(buffer, partial_row_start + 1, Len(buffer)) \in Seq(Byte)
    BY SubSeqProperties DEF TypeOK, PositionsOK, BuffersOK
  <2>2. buffer' \in Seq(Byte)
    BY <2>1 DEF TypeOK, BuffersOK, EndScan, Compact
  <2>3. UNCHANGED <<accepted, complete_rows, taken, max_buffer_size>>
    BY DEF EndScan, history
  <2>4. QED
    BY <2>2, <2>3 DEF TypeOK, BuffersOK
<1>3. StatesOK'
  BY DEF TypeOK, StatesOK, EndScan
<1>4. QED
  BY <1>1, <1>2, <1>3 DEF TypeOK

LEMMA FeedTyping ==
    ASSUME TypeOK, NEW n \in Nat, NEW chunk \in [1..n -> Byte], Feed(chunk)
    PROVE  TypeOK'
<1>1. chunk \in Seq(Byte)
  OBVIOUS
<1>2. PositionsOK'
  BY <1>1, ConcatProperties DEF TypeOK, PositionsOK, BuffersOK, Feed
<1>3. BuffersOK'
  BY <1>1, ConcatProperties DEF TypeOK, BuffersOK, Feed
<1>4. StatesOK'
  BY DEF TypeOK, StatesOK, Feed
<1>5. QED
  BY <1>2, <1>3, <1>4 DEF TypeOK

LEMMA NextRowsTyping ==
    ASSUME TypeOK, NEW max \in 0..Len(complete_rows), NextRows(max)
    PROVE  TypeOK'
<1>1. CASE Malformed
  BY <1>1 DEF TypeOK, PositionsOK, BuffersOK, StatesOK, NextRows
<1>2. CASE ~Malformed
  <2> DEFINE n == IF max < Len(complete_rows) THEN max ELSE Len(complete_rows)
  <2>1. n \in 0..Len(complete_rows)
    BY DEF TypeOK, BuffersOK
  <2>2. /\ taken' = taken \o SubSeq(complete_rows, 1, n)
        /\ complete_rows' = SubSeq(complete_rows, n + 1, Len(complete_rows))
    BY <1>2 DEF NextRows, RowsAfter
  <2> HIDE DEF n
  <2>3. taken' \in Seq(Seq(Byte)) /\ complete_rows' \in Seq(Seq(Byte))
    BY <2>1, <2>2, SubSeqProperties, ConcatProperties, SMTT(30) DEF TypeOK, BuffersOK
  <2>4. QED
    BY <1>2, <2>3 DEF TypeOK, PositionsOK, BuffersOK, StatesOK, NextRows
<1>3. QED
  BY <1>1, <1>2

LEMMA NextTyping ==
    ASSUME TypeOK, [Next]_vars
    PROVE  TypeOK'
<1>1. ASSUME NEW n \in 0..MaxInput - Len(accepted), NEW chunk \in [1..n -> Byte],
             Feed(chunk)
      PROVE  TypeOK'
  BY <1>1, FeedTyping DEF TypeOK, BuffersOK
<1>2. ASSUME NEW n \in 0..MaxInput - Len(accepted), FeedOverflow(n)
      PROVE  TypeOK'
  BY <1>2 DEF TypeOK, PositionsOK, BuffersOK, StatesOK, FeedOverflow
<1>3. CASE Iterate
  BY <1>3, IterateTyping
<1>4. CASE EndScan
  BY <1>4, EndScanTyping
<1>5. ASSUME NEW max \in 0..Len(complete_rows), NextRows(max)
      PROVE  TypeOK'
  BY <1>5, NextRowsTyping
<1>6. CASE Finalize
  BY <1>6, NewQuoteTyping DEF TypeOK, PositionsOK, BuffersOK, StatesOK, Finalize
<1>7. ASSUME NEW max \in Limits, SetMaxBuffer(max)
      PROVE  TypeOK'
  BY <1>7 DEF TypeOK, PositionsOK, BuffersOK, StatesOK, SetMaxBuffer
<1>8. CASE UNCHANGED vars
  BY <1>8 DEF TypeOK, PositionsOK, BuffersOK, StatesOK, vars, history
<1>9. QED
  BY <1>1, <1>2, <1>3, <1>4, <1>5, <1>6, <1>7, <1>8 DEF Next

(* Type correctness: through any sequence of calls, however chunks are cut *)
(* and whenever the buffer is compacted, the positions of the parser stay  *)
(* ordered and inside its buffer, so that no call slices out of bounds.    *)
THEOREM TypeCorrect == Spec => []TypeOK
<1>1. Init => TypeOK
  BY InitTyping
<1>2. TypeOK /\ [Next]_vars => TypeOK'
  BY NextTyping
<1>3. QED
  BY <1>1, <1>2, PTL DEF Spec

-----------------------------------------------------------------------------
(* The buffer as a window on the text. *)

(* The end of a sequence, after its first n elements. *)
LEMMA SuffixProperties ==
    ASSUME NEW s \in Seq(Byte), NEW n \in 0..Len(s)
    PROVE  /\ SubSeq(s, n + 1, Len(s)) \in Seq(Byte)
           /\ Len(SubSeq(s, n + 1, Len(s))) = Len(s) - n
           /\ \A i \in 1..Len(s) - n : SubSeq(s, n + 1, Len(s))[i] = s[n + i]
<1>1. \A i \in n + 1..Len(s) : s[i] \in Byte
  OBVIOUS
<1>2. QED
  BY <1>1, SubSeqProperties

(* What is left of a window after it slides is the window of what is left. *)
LEMMA SlideWindow ==
    ASSUME NEW s \in Seq(Byte), NEW off \in Nat, NEW n \in Nat, off + n <= Len(s)
    PROVE  LET w == SubSeq(s, off + 1, Len(s))
           IN  SubSeq(w, n + 1, Len(w)) = SubSeq(s, off + n + 1, Len(s))
BY SubSeqProperties

(* A chunk appended to the window is appended to the text. *)
LEMMA ExtendWindow ==
    ASSUME NEW s \in Seq(Byte), NEW c \in Seq(Byte), NEW off \in 0..Len(s)
    PROVE  SubSeq(s, off + 1, Len(s)) \o c = SubSeq(s \o c, off + 1, Len(s \o c))
<1> DEFINE t == s \o c
           w == SubSeq(s, off + 1, Len(s))
           right == SubSeq(t, off + 1, Len(t))
<1>1. /\ t \in Seq(Byte) /\ Len(t) = Len(s) + Len(c)
      /\ \A i \in 1..Len(s) + Len(c) : t[i] = IF i <= Len(s) THEN s[i] ELSE c[i - Len(s)]
  BY ConcatProperties
<1>2. /\ w \in Seq(Byte) /\ Len(w) = Len(s) - off
      /\ \A i \in 1..Len(s) - off : w[i] = s[off + i]
  BY SuffixProperties
<1> HIDE DEF t, w
<1>3. /\ w \o c \in Seq(Byte) /\ Len(w \o c) = Len(w) + Len(c)
      /\ \A i \in 1..Len(w) + Len(c) :
            (w \o c)[i] = IF i <= Len(w) THEN w[i] ELSE c[i - Len(w)]
  BY <1>2, ConcatProperties
<1>4. off \in 0..Len(t)
  BY <1>1
<1>5. /\ right \in Seq(Byte) /\ Len(right) = Len(t) - off
      /\ \A i \in 1..Len(t) - off : right[i] = t[off + i]
  BY <1>1, <1>4, SuffixProperties
<1> HIDE DEF right
<1>6. Len(w \o c) = Len(right)
  BY <1>1, <1>2, <1>3, <1>5
<1>7. ASSUME NEW i \in 1..Len(w \o c)
      PROVE  (w \o c)[i] = right[i]
  <2>1. /\ i \in 1..Len(w) + Len(c)
        /\ Len(w) + Len(c) = Len(t) - off
        /\ off + i \in 1..Len(t)
    BY <1>1, <1>2, <1>3
  <2>2. right[i] = IF off + i <= Len(s) THEN s[off + i] ELSE c[off + i - Len(s)]
    BY <1>1, <1>5, <2>1
  <2>3. (w \o c)[i] = IF i <= Len(w) THEN w[i] ELSE c[i - Len(w)]
    BY <1>3, <2>1
  <2>4. CASE i <= Len(w)
    BY <1>2, <2>2, <2>3, <2>4
  <2>5. CASE ~(i <= Len(w))
    <3>1. i - Len(w) = off + i - Len(s)
      BY <1>2
    <3>2. QED
      BY <1>2, <2>2, <2>3, <2>5, <3>1
  <2>6. QED
    BY <2>4, <2>5
<1>8. w \o c = right
  BY <1>3, <1>5, <1>6, <1>7, SeqEqual
<1>9. QED
  BY <1>8 DEF w, right, t

LEMMA NextWindow ==
    ASSUME TypeOK, BufferIsWindow, [Next]_vars
    PROVE  BufferIsWindow'
<1>1. ASSUME NEW n \in 0..MaxInput - Len(accepted), NEW chunk \in [1..n -> Byte],
             Feed(chunk)
      PROVE  BufferIsWindow'
  <2>1. chunk \in Seq(Byte) /\ accepted \in Seq(Byte) /\ buffer \in Seq(Byte)
    BY SizeAssumption DEF TypeOK, BuffersOK
  <2>2. buffer_offset \in 0..Len(accepted)
    BY <2>1 DEF TypeOK, PositionsOK, BufferIsWindow
  <2>3. buffer \o chunk = SubSeq(accepted \o chunk, buffer_offset + 1, Len(accepted \o chunk))
    BY <2>1, <2>2, ExtendWindow DEF BufferIsWindow
  <2>4. /\ Len(buffer \o chunk) = Len(buffer) + Len(chunk)
        /\ Len(accepted \o chunk) = Len(accepted) + Len(chunk)
    BY <2>1, ConcatProperties
  <2>5. buffer' = buffer \o chunk /\ accepted' = accepted \o chunk
        /\ buffer_offset' = buffer_offset
    BY <1>1 DEF Feed
  <2>6. buffer_offset' + Len(buffer') = Len(accepted')
    <3>1. buffer_offset + Len(buffer) = Len(accepted) /\ buffer_offset \in Nat
      BY DEF BufferIsWindow, TypeOK, PositionsOK
    <3>2. /\ Len(buffer') = Len(buffer) + Len(chunk)
          /\ Len(accepted') = Len(accepted) + Len(chunk)
      BY <2>4, <2>5
    <3>3. Len(buffer) \in Nat /\ Len(chunk) \in Nat /\ buffer_offset' = buffer_offset
      BY <2>1, <2>5
    <3>4. QED
      BY <3>1, <3>2, <3>3
  <2>7. buffer' = SubSeq(accepted', buffer_offset' + 1, Len(accepted'))
    BY <2>3, <2>5
  <2>8. QED
    BY <2>6, <2>7 DEF BufferIsWindow
<1>2. CASE EndScan
  <2>1. CASE CompactionDue
    <3>1. /\ buffer' = SubSeq(buffer, partial_row_start + 1, Len(buffer))
          /\ buffer_offset' = buffer_offset + partial_row_start
          /\ accepted' = accepted
      BY <1>2, <2>1 DEF EndScan, Compact, history
    <3>2. /\ accepted \in Seq(Byte) /\ buffer \in Seq(Byte)
          /\ buffer_offset \in Nat
          /\ partial_row_start \in 0..Len(buffer)
      BY DEF TypeOK, PositionsOK, BuffersOK
    <3>3. buffer' = SubSeq(accepted, buffer_offset' + 1, Len(accepted))
      BY <3>1, <3>2, SlideWindow DEF BufferIsWindow
    <3>4. Len(buffer') = Len(buffer) - partial_row_start
      BY <3>1, <3>2, SubSeqProperties
    <3>5. buffer_offset' + Len(buffer') = Len(accepted')
      <4>1. buffer_offset + Len(buffer) = Len(accepted)
        BY DEF BufferIsWindow
      <4>2. /\ Len(buffer) \in Nat
            /\ Len(accepted') = Len(accepted)
            /\ buffer_offset' = buffer_offset + partial_row_start
        BY <3>1, <3>2
      <4>3. QED
        BY <3>2, <3>4, <4>1, <4>2
    <3>6. QED
      BY <3>1, <3>3, <3>5 DEF BufferIsWindow
  <2>2. CASE ~CompactionDue
    BY <1>2, <2>2 DEF EndScan, BufferIsWindow, history
  <2>3. QED
    BY <2>1, <2>2
<1>3. CASE Finalize
  BY <1>3, SubSeqProperties DEF Finalize, BufferIsWindow
<1>4. ASSUME UNCHANGED <<buffer, buffer_offset, accepted>>
      PROVE  BufferIsWindow'
  BY <1>4 DEF BufferIsWindow
<1>5. CASE Iterate
  BY <1>4, <1>5 DEF Iterate, QuotedByte, QuotedEscape, OpeningEscape, Separator,
     LineFeed, CrLf, Data, Advance, EndRow, history
<1>6. CASE \E n \in 0..MaxInput - Len(accepted) : FeedOverflow(n)
  BY <1>4, <1>6 DEF FeedOverflow
<1>7. CASE \E max \in 0..Len(complete_rows) : NextRows(max)
  BY <1>4, <1>7 DEF NextRows
<1>8. CASE \E max \in Limits : SetMaxBuffer(max)
  BY <1>4, <1>8 DEF SetMaxBuffer
<1>9. CASE UNCHANGED vars
  BY <1>4, <1>9 DEF vars, history
<1>10. QED
  BY <1>1, <1>2, <1>3, <1>5, <1>6, <1>7, <1>8, <1>9 DEF Next

(* However chunks are cut and whenever the buffer is compacted, it holds   *)
(* exactly the end of what was fed, and buffer_offset says where it begins. *)
THEOREM WindowCorrect == Spec => []BufferIsWindow
<1>1. Init => BufferIsWindow
  BY SubSeqProperties DEF Init, BufferIsWindow
<1>2. TypeOK /\ BufferIsWindow /\ [Next]_vars => BufferIsWindow'
  BY NextWindow
<1>3. QED
  BY <1>1, <1>2, TypeCorrect, PTL DEF Spec

-----------------------------------------------------------------------------
(* The buffer's waste. *)

LEMMA NextCompacted ==
    ASSUME TypeOK, CompactedEnough, [Next]_vars
    PROVE  CompactedEnough'
<1>1. CASE EndScan
  BY <1>1, SubSeqProperties
     DEF EndScan, CompactionDue, Compact, CompactedEnough, TypeOK, PositionsOK, BuffersOK
<1>2. ASSUME pc' # "idle"
      PROVE  CompactedEnough'
  BY <1>2 DEF CompactedEnough, Idle
<1>3. ASSUME UNCHANGED <<buffer, partial_row_start, pc>>
      PROVE  CompactedEnough'
  BY <1>3 DEF CompactedEnough, Idle
<1>4. CASE Iterate
  BY <1>2, <1>4 DEF Iterate, QuotedByte, QuotedEscape, OpeningEscape, Separator,
     LineFeed, CrLf, Data, Scanning, Advance, EndRow
<1>5. CASE \E n \in 0..MaxInput - Len(accepted) :
              \/ \E chunk \in [1..n -> Byte] : Feed(chunk)
              \/ FeedOverflow(n)
  BY <1>2, <1>3, <1>5 DEF Feed, FeedOverflow
<1>6. CASE \E max \in 0..Len(complete_rows) : NextRows(max)
  BY <1>3, <1>6 DEF NextRows
<1>7. CASE Finalize
  BY <1>7 DEF Finalize, CompactedEnough
<1>8. CASE \E max \in Limits : SetMaxBuffer(max)
  BY <1>3, <1>8 DEF SetMaxBuffer
<1>9. CASE UNCHANGED vars
  BY <1>3, <1>9 DEF vars
<1>10. QED
  BY <1>1, <1>4, <1>5, <1>6, <1>7, <1>8, <1>9 DEF Next

(* After every call the rows already cut out fill less than half of the    *)
(* buffer, so its size is bounded by twice the row that is still open.     *)
THEOREM CompactionSuffices == Spec => []CompactedEnough
<1>1. Init => CompactedEnough
  BY DEF Init, CompactedEnough
<1>2. TypeOK /\ CompactedEnough /\ [Next]_vars => CompactedEnough'
  BY NextCompacted
<1>3. QED
  BY <1>1, <1>2, TypeCorrect, PTL DEF Spec

-----------------------------------------------------------------------------
(* The quote state as the parity of the escapes scanned. *)

LEMMA EscapeClass ==
    ASSUME NEW byte \in Byte
    PROVE  ByteClass(byte) = "escape" <=> byte = Escape
BY DEF ByteClass

(* The bytes at hand are bytes of the text. *)
LEMMA WindowByte ==
    ASSUME TypeOK, BufferIsWindow, NEW n \in 1..Len(buffer)
    PROVE  /\ buffer[n] = accepted[buffer_offset + n]
           /\ buffer[n] \in Byte
           /\ buffer_offset + n \in 1..Len(accepted)
<1>1. /\ buffer_offset \in 0..Len(accepted) /\ accepted \in Seq(Byte)
      /\ Len(buffer) = Len(accepted) - buffer_offset
  BY DEF TypeOK, PositionsOK, BuffersOK, BufferIsWindow
<1>2. \A i \in 1..Len(accepted) - buffer_offset :
         SubSeq(accepted, buffer_offset + 1, Len(accepted))[i] = accepted[buffer_offset + i]
  BY <1>1, SuffixProperties
<1>3. n \in 1..Len(accepted) - buffer_offset
  BY <1>1
<1>4. buffer = SubSeq(accepted, buffer_offset + 1, Len(accepted))
  BY DEF BufferIsWindow
<1>5. buffer[n] = accepted[buffer_offset + n]
  BY <1>2, <1>3, <1>4
<1>6. buffer_offset + n \in 1..Len(accepted)
  BY <1>1, <1>3
<1>7. accepted[buffer_offset + n] \in Byte
  BY <1>1, <1>6
<1>8. QED
  BY <1>5, <1>6, <1>7

LEMMA ScannedByte ==
    ASSUME TypeOK, BufferIsWindow, Scanning
    PROVE  /\ AbsolutePos + 1 \in 1..Len(accepted)
           /\ accepted[AbsolutePos + 1] \in Byte
           /\ Class = ByteClass(accepted[AbsolutePos + 1])
           /\ scan_pos + 1 < Len(buffer) =>
                 /\ AbsolutePos + 2 \in 1..Len(accepted)
                 /\ NextByte = accepted[AbsolutePos + 2]
<1>1. scan_pos \in Nat /\ buffer_offset \in Nat /\ scan_pos + 1 \in 1..Len(buffer)
  BY DEF Scanning, TypeOK, PositionsOK, BuffersOK
<1>2. /\ buffer[scan_pos + 1] = accepted[AbsolutePos + 1]
      /\ buffer[scan_pos + 1] \in Byte
      /\ AbsolutePos + 1 \in 1..Len(accepted)
  BY <1>1, WindowByte DEF AbsolutePos
<1>3. ASSUME scan_pos + 1 < Len(buffer)
      PROVE  /\ AbsolutePos + 2 \in 1..Len(accepted)
             /\ NextByte = accepted[AbsolutePos + 2]
  <2>1. scan_pos + 2 \in 1..Len(buffer)
    BY <1>1, <1>3 DEF TypeOK, BuffersOK
  <2>2. QED
    BY <1>1, <2>1, WindowByte DEF AbsolutePos, NextByte
<1>4. QED
  BY <1>2, <1>3 DEF Class

(* What an iteration does to the quotes is what the bytes it passes say. *)
LEMMA IterateParity ==
    ASSUME TypeOK, BufferIsWindow, QuoteIsParity, Iterate
    PROVE  QuoteIsParity'
<1> DEFINE at == AbsolutePos + 1
<1>1. /\ Scanning
      /\ accepted' = accepted /\ buffer_offset' = buffer_offset
      /\ accepted \in Seq(Byte) /\ at \in 1..Len(accepted)
      /\ buffer_offset \in Nat /\ scan_pos \in Nat
      /\ quote \in QuoteStates
  BY ScannedByte
     DEF Iterate, QuotedByte, QuotedEscape, OpeningEscape, Separator, LineFeed,
         CrLf, Data, Advance, EndRow, history, TypeOK, PositionsOK, BuffersOK, StatesOK
<1>2. Class = "escape" <=> accepted[at] = Escape
  BY <1>1, ScannedByte, EscapeClass
<1>3. Quoted(accepted, at + 1) =
          IF accepted[at] = Escape THEN ~Quoted(accepted, at) ELSE Quoted(accepted, at)
  BY <1>1, ParityStep
<1>4. quote.in_quotes = Quoted(accepted, at)
  BY DEF QuoteIsParity
<1>5. ASSUME scan_pos' = scan_pos + 1, quote'.in_quotes = Quoted(accepted, at + 1)
      PROVE  QuoteIsParity'
  <2>1. AbsolutePos' + 1 = at + 1
    BY <1>1, <1>5 DEF AbsolutePos
  <2>2. QED
    BY <1>1, <1>5, <2>1 DEF QuoteIsParity
<1>6. ASSUME scan_pos' = scan_pos + 2, quote'.in_quotes = Quoted(accepted, at + 2)
      PROVE  QuoteIsParity'
  <2>1. AbsolutePos' + 1 = at + 2
    BY <1>1, <1>6 DEF AbsolutePos
  <2>2. QED
    BY <1>1, <1>6, <2>1 DEF QuoteIsParity
<1>7. ASSUME scan_pos + 1 < Len(buffer)
      PROVE  /\ NextByte = accepted[at + 1]
             /\ Quoted(accepted, at + 2) =
                   IF NextByte = Escape THEN ~Quoted(accepted, at + 1)
                                        ELSE Quoted(accepted, at + 1)
  <2>1. at + 1 \in 1..Len(accepted) /\ NextByte = accepted[at + 1]
    BY <1>1, <1>7, ScannedByte DEF AbsolutePos
  <2>2. at + 1 + 1 = at + 2
    BY <1>1
  <2>3. QED
    BY <1>1, <2>1, <2>2, ParityStep
<1>8. CASE QuotedByte
  BY <1>2, <1>3, <1>4, <1>5, <1>8 DEF QuotedByte, Advance
<1>9. CASE QuotedEscape
  <2>1. scan_pos + 1 < Len(buffer)
    BY <1>9, LookaheadIsThere DEF QuotedEscape
  <2>2. CASE NextByte = Escape
    <3>1. quote' = quote /\ scan_pos' = scan_pos + 2
      BY <1>9, <2>2 DEF QuotedEscape, Advance, OnEscape
    <3>2. Quoted(accepted, at + 2) = Quoted(accepted, at)
      <4>1. Quoted(accepted, at) = TRUE
        BY <1>4, <1>9 DEF QuotedEscape, Quoted
      <4>2. accepted[at] = Escape
        BY <1>2, <1>9 DEF QuotedEscape
      <4>3. Quoted(accepted, at + 1) = FALSE
        BY <1>3, <4>1, <4>2
      <4>4. Quoted(accepted, at + 2) = TRUE
        BY <1>7, <2>1, <2>2, <4>3
      <4>5. QED
        BY <4>1, <4>4
    <3>3. QED
      BY <1>4, <1>6, <3>1, <3>2
  <2>3. CASE NextByte # Escape
    <3>1. quote'.in_quotes = FALSE /\ scan_pos' = scan_pos + 1
      BY <1>1, <1>9, <2>3 DEF QuotedEscape, Advance, OnEscape, QuoteStates
    <3>2. Quoted(accepted, at + 1) = FALSE
      BY <1>2, <1>3, <1>4, <1>9 DEF QuotedEscape
    <3>3. QED
      BY <1>5, <3>1, <3>2
  <2>4. QED
    BY <2>2, <2>3
<1>10. CASE OpeningEscape
  <2>1. quote'.in_quotes = TRUE /\ scan_pos' = scan_pos + 1
    BY <1>10 DEF OpeningEscape, Advance, OnEscape
  <2>2. Quoted(accepted, at + 1) = TRUE
    BY <1>2, <1>3, <1>4, <1>10 DEF OpeningEscape, Quoted
  <2>3. QED
    BY <1>5, <2>1, <2>2
<1>11. CASE Separator \/ LineFeed \/ Data
  <2>1. quote'.in_quotes = quote.in_quotes /\ scan_pos' = scan_pos + 1
    BY <1>1, <1>11
       DEF Separator, LineFeed, Data, Advance, EndRow, OnDelimiter, OnData, QuoteStates
  <2>2. Class # "escape"
    BY <1>11 DEF Separator, LineFeed, Data
  <2>3. QED
    BY <1>2, <1>3, <1>4, <1>5, <2>1, <2>2
<1>12. CASE CrLf
  <2>1. scan_pos + 1 < Len(buffer)
    BY <1>12, LookaheadIsThere DEF CrLf
  <2>2. quote'.in_quotes = quote.in_quotes /\ scan_pos' = scan_pos + 2
    BY <1>1, <1>12 DEF CrLf, EndRow, OnDelimiter, QuoteStates
  <2>3. Class # "escape" /\ NextByte # Escape
    BY <1>12, DialectAssumption DEF CrLf
  <2>4. QED
    BY <1>2, <1>3, <1>4, <1>6, <1>7, <2>1, <2>2, <2>3
<1>13. QED
  BY <1>8, <1>9, <1>10, <1>11, <1>12 DEF Iterate

LEMMA NextParity ==
    ASSUME TypeOK, BufferIsWindow, QuoteIsParity, [Next]_vars
    PROVE  QuoteIsParity'
<1>1. ASSUME UNCHANGED <<accepted, quote>>, AbsolutePos' = AbsolutePos
      PROVE  QuoteIsParity'
  BY <1>1 DEF QuoteIsParity
<1>2. ASSUME NEW n \in 0..MaxInput - Len(accepted), NEW chunk \in [1..n -> Byte],
             Feed(chunk)
      PROVE  QuoteIsParity'
  <2>1. accepted \in Seq(Byte) /\ chunk \in Seq(Byte)
    BY SizeAssumption DEF TypeOK, BuffersOK
  <2>2. AbsolutePos + 1 \in 1..Len(accepted) + 1
    BY DEF TypeOK, PositionsOK, BuffersOK, BufferIsWindow, AbsolutePos
  <2>3. Quoted(accepted \o chunk, AbsolutePos + 1) = Quoted(accepted, AbsolutePos + 1)
    BY <2>1, <2>2, ParityPrefix
  <2>4. /\ accepted' = accepted \o chunk /\ quote' = quote
        /\ AbsolutePos' = AbsolutePos
    BY <1>2 DEF Feed, AbsolutePos
  <2>5. QED
    BY <2>3, <2>4 DEF QuoteIsParity
<1>3. CASE EndScan
  BY <1>1, <1>3 DEF EndScan, Compact, AbsolutePos, TypeOK, PositionsOK, history
<1>4. CASE Finalize
  <2>1. AbsolutePos' + 1 = 1 /\ accepted' = <<>> /\ quote'.in_quotes = FALSE
    BY <1>4 DEF Finalize, AbsolutePos, NewQuote
  <2>2. Quoted(<<>>, 1) = FALSE
    BY ParityEmpty DEF Quoted
  <2>3. QED
    BY <2>1, <2>2 DEF QuoteIsParity
<1>5. CASE Iterate
  BY <1>5, IterateParity
<1>6. CASE \E n \in 0..MaxInput - Len(accepted) : FeedOverflow(n)
  BY <1>1, <1>6 DEF FeedOverflow, AbsolutePos
<1>7. CASE \E max \in 0..Len(complete_rows) : NextRows(max)
  BY <1>1, <1>7 DEF NextRows, AbsolutePos
<1>8. CASE \E max \in Limits : SetMaxBuffer(max)
  BY <1>1, <1>8 DEF SetMaxBuffer, AbsolutePos
<1>9. CASE UNCHANGED vars
  BY <1>1, <1>9 DEF vars, history, AbsolutePos
<1>10. QED
  BY <1>2, <1>3, <1>4, <1>5, <1>6, <1>7, <1>8, <1>9 DEF Next

(* The quote state a parser carries from chunk to chunk is that of the     *)
(* whole text up to the scan position, wherever the chunks were cut, so    *)
(* that a doubled escape or a quoted newline may straddle two chunks.      *)
THEOREM QuotesCorrect == Spec => []QuoteIsParity
<1>1. Init => QuoteIsParity
  <2>1. ASSUME Init
        PROVE  AbsolutePos + 1 = 1 /\ accepted = <<>> /\ quote.in_quotes = FALSE
    BY <2>1 DEF Init, AbsolutePos, NewQuote
  <2>2. Quoted(<<>>, 1) = FALSE
    BY ParityEmpty DEF Quoted
  <2>3. QED
    BY <2>1, <2>2 DEF QuoteIsParity
<1>2. TypeOK /\ BufferIsWindow /\ QuoteIsParity /\ [Next]_vars => QuoteIsParity'
  BY NextParity
<1>3. QED
  BY <1>1, <1>2, TypeCorrect, WindowCorrect, PTL DEF Spec

-----------------------------------------------------------------------------
(* Row ends of a text. *)

(* The row ends up to a byte can be counted.                              *)
LEMMA EndsFinite ==
    ASSUME NEW s \in Seq(Byte), NEW n \in Nat
    PROVE  /\ IsFiniteSet(EndsUpTo(s, n))
           /\ Cardinality(EndsUpTo(s, n)) \in Nat
           /\ EndsUpTo(s, n) \subseteq 1..n
<1>1. EndsUpTo(s, n) \subseteq 1..n
  BY DEF EndsUpTo, RowEnds
<1>2. IsFiniteSet(1..n)
  BY FS_Interval
<1>3. IsFiniteSet(EndsUpTo(s, n))
  BY <1>1, <1>2, FS_Subset
<1>4. QED
  BY <1>1, <1>3, FS_CardinalityType

(* The rank of a row end. *)
LEMMA EndsRank ==
    ASSUME NEW s \in Seq(Byte), NEW n \in Nat, NEW last \in EndsUpTo(s, n)
    PROVE  /\ last \in 1..n
           /\ Cardinality(EndsUpTo(s, last)) \in 1..Cardinality(EndsUpTo(s, n))
<1>1. last \in 1..n /\ last \in EndsUpTo(s, last)
  BY DEF EndsUpTo, RowEnds
<1>2. EndsUpTo(s, last) \subseteq EndsUpTo(s, n)
  BY <1>1 DEF EndsUpTo, RowEnds
<1>3. /\ IsFiniteSet(EndsUpTo(s, n)) /\ IsFiniteSet(EndsUpTo(s, last))
      /\ Cardinality(EndsUpTo(s, n)) \in Nat /\ Cardinality(EndsUpTo(s, last)) \in Nat
  BY <1>1, EndsFinite
<1>4. Cardinality(EndsUpTo(s, last)) <= Cardinality(EndsUpTo(s, n))
  BY <1>2, <1>3, FS_Subset
<1>5. Cardinality(EndsUpTo(s, last)) # 0
  BY <1>1, <1>3, FS_EmptySet
<1>6. QED
  BY <1>1, <1>3, <1>4, <1>5

(* What is appended does not change the row ends before it. *)
LEMMA EndsPrefix ==
    ASSUME NEW s \in Seq(Byte), NEW c \in Seq(Byte), NEW n \in 0..Len(s)
    PROVE  EndsUpTo(s \o c, n) = EndsUpTo(s, n)
<1>1. /\ s \o c \in Seq(Byte)
      /\ Len(s \o c) = Len(s) + Len(c)
      /\ \A i \in 1..Len(s) : (s \o c)[i] = s[i]
  BY ConcatProperties
<1>2. \A i \in 1..Len(s) : Quoted(s \o c, i) = Quoted(s, i)
  BY ParityPrefix
<1>3. QED
  BY <1>1, <1>2 DEF EndsUpTo, RowEnds

-----------------------------------------------------------------------------
(* Rows cut out of a text. *)

(* Rows cut from a text are cut from every longer text.                   *)
LEMMA CutsPrefix ==
    ASSUME NEW s \in Seq(Byte), NEW c \in Seq(Byte), NEW n \in 0..Len(s),
           NEW lines, CutsRows(lines, s, n)
    PROVE  CutsRows(lines, s \o c, n)
<1>1. EndsUpTo(s \o c, n) = EndsUpTo(s, n)
  BY EndsPrefix
<1>2. ASSUME NEW first \in 0..n, NEW last \in EndsUpTo(s, n), Adjacent(s \o c, first, last)
      PROVE  lines[Cardinality(EndsUpTo(s \o c, last))] = LineAt(s \o c, first + 1, last)
  <2>1. last \in 1..Len(s) /\ first \in 0..Len(s) /\ first < last
    BY <1>2, EndsRank DEF Adjacent
  <2>2. EndsUpTo(s \o c, last) = EndsUpTo(s, last)
    BY <2>1, EndsPrefix
  <2>3. \A i \in 0..Len(s) : i \in RowEnds(s \o c) <=> i \in RowEnds(s)
    <3>1. EndsUpTo(s \o c, Len(s)) = EndsUpTo(s, Len(s))
      BY EndsPrefix
    <3>2. QED
      BY <3>1 DEF EndsUpTo
  <2>4. RowEnds(s) \subseteq 0..Len(s)
    BY DEF RowEnds
  <2>5. Adjacent(s, first, last)
    BY <1>2, <2>1, <2>3, <2>4 DEF Adjacent
  <2>6. LineAt(s \o c, first + 1, last) = LineAt(s, first + 1, last)
    BY <2>1, LinePrefix
  <2>7. QED
    BY <1>2, <2>2, <2>5, <2>6 DEF CutsRows
<1>3. QED
  BY <1>1, <1>2 DEF CutsRows

(* Bytes that end no row do not change the rows cut so far. *)
LEMMA CutsNone ==
    ASSUME NEW s \in Seq(Byte), NEW m \in Nat, NEW n \in Nat, m <= n,
           EndsUpTo(s, n) = EndsUpTo(s, m),
           NEW lines, CutsRows(lines, s, m)
    PROVE  CutsRows(lines, s, n)
<1>1. ASSUME NEW first \in 0..n, NEW last \in EndsUpTo(s, m), Adjacent(s, first, last)
      PROVE  lines[Cardinality(EndsUpTo(s, last))] = LineAt(s, first + 1, last)
  <2>1. first \in 0..m
    BY <1>1, EndsRank DEF Adjacent
  <2>2. QED
    BY <1>1, <2>1 DEF CutsRows
<1>2. QED
  BY <1>1 DEF CutsRows

(* A row end adds the line from the last row end to it. *)
LEMMA CutsOne ==
    ASSUME NEW s \in Seq(Byte), NEW m \in Nat, NEW n \in Nat,
           NEW start \in {0} \cup RowEnds(s), start <= m,
           \A i \in EndsUpTo(s, m) : i <= start,
           NEW end \in RowEnds(s), m < end, end <= n,
           EndsUpTo(s, n) = EndsUpTo(s, m) \cup {end},
           NEW lines \in Seq(Seq(Byte)), CutsRows(lines, s, m),
           LineAt(s, start + 1, end) \in Seq(Byte)
    PROVE  CutsRows(Append(lines, LineAt(s, start + 1, end)), s, n)
<1> DEFINE line == LineAt(s, start + 1, end)
           more == Append(lines, line)
<1>1. end \notin EndsUpTo(s, m) /\ end \in 1..n
  BY EndsFinite DEF EndsUpTo, RowEnds
<1>2. Cardinality(EndsUpTo(s, n)) = Cardinality(EndsUpTo(s, m)) + 1
  BY <1>1, EndsFinite, FS_AddElement
<1>3. Len(lines) = Cardinality(EndsUpTo(s, m))
  BY DEF CutsRows
<1>4. /\ Len(more) = Len(lines) + 1
      /\ \A i \in 1..Len(lines) : more[i] = lines[i]
      /\ more[Len(lines) + 1] = line
  BY AppendProperties
<1>5. ASSUME NEW first \in 0..n, NEW last \in EndsUpTo(s, n), Adjacent(s, first, last)
      PROVE  more[Cardinality(EndsUpTo(s, last))] = LineAt(s, first + 1, last)
  <2>1. CASE last \in EndsUpTo(s, m)
    <3>1. first \in 0..m
      BY <1>5, <2>1, EndsRank DEF Adjacent
    <3>2. Cardinality(EndsUpTo(s, last)) \in 1..Len(lines)
      BY <1>3, <2>1, EndsRank
    <3>3. QED
      BY <1>4, <1>5, <2>1, <3>1, <3>2 DEF CutsRows
  <2>2. CASE last = end
    <3>1. EndsUpTo(s, end) = EndsUpTo(s, n)
      <4>1. \A i \in EndsUpTo(s, n) : i \in RowEnds(s) /\ i <= end
        BY <1>1 DEF EndsUpTo, RowEnds
      <4>2. \A i \in EndsUpTo(s, end) : i \in RowEnds(s) /\ i <= n
        BY <1>1 DEF EndsUpTo, RowEnds
      <4>3. QED
        BY <4>1, <4>2 DEF EndsUpTo
    <3>2. \A i \in RowEnds(s) : i < end => i <= start
      <4>1. ASSUME NEW i \in RowEnds(s), i < end
            PROVE  i <= start
        <5>1. i \in EndsUpTo(s, n) /\ i # end
          BY <1>1, <4>1 DEF EndsUpTo, RowEnds
        <5>2. QED
          BY <5>1
      <4>2. QED
        BY <4>1
    <3>3. first <= start
      <4>1. first = 0 \/ first \in RowEnds(s)
        BY <1>5 DEF Adjacent
      <4>2. first < end /\ start \in Nat
        BY <1>5, <2>2 DEF Adjacent, RowEnds
      <4>3. QED
        BY <3>2, <4>1, <4>2
    <3>4. start <= first
      <4>1. start < end /\ start \in Nat
        BY <1>1 DEF RowEnds
      <4>2. start \in RowEnds(s) => start <= first \/ end <= start
        BY <1>5, <2>2 DEF Adjacent
      <4>3. QED
        BY <1>1, <4>1, <4>2
    <3>5. first = start
      BY <3>3, <3>4 DEF RowEnds
    <3>6. QED
      BY <1>2, <1>3, <1>4, <2>2, <3>1, <3>5
  <2>3. QED
    BY <2>1, <2>2
<1>6. Len(more) = Cardinality(EndsUpTo(s, n))
  BY <1>2, <1>3, <1>4
<1>7. QED
  BY <1>5, <1>6 DEF CutsRows

-----------------------------------------------------------------------------
(* Iterations of the scan. *)

Known == TypeOK /\ BufferIsWindow /\ QuoteIsParity /\ ScanCutsRows

(* The types, and the quotes, that the proofs below start from.           *)
LEMMA KnownTypes ==
    ASSUME Known
    PROVE  /\ accepted \in Seq(Byte) /\ buffer \in Seq(Byte)
           /\ taken \in Seq(Seq(Byte)) /\ complete_rows \in Seq(Seq(Byte))
           /\ taken \o complete_rows \in Seq(Seq(Byte))
           /\ buffer_offset \in Nat /\ partial_row_start \in Nat /\ scan_pos \in Nat
           /\ AbsolutePos \in 0..Len(accepted)
           /\ RowStart \in 0..AbsolutePos
           /\ quote \in QuoteStates
           /\ quote.in_quotes = Quoted(accepted, AbsolutePos + 1)
<1>1. /\ accepted \in Seq(Byte) /\ buffer \in Seq(Byte)
      /\ taken \in Seq(Seq(Byte)) /\ complete_rows \in Seq(Seq(Byte))
      /\ buffer_offset \in Nat /\ partial_row_start \in Nat /\ scan_pos \in Nat
      /\ partial_row_start <= scan_pos /\ scan_pos <= Len(buffer)
      /\ quote \in QuoteStates
  BY DEF Known, TypeOK, PositionsOK, BuffersOK, StatesOK
<1>2. buffer_offset + Len(buffer) = Len(accepted)
  BY DEF Known, BufferIsWindow
<1>3. quote.in_quotes = Quoted(accepted, AbsolutePos + 1)
  BY DEF Known, QuoteIsParity
<1>4. AbsolutePos \in 0..Len(accepted) /\ RowStart \in 0..AbsolutePos
  BY <1>1, <1>2 DEF AbsolutePos, RowStart
<1>5. taken \o complete_rows \in Seq(Seq(Byte))
  BY <1>1, ConcatProperties
<1>6. QED
  BY <1>1, <1>3, <1>4, <1>5

(* A part of the buffer is a part of the text. *)
LEMMA WindowSlice ==
    ASSUME TypeOK, BufferIsWindow, NEW a \in Nat, NEW b \in a..Len(buffer)
    PROVE  /\ SubSeq(buffer, a + 1, b)
                = SubSeq(accepted, buffer_offset + a + 1, buffer_offset + b)
           /\ SubSeq(buffer, a + 1, b) \in Seq(Byte)
<1>1. /\ accepted \in Seq(Byte) /\ buffer \in Seq(Byte) /\ buffer_offset \in Nat
      /\ Len(buffer) = Len(accepted) - buffer_offset
      /\ buffer = SubSeq(accepted, buffer_offset + 1, Len(accepted))
  BY DEF TypeOK, PositionsOK, BuffersOK, BufferIsWindow
<1>2. SubSeq(buffer, a + 1, b) \in Seq(Byte)
  BY <1>1, SubSeqProperties
<1>3. CASE a = b
  BY <1>1, <1>2, <1>3, SubSeqEmpty
<1>4. CASE a < b
  <2> DEFINE i == buffer_offset + 1
             j == Len(accepted)
  <2>1. /\ i \in 1..Len(accepted) /\ j \in 1..Len(accepted)
        /\ a + 1 \in 1..j - i + 1 /\ b \in 1..j - i + 1
        /\ i + (a + 1) - 1 = buffer_offset + a + 1
        /\ i + b - 1 = buffer_offset + b
    BY <1>1, <1>4
  <2>2. buffer = SubSeq(accepted, i, j)
    BY <1>1
  <2> HIDE DEF i, j
  <2>3. SubSeq(SubSeq(accepted, i, j), a + 1, b) = SubSeq(accepted, i + (a + 1) - 1, i + b - 1)
    BY <1>1, <2>1, SubSeqOfSubSeq
  <2>4. QED
    BY <1>2, <2>1, <2>2, <2>3
<1>5. a = b \/ a < b
  BY <1>1
<1>6. QED
  BY <1>3, <1>4, <1>5

(* An iteration over bytes that end no row. *)
LEMMA PassCuts ==
    ASSUME Known, Scanning, NEW n \in 1..2, NEW q, Advance(q, n),
           \A i \in AbsolutePos + 1..AbsolutePos + n : i \notin RowEnds(accepted),
           accepted[AbsolutePos + n] = CR /\ ~q.in_quotes =>
               AbsolutePos + n < Len(accepted) /\ accepted[AbsolutePos + n + 1] # LF
    PROVE  ScanCutsRows'
<1>1. /\ AbsolutePos' = AbsolutePos + n /\ RowStart' = RowStart
      /\ accepted' = accepted /\ quote' = q /\ pc' = "scanning"
      /\ taken' = taken /\ complete_rows' = complete_rows
  BY KnownTypes DEF Advance, Scanning, AbsolutePos, RowStart, history
<1>2. EndsUpTo(accepted, AbsolutePos + n) = EndsUpTo(accepted, AbsolutePos)
  <2>1. AbsolutePos \in Nat /\ \A i \in RowEnds(accepted) : i \in Nat
    BY KnownTypes DEF RowEnds
  <2>2. \A i \in RowEnds(accepted) : i <= AbsolutePos + n <=> i <= AbsolutePos
    BY <2>1
  <2>3. QED
    BY <2>2 DEF EndsUpTo
<1>3. RowsCutSoFar'
  <2>1. CutsRows(taken \o complete_rows, accepted, AbsolutePos + n)
    BY <1>2, KnownTypes, CutsNone DEF Known, ScanCutsRows, RowsCutSoFar
  <2>2. QED
    BY <1>1, <2>1 DEF RowsCutSoFar
<1>4. RowStartIsLastEnd'
  BY <1>1, <1>2 DEF Known, ScanCutsRows, RowStartIsLastEnd
<1>5. CrLfTogether'
  BY <1>1 DEF CrLfTogether
<1>6. AllEndsFound'
  BY <1>1 DEF AllEndsFound, Idle
<1>7. QED
  BY <1>3, <1>4, <1>5, <1>6 DEF ScanCutsRows

(* An iteration that ends a row with a newline of n bytes. *)
LEMMA EndRowCuts ==
    ASSUME Known, Scanning, NEW n \in 1..2, EndRow(n), ~quote.in_quotes,
           AbsolutePos + n \in RowEnds(accepted),
           n = 2 => accepted[AbsolutePos + 1] = CR,
           n = 1 => accepted[AbsolutePos + 1] = LF
    PROVE  ScanCutsRows'
<1> DEFINE end == AbsolutePos + n
           line == SubSeq(accepted, RowStart + 1, AbsolutePos)
           lines == taken \o complete_rows
<1>1. /\ AbsolutePos' = end /\ RowStart' = end
      /\ accepted' = accepted /\ pc' = "scanning"
      /\ taken' = taken
      /\ complete_rows' = Append(complete_rows, RowLine(partial_row_start, scan_pos))
  BY KnownTypes DEF EndRow, Scanning, AbsolutePos, RowStart, history
<1>2. RowLine(partial_row_start, scan_pos) = line /\ line \in Seq(Byte)
  <2>1. scan_pos \in partial_row_start..Len(buffer) /\ partial_row_start \in Nat
    BY DEF Known, TypeOK, PositionsOK, BuffersOK
  <2>2. QED
    BY <2>1, KnownTypes, WindowSlice DEF Known, RowLine, RowStart, AbsolutePos
<1>3. LineAt(accepted, RowStart + 1, end) = line
  <2>1. CASE n = 1
    <3>1. end > RowStart + 1 => accepted[end - 1] # CR
      BY <2>1, KnownTypes DEF Known, ScanCutsRows, CrLfTogether
    <3>2. end - 1 = AbsolutePos
      BY <2>1, KnownTypes
    <3>3. QED
      BY <3>1, <3>2 DEF LineAt
  <2>2. CASE n = 2
    <3>1. end > RowStart + 1 /\ accepted[end - 1] = CR /\ end - 2 = AbsolutePos
      BY <2>2, KnownTypes
    <3>2. QED
      BY <3>1 DEF LineAt
  <2>3. QED
    BY <2>1, <2>2
<1>4. /\ accepted[end] = LF
      /\ end \in 1..Len(accepted)
  BY DEF RowEnds
<1>5. EndsUpTo(accepted, end) = EndsUpTo(accepted, AbsolutePos) \cup {end}
  <2>1. n = 2 => AbsolutePos + 1 \notin RowEnds(accepted)
    BY ByteAssumption DEF RowEnds
  <2>2. AbsolutePos \in Nat /\ \A i \in RowEnds(accepted) : i \in Nat
    BY KnownTypes DEF RowEnds
  <2>3. \A i \in RowEnds(accepted) : i <= end <=> i <= AbsolutePos \/ i = end
    <3>1. \A i \in RowEnds(accepted) : i = AbsolutePos + 1 => i = end
      BY <2>1, <2>2
    <3>2. QED
      BY <2>2, <3>1
  <2>4. QED
    BY <2>3 DEF EndsUpTo
<1>6. RowStart \in {0} \cup RowEnds(accepted)
      /\ \A i \in EndsUpTo(accepted, AbsolutePos) : i <= RowStart
  BY DEF Known, ScanCutsRows, RowStartIsLastEnd
<1>7. taken' \o complete_rows' = Append(lines, line)
  <2>1. Append(complete_rows, line) = complete_rows \o <<line>>
    BY <1>2, KnownTypes, AppendIsConcat
  <2>2. Append(lines, line) = lines \o <<line>>
    BY <1>2, KnownTypes, AppendIsConcat
  <2>3. /\ <<line>> \in Seq(Seq(Byte))
        /\ taken \in Seq(Seq(Byte)) /\ complete_rows \in Seq(Seq(Byte))
    BY <1>2, KnownTypes
  <2> HIDE DEF line
  <2>4. taken \o (complete_rows \o <<line>>) = lines \o <<line>>
    BY <2>3, ConcatAssociative
  <2>5. QED
    BY <1>1, <1>2, <2>1, <2>2, <2>4
<1>8. CutsRows(Append(lines, line), accepted, end)
  <2>1. /\ AbsolutePos \in Nat /\ end \in Nat /\ AbsolutePos < end /\ end <= end
        /\ RowStart <= AbsolutePos
        /\ lines \in Seq(Seq(Byte)) /\ accepted \in Seq(Byte)
    BY KnownTypes, SMTT(30)
  <2>2. CutsRows(lines, accepted, AbsolutePos)
    BY DEF Known, ScanCutsRows, RowsCutSoFar
  <2>3. LineAt(accepted, RowStart + 1, end) \in Seq(Byte)
    BY <1>2, <1>3
  <2> HIDE DEF end, lines
  <2>4. CutsRows(Append(lines, LineAt(accepted, RowStart + 1, end)), accepted, end)
    BY <1>5, <1>6, <2>1, <2>2, <2>3, CutsOne DEF end
  <2>5. QED
    BY <1>3, <2>4
<1>9. RowsCutSoFar'
  BY <1>1, <1>7, <1>8 DEF RowsCutSoFar
<1>10. RowStartIsLastEnd'
  BY <1>1 DEF RowStartIsLastEnd, EndsUpTo
<1>11. CrLfTogether'
  BY <1>1, <1>4, ByteAssumption DEF CrLfTogether
<1>12. AllEndsFound'
  BY <1>1 DEF AllEndsFound, Idle
<1>13. QED
  BY <1>9, <1>10, <1>11, <1>12 DEF ScanCutsRows

(* The roles of a byte. *)
LEMMA Roles ==
    ASSUME NEW byte \in Byte
    PROVE  /\ ByteClass(byte) = "lf" <=> byte = LF
           /\ ByteClass(byte) = "cr" <=> byte = CR
           /\ ByteClass(byte) = "separator" => byte \notin {LF, CR}
           /\ ByteClass(byte) = "data" => byte \notin {LF, CR}
BY ByteAssumption, DialectAssumption DEF ByteClass, IsSeparator

(* Each iteration of scan keeps the rows.                                 *)
LEMMA IterateCuts ==
    ASSUME Known, Iterate
    PROVE  ScanCutsRows'
<1> DEFINE at == AbsolutePos + 1
<1>1. /\ Scanning /\ TypeOK /\ BufferIsWindow
      /\ accepted \in Seq(Byte) /\ AbsolutePos \in Nat
      /\ at \in 1..Len(accepted)
      /\ accepted[at] \in Byte /\ Class = ByteClass(accepted[at])
      /\ quote.in_quotes = Quoted(accepted, at)
      /\ quote \in QuoteStates
  <2>1. TypeOK /\ BufferIsWindow
    BY DEF Known
  <2>2. Scanning
    BY DEF Iterate, QuotedByte, QuotedEscape, OpeningEscape, Separator,
           LineFeed, CrLf, Data
  <2>3. QED
    BY <2>1, <2>2, KnownTypes, ScannedByte
<1>2. at \in RowEnds(accepted) <=> accepted[at] = LF /\ ~quote.in_quotes
  BY <1>1 DEF RowEnds
<1>3. ASSUME scan_pos + 1 < Len(buffer)
      PROVE  /\ at + 1 \in 1..Len(accepted) /\ NextByte = accepted[at + 1]
             /\ at + 1 = AbsolutePos + 2
  BY <1>1, <1>3, ScannedByte
<1>4. ASSUME NEW q, Advance(q, 1), at \notin RowEnds(accepted),
             accepted[at] = CR /\ ~q.in_quotes =>
                 at < Len(accepted) /\ accepted[at + 1] # LF
      PROVE  ScanCutsRows'
  <2>1. \A i \in AbsolutePos + 1..AbsolutePos + 1 : i \notin RowEnds(accepted)
    BY <1>1, <1>4
  <2>2. QED
    BY <1>1, <1>4, <2>1, PassCuts
<1>5. CASE QuotedByte
  BY <1>2, <1>4, <1>5 DEF QuotedByte
<1>6. CASE QuotedEscape
  <2>1. scan_pos + 1 < Len(buffer) /\ accepted[at] = Escape /\ quote.in_quotes
    BY <1>1, <1>6, LookaheadIsThere, EscapeClass DEF QuotedEscape
  <2>2. CASE NextByte = Escape
    <3> DEFINE q == OnEscape(quote, AbsolutePos, NextByte = Escape)
    <3>1. Advance(q, 2)
      BY <1>6, <2>2 DEF QuotedEscape
    <3>2. accepted[at + 1] = Escape
      BY <1>3, <2>1, <2>2
    <3>3. at \notin RowEnds(accepted) /\ at + 1 \notin RowEnds(accepted)
      BY <2>1, <3>2, DialectAssumption DEF RowEnds
    <3>4. \A i \in AbsolutePos + 1..AbsolutePos + 2 : i \notin RowEnds(accepted)
      BY <1>1, <3>3
    <3>5. accepted[AbsolutePos + 2] # CR
      BY <1>3, <2>1, <3>2, DialectAssumption
    <3> HIDE DEF q
    <3>6. QED
      BY <1>1, <3>1, <3>4, <3>5, PassCuts
  <2>3. CASE NextByte # Escape
    <3>1. Advance(OnEscape(quote, AbsolutePos, NextByte = Escape), 1)
      BY <1>6, <2>3 DEF QuotedEscape
    <3>2. accepted[at] # LF /\ accepted[at] # CR
      BY <2>1, DialectAssumption
    <3>3. QED
      BY <1>2, <1>4, <3>1, <3>2
  <2>4. QED
    BY <2>2, <2>3
<1>7. CASE OpeningEscape
  <2>1. Advance(OnEscape(quote, AbsolutePos, FALSE), 1) /\ accepted[at] = Escape
    BY <1>1, <1>7, EscapeClass DEF OpeningEscape
  <2>2. accepted[at] # LF /\ accepted[at] # CR
    BY <2>1, DialectAssumption
  <2>3. QED
    BY <1>2, <1>4, <2>1, <2>2
<1>8. CASE Separator
  <2>1. Advance(OnDelimiter(quote), 1) /\ accepted[at] \notin {LF, CR}
    BY <1>1, <1>8, Roles DEF Separator
  <2>2. QED
    BY <1>2, <1>4, <2>1
<1>9. CASE LineFeed
  <2>1. EndRow(1) /\ ~quote.in_quotes /\ accepted[at] = LF
    BY <1>1, <1>9, Roles DEF LineFeed
  <2>2. at \in RowEnds(accepted)
    BY <1>2, <2>1
  <2>3. QED
    BY <1>1, <2>1, <2>2, EndRowCuts
<1>10. CASE CrLf
  <2>1. EndRow(2) /\ ~quote.in_quotes /\ accepted[at] = CR /\ NextByte = LF
    BY <1>1, <1>10, Roles DEF CrLf
  <2>2. at + 1 \in 1..Len(accepted) /\ accepted[at + 1] = LF /\ at + 1 = AbsolutePos + 2
    BY <1>1, <1>3, <1>10, <2>1, LookaheadIsThere DEF CrLf
  <2>3. ~Quoted(accepted, at + 1)
    <3>1. accepted[at] # Escape
      BY <2>1, DialectAssumption
    <3>2. Quoted(accepted, at + 1) = Quoted(accepted, at)
      BY <1>1, <3>1, ParityStep
    <3>3. QED
      BY <1>1, <2>1, <3>2
  <2>4. AbsolutePos + 2 \in RowEnds(accepted)
    BY <2>2, <2>3 DEF RowEnds
  <2>5. QED
    BY <1>1, <2>1, <2>4, EndRowCuts
<1>11. CASE Data
  <2> DEFINE q == OnData(quote, AbsolutePos)
  <2>1. Advance(q, 1) /\ accepted[at] # LF
    BY <1>1, <1>11, Roles, ByteAssumption DEF Data
  <2>2. accepted[at] = CR => at < Len(accepted) /\ accepted[at + 1] # LF
    <3>1. SUFFICES ASSUME accepted[at] = CR
                   PROVE  at < Len(accepted) /\ accepted[at + 1] # LF
      OBVIOUS
    <3>2. Class = "cr" /\ ~quote.in_quotes /\ Class # "data"
      BY <1>1, <1>11, <3>1, Roles DEF Data
    <3>3. scan_pos + 1 < Len(buffer) /\ NextByte # LF
      BY <1>1, <1>11, <3>2, LookaheadIsThere DEF Data
    <3>4. QED
      BY <1>1, <1>3, <3>3
  <2> HIDE DEF q
  <2>3. QED
    BY <1>2, <1>4, <2>1, <2>2
<1>12. QED
  BY <1>5, <1>6, <1>7, <1>8, <1>9, <1>10, <1>11 DEF Iterate

-----------------------------------------------------------------------------
(* The other steps. *)

(* feed keeps the rows.                                                   *)
LEMMA FeedCuts ==
    ASSUME Known, NEW chunk \in Seq(Byte), Feed(chunk)
    PROVE  ScanCutsRows'
<1>1. /\ accepted' = accepted \o chunk /\ pc' = "scanning"
      /\ taken' = taken /\ complete_rows' = complete_rows /\ quote' = quote
      /\ AbsolutePos' = AbsolutePos /\ RowStart' = RowStart
  BY DEF Feed, AbsolutePos, RowStart
<1>2. /\ accepted \in Seq(Byte) /\ AbsolutePos \in 0..Len(accepted)
      /\ accepted \o chunk \in Seq(Byte)
      /\ Len(accepted \o chunk) = Len(accepted) + Len(chunk)
      /\ \A i \in 1..Len(accepted) : (accepted \o chunk)[i] = accepted[i]
  BY KnownTypes, ConcatProperties
<1>3. RowsCutSoFar'
  <2>1. CutsRows(taken \o complete_rows, accepted, AbsolutePos)
    BY DEF Known, ScanCutsRows, RowsCutSoFar
  <2>2. CutsRows(taken \o complete_rows, accepted \o chunk, AbsolutePos)
    BY <1>2, <2>1, CutsPrefix
  <2>3. QED
    BY <1>1, <2>2 DEF RowsCutSoFar
<1>4. EndsUpTo(accepted \o chunk, AbsolutePos) = EndsUpTo(accepted, AbsolutePos)
  BY <1>2, EndsPrefix
<1>5. RowStartIsLastEnd'
  <2>1. /\ RowStart \in {0} \cup RowEnds(accepted)
        /\ \A i \in EndsUpTo(accepted, AbsolutePos) : i <= RowStart
    BY DEF Known, ScanCutsRows, RowStartIsLastEnd
  <2>2. RowStart \in RowEnds(accepted) => RowStart \in EndsUpTo(accepted, AbsolutePos)
    BY KnownTypes DEF EndsUpTo
  <2>3. RowStart \in {0} \cup RowEnds(accepted \o chunk)
    BY <1>4, <2>1, <2>2 DEF EndsUpTo
  <2>4. QED
    BY <1>1, <1>4, <2>1, <2>3 DEF RowStartIsLastEnd
<1>6. CrLfTogether'
  <2>1. SUFFICES ASSUME AbsolutePos > 0, (accepted \o chunk)[AbsolutePos] = CR,
                        ~quote.in_quotes
                 PROVE  /\ AbsolutePos < Len(accepted \o chunk)
                        /\ (accepted \o chunk)[AbsolutePos + 1] # LF
    BY <1>1 DEF CrLfTogether
  <2>2. accepted[AbsolutePos] = CR
    BY <1>2, <2>1
  <2>3. AbsolutePos < Len(accepted) /\ accepted[AbsolutePos + 1] # LF
    BY <2>1, <2>2 DEF Known, ScanCutsRows, CrLfTogether
  <2>4. QED
    BY <1>2, <2>3
<1>7. AllEndsFound'
  BY <1>1 DEF AllEndsFound, Idle
<1>8. QED
  BY <1>3, <1>5, <1>6, <1>7 DEF ScanCutsRows

(* A scan leaves no row end behind: the byte that waits is no line feed. *)
LEMMA EndScanCuts ==
    ASSUME Known, EndScan
    PROVE  ScanCutsRows'
<1>1. /\ accepted' = accepted /\ quote' = quote
      /\ taken' = taken /\ complete_rows' = complete_rows
      /\ AbsolutePos' = AbsolutePos /\ RowStart' = RowStart
  BY KnownTypes, SMTT(30) DEF EndScan, Compact, AbsolutePos, RowStart, history
<1>2. RowsCutSoFar' /\ RowStartIsLastEnd' /\ CrLfTogether'
  BY <1>1 DEF Known, ScanCutsRows, RowsCutSoFar, RowStartIsLastEnd, CrLfTogether
<1>3. /\ scan_pos \in Nat /\ scan_pos <= Len(buffer) /\ buffer_offset \in Nat
      /\ Len(buffer) \in Nat /\ buffer_offset + Len(buffer) = Len(accepted)
      /\ Len(accepted) \in Nat /\ TypeOK /\ BufferIsWindow
  BY DEF Known, TypeOK, PositionsOK, BuffersOK, BufferIsWindow
<1>4. \A i \in RowEnds(accepted) : i <= AbsolutePos
  <2>1. CASE scan_pos >= Len(buffer)
    <3>1. AbsolutePos = Len(accepted)
      BY <1>3, <2>1 DEF AbsolutePos
    <3>2. QED
      BY <1>3, <3>1 DEF RowEnds
  <2>2. CASE Waiting
    <3>1. AbsolutePos + 1 = Len(accepted) /\ scan_pos + 1 \in 1..Len(buffer)
      BY <1>3, <2>2 DEF Waiting, AbsolutePos
    <3>2. /\ buffer[scan_pos + 1] = accepted[Len(accepted)]
          /\ buffer[scan_pos + 1] \in Byte
      <4>1. buffer_offset + (scan_pos + 1) = Len(accepted)
        BY <1>3, <3>1 DEF AbsolutePos
      <4>2. QED
        BY <1>3, <3>1, <4>1, WindowByte
    <3>3. accepted[Len(accepted)] # LF
      BY <2>2, <3>2, Roles, EscapeClass, ByteAssumption, DialectAssumption
         DEF Waiting, Class
    <3>4. Len(accepted) \notin RowEnds(accepted)
      BY <3>3 DEF RowEnds
    <3>5. AbsolutePos \in Nat /\ \A i \in RowEnds(accepted) : i \in 1..Len(accepted)
      BY KnownTypes DEF RowEnds
    <3>6. QED
      BY <3>1, <3>4, <3>5
  <2>3. QED
    BY <2>1, <2>2 DEF EndScan
<1>5. AllEndsFound'
  BY <1>1, <1>4 DEF AllEndsFound, EndsUpTo
<1>6. QED
  BY <1>2, <1>5 DEF ScanCutsRows

(* Rows move from the parser to its caller, in order. *)
LEMMA TakeFirst ==
    ASSUME NEW S, NEW a \in Seq(S), NEW b \in Seq(S), NEW n \in 0..Len(b)
    PROVE  (a \o SubSeq(b, 1, n)) \o SubSeq(b, n + 1, Len(b)) = a \o b
<1>1. \A i \in 1..Len(b) : b[i] \in S
  OBVIOUS
<1>2. SubSeq(b, 1, n) \in Seq(S)
  BY <1>1, SubSeqProperties
<1>3. SubSeq(b, n + 1, Len(b)) \in Seq(S)
  BY <1>1, SubSeqProperties
<1>4. SubSeq(b, 1, n) \o SubSeq(b, n + 1, Len(b)) = b
  <2>1. 1 \in 1..Len(b) + 1 /\ n \in 1 - 1..Len(b) /\ Len(b) \in n..Len(b)
    OBVIOUS
  <2>2. SubSeq(b, 1, n) \o SubSeq(b, n + 1, Len(b)) = SubSeq(b, 1, Len(b))
    BY <2>1, ConcatAdjacentSubSeq
  <2>3. QED
    BY <2>2, SubSeqFull
<1>5. ASSUME NEW u \in Seq(S), NEW v \in Seq(S), u \o v = b
      PROVE  (a \o u) \o v = a \o b
  <2>1. \A c, d, e \in Seq(S) : (c \o d) \o e = c \o (d \o e)
    BY ConcatAssociative, SMTT(60)
  <2>2. QED
    BY <1>5, <2>1, ZenonT(60)
<1>6. QED
  BY <1>2, <1>3, <1>4, <1>5

(* next_rows keeps the rows, moving them from ready to taken.             *)
LEMMA NextRowsCuts ==
    ASSUME Known, NEW max \in 0..Len(complete_rows), NextRows(max)
    PROVE  ScanCutsRows'
<1>1. /\ accepted' = accepted /\ quote' = quote /\ pc' = pc
      /\ AbsolutePos' = AbsolutePos /\ RowStart' = RowStart
  BY DEF NextRows, AbsolutePos, RowStart
<1>2. taken' \o complete_rows' = taken \o complete_rows
  <2>1. CASE Malformed
    BY <2>1 DEF NextRows
  <2>2. CASE ~Malformed
    <3> DEFINE n == IF max < Len(complete_rows) THEN max ELSE Len(complete_rows)
    <3>1. n \in 0..Len(complete_rows) /\ complete_rows \in Seq(Seq(Byte))
          /\ taken \in Seq(Seq(Byte))
      BY KnownTypes
    <3>2. taken' = taken \o SubSeq(complete_rows, 1, n)
          /\ complete_rows' = SubSeq(complete_rows, n + 1, Len(complete_rows))
      BY <2>2 DEF NextRows, RowsAfter
    <3> HIDE DEF n
    <3>3. QED
      BY <3>1, <3>2, TakeFirst
  <2>3. QED
    BY <2>1, <2>2
<1>3. QED
  BY <1>1, <1>2
     DEF Known, ScanCutsRows, RowsCutSoFar, RowStartIsLastEnd, CrLfTogether,
         AllEndsFound, Idle

(* Nothing is cut from nothing.                                           *)
LEMMA EmptyText ==
    ASSUME accepted = <<>>, taken = <<>>, complete_rows = <<>>,
           AbsolutePos = 0, RowStart = 0
    PROVE  ScanCutsRows
<1>1. RowEnds(accepted) = {} /\ EndsUpTo(accepted, 0) = {}
  BY DEF RowEnds, EndsUpTo
<1>2. RowsCutSoFar
  <2>1. Len(taken \o complete_rows) = 0
    OBVIOUS
  <2>2. Cardinality(EndsUpTo(accepted, 0)) = 0
    BY <1>1, FS_EmptySet
  <2>3. QED
    BY <1>1, <2>1, <2>2 DEF RowsCutSoFar, CutsRows
<1>3. QED
  BY <1>1, <1>2 DEF ScanCutsRows, RowStartIsLastEnd, CrLfTogether, AllEndsFound

(* A new parser has cut nothing.                                          *)
LEMMA InitCuts == Init => ScanCutsRows
BY EmptyText DEF Init, AbsolutePos, RowStart

(* finalize leaves nothing behind.                                        *)
LEMMA FinalizeCuts == Finalize => ScanCutsRows'
<1> SUFFICES ASSUME Finalize
             PROVE  ScanCutsRows'
  OBVIOUS
<1>1. accepted' = <<>> /\ taken' = <<>> /\ complete_rows' = <<>>
      /\ AbsolutePos' = 0 /\ RowStart' = 0
  BY DEF Finalize, AbsolutePos, RowStart
<1>2. RowEnds(accepted') = {} /\ EndsUpTo(accepted', 0) = {}
  BY <1>1 DEF RowEnds, EndsUpTo
<1>3. RowsCutSoFar'
  <2>1. Len(<<>> \o <<>>) = 0
    OBVIOUS
  <2>2. Cardinality(EndsUpTo(accepted', 0)) = 0
    BY <1>2, FS_EmptySet
  <2>3. QED
    BY <1>1, <1>2, <2>1, <2>2 DEF RowsCutSoFar, CutsRows
<1>4. QED
  BY <1>1, <1>2, <1>3 DEF ScanCutsRows, RowStartIsLastEnd, CrLfTogether, AllEndsFound

(* Every step keeps the rows.                                             *)
LEMMA NextCuts ==
    ASSUME Known, [Next]_vars
    PROVE  ScanCutsRows'
<1>1. ASSUME UNCHANGED <<accepted, quote, taken, complete_rows, pc>>,
             AbsolutePos' = AbsolutePos, RowStart' = RowStart
      PROVE  ScanCutsRows'
  BY <1>1
     DEF Known, ScanCutsRows, RowsCutSoFar, RowStartIsLastEnd, CrLfTogether,
         AllEndsFound, Idle
<1>2. ASSUME NEW n \in 0..MaxInput - Len(accepted), NEW chunk \in [1..n -> Byte],
             Feed(chunk)
      PROVE  ScanCutsRows'
  <2>1. chunk \in Seq(Byte)
    BY KnownTypes, SizeAssumption
  <2>2. QED
    BY <1>2, <2>1, FeedCuts
<1>3. CASE \E n \in 0..MaxInput - Len(accepted) : FeedOverflow(n)
  BY <1>1, <1>3 DEF FeedOverflow, AbsolutePos, RowStart
<1>4. CASE \E max \in Limits : SetMaxBuffer(max)
  BY <1>1, <1>4 DEF SetMaxBuffer, AbsolutePos, RowStart
<1>5. CASE UNCHANGED vars
  BY <1>1, <1>5 DEF vars, history, AbsolutePos, RowStart
<1>6. QED
  BY <1>2, <1>3, <1>4, <1>5, IterateCuts, EndScanCuts, NextRowsCuts, FinalizeCuts
     DEF Next

(* While a chunk is scanned, the rows returned and the rows ready are      *)
(* those that end in the part of the text already scanned, each being the  *)
(* line between two row ends; no carriage return is parted from its line   *)
(* feed, and no row end is passed over.                                    *)
THEOREM ScanCorrect == Spec => []ScanCutsRows
<1>1. TypeOK /\ BufferIsWindow /\ QuoteIsParity /\ ScanCutsRows /\ [Next]_vars
          => ScanCutsRows'
  BY NextCuts DEF Known
<1>2. QED
  BY <1>1, InitCuts, TypeCorrect, WindowCorrect, QuotesCorrect, PTL DEF Spec

(* However a text is cut into chunks, whenever rows are taken and whenever *)
(* the buffer is compacted, after each call the rows returned and the rows *)
(* ready are exactly the lines of the text that have ended, in order.      *)
THEOREM RowsCorrect == Spec => []RowsAreLines
<1>1. TypeOK /\ BufferIsWindow /\ QuoteIsParity /\ ScanCutsRows => RowsAreLines
  <2>1. SUFFICES ASSUME Known, Idle
                 PROVE  CutsRows(taken \o complete_rows, accepted, Len(accepted))
    BY DEF Known, RowsAreLines
  <2>2. /\ accepted \in Seq(Byte) /\ AbsolutePos \in Nat /\ Len(accepted) \in Nat
        /\ AbsolutePos <= Len(accepted)
    BY <2>1, KnownTypes
  <2>3. EndsUpTo(accepted, Len(accepted)) = EndsUpTo(accepted, AbsolutePos)
    BY <2>1, <2>2 DEF Known, ScanCutsRows, AllEndsFound, EndsUpTo, RowEnds
  <2>4. CutsRows(taken \o complete_rows, accepted, AbsolutePos)
    BY <2>1 DEF Known, ScanCutsRows, RowsCutSoFar
  <2>5. QED
    BY <2>2, <2>3, <2>4, CutsNone
<1>2. QED
  BY <1>1, TypeCorrect, WindowCorrect, QuotesCorrect, ScanCorrect, PTL

-----------------------------------------------------------------------------
(* The reading of a row: SplitRow. *)

(* The reading that SplitRow chooses. *)
SplitReads(line) ==
    CHOOSE read : read = [n \in 0..Len(line) |->
                            IF n = 0
                            THEN SplitStart
                            ELSE [st \in SplitStates |-> SplitByte(line, st, n)][read[n - 1]]]

(* SplitRow is what its reading ends with.                                *)
LEMMA SplitRowReads ==
    ASSUME NEW line
    PROVE  SplitRow(line) =
              [st \in SplitStates |->
                  LET bounds == Append(st.fields, <<st.start, Len(line)>>)
                  IN  [fields    |-> [k \in DOMAIN bounds |-> FieldWithin(line, bounds[k])],
                       violation |-> Finish(st.quote, Len(line))]][SplitReads(line)[Len(line)]]
BY Zenon DEF SplitRow, SplitReads

(* The two classes of byte that SplitByte tells apart.                    *)
LEMMA SplitClass ==
    ASSUME NEW byte \in Byte
    PROVE  /\ ByteClass(byte) = "escape" <=> byte = Escape
           /\ ByteClass(byte) = "separator" <=> byte \in Separators
BY ByteAssumption, DialectAssumption DEF ByteClass, IsSeparator

(* The earlier of two violations is a violation.                          *)
LEMMA FirstOfTyping ==
    ASSUME NEW v \in Violation, NEW w \in Violation
    PROVE  FirstOf(v, w) \in Violation
BY DEF FirstOf

(* What SplitByte does with a byte, by its cases. *)
LEMMA SplitSkip ==
    ASSUME NEW line, NEW n, NEW st, st.skip
    PROVE  SplitByte(line, st, n) = [st EXCEPT !.skip = FALSE]
BY DEF SplitByte

(* What one byte does to the state of a reading.                          *)
LEMMA SplitByteCases ==
    ASSUME NEW line \in Seq(Byte), NEW n \in 1..Len(line), NEW st \in SplitStates
    PROVE  LET doubled == n < Len(line) /\ line[n + 1] = Escape
               next    == SplitByte(line, st, n)
           IN  /\ st.skip => next = [st EXCEPT !.skip = FALSE]
               /\ ~st.skip /\ line[n] = Escape =>
                     next = [st EXCEPT !.quote = OnEscape(st.quote, n - 1, doubled),
                                       !.skip  = st.quote.in_quotes /\ doubled]
               /\ ~st.skip /\ line[n] # Escape /\ st.quote.in_quotes => next = st
               /\ ~st.skip /\ line[n] \in Separators /\ ~st.quote.in_quotes =>
                     next = [st EXCEPT !.fields = Append(st.fields, <<st.start, n - 1>>),
                                       !.start  = n,
                                       !.quote  = OnDelimiter(st.quote)]
               /\ ~st.skip /\ line[n] \notin Separators \cup {Escape} /\ ~st.quote.in_quotes =>
                     next = [st EXCEPT !.quote = OnData(st.quote, n - 1)]
<1>1. line[n] \in Byte
  BY ElementOfSeq
<1>2. /\ ByteClass(line[n]) = "escape" <=> line[n] = Escape
      /\ ByteClass(line[n]) = "separator" <=> line[n] \in Separators
      /\ Escape \notin Separators
  BY <1>1, SplitClass, ByteRoles
<1>3. st.skip => SplitByte(line, st, n) = [st EXCEPT !.skip = FALSE]
  BY SplitSkip
<1>4. QED
  BY <1>2, <1>3 DEF SplitByte

(* A reading stays among its states.                                      *)
LEMMA SplitTyping ==
    ASSUME NEW line \in Seq(Byte), NEW n \in 1..Len(line), NEW st \in SplitStates
    PROVE  SplitByte(line, st, n) \in SplitStates
<1>1. /\ st.fields \in Seq(Nat \X Nat) /\ st.start \in Nat /\ st.quote \in QuoteStates
      /\ st.skip \in BOOLEAN /\ n \in Nat /\ n - 1 \in Nat
  BY DEF SplitStates
<1>2. CASE st.skip
  <2>1. SplitByte(line, st, n) = [st EXCEPT !.skip = FALSE]
    BY <1>2, SplitSkip
  <2>2. QED
    BY <2>1 DEF SplitStates
<1>3. CASE ~st.skip /\ line[n] = Escape
  <2> DEFINE doubled == n < Len(line) /\ line[n + 1] = Escape
  <2>1. doubled \in BOOLEAN /\ (st.quote.in_quotes /\ doubled) \in BOOLEAN
    BY <1>1 DEF QuoteStates
  <2>2. OnEscape(st.quote, n - 1, doubled) \in QuoteStates
    BY <1>1, <2>1, QuoteTyping
  <2>3. SplitByte(line, st, n) = [st EXCEPT !.quote = OnEscape(st.quote, n - 1, doubled),
                                            !.skip  = st.quote.in_quotes /\ doubled]
    BY <1>3, SplitByteCases, ZenonT(40)
  <2> HIDE DEF doubled
  <2>4. QED
    BY <2>1, <2>2, <2>3 DEF SplitStates
<1>4. CASE ~st.skip /\ line[n] # Escape /\ st.quote.in_quotes
  BY <1>4, SplitByteCases
<1>5. CASE ~st.skip /\ line[n] \in Separators /\ ~st.quote.in_quotes
  <2>1. OnDelimiter(st.quote) \in QuoteStates
    BY <1>1, QuoteTyping
  <2>2. Append(st.fields, <<st.start, n - 1>>) \in Seq(Nat \X Nat)
    BY <1>1, AppendProperties
  <2>3. SplitByte(line, st, n)
           = [st EXCEPT !.fields = Append(st.fields, <<st.start, n - 1>>),
                        !.start  = n,
                        !.quote  = OnDelimiter(st.quote)]
    BY <1>5, SplitByteCases
  <2>4. QED
    BY <1>1, <2>1, <2>2, <2>3 DEF SplitStates
<1>6. CASE ~st.skip /\ line[n] \notin Separators \cup {Escape} /\ ~st.quote.in_quotes
  <2>1. OnData(st.quote, n - 1) \in QuoteStates
    BY <1>1, QuoteTyping
  <2>2. SplitByte(line, st, n) = [st EXCEPT !.quote = OnData(st.quote, n - 1)]
    BY <1>6, SplitByteCases
  <2>3. QED
    BY <2>1, <2>2 DEF SplitStates
<1>7. QED
  BY <1>2, <1>3, <1>4, <1>5, <1>6

(* The reading that SplitRow chooses goes byte by byte from the start.    *)
LEMMA SplitReadsAt ==
    ASSUME NEW line \in Seq(Byte)
    PROVE  /\ SplitReads(line)[0] = SplitStart
           /\ \A n \in 0..Len(line) : SplitReads(line)[n] \in SplitStates
           /\ \A n \in 1..Len(line) :
                 SplitReads(line)[n] = SplitByte(line, SplitReads(line)[n - 1], n)
<1> DEFINE m == Len(line)
           step == [n \in 1..m |-> [st \in SplitStates |-> SplitByte(line, st, n)]]
           OneMore(read) == [n \in 0..m |->
                            IF n = 0
                            THEN SplitStart
                            ELSE [st \in SplitStates |-> SplitByte(line, st, n)][read[n - 1]]]
<1>1. m \in Nat /\ SplitStart \in SplitStates
  <2>1. <<>> \in Seq(Nat \X Nat) /\ 0 \in Nat
    OBVIOUS
  <2>2. QED
    BY <2>1, NewQuoteTyping DEF SplitStart, SplitStates
<1>2. step \in [1..m -> [SplitStates -> SplitStates]]
  BY SplitTyping
<1>3. PICK f \in [0..m -> SplitStates] :
         f[0] = SplitStart /\ \A n \in 1..m : f[n] = step[n][f[n - 1]]
  <2>1. Readings(m, SplitStates, SplitStart, step) # {}
    <3> HIDE DEF step, m
    <3>1. QED
      BY <1>1, <1>2, ReadingExists
  <2>2. QED
    BY <2>1 DEF Readings
<1>4. f = OneMore(f)
  <2>1. \A n \in 0..m : n # 0 => n \in 1..m
    OBVIOUS
  <2>2. \A n \in 0..m : f[n] = OneMore(f)[n]
    BY <1>3, <2>1
  <2>3. QED
    BY <2>2
<1>5. SplitReads(line) = OneMore(SplitReads(line))
  <2>1. SplitReads(line) = CHOOSE read : read = OneMore(read)
    BY DEF SplitReads
  <2> HIDE DEF OneMore
  <2>2. QED
    BY <1>4, <2>1, Zenon
<1> DEFINE read == SplitReads(line)
<1>6. /\ read[0] = SplitStart
      /\ \A n \in 1..m : read[n] = [st \in SplitStates |-> SplitByte(line, st, n)][read[n - 1]]
  <2> HIDE DEF read
  <2>1. read = OneMore(read)
    BY <1>5 DEF read
  <2>2. \A n \in 0..m : read[n] = OneMore(read)[n]
    BY <2>1
  <2>3. 0 \in 0..m /\ \A n \in 1..m : n \in 0..m /\ n # 0
    BY <1>1
  <2>4. QED
    BY <2>2, <2>3
<1> HIDE DEF read
<1>7. \A n \in 0..m : read[n] \in SplitStates
  <2> DEFINE P == {n \in 0..m : read[n] \in SplitStates}
  <2>1. 0 \in P
    BY <1>1, <1>6
  <2>2. ASSUME NEW n \in 1..m, n - 1 \in P
        PROVE  n \in P
    <3>1. read[n] = SplitByte(line, read[n - 1], n)
      BY <1>6, <2>2
    <3>2. QED
      BY <2>2, <3>1, SplitTyping
  <2> HIDE DEF P, m
  <2>3. \A n \in 0..m : n \in P
    BY <1>1, <2>1, <2>2, UpTo
  <2>4. QED
    BY <2>3 DEF P
<1>8. \A n \in 1..m : n - 1 \in 0..m
  BY <1>1
<1>9. QED
  BY <1>6, <1>7, <1>8 DEF read

(* What a reading knows after n bytes: the quotes, and the bounds of the    *)
(* fields that have ended.                                                  *)
SplitCut(line, k) == CutOf(line, 0, Len(line), k)

SplitSeps(line) == SepsOfPart(line, 0, Len(line))

QuotesKnown(line, n, st) ==
    /\ ~st.skip => QuoteAfter(line, n, st.quote)
    /\ st.skip => /\ 0 < n /\ n < Len(line)
                  /\ line[n] = Escape /\ line[n + 1] = Escape
                  /\ QuoteAfter(line, n - 1, st.quote) /\ st.quote.in_quotes = TRUE

CutsKnown(line, n, st) ==
    /\ Len(st.fields) = Rank(SplitSeps(line), n)
    /\ \A k \in 1..Len(st.fields) :
          st.fields[k] = <<SplitCut(line, k - 1), SplitCut(line, k) - 1>>
    /\ st.start = SplitCut(line, Len(st.fields))

(* No line feed stands outside quotes in a row, so none follows a carriage  *)
(* return there.                                                            *)
LEMMA NoRowEnd ==
    ASSUME NEW line \in Seq(Byte), RowEnds(line) = {}, NEW n \in 1..Len(line),
           ~Quoted(line, n), line[n] # Escape
    PROVE  /\ line[n] # LF
           /\ line[n] = CR => n = Len(line) \/ line[n + 1] # LF
<1>1. n \in DOMAIN line /\ Len(line) \in Nat
  OBVIOUS
<1>2. line[n] # LF
  BY <1>1 DEF RowEnds
<1>3. ASSUME n # Len(line)
      PROVE  line[n + 1] # LF
  <2>1. n + 1 \in DOMAIN line
    BY <1>1, <1>3
  <2>2. ~Quoted(line, n + 1)
    BY ParityStep
  <2>3. QED
    BY <2>1, <2>2 DEF RowEnds
<1>4. QED
  BY <1>2, <1>3

(* One more byte of a row: its quotes.                                    *)
LEMMA SplitQuotes ==
    ASSUME NEW line \in Seq(Byte), RowEnds(line) = {}, NEW n \in 1..Len(line),
           NEW st \in SplitStates, QuotesKnown(line, n - 1, st)
    PROVE  QuotesKnown(line, n, SplitByte(line, st, n))
<1> DEFINE next == SplitByte(line, st, n)
           q    == st.quote
           p    == n - 1
<1>1. /\ n - 1 \in Nat /\ n - 1 < Len(line) /\ (n - 1) + 1 = n /\ (n - 1) + 2 = n + 1
      /\ Len(line) \in Nat /\ n \in Nat /\ (n - 2) + 2 = n /\ (n - 1) - 1 = n - 2
      /\ (n - 2) + 1 = n - 1 /\ 0 < n
      /\ 0 < n - 1 => n - 2 \in Nat
  OBVIOUS
<1>2. q \in QuoteStates /\ st.skip \in BOOLEAN /\ q.in_quotes \in BOOLEAN
  BY DEF SplitStates, QuoteStates
<1>3. ~st.skip => QuoteAfter(line, p, q)
  BY DEF QuotesKnown
<1>4. ~st.skip => (q.in_quotes <=> Quoted(line, n))
  BY <1>1, <1>3 DEF QuoteAfter
<1>5. CASE st.skip
  <2>1. next = [st EXCEPT !.skip = FALSE]
    BY <1>5, SplitSkip
  <2>2. next.skip = FALSE /\ next.quote = q
    BY <2>1 DEF SplitStates
  <2>3. /\ 0 < n - 1 /\ line[n - 1] = Escape /\ line[n] = Escape
        /\ QuoteAfter(line, n - 2, q) /\ q.in_quotes = TRUE
    BY <1>1, <1>5 DEF QuotesKnown
  <2>4. n - 2 \in Nat /\ (n - 2) + 1 < Len(line)
    BY <1>1, <2>3
  <2>5. QuoteAfter(line, (n - 2) + 2, q)
    BY <1>1, <2>3, <2>4, QuoteOnDoubled
  <2>6. QED
    BY <1>1, <2>2, <2>5 DEF QuotesKnown
<1>6. CASE ~st.skip /\ line[n] = Escape
  <2> DEFINE doubled == n < Len(line) /\ line[n + 1] = Escape
  <2>1. next = [st EXCEPT !.quote = OnEscape(q, n - 1, doubled),
                          !.skip  = q.in_quotes /\ doubled]
    BY <1>6, SplitByteCases, ZenonT(40)
  <2>2. next.quote = OnEscape(q, p, doubled) /\ next.skip = (q.in_quotes /\ doubled)
    <3> HIDE DEF next, doubled
    <3>1. QED
      BY <2>1 DEF SplitStates
  <2> HIDE DEF next
  <2>3. CASE q.in_quotes = TRUE /\ doubled
    <3>1. next.quote = q
      BY <2>2, <2>3 DEF OnEscape
    <3>2. next.skip
      BY <2>2, <2>3
    <3>3. QED
      BY <1>1, <1>3, <1>6, <2>3, <3>1, <3>2 DEF QuotesKnown, next
  <2>4. CASE q.in_quotes = TRUE /\ ~doubled
    <3>1. next.quote = OnEscape(q, p, FALSE)
      BY <2>2, <2>4 DEF OnEscape
    <3>2. ~next.skip
      BY <2>2, <2>4
    <3>3. QuoteAfter(line, p + 1, OnEscape(q, p, FALSE))
      BY <1>1, <1>2, <1>3, <1>6, <2>4, QuoteOnClosing
    <3>4. QED
      BY <1>1, <3>1, <3>2, <3>3 DEF QuotesKnown, next
  <2>5. CASE q.in_quotes = FALSE
    <3>1. ~next.skip
      BY <2>2, <2>5
    <3>2. QuoteAfter(line, p + 1, OnEscape(q, p, doubled))
      BY <1>1, <1>2, <1>3, <1>6, <2>5, QuoteOnOpening
    <3>3. QED
      BY <1>1, <2>2, <3>1, <3>2 DEF QuotesKnown, next
  <2>6. QED
    BY <1>2, <2>3, <2>4, <2>5
<1>7. CASE ~st.skip /\ line[n] # Escape /\ q.in_quotes = TRUE
  <2>1. next = st
    BY <1>7, SplitByteCases
  <2>2. QuoteAfter(line, p + 1, q)
    BY <1>1, <1>3, <1>7, QuoteOnQuoted
  <2>3. QED
    BY <1>1, <1>7, <2>1, <2>2 DEF QuotesKnown
<1>8. CASE ~st.skip /\ line[n] \in Separators /\ q.in_quotes = FALSE
  <2>1. next = [st EXCEPT !.fields = Append(st.fields, <<st.start, n - 1>>),
                          !.start  = n,
                          !.quote  = OnDelimiter(q)]
    BY <1>8, SplitByteCases
  <2>2. next.quote = OnDelimiter(q) /\ ~next.skip
    <3> HIDE DEF next
    <3>1. QED
      BY <1>8, <2>1 DEF SplitStates
  <2>3. QuoteAfter(line, p + 1, OnDelimiter(q))
    BY <1>1, <1>2, <1>3, <1>8, QuoteOnDelimiter
  <2>4. QED
    BY <1>1, <2>2, <2>3 DEF QuotesKnown
<1>9. CASE ~st.skip /\ line[n] \notin Separators \cup {Escape} /\ q.in_quotes = FALSE
  <2>1. next = [st EXCEPT !.quote = OnData(q, n - 1)]
    BY <1>9, SplitByteCases
  <2>2. next.quote = OnData(q, p) /\ ~next.skip
    <3> HIDE DEF next
    <3>1. QED
      BY <1>9, <2>1 DEF SplitStates
  <2>3. ~Quoted(line, n)
    BY <1>4, <1>9
  <2>4. line[n] # LF /\ (line[n] = CR => n = Len(line) \/ line[n + 1] # LF)
    BY <1>9, <2>3, NoRowEnd
  <2>5. QuoteAfter(line, p + 1, OnData(q, p))
    BY <1>1, <1>2, <1>3, <1>9, <2>4, QuoteOnData
  <2>6. QED
    BY <1>1, <2>2, <2>5 DEF QuotesKnown
<1>10. QED
  BY <1>2, <1>5, <1>6, <1>7, <1>8, <1>9

(* A number more is one element more, or none. *)
LEMMA RankNext ==
    ASSUME NEW S \in SUBSET Int, IsFiniteSet(S), NEW n \in Int
    PROVE  /\ n \notin S => Rank(S, n) = Rank(S, n - 1)
           /\ n \in S => Rank(S, n) = Rank(S, n - 1) + 1
<1> DEFINE A == {j \in S : j <= n - 1}
           B == {j \in S : j <= n}
<1>1. \A j \in S : j <= n <=> j <= n - 1 \/ j = n
  OBVIOUS
<1>2. n \notin S => B = A
  BY <1>1
<1>3. n \in S => B = A \cup {n} /\ n \notin A
  <2>1. ~(n <= n - 1) /\ n <= n
    OBVIOUS
  <2>2. QED
    BY <1>1, <2>1, Zenon
<1>4. IsFiniteSet(A)
  <2>1. n - 1 \in Int
    OBVIOUS
  <2>2. QED
    BY <2>1, RankType
<1>5. n \in S => Cardinality(B) = Cardinality(A) + 1
  <2> HIDE DEF A, B
  <2>1. QED
    BY <1>3, <1>4, FS_AddElement
<1>6. QED
  BY <1>2, <1>5 DEF Rank

(* One more byte of a row: its fields.                                    *)
LEMMA SplitCuts ==
    ASSUME NEW line \in Seq(Byte), NEW n \in 1..Len(line), NEW st \in SplitStates,
           QuotesKnown(line, n - 1, st), CutsKnown(line, n - 1, st)
    PROVE  CutsKnown(line, n, SplitByte(line, st, n))
<1> DEFINE next == SplitByte(line, st, n)
           S    == SplitSeps(line)
           m    == Len(st.fields)
<1>1. S \in SUBSET Int /\ IsFiniteSet(S) /\ Cardinality(S) \in Nat /\ n \in Int
  BY SepsOfPartFinite DEF SplitSeps
<1>2. n \in S <=> line[n] \in Separators /\ ~Quoted(line, n)
  BY DEF SplitSeps, SepsOfPart
<1>3. /\ m = Rank(S, n - 1) /\ m \in Nat
      /\ \A k \in 1..m : st.fields[k] = <<SplitCut(line, k - 1), SplitCut(line, k) - 1>>
      /\ st.start = SplitCut(line, m)
  BY DEF CutsKnown, SplitStates
<1>4. ~st.skip => st.quote.in_quotes = Quoted(line, n)
  BY DEF QuotesKnown, QuoteAfter
<1>5. st.skip => line[n] = Escape
  <2>1. (n - 1) + 1 = n
    OBVIOUS
  <2>2. QED
    BY <2>1 DEF QuotesKnown
<1>6. CASE n \notin S
  <2>1. next.fields = st.fields /\ next.start = st.start
    <3>1. CASE st.skip
      <4>1. next = [st EXCEPT !.skip = FALSE]
        BY <3>1, SplitSkip
      <4> HIDE DEF next
      <4>2. QED
        BY <4>1 DEF SplitStates
    <3>2. CASE ~st.skip /\ line[n] = Escape
      <4> DEFINE doubled == n < Len(line) /\ line[n + 1] = Escape
      <4>1. next = [st EXCEPT !.quote = OnEscape(st.quote, n - 1, doubled),
                              !.skip  = st.quote.in_quotes /\ doubled]
        BY <3>2, SplitByteCases, ZenonT(40)
      <4> HIDE DEF doubled
      <4> HIDE DEF next
      <4>2. QED
        BY <4>1 DEF SplitStates
    <3>3. CASE ~st.skip /\ line[n] # Escape /\ st.quote.in_quotes
      BY <3>3, SplitByteCases
    <3>4. CASE ~st.skip /\ line[n] # Escape /\ ~st.quote.in_quotes
      <4>1. ~Quoted(line, n)
        BY <1>4, <3>4
      <4>2. line[n] \notin Separators \cup {Escape}
        BY <1>2, <1>6, <3>4, <4>1
      <4>3. next = [st EXCEPT !.quote = OnData(st.quote, n - 1)]
        BY <3>4, <4>2, SplitByteCases
      <4> HIDE DEF next
      <4>4. QED
        BY <4>3 DEF SplitStates
    <3>5. QED
      BY <3>1, <3>2, <3>3, <3>4
  <2>2. Rank(S, n) = Rank(S, n - 1)
    BY <1>1, <1>6, RankNext
  <2> HIDE DEF next, S
  <2>3. QED
    BY <1>3, <2>1, <2>2 DEF CutsKnown, next, S
<1>7. CASE n \in S
  <2>1. line[n] \in Separators /\ ~Quoted(line, n) /\ line[n] # Escape /\ ~st.skip
    BY <1>2, <1>5, <1>7, ByteRoles
  <2>2. ~st.quote.in_quotes
    BY <1>4, <2>1
  <2>3. next = [st EXCEPT !.fields = Append(st.fields, <<st.start, n - 1>>),
                          !.start  = n,
                          !.quote  = OnDelimiter(st.quote)]
    BY <2>1, <2>2, SplitByteCases
  <2>4. next.fields = Append(st.fields, <<st.start, n - 1>>) /\ next.start = n
    <3> HIDE DEF next
    <3>1. QED
      BY <2>3 DEF SplitStates
  <2>5. Rank(S, n) = m + 1
    BY <1>1, <1>3, <1>7, RankNext
  <2>6. Nth(S, m + 1) = n /\ m + 1 \in 1..Cardinality(S)
    <3> HIDE DEF S
    <3>1. QED
      BY <1>1, <1>7, <2>5, NthOfElement, RankOfElement
  <2>7. SplitCut(line, m + 1) = n
    <3>1. m + 1 # 0 /\ m + 1 # Cardinality(S) + 1
      BY <1>1, <1>3, <2>6
    <3>2. QED
      BY <2>6, <3>1 DEF SplitCut, CutOf, SplitSeps
  <2>8. <<st.start, n - 1>> \in Nat \X Nat /\ st.fields \in Seq(Nat \X Nat)
    BY DEF SplitStates
  <2>9. /\ Len(next.fields) = m + 1
        /\ \A k \in 1..m : next.fields[k] = st.fields[k]
        /\ next.fields[m + 1] = <<st.start, n - 1>>
    BY <2>4, <2>8, AppendProperties
  <2> HIDE DEF next, S, m
  <2>10. next.fields[m + 1] = <<SplitCut(line, (m + 1) - 1), SplitCut(line, m + 1) - 1>>
    <3>1. (m + 1) - 1 = m
      BY <1>3
    <3>2. QED
      BY <1>3, <2>7, <2>9, <3>1
  <2>11. \A k \in 1..m + 1 : k \in 1..m \/ k = m + 1
    BY <1>3
  <2>12. \A k \in 1..m + 1 :
            next.fields[k] = <<SplitCut(line, k - 1), SplitCut(line, k) - 1>>
    BY <1>3, <2>9, <2>10, <2>11
  <2>13. QED
    BY <2>4, <2>5, <2>7, <2>9, <2>12 DEF CutsKnown, next, S
<1>8. QED
  BY <1>6, <1>7

(* A row of which only the text of one line is known is read as that line:  *)
(* parse_row_owned finds the fields and the violation of the whole line.    *)
LEMMA SplitRowIs ==
    ASSUME NEW line \in Seq(Byte), RowEnds(line) = {}
    PROVE  /\ SplitRow(line).fields = FieldsOf(line)
           /\ SplitRow(line).violation = FirstViolation(line, TRUE)
<1> DEFINE m == Len(line)
           read == SplitReads(line)
           S == SplitSeps(line)
           P == {n \in 0..m : QuotesKnown(line, n, read[n]) /\ CutsKnown(line, n, read[n])}
<1>1. m \in Nat /\ S \in SUBSET Int /\ IsFiniteSet(S) /\ Cardinality(S) \in Nat
      /\ \A i \in S : i \in 1..m
  <2>1. \A i \in S : i \in 1..m
    BY DEF SplitSeps, SepsOfPart
  <2>2. QED
    BY <2>1, SepsOfPartFinite DEF SplitSeps
<1>2. /\ read[0] = SplitStart
      /\ \A n \in 0..m : read[n] \in SplitStates
      /\ \A n \in 1..m : read[n] = SplitByte(line, read[n - 1], n)
  BY SplitReadsAt
<1> HIDE DEF read, S
<1>3. 0 \in P
  <2>1. QuotesKnown(line, 0, SplitStart)
    <3>1. ~SplitStart.skip /\ SplitStart.quote = NewQuote
      BY DEF SplitStart
    <3>2. QED
      BY <3>1, QuoteAtStart DEF QuotesKnown
  <2>2. CutsKnown(line, 0, SplitStart)
    <3>1. Len(SplitStart.fields) = 0 /\ SplitStart.start = 0
      BY DEF SplitStart
    <3>2. Rank(S, 0) = 0
      <4> HIDE DEF m
      <4>0. \A j \in 1..m : ~(j <= 0)
        BY <1>1
      <4>1. {j \in S : j <= 0} = {}
        BY <1>1, <4>0, Zenon
      <4>2. QED
        BY <4>1, FS_EmptySet DEF Rank
    <3>3. SplitCut(line, 0) = 0
      BY DEF SplitCut, CutOf
    <3>4. QED
      BY <3>1, <3>2, <3>3 DEF CutsKnown, S
  <2>3. QED
    BY <1>1, <1>2, <2>1, <2>2
<1>4. ASSUME NEW n \in 1..m, n - 1 \in P
      PROVE  n \in P
  <2>1. /\ n \in 0..m /\ n - 1 \in 0..m
        /\ QuotesKnown(line, n - 1, read[n - 1]) /\ CutsKnown(line, n - 1, read[n - 1])
    BY <1>4
  <2>2. /\ QuotesKnown(line, n, SplitByte(line, read[n - 1], n))
        /\ CutsKnown(line, n, SplitByte(line, read[n - 1], n))
    BY <1>2, <2>1, SplitQuotes, SplitCuts
  <2>3. QED
    BY <1>2, <2>1, <2>2
<1>5. m \in P
  <2> HIDE DEF P, m
  <2>1. \A n \in 0..m : n \in P
    BY <1>1, <1>3, <1>4, UpTo
  <2>2. QED
    BY <1>1, <2>1
<1> DEFINE st == read[m]
           bounds == Append(st.fields, <<st.start, m>>)
           row == [fields    |-> [k \in DOMAIN bounds |-> FieldWithin(line, bounds[k])],
                   violation |-> Finish(st.quote, m)]
<1>6. st \in SplitStates /\ QuotesKnown(line, m, st) /\ CutsKnown(line, m, st)
  BY <1>1, <1>2, <1>5
<1>7. SplitRow(line) = row
  <2>1. SplitRow(line) =
           [t \in SplitStates |->
               LET b == Append(t.fields, <<t.start, Len(line)>>)
               IN  [fields    |-> [k \in DOMAIN b |-> FieldWithin(line, b[k])],
                    violation |-> Finish(t.quote, Len(line))]][SplitReads(line)[Len(line)]]
    BY SplitRowReads
  <2>2. QED
    BY <1>6, <2>1 DEF read
<1> HIDE DEF st
<1>8. SplitRow(line).violation = FirstViolation(line, TRUE)
  <2>1. QuoteAfter(line, m, st.quote)
    BY <1>1, <1>6 DEF QuotesKnown
  <2>2. BadUpTo(line, m) = BadBytes(line)
    BY <1>1, BadBytesInText DEF BadUpTo
  <2>3. IsFirstIn(line, st.quote.violation, BadBytes(line)) /\ st.quote.in_quotes = Quoted(line, m + 1)
    BY <2>1, <2>2 DEF QuoteAfter
  <2>4. FirstViolation(line, TRUE) = Finish(st.quote, m)
    BY <2>3, FirstOfAll DEF Finish
  <2>5. row.violation = Finish(st.quote, m)
    <3> HIDE DEF bounds
    <3>1. QED
      OBVIOUS
  <2>6. QED
    BY <1>7, <2>4, <2>5, Zenon
<1>9. SplitRow(line).fields = FieldsOf(line)
  <2> DEFINE c == Cardinality(S)
             fields == [k \in 1..c + 1 |->
                          ExtractField(SubSeq(line, SplitCut(line, k - 1) + 1, SplitCut(line, k) - 1))]
  <2>1. Rank(S, m) = c
    <3> HIDE DEF m
    <3>0. \A j \in 1..m : j <= m
      BY <1>1
    <3>1. {j \in S : j <= m} = S
      BY <1>1, <3>0, Zenon
    <3>2. QED
      BY <3>1 DEF Rank
  <2>2. /\ Len(st.fields) = c
        /\ \A k \in 1..c : st.fields[k] = <<SplitCut(line, k - 1), SplitCut(line, k) - 1>>
        /\ st.start = SplitCut(line, c)
    BY <1>6, <2>1 DEF CutsKnown, S
  <2>3. st.fields \in Seq(Nat \X Nat) /\ <<st.start, m>> \in Nat \X Nat
    BY <1>1, <1>6 DEF SplitStates
  <2>4. /\ bounds \in Seq(Nat \X Nat) /\ Len(bounds) = c + 1
        /\ \A k \in 1..c : bounds[k] = st.fields[k]
        /\ bounds[c + 1] = <<st.start, m>>
    BY <2>2, <2>3, AppendProperties
  <2> HIDE DEF bounds, m
  <2>5. SplitCut(line, c + 1) = m + 1
    <3>1. c + 1 # 0
      BY <1>1
    <3>2. QED
      BY <3>1 DEF SplitCut, CutOf, SplitSeps, S, m
  <2>6. bounds[c + 1] = <<SplitCut(line, (c + 1) - 1), SplitCut(line, c + 1) - 1>>
    <3>1. (c + 1) - 1 = c /\ (m + 1) - 1 = m
      BY <1>1
    <3>2. QED
      BY <2>2, <2>4, <2>5, <3>1
  <2>7. \A k \in 1..c + 1 : k \in 1..c \/ k = c + 1
    BY <1>1
  <2>8. \A k \in 1..c + 1 : bounds[k] = <<SplitCut(line, k - 1), SplitCut(line, k) - 1>>
    BY <2>2, <2>4, <2>6, <2>7
  <2>9. DOMAIN bounds = 1..c + 1
    BY <2>4
  <2>10. \A k \in 1..c + 1 : FieldWithin(line, bounds[k]) = fields[k]
    BY <2>8 DEF FieldWithin
  <2>11. SplitRow(line).fields = fields
    BY <1>7, <2>9, <2>10
  <2>12. FieldsOf(line) = fields
    <3>1. Len(line) \in Nat /\ 0 \in Nat /\ 0 <= Len(line) /\ Len(line) <= Len(line)
      OBVIOUS
    <3>2. ~Quoted(line, 0 + 1)
      BY QuoteAtStart DEF QuoteAfter, NewQuote
    <3>3. SubSeq(line, 0 + 1, Len(line)) = line
      BY SubSeqFull
    <3>4. FieldsOf(SubSeq(line, 0 + 1, Len(line))) = fields
      BY <3>1, <3>2, FieldsOfPart DEF S, SplitSeps, SplitCut
    <3>5. QED
      BY <3>3, <3>4
  <2>13. QED
    BY <2>11, <2>12
<1>10. QED
  BY <1>8, <1>9

-----------------------------------------------------------------------------
(* The violation of the text that has been scanned. *)

(* What a scan knows: the state of the quotes, the first bad byte so far,   *)
(* that a closing escape has been read with the byte after it, and where a  *)
(* call leaves off.                                                         *)
QuotesFollowText ==
    /\ violation = quote.violation
    /\ QuoteAfter(accepted, AbsolutePos, quote)

EscapeTogether ==
    AbsolutePos > 0 /\ accepted[AbsolutePos] = Escape /\ ~quote.in_quotes =>
        AbsolutePos < Len(accepted)

LeftAtEnd ==
    Idle => \/ AbsolutePos = Len(accepted)
            \/ /\ AbsolutePos + 1 = Len(accepted)
               /\ IF quote.in_quotes THEN accepted[AbsolutePos + 1] = Escape
                                     ELSE accepted[AbsolutePos + 1] = CR

ScanSeesViolation == QuotesFollowText /\ EscapeTogether /\ LeftAtEnd

(* The automaton keeps a violation that it has found. *)
LEMMA QuoteKeeps ==
    ASSUME NEW q \in QuoteStates
    PROVE  /\ FirstOf(q.violation, q.violation) = q.violation
           /\ OnDelimiter(q).violation = q.violation
           /\ \A pos : FirstOf(q.violation, OnData(q, pos).violation) = OnData(q, pos).violation
           /\ \A pos : FirstOf(q.violation, OnEscape(q, pos, FALSE).violation)
                         = OnEscape(q, pos, FALSE).violation
<1>1. FirstOf(q.violation, q.violation) = q.violation
  BY DEF FirstOf
<1>2. ASSUME NEW pos
      PROVE  FirstOf(q.violation, OnEscape(q, pos, FALSE).violation) = OnEscape(q, pos, FALSE).violation
  <2>1. \/ OnEscape(q, pos, FALSE).violation = q.violation
        \/ OnEscape(q, pos, FALSE).violation
              = FirstOf(q.violation, [kind |-> "unexpected_quote", pos |-> pos])
    BY DEF OnEscape, QuoteStates
  <2>2. QED
    BY <2>1 DEF FirstOf
<1>3. OnDelimiter(q).violation = q.violation
  BY DEF OnDelimiter, QuoteStates
<1>4. ASSUME NEW pos
      PROVE  FirstOf(q.violation, OnData(q, pos).violation) = OnData(q, pos).violation
  <2>1. \/ OnData(q, pos).violation = q.violation
        \/ OnData(q, pos).violation
              = FirstOf(q.violation, [kind |-> "trailing_garbage", pos |-> pos])
    BY DEF OnData, QuoteStates
  <2>2. QED
    BY <2>1 DEF FirstOf
<1>5. QED
  BY <1>1, <1>2, <1>3, <1>4

(* An open row starts outside quotes and goes on without a row end. *)
LEMMA NoEndWithin ==
    ASSUME NEW s \in Seq(Byte), NEW a \in Nat, NEW b \in Nat, a <= b, b <= Len(s),
           a \in {0} \cup RowEnds(s), \A i \in EndsUpTo(s, b) : i <= a
    PROVE  RowFrom(s, a) /\ RowEnds(SubSeq(s, a + 1, b)) = {}
<1> DEFINE line == SubSeq(s, a + 1, b)
<1>1. RowFrom(s, a)
  <2>1. CASE a = 0
    <3>1. QuoteAfter(s, 0, NewQuote) /\ ~NewQuote.in_quotes
      BY QuoteAtStart DEF NewQuote
    <3>2. ~Quoted(s, 0 + 1)
      BY <3>1 DEF QuoteAfter
    <3>3. QED
      BY <2>1, <3>2 DEF RowFrom
  <2>2. CASE a \in RowEnds(s)
    <3>1. a \in 1..Len(s) /\ s[a] = LF /\ ~Quoted(s, a)
      BY <2>2 DEF RowEnds
    <3>2. QED
      BY <3>1, ParityStep, ByteRoles DEF RowFrom
  <2>3. QED
    BY <2>1, <2>2
<1>2. ASSUME NEW i \in RowEnds(line)
      PROVE  FALSE
  <2>1. /\ Len(line) = b - a
        /\ \A j \in 1..b - a : line[j] = s[a + j]
    BY PartOfText
  <2>2. i \in DOMAIN line /\ line[i] = LF /\ ~Quoted(line, i)
    BY <1>2 DEF RowEnds
  <2> HIDE DEF line
  <2>3. i \in 1..b - a /\ i \in 1..(b - a) + 1
    <3>1. DOMAIN line = 1..b - a
      <4>1. line \in Seq(Byte)
        BY PartOfText DEF line
      <4>2. QED
        BY <2>1, <4>1
    <3>2. QED
      BY <2>2, <3>1
  <2>4. Quoted(line, i) = Quoted(s, a + i)
    BY <1>1, <2>3, ParityOfPart DEF RowFrom, line
  <2>5. a + i \in 1..Len(s) /\ a + i <= b /\ ~(a + i <= a)
    BY <2>3
  <2>6. a + i \in EndsUpTo(s, b)
    BY <2>1, <2>2, <2>3, <2>4, <2>5 DEF EndsUpTo, RowEnds
  <2>7. QED
    BY <2>5, <2>6
<1>3. QED
  BY <1>1, <1>2

(* A step of scan over one or two bytes that moves the automaton with them. *)
LEMMA AdvanceSees ==
    ASSUME Known, ScanSeesViolation, Scanning, NEW n \in 1..2, NEW q, Advance(q, n),
           QuoteAfter(accepted, AbsolutePos + n, q),
           FirstOf(quote.violation, q.violation) = q.violation,
           AbsolutePos + n <= Len(accepted),
           AbsolutePos + n = Len(accepted) /\ accepted[AbsolutePos + n] = Escape => q.in_quotes
    PROVE  ScanSeesViolation'
<1>1. /\ AbsolutePos' = AbsolutePos + n /\ accepted' = accepted /\ quote' = q
      /\ violation' = q.violation /\ pc' = "scanning"
  BY KnownTypes DEF Advance, Scanning, AbsolutePos, history, ScanSeesViolation,
                    QuotesFollowText
<1>2. QuotesFollowText'
  BY <1>1 DEF QuotesFollowText
<1>3. EscapeTogether'
  <2>1. AbsolutePos + n < Len(accepted) \/ AbsolutePos + n = Len(accepted)
    BY KnownTypes, SMTT(40)
  <2>2. QED
    BY <1>1, <2>1 DEF EscapeTogether
<1>4. LeftAtEnd'
  BY <1>1 DEF LeftAtEnd, Idle
<1>5. QED
  BY <1>2, <1>3, <1>4 DEF ScanSeesViolation

(* The rows cut so far have no violation unless one was seen in the text. *)
LEMMA EndRowSees ==
    ASSUME Known, ScanSeesViolation, Scanning, NEW n \in 1..2, EndRow(n), ~quote.in_quotes,
           QuoteAfter(accepted, AbsolutePos + n, OnDelimiter(quote)),
           AbsolutePos + n <= Len(accepted), accepted[AbsolutePos + n] = LF
    PROVE  ScanSeesViolation'
<1> DEFINE line == RowLine(partial_row_start, scan_pos)
<1>1. /\ AbsolutePos' = AbsolutePos + n /\ accepted' = accepted
      /\ quote' = OnDelimiter(quote) /\ pc' = "scanning"
      /\ violation' = FirstOf(FirstOf(violation, Rebase(SplitRow(line).violation,
                                                        buffer_offset + partial_row_start)),
                              quote.violation)
  BY KnownTypes DEF EndRow, Scanning, AbsolutePos, history, ViolationWithRow
<1>2. violation = quote.violation /\ QuoteAfter(accepted, AbsolutePos, quote)
  BY DEF ScanSeesViolation, QuotesFollowText
<1>3. violation' = quote.violation
  <2>1. CASE violation # NoViolation
    BY <1>1, <1>2, <2>1 DEF FirstOf
  <2>2. CASE violation = NoViolation
    <3>1. line = SubSeq(accepted, RowStart + 1, AbsolutePos) /\ line \in Seq(Byte)
      <4>1. scan_pos \in partial_row_start..Len(buffer) /\ partial_row_start \in Nat
        BY DEF Known, TypeOK, PositionsOK, BuffersOK
      <4>2. QED
        BY <4>1, KnownTypes, WindowSlice DEF Known, RowLine, RowStart, AbsolutePos
    <3>2. /\ accepted \in Seq(Byte) /\ RowStart \in Nat /\ AbsolutePos \in Nat
          /\ RowStart <= AbsolutePos /\ AbsolutePos <= Len(accepted)
      BY KnownTypes
    <3>3. /\ RowStart \in {0} \cup RowEnds(accepted)
          /\ \A i \in EndsUpTo(accepted, AbsolutePos) : i <= RowStart
      BY DEF Known, ScanCutsRows, RowStartIsLastEnd
    <3>4. RowFrom(accepted, RowStart) /\ RowEnds(line) = {}
      BY <3>1, <3>2, <3>3, NoEndWithin
    <3>5. BadUpTo(accepted, AbsolutePos) = {}
      <4>1. IsFirstIn(accepted, NoViolation, BadUpTo(accepted, AbsolutePos))
        BY <1>2, <2>2 DEF QuoteAfter
      <4>2. QED
        BY <4>1, ViolationIsSome, Zenon DEF IsFirstIn
    <3>6. ~Quoted(accepted, AbsolutePos + 1)
      BY KnownTypes
    <3>7. AbsolutePos < Len(accepted) /\ accepted[AbsolutePos] = CR /\ RowStart < AbsolutePos
             => accepted[AbsolutePos + 1] # LF
      BY <3>2 DEF Known, ScanCutsRows, CrLfTogether
    <3>8. FirstViolation(line, TRUE) = NoViolation
      BY <3>1, <3>2, <3>4, <3>5, <3>6, <3>7, RowIsWellFormed
    <3>9. SplitRow(line).violation = NoViolation
      BY <3>1, <3>4, <3>8, SplitRowIs
    <3>10. QED
      BY <1>1, <1>2, <2>2, <3>9 DEF FirstOf, Rebase
  <2>3. QED
    BY <2>1, <2>2
<1>4. QuotesFollowText'
  BY <1>1, <1>3, KnownTypes, QuoteKeeps DEF QuotesFollowText
<1>5. EscapeTogether'
  BY <1>1, ByteRoles DEF EscapeTogether
<1>6. LeftAtEnd'
  BY <1>1 DEF LeftAtEnd, Idle
<1>7. QED
  BY <1>4, <1>5, <1>6 DEF ScanSeesViolation

(* Each iteration of scan sees the violation of what it has read.         *)
LEMMA IterateSees ==
    ASSUME Known, ScanSeesViolation, Iterate
    PROVE  ScanSeesViolation'
<1> DEFINE at == AbsolutePos + 1
           p  == AbsolutePos
           s  == accepted
<1>1. /\ Scanning /\ TypeOK /\ BufferIsWindow
      /\ s \in Seq(Byte) /\ p \in Nat
      /\ at \in 1..Len(s) /\ p < Len(s)
      /\ s[at] \in Byte /\ Class = ByteClass(s[at])
      /\ quote \in QuoteStates /\ quote.in_quotes \in BOOLEAN
  <2>1. TypeOK /\ BufferIsWindow
    BY DEF Known
  <2>2. Scanning
    BY DEF Iterate, QuotedByte, QuotedEscape, OpeningEscape, Separator,
           LineFeed, CrLf, Data
  <2>3. quote.in_quotes \in BOOLEAN
    BY KnownTypes DEF QuoteStates
  <2>4. QED
    BY <2>1, <2>2, <2>3, KnownTypes, ScannedByte
<1>2. QuoteAfter(s, p, quote)
  BY DEF ScanSeesViolation, QuotesFollowText
<1>3. ASSUME scan_pos + 1 < Len(buffer)
      PROVE  /\ at + 1 \in 1..Len(s) /\ NextByte = s[at + 1]
             /\ at + 1 = p + 2 /\ p + 1 < Len(s)
  BY <1>1, <1>3, ScannedByte
<1>4. CASE QuotedByte
  <2>1. Advance(quote, 1) /\ quote.in_quotes = TRUE /\ s[at] # Escape
    BY <1>1, <1>4, EscapeClass DEF QuotedByte
  <2>2. QuoteAfter(s, p + 1, quote)
    BY <1>1, <1>2, <2>1, QuoteOnQuoted
  <2>3. FirstOf(quote.violation, quote.violation) = quote.violation
    BY DEF FirstOf
  <2>4. QED
    BY <1>1, <2>1, <2>2, <2>3, AdvanceSees
<1>5. CASE QuotedEscape
  <2>1. scan_pos + 1 < Len(buffer) /\ s[at] = Escape /\ quote.in_quotes = TRUE
    BY <1>1, <1>5, LookaheadIsThere, EscapeClass DEF QuotedEscape
  <2>2. NextByte = s[p + 2] /\ p + 1 < Len(s)
    BY <1>3, <2>1
  <2>3. CASE NextByte = Escape
    <3>1. Advance(quote, 2)
      BY <1>5, <2>1, <2>3 DEF QuotedEscape, OnEscape
    <3>2. QuoteAfter(s, p + 2, quote)
      BY <1>1, <1>2, <2>1, <2>2, <2>3, QuoteOnDoubled
    <3>3. p + 2 <= Len(s)
      BY <1>1, <2>2
    <3>4. FirstOf(quote.violation, quote.violation) = quote.violation
      BY DEF FirstOf
    <3>5. QED
      BY <1>1, <2>1, <3>1, <3>2, <3>3, <3>4, AdvanceSees
  <2>4. CASE NextByte # Escape
    <3> DEFINE q == OnEscape(quote, p, FALSE)
    <3>1. Advance(q, 1)
      <4>1. (NextByte = Escape) = FALSE
        BY <2>4
      <4>2. QED
        BY <1>5, <2>4, <4>1 DEF QuotedEscape
    <3>2. QuoteAfter(s, p + 1, q)
      BY <1>1, <1>2, <2>1, <2>2, <2>4, QuoteOnClosing
    <3>3. FirstOf(quote.violation, q.violation) = q.violation
      BY <1>1, QuoteKeeps
    <3>4. p + 1 # Len(s)
      BY <1>1, <2>2
    <3> HIDE DEF q
    <3>5. QED
      BY <1>1, <3>1, <3>2, <3>3, <3>4, AdvanceSees
  <2>5. QED
    BY <2>3, <2>4
<1>6. CASE OpeningEscape
  <2> DEFINE q == OnEscape(quote, p, FALSE)
  <2>1. Advance(q, 1) /\ quote.in_quotes = FALSE /\ s[at] = Escape
    BY <1>1, <1>6, EscapeClass DEF OpeningEscape
  <2>2. QuoteAfter(s, p + 1, q)
    BY <1>1, <1>2, <2>1, QuoteOnOpening
  <2>3. FirstOf(quote.violation, q.violation) = q.violation
    BY <1>1, QuoteKeeps
  <2>4. q.in_quotes
    BY <2>1 DEF OnEscape
  <2> HIDE DEF q
  <2>5. QED
    BY <1>1, <2>1, <2>2, <2>3, <2>4, AdvanceSees
<1>7. CASE Separator
  <2> DEFINE q == OnDelimiter(quote)
  <2>1. Advance(q, 1) /\ quote.in_quotes = FALSE /\ s[at] \in Separators
    BY <1>1, <1>7, SplitClass DEF Separator
  <2>2. QuoteAfter(s, p + 1, q)
    BY <1>1, <1>2, <2>1, QuoteOnDelimiter
  <2>3. FirstOf(quote.violation, q.violation) = q.violation
    BY <1>1, QuoteKeeps
  <2> HIDE DEF q
  <2>4. QED
    BY <1>1, <2>1, <2>2, <2>3, ByteRoles, AdvanceSees
<1>8. CASE LineFeed
  <2>1. EndRow(1) /\ quote.in_quotes = FALSE /\ s[at] = LF
    BY <1>1, <1>8, Roles DEF LineFeed
  <2>2. QuoteAfter(s, p + 1, OnDelimiter(quote))
    BY <1>1, <1>2, <2>1, QuoteOnDelimiter
  <2>3. QED
    BY <1>1, <2>1, <2>2, EndRowSees
<1>9. CASE CrLf
  <2>1. EndRow(2) /\ quote.in_quotes = FALSE /\ s[at] = CR /\ NextByte = LF
    BY <1>1, <1>9, Roles DEF CrLf
  <2>2. s[p + 2] = LF /\ p + 1 < Len(s)
    BY <1>1, <1>3, <1>9, <2>1, LookaheadIsThere DEF CrLf
  <2>3. QuoteAfter(s, p + 2, OnDelimiter(quote))
    BY <1>1, <1>2, <2>1, <2>2, QuoteOnCrLf
  <2>4. p + 2 <= Len(s)
    BY <1>1, <2>2
  <2>5. QED
    BY <1>1, <2>1, <2>2, <2>3, <2>4, EndRowSees
<1>10. CASE Data
  <2> DEFINE q == OnData(quote, p)
  <2>1. /\ Advance(q, 1) /\ quote.in_quotes = FALSE
        /\ s[at] \notin Separators \cup {LF, Escape}
    BY <1>1, <1>10, Roles, SplitClass, EscapeClass DEF Data
  <2>2. s[at] = CR => s[p + 2] # LF
    <3>1. SUFFICES ASSUME s[at] = CR
                   PROVE  s[p + 2] # LF
      OBVIOUS
    <3>2. Class = "cr" /\ ~quote.in_quotes /\ Class # "data"
      BY <1>1, <1>10, <3>1, Roles DEF Data
    <3>3. scan_pos + 1 < Len(buffer) /\ NextByte # LF
      BY <1>1, <1>10, <3>2, LookaheadIsThere DEF Data
    <3>4. QED
      BY <1>1, <1>3, <3>3
  <2>3. QuoteAfter(s, p + 1, q)
    BY <1>1, <1>2, <2>1, <2>2, QuoteOnData
  <2>4. FirstOf(quote.violation, q.violation) = q.violation
    BY <1>1, QuoteKeeps
  <2> HIDE DEF q
  <2>5. QED
    BY <1>1, <2>1, <2>3, <2>4, AdvanceSees
<1>11. QED
  BY <1>4, <1>5, <1>6, <1>7, <1>8, <1>9, <1>10 DEF Iterate

-----------------------------------------------------------------------------
(* The other steps. *)

(* feed appends to what has been read.                                    *)
LEMMA FeedSees ==
    ASSUME Known, ScanSeesViolation, NEW chunk \in Seq(Byte), Feed(chunk)
    PROVE  ScanSeesViolation'
<1> DEFINE s == accepted
           p == AbsolutePos
           t == s \o chunk
<1>1. /\ accepted' = t /\ quote' = quote /\ violation' = violation /\ pc' = "scanning"
      /\ AbsolutePos' = p
  BY DEF Feed, AbsolutePos
<1>2. s \in Seq(Byte) /\ p \in 0..Len(s) /\ quote.in_quotes = Quoted(s, p + 1)
  BY KnownTypes
<1>3. /\ t \in Seq(Byte) /\ Len(t) = Len(s) + Len(chunk) /\ Len(chunk) \in Nat
      /\ \A i \in 1..Len(s) : t[i] = s[i]
  BY <1>2, ConcatProperties
<1>4. p = Len(s) /\ p > 0 /\ s[p] \in {CR, Escape} => Quoted(s, p + 1)
  <2>1. p > 0 /\ s[p] = CR /\ ~quote.in_quotes => p < Len(s)
    BY DEF Known, ScanCutsRows, CrLfTogether
  <2>2. p > 0 /\ s[p] = Escape /\ ~quote.in_quotes => p < Len(s)
    BY DEF ScanSeesViolation, EscapeTogether
  <2>3. QED
    BY <1>2, <2>1, <2>2
<1>5. QuotesFollowText'
  <2>1. violation = quote.violation /\ QuoteAfter(s, p, quote)
    BY DEF ScanSeesViolation, QuotesFollowText
  <2> HIDE DEF s, p
  <2>2. QuoteAfter(t, p, quote)
    BY <1>2, <1>4, <2>1, QuoteGrows
  <2>3. QED
    BY <1>1, <2>1, <2>2 DEF QuotesFollowText
<1>6. EscapeTogether'
  <2>1. SUFFICES ASSUME p > 0, t[p] = Escape, ~quote.in_quotes
                 PROVE  p < Len(t)
    BY <1>1 DEF EscapeTogether
  <2>2. s[p] = Escape
    BY <1>2, <1>3, <2>1
  <2>3. p < Len(s)
    BY <2>1, <2>2 DEF ScanSeesViolation, EscapeTogether
  <2>4. QED
    BY <1>2, <1>3, <2>3
<1>7. LeftAtEnd'
  BY <1>1 DEF LeftAtEnd, Idle
<1>8. QED
  BY <1>5, <1>6, <1>7 DEF ScanSeesViolation

(* A scan ends having read all that it can tell.                          *)
LEMMA EndScanSees ==
    ASSUME Known, ScanSeesViolation, EndScan
    PROVE  ScanSeesViolation'
<1>1. /\ accepted' = accepted /\ quote' = quote /\ violation' = violation
      /\ AbsolutePos' = AbsolutePos
  BY KnownTypes, SMTT(30) DEF EndScan, Compact, AbsolutePos, history
<1>2. QuotesFollowText' /\ EscapeTogether'
  BY <1>1 DEF ScanSeesViolation, QuotesFollowText, EscapeTogether
<1>3. /\ scan_pos \in Nat /\ scan_pos <= Len(buffer) /\ buffer_offset \in Nat
      /\ Len(buffer) \in Nat /\ buffer_offset + Len(buffer) = Len(accepted)
      /\ Len(accepted) \in Nat /\ TypeOK /\ BufferIsWindow
  BY DEF Known, TypeOK, PositionsOK, BuffersOK, BufferIsWindow
<1>4. \/ AbsolutePos = Len(accepted)
      \/ /\ AbsolutePos + 1 = Len(accepted)
         /\ IF quote.in_quotes THEN accepted[AbsolutePos + 1] = Escape
                               ELSE accepted[AbsolutePos + 1] = CR
  <2>1. CASE scan_pos >= Len(buffer)
    BY <1>3, <2>1 DEF AbsolutePos
  <2>2. CASE Waiting
    <3>1. AbsolutePos + 1 = Len(accepted) /\ scan_pos + 1 \in 1..Len(buffer)
          /\ buffer_offset + (scan_pos + 1) = AbsolutePos + 1
      BY <1>3, <2>2 DEF Waiting, AbsolutePos
    <3>2. /\ buffer[scan_pos + 1] = accepted[AbsolutePos + 1]
          /\ buffer[scan_pos + 1] \in Byte
      BY <1>3, <3>1, WindowByte
    <3>3. /\ quote.in_quotes => accepted[AbsolutePos + 1] = Escape
          /\ ~quote.in_quotes => accepted[AbsolutePos + 1] = CR
      BY <2>2, <3>2, Roles, EscapeClass DEF Waiting, Class
    <3>4. QED
      BY <3>1, <3>3
  <2>3. QED
    BY <2>1, <2>2 DEF EndScan
<1>5. LeftAtEnd'
  BY <1>1, <1>4 DEF LeftAtEnd
<1>6. QED
  BY <1>2, <1>5 DEF ScanSeesViolation

(* Nothing is seen in an empty text.                                      *)
LEMMA EmptySees ==
    /\ QuoteAfter(<<>>, 0, NewQuote) /\ NewQuote.violation = NoViolation
    /\ ~(0 > 0) /\ Len(<<>>) = 0
<1>1. <<>> \in Seq(Byte)
  OBVIOUS
<1>2. QuoteAfter(<<>>, 0, NewQuote)
  BY <1>1, QuoteAtStart, Zenon
<1>3. NewQuote.violation = NoViolation
  BY DEF NewQuote
<1>4. ~(0 > 0) /\ Len(<<>>) = 0
  OBVIOUS
<1>5. QED
  BY <1>2, <1>3, <1>4

(* A new parser has seen nothing.                                         *)
LEMMA InitSees == Init => ScanSeesViolation
<1> SUFFICES ASSUME Init
             PROVE  ScanSeesViolation
  OBVIOUS
<1>1. AbsolutePos = 0 /\ accepted = <<>> /\ quote = NewQuote /\ violation = NoViolation
  BY DEF Init, AbsolutePos
<1>2. QED
  BY <1>1, EmptySees
     DEF ScanSeesViolation, QuotesFollowText, EscapeTogether, LeftAtEnd

(* finalize leaves an empty text.                                         *)
LEMMA FinalizeSees == Finalize => ScanSeesViolation'
<1> SUFFICES ASSUME Finalize
             PROVE  ScanSeesViolation'
  OBVIOUS
<1>1. AbsolutePos' = 0 /\ accepted' = <<>> /\ quote' = NewQuote /\ violation' = NoViolation
  BY DEF Finalize, AbsolutePos
<1>2. QED
  BY <1>1, EmptySees
     DEF ScanSeesViolation, QuotesFollowText, EscapeTogether, LeftAtEnd

(* Every step keeps what a scan knows.                                    *)
LEMMA NextSees ==
    ASSUME Known, ScanSeesViolation, [Next]_vars
    PROVE  ScanSeesViolation'
<1>1. ASSUME UNCHANGED <<accepted, quote, violation, pc>>, AbsolutePos' = AbsolutePos
      PROVE  ScanSeesViolation'
  BY <1>1 DEF ScanSeesViolation, QuotesFollowText, EscapeTogether, LeftAtEnd, Idle
<1>2. ASSUME NEW n \in 0..MaxInput - Len(accepted), NEW chunk \in [1..n -> Byte],
             Feed(chunk)
      PROVE  ScanSeesViolation'
  <2>1. chunk \in Seq(Byte)
    BY KnownTypes, SizeAssumption
  <2>2. QED
    BY <1>2, <2>1, FeedSees
<1>3. CASE \E n \in 0..MaxInput - Len(accepted) : FeedOverflow(n)
  BY <1>1, <1>3 DEF FeedOverflow, AbsolutePos
<1>4. CASE \E max \in Limits : SetMaxBuffer(max)
  BY <1>1, <1>4 DEF SetMaxBuffer, AbsolutePos
<1>5. CASE \E max \in 0..Len(complete_rows) : NextRows(max)
  BY <1>1, <1>5 DEF NextRows, AbsolutePos
<1>6. CASE UNCHANGED vars
  BY <1>1, <1>6 DEF vars, history, AbsolutePos
<1>7. QED
  BY <1>2, <1>3, <1>4, <1>5, <1>6, IterateSees, EndScanSees, FinalizeSees DEF Next

(* While a chunk is scanned, the quote state is that of the text scanned    *)
(* so far, and the violation kept is that of its first bad byte.            *)
THEOREM ScanSees == Spec => []ScanSeesViolation
<1>1. TypeOK /\ BufferIsWindow /\ QuoteIsParity /\ ScanCutsRows
          /\ ScanSeesViolation /\ [Next]_vars => ScanSeesViolation'
  BY NextSees DEF Known
<1>2. QED
  BY <1>1, InitSees, TypeCorrect, WindowCorrect, QuotesCorrect, ScanCorrect, PTL DEF Spec

(* However the text is cut into chunks and the buffer compacted, between    *)
(* calls the violation kept is the first of the text fed so far, at its     *)
(* position in the whole text.                                              *)
THEOREM ViolationCorrect == Spec => []ViolationIsFirst
<1>1. TypeOK /\ BufferIsWindow /\ QuoteIsParity /\ ScanCutsRows /\ ScanSeesViolation
          => ViolationIsFirst
  <2>1. SUFFICES ASSUME Known, ScanSeesViolation, Idle
                 PROVE  violation = FirstViolation(accepted, FALSE)
    BY DEF Known, ViolationIsFirst
  <2>2. /\ accepted \in Seq(Byte) /\ AbsolutePos \in Nat
        /\ quote.in_quotes = Quoted(accepted, AbsolutePos + 1)
    BY <2>1, KnownTypes
  <2>3. IsFirstIn(accepted, violation, BadUpTo(accepted, AbsolutePos))
    BY <2>1 DEF ScanSeesViolation, QuotesFollowText, QuoteAfter
  <2>4. AbsolutePos = Len(accepted) /\ AbsolutePos > 0 /\ accepted[AbsolutePos] = CR
           => Quoted(accepted, AbsolutePos + 1)
    BY <2>1, <2>2 DEF Known, ScanCutsRows, CrLfTogether
  <2>5. QED
    BY <2>1, <2>2, <2>3, <2>4, FirstSoFar DEF ScanSeesViolation, LeftAtEnd
<1>2. QED
  BY <1>1, TypeCorrect, WindowCorrect, QuotesCorrect, ScanCorrect, ScanSees, PTL

-----------------------------------------------------------------------------
(* The rows of a whole text. *)

(* The row ends before and at a rank have none between them.              *)
LEMMA RowEndsAdjacent ==
    ASSUME NEW s \in Seq(Byte), NEW k \in 1..Cardinality(RowEnds(s))
    PROVE  /\ Adjacent(s, RowEnd(s, k - 1), RowEnd(s, k))
           /\ Cardinality(EndsUpTo(s, RowEnd(s, k))) = k
<1> DEFINE E == RowEnds(s)
           n == Cardinality(E)
<1>1. E \in SUBSET Int /\ IsFiniteSet(E) /\ n \in Nat
  BY RowEndsFinite
<1>2. k \in 0..n /\ k - 1 \in 0..n /\ k > 0 /\ k - 1 < k
  BY <1>1
<1>3. \A j \in 0..n :
         /\ RowEnd(s, j) \in 0..Len(s)
         /\ j > 0 => RowEnd(s, j) \in E
         /\ \A i \in 0..n : i < j => RowEnd(s, i) < RowEnd(s, j)
  BY RowEndInText
<1>4. RowEnd(s, k - 1) \in {0} \cup E
  <2>1. CASE k - 1 = 0
    BY <2>1 DEF RowEnd
  <2>2. CASE k - 1 # 0
    <3>1. k - 1 > 0
      BY <1>2, <2>2
    <3>2. QED
      BY <1>2, <1>3, <3>1
  <2>3. QED
    BY <2>1, <2>2
<1>5. ASSUME NEW i \in E
      PROVE  i <= RowEnd(s, k - 1) \/ RowEnd(s, k) <= i
  <2> DEFINE r == Rank(E, i)
  <2>1. r \in 1..n /\ Nth(E, r) = i
    BY <1>1, RankOfElement, NthOfElement
  <2> HIDE DEF r
  <2>2. r \in 0..n /\ r # 0
    BY <1>1, <2>1
  <2>3. RowEnd(s, r) = i
    BY <2>1, <2>2 DEF RowEnd
  <2>4. r < k - 1 \/ r = k - 1 \/ r = k \/ k < r
    BY <1>1, <2>1
  <2>5. i \in Int /\ RowEnd(s, k - 1) \in Int /\ RowEnd(s, k) \in Int
    BY <1>2, <1>3, <1>1
  <2>6. CASE r < k - 1
    <3>1. RowEnd(s, r) < RowEnd(s, k - 1)
      BY <1>2, <1>3, <2>2, <2>6
    <3>2. QED
      BY <2>3, <2>5, <3>1
  <2>7. CASE r = k - 1 \/ r = k
    BY <2>3, <2>5, <2>7
  <2>8. CASE k < r
    <3>1. RowEnd(s, k) < RowEnd(s, r)
      BY <1>2, <1>3, <2>2, <2>8
    <3>2. QED
      BY <2>3, <2>5, <3>1
  <2>9. QED
    BY <2>4, <2>6, <2>7, <2>8
<1>6. RowEnd(s, k) \in E /\ RowEnd(s, k - 1) < RowEnd(s, k)
  BY <1>2, <1>3
<1>7. Adjacent(s, RowEnd(s, k - 1), RowEnd(s, k))
  BY <1>4, <1>5, <1>6 DEF Adjacent
<1>8. Cardinality(EndsUpTo(s, RowEnd(s, k))) = k
  <2>1. RowEnd(s, k) = Nth(E, k)
    BY <1>2 DEF RowEnd
  <2>2. Rank(E, Nth(E, k)) = k
    <3> HIDE DEF E
    <3>1. k \in 1..Cardinality(E)
      BY DEF E
    <3>2. QED
      BY <1>1, <3>1, NthOfRank
  <2>3. QED
    BY <2>1, <2>2 DEF Rank, EndsUpTo
<1>9. QED
  BY <1>7, <1>8

(* Lines cut out of a whole text are its lines. *)
LEMMA CutsAreLines ==
    ASSUME NEW s \in Seq(Byte), NEW lines \in Seq(Seq(Byte)), CutsRows(lines, s, Len(s))
    PROVE  lines = EndedLines(s)
<1> DEFINE n == Cardinality(RowEnds(s))
<1>1. n \in Nat /\ \A i \in RowEnds(s) : i \in 1..Len(s)
  BY RowEndsFinite
<1>2. EndsUpTo(s, Len(s)) = RowEnds(s)
  <2>1. \A i \in 1..Len(s) : i <= Len(s)
    OBVIOUS
  <2>2. QED
    BY <1>1, <2>1, Zenon DEF EndsUpTo
<1>3. Len(lines) = n
  BY <1>2 DEF CutsRows
<1>4. /\ EndedLines(s) \in Seq(Seq(Byte)) /\ Len(EndedLines(s)) = n
      /\ \A k \in 1..n : EndedLines(s)[k] = LineAt(s, RowEnd(s, k - 1) + 1, RowEnd(s, k))
  BY EndedLinesAt
<1>5. ASSUME NEW k \in 1..n
      PROVE  lines[k] = EndedLines(s)[k]
  <2> DEFINE first == RowEnd(s, k - 1)
             last  == RowEnd(s, k)
  <2>1. Adjacent(s, first, last) /\ Cardinality(EndsUpTo(s, last)) = k
    BY RowEndsAdjacent
  <2>2. first \in 0..Len(s)
    <3>1. k - 1 \in 0..n
      BY <1>1
    <3>2. QED
      BY <3>1, RowEndInText
  <2>3. last \in EndsUpTo(s, Len(s))
    BY <1>2, <2>1 DEF Adjacent
  <2> HIDE DEF first, last
  <2>4. lines[Cardinality(EndsUpTo(s, last))] = LineAt(s, first + 1, last)
    BY <2>1, <2>2, <2>3 DEF CutsRows
  <2>5. QED
    BY <1>4, <2>1, <2>4 DEF first, last
<1> HIDE DEF n
<1>6. QED
  BY <1>3, <1>4, <1>5

(* A line between two row ends holds none. *)
LEMMA LineIsOneRow ==
    ASSUME NEW s \in Seq(Byte), NEW k \in 1..Cardinality(RowEnds(s))
    PROVE  RowEnds(EndedLines(s)[k]) = {}
<1> DEFINE a == RowEnd(s, k - 1)
           e == RowEnd(s, k)
           b == IF e > a + 1 /\ s[e - 1] = CR THEN e - 2 ELSE e - 1
<1>1. Adjacent(s, a, e)
  BY RowEndsAdjacent
<1>2. e \in 1..Len(s) /\ a \in {0} \cup RowEnds(s) /\ a < e /\ Len(s) \in Nat
  BY <1>1 DEF Adjacent, RowEnds
<1>3. a \in Nat
  BY <1>2 DEF RowEnds
<1>4. \A i \in RowEnds(s) : i <= a \/ e <= i
  BY <1>1 DEF Adjacent
<1>5. EndedLines(s)[k] = SubSeq(s, a + 1, b)
  BY EndedLinesAt DEF LineAt
<1> HIDE DEF a, e
<1>6. b \in Nat /\ a <= b /\ b <= Len(s) /\ b < e
  BY <1>2, <1>3
<1> HIDE DEF b
<1>7. \A i \in EndsUpTo(s, b) : i <= a
  <2>1. ASSUME NEW i \in EndsUpTo(s, b)
        PROVE  i <= a
    <3>1. i \in RowEnds(s) /\ i <= b /\ i \in Int
      BY <2>1 DEF EndsUpTo, RowEnds
    <3>2. ~(e <= i)
      BY <1>2, <1>6, <3>1
    <3>3. QED
      BY <1>4, <3>1, <3>2
  <2>2. QED
    BY <2>1
<1>8. RowEnds(SubSeq(s, a + 1, b)) = {}
  BY <1>2, <1>3, <1>6, <1>7, NoEndWithin
<1>9. QED
  BY <1>5, <1>8

(* The last line starts at the last row end. *)
LEMMA LastLineFrom ==
    ASSUME NEW s \in Seq(Byte), NEW a \in {0} \cup RowEnds(s),
           \A i \in RowEnds(s) : i <= a
    PROVE  /\ LastLine(s) = SubSeq(s, a + 1, Len(s))
           /\ a \in 0..Len(s) /\ LastLine(s) \in Seq(Byte)
           /\ LastLine(s) = <<>> <=> a = Len(s)
           /\ RowFrom(s, a) /\ RowEnds(LastLine(s)) = {}
<1>1. {0} \cup RowEnds(s) \in SUBSET Int /\ a \in 0..Len(s) /\ Len(s) \in Nat
  BY DEF RowEnds
<1>2. \A i \in {0} \cup RowEnds(s) : i <= a
  BY <1>1
<1>3. Max({0} \cup RowEnds(s)) = a
  BY <1>1, <1>2, MaxIsGreatest
<1>4. LastLine(s) = SubSeq(s, a + 1, Len(s))
  BY <1>3 DEF LastLine
<1>5. /\ SubSeq(s, a + 1, Len(s)) \in Seq(Byte)
      /\ Len(SubSeq(s, a + 1, Len(s))) = Len(s) - a
  <2>1. a \in Nat /\ Len(s) \in Nat /\ a <= Len(s) /\ Len(s) <= Len(s)
    BY <1>1
  <2>2. QED
    BY <2>1, PartOfText
<1>6. SubSeq(s, a + 1, Len(s)) = <<>> <=> a = Len(s)
  <2> DEFINE w == SubSeq(s, a + 1, Len(s))
  <2>1. w \in Seq(Byte) /\ Len(w) = Len(s) - a
    BY <1>5
  <2> HIDE DEF w
  <2>2. w = <<>> <=> Len(w) = 0
    BY <2>1
  <2>3. QED
    BY <1>1, <2>1, <2>2 DEF w
<1>7. RowFrom(s, a) /\ RowEnds(SubSeq(s, a + 1, Len(s))) = {}
  <2>1. a \in Nat /\ Len(s) \in Nat /\ a <= Len(s) /\ Len(s) <= Len(s)
    BY <1>1
  <2>2. \A i \in EndsUpTo(s, Len(s)) : i <= a
    BY DEF EndsUpTo
  <2>3. QED
    BY <2>1, <2>2, NoEndWithin
<1>8. QED
  BY <1>1, <1>4, <1>5, <1>6, <1>7

(* Every line of a whole text is one row. *)
LEMMA AllLinesAreRows ==
    ASSUME NEW s \in Seq(Byte)
    PROVE  /\ AllLines(s) \in Seq(Seq(Byte))
           /\ \A k \in 1..Len(AllLines(s)) : RowEnds(AllLines(s)[k]) = {}
           /\ \A k \in 1..Len(EndedLines(s)) : RowEnds(EndedLines(s)[k]) = {}
<1> DEFINE n == Cardinality(RowEnds(s))
           a == RowEnd(s, n)
           last == LastLine(s)
           lines == EndedLines(s)
<1>1. n \in Nat /\ lines \in Seq(Seq(Byte)) /\ Len(lines) = n
  BY RowEndsFinite, EndedLinesAt
<1>2. \A k \in 1..n : RowEnds(lines[k]) = {}
  BY LineIsOneRow
<1>3. last \in Seq(Byte) /\ RowEnds(last) = {}
  <2>1. n \in 0..n
    BY <1>1
  <2>2. a \in {0} \cup RowEnds(s)
    <3>1. CASE n = 0
      BY <3>1 DEF RowEnd
    <3>2. CASE n # 0
      <4>1. n > 0
        BY <1>1, <3>2
      <4>2. QED
        BY <2>1, <4>1, RowEndInText
    <3>3. QED
      BY <3>1, <3>2
  <2>3. ASSUME NEW i \in RowEnds(s)
        PROVE  i <= a
    <3> DEFINE r == Rank(RowEnds(s), i)
    <3>1. r \in 1..n /\ Nth(RowEnds(s), r) = i
      BY RowEndsFinite, RankOfElement, NthOfElement
    <3> HIDE DEF r
    <3>2. r \in 0..n /\ r # 0 /\ (r < n \/ r = n)
      BY <1>1, <3>1
    <3>3. RowEnd(s, r) = i
      BY <3>1, <3>2 DEF RowEnd
    <3>4. RowEnd(s, r) \in Int /\ a \in Int
      BY <2>1, <3>2, RowEndInText
    <3>5. r < n => RowEnd(s, r) < a
      BY <2>1, <3>2, RowEndInText
    <3>6. QED
      BY <3>2, <3>3, <3>4, <3>5
  <2> HIDE DEF a
  <2>4. QED
    BY <2>2, <2>3, LastLineFrom
<1>4. CASE last = <<>>
  <2>1. AllLines(s) = lines \o <<>>
    BY <1>4 DEF AllLines
  <2> HIDE DEF lines
  <2>2. lines \o <<>> = lines
    BY <1>1, ConcatEmptySeq
  <2>3. QED
    BY <1>1, <1>2, <2>1, <2>2 DEF lines
<1>5. CASE last # <<>>
  <2>1. AllLines(s) = lines \o <<last>>
    BY <1>5 DEF AllLines
  <2> HIDE DEF lines, last, n
  <2>2. lines \o <<last>> = Append(lines, last)
    BY <1>1, <1>3, AppendIsConcat
  <2>3. /\ AllLines(s) \in Seq(Seq(Byte)) /\ Len(AllLines(s)) = n + 1
        /\ \A k \in 1..n : AllLines(s)[k] = lines[k]
        /\ AllLines(s)[n + 1] = last
    <3> DEFINE R == Seq(Byte)
    <3>1. lines \in Seq(R) /\ last \in R
      BY <1>1, <1>3
    <3> HIDE DEF R
    <3>2. /\ Append(lines, last) \in Seq(R) /\ Len(Append(lines, last)) = n + 1
          /\ \A k \in 1..n : Append(lines, last)[k] = lines[k]
          /\ Append(lines, last)[n + 1] = last
      BY <1>1, <3>1, AppendProperties
    <3>3. QED
      BY <2>1, <2>2, <3>2 DEF R
  <2>4. \A k \in 1..n + 1 : k \in 1..n \/ k = n + 1
    BY <1>1
  <2>5. \A k \in 1..Len(AllLines(s)) : RowEnds(AllLines(s)[k]) = {}
    BY <1>2, <1>3, <2>3, <2>4
  <2>6. QED
    BY <1>1, <1>2, <2>3, <2>5 DEF lines
<1>6. QED
  BY <1>4, <1>5

-----------------------------------------------------------------------------
(* The abstract stream speaks of texts with definitions of its own. *)

(* Quotes.                                                                *)
LEMMA StreamQuoted ==
    ASSUME NEW s, NEW i
    PROVE  Stream!Quoted(s, i) = Quoted(s, i)
<1>1. Stream!Escapes(s, i) = Escapes(s, i)
  BY DEF Stream!Escapes, Escapes
<1>2. \A S : Stream!Cardinality(S) = Cardinality(S)
  BY DEF Stream!Cardinality, Cardinality, Stream!IsFiniteSet, IsFiniteSet
<1>3. QED
  BY <1>1, <1>2 DEF Stream!Quoted, Quoted

(* Listings.                                                              *)
LEMMA StreamInOrder ==
    ASSUME NEW S
    PROVE  Stream!InOrder(S) = InOrder(S)
<1>1. \A T : Stream!Cardinality(T) = Cardinality(T)
  BY DEF Stream!Cardinality, Cardinality, Stream!IsFiniteSet, IsFiniteSet
<1>2. \A k : Stream!Nth(S, k) = Nth(S, k)
  BY <1>1 DEF Stream!Nth, Nth
<1>3. QED
  BY <1>1, <1>2, Zenon DEF Stream!InOrder, InOrder

(* Row ends.                                                              *)
LEMMA StreamRowEnds ==
    ASSUME NEW s
    PROVE  Stream!RowEnds(s) = RowEnds(s)
BY StreamQuoted DEF Stream!RowEnds, RowEnds

(* Lines.                                                                 *)
LEMMA StreamLines ==
    ASSUME NEW s
    PROVE  Stream!EndedLines(s) = EndedLines(s) /\ Stream!AllLines(s) = AllLines(s)
<1>1. \A i, j : Stream!LineAt(s, i, j) = LineAt(s, i, j)
  BY DEF Stream!LineAt, LineAt
<1>2. Stream!RowEnds(s) = RowEnds(s)
  BY StreamRowEnds
<1>3. Stream!InOrder(RowEnds(s)) = InOrder(RowEnds(s))
  BY StreamInOrder
<1>4. Stream!EndedLines(s) = EndedLines(s)
  BY <1>1, <1>2, <1>3, Zenon DEF Stream!EndedLines, EndedLines
<1>5. \A S : Stream!Max(S) = Max(S)
  BY DEF Stream!Max, Max
<1>6. Stream!LastLine(s) = LastLine(s)
  BY <1>2, <1>5 DEF Stream!LastLine, LastLine
<1>7. QED
  BY <1>4, <1>6 DEF Stream!AllLines, AllLines

(* Violations.                                                            *)
LEMMA StreamViolation ==
    ASSUME NEW s, NEW complete
    PROVE  Stream!FirstViolation(s, complete) = FirstViolation(s, complete)
<1>1. Stream!UnexpectedQuotes(s) = UnexpectedQuotes(s)
  BY StreamQuoted DEF Stream!UnexpectedQuotes, UnexpectedQuotes
<1>2. Stream!TrailingGarbage(s, complete) = TrailingGarbage(s, complete)
  BY StreamQuoted DEF Stream!TrailingGarbage, TrailingGarbage
<1>3. \A S : Stream!Min(S) = Min(S)
  BY DEF Stream!Min, Min
<1>4. Stream!NoViolation = NoViolation
  BY DEF Stream!NoViolation, NoViolation
<1>5. QED
  BY <1>1, <1>2, <1>3, <1>4, StreamQuoted, Zenon DEF Stream!FirstViolation, FirstViolation

(* Fields.                                                                *)
LEMMA StreamFields ==
    ASSUME NEW line
    PROVE  Stream!FieldsOf(line) = FieldsOf(line)
<1>1. \A f : Stream!UnescapeField(f) = UnescapeField(f)
  BY DEF Stream!UnescapeField, UnescapeField, Stream!FoldLeftDomain, FoldLeftDomain,
         Stream!FoldLeft, FoldLeft, Stream!MapThenFoldSet, MapThenFoldSet,
         Stream!Max, Max
<1>2. \A f : Stream!ExtractField(f) = ExtractField(f)
  BY <1>1 DEF Stream!ExtractField, ExtractField
<1> DEFINE S == {i \in DOMAIN line : line[i] \in Separators /\ ~Quoted(line, i)}
<1>3. {i \in DOMAIN line : line[i] \in Separators /\ ~Stream!Quoted(line, i)} = S
  BY StreamQuoted
<1>4. Stream!InOrder(S) = InOrder(S)
  BY StreamInOrder
<1>5. QED
  BY <1>2, <1>3, <1>4, Zenon DEF Stream!FieldsOf, FieldsOf

-----------------------------------------------------------------------------
(* The rows of lines. *)

RowValues == {SplitRow(line).fields : line \in Seq(Byte)}

(* Splitting lines gives one row for each.                                *)
LEMMA SplitType ==
    ASSUME NEW lines \in Seq(Seq(Byte))
    PROVE  /\ Split(lines) \in Seq(RowValues) /\ Len(Split(lines)) = Len(lines)
           /\ \A k \in 1..Len(lines) : Split(lines)[k] = SplitRow(lines[k]).fields
<1> DEFINE n == Len(lines)
<1>1. n \in Nat /\ DOMAIN lines = 1..n /\ \A k \in 1..n : lines[k] \in Seq(Byte)
  BY ElementOfSeq
<1>2. \A k \in 1..n : SplitRow(lines[k]).fields \in RowValues
  BY <1>1, Zenon DEF RowValues
<1> HIDE DEF n
<1>3. Split(lines) = [k \in 1..n |-> SplitRow(lines[k]).fields]
  BY <1>1 DEF Split
<1>4. Split(lines) \in [1..n -> RowValues]
  BY <1>2, <1>3, Zenon
<1> DEFINE w == Split(lines)
<1>5. w \in Seq(RowValues) /\ Len(w) = n
  <2> HIDE DEF w
  <2>1. w \in [1..n -> RowValues]
    BY <1>4 DEF w
  <2>2. QED
    BY <1>1, <2>1
<1>6. QED
  BY <1>3, <1>5 DEF n

(* Lines are split one by one.                                            *)
LEMMA SplitConcat ==
    ASSUME NEW u \in Seq(Seq(Byte)), NEW v \in Seq(Seq(Byte))
    PROVE  Split(u \o v) = Split(u) \o Split(v)
<1> DEFINE R == Seq(Byte)
           w == u \o v
           m == Len(u)
           n == Len(v)
<1>1. u \in Seq(R) /\ v \in Seq(R)
  OBVIOUS
<1>2. /\ w \in Seq(R) /\ Len(w) = m + n /\ m \in Nat /\ n \in Nat
      /\ \A k \in 1..m : w[k] = u[k]
      /\ \A k \in 1..n : w[m + k] = v[k]
  <2> HIDE DEF R
  <2>1. QED
    BY <1>1, ConcatProperties
<1>3. /\ Split(u) \in Seq(RowValues) /\ Len(Split(u)) = m
      /\ \A k \in 1..m : Split(u)[k] = SplitRow(u[k]).fields
  BY SplitType
<1>4. /\ Split(v) \in Seq(RowValues) /\ Len(Split(v)) = n
      /\ \A k \in 1..n : Split(v)[k] = SplitRow(v[k]).fields
  BY SplitType
<1>5. /\ Split(w) \in Seq(RowValues) /\ Len(Split(w)) = m + n
      /\ \A k \in 1..m + n : Split(w)[k] = SplitRow(w[k]).fields
  BY <1>2, SplitType
<1> HIDE DEF w, m, n
<1> DEFINE a == Split(u)
           b == Split(v)
           c == Split(w)
<1>6. /\ a \o b \in Seq(RowValues) /\ Len(a \o b) = m + n
      /\ \A k \in 1..m : (a \o b)[k] = a[k]
      /\ \A k \in 1..n : (a \o b)[m + k] = b[k]
  <2> HIDE DEF a, b
  <2>1. a \in Seq(RowValues) /\ Len(a) = m /\ b \in Seq(RowValues) /\ Len(b) = n
    BY <1>3, <1>4 DEF a, b
  <2>2. /\ a \o b \in Seq(RowValues) /\ Len(a \o b) = m + n
        /\ \A k \in 1..m + n : (a \o b)[k] = IF k <= m THEN a[k] ELSE b[k - m]
    BY <2>1, ConcatProperties
  <2>3. \A k \in 1..n : m + k \in 1..m + n /\ ~(m + k <= m) /\ (m + k) - m = k
    BY <1>2
  <2>4. \A k \in 1..m : k \in 1..m + n /\ k <= m
    BY <1>2
  <2>5. QED
    BY <2>2, <2>3, <2>4
<1>7. ASSUME NEW k \in 1..m + n
      PROVE  c[k] = (a \o b)[k]
  <2>1. CASE k \in 1..m
    BY <1>2, <1>3, <1>5, <1>6, <2>1, ZenonT(40)
  <2>2. CASE k \notin 1..m
    <3>1. k - m \in 1..n /\ m + (k - m) = k
      BY <1>2, <2>2
    <3>2. w[m + (k - m)] = v[k - m] /\ (a \o b)[m + (k - m)] = b[k - m]
      BY <1>2, <1>6, <3>1
    <3>3. b[k - m] = SplitRow(v[k - m]).fields
      BY <1>4, <3>1
    <3>4. c[k] = SplitRow(w[k]).fields
      BY <1>5
    <3>5. QED
      BY <3>1, <3>2, <3>3, <3>4
  <2>3. QED
    BY <2>1, <2>2
<1>8. c = a \o b
  <2> DEFINE d == a \o b
  <2>1. /\ c \in Seq(RowValues) /\ Len(c) = m + n /\ d \in Seq(RowValues) /\ Len(d) = m + n
        /\ \A k \in 1..m + n : c[k] = d[k]
    BY <1>5, <1>6, <1>7
  <2> HIDE DEF c, d
  <2>2. c = d
    BY <2>1, SeqEqual
  <2>3. QED
    BY <2>2 DEF d
<1>9. QED
  BY <1>8 DEF w

(* The first rows are those of the first lines.                           *)
LEMMA SplitPart ==
    ASSUME NEW u \in Seq(Seq(Byte)), NEW n \in 0..Len(u)
    PROVE  /\ SubSeq(u, 1, n) \in Seq(Seq(Byte)) /\ Len(SubSeq(u, 1, n)) = n
           /\ SubSeq(u, n + 1, Len(u)) \in Seq(Seq(Byte))
           /\ SubSeq(Split(u), 1, n) = Split(SubSeq(u, 1, n))
<1> DEFINE R == Seq(Byte)
           w == SubSeq(u, 1, n)
<1>1. u \in Seq(R) /\ Len(u) \in Nat /\ n \in Int
  OBVIOUS
<1>2. /\ w \in Seq(R) /\ Len(w) = n /\ SubSeq(u, n + 1, Len(u)) \in Seq(R)
      /\ \A k \in 1..n : w[k] = u[k]
  <2> HIDE DEF R
  <2>1. \A k \in 1..Len(u) : u[k] \in R
    BY <1>1
  <2>2. /\ w \in Seq(R) /\ Len(w) = n
        /\ \A k \in 1..n : w[k] = u[k]
    BY <1>1, <2>1, SubSeqProperties
  <2>3. SubSeq(u, n + 1, Len(u)) \in Seq(R)
    BY <1>1, <2>1, SubSeqProperties
  <2>4. QED
    BY <2>2, <2>3
<1>3. /\ Split(u) \in Seq(RowValues) /\ Len(Split(u)) = Len(u)
      /\ \A k \in 1..Len(u) : Split(u)[k] = SplitRow(u[k]).fields
  BY SplitType
<1>4. /\ Split(w) \in Seq(RowValues) /\ Len(Split(w)) = n
      /\ \A k \in 1..n : Split(w)[k] = SplitRow(w[k]).fields
  BY <1>2, SplitType
<1> HIDE DEF w
<1> DEFINE a == Split(u)
           b == Split(w)
<1>5. b = SubSeq(a, 1, n)
  <2>1. ASSUME NEW k \in 1..n
        PROVE  a[k] = b[k]
    <3>1. k \in 1..Len(u)
      OBVIOUS
    <3>2. a[k] = SplitRow(u[k]).fields
      BY <1>3, <3>1
    <3>3. b[k] = SplitRow(w[k]).fields /\ w[k] = u[k]
      BY <1>2, <1>4
    <3>4. QED
      BY <3>2, <3>3
  <2> HIDE DEF a, b
  <2>2. /\ a \in Seq(RowValues) /\ Len(a) = Len(u)
        /\ b \in Seq(RowValues) /\ Len(b) = n
    BY <1>3, <1>4 DEF a, b
  <2>3. /\ SubSeq(a, 1, n) \in Seq(RowValues) /\ Len(SubSeq(a, 1, n)) = n
        /\ \A k \in 1..n : SubSeq(a, 1, n)[k] = a[k]
    BY <1>1, <2>2, SubSeqProperties
  <2>4. QED
    BY <2>1, <2>2, <2>3
<1>6. QED
  BY <1>2, <1>5 DEF w

(* The rows of lines with no row end within are those the stream promises. *)
LEMMA SplitIsRows ==
    ASSUME NEW lines \in Seq(Seq(Byte)), \A k \in 1..Len(lines) : RowEnds(lines[k]) = {}
    PROVE  Split(lines) = Stream!RowsOf[lines]
<1>1. DOMAIN lines = 1..Len(lines) /\ \A k \in 1..Len(lines) : lines[k] \in Seq(Byte)
  BY ElementOfSeq
<1>2. \A line \in Seq(Byte) : Stream!FieldsOfLine[line] = FieldsOf(line)
  BY StreamFields DEF Stream!FieldsOfLine
<1>3. \A k \in DOMAIN lines : SplitRow(lines[k]).fields = Stream!FieldsOfLine[lines[k]]
  BY <1>1, <1>2, SplitRowIs
<1>4. Stream!RowsOf[lines] = [k \in DOMAIN lines |-> Stream!FieldsOfLine[lines[k]]]
  BY DEF Stream!RowsOf
<1>5. QED
  BY <1>3, <1>4 DEF Split

(* Splitting the lines of a text gives its rows.                          *)
LEMMA SplitIsEndedRows ==
    ASSUME NEW s \in Seq(Byte)
    PROVE  /\ Split(EndedLines(s)) = Stream!EndedRows(s)
           /\ Split(AllLines(s)) = Stream!AllRows(s)
<1>1. EndedLines(s) \in Seq(Seq(Byte))
  BY EndedLinesAt
<1>2. QED
  BY <1>1, AllLinesAreRows, SplitIsRows, StreamLines DEF Stream!EndedRows, Stream!AllRows

-----------------------------------------------------------------------------
(* What a finalize finds. *)

(* An empty text violates nothing.                                        *)
LEMMA EmptyIsWellFormed == FirstViolation(<<>>, TRUE) = NoViolation
<1>1. <<>> \in Seq(Byte) /\ Len(<<>>) = 0
  OBVIOUS
<1>2. BadBytes(<<>>) = {}
  <2>1. 2..Len(<<>>) = {}
    BY <1>1
  <2>2. QED
    BY <2>1 DEF BadBytes, UnexpectedQuotes, TrailingGarbage
<1>3. IsFirstIn(<<>>, NoViolation, BadBytes(<<>>))
  BY <1>2, FirstOfNone
<1>4. ~Quoted(<<>>, Len(<<>>) + 1)
  BY ParityEmpty
<1>5. QED
  BY <1>1, <1>3, <1>4, FirstOfAll, Zenon

(* What finalize would return, and the violation it would report.         *)
LEMMA FinalFinds ==
    ASSUME Known, RowsAreLines, ScanSeesViolation, Idle
    PROVE  /\ taken \o complete_rows = EndedLines(accepted)
           /\ taken \o FinalRows = AllLines(accepted)
           /\ FinalViolation = FirstViolation(accepted, TRUE)
<1> DEFINE s == accepted
           a == RowStart
           lines == taken \o complete_rows
           last == RowLine(partial_row_start, Len(buffer))
<1>1. /\ s \in Seq(Byte) /\ Len(s) \in Nat /\ AbsolutePos \in 0..Len(s) /\ a \in 0..AbsolutePos
      /\ lines \in Seq(Seq(Byte)) /\ taken \in Seq(Seq(Byte))
      /\ complete_rows \in Seq(Seq(Byte))
  BY KnownTypes
<1>2. lines = EndedLines(s)
  <2>1. CutsRows(lines, s, Len(s))
    BY DEF RowsAreLines
  <2>2. QED
    BY <1>1, <2>1, CutsAreLines
<1>3. a \in {0} \cup RowEnds(s) /\ \A i \in RowEnds(s) : i <= a
  BY DEF Known, ScanCutsRows, RowStartIsLastEnd, AllEndsFound
<1>4. /\ LastLine(s) = SubSeq(s, a + 1, Len(s)) /\ LastLine(s) \in Seq(Byte)
      /\ LastLine(s) = <<>> <=> a = Len(s)
      /\ RowFrom(s, a) /\ RowEnds(LastLine(s)) = {}
  BY <1>1, <1>3, LastLineFrom
<1>5. /\ buffer_offset \in Nat /\ partial_row_start \in Nat /\ Len(buffer) \in Nat
      /\ partial_row_start <= Len(buffer) /\ buffer_offset + Len(buffer) = Len(s)
      /\ a = buffer_offset + partial_row_start
  BY DEF Known, TypeOK, PositionsOK, BuffersOK, BufferIsWindow, RowStart
<1>6. HasPartial <=> LastLine(s) # <<>>
  BY <1>4, <1>5 DEF HasPartial
<1>7. last = LastLine(s)
  <2>1. Len(buffer) \in partial_row_start..Len(buffer)
    BY <1>5
  <2>2. last = SubSeq(s, buffer_offset + partial_row_start + 1, buffer_offset + Len(buffer))
    BY <1>5, <2>1, WindowSlice DEF Known, RowLine
  <2>3. QED
    BY <1>4, <1>5, <2>2
<1>8. taken \o FinalRows = AllLines(s)
  <2>1. CASE HasPartial
    <3>1. FinalRows = complete_rows \o <<LastLine(s)>>
      BY <1>7, <2>1 DEF FinalRows
    <3>2. AllLines(s) = lines \o <<LastLine(s)>>
      BY <1>2, <1>6, <2>1 DEF AllLines
    <3> DEFINE R == Seq(Byte)
    <3>3. taken \in Seq(R) /\ complete_rows \in Seq(R) /\ <<LastLine(s)>> \in Seq(R)
      BY <1>1, <1>4
    <3> HIDE DEF R
    <3>4. taken \o (complete_rows \o <<LastLine(s)>>) = lines \o <<LastLine(s)>>
      BY <3>3, ConcatAssociative
    <3>5. QED
      BY <3>1, <3>2, <3>4
  <2>2. CASE ~HasPartial
    <3> DEFINE R == Seq(Byte)
    <3>1. FinalRows = complete_rows \o <<>> /\ AllLines(s) = lines \o <<>>
      BY <1>2, <1>6, <2>2 DEF FinalRows, AllLines
    <3>2. complete_rows \in Seq(R) /\ lines \in Seq(R)
      BY <1>1
    <3> HIDE DEF R, lines
    <3>3. complete_rows \o <<>> = complete_rows /\ lines \o <<>> = lines
      BY <3>2, ConcatEmptySeq
    <3>4. QED
      BY <3>1, <3>3 DEF lines
  <2>3. QED
    BY <2>1, <2>2
<1>9. FinalViolation = FirstViolation(s, TRUE)
  <2> DEFINE w == FirstViolation(LastLine(s), TRUE)
  <2>1. FirstViolation(s, TRUE) = FirstOf(violation, Rebase(w, a))
    <3>1. IsFirstIn(s, violation, BadUpTo(s, AbsolutePos))
      BY DEF ScanSeesViolation, QuotesFollowText, QuoteAfter
    <3>2. a \in Nat /\ AbsolutePos \in Nat /\ a <= AbsolutePos /\ AbsolutePos <= Len(s)
      BY <1>1
    <3>3. QED
      BY <1>1, <1>4, <3>1, <3>2, ViolationOfRest, ZenonT(40)
  <2>2. CASE HasPartial
    <3>1. SplitRow(LastLine(s)).violation = w
      BY <1>4, SplitRowIs
    <3>2. QED
      BY <1>5, <1>7, <2>1, <2>2, <3>1 DEF FinalViolation, ViolationWithRow
  <2>3. CASE ~HasPartial
    <3>1. w = NoViolation
      BY <1>6, <2>3, EmptyIsWellFormed
    <3>2. QED
      BY <2>1, <2>3, <3>1 DEF FinalViolation, FirstOf, Rebase
  <2>4. QED
    BY <2>2, <2>3
<1>10. QED
  BY <1>2, <1>8, <1>9

(* Whenever finalize is called, the rows returned before it and the rows it *)
(* finds are all the rows of the text, with their fields, and the violation *)
(* it finds is the first of the text.                                       *)
THEOREM FinalCorrect == Spec => []FinalIsWholeText
<1>1. TypeOK /\ BufferIsWindow /\ QuoteIsParity /\ ScanCutsRows /\ RowsAreLines
          /\ ScanSeesViolation => FinalIsWholeText
  <2>1. SUFFICES ASSUME Known, RowsAreLines, ScanSeesViolation, Idle
                 PROVE  /\ Split(taken \o FinalRows) = Stream!AllRows(accepted)
                        /\ FinalViolation = FirstViolation(accepted, TRUE)
    BY DEF Known, FinalIsWholeText
  <2>2. accepted \in Seq(Byte)
    BY <2>1, KnownTypes
  <2>3. QED
    BY <2>1, <2>2, FinalFinds, SplitIsEndedRows
<1>2. QED
  BY <1>1, TypeCorrect, WindowCorrect, QuotesCorrect, ScanCorrect, RowsCorrect, ScanSees, PTL

-----------------------------------------------------------------------------
(* The parser implements the abstract stream. *)

ReturnedAsTaken == returned = Split(taken)

(* No line gives no row.                                                  *)
LEMMA SplitOfNone == Split(<<>>) = <<>>
<1>1. <<>> \in Seq(Seq(Byte)) /\ Len(<<>>) = 0
  OBVIOUS
<1>2. Split(<<>>) \in Seq(RowValues) /\ Len(Split(<<>>)) = 0
  BY <1>1, SplitType
<1> DEFINE w == Split(<<>>)
<1>3. w = <<>>
  <2> HIDE DEF w
  <2>1. w \in Seq(RowValues) /\ Len(w) = 0
    BY <1>2 DEF w
  <2>2. QED
    BY <2>1
<1>4. QED
  BY <1>3

(* The rows a call takes. *)
LEMMA NextRowsTakes ==
    ASSUME Known, ReturnedAsTaken, NEW n \in 0..Len(complete_rows), NextRows(n), ~Malformed
    PROVE  /\ taken' = taken \o SubSeq(complete_rows, 1, n)
           /\ returned' = returned \o Split(SubSeq(complete_rows, 1, n))
           /\ returned' = Split(taken')
<1>1. n \in Nat /\ Len(complete_rows) \in Nat /\ taken \in Seq(Seq(Byte))
      /\ complete_rows \in Seq(Seq(Byte))
      /\ (IF n < Len(complete_rows) THEN n ELSE Len(complete_rows)) = n
  BY KnownTypes
<1>2. /\ taken' = taken \o SubSeq(complete_rows, 1, n)
      /\ returned' = returned \o Split(SubSeq(complete_rows, 1, n))
  BY <1>1 DEF NextRows
<1>3. SubSeq(complete_rows, 1, n) \in Seq(Seq(Byte))
  BY <1>1, SplitPart
<1>4. Split(taken \o SubSeq(complete_rows, 1, n))
         = Split(taken) \o Split(SubSeq(complete_rows, 1, n))
  BY <1>1, <1>3, SplitConcat
<1>5. QED
  BY <1>2, <1>4 DEF ReturnedAsTaken

(* Every step keeps what has been returned.                               *)
LEMMA NextReturned ==
    ASSUME Known, ReturnedAsTaken, [Next]_vars
    PROVE  ReturnedAsTaken'
<1>1. ASSUME UNCHANGED <<taken, returned>>
      PROVE  ReturnedAsTaken'
  BY <1>1 DEF ReturnedAsTaken
<1>2. ASSUME NEW max \in 0..Len(complete_rows), NextRows(max)
      PROVE  ReturnedAsTaken'
  <2>1. CASE Malformed
    BY <1>1, <1>2, <2>1 DEF NextRows
  <2>2. CASE ~Malformed
    BY <1>2, <2>2, NextRowsTakes DEF ReturnedAsTaken
  <2>3. QED
    BY <2>1, <2>2
<1>3. CASE Finalize
  BY <1>3, SplitOfNone DEF Finalize, ReturnedAsTaken
<1>4. CASE Iterate
  BY <1>1, <1>4 DEF Iterate, QuotedByte, QuotedEscape, OpeningEscape, Separator,
                    LineFeed, CrLf, Data, Advance, EndRow, history
<1>5. CASE EndScan
  BY <1>1, <1>5 DEF EndScan, history
<1>6. CASE \E n \in 0..MaxInput - Len(accepted) :
              \/ \E chunk \in [1..n -> Byte] : Feed(chunk)
              \/ FeedOverflow(n)
  BY <1>1, <1>6 DEF Feed, FeedOverflow
<1>7. CASE \E max \in Limits : SetMaxBuffer(max)
  BY <1>1, <1>7 DEF SetMaxBuffer
<1>8. CASE UNCHANGED vars
  BY <1>1, <1>8 DEF vars, history
<1>9. QED
  BY <1>2, <1>3, <1>4, <1>5, <1>6, <1>7, <1>8 DEF Next

(* The rows returned are the rows of the lines taken. *)
THEOREM ReturnedCorrect == Spec => []ReturnedAsTaken
<1>1. Init => ReturnedAsTaken
  BY SplitOfNone DEF Init, ReturnedAsTaken
<1>2. TypeOK /\ BufferIsWindow /\ QuoteIsParity /\ ScanCutsRows
          /\ ReturnedAsTaken /\ [Next]_vars => ReturnedAsTaken'
  BY NextReturned DEF Known
<1>3. QED
  BY <1>1, <1>2, TypeCorrect, WindowCorrect, QuotesCorrect, ScanCorrect, PTL DEF Spec

(* What follows the first part of two.                                    *)
LEMMA RestOfConcat ==
    ASSUME NEW R, NEW a \in Seq(R), NEW b \in Seq(R)
    PROVE  SubSeq(a \o b, Len(a) + 1, Len(a \o b)) = b
<1> DEFINE m == Len(a)
           n == Len(b)
           c == a \o b
           d == SubSeq(c, m + 1, m + n)
<1>1. /\ c \in Seq(R) /\ Len(c) = m + n /\ m \in Nat /\ n \in Nat
      /\ \A k \in 1..m + n : c[k] = IF k <= m THEN a[k] ELSE b[k - m]
  BY ConcatProperties
<1>2. \A k \in 1..m + n : c[k] \in R
  BY <1>1
<1>3. \A k \in 1..n : m + k \in 1..m + n /\ ~(m + k <= m) /\ (m + k) - m = k
                      /\ (m + 1) + k - 1 = m + k
  BY <1>1
<1>4. \A k \in 1..n : c[m + k] = b[k]
  BY <1>1, <1>3
<1> HIDE DEF c, m, n
<1>5. d \in Seq(R) /\ Len(d) = n /\ \A k \in 1..n : d[k] = c[m + k]
  <2>1. m + 1 \in Int /\ m + n \in Int /\ (m + n) - (m + 1) + 1 = n
        /\ \A k \in m + 1..m + n : c[k] \in R
    BY <1>1, <1>2
  <2>2. /\ d \in Seq(R)
        /\ Len(d) = IF m + 1 <= m + n THEN (m + n) - (m + 1) + 1 ELSE 0
        /\ \A k \in 1..(m + n) - (m + 1) + 1 : d[k] = c[(m + 1) + k - 1]
    BY <2>1, SubSeqProperties
  <2>3. (m + 1 <= m + n) \/ n = 0
    BY <1>1
  <2> HIDE DEF d
  <2>4. Len(d) = n
    BY <2>1, <2>2, <2>3
  <2>5. QED
    BY <1>3, <2>1, <2>2, <2>4
<1> HIDE DEF d
<1>6. d = b
  BY <1>4, <1>5, SeqEqual DEF n
<1>7. QED
  BY <1>1, <1>6 DEF c, d, m, n

(* What the abstract stream has to hand out is what the parser holds ready. *)
LEMMA StreamAvailable ==
    ASSUME Known, RowsAreLines, ScanSeesViolation, ReturnedAsTaken, Idle
    PROVE  /\ Stream!Available = Split(complete_rows)
           /\ Stream!Refuses(accepted, FALSE) <=> strict /\ FirstViolation(accepted, FALSE) # NoViolation
<1>1. accepted \in Seq(Byte) /\ taken \in Seq(Seq(Byte)) /\ complete_rows \in Seq(Seq(Byte))
  BY KnownTypes
<1>2. Stream!EndedRows(accepted) = returned \o Split(complete_rows)
  <2>1. Stream!EndedRows(accepted) = Split(taken \o complete_rows)
    BY <1>1, FinalFinds, SplitIsEndedRows
  <2>2. QED
    BY <1>1, <2>1, SplitConcat DEF ReturnedAsTaken
<1>3. returned \in Seq(RowValues) /\ Split(complete_rows) \in Seq(RowValues)
  BY <1>1, SplitType DEF ReturnedAsTaken
<1>4. Stream!Available = Split(complete_rows)
  BY <1>2, <1>3, RestOfConcat, Zenon DEF Stream!Available, Stream!After
<1>5. Stream!NoViolation = NoViolation
  BY DEF Stream!NoViolation, NoViolation
<1>6. QED
  BY <1>4, <1>5, StreamViolation, Zenon DEF Stream!Refuses

(* feed is an accept of the abstract stream.                              *)
LEMMA FeedAccepts ==
    ASSUME Known, NEW n \in 0..MaxInput - Len(accepted), NEW chunk \in [1..n -> Byte],
           Feed(chunk)
    PROVE  Stream!Accept
<1>1. accepted \in Seq(Byte) /\ MaxInput \in Nat /\ n \in Nat
  BY KnownTypes, SizeAssumption
<1>2. chunk \in Seq(Byte) /\ Len(chunk) = n
  BY <1>1
<1>3. /\ accepted' = accepted \o chunk /\ UNCHANGED <<returned, strict>>
  BY DEF Feed
<1> DEFINE t == accepted \o chunk
<1>4. t \in Seq(Byte) /\ Len(t) = Len(accepted) + n /\ Len(accepted) <= Len(t) /\ Len(t) <= MaxInput
  BY <1>1, <1>2, ConcatProperties
<1>5. SubSeq(accepted, 1, Len(accepted)) = SubSeq(t, 1, Len(accepted))
  <2>1. CASE Len(accepted) = 0
    <3>1. Len(accepted) < 1
      BY <2>1
    <3>2. QED
      BY <1>1, <1>4, <3>1, SubSeqEmpty
  <2>2. CASE Len(accepted) # 0
    <3>1. 1 \in 1..Len(accepted) /\ Len(accepted) \in 1..Len(accepted)
      BY <1>1, <2>2
    <3>2. QED
      BY <1>1, <1>2, <3>1, SubSeqOfConcat1
  <2>3. QED
    BY <2>1, <2>2
<1>6. Stream!IsPrefix(accepted, t)
  BY <1>4, <1>5 DEF Stream!IsPrefix
<1> HIDE DEF t
<1>7. accepted' = t
  BY <1>3 DEF t
<1>8. QED
  BY <1>3, <1>4, <1>6, <1>7 DEF Stream!Accept

(* next_rows is a delivery of the abstract stream, or a stutter.          *)
LEMMA NextRowsDelivers ==
    ASSUME Known, RowsAreLines, ScanSeesViolation, ViolationIsFirst, ReturnedAsTaken,
           NEW n \in 0..Len(complete_rows), NextRows(n)
    PROVE  [Stream!StreamNext]_Stream!streamVars
<1>1. pc = "idle" /\ Idle /\ accepted' = accepted /\ strict' = strict
  BY DEF NextRows, Idle
<1>2. CASE Malformed
  BY <1>1, <1>2 DEF NextRows, Stream!streamVars
<1>3. CASE ~Malformed
  <2> DEFINE part == Split(SubSeq(complete_rows, 1, n))
  <2>1. complete_rows \in Seq(Seq(Byte)) /\ taken \in Seq(Seq(Byte)) /\ n \in Nat
    BY KnownTypes
  <2>2. returned' = returned \o part
    BY <1>3, NextRowsTakes
  <2>3. returned \in Seq(RowValues) /\ Len(returned) \in Nat
    BY <2>1, SplitType DEF ReturnedAsTaken
  <2>4. part \in Seq(RowValues) /\ Len(part) = n
    BY <2>1, SplitPart, SplitType
  <2>5. part = SubSeq(Split(complete_rows), 1, n)
    BY <2>1, SplitPart
  <2>6. Stream!Available = Split(complete_rows) /\ Len(Stream!Available) = Len(complete_rows)
    BY <1>1, <2>1, StreamAvailable, SplitType
  <2>7. ~Stream!Refuses(accepted, FALSE)
    BY <1>1, <1>3, StreamAvailable DEF Malformed, ViolationIsFirst
  <2> HIDE DEF part
  <2>8. Stream!Deliver(n)
    <3>1. n <= Len(Stream!Available)
      BY <2>6
    <3>2. QED
      BY <1>1, <2>2, <2>5, <2>6, <2>7, <3>1 DEF Stream!Deliver
  <2>9. CASE n = 0
    <3>1. part = <<>>
      BY <2>4, <2>9
    <3>2. returned' = returned
      BY <2>2, <2>3, <3>1, ConcatEmptySeq
    <3>3. QED
      BY <1>1, <3>2 DEF Stream!streamVars
  <2>10. CASE n # 0
    <3>1. Len(returned') = Len(returned) + n
      BY <2>2, <2>3, <2>4, ConcatProperties
    <3>2. n = Len(returned') - Len(returned) /\ n > 0
      BY <2>1, <2>3, <2>10, <3>1
    <3>3. QED
      BY <2>8, <3>2 DEF Stream!StreamNext
  <2>11. QED
    BY <2>9, <2>10
<1>4. QED
  BY <1>2, <1>3

(* Every step is a step of the abstract stream, or a stutter.             *)
LEMMA NextImplements ==
    ASSUME Known, RowsAreLines, ScanSeesViolation, ViolationIsFirst, ReturnedAsTaken,
           [Next]_vars
    PROVE  [Stream!StreamNext]_Stream!streamVars
<1>1. ASSUME UNCHANGED <<accepted, returned, strict>>
      PROVE  [Stream!StreamNext]_Stream!streamVars
  BY <1>1 DEF Stream!streamVars
<1>2. ASSUME NEW n \in 0..MaxInput - Len(accepted), NEW chunk \in [1..n -> Byte],
             Feed(chunk)
      PROVE  [Stream!StreamNext]_Stream!streamVars
  BY <1>2, FeedAccepts DEF Stream!StreamNext
<1>3. CASE \E n \in 0..MaxInput - Len(accepted) : FeedOverflow(n)
  BY <1>1, <1>3 DEF FeedOverflow
<1>4. CASE Iterate
  BY <1>1, <1>4 DEF Iterate, QuotedByte, QuotedEscape, OpeningEscape, Separator,
                    LineFeed, CrLf, Data, Advance, EndRow, history
<1>5. CASE EndScan
  BY <1>1, <1>5 DEF EndScan, history
<1>6. CASE Finalize
  BY <1>6 DEF Finalize, Stream!StreamNext, Stream!Close
<1>7. CASE \E max \in Limits : SetMaxBuffer(max)
  BY <1>1, <1>7 DEF SetMaxBuffer
<1>8. CASE UNCHANGED vars
  BY <1>1, <1>8 DEF vars, history
<1>9. QED
  BY <1>2, <1>3, <1>4, <1>5, <1>6, <1>7, <1>8, NextRowsDelivers DEF Next

(* The parser implements the abstract stream: a feed appends to the text,   *)
(* next_rows hands out the next rows of the text, with the fields a parse   *)
(* of the whole text gives them, each once and none once a strict parser    *)
(* holds a violation, finalize closes the text, and no other step shows.    *)
THEOREM Implements == Spec => ImplementsCsvStream
<1>1. Init => Stream!StreamInit
  BY DEF Init, Stream!StreamInit
<1>2. TypeOK /\ BufferIsWindow /\ QuoteIsParity /\ ScanCutsRows /\ RowsAreLines
          /\ ScanSeesViolation /\ ViolationIsFirst /\ ReturnedAsTaken /\ [Next]_vars
          => [Stream!StreamNext]_Stream!streamVars
  BY NextImplements DEF Known
<1>3. QED
  BY <1>1, <1>2, TypeCorrect, WindowCorrect, QuotesCorrect, ScanCorrect, RowsCorrect,
     ScanSees, ViolationCorrect, ReturnedCorrect, PTL
     DEF Spec, ImplementsCsvStream, Stream!StreamSpec
=============================================================================
