--------------------------- MODULE StreamingParser ---------------------------
(***************************************************************************)
(* The streaming parser of strategy/streaming.rs (single-byte separators   *)
(* and escape, default newlines) behind its NIFs in lib.rs.                *)
(*                                                                         *)
(* A NIF holds the mutex of the parser for its whole call, so calls do not *)
(* overlap.  Feed is the one call that is not a single action: it appends  *)
(* the chunk, then every iteration of the loop of process_buffer is an     *)
(* action, and EndScan leaves the loop, compacts the buffer and replies.   *)
(* No other call can start in between (pc = "scanning").                   *)
(*                                                                         *)
(* Positions count from zero, as in the code; the byte at position n is    *)
(* buffer[n + 1].  A row is kept as the bytes of its line; its fields are  *)
(* SplitRow(line).fields, which parse_row_owned computes from them.        *)
(***************************************************************************)
EXTENDS CsvText

CONSTANTS DefaultMaxBuffer,  \* DEFAULT_MAX_BUFFER, in bytes
          Limits,            \* the values set_max_buffer is called with
          MaxInput           \* bound: bytes fed before a finalize

ASSUME SizeAssumption ==
    /\ DefaultMaxBuffer \in Nat
    /\ Limits \subseteq Nat
    /\ MaxInput \in Nat

VARIABLES buffer, complete_rows, partial_row_start, scan_pos, quote,
          max_buffer_size, buffer_offset,
          violation,       \* the fields of StreamingParser
          strict,          \* of StreamingParserResource
          pc,              \* "idle", or "scanning" inside a feed
          reply,           \* what the last call returned
          accepted,        \* history: the bytes fed since the last finalize
          taken,           \* history: the lines of the rows returned since then
          returned         \* history: those rows, as the caller got them
history == <<accepted, taken, returned>>
vars == <<buffer, complete_rows, partial_row_start, scan_pos, quote,
          max_buffer_size, buffer_offset, violation, strict, pc, reply,
          history>>

(***************************************************************************)
(* parse_row_owned: the fields of a line and its first violation, read     *)
(* with a quote state of its own.  A field is kept as its bounds until the *)
(* line has been read.  start is where the current field begins; skip      *)
(* marks the second escape of a doubled pair.                              *)
(***************************************************************************)
SplitStates ==
    [fields : Seq(Nat \X Nat), start : Nat, quote : QuoteStates, skip : BOOLEAN]

SplitStart == [fields |-> <<>>, start |-> 0, quote |-> NewQuote, skip |-> FALSE]

SplitByte(line, st, i) ==
    LET class   == ByteClass(line[i])
        doubled == i < Len(line) /\ line[i + 1] = Escape
    IN  CASE st.skip ->
               [st EXCEPT !.skip = FALSE]
          [] ~st.skip /\ class = "escape" ->
               [st EXCEPT !.quote = OnEscape(@, i - 1, doubled),
                          !.skip  = st.quote.in_quotes /\ doubled]
          [] ~st.skip /\ class # "escape" /\ st.quote.in_quotes ->
               st
          [] ~st.skip /\ class = "separator" /\ ~st.quote.in_quotes ->
               [st EXCEPT !.fields = Append(@, <<st.start, i - 1>>),
                          !.start  = i,
                          !.quote  = OnDelimiter(@)]
          [] OTHER ->
               [st EXCEPT !.quote = OnData(@, i - 1)]

(* The field between bounds that count from zero. *)
FieldWithin(line, bounds) == ExtractField(SubSeq(line, bounds[1] + 1, bounds[2]))

(* What has been read of the line is a function of where it is read up to. *)
SplitRow(line) ==
    LET read[n \in 0..Len(line)] ==
            IF n = 0
            THEN SplitStart
            ELSE [st \in SplitStates |-> SplitByte(line, st, n)][read[n - 1]]
        end == [st \in SplitStates |->
                  LET bounds == Append(st.fields, <<st.start, Len(line)>>)
                  IN  [fields    |-> [k \in DOMAIN bounds |-> FieldWithin(line, bounds[k])],
                       violation |-> Finish(st.quote, Len(line))]]
    IN  end[read[Len(line)]]

(* The rows of lines, as the library returns them. *)
Split(lines) == [k \in DOMAIN lines |-> SplitRow(lines[k]).fields]

(* Mutant: the last byte of the line is missed. *)
RowLineShort(start, end) == SubSeq(buffer, start + 1, end - 1)

(* push_complete_row(start, end): the line, and the violation after it. *)
RowLine(start, end) == SubSeq(buffer, start + 1, end)

ViolationWithRow(start, end) ==
    FirstOf(violation,
            Rebase(SplitRow(RowLine(start, end)).violation, buffer_offset + start))

(* Mutant: a partial row of one byte is missed. *)
HasPartialOffByOne == partial_row_start + 1 < Len(buffer)

HasPartial == partial_row_start < Len(buffer)

Malformed == strict /\ violation # NoViolation

-----------------------------------------------------------------------------

Init ==
    /\ buffer = <<>> /\ complete_rows = <<>>
    /\ partial_row_start = 0 /\ scan_pos = 0 /\ buffer_offset = 0
    /\ quote = NewQuote /\ violation = NoViolation
    /\ max_buffer_size = DefaultMaxBuffer
    /\ strict \in BOOLEAN
    /\ pc = "idle" /\ reply = "none"
    /\ accepted = <<>> /\ taken = <<>> /\ returned = <<>>

(* streaming_feed, up to the loop of process_buffer. *)
Feed(chunk) ==
    /\ pc = "idle"
    /\ Len(buffer) + Len(chunk) <= max_buffer_size
    /\ buffer' = buffer \o chunk
    /\ pc' = "scanning" /\ reply' = "none"
    /\ accepted' = accepted \o chunk
    /\ UNCHANGED <<complete_rows, partial_row_start, scan_pos, quote,
                   max_buffer_size, buffer_offset, violation, strict, taken, returned>>

(* A chunk of a size that does not fit is refused and the call raises. *)
FeedOverflow(size) ==
    /\ pc = "idle"
    /\ Len(buffer) + size > max_buffer_size
    /\ reply' = "buffer_overflow"
    /\ UNCHANGED <<buffer, complete_rows, partial_row_start, scan_pos, quote,
                   max_buffer_size, buffer_offset, violation, strict, pc,
                   accepted, taken, returned>>

-----------------------------------------------------------------------------
(* The loop of process_buffer. *)

Class == ByteClass(buffer[scan_pos + 1])
NextByte == buffer[scan_pos + 2]
(* Mutant: positions count from the start of the buffer. *)
PosInBuffer == scan_pos

AbsolutePos == buffer_offset + scan_pos

(* The last byte of the buffer can't be read without the one after it. *)
Waiting ==
    /\ scan_pos + 1 = Len(buffer)
    /\ \/ quote.in_quotes /\ Class = "escape"
       \/ ~quote.in_quotes /\ Class = "cr"

Scanning == pc = "scanning" /\ scan_pos < Len(buffer) /\ ~Waiting

(* An iteration that moves n bytes on and leaves the quote state q. *)
Advance(q, n) ==
    /\ quote' = q
    /\ scan_pos' = scan_pos + n
    /\ violation' = FirstOf(violation, q.violation)
    /\ UNCHANGED <<buffer, complete_rows, partial_row_start, max_buffer_size,
                   buffer_offset, strict, pc, reply, history>>

(* An iteration that ends a row at scan_pos with a newline of n bytes. *)
EndRow(n) ==
    /\ quote' = OnDelimiter(quote)
    /\ complete_rows' = Append(complete_rows, RowLine(partial_row_start, scan_pos))
    /\ scan_pos' = scan_pos + n
    /\ partial_row_start' = scan_pos + n
    /\ violation' = FirstOf(ViolationWithRow(partial_row_start, scan_pos),
                            quote.violation)
    /\ UNCHANGED <<buffer, max_buffer_size, buffer_offset, strict, pc, reply,
                   history>>

(* Mutant: a byte inside quotes is not consumed. *)
QuotedByteStays ==
    /\ Scanning /\ quote.in_quotes /\ Class # "escape"
    /\ Advance(quote, 0)

QuotedByte ==
    /\ Scanning /\ quote.in_quotes /\ Class # "escape"
    /\ Advance(quote, 1)

(* Mutant: the second escape of a pair is not consumed. *)
QuotedEscapeOneByte ==
    /\ Scanning /\ quote.in_quotes /\ Class = "escape"
    /\ Advance(OnEscape(quote, AbsolutePos, NextByte = Escape), 1)

QuotedEscape ==
    /\ Scanning /\ quote.in_quotes /\ Class = "escape"
    /\ LET doubled == NextByte = Escape
       IN  Advance(OnEscape(quote, AbsolutePos, doubled), IF doubled THEN 2 ELSE 1)

OpeningEscape ==
    /\ Scanning /\ ~quote.in_quotes /\ Class = "escape"
    /\ Advance(OnEscape(quote, AbsolutePos, FALSE), 1)

Separator ==
    /\ Scanning /\ ~quote.in_quotes /\ Class = "separator"
    /\ Advance(OnDelimiter(quote), 1)

LineFeed ==
    /\ Scanning /\ ~quote.in_quotes /\ Class = "lf"
    /\ EndRow(1)

CrLf ==
    /\ Scanning /\ ~quote.in_quotes /\ Class = "cr" /\ NextByte = LF
    /\ EndRow(2)

(* Mutant: a carriage return is data without a look at the next byte. *)
DataAnyCr ==
    /\ Scanning /\ ~quote.in_quotes
    /\ Class \in {"data", "cr"}
    /\ Advance(OnData(quote, AbsolutePos), 1)

Data ==
    /\ Scanning /\ ~quote.in_quotes
    /\ Class = "data" \/ (Class = "cr" /\ NextByte # LF)
    /\ Advance(OnData(quote, AbsolutePos), 1)

(* Mutant: compaction waits until the whole buffer has been cut. *)
CompactionDueLate == partial_row_start > 0 /\ partial_row_start >= Len(buffer)

CompactionDue == partial_row_start > 0 /\ partial_row_start >= Len(buffer) \div 2

(* Mutants: compaction leaves scan_pos, or buffer_offset. *)
CompactStalePos ==
    /\ buffer' = SubSeq(buffer, partial_row_start + 1, Len(buffer))
    /\ buffer_offset' = buffer_offset + partial_row_start
    /\ scan_pos' = scan_pos
    /\ partial_row_start' = 0

CompactStaleOffset ==
    /\ buffer' = SubSeq(buffer, partial_row_start + 1, Len(buffer))
    /\ buffer_offset' = buffer_offset
    /\ scan_pos' = scan_pos - partial_row_start
    /\ partial_row_start' = 0

(* compact_buffer, when it is due: the bytes of the rows cut out leave. *)
Compact ==
    /\ buffer' = SubSeq(buffer, partial_row_start + 1, Len(buffer))
    /\ buffer_offset' = buffer_offset + partial_row_start
    /\ scan_pos' = scan_pos - partial_row_start
    /\ partial_row_start' = 0

(* The end of process_buffer, with its compaction, and of the call. *)
EndScan ==
    /\ pc = "scanning"
    /\ scan_pos >= Len(buffer) \/ Waiting
    /\ IF CompactionDue
       THEN Compact
       ELSE UNCHANGED <<buffer, buffer_offset, scan_pos, partial_row_start>>
    /\ pc' = "idle"
    /\ reply' = IF Malformed THEN "malformed_csv" ELSE "ok"
    /\ UNCHANGED <<complete_rows, quote, max_buffer_size, violation, strict,
                   history>>

-----------------------------------------------------------------------------

(* Mutant: the rows are copied. *)
AllRemain(n) == complete_rows

(* What the removal of the first n rows leaves. *)
RowsAfter(n) == SubSeq(complete_rows, n + 1, Len(complete_rows))

(* streaming_next_rows: take_rows(max), unless a strict parser is malformed. *)
NextRows(max) ==
    /\ pc = "idle"
    /\ IF Malformed
       THEN /\ reply' = "malformed_csv"
            /\ UNCHANGED <<complete_rows, taken, returned>>
       ELSE LET n == IF max < Len(complete_rows) THEN max ELSE Len(complete_rows)
            IN  /\ reply' = "ok"
                /\ taken' = taken \o SubSeq(complete_rows, 1, n)
                /\ returned' = returned \o Split(SubSeq(complete_rows, 1, n))
                /\ complete_rows' = RowsAfter(n)
    /\ UNCHANGED <<buffer, partial_row_start, scan_pos, quote, max_buffer_size,
                   buffer_offset, violation, strict, pc, accepted>>

(* What finalize finds: the rows not returned yet, a row without newline   *)
(* being the last one, and the violation of the text that ends here.       *)
FinalRows ==
    complete_rows \o IF HasPartial
                     THEN <<RowLine(partial_row_start, Len(buffer))>>
                     ELSE <<>>

FinalViolation ==
    IF HasPartial THEN ViolationWithRow(partial_row_start, Len(buffer)) ELSE violation

(* streaming_finalize: finalize, then take_violation.  It returns FinalRows *)
(* unless the parser is strict and FinalViolation is one: then the rows are *)
(* lost.  The next feed starts a new text.                                  *)
Finalize ==
    /\ pc = "idle"
    /\ buffer' = <<>> /\ complete_rows' = <<>>
    /\ partial_row_start' = 0 /\ scan_pos' = 0 /\ buffer_offset' = 0
    /\ quote' = NewQuote /\ violation' = NoViolation
    /\ reply' = IF strict /\ FinalViolation # NoViolation THEN "malformed_csv" ELSE "ok"
    /\ accepted' = <<>> /\ taken' = <<>> /\ returned' = <<>>
    /\ UNCHANGED <<max_buffer_size, strict, pc>>

(* streaming_set_max_buffer. *)
SetMaxBuffer(max) ==
    /\ pc = "idle"
    /\ max_buffer_size' = max
    /\ reply' = "ok"
    /\ UNCHANGED <<buffer, complete_rows, partial_row_start, scan_pos, quote,
                   buffer_offset, violation, strict, pc, accepted, taken, returned>>

Iterate ==
    \/ QuotedByte \/ QuotedEscape \/ OpeningEscape \/ Separator
    \/ LineFeed \/ CrLf \/ Data

Next ==
    \/ \E n \in 0..MaxInput - Len(accepted) :
          \/ \E chunk \in [1..n -> Byte] : Feed(chunk)
          \/ FeedOverflow(n)
    \/ Iterate
    \/ EndScan
    \/ \E max \in 0..Len(complete_rows) : NextRows(max)
    \/ Finalize
    \/ \E max \in Limits : SetMaxBuffer(max)

Spec == Init /\ [][Next]_vars

(* A call that has started runs to its end. *)
FairSpec == Spec /\ WF_vars(Iterate \/ EndScan)

-----------------------------------------------------------------------------
(* Properties. *)

Idle == pc = "idle"

(* The abstract stream the callers of the parser see. *)
Stream == INSTANCE CsvStream WITH text <- accepted, delivered <- returned

PositionsOK ==
    /\ partial_row_start \in Nat /\ scan_pos \in Nat /\ buffer_offset \in Nat
    /\ partial_row_start <= scan_pos
    /\ scan_pos <= Len(buffer)

BuffersOK ==
    /\ buffer \in Seq(Byte) /\ accepted \in Seq(Byte)
    /\ complete_rows \in Seq(Seq(Byte)) /\ taken \in Seq(Seq(Byte))
    /\ max_buffer_size \in {DefaultMaxBuffer} \cup Limits

StatesOK ==
    /\ quote \in QuoteStates
    /\ strict \in BOOLEAN
    /\ pc \in {"idle", "scanning"}
    /\ reply \in {"none", "ok", "buffer_overflow", "malformed_csv"}

(* Every variable keeps its type, and the three positions of the parser    *)
(* stay in order and inside the buffer through scanning and compaction.    *)
(* What violation holds is the subject of ViolationIsFirst.                *)
TypeOK == PositionsOK /\ BuffersOK /\ StatesOK

(* The buffer is exactly the end of what was fed, from buffer_offset on:   *)
(* neither compaction nor a refused chunk loses, repeats or moves a byte,  *)
(* and absolute positions stay those of the whole text.                    *)
BufferIsWindow ==
    /\ buffer_offset + Len(buffer) = Len(accepted)
    /\ buffer = SubSeq(accepted, buffer_offset + 1, Len(accepted))

(* The quote state carried from chunk to chunk is the parity of all the    *)
(* escapes scanned so far, wherever the chunks were cut.                   *)
QuoteIsParity ==
    quote.in_quotes = Quoted(accepted, AbsolutePos + 1)

(* Between calls every row end of the text has been found, the line before *)
(* it is the row of its rank, and there is no other row: no chunking makes *)
(* the parser miss, repeat, merge or split a row.                          *)
RowsAreLines ==
    Idle => CutsRows(taken \o complete_rows, accepted, Len(accepted))

(* The same while a chunk is scanned, of the part that has been scanned;   *)
(* with what makes it inductive: the open row starts at the last row end,  *)
(* a carriage return is never scanned apart from its line feed, and a scan *)
(* stops before a row end only at the end of the buffer.                   *)
RowStart == buffer_offset + partial_row_start

RowsCutSoFar == CutsRows(taken \o complete_rows, accepted, AbsolutePos)

RowStartIsLastEnd ==
    /\ RowStart \in {0} \cup RowEnds(accepted)
    /\ \A i \in EndsUpTo(accepted, AbsolutePos) : i <= RowStart

CrLfTogether ==
    AbsolutePos > 0 /\ accepted[AbsolutePos] = CR /\ ~quote.in_quotes =>
        AbsolutePos < Len(accepted) /\ accepted[AbsolutePos + 1] # LF

AllEndsFound == Idle => EndsUpTo(accepted, AbsolutePos) = RowEnds(accepted)

ScanCutsRows == RowsCutSoFar /\ RowStartIsLastEnd /\ CrLfTogether /\ AllEndsFound

(* The violation kept is the first of the text fed so far, at its position *)
(* in the whole text, however the text was cut and the buffer compacted.   *)
ViolationIsFirst ==
    Idle => violation = FirstViolation(accepted, FALSE)

(* Whenever finalize is called it accounts for the whole text: the rows    *)
(* returned before it and the rows it finds are the rows of the text, and  *)
(* the violation it finds is the first of the text.                        *)
FinalIsWholeText ==
    Idle => /\ Split(taken \o FinalRows) = Stream!AllRows(accepted)
            /\ FinalViolation = FirstViolation(accepted, TRUE)

(* Between calls the rows already cut out fill less than half of the       *)
(* buffer: its size is bounded by twice the row that is still open.        *)
CompactedEnough ==
    Idle => \/ partial_row_start = 0
            \/ 2 * partial_row_start < Len(buffer)

(* The parser implements the abstract stream: buffering, scanning and      *)
(* compaction are not visible to its callers.  The rows they are returned  *)
(* are the next rows of the text with the fields a parse of the whole text *)
(* gives them, each once, and none once a strict parser has been fed a     *)
(* violation.                                                              *)
ImplementsCsvStream == Stream!StreamSpec

(* The scan of a chunk ends: each call is answered. *)
FeedEnds == pc = "scanning" ~> Idle
=============================================================================
