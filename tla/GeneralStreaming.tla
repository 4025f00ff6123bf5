--------------------------- MODULE GeneralStreaming ---------------------------
(***************************************************************************)
(* The streaming parsers of strategy/general.rs behind their NIFs:         *)
(* GeneralStreamingParser, of the dialects with default newlines, and      *)
(* GeneralStreamingParserNewlines, of the others.  They differ in when     *)
(* they wait for more data outside quotes (WaitsForNewline).               *)
(*                                                                         *)
(* As in StreamingParser, a call holds the mutex of the parser, an         *)
(* iteration of the loop of process_buffer is an action, and a row is kept *)
(* as the bytes of its line.                                               *)
(***************************************************************************)
EXTENDS GeneralDialect

CONSTANTS DefaultMaxBuffer,  \* DEFAULT_MAX_BUFFER, in bytes
          Limits,            \* the values set_max_buffer is called with
          MaxInput           \* bound: bytes fed before a finalize

ASSUME SizeAssumption ==
    /\ DefaultMaxBuffer \in Nat
    /\ Limits \subseteq Nat
    /\ MaxInput \in Nat

VARIABLES dialect,         \* the separators, escape and newlines of the parser
          buffer, complete_rows, partial_row_start, scan_pos, quote,
          max_buffer_size, buffer_offset,
          violation,       \* the other fields of the parser
          strict,          \* of StreamingParserResource
          pc,              \* "idle", or "scanning" inside a feed
          reply,           \* what the last call returned
          accepted,        \* history: the bytes fed since the last finalize
          taken            \* history: the rows returned since then
config == <<dialect, strict>>
history == <<accepted, taken>>
vars == <<config, buffer, complete_rows, partial_row_start, scan_pos, quote,
          max_buffer_size, buffer_offset, violation, pc, reply, history>>

HasPartial == partial_row_start < Len(buffer)

(* Mutant: nobody looks. *)
MalformedIgnored == FALSE

Malformed == strict /\ violation # NoViolation

(* push_complete_row(start, end): the line, and the violation after it. *)
RowLine(start, end) == SubSeq(buffer, start + 1, end)

ViolationWithRow(start, end) ==
    FirstOf(violation,
            Rebase(ReadLine(dialect, RowLine(start, end)).violation,
                   buffer_offset + start))

Init ==
    /\ dialect \in Dialects /\ strict \in BOOLEAN
    /\ buffer = <<>> /\ complete_rows = <<>>
    /\ partial_row_start = 0 /\ scan_pos = 0 /\ buffer_offset = 0
    /\ quote = NewQuote /\ violation = NoViolation
    /\ max_buffer_size = DefaultMaxBuffer
    /\ pc = "idle" /\ reply = "none"
    /\ accepted = <<>> /\ taken = <<>>

(* streaming_feed, up to the loop of process_buffer. *)
Feed(chunk) ==
    /\ pc = "idle"
    /\ Len(buffer) + Len(chunk) <= max_buffer_size
    /\ buffer' = buffer \o chunk
    /\ pc' = "scanning" /\ reply' = "none"
    /\ accepted' = accepted \o chunk
    /\ UNCHANGED <<config, complete_rows, partial_row_start, scan_pos, quote,
                   max_buffer_size, buffer_offset, violation, taken>>

(* A chunk of a size that does not fit is refused and the call raises. *)
FeedOverflow(size) ==
    /\ pc = "idle"
    /\ Len(buffer) + size > max_buffer_size
    /\ reply' = "buffer_overflow"
    /\ UNCHANGED <<config, buffer, complete_rows, partial_row_start, scan_pos,
                   quote, max_buffer_size, buffer_offset, violation, pc, history>>

-----------------------------------------------------------------------------
(* The loop of process_buffer. *)

AbsolutePos == buffer_offset + scan_pos

Token == TokenAt(dialect, dialect.newlines, buffer, scan_pos, quote.in_quotes)

PairInBuffer == Doubled(dialect, buffer, scan_pos)

(* The rest of the buffer may be the start of an escape. *)
PartialEscape(pos) == PartialSuffix(buffer, pos, dialect.escape)

(* A closing escape, or the first of a pair: the next bytes will tell. *)
PartialPair ==
    /\ Token = "escape" /\ quote.in_quotes
    /\ ~PairInBuffer /\ PartialEscape(scan_pos + Len(dialect.escape))

(* Mutant: a separator that is cut is data. *)
SeparatorDecided == FALSE

PartialSeparator ==
    /\ Token \in {"separator", "newline", "data"}
    /\ \E k \in DOMAIN dialect.separators :
          PartialSuffix(buffer, scan_pos, dialect.separators[k])

(* Mutant: the longest newline is waited for when it would fit. *)
WaitsForLongest ==
    /\ Token = "data"
    /\ scan_pos + MaxPatternLen(dialect) >= Len(buffer)

(* Default newlines: a carriage return at the end.  Others: no newline, and *)
(* no room for the longest one.                                             *)
WaitsForNewline ==
    /\ Token = "data"
    /\ IF dialect.is_default
       THEN buffer[scan_pos + 1] = CR /\ scan_pos + 1 = Len(buffer)
       ELSE scan_pos + MaxPatternLen(dialect) > Len(buffer)

Waiting ==
    /\ scan_pos < Len(buffer)
    /\ \/ PartialEscape(scan_pos)
       \/ PartialPair
       \/ PartialSeparator
       \/ WaitsForNewline

Scanning(token) ==
    /\ pc = "scanning" /\ scan_pos < Len(buffer) /\ ~Waiting
    /\ Token = token

(* An iteration that moves n bytes on and leaves the quote state q. *)
Advance(q, n) ==
    /\ quote' = q
    /\ scan_pos' = scan_pos + n
    /\ violation' = FirstOf(violation, q.violation)
    /\ UNCHANGED <<config, buffer, complete_rows, partial_row_start,
                   max_buffer_size, buffer_offset, pc, reply, history>>

EscapeSequence ==
    /\ Scanning("escape")
    /\ LET doubled == quote.in_quotes /\ PairInBuffer
       IN  Advance(OnEscape(quote, AbsolutePos, doubled),
                   IF doubled THEN 2 * Len(dialect.escape) ELSE Len(dialect.escape))

QuotedByte == Scanning("quoted") /\ Advance(quote, 1)

Separator ==
    /\ Scanning("separator")
    /\ Advance(OnDelimiter(quote), MatchSeparator(dialect, buffer, scan_pos))

Data == Scanning("data") /\ Advance(OnData(quote, AbsolutePos), 1)

Newline ==
    /\ Scanning("newline")
    /\ LET next == scan_pos + MatchNewline(dialect, buffer, scan_pos)
       IN  scan_pos' = next /\ partial_row_start' = next
    /\ quote' = OnDelimiter(quote)
    /\ complete_rows' = Append(complete_rows, RowLine(partial_row_start, scan_pos))
    /\ violation' = FirstOf(ViolationWithRow(partial_row_start, scan_pos),
                            quote.violation)
    /\ UNCHANGED <<config, buffer, max_buffer_size, buffer_offset, pc, reply,
                   history>>

CompactionDue == partial_row_start > 0 /\ partial_row_start >= Len(buffer) \div 2

(* Mutant: compaction leaves scan_pos. *)
CompactStalePos ==
    /\ buffer' = SubSeq(buffer, partial_row_start + 1, Len(buffer))
    /\ buffer_offset' = buffer_offset + partial_row_start
    /\ scan_pos' = scan_pos
    /\ partial_row_start' = 0

(* compact_buffer, when it is due. *)
Compact ==
    /\ buffer' = SubSeq(buffer, partial_row_start + 1, Len(buffer))
    /\ buffer_offset' = buffer_offset + partial_row_start
    /\ scan_pos' = scan_pos - partial_row_start
    /\ partial_row_start' = 0

(* The end of process_buffer, with its compaction, and of the call. *)
EndScan ==
    /\ pc = "scanning"
    /\ scan_pos >= Len(buffer) \/ Waiting
    /\ IF CompactionDue
       THEN Compact
       ELSE UNCHANGED <<buffer, buffer_offset, scan_pos, partial_row_start>>
    /\ pc' = "idle"
    /\ reply' = IF Malformed THEN "malformed_csv" ELSE "ok"
    /\ UNCHANGED <<config, complete_rows, quote, max_buffer_size, violation, history>>

-----------------------------------------------------------------------------

(* streaming_next_rows: take_rows(max), unless a strict parser is malformed. *)
NextRows(max) ==
    /\ pc = "idle"
    /\ IF Malformed
       THEN /\ reply' = "malformed_csv"
            /\ UNCHANGED <<complete_rows, taken>>
       ELSE LET n == IF max < Len(complete_rows) THEN max ELSE Len(complete_rows)
            IN  /\ reply' = "ok"
                /\ taken' = taken \o SubSeq(complete_rows, 1, n)
                /\ complete_rows' = SubSeq(complete_rows, n + 1, Len(complete_rows))
    /\ UNCHANGED <<config, buffer, partial_row_start, scan_pos, quote,
                   max_buffer_size, buffer_offset, violation, pc, accepted>>

(* What finalize finds: what is left in the buffer is one row, and is not  *)
(* scanned for newlines again.                                             *)
FinalRows ==
    complete_rows \o IF HasPartial
                     THEN <<RowLine(partial_row_start, Len(buffer))>>
                     ELSE <<>>

FinalViolation ==
    IF HasPartial THEN ViolationWithRow(partial_row_start, Len(buffer)) ELSE violation

(* streaming_finalize: finalize, then take_violation.  It returns FinalRows *)
(* unless the parser is strict and FinalViolation is one.  The next feed    *)
(* starts a new text.                                                       *)
Finalize ==
    /\ pc = "idle"
    /\ buffer' = <<>> /\ complete_rows' = <<>>
    /\ partial_row_start' = 0 /\ scan_pos' = 0 /\ buffer_offset' = 0
    /\ quote' = NewQuote /\ violation' = NoViolation
    /\ reply' = IF strict /\ FinalViolation # NoViolation THEN "malformed_csv" ELSE "ok"
    /\ accepted' = <<>> /\ taken' = <<>>
    /\ UNCHANGED <<config, max_buffer_size, pc>>

(* streaming_set_max_buffer. *)
SetMaxBuffer(max) ==
    /\ pc = "idle"
    /\ max_buffer_size' = max
    /\ reply' = "ok"
    /\ UNCHANGED <<config, buffer, complete_rows, partial_row_start, scan_pos,
                   quote, buffer_offset, violation, pc, history>>

Next ==
    \/ \E n \in 0..MaxInput - Len(accepted) : \E chunk \in [1..n -> Byte] : Feed(chunk)
    \/ \E size \in 1..MaxInput : FeedOverflow(size)
    \/ EscapeSequence \/ QuotedByte \/ Separator \/ Data \/ Newline
    \/ EndScan
    \/ \E max \in 1..MaxInput : NextRows(max)
    \/ Finalize
    \/ \E max \in Limits : SetMaxBuffer(max)

Spec == Init /\ [][Next]_vars

-----------------------------------------------------------------------------
(* Properties. *)

Idle == pc = "idle"

TypeOK ==
    /\ dialect \in Dialects /\ strict \in BOOLEAN
    /\ buffer \in Seq(Byte)
    /\ complete_rows \in Seq(Seq(Byte)) /\ taken \in Seq(Seq(Byte))
    /\ partial_row_start \in 0..Len(buffer)
    /\ scan_pos \in partial_row_start..Len(buffer)
    /\ quote \in QuoteStates /\ violation \in Violation
    /\ max_buffer_size \in Limits \cup {DefaultMaxBuffer}
    /\ buffer_offset \in Nat
    /\ pc \in {"idle", "scanning"}
    /\ reply \in {"none", "ok", "malformed_csv", "buffer_overflow"}
    /\ accepted \in Seq(Byte)

ValuesOf(lines) == [k \in DOMAIN lines |-> LineFields(dialect, lines[k])]

(* The bytes of p but the last hold no newline. *)
NoneWithin(d, p) ==
    \A k \in DOMAIN d.newlines, i \in 0..Len(p) - 1 :
        ~StartsWith(SubSeq(p, 1, Len(p) - 1), i, d.newlines[k])

(* A dialect in which no newline is ahead of a parser that waits: newlines *)
(* of one length, unless they are the default ones, none of them inside an *)
(* escape or a separator, and no escape that ends in the carriage return   *)
(* of a default newline.  In other dialects finalize may take as one row   *)
(* what a batch parse splits (see GeneralStreamingNewlines.cfg).           *)
Clear(d) ==
    /\ \/ d.is_default
       \/ \A j, k \in DOMAIN d.newlines : Len(d.newlines[j]) = Len(d.newlines[k])
    /\ NoneWithin(d, d.escape)
    /\ \A k \in DOMAIN d.separators : NoneWithin(d, d.separators[k])
    /\ d.is_default => d.escape[Len(d.escape)] # CR

(* Streaming returns what a batch parse of the same text returns, however  *)
(* the text was cut into chunks: the rows returned before a finalize and   *)
(* those it finds are the rows of the batch, and so is its violation.      *)
StreamingIsBatch ==
    Idle => /\ ValuesOf(taken \o FinalRows) = BatchValues(dialect, accepted)
            /\ FinalViolation = BatchViolation(dialect, accepted)

(* A parser does not sit on data: between calls it has read its buffer but *)
(* for less than the longest pattern, or an escape and less than another.  *)
Lookahead ==
    Max({Len(dialect.escape)} \cup {Len(dialect.newlines[k]) : k \in DOMAIN dialect.newlines}
          \cup {Len(dialect.separators[k]) : k \in DOMAIN dialect.separators})

ReadsOn ==
    Idle => \/ Len(buffer) - scan_pos < Lookahead
            \/ quote.in_quotes /\ Len(buffer) - scan_pos < 2 * Len(dialect.escape)

(* No row that a strict caller gets from next_rows holds or follows the    *)
(* first violation of the text: the rows it has got are those of the part  *)
(* of the text before it.                                                  *)
StrictStopsAtViolation ==
    strict /\ Idle =>
        LET rows == BatchRows(dialect, accepted)
        IN  \A k \in 1..Len(taken) : rows[k].violation = NoViolation
=============================================================================
