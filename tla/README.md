# A verification development for RustyCSV

RustyCSV parses and writes CSV for Elixir: a Rust NIF library
(`native/rustycsv/src`) with several parsers, and an Elixir layer (`lib`) that
defines parsers, streams and options. This directory holds TLA+ models of it,
TLC configurations that check them on small instances, and TLAPS proofs of
theorems about them for every value of their constants.

## The system

| component | state | operations | what makes it correct |
|---|---|---|---|
| quote automaton, `core/scanner.rs` | inside quotes, at field start, after a closing quote, first violation | on_escape, on_delimiter, on_data, finish | its state is a function of the bytes seen; the first violation is kept |
| field decoding, `core/field.rs` | none | extract, unescape | doubled escapes become one; only fully quoted fields are unquoted |
| streaming parser, `strategy/streaming.rs` | byte buffer, row queue, three positions, quote state, limit, first violation | feed (scan, cut rows, compact), take_rows, finalize, set_max_buffer_size | chunking is invisible: rows, violations and positions are those of the whole text |
| general streaming parsers, `strategy/general.rs` | the same with byte-sequence separators, escapes and newlines | the same | the same, with patterns that a chunk boundary may cut |
| parser resource, `resource.rs` and the streaming NIFs of `lib.rs` | a mutex around one parser, the strict flag | streaming_new, feed, next_rows, status, finalize, set_max_buffer | calls of several processes are serialised; each row goes to one caller |
| streaming driver, `lib/rusty_csv/streaming.ex` | whether the first element was seen, half a character, an accumulator of elements, a parser reference | start, reduce, last, after functions of three `Stream.transform`; parse_chunks | the stream yields the rows of its source, and raises when a batch parse would |
| structural scan, `core/simd_scanner.rs`, `core/simd_index.rs` | carry of quotes between chunks, index of separators and row ends | scan_structural, scalar tail, row and field iterators | the chunk size is invisible |
| batch parsers, `strategy/direct.rs`, `two_phase.rs`, `zero_copy.rs`, `general.rs` | none | parse a whole input | all strategies return the same rows |
| parallel parser, `strategy/parallel.rs` | a thread pool | rows extracted in ranges | order kept, same rows as the sequential parsers |
| encoder, `strategy/encode.rs`, `encoding.rs`, `lib.rs` | none | quoting, formula escape, encodings | what is written parses back |
| headers, maps, `term.rs`, `lib.rs`, `lib/rusty_csv.ex` | the keys, rows to drop | rows to lists or maps, by NIFs for a batch, in Elixir for a stream | keys and values stay together; both ways give the same maps |
| line stream, `lib/rusty_csv.ex` | the incomplete line | to_line_stream | however its source is cut, it hands on lines |
| memory accounting, `lib.rs` | two counters | allocator hooks | for benchmarks only |

How they interact. The Elixir layer calls NIFs. Batch NIFs are pure functions on
a binary. A streaming NIF locks the mutex of a parser resource, calls one
operation of the parser, and unlocks when it returns; it runs on a dirty
scheduler, so calls of several BEAM processes may wait for each other. The
driver feeds the parser from an Elixir enumerable and hands rows to a consumer
that may stop at any row.

What is hard. Chunks may be cut anywhere: between the two escapes of a doubled
pair, between CR and LF, inside quotes, in an empty row. Compaction moves the
buffer under positions that are kept. Two quote automata (of the stream, of the
row) report violations with positions of different origin. A parser is used
again after finalize. Processes share parsers, are killed inside calls, and a
call may panic under the lock. A stream may be halted and enumerated again; its
elements may end within a byte order mark, a character or a newline. The
hazards, each at its line and with the properties that would catch it, are in
PROJECT.json.

## The modules

    QuoteState   CsvField          the quote automaton, one field
          \      /
          CsvText                  what a whole text means
         /  |  |  \
        /   |  |   StructuralScan      the SIMD scan, chunks and tail
       /    |  |        |
      /     |  |   BatchParse          rows of the index, in turn or in parallel
     /      |  |
    |       |  SharedParser            one parser, several processes
    |   CsvStream                      what a streaming parser promises
    |    |     \
    |    |   StreamEnumerable          the stages of the Elixir driver
    |    |     |
    |    |   ParseStream               source, driver, headers, consumer; also
    |    |                             EXTENDS LineStream and HeaderMaps
    StreamingParser                    the parser; implements CsvStream

    LineStream   HeaderMaps            cutting lines; making maps

    QuoteState
      |
    GeneralDialect                     dialects of byte sequences, rows in them
      |     |  \
      |     |  GeneralStreaming        their streaming parsers
      |     |
      |  GeneralBatch                  row after row, or in parallel
      |     |
      |  OneByteBatch                  one-byte dialects against CsvText
    CsvEncode                          dumping, read back by BatchValues

    CsvText_proofs, StreamingParser_proofs, ParseStream_proofs,
    SharedParser_proofs, BatchParse_proofs (with those of StructuralScan),
    GeneralDialect_proofs, GeneralStreaming_proofs,
    BatchAndDump_proofs (GeneralBatch and CsvEncode)
                                       theorems; MC*.tla and *.cfg: instances

An edge goes from a module to one that EXTENDS it, save from StreamingParser to
CsvStream, which is an INSTANCE with `text <- accepted` (the bytes fed) and
`delivered <- returned` (the rows returned, with their fields). OneByteBatch takes CsvText by
INSTANCE too, with the separators and escape of each dialect whose patterns are single
bytes.

**CsvText** is the reference all parsers are held to. It defines rows, fields
and the first quoting violation on a text as it stands: a byte is inside quotes
when an odd number of escapes stands before it; a row ends at an unquoted line
feed, less a carriage return before it; the three violations are those of the
comment at the head of `check_quoting` in `core/simd_scanner.rs` (lines 95-112).
Nothing in it reads from left to right, so it shares no reasoning with the
automata it judges. It is not in the map: it is what the code should compute.

**StreamingParser** has the fields of the Rust struct as variables under their
own names, and the strict flag of the resource. A NIF call is one action, except
`feed`: it appends the chunk, each iteration of the loop of `process_buffer` is an
action (`QuotedByte`, `QuotedEscape`, `OpeningEscape`, `Separator`, `LineFeed`,
`CrLf`, `Data`: the branches of the loop), and `EndScan` is its end with the
compaction. Rows are kept as the bytes of their line; `SplitRow` is
`parse_row_owned`, which computes the fields, and a violation, from them.
`reset` is not called by anything and is left out; `shrink_excess` changes a
capacity only. History variables record what was fed, the lines that were returned, and the
rows they were returned as.

**StreamEnumerable** has the stages of `stream_enumerable/2` and `parse_chunks/2`: the
byte order mark (`HasBom`), the conversion with the half character it carries
(`Input`, `Rest`), the buffer of elements that is fed when it holds enough
(`Gather`, `FeedAndTake`), and what each does at the end (`LastFun`, the first
stage first). The parser is the abstract one, CsvStream. An encoding is a map from
the bytes of a text to pairs of units, so that an element can end within a
character, and units can stand for nothing. When a feed is refused as too large
depends on when the parser compacts its buffer, so between the least and the
most it can hold the model leaves it open (`MayOverflow`, `MustOverflow`).

**LineStream** is where `to_line_stream/1` cuts: at the first newline, by the longest
pattern that matches there. **HeaderMaps** has both ways to make a map of a row:
`MakeMap` with the keys put one after the other, as `term.rs` does for a batch, and
`ZipToMap`, as Elixir does for a stream; and `BatchRows`, what a batch parse returns
for its header options.

**ParseStream** composes them: a source of units that is read in elements of any size
(`PullElement`), or through the line stream (`ReadElement`, `PullLine`,
`PullLastLine`), the stages, the rows taken one by one, dropped, kept as
keys or given as lists or maps (`TakeRow`), and the consumer, which may stop
(`Halt`) and start again (`Start`). What comes out is judged by what
`parse_string` does with the whole source: `RowsOfUnits`, `BatchRaises`. That File.Stream is
switched from lines to bytes changes how its elements are cut, which is open here.

**SharedParser** splits every NIF into lock, read, act and return. Rows have
names, so that it can be said which process got which. A process can be killed
at any time; its NIF runs on, as a dirty NIF does, and the result is dropped.
A panic under the lock poisons the mutex. Panic, kill and the calls of BEAM
processes are the environment and marked external.

**StructuralScan** has the local variables of `scan_structural` as variables and
a mask as the set of its bits. A chunk is an action (`ScanChunk`), so is each
branch of the loop of `scan_scalar_tail`. `PrefixXor` is the cascade of shifts as
it stands in the code, not what it computes. In the chunk phase `in_quotes` is
`quote_carry`.

**BatchParse** adds what the NIFs do with the index: `NextRow` is a turn of the
cursor of `RowFieldIter` with the field iterator; `PlanRow`, `Extract` and
`Collect` are the three phases of the parallel parser, workers taking rows in any
order; `Refuse` is the guard for inputs that are too large. `FieldValue` is
`field_to_term_hybrid`. `IndexRow` and `EndOfIndex` are the parse of `two_phase.rs`, which Rust
callers have; that it drops an empty last row (`WithoutEmptyTail`) never takes a row away.
IteratorsAgree holds the iterators to what they promise as `ExactSizeIterator`, by `row_count`, and
the cursor to the binary search of `fields_in_row`. That search only tests of the crate
call: the parallel parser shares out the separators the cursor walks over (`parallel.rs` 28-32), so this part of the
invariant checks the walk against an independent reading of the index.

**GeneralDialect** has a dialect as a record (separators, escape, newlines as byte
sequences, and whether the newlines are the default ones) and what the parsers of
`strategy/general.rs` share: pattern matching, the token at a position, the value
of a field, the reading of one row. The loops of the code move by whole
patterns; `RowByte` is one step of a recursive function over positions (`RowState`), which
skips the rest of a pattern (`skip`), so that nothing is RECURSIVE. `BatchRows` reads row after row.

**GeneralStreaming** is both general streaming parsers. They differ only in when they
wait for more data outside quotes (`WaitsForNewline`): for the byte after a final
carriage return, or for room for the longest newline. State and actions are those of
StreamingParser; the branches of the loop are `EscapeSequence`, `QuotedByte`, `Separator`,
`Newline`, `Data`. They are judged against `BatchValues` and
`BatchViolation`, a batch parse of everything fed.

**GeneralBatch** is one batch parse, by a cursor or by workers of a pool. The
parallel strategy looks for row starts without separators (`RowStarts`) and then
reads each line without newlines (`ReadLine`); the cursor looks for both at once.
That the two read the same rows is the question. `Apart` says for which dialects they can. The search,
the ranges and the lines are functions of a dialect and a text; `LongestFirst` is the order
in which `Newlines::custom` keeps its patterns. `parse_csv_general`,
`parse_csv_indexed_general` and the parsers that return owned fields are called by
tests only; what the NIFs call is modelled.

**CsvEncode** is a dump: the call of a NIF by `dump_to_iodata` or, row by row, by
`dump_to_stream`, the walk of `encode_string` over the rows or the workers of
`encode_string_parallel`, and what Elixir does with the result: coerce fields that
are no binaries and call again, raise, or hand out rows. The four variants of
`encode_string` (with or without formulas and conversion) do the same with an empty set of rules or
with UTF-8, so `FieldText` and `RowText` stand for all of them; a one-byte escape
is a pattern of length one. A converted byte is a record, so that text that was not converted,
or converted twice, cannot be read back. What is dumped is judged by parsing
it with `BatchValues` of GeneralDialect.

## What the runs check

| run | question | bounds |
|---|---|---|
| streaming_parser | Is chunking invisible? Does the parser implement CsvStream, and does every feed end? Rows, violations, positions, what finalize finds, and the memory kept. | every text of up to 6 bytes over 5 roles (separator, escape, LF, CR, other), every cut into chunks, rows taken at any moment; limits 3 and 100 |
| parse_stream | Does a stream emit what a batch parse of its source returns, raise when that raises, and lose nothing on the way, wherever elements, characters, newlines and marks are cut? | every source of up to 5 bytes (4 with a line stream or parse_chunks); tables of 3 rows for 7 header options, keys equal, rows short and long; texts of 3 characters in UTF-16, truncated or invalid; marks in both encodings; a limit of 2 bytes; fed at 2 bytes; every cut into elements; two enumerations, halted anywhere |
| parse_stream_again | Does a second enumeration yield the source again? It does not: a finding. | the same |
| parse_stream_mark | Is a byte order mark removed wherever elements end? It is not: a finding. | the same |
| shared_parser | Who gets which row when processes share a parser, are killed, or panic? Does every call come back? | 3 processes, 4 calls in all |
| batch_parse | Are carry, index and first violation independent of where chunks end? Do all strategies return the rows of the text, and refuse for the right reason? Do the iterators yield what they promise? | every text of up to 6 bytes and those of 7 over 3 roles, chunks of 3 lanes, strict and lenient, workers in any order, texts one byte too large |
| general_streaming | Is chunking invisible when patterns are cut? | every text of up to 6 of 4 bytes, every cut; dialects with two-byte separators, escape, newlines; strict and lenient |
| general_streaming_newlines | The same with newlines of different length. It is not: a finding. | texts of up to 4 bytes |
| general_batch | Do cursor and workers return the same rows and refuse the same inputs? Do the general parsers agree with CsvText on single bytes? | every text of up to 6 of 4 bytes, three dialects, workers in any order |
| general_batch_agree | Are the rows the same for every input that is not empty? They are not: a finding. | texts of up to 4 bytes |
| csv_encode | Does what is dumped parse back? Do strategies raise alike? Does coercion end? | fields of up to 4 of 6 bytes, and tables of up to 3 rows or 2 fields with shorter ones, terms among them; 7 sets of options |
| csv_encode_round_trip | Without the exception for a carriage return at the end of a row: it does not. A finding. | the same |

Why the bounds are enough. The code tells five roles of bytes apart and looks at
most one byte back and two ahead. Six bytes hold an open and a closed quoted field with
something wrong after it, a doubled escape, a CRLF, and a row before and after,
each at every place of a chunk. A text of six bytes in chunks of one byte
compacts the buffer several times. With three lanes, a text of seven bytes is two chunks
and a tail of one, shorter ones a chunk and a tail of one or two; each pair of bytes that
belongs together is cut by a chunk boundary and by the start of the tail in some text. The theorems remove the
bounds for the facts they state. In a stream, two bytes are fed at once, so five bytes are
fed in parts, and a rest is left for the end; three characters of two units have an end of an element
within each of them. In the encoding of the run the second unit of one character and the first of
another make a line feed, so a line is cut where none ends, as it can be with UTF-16: LinesOfSource
is about the units searched, NoByteSkipped says that the characters come together again. Processes are symmetric in SharedParser, but the run does not use that: it
checks liveness, where symmetry is unsound.
Three processes are the fewest for which one can wait while two others act.
With patterns of two bytes, six bytes hold an open and a closing escape and a
pattern cut in the middle, or a quoted field with half a doubled escape; bytes that
start a pattern also stand alone, as data. A field of four bytes holds a pattern of
two with something before and after it, or two patterns; a fault in a table of
two rows stands before, after or beside a field to coerce, and three rows are in a pool at once.

The bounds are constants: `MaxInput` (bytes of a text), `MaxRuns` (enumerations),
`MaxCalls` (calls of all processes), `MaxLength` and `MaxInputSize` (in the models of the scan).
`MinBuffer` is `@min_buffer_size`, 64 KiB in the code; `Chunk` is 16, 32 or 64;
`MaxInputSize` is 2^32 - 1.

Deadlock is checked where the system may not stop: a streaming parser can always
be called, and a scan or a batch parse must reach an answer. StructuralScan, BatchParse,
GeneralBatch and CsvEncode state that with a last disjunct (`Scanned`, `Answered`, `Dumped`) that stutters
only when there is an answer. ParseStream and SharedParser may stop: a stream ends, and
enumerations and calls are bounded.

Fairness. `FeedEnds` assumes that a NIF that runs goes on (WF of the loop and of
its end): it is a thread of a dirty scheduler. `EveryCallEnds` assumes the same of
each process, and no fairness of the lock: `std::sync::Mutex` promises none. With
bounded calls weak fairness of a waiting process is enough, since the lock is free in the end.

## What is proved

All theorems hold for every alphabet and every dialect whose bytes have one role
each (`ByteAssumption`, `DialectAssumption`), every limit (`SizeAssumption`),
for a stream, every source, header option and encoding of pairs (`DriverAssumption`, `JobsAssumption`,
`HeadersAssumption`) in which a line feed is not one unit twice and does not stand in a byte order
mark (`NewlineAssumption`; it is 0A 00 in UTF-16LE, and the marks are EF BB BF, FF FE and FE FF);
for a shared parser, any processes, chunks, counts and number of calls (`ClientAssumption`);
for the scan, every set of texts and every chunk size up to 64 (`ScanAssumption`);
for the general parsers, every dialect of patterns that are not empty (`DialectsAssumption`), in a batch
with longer newlines before shorter ones (`LongestFirst`), and every set of texts (`TextsAssumption`); and
for the dump all options, tables, terms and encodings (`DumpAssumption`).

| theorem | property | run that checks it |
|---|---|---|
| TypeCorrect | TypeOK | streaming_parser |
| WindowCorrect | BufferIsWindow | streaming_parser |
| CompactionSuffices | CompactedEnough | streaming_parser |
| QuotesCorrect | QuoteIsParity | streaming_parser |
| ScanCorrect | ScanCutsRows | streaming_parser |
| RowsCorrect | RowsAreLines | streaming_parser |
| ViolationCorrect (StreamingParser_proofs) | ViolationIsFirst | streaming_parser |
| FinalCorrect | FinalIsWholeText | streaming_parser |
| Implements | ImplementsCsvStream | streaming_parser |
| TypeCorrect (ParseStream_proofs) | TypeOK | parse_stream |
| NothingSkipped | NoByteSkipped | parse_stream |
| CompletionCorrect | CompletionEmptiesParser | parse_stream |
| LinesCorrect | LinesOfSource | parse_stream |
| RaisesCorrect | RaisesAsBatch | parse_stream |
| EmitsCorrect | EmitsRowsOfSource | parse_stream |
| TypeCorrect (SharedParser_proofs) | TypeOK | shared_parser |
| ActsCorrect | ActsOnWhatItRead | shared_parser |
| PoisonCorrect | PoisonedIsFinal | shared_parser |
| OnceCorrect | EveryRowOnce | shared_parser |
| OrderCorrect | RowsInOrder | shared_parser |
| PrefixXorIsParity | | |
| CarryCorrect | CarryIsContext | batch_parse |
| ScanTyped | TypeOK | batch_parse |
| IndexCorrect | IndexIsStructure | batch_parse |
| ViolationCorrect | ScanFindsFirstViolation | batch_parse |
| RowsCorrect (BatchParse_proofs) | ReturnsRowsOfText | batch_parse |
| IteratorsCorrect | IteratorsAgree | batch_parse |
| RefusalsCorrect | RefusesForAReason | batch_parse |
| BoundsCorrect | BoundsInside | batch_parse |
| TypeCorrect (GeneralStreaming_proofs) | TypeOK | general_streaming |
| ReadsOnCorrect | ReadsOn | general_streaming |
| StreamingCorrect | StreamingIsBatch, in a clear dialect | general_streaming |
| StrictCorrect | StrictStopsAtViolation, in a clear dialect | general_streaming |
| BatchAgrees | StrategiesAgreeOnTerminated, by the cursor or in a dialect whose patterns are apart | general_batch |
| BatchRefuses | StrategiesRefuseAlike, on the same condition | general_batch |
| AnswersCorrect | AnswersAgree | csv_encode |
| RetriesCorrect | RetriesOnce | csv_encode |

*The streaming parser.* The aim is RowsCorrect: after every call the rows returned
and ready are exactly the lines of the text that have ended. It is not inductive: in the
middle of a scan the text has rows not found yet. ScanCutsRows says the
same of the part scanned, and with it where the open row starts, that a carriage
return is never scanned without the line feed after it, and that a call ends only
when no row end is left. It rests on three invariants proved first: TypeOK (the
three positions are in order, so every slice is inside the buffer), BufferIsWindow
(a byte of the buffer is a byte of the text at a known place) and
QuoteIsParity (whether a line feed ends a row). An action that moves the scan passes
one byte or two; the lemma `PassCuts` covers all that pass no row end, and
`EndRowCuts` those that pass one; taking rows moves them from one
sequence to the other; feeding extends the text, which changes none of its ended
lines (`CutsPrefix`). CutsRows states the rows by rank, the k-th row end being the one with
k - 1 before it, because that can be kept step by step; `AllLinesAreRows` ties it to the
sequence CsvText builds.

The violation a parser holds is known while a scan is under way only together with its
quote state: `QuoteAfter` says what that state is after p bytes in terms of the text alone,
and `QuoteOnDoubled`, `QuoteOnClosing`, `QuoteOnDelimiter` and `QuoteOnData` that each branch of the loop
keeps it. It is inductive (ScanSeesViolation) with two facts about where a scan may stop:
a closing escape is never the last byte read, since one more byte decides whether it is
doubled, and a call ends at the end of the text or one byte before it, at such an escape or at a
carriage return. Then ViolationIsFirst follows: the byte that was left unread is not bad yet.

A row is split by an automaton of its own, a fold over its bytes with recursive
functions. What it computes for a line of any length is within reach of the prover because
the set of its readings (`Readings`) can be shown not to be empty by an induction on
a set of numbers (`UpTo`); `SplitQuotes` and `SplitCuts` carry the same `QuoteAfter` and the
bounds of the fields over each byte, and `SplitRowIs` is the result: the fields and the violation
CsvText gives the line. A line outside quotes has the violations and separators of the
text it stands in (`PartOfText`, `ViolationOfRest`), which gives FinalIsWholeText. For
the refinement one more invariant is needed, that the rows returned are the lines taken, split
(`ReturnedAsTaken`); `FeedAccepts`, `NextRowsDelivers` and `NextImplements` map each step
to a step of CsvStream or a stutter.

*The stream.* NoByteSkipped follows the units of the source through four buffers. It is
inductive only with what each stage knows: `LineOK` (the line stream holds the last
units read), `MarkOK` (a mark that was stripped was in the first element),
`StagesOK` (what was handed on, less the mark, is valid, and converts to what is
gathered and fed, less the half that is carried) and `ClosedOK`. The lemma that carries
it is `ConvertConcat`: converting the carried half with the next element gives what
converting all units at once gives. `PullKeeps` applies it to an element, whether that comes
from the source or from the line stream, and `LineLengthInside` says that a line
is a part of what is held.

LinesOfSource needs to know that the line stream stands where a line ends (`CutsOK`). Then no line feed
begins before that place and ends after it (`NotAcross`: it is one unit, or two that differ), so those of
the source are those of the units held (`HeldLineFeed`), and the first newline found, the longest
of those that match, ends where the next line feed does (`FirstLine`, `NextCut`). The first element
is a line, which ends after the mark, since the mark holds no line feed (`FirstLineHoldsMark`).

RaisesAsBatch is what the stages know, taken to the whole source. What was handed on is the
front of it (`KeptPart`): a pair that is invalid there is invalid in the source (`InvalidStays`,
`InvalidWithHalf`), a violation found in a text stays one whatever follows (`ViolationStays`), and when the
source ends there is nothing behind the front (`RefusesEnd`).

EmitsRowsOfSource has three more parts. `DeliveredOK` and `DeliveredPrefix`: the rows the parser has
delivered are the first of those of the source, because a text that grows keeps the rows that have ended
(`AllLinesGrow`, `RowsGrow`), also when the source cannot be converted to its end. `RowsOK`: the consumer has
taken the first n of them, and the next are pending. `HeadersStep`: one more row taken from the
stream is one more row, or map, of the batch; for maps that says that two ways of making a map agree
(`SameMap`): putting keys one by one, where the last of equal keys wins, and
`Map.new` over a row that was padded or cut (`MakeMapIs`, an induction on a set of numbers).

*The shared parser.* ActsOnWhatItRead is what the lock is for, and it holds only with `LockOK`:
who reads or acts holds the mutex, so there is one of them, and once the mutex is
poisoned there is none, which is all of PoisonedIsFinal. `LeaveKeeps` is the step of every
call that returns. A call acts on the rows it has read, and they are the next ones, so
`HandedOut` covers all that take rows: their names are not in `TakenNames` yet
(`RowsTaken`), they come after every row given so far, and closing a text turns the rows that
were left into taken ones (`TakenAll`). EveryRowOnce and RowsInOrder are inductive together
with that.

*The scan.* `FoldDoubles` shows that a step `x ^= x << w` turns parities of windows of w
lanes into those of windows of 2w; six steps reach 64 lanes (PrefixXorIsParity).
`ChunkParity` carries that over to the text: from a chunk's first byte to one of its
lanes the parity changes as often as the mask has bits. CarryIsContext is then
inductive with the types it needs (`CarryInv`), and on it rests `ScanInv`: the index is
the structure of the part scanned, and the violation is the first among the bad bytes
up to there. That the masks of a chunk name the bad bytes is proved lane by lane; that their lowest
lane comes before what a later chunk finds follows from the order of positions. In the
tail a doubled escape is passed as two bytes, and a closing quote looks one or two bytes ahead.

*The batch parse.* Once the scan has ended, everything is a function of the index:
the place where row i starts and ends, and how many separators stand before it. `BatchInv`
says that the iterators stand at row `row_idx` by these functions and that what was planned,
extracted or answered are the rows they give, whoever made them; so the order of the
workers cannot matter, and the walk of the cursor finds what the binary search finds
(`WalkIsSearch`). The invariant says nothing of CsvText. `LinesOfRows` and `FieldsOfRow` then
show that the rows the index describes are the lines of the text and the values within their
bounds its fields: parity inside a line is parity in the text because a row starts
outside quotes (`ParityOfPart`), so the separators of a line are those of the text that
stand in it (`SepsOfPart`).

*The general streaming parsers.* TypeOK and ReadsOn hold in every dialect. ReadsOn needs two invariants:
`Window` (the buffer is the end of the text fed) and `Parked` (a parser that is idle has read
everything, or waits for a pattern that the buffer ends inside of); what it waits for is shorter than
a pattern (`ParkedReadsOn`).

StreamingIsBatch does not hold in every dialect: that is the finding general_streaming_newlines. The
theorem states for which it does. A dialect is clear (`Clear`) if nothing that a parser may wait for
can hold a newline that finalize would miss: newlines have one length, or are the default ones; no
escape and no separator has a newline among its bytes but the last; with the default newlines no escape
ends in a carriage return. So a dialect of one-byte separators and a one-byte escape is clear
unless its newlines are of its own and differ in length, or its escape is a carriage return. The option
checks of the code do not demand it. The proof uses it where a parser reads on (`AwaitsNothing`) or waits (`NoneAheadWaiting`), and for
what is left at the end of the text (`LeftOver`). MCGeneralStreaming checks that the dialects of the passing
run are clear, and that the one of the finding is not.

The inductive invariant adds `ReadSoFar`. It says, about the text alone, that the rows taken and ready
are those of the text that end before the open row, with the bytes and the first violation that
reading them gives (`RowsDone`), and that reading the open row up to the scan position leads to the
parser's quote state, moved by the place of the row (`Streamed`). What carries it is that a text which
grows does not change what was read. A token is the same in every text that goes on alike
(`TokenExtended`, `TokenCut`), provided the parser did not read it while the buffer ended inside a
longer pattern, which is just when it waits (`Decided`, `ScanDecided`). So `ReadTo` quantifies over all
texts that extend the one read, `ReadOn` and `ReadNewline` take it over a token and to the end of a row,
and `StreamedToken` and `StreamedNewline` give the step of the scan; feeding needs nothing more
(`FeedRead`). A row that the scan cuts is decoded as a line of its own, without newlines: that its fields
have the bounds and values they have in the text is `RowEnded`, and `RowLeft` for the row that finalize
finds. The recursive functions of the model (`RowState`, `RowsFrom`, `RowsViolation`) exist by
the lemmas `RowStateIs`, `RowsFromIs` and `FirstExists`, each an induction on a set of numbers.
In a strict parser `Clean` counts the rows taken that have no violation, which gives StrictStopsAtViolation.

*The general batch parsers.* The cursor answers with the rows of the text in every dialect. The workers do
not: where a newline begins in a separator, the search for row starts, which knows no separator, cuts a row
that the cursor reads on. So the theorems have the hypothesis `parser = "cursor" \/ Apart(dialect)`. A dialect
is apart if no newline begins in an escape or a separator and no escape inside a newline or a separator, as
far as both patterns go; a one-byte separator, a one-byte escape and newlines that hold neither are always apart, and so
are the dialects of the run general_batch, which MCGeneralBatch assumes (`SeparateAssumption`); its
`NewlineInSeparator` is not. The option checks of the code do not demand it.

The proof follows two readings through the text side by side. `ReadHere` is the row of the cursor, read from
its start to a place between two patterns, as the line cut there would read it; `SearchAt` is the search at
the same place. `Behind` says that a newline which stands before the place and reaches it, or beyond, stands
inside quotes that are still open. A token takes all three to the next place (`ReadHereOn`, `BehindOn`,
`SearchOn`), and this is where Apart is used: the search skips an escape as the cursor does, and where the cursor passes a separator it
finds nothing in it. At a newline outside quotes the
row ends, the search adds a start, and the newline taken off the range is the one the row ended with
(`NewlineStripped`, from Behind and LongestFirst: a longer one that ends there would begin where nothing
was read), so the line has the fields and the violation of the row (`EndedAgrees`). At the end of the text
the last line has them too, unless the row is open; then a newline of the field may be taken
off, but line and row are both malformed (`LastAgrees`). `Chain` collects the starts, and `AllWalked`
takes the greatest place that can be reached, which has to be the end. `RangesAgree` turns that into a
statement on the rows of the text, and `WorkersAgree` on their first violation.

The invariant of a call, `ParseInv`, needs none of this: the cursor has the rows before `pos` (`RowsTo`), the workers
have made of each range they did what `ParsedLine` gives, and an answer is what came back. So the order of the
workers cannot matter. BatchAgrees leaves out what the code does differently, empty texts and texts that end
inside quotes; BatchRefuses holds for these too.

*The dump.* Neither property is inductive: a reply says something of the whole table,
a state in the middle of a call knows of the rows before it only. The invariant `IInv`
follows a table through its calls. `CallInv`: what a call encodes has the same texts as
the part of the table it stands for (`Source`), and in a second call no field is a
term. `WalkInv`, `PoolInv` and `ResultInv`: rows that are encoded have a text in
the encoding, rows that failed have none, and the result of the call says which is so.
`OutputInv` carries that from call to call to the reply. `FreshInv` is why no worker's failure is
left from a call before. `FaultOfRow` is the step from the first field that stops the walk over a
row, which may be a term or an unmappable field, to what is true of the row;
`SameTextFits` and `SourceFits` are why coercion does not change it. Parsing what was dumped is a
fold, so DumpReadsBack stays with TLC.

Left to TLC: liveness (FeedEnds, EveryCallEnds), which is out of the prover's reach; what
`UnescapeField` does to a field, a fold that the parsers, CsvText and GeneralDialect share;
DumpReadsBack, a fold over what a dump writes; and ReadsCsvText, because the prover cannot read
an INSTANCE with parameters, which OneByteBatch needs to take separators and escape from the dialect. That a dump ends is
safety: rows are encoded at most twice (RetriesCorrect), every other step moves on, and no state
without a reply is a deadlock (csv_encode).

## Findings

PROJECT.json quotes what each of them contradicts.

- `parse_stream_again`. `stream_enumerable/2` creates the parser when a stream is
  built. An enumeration that is halted leaves rows and bytes in it, which the next
  enumeration of the same stream emits.
- `parse_stream_mark`. `strip_bom_stream/2` looks for a byte order mark in the first element
  only. An element shorter than the mark, or empty, hides it, and the mark becomes part of the
  first field; behind `to_line_stream/1` that cannot happen (LinesOfSource).
- `general_streaming_newlines`. When newlines differ in length, the streaming parser waits
  for room for the longest one even where a shorter one could be decided, and so at the end of
  the text: with newlines `["<br>", "|"]`, the text `a|b|c` streams as the rows `a` and
  `b|c`, but parses as three. With newlines of one length it agrees with the batch parse
  (general_streaming).
- `general_batch_agree`. A lenient caller that gives text ending inside quotes gets the newline
  at its end as part of the open field from the cursor, and without it from the workers.
- `csv_encode_round_trip`. A carriage return is no reserved pattern. A field that ends in one,
  at the end of a row, is written without quotes, and the line separator after it makes
  the newline CR LF: `[["a\r"]]` is dumped as `a\r\n` and parses as `[["a"]]`. In all other
  tables of the model what is dumped reads back (csv_encode).

Two more differences of the dumped text were met. The option `reserved` replaces the
default patterns, where `lib/rusty_csv.ex` 613-615 calls them additional: with
`reserved: [";"]` a field that holds a separator is not quoted. And where the bytes after the
first of a pattern can start one, the end of a field and what is written after it may make a pattern: with
the escape `$$`, the field `;$` is dumped as `$$;$$$`, which closes a byte early. The dialects of
MCCsvEncode have no such patterns.

Two more differences between the parallel parser and the others contradict `docs/ARCHITECTURE.md` 34
("All strategies produce identical output") and `docs/COMPLIANCE.md` 142. They have no run of
their own; MCGeneralBatch states them as assumptions, which TLC evaluates. Empty input gives the workers one row
of one empty field, and the cursor none (`EmptyInputHasRange`; StrategiesAgreeOnTerminated excludes it by name). And the
search for row starts knows no separators: where a newline begins in a separator, it cuts rows where the cursor
reads a separator (`OverlapCutsRows`). With `separator: "||"` and `newlines: ["|"]`, which `define/2`
accepts, `a||b` is one row for `:simd` and three for `:parallel`. `Apart` is what has to hold of a dialect for
that not to happen.

## What is not modelled, and the plan

The plan is done but for two proofs. That a dialect of single bytes reads a text as CsvText does
(ReadsCsvText): the lemmas of CsvText_proofs on parity and those of GeneralDialect_proofs on tokens
(`TokenRun`, `RowsDoneNext`) are the two halves of it, but they have to be stated for one
alphabet and one dialect in a module that EXTENDS both. And that what is
dumped reads back (DumpReadsBack), an induction along what a dump writes, with the condition on patterns
that Findings describes.

An empty list of header keys is left out: the NIF refuses it (`decode_header_mode`), while a stream
makes empty maps. So are headers given together with `parse_chunks`, which has no such option.
Options are checked before a stream or a parse begins, and a call with an invalid
one has no further behaviour.

The limit of a parser counts bytes of rows that are cut out but not compacted yet
(`streaming.rs` 103), so whether a feed is refused depends on how the text was cut;
RaisesAsBatch excepts that error, and no document says which size is limited.

Out of scope: character tables of the encodings, option checks when a parser
module is compiled, the tracking allocator, building of terms as such, benchmarks
and their data.
