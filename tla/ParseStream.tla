---------------------------- MODULE ParseStream ----------------------------
(***************************************************************************)
(* parse_stream/2 of a parser module (lib/rusty_csv.ex) from the source to *)
(* the consumer, with to_line_stream/1 before it if the caller wants:      *)
(*                                                                         *)
(*    source -> [LineStream] -> StreamEnumerable -> headers -> consumer    *)
(*                                                                         *)
(* The parser is created when the stream is BUILT; every enumeration of    *)
(* the stream uses that same parser.  A source is its units, and where its *)
(* elements end is open: each element is any number of the units not read. *)
(***************************************************************************)
EXTENDS StreamEnumerable, HeaderMaps, LineStream

CONSTANTS Jobs,     \* sources, each with the options of the call
          MaxRuns   \* bound: enumerations of the stream

ASSUME JobsAssumption ==
    /\ \A job \in Jobs : job.source \in Seq(IF job.opts.encoded THEN Unit ELSE Byte)
    /\ MaxRuns \in Nat

ASSUME HeadersAssumption ==
    \A job \in Jobs :
        /\ job.opts.headers.kind \in {"lists", "first_row", "keys"}
        /\ job.opts.headers.keys \in Seq(Range(job.opts.headers.keys))

(* The encoding does not repeat a unit for a line feed, and a mark holds   *)
(* none: 0A 00 and FF FE of UTF-16LE.                                      *)
ASSUME NewlineAssumption ==
    /\ Code[LF][1] # Code[LF][2]
    /\ LF \notin Range(Mark) /\ NewlineStarts({Code[LF]}, EncodedMark) = {}

VARIABLES source,   \* the units of the source
          read,     \* how many of them are read
          lineAcc,  \* to_line_stream: units read and not handed on
          keys,     \* do_stream_with_headers: <<>> is :no_header, and <<k>>
                    \* the keys k
          toDrop,   \* Stream.drop: rows still to drop
          out,      \* what the consumer has got in this enumeration
          runs,     \* enumerations started
          fresh,    \* history: this enumeration found the parser empty
          cuts      \* history: where the lines handed on end in source

sourceVars == <<source, read, lineAcc, cuts>>
headerVars == <<keys, toDrop>>
vars == <<streamVars, driverVars, sourceVars, headerVars, out, runs, fresh>>

(* @encoded_newlines of the default newlines. *)
LineFeed == IF opts.encoded THEN Code[LF] ELSE <<LF>>
CrLf == IF opts.encoded THEN Code[CR] \o Code[LF] ELSE <<CR, LF>>

Newlines == {CrLf, LineFeed}

FirstKeys == IF opts.headers.kind = "keys" THEN <<opts.headers.keys>> ELSE <<>>
FirstDrop == IF opts.headers.kind # "first_row" /\ opts.headers.skip THEN 1 ELSE 0

Init ==
    /\ StreamInit
    /\ \E job \in Jobs : source = job.source /\ opts = job.opts
    /\ mark = "unread" /\ undecoded = <<>> /\ acc = <<>> /\ pending = <<>>
    /\ phase = "built" /\ error = "none"
    /\ read = 0 /\ lineAcc = <<>> /\ cuts = {}
    /\ keys = FirstKeys /\ toDrop = FirstDrop /\ out = <<>>
    /\ runs = 0 /\ fresh = TRUE

(* An enumeration starts. *)
Start ==
    /\ phase = "built" \/ Ended
    /\ runs < MaxRuns
    /\ StartStages
    /\ read' = 0 /\ lineAcc' = <<>> /\ cuts' = {}
    /\ keys' = FirstKeys /\ toDrop' = FirstDrop /\ out' = <<>>
    /\ runs' = runs + 1
    /\ fresh' = (opts.api = "chunks" \/ text = <<>>)
    /\ UNCHANGED source

Elements == {SubSeq(source, read + 1, n) : n \in read..Len(source)}

(* An element of the source, without to_line_stream. *)
PullElement ==
    /\ ~opts.lined
    /\ \E element \in Elements :
          /\ Pull(element)
          /\ read' = read + Len(element)
    /\ UNCHANGED <<source, lineAcc, cuts, headerVars, out, runs, fresh>>

(* An element of the source goes to to_line_stream, all of whose lines are *)
(* handed on.                                                              *)
ReadElement ==
    /\ opts.lined /\ Reading
    /\ ~HasLine(Newlines, lineAcc)
    /\ \E element \in Elements :
          /\ lineAcc' = lineAcc \o element
          /\ read' = read + Len(element)
    /\ UNCHANGED <<streamVars, driverVars, source, cuts, headerVars, out, runs, fresh>>

HandOn(units) ==
    /\ Pull(units)
    /\ lineAcc' = SubSeq(lineAcc, Len(units) + 1, Len(lineAcc))
    /\ cuts' = cuts \cup {read - Len(lineAcc')}
    /\ UNCHANGED <<source, read, headerVars, out, runs, fresh>>

PullLine ==
    /\ opts.lined /\ HasLine(Newlines, lineAcc)
    /\ HandOn(SubSeq(lineAcc, 1, LineLength(Newlines, lineAcc)))

(* The source has ended within a line. *)
PullLastLine ==
    /\ opts.lined /\ ~HasLine(Newlines, lineAcc) /\ lineAcc # <<>>
    /\ read = Len(source)
    /\ HandOn(lineAcc)

SourceEnds ==
    /\ read = Len(source) /\ lineAcc = <<>>
    /\ LastFun
    /\ UNCHANGED <<sourceVars, headerVars, out, runs, fresh>>

(* do_stream_with_headers takes the next row: it drops it, keeps it for    *)
(* keys, or gives the consumer what it makes of it.                        *)
DropRow ==
    /\ toDrop > 0
    /\ toDrop' = toDrop - 1
    /\ UNCHANGED <<keys, out>>

KeepKeys ==
    /\ toDrop = 0 /\ opts.headers.kind = "first_row" /\ keys = <<>>
    /\ keys' = <<Head(pending)>>
    /\ UNCHANGED <<toDrop, out>>

GiveRow ==
    /\ toDrop = 0 /\ opts.headers.kind = "lists"
    /\ out' = Append(out, Head(pending))
    /\ UNCHANGED headerVars

GiveMap ==
    /\ toDrop = 0 /\ opts.headers.kind # "lists" /\ keys # <<>>
    /\ out' = Append(out, ZipToMap(keys[1], Head(pending)))
    /\ UNCHANGED headerVars

TakeRow ==
    /\ phase \in {"reading", "draining"} /\ pending # <<>>
    /\ DropRow \/ KeepKeys \/ GiveRow \/ GiveMap
    /\ pending' = Tail(pending)
    /\ UNCHANGED <<streamVars, sourceVars, opts, mark, undecoded, acc, phase, error, runs, fresh>>

(* The consumer has enough (Enum.take).  after_fun leaves the parser alone. *)
Halt ==
    /\ opts.api = "stream"
    /\ phase \in {"reading", "draining"} /\ out # <<>>
    /\ phase' = "halted" /\ pending' = <<>>
    /\ UNCHANGED <<streamVars, sourceVars, opts, mark, undecoded, acc, error,
                   headerVars, out, runs, fresh>>

Complete ==
    /\ phase = "draining" /\ pending = <<>>
    /\ phase' = "done"
    /\ UNCHANGED <<streamVars, sourceVars, opts, mark, undecoded, acc, pending, error,
                   headerVars, out, runs, fresh>>

Next ==
    \/ Start
    \/ PullElement \/ ReadElement \/ PullLine \/ PullLastLine
    \/ SourceEnds
    \/ TakeRow
    \/ Halt
    \/ Complete

Spec == Init /\ [][Next]_vars

-----------------------------------------------------------------------------
(* Properties. *)

(* The units handed to the stages. *)
Handed == SubSeq(source, 1, read - Len(lineAcc))

(* They as the stages after strip_bom_stream have them. *)
Kept == IF mark = "stripped" THEN LessBom(Handed) ELSE Handed

(* Types; and what is gathered is fed as soon as it makes up MinBuffer. *)
TypeOK ==
    /\ text \in Seq(Byte) /\ acc \in Seq(Byte) /\ Len(acc) < MinBuffer
    /\ undecoded \in Seq(Unit) /\ lineAcc \in Seq(Unit)
    /\ read \in 0..Len(source) /\ Len(lineAcc) <= read
    /\ cuts \subseteq 0..read
    /\ mark \in {"unread", "stripped", "kept"}
    /\ phase \in {"built", "reading", "draining", "done", "halted", "raised"}
    /\ error \in {"none", "malformed", "encoding", "overflow"}
    /\ phase = "raised" <=> error # "none"
    /\ toDrop \in 0..1 /\ runs \in 0..MaxRuns

(* While an enumeration that found the parser empty reads, no unit is lost,*)
(* doubled or reordered on its way through the stages: the units of the    *)
(* source are with the line stream, half a character, gathered, or with    *)
(* the parser, in this order from the last to the first.                   *)
NoByteSkipped ==
    fresh /\ phase = "reading" =>
        /\ IsPrefix(Handed \o lineAcc, source)
        /\ ~Invalid(Kept) /\ Converted(Kept) = text \o acc
        /\ Rest(Kept) = undecoded

(* However the source is cut, to_line_stream hands on its lines: an        *)
(* element ends where a line feed ends, and at the end of the source.  So  *)
(* the first element holds a byte order mark whole.                        *)
LineFeedEnds(s) == {i + Len(LineFeed) - 1 : i \in NewlineStarts({LineFeed}, s)}

LinesOfSource ==
    opts.lined /\ phase \in {"reading", "draining", "done"} =>
        /\ cuts = {n \in (LineFeedEnds(source) \cup {Len(source)}) \ {0} : n <= Len(Handed)}
        /\ mark # "unread" => (mark = "stripped" <=> opts.trim /\ IsPrefix(Bom, source))

(* What parse_string makes of units from which a mark is already taken:    *)
(* rows as far as they can be converted, and whether it raises.            *)
Convertible(units) ==
    IF Invalid(units) THEN SubSeq(units, 1, 2 * Min(InvalidPairs(units)) - 2) ELSE units

RowsOfUnits(units) == BatchRows(opts.headers, AllRows(Converted(Convertible(units))))

BatchRaises(units) ==
    Invalid(units) \/ Rest(units) # <<>> \/ Refuses(Converted(units), TRUE)

(* The source without its mark, if the stream found it. *)
Unmarked == IF mark = "stripped" THEN LessBom(source) ELSE source

(* What the consumer gets are the first rows that a batch parse of the     *)
(* source returns, as lists or maps, and all of them when the enumeration  *)
(* completes.                                                              *)
EmitsRowsOfSource ==
    fresh => /\ IsPrefix(out, RowsOfUnits(Unmarked))
             /\ phase = "done" => out = RowsOfUnits(Unmarked)

(* A stream raises exactly when a batch parse of the source does, unless   *)
(* its consumer stops first or the parser may hold no more.                *)
RaisesAsBatch ==
    fresh => /\ phase = "raised" /\ error # "overflow" => BatchRaises(Unmarked)
             /\ phase = "done" => ~BatchRaises(Unmarked)

(* A completed enumeration leaves an empty parser, so that the stream can  *)
(* be enumerated again.                                                    *)
CompletionEmptiesParser == phase = "done" => text = <<>> /\ delivered = <<>>

(* The stream yields the rows of its source, whatever an earlier           *)
(* enumeration did: what a Stream is to its callers.                       *)
EveryRunYieldsSource == IsPrefix(out, RowsOfUnits(Unmarked))

(* A byte order mark is removed as a batch parse removes it (trim_bom).    *)
WithoutMark == IF opts.trim /\ IsPrefix(Bom, source) THEN LessBom(source) ELSE source

StripsBomAsBatch == fresh /\ phase = "done" => out = RowsOfUnits(WithoutMark)
=============================================================================
