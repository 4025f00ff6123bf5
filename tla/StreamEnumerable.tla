-------------------------- MODULE StreamEnumerable --------------------------
(***************************************************************************)
(* stream_enumerable/2 and parse_chunks/2 of lib/rusty_csv/streaming.ex:   *)
(* an element of a source is stripped of a byte order mark, converted to   *)
(* UTF-8, gathered with others and fed to a streaming parser, whose rows   *)
(* are taken.  Here are the stages and what one element does to them;      *)
(* ParseStream has the source before and the consumer after them.          *)
(*                                                                         *)
(* The parser is CsvStream, which StreamingParser implements.  One process *)
(* enumerates, so the NIF calls of a step follow each other without        *)
(* interference.                                                           *)
(***************************************************************************)
EXTENDS CsvStream

CONSTANTS Unit,         \* what a source consists of: bytes of a text in UTF-8,
                        \* or the halves of its characters in an encoding
          Code,         \* the encoding: the two units of a character
          Mark,         \* the byte order mark in UTF-8
          EncodedMark,  \* and in the encoding
          MinBuffer     \* @min_buffer_size, in bytes

ASSUME DriverAssumption ==
    /\ Byte \subseteq Unit
    /\ Code \in [Byte -> Unit \X Unit]
    /\ \A b, c \in Byte : Code[b] = Code[c] => b = c
    /\ Mark \in Seq(Byte) \ {<<>>} /\ EncodedMark \in Seq(Unit) \ {<<>>}
    /\ MinBuffer \in Nat \ {0}

VARIABLES opts,       \* the options of the call
          mark,       \* strip_bom_stream: "unread", or what became of the
                      \* first element: "stripped" or "kept"
          undecoded,  \* convert_stream_to_utf8: half a character
          acc,        \* buf_chunks: the bytes gathered and not fed
          pending,    \* rows returned to Stream.transform, not emitted yet
          phase,      \* "built", "reading", "draining", then how it ended:
                      \* "done", "halted" or "raised"
          error       \* what raised: "malformed", "encoding", "overflow"

driverVars == <<opts, mark, undecoded, acc, pending, phase, error>>

Ended == phase \in {"done", "halted", "raised"}

Raise(reason) == phase' = "raised" /\ error' = reason

-----------------------------------------------------------------------------
(* strip_bom_stream. *)

Bom == IF opts.encoded THEN EncodedMark ELSE Mark

LessBom(units) == SubSeq(units, Len(Bom) + 1, Len(units))

HasBom(element) == opts.trim /\ mark = "unread" /\ IsPrefix(Bom, element)

MarkAfter(element) ==
    IF mark # "unread" THEN mark ELSE IF HasBom(element) THEN "stripped" ELSE "kept"

-----------------------------------------------------------------------------
(* convert_stream_to_utf8, with :unicode.characters_to_binary. *)

Pair(units, i) == <<units[2 * i - 1], units[2 * i]>>

CharacterOf(pair) == CHOOSE b \in Byte : Code[b] = pair

(* Pairs that stand for no byte. *)
InvalidPairs(units) ==
    {i \in 1..Len(units) \div 2 : \A b \in Byte : Code[b] # Pair(units, i)}

Invalid(units) == opts.encoded /\ InvalidPairs(units) # {}

Converted(units) ==
    IF opts.encoded
    THEN [i \in 1..Len(units) \div 2 |-> CharacterOf(Pair(units, i))]
    ELSE units

(* Mutant: the half is dropped. *)
RestDropped(units) == <<>>

(* Half a character at the end. *)
Rest(units) ==
    IF opts.encoded THEN SubSeq(units, 2 * (Len(units) \div 2) + 1, Len(units)) ELSE <<>>

-----------------------------------------------------------------------------
(* The reducer of Stream.transform: parse!(feed), parse!(next_rows). *)

(* The buffer of the parser holds at least the row that is open and at most *)
(* the text; between them it is a matter of compaction whether a feed is    *)
(* refused.                                                                 *)
MayOverflow(bytes) == Len(text) + Len(bytes) > opts.max
MustOverflow(bytes) == Len(LastLine(text)) + Len(bytes) > opts.max

Overflow(bytes) ==
    /\ MayOverflow(bytes)
    /\ Raise("overflow")
    /\ UNCHANGED <<streamVars, pending>>

(* Mutant: one byte late. *)
EnoughToFeedLate(bytes) == Len(bytes) > MinBuffer

(* parse_chunks feeds every chunk by itself. *)
EnoughToFeed(bytes) == opts.api = "chunks" \/ Len(bytes) >= MinBuffer

(* parse_chunks takes no rows before the last chunk. *)
FeedAndTake(bytes) ==
    LET t == text \o bytes
    IN  /\ ~MustOverflow(bytes)
        /\ text' = t
        /\ IF Refuses(t, FALSE)
           THEN Raise("malformed") /\ UNCHANGED <<delivered, pending>>
           ELSE /\ delivered' = IF opts.api = "chunks" THEN delivered ELSE EndedRows(t)
                /\ pending' = After(delivered', Len(delivered))
                /\ UNCHANGED <<phase, error>>
        /\ UNCHANGED strict

Gather(bytes) ==
    IF EnoughToFeed(bytes)
    THEN acc' = <<>> /\ (FeedAndTake(bytes) \/ Overflow(bytes))
    ELSE acc' = bytes /\ UNCHANGED <<streamVars, pending, phase, error>>

Reading == phase = "reading" /\ pending = <<>>

(* The element that is stripped and what was left of the one before. *)
Input(element) == undecoded \o (IF HasBom(element) THEN LessBom(element) ELSE element)

(* An element goes through the stages. *)
Pull(element) ==
    LET input == Input(element)
    IN  /\ Reading
        /\ mark' = MarkAfter(element)
        /\ IF Invalid(input)
           THEN Raise("encoding") /\ UNCHANGED <<streamVars, undecoded, acc, pending>>
           ELSE undecoded' = Rest(input) /\ Gather(acc \o Converted(input))
        /\ UNCHANGED opts

(* The text once last_fun has fed what is left. *)
Leftover == text \o acc

(* Mutant: the answer of finalize is taken for rows. *)
FinalErrorIgnored(t) == FALSE

FinalError(t) == Refuses(t, TRUE)

(* last_fun of the reducer: feed what is left, take every row, finalize. *)
FeedLast ==
    LET t == Leftover
    IN  /\ ~MustOverflow(acc)
        /\ IF Refuses(t, FALSE)
           THEN /\ text' = t
                /\ Raise("malformed")
                /\ UNCHANGED <<delivered, pending, strict>>
           ELSE /\ Close
                /\ IF FinalError(t)
                   THEN Raise("malformed") /\ UNCHANGED pending
                   ELSE /\ phase' = "draining"
                        /\ pending' = After(AllRows(t), Len(delivered))
                        /\ UNCHANGED error

(* The last_fun of each stage, the first stage first: half a character at  *)
(* the end raises before the reducer has fed what it gathered.             *)
LastFun ==
    /\ Reading
    /\ IF undecoded # <<>>
       THEN Raise("encoding") /\ UNCHANGED <<streamVars, acc, pending>>
       ELSE acc' = <<>> /\ (FeedLast \/ (acc # <<>> /\ Overflow(acc)))
    /\ UNCHANGED <<opts, mark, undecoded>>

(* The accumulators of the stages are made anew for each enumeration; the  *)
(* parser is made when the stream is built, by parse_chunks for each call. *)
StartStages ==
    /\ mark' = "unread" /\ undecoded' = <<>> /\ acc' = <<>> /\ pending' = <<>>
    /\ phase' = "reading" /\ error' = "none"
    /\ IF opts.api = "chunks" THEN Close ELSE UNCHANGED streamVars
    /\ UNCHANGED opts
=============================================================================
