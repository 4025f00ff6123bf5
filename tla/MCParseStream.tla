--------------------------- MODULE MCParseStream ---------------------------
(* Sources and options for ParseStream. *)
EXTENDS ParseStream

CONSTANTS sep, esc, lf, cr, a, b, bom1, bom2, key1, key2

MCByte == {sep, esc, lf, cr, a, b, bom1, bom2}
MCSeparators == {sep}
MCMark == <<bom1, bom2>>

(* As UTF-16LE: the second half of a and the first of b make a line feed. *)
MCCode == [c \in MCByte |->
    CASE c = sep  -> <<"2C", "00">>
      [] c = esc  -> <<"22", "00">>
      [] c = lf   -> <<"0A", "00">>
      [] c = cr   -> <<"0D", "00">>
      [] c = a    -> <<"05", "0A">>
      [] c = b    -> <<"00", "01">>
      [] c = bom1 -> <<"FF", "FE">>
      [] c = bom2 -> <<"FE", "FF">>]
MCUnit == MCByte \cup UNION {Range(MCCode[c]) : c \in MCByte}
MCEncodedMark == <<"FF", "FE">>

Lists == [kind |-> "lists", keys |-> <<>>, skip |-> FALSE]
Opts == [encoded |-> FALSE, trim |-> FALSE, lined |-> FALSE, api |-> "stream",
         max |-> 100, headers |-> Lists]

Over(sources, options) == [source : sources, opts : options]

Texts(n) == BoundedSeq({sep, esc, lf, cr, a}, n)

Plain == Over(Texts(5), {Opts}) \cup Over(Texts(4), {[Opts EXCEPT !.api = "chunks"], [Opts EXCEPT !.lined = TRUE]})

Small == Over(Texts(3), {[Opts EXCEPT !.max = 2]})

(* Tables with equal keys, and with rows too short and too long. *)
Rows == {<<a>>, <<b, sep, a>>, <<a, sep, b, sep, a>>}
Tables == {FlattenSeq([n \in DOMAIN rows |-> rows[n] \o <<lf>>]) :
              rows \in BoundedSeq(Rows, 3)}
Headers == [kind : {"lists", "first_row"}, keys : {<<>>}, skip : {TRUE}] \cup
           [kind : {"keys"}, keys : {<<key1, key2>>, <<key1, key1>>}, skip : BOOLEAN]
Maps == Over(Tables, {[Opts EXCEPT !.headers = h] : h \in Headers})

(* Texts in the encoding, whole and with units lost at the end, and units  *)
(* that stand for nothing.                                                 *)
Coded(t) == FlattenSeq([n \in DOMAIN t |-> MCCode[t[n]]])
CodedTexts ==
    {SubSeq(Coded(t), 1, Len(Coded(t)) - n) : t \in BoundedSeq({esc, lf, a, b}, 3), n \in 0..1}
Broken == {u \o v : u \in {Coded(t) : t \in BoundedSeq({a, lf}, 1)},
                    v \in BoundedSeq({"0A", "00"}, 3)}
Conversions ==
    Over(CodedTexts \cup Broken,
         {[Opts EXCEPT !.encoded = TRUE, !.lined = l] : l \in BOOLEAN})

Marked ==
    Over({MCMark \o t : t \in BoundedSeq({lf, a, bom1}, 2)} \cup {<<bom1>>, <<a, bom1, bom2>>, <<bom1, bom2, bom1, bom2>>},
         {[Opts EXCEPT !.trim = t, !.lined = l] : t, l \in BOOLEAN})
    \cup Over({MCEncodedMark \o Coded(t) : t \in BoundedSeq({lf, a}, 2)},
              {[Opts EXCEPT !.trim = TRUE, !.encoded = TRUE, !.lined = l] : l \in BOOLEAN})

MCJobs == Plain \cup Small \cup Maps \cup Conversions \cup Marked
=============================================================================
