----------------------------- MODULE HeaderMaps -----------------------------
(***************************************************************************)
(* Rows as maps: the headers option of parse_string, parse_stream          *)
(* (lib/rusty_csv.ex) and the NIFs parse_to_maps (lib.rs, term.rs).        *)
(*                                                                         *)
(* A map is a function whose domain is its keys.  headers says what is     *)
(* wanted: kind is "lists" (false), "first_row" (true) or "keys" (a list   *)
(* of keys, never empty), and skip is the option skip_headers.             *)
(***************************************************************************)
EXTENDS Integers, Sequences, SequencesExt, FiniteSetsExt

CONSTANT Nil  \* the value of a column that a row has not

MapPut(map, key, value) ==
    [k \in DOMAIN map \cup {key} |-> IF k = key THEN value ELSE map[k]]

(* make_map: of equal keys the last wins. *)
MakeMap(keys, values) ==
    LET made[n \in 0..Len(keys)] ==
            IF n = 0 THEN <<>> ELSE MapPut(made[n - 1], keys[n], values[n])
    IN  made[Len(keys)]

(* A row of rows_to_maps_inner. *)
RowToMap(keys, row) ==
    MakeMap(keys, [i \in DOMAIN keys |-> IF i <= Len(row) THEN row[i] ELSE Nil])

(* What the batch functions return for the rows of a text: the NIF for     *)
(* maps, do_parse_string_with_headers for lists.                           *)
BatchRows(headers, rows) ==
    LET Maps(keys, list) == [n \in DOMAIN list |-> RowToMap(keys, list[n])]
        skipped == IF headers.skip /\ rows # <<>> THEN Tail(rows) ELSE rows
    IN  CASE headers.kind = "lists"     -> skipped
          [] headers.kind = "keys"      -> Maps(headers.keys, skipped)
          [] headers.kind = "first_row" ->
                IF rows = <<>> THEN <<>> ELSE Maps(Head(rows), Tail(rows))

(* Map.new: the last of equal keys wins. *)
MapNew(keys, values) ==
    [k \in Range(keys) |-> values[Max({i \in DOMAIN keys : keys[i] = k})]]

(* Mutant: a row that is too short is taken as it is. *)
PaddedNever(row, n) == IF Len(row) > n THEN SubSeq(row, 1, n) ELSE row

(* A row of as many columns as there are keys. *)
Padded(row, n) ==
    IF Len(row) < n THEN row \o [i \in 1..n - Len(row) |-> Nil]
                    ELSE SubSeq(row, 1, n)

(* zip_to_map: Enum.zip ends with the shorter list. *)
ZipToMap(keys, row) ==
    LET padded == Padded(row, Len(keys))
    IN  MapNew(SubSeq(keys, 1, Min({Len(keys), Len(padded)})), padded)
=============================================================================
