---------------------------- MODULE MCGeneralBatch ----------------------------
(***************************************************************************)
(* Model values for GeneralBatch: an escape of two bytes and separators    *)
(* that start alike, newlines that may overlap, and a dialect of single    *)
(* bytes, which the option newlines: ["\n", "\r\n"] selects.  In these no  *)
(* newline overlaps a separator.  In a last one, which no run takes, the   *)
(* newline begins the separator, as newlines: ["|"] do separator: "||".    *)
(***************************************************************************)
EXTENDS OneByteBatch

CONSTANTS sep, quote, lf, cr, MaxLength

MCByte == {sep, quote, lf, cr}

TwoByteEscape ==
    [separators |-> <<<<sep, sep>>, <<sep>>>>, escape |-> <<quote, quote>>,
     newlines |-> <<<<cr, lf>>, <<lf>>>>, is_default |-> TRUE]

TwoByteNewlines ==
    [separators |-> <<<<sep>>>>, escape |-> <<quote>>,
     newlines |-> <<<<cr, lf>>, <<lf, cr>>>>, is_default |-> FALSE]

SingleBytes ==
    [separators |-> <<<<sep>>>>, escape |-> <<quote>>,
     newlines |-> <<<<cr, lf>>, <<lf>>>>, is_default |-> FALSE]

NewlineInSeparator ==
    [separators |-> <<<<sep, sep>>>>, escape |-> <<quote>>,
     newlines |-> <<<<sep>>>>, is_default |-> FALSE]

Separate == {TwoByteEscape, TwoByteNewlines, SingleBytes}

MCTexts == UNION {[1..n -> MCByte] : n \in 0..MaxLength}
NonEmptyTexts == MCTexts \ {<<>>}

(* What the theorems about the parallel parser ask of a dialect. *)
ASSUME SeparateAssumption ==
    /\ \A d \in Separate : Apart(d)
    /\ ~Apart(NewlineInSeparator)

(* Where a newline begins the separator, a separator parts two fields of a *)
(* row for the cursor, and is planned as two rows for the workers.         *)
ASSUME OverlapCutsRows ==
    /\ [k \in DOMAIN BatchRows(NewlineInSeparator, <<sep, sep>>) |->
            BatchRows(NewlineInSeparator, <<sep, sep>>)[k].bounds]
         = <<<<<<0, 0>>, <<2, 2>>>>>>
    /\ RowRanges(NewlineInSeparator, <<sep, sep>>) = <<<<0, 1>>, <<1, 2>>>>

(* The empty input has no row for the cursor and one for the workers. *)
ASSUME EmptyInputHasRange ==
    \A d \in Separate :
        /\ BatchRows(d, <<>>) = <<>>
        /\ RowRanges(d, <<>>) = <<<<0, 0>>>>
        /\ ParsedLine(d, <<>>, <<0, 0>>).bounds = <<<<0, 0>>>>
=============================================================================
