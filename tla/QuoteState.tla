----------------------------- MODULE QuoteState -----------------------------
(***************************************************************************)
(* The scalar quote automaton of core/scanner.rs, shared by the streaming  *)
(* and the general parsers.  It does not look for delimiters: the parser   *)
(* that owns it says which byte it met, and at which byte position.        *)
(***************************************************************************)
EXTENDS Naturals

NoViolation == [kind |-> "none", pos |-> 0]

Violation ==
    {NoViolation} \cup
    [kind : {"unexpected_quote", "trailing_garbage", "unterminated_quote"},
     pos  : Nat]

(* Of two violations in stream order, the one that counts. *)
FirstOf(v, w) == IF v = NoViolation THEN w ELSE v

(* A violation of a row, as a position of the text the row was cut from. *)
Rebase(v, base) ==
    IF v = NoViolation THEN v ELSE [v EXCEPT !.pos = @ + base]

QuoteStates ==
    [in_quotes           : BOOLEAN,
     at_field_start      : BOOLEAN,
     after_closing_quote : BOOLEAN,
     violation           : Violation]

NewQuote ==
    [in_quotes           |-> FALSE,
     at_field_start      |-> TRUE,
     after_closing_quote |-> FALSE,
     violation           |-> NoViolation]

(* An escape byte.  doubled matters inside quotes only. *)
OnEscape(q, pos, doubled) ==
    IF q.in_quotes
    THEN IF doubled
         THEN q
         ELSE [q EXCEPT !.in_quotes = FALSE, !.after_closing_quote = TRUE]
    ELSE [in_quotes           |-> TRUE,
          at_field_start      |-> FALSE,
          after_closing_quote |-> FALSE,
          violation           |->
              IF q.at_field_start
              THEN q.violation
              ELSE FirstOf(q.violation,
                           [kind |-> "unexpected_quote", pos |-> pos])]

(* A separator or the end of a row. *)
OnDelimiter(q) ==
    [q EXCEPT !.at_field_start = TRUE, !.after_closing_quote = FALSE]

(* Any other byte outside quotes. *)
OnData(q, pos) ==
    [q EXCEPT !.at_field_start      = FALSE,
              !.after_closing_quote = FALSE,
              !.violation           =
                  IF q.after_closing_quote
                  THEN FirstOf(@, [kind |-> "trailing_garbage", pos |-> pos])
                  ELSE @]

(* The violation of a text that ends here. *)
Finish(q, end) ==
    IF q.in_quotes
    THEN FirstOf(q.violation, [kind |-> "unterminated_quote", pos |-> end])
    ELSE q.violation
=============================================================================
