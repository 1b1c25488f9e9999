---------------------------- MODULE MCConcertForm ---------------------------
(***************************************************************************)
(* A creation form filled with a leg, a row left blank, a round that       *)
(* requires the item a later row sells, and that item sale.                *)
(***************************************************************************)
EXTENDS ConcertForm

CONSTANTS a, b

Sold(s, kind, legs, needs) ==
    [id |-> 0, key |-> NewToken(s), name |-> s, kind |-> kind,
     legs |-> legs, quals |-> {}, needs |-> needs]
Day(d, blank) == [id |-> 0, key |-> NewToken(d), name |-> d, off |-> FALSE, blank |-> blank]

EitherTab == Permutations(Tab)

Filling ==
    [open |-> TRUE, new |-> TRUE, old |-> FALSE,
     legs |-> <<Day(2, FALSE), Day(3, TRUE), Day(1, FALSE)>>,
     rounds |-> <<Sold(1, "UPGRADE", {NewToken(2), NewToken(3)}, NewToken(2)),
                  Sold(2, "ITEM_SALE", {}, NoToken)>>]
=============================================================================
