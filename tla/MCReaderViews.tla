---------------------------- MODULE MCReaderViews ---------------------------
(***************************************************************************)
(* A campaign with an upgrade, for the reader's surfaces.                  *)
(***************************************************************************)
EXTENDS ReaderQuestions, TLC

CONSTANTS r1, r2, r3, d1, d2

Deadlines(o, c, res, p) == [OPENS |-> o, CLOSES |-> c, RESULTS |-> res, PAYMENT |-> p]

\* A lottery for both legs, a later general sale that names none and does not
\* close, and an upgrade of the lottery's ticket that opens in between.
UpgradeConcert ==
    [days |-> {d1, d2}, cancelled |-> {}, starts |-> [d \in Day |-> 3],
     rounds |-> {r1, r2, r3},
     legs |-> (r1 :> {d1, d2} @@ r2 :> {} @@ r3 :> {d1}),
     at |-> (r1 :> Deadlines(0, 1, 1, 3) @@ r2 :> Deadlines(2, NoTime, NoTime, NoTime)
             @@ r3 :> Deadlines(1, 2, 2, 3)),
     upgrades |-> {r3}, qualifiers |-> [r \in Round |-> IF r = r3 THEN {r1} ELSE {}]]
=============================================================================
