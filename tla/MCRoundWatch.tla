---------------------------- MODULE MCRoundWatch ----------------------------
(***************************************************************************)
(* One lottery whose page may list it under two opening days, with two     *)
(* dates for its other deadlines.                                          *)
(***************************************************************************)
EXTENDS RoundWatch

CONSTANTS a, b

SameLabel == [k \in Key |-> "lottery"]
Openings  == [k \in Key |-> IF k = a THEN 0 ELSE -1]
Lottery   == [key |-> a, ends |-> 0]
=============================================================================
