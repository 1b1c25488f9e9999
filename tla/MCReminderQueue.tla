--------------------------- MODULE MCReminderQueue --------------------------
(***************************************************************************)
(* Small concerts and readers for TLC.                                     *)
(***************************************************************************)
EXTENDS ReminderQueue, TLC

CONSTANTS r1, r2, r3, d1, d2

Deadlines(o, c, res, p) == [OPENS |-> o, CLOSES |-> c, RESULTS |-> res, PAYMENT |-> p]

Wide(anchor, lead) == [scope |-> AllRounds, anchor |-> anchor, lead |-> lead]

\* A first lottery for leg 1, a second one, opening later, for both legs, and
\* the draft of a third for leg 2 that an editor may still add.
TourConcert ==
    [days |-> {d1, d2}, cancelled |-> {}, starts |-> [d \in Day |-> 4],
     rounds |-> {r1, r2}, legs |-> (r1 :> {d1} @@ r2 :> {d1, d2} @@ r3 :> {d2}),
     at |-> (r1 :> Deadlines(0, 2, NoTime, NoTime) @@ r2 :> Deadlines(3, 3, NoTime, NoTime)
             @@ r3 :> Deadlines(3, 4, NoTime, NoTime)),
     upgrades |-> {}, qualifiers |-> [r \in Round |-> {}]]

\* "One day before it closes" and "one day before the show".
ClosesRule == {Wide("CLOSES", 1)}
ShowRule   == {Wide("EVENT_START", 1)}

\* Two lotteries for both legs, the second opening after the first closes.
TwoLegConcert ==
    [TourConcert EXCEPT !.legs = [r \in Round |-> {d1, d2}],
        !.at = (r1 :> Deadlines(0, 1, 2, 3) @@ r2 :> Deadlines(2, 3, 4, 5)
                @@ r3 :> Deadlines(5, 6, 7, 8))]

\* The first round announces nothing but its results day.
ResultsOnlyConcert ==
    [TwoLegConcert EXCEPT !.at[r1] = Deadlines(NoTime, NoTime, 1, NoTime)]

=============================================================================
