---------------------------- MODULE RoundOutcomes ---------------------------
(***************************************************************************)
(* The writers of one reader's lottery outcomes (src/app/db/core.py): what *)
(* each capture button does to the reader's standing on two layers, the    *)
(* round's own outcome and the per-leg results under it, and which legs it *)
(* reports lost, so that the next round selling them can be armed.         *)
(*                                                                         *)
(* A writer maps the concert and the standing to a write: the new standing *)
(* and `lost`, the legs whose loss arms a fallback: NoArm for no arming,   *)
(* WholeRound for a round lost as a whole, else a set of legs.             *)
(***************************************************************************)
EXTENDS ReminderPlan

NoArm       == [kind |-> "none",  legs |-> {}]
WholeRound  == [kind |-> "round", legs |-> {}]
LegsLost(D) == IF D = {} THEN NoArm ELSE [kind |-> "legs", legs |-> D]

Write(s, arm) == [standing |-> s, arm |-> arm]

\* Legs of the round the reader is still waiting on.
UnresolvedDays(c, s, r) ==
    {d \in CoveredDays(c, r) \ (c.cancelled \cup s.out) : s.result[r][d] = "NONE"}

SetOutcome(s, r, o) == [s EXCEPT !.outcome[r] = o]

\* A first answer only starts a round; a payment needs the win it pays for.
OutcomeAccepted(s, r, o) ==
    /\ o \in {"NOT_APPLIED", "APPLIED"} => s.outcome[r] = "NONE"
    /\ o = "PAID" => s.outcome[r] = "WON"

RecordRoundOutcome(s, r, o) ==
    Write(SetOutcome(s, r, o), IF o = "LOST" THEN WholeRound ELSE NoArm)

\* Mutant: the implied win is not spelled out.
MaterializeNothing(c, s, r) == s

\* A secured round without day rows spells out the win it has been implying.
MaterializeWins(c, s, r) ==
    IF s.outcome[r] \in Secured /\ ~HasDayRows(s, r)
    THEN [s EXCEPT !.result[r] = [d \in Day |->
             IF d \in CoveredDays(c, r) THEN "WON" ELSE "NONE"]]
    ELSE s

\* Mutant: a round with no leg left open is lost, won legs or not.
SettleDespiteWins(c, s, r, lost) ==
    IF UnresolvedDays(c, s, r) = {}
    THEN RecordRoundOutcome(s, r, "LOST")
    ELSE Write(s, LegsLost(lost))

\* Mutant: the last lost leg settles the round without arming the next one.
SettleSilently(c, s, r, lost) ==
    IF WonDays(s, r) = {} /\ UnresolvedDays(c, s, r) = {}
    THEN Write(SetOutcome(s, r, "LOST"), NoArm)
    ELSE Write(s, LegsLost(lost))

\* The shared tail of every lost leg: the round is settled, or only legs moved.
SettleLostDays(c, s, r, lost) ==
    IF WonDays(s, r) = {} /\ UnresolvedDays(c, s, r) = {}
    THEN RecordRoundOutcome(s, r, "LOST")
    ELSE Write(s, LegsLost(lost))

RecordDayResult(c, s, r, d, res) ==
    LET s1 == [MaterializeWins(c, s, r) EXCEPT !.result[r][d] = res]
    IN IF res = "LOST" THEN SettleLostDays(c, s1, r, {d})
       ELSE IF s.outcome[r] \in Secured THEN Write(s1, NoArm)
       ELSE RecordRoundOutcome(s1, r, "WON")

RecordRemainingLost(c, s, r) ==
    LET s1   == MaterializeWins(c, s, r)
        rest == UnresolvedDays(c, s1, r)
        s2   == [s1 EXCEPT !.result[r] = [d \in Day |->
                    IF d \in rest THEN "LOST" ELSE s1.result[r][d]]]
    IN SettleLostDays(c, s2, r, rest)

\* "Won (all)" on the DM: the round, then every leg still open once any leg
\* has its own row.
PressWonAll(c, s, r) ==
    [SetOutcome(s, r, "WON") EXCEPT !.result[r] = [d \in Day |->
        IF HasDayRows(s, r) /\ d \in UnresolvedDays(c, s, r)
        THEN "WON" ELSE s.result[r][d]]]

ClearRound(s, r) ==
    [s EXCEPT !.outcome[r] = "NONE", !.result[r] = [d \in Day |-> "NONE"]]

\* What the surviving day rows say about the round.
Rederived(c, s, r) ==
    IF s.outcome[r] = "NONE" \/ WonDays(s, r) # {}
    THEN s
    ELSE SetOutcome(s, r, IF UnresolvedDays(c, s, r) = {} THEN "LOST" ELSE "APPLIED")

ClearDay(c, s, r, d) ==
    Rederived(c, [s EXCEPT !.result[r][d] = "NONE"], r)

----------------------------------------------------------------------------
(* Arming the next round after a loss.                                     *)

\* The legs a loss frees: {} is "every leg", as an empty applies_to is.
FreedLegs(c, r, arm) == IF arm.kind = "legs" THEN arm.legs ELSE c.legs[r]

Fallbacks(c, r, arm) ==
    {n \in c.rounds \ (c.upgrades \cup {r}) :
        /\ c.at[n]["OPENS"] # NoTime
        /\ \/ FreedLegs(c, r, arm) = {} \/ c.legs[n] = {}
           \/ FreedLegs(c, r, arm) \cap c.legs[n] # {}}

\* closes_at or, failing that, opens_at; NoTime when the round has neither.
EndOfRound(c, r) ==
    IF c.at[r]["CLOSES"] # NoTime THEN c.at[r]["CLOSES"] ELSE c.at[r]["OPENS"]

\* Only a non-upgrade loss looks for a fallback, and the comparison with a
\* missing end raises as soon as there is a candidate to compare.
Arms(c, r, arm) == arm.kind # "none" /\ r \notin c.upgrades
ArmingRaises(c, r, arm) ==
    Arms(c, r, arm) /\ EndOfRound(c, r) = NoTime /\ Fallbacks(c, r, arm) # {}

LaterFallbacks(c, r, arm) ==
    IF ~Arms(c, r, arm) \/ EndOfRound(c, r) = NoTime
    THEN {}
    ELSE {n \in Fallbacks(c, r, arm) : c.at[n]["OPENS"] > EndOfRound(c, r)}

\* The earliest-opening ones; of several the code takes the first row.
NextRounds(c, r, arm) ==
    {n \in LaterFallbacks(c, r, arm) :
        \A m \in LaterFallbacks(c, r, arm) : c.at[n]["OPENS"] <= c.at[m]["OPENS"]}

\* The rule a loss creates, unless the reader has one for that opening.
ArmedRules(c, rules, r, arm, lead) ==
    LET next == NextRounds(c, r, arm)
        n    == CHOOSE m \in next : TRUE
    IN IF next = {} \/ \E rule \in rules : rule.scope = n /\ rule.anchor = "OPENS"
       THEN {}
       ELSE {[scope |-> n, anchor |-> "OPENS", lead |-> lead]}

=============================================================================
