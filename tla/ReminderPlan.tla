---------------------------- MODULE ReminderPlan ----------------------------
(***************************************************************************)
(* What one reader's reminder rule implies for one concert: the pure part  *)
(* of src/app/domain/reminders.py together with the filters sync_rule      *)
(* (src/app/db/core.py) applies before it calls the planner.               *)
(*                                                                         *)
(* A concert `c` is the record the tables concerts, concert_days, rounds   *)
(* and round_qualifiers hold for it; a standing `s` is what one reader has *)
(* recorded about it (round_outcomes, round_outcome_days, leg_opt_outs and *)
(* the OPTED_OUT override).  Times are integers on one clock.              *)
(***************************************************************************)
EXTENDS Integers, FiniteSets

CONSTANTS
    Round,      \* ids a lottery/sale round of the concert may have
    Day,        \* ids a performance ("leg") of the concert may have
    NoTime,     \* a deadline column that is NULL
    AllRounds   \* the scope of a concert-wide rule (rule.round_id IS NULL)

ASSUME PlanAssumption ==
    /\ Round \cap Day = {}
    /\ NoTime \notin Int
    /\ AllRounds \notin Round

RoundAnchor == {"OPENS", "CLOSES", "RESULTS", "PAYMENT"}
Anchor      == RoundAnchor \cup {"EVENT_START"}
Outcome     == {"NOT_APPLIED", "APPLIED", "WON", "LOST", "PAID"}
Secured     == {"WON", "PAID"}
Time        == Int \cup {NoTime}

\* A concert: its legs (some cancelled), its rounds, the legs each round names
\* (applies_to, {} standing for NULL), deadlines, and the upgrade campaigns.
Concert == [days: SUBSET Day, cancelled: SUBSET Day, starts: [Day -> Int],
            rounds: SUBSET Round, legs: [Round -> SUBSET Day],
            at: [Round -> [RoundAnchor -> Time]],
            upgrades: SUBSET Round, qualifiers: [Round -> SUBSET Round]]

\* A reader's standing: "NONE" is the absence of a row.
Standing == [outcome: [Round -> Outcome \cup {"NONE"}],
             result: [Round -> [Day -> {"WON", "LOST", "NONE"}]],
             out: SUBSET Day, pruned: BOOLEAN]

\* A rule: concert-wide or for one round, `lead` before its anchor.
Rule == [scope: Round \cup {AllRounds}, anchor: Anchor, lead: Int]

Target == Round \cup Day   \* what a queue row is about

----------------------------------------------------------------------------
(* Coverage, cancellation and what a reader already holds.                 *)

CoveredDays(c, r) == IF c.legs[r] = {} THEN c.days ELSE c.legs[r] \cap c.days

RoundCancelled(c, r) == c.legs[r] # {} /\ c.legs[r] \subseteq c.cancelled

AllLegsCancelled(c) == c.days # {} /\ c.days \subseteq c.cancelled

HasDayRows(s, r) == \E d \in Day : s.result[r][d] # "NONE"

WonDays(s, r) == {d \in Day : s.result[r][d] = "WON"}

SecuredRounds(c, s) == {r \in c.rounds : s.outcome[r] \in Secured}

\* No day rows means every covered leg; any row switches that off.
SecuredDays(c, s, r) ==
    IF HasDayRows(s, r) THEN WonDays(s, r) \cap CoveredDays(c, r)
                        ELSE CoveredDays(c, r)

SecuredElsewhere(c, s, r) ==
    UNION {SecuredDays(c, s, o) : o \in SecuredRounds(c, s) \ {r}}

\* covered_round_ids: nothing left for this reader to act on in the round.
RoundCovered(c, s, r) ==
    /\ r \notin c.upgrades
    /\ r \notin SecuredRounds(c, s)
    /\ CoveredDays(c, r) \cap SecuredElsewhere(c, s, r) # {}
    /\ CoveredDays(c, r) \ (s.out \cup c.cancelled) \subseteq SecuredElsewhere(c, s, r)

FullyOptedOut(c, s, r) == c.legs[r] # {} /\ c.legs[r] \subseteq s.out

UpgradeEligible(c, s, r) ==
    LET held == SecuredRounds(c, s) \ {r}
    IN IF c.qualifiers[r] = {} THEN held # {} ELSE held \cap c.qualifiers[r] # {}

\* The reader's own outcome makes this anchor of the round moot.
MootAnchor(s, r, anchor) ==
    \/ anchor = "RESULTS" /\ s.outcome[r] = "NOT_APPLIED"
    \/ anchor = "PAYMENT" /\ s.outcome[r] \in {"LOST", "PAID", "NOT_APPLIED"}

Suppressed(c, s, r, anchor) ==
    \/ FullyOptedOut(c, s, r)
    \/ r \in c.upgrades /\ ~UpgradeEligible(c, s, r)
    \/ RoundCovered(c, s, r)
    \/ MootAnchor(s, r, anchor)

----------------------------------------------------------------------------
(* The planner.                                                            *)

InScope(rule, r) == rule.scope \in {AllRounds, r}

\* Rounds and legs that survive every filter of sync_rule.  The prune
\* empties the rounds and leaves the legs, as the code does.
LiveRounds(c, s, rule) ==
    {r \in c.rounds : /\ InScope(rule, r)
                      /\ ~AllLegsCancelled(c) /\ ~RoundCancelled(c, r)
                      /\ ~s.pruned
                      /\ ~Suppressed(c, s, r, rule.anchor)}

LiveDays(c, s, rule) ==
    IF rule.scope = AllRounds THEN c.days \ (c.cancelled \cup s.out) ELSE {}

\* The targets plan_for_rule considers, and the moment it measures from.
Candidates(c, s, rule) ==
    IF rule.anchor = "EVENT_START"
    THEN LiveDays(c, s, rule)
    ELSE {r \in LiveRounds(c, s, rule) : c.at[r][rule.anchor] # NoTime}

AnchorTime(c, rule, target) ==
    IF target \in Day THEN c.starts[target] ELSE c.at[target][rule.anchor]

FireTime(c, rule, target) == AnchorTime(c, rule, target) - rule.lead

\* Mutant: a reminder whose moment is this very minute is planned again.
PlannedAgain(c, s, rule, now) ==
    {t \in Candidates(c, s, rule) : FireTime(c, rule, t) >= now}

Planned(c, s, rule, now) ==
    {t \in Candidates(c, s, rule) : FireTime(c, rule, t) > now}

=============================================================================
