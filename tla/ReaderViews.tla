----------------------------- MODULE ReaderViews -----------------------------
(***************************************************************************)
(* What the site shows one reader about one concert: Home's "Coming up",   *)
(* the board, the concert page's rows and capture buttons, and the pill in *)
(* the catalogue.  Each surface derives its answer from the same rows by   *)
(* code of its own (src/app/db/core.py, src/app/domain/board.py and the    *)
(* macro in _capture_actions.html), beside the reminder planner; the       *)
(* properties relate them after any sequence of presses and saves.         *)
(***************************************************************************)
EXTENDS ReminderQueue

----------------------------------------------------------------------------
(* Where a round sits in time.                                             *)

Set(c, r) == {a \in RoundAnchor : c.at[r][a] # NoTime}

Ahead(c, r, t) == {a \in Set(c, r) : c.at[r][a] > t}

HasOpened(c, r, t) == c.at[r]["OPENS"] = NoTime \/ c.at[r]["OPENS"] <= t

NotClosed(c, r, t) == c.at[r]["CLOSES"] = NoTime \/ c.at[r]["CLOSES"] > t

RoundIsOpen(c, r, t) ==
    Set(c, r) \cap {"OPENS", "CLOSES"} # {} /\ HasOpened(c, r, t) /\ NotClosed(c, r, t)

\* The announced results, failing that the close; with neither, any time.
ResultKnown(c, r, t) ==
    LET moment == IF c.at[r]["RESULTS"] # NoTime THEN c.at[r]["RESULTS"]
                                                 ELSE c.at[r]["CLOSES"]
    IN moment = NoTime \/ moment <= t

Live(c) == c.days \ c.cancelled

MayEnter(c, s, r) == r \in c.upgrades => UpgradeEligible(c, s, r)

----------------------------------------------------------------------------
(* Home: "Coming up".                                                      *)

Deadline(target, anchor, at) == [target |-> target, anchor |-> anchor, at |-> at]

\* One entry per future moment of a live leg or round of a live concert.
UpcomingDeadlines(c, t) ==
    {Deadline(d, "EVENT_START", c.starts[d]) : d \in {e \in Live(c) : c.starts[e] > t}}
    \cup UNION {{Deadline(r, a, c.at[r][a]) : a \in Ahead(c, r, t)} :
                   r \in {q \in c.rounds : ~AllLegsCancelled(c) /\ ~RoundCancelled(c, q)}}

\* Mutant: a leg the reader skips is filtered, a round all of whose legs they
\* skip is not.
DeadlineRowsOfSkippedRounds(c, s, t) ==
    {row \in UpcomingDeadlines(c, t) :
        /\ ~s.pruned
        /\ row.target \notin s.out
        /\ row.target \in Round => /\ ~RoundCovered(c, s, row.target)
                                   /\ MayEnter(c, s, row.target)}

\* The entries this reader is shown; pruning the concert untracks it.
DeadlineRows(c, s, t) ==
    {row \in UpcomingDeadlines(c, t) :
        /\ ~s.pruned
        /\ row.target \notin s.out
        /\ row.target \in Round => /\ ~RoundCovered(c, s, row.target)
                                   /\ ~FullyOptedOut(c, s, row.target)
                                   /\ MayEnter(c, s, row.target)}

----------------------------------------------------------------------------
(* The capture gates, and which rounds want something from the reader.     *)

CanCapture(c, s, r, t) ==
    /\ ~RoundCovered(c, s, r) /\ ~AllLegsCancelled(c)
    /\ HasOpened(c, r, t) /\ MayEnter(c, s, r)

CanReport(c, s, r, t) ==
    CanCapture(c, s, r, t) /\ s.outcome[r] = "APPLIED" /\ ResultKnown(c, r, t)

\* Mutant: a leg that has its answer is asked about again.
CaptureEveryDay(c, s, r, t) ==
    IF /\ Cardinality(CoveredDays(c, r) \ c.cancelled) >= 2
       /\ ResultKnown(c, r, t)
       /\ \/ s.outcome[r] = "APPLIED"
          \/ s.outcome[r] = "WON" /\ WonDays(s, r) # {}
    THEN CoveredDays(c, r) \ (c.cancelled \cup s.out)
    ELSE {}

\* The legs a multi-leg round still has to be asked about, one at a time.
CaptureDays(c, s, r, t) ==
    IF /\ Cardinality(CoveredDays(c, r) \ c.cancelled) >= 2
       /\ ResultKnown(c, r, t)
       /\ \/ s.outcome[r] = "APPLIED"
          \/ s.outcome[r] = "WON" /\ WonDays(s, r) # {}
    THEN UnresolvedDays(c, s, r)
    ELSE {}

WantsYou(c, s, r, t) ==
    \/ s.outcome[r] \in {"APPLIED", "WON"}
    \/ s.outcome[r] = "NONE" /\ CanCapture(c, s, r, t) /\ NotClosed(c, r, t)

----------------------------------------------------------------------------
(* Home groups the rows of a concert into a block under one lead row.      *)

\* A round is represented by its first row; every leg by its own.
BlockRows(c, s, t) ==
    {row \in DeadlineRows(c, s, t) :
        \A o \in DeadlineRows(c, s, t) : o.target = row.target => row.at <= o.at}

RowWantsYou(c, s, row, t) == row.target \in Round /\ WantsYou(c, s, row.target, t)

\* The earliest row that wants the reader, else the earliest row (of several
\* the code takes the first it was given).
Leads(c, s, t) ==
    LET wanting == {row \in BlockRows(c, s, t) : RowWantsYou(c, s, row, t)}
        pool    == IF wanting # {} THEN wanting ELSE BlockRows(c, s, t)
    IN {row \in pool : \A o \in pool : row.at <= o.at}

----------------------------------------------------------------------------
(* The concert page: the rows under each leg, and "Next for you".          *)

\* The legs a round's row appears under: those it names, else every live leg.
PageDays(c, r) ==
    IF c.legs[r] \cap c.days # {} THEN c.legs[r] \cap c.days
    ELSE IF Live(c) # {} THEN Live(c) ELSE c.days

\* Mutant: a leg without a row of its own inherits the round's win.
LegResultInherited(c, s, r, d) ==
    IF s.result[r][d] # "NONE" THEN s.result[r][d]
    ELSE IF d \notin CoveredDays(c, r) THEN "NONE"
    ELSE IF s.outcome[r] \in Secured THEN "WON"
    ELSE IF s.outcome[r] = "LOST" THEN "LOST" ELSE "NONE"

\* How one leg of a round turned out: its own row, else the round's outcome as
\* long as no leg of the round has a row.
LegResultFor(c, s, r, d) ==
    IF s.result[r][d] # "NONE" THEN s.result[r][d]
    ELSE IF HasDayRows(s, r) \/ d \notin CoveredDays(c, r) THEN "NONE"
    ELSE IF s.outcome[r] \in Secured THEN "WON"
    ELSE IF s.outcome[r] = "LOST" THEN "LOST" ELSE "NONE"

RowsUnder(c, d) == {r \in c.rounds : d \in PageDays(c, r)}

\* Mutant: a locked upgrade may take the slot of the next round to open.
NextOpeningOfAny(c, s, d, t) ==
    LET unopened == {r \in RowsUnder(c, d) : ~HasOpened(c, r, t)}
    IN IF \E r \in RowsUnder(c, d) : LegResultFor(c, s, r, d) = "WON" THEN {}
       ELSE {r \in unopened : \A o \in unopened : c.at[r]["OPENS"] <= c.at[o]["OPENS"]}

\* The soonest unopened base round of a leg the reader holds no ticket for.
NextOpening(c, s, d, t) ==
    LET unopened == {r \in RowsUnder(c, d) \ c.upgrades : ~HasOpened(c, r, t)}
    IN IF \E r \in RowsUnder(c, d) : LegResultFor(c, s, r, d) = "WON" THEN {}
       ELSE {r \in unopened : \A o \in unopened : c.at[r]["OPENS"] <= c.at[o]["OPENS"]}

\* The rows of a leg in front of the fold; the rest are behind it.
Visible(c, s, d, t) ==
    IF d \in c.cancelled THEN {}
    ELSE {r \in RowsUnder(c, d) : \/ LegResultFor(c, s, r, d) = "WON"
                                  \/ WantsYou(c, s, r, t)
                                  \/ r \in c.upgrades /\ UpgradeEligible(c, s, r)
                                  \/ r \in NextOpening(c, s, d, t)}

\* Mutant: a round all of whose legs the reader skips still leads the page.
NeedsYouSkipped(c, s, r, t) ==
    /\ ~RoundCovered(c, s, r) /\ ~AllLegsCancelled(c)
    /\ WantsYou(c, s, r, t)

NeedsYou(c, s, r, t) ==
    /\ ~RoundCovered(c, s, r) /\ ~FullyOptedOut(c, s, r) /\ ~AllLegsCancelled(c)
    /\ WantsYou(c, s, r, t)

\* A round's next moment, or the last one behind it.
Primary(c, r, t) ==
    LET times == {c.at[r][a] : a \in Set(c, r)}
        ahead == {m \in times : m > t}
    IN IF ahead # {} THEN CHOOSE m \in ahead : \A n \in ahead : m <= n
                     ELSE CHOOSE m \in times : \A n \in times : m >= n

\* The strip at the head of the page: future moments first, soonest first,
\* then past ones, latest first.  Every round has a moment (Accepted).
NextForYou(c, s, t) ==
    LET wanting == {r \in c.rounds : NeedsYou(c, s, r, t)}
        ahead   == {r \in wanting : Ahead(c, r, t) # {}}
    IN IF ahead # {}
       THEN {r \in ahead : \A o \in ahead : Primary(c, r, t) <= Primary(c, o, t)}
       ELSE {r \in wanting : \A o \in wanting : Primary(c, r, t) >= Primary(c, o, t)}

----------------------------------------------------------------------------
(* The capture buttons.                                                    *)

LegPress(d) == {<<d, res>> : res \in {"WON", "LOST", "SKIP"}}

RoundPress(r, O) == {<<r, o>> : o \in O}

\* The buttons of a row under the legs D it is scoped to: one leg on the
\* concert page, all of them on Home and in the catch-up dialog (which add
\* the whole-round answers).
Buttons(c, s, r, D, t) ==
    IF ~CanCapture(c, s, r, t) THEN {}
    ELSE IF s.outcome[r] = "NONE" THEN RoundPress(r, {"APPLIED", "NOT_APPLIED"})
    ELSE IF CaptureDays(c, s, r, t) # {}
    THEN UNION {LegPress(d) : d \in CaptureDays(c, s, r, t) \cap D}
    ELSE IF CanReport(c, s, r, t) THEN RoundPress(r, {"WON", "LOST"})
    ELSE IF s.outcome[r] = "WON" THEN RoundPress(r, {"PAID"}) ELSE {}

WholeRoundButtons(c, s, r, t) ==
    Buttons(c, s, r, Day, t) \cup
    (IF CanCapture(c, s, r, t) /\ CaptureDays(c, s, r, t) # {}
     THEN RoundPress(r, (IF HasDayRows(s, r) THEN {} ELSE {"WON"})
                        \cup (IF WonDays(s, r) # {} THEN {"LOST_REST"} ELSE {"LOST"}))
     ELSE {})

\* What the concert page offers for a round, over all the legs it is under; a
\* concert without a leg lists its rounds once, unscoped.
PageButtons(c, s, r, t) ==
    IF c.days = {} THEN WholeRoundButtons(c, s, r, t)
    ELSE UNION {Buttons(c, s, r, {d}, t) : d \in PageDays(c, r)}

----------------------------------------------------------------------------
(* The board.                                                              *)

CardRounds(c, s) ==
    IF AllLegsCancelled(c) THEN c.rounds
    ELSE {r \in c.rounds : ~RoundCancelled(c, r) /\ ~FullyOptedOut(c, s, r)}

OpenRounds(c, s, t) ==
    IF AllLegsCancelled(c) THEN {} ELSE {r \in CardRounds(c, s) : RoundIsOpen(c, r, t)}

\* Money owed for an upgrade outranks a ticket already paid for.
StandingRank(c, s, r) ==
    CASE s.outcome[r] = "WON" -> IF r \in c.upgrades THEN 4 ELSE 2
      [] s.outcome[r] = "PAID" -> 3 [] s.outcome[r] = "APPLIED" -> 1 [] OTHER -> 0

ColumnFor(c, s, R, open) ==
    LET ranks == {StandingRank(c, s, r) : r \in R}
    IN IF ranks \cap {2, 4} # {} /\ (4 \in ranks \/ 3 \notin ranks) THEN "won"
       ELSE IF 3 \in ranks THEN "secured" ELSE IF 1 \in ranks THEN "applied"
       ELSE IF open THEN "open" ELSE "none"

Column(c, s, t) == ColumnFor(c, s, CardRounds(c, s), OpenRounds(c, s, t) # {})

\* The rounds of a card in the order they open, or close; undated ones last.
LadderTime(c, r) ==
    IF c.at[r]["OPENS"] # NoTime THEN c.at[r]["OPENS"] ELSE c.at[r]["CLOSES"]

LadderBefore(c, q, r) ==
    LadderTime(c, q) # NoTime /\ (LadderTime(c, r) = NoTime
                                  \/ LadderTime(c, q) < LadderTime(c, r))

RungState(c, s, r, t) ==
    IF s.outcome[r] # "NONE" THEN s.outcome[r]
    ELSE IF r \in OpenRounds(c, s, t) THEN "live" ELSE "todo"

Touched(c, s, R, t) == {r \in R : RungState(c, s, r, t) # "todo"}

\* The last rung of R (of several the code takes the one with the highest id).
LastOf(c, R) == {r \in R : ~\E o \in R : LadderBefore(c, r, o)}

\* Mutant: the rung shown is the last one anything has happened to.
StateRungByPosition(c, s, R, t) == LastOf(c, Touched(c, s, R, t))

\* The rung that explains the column: the last of the highest standing, else
\* the last one anything has happened to.
StateRung(c, s, R, t) ==
    LET top == {r \in R : /\ StandingRank(c, s, r) > 0
                          /\ \A o \in R : StandingRank(c, s, o) <= StandingRank(c, s, r)}
    IN LastOf(c, IF top # {} THEN top ELSE Touched(c, s, R, t))

\* And the first rung after it that the reader could still act on; without
\* either, the head of the ladder.
VisibleRungs(c, s, R, t) ==
    LET state == StateRung(c, s, R, t)
        later == {r \in R : /\ \E q \in state : LadderBefore(c, q, r)
                            /\ RungState(c, s, r, t) \in {"live", "todo"}}
    IN IF Cardinality(R) <= 2 THEN R
       ELSE IF state = {} THEN {r \in R : Cardinality({q \in R : LadderBefore(c, q, r)}) < 2}
       ELSE state \cup {r \in later : ~\E q \in later : LadderBefore(c, q, r)}

ShownStates(c, s, t) ==
    {RungState(c, s, r, t) : r \in VisibleRungs(c, s, CardRounds(c, s), t)}

----------------------------------------------------------------------------
(* The catalogue: one pill, from the rounds that are not cancelled.        *)

ListedRounds(c) == {r \in c.rounds : ~RoundCancelled(c, r)}

WonUpgrades(c, s) ==
    {r \in ListedRounds(c) \cap c.upgrades : s.outcome[r] = "WON" /\ UpgradeEligible(c, s, r)}

PillTone(c, s) ==
    LET column == ColumnFor(c, s, ListedRounds(c), FALSE)
    IN IF WonUpgrades(c, s) # {} \/ column = "won" THEN "danger"
       ELSE IF column = "none" THEN "quiet" ELSE "ok"

\* The next moment of the ladder for anybody: none makes the ladder quiet.
LadderMoments(c, t) ==
    IF AllLegsCancelled(c) THEN {}
    ELSE UNION {{c.at[r][a] : a \in Ahead(c, r, t)} : r \in ListedRounds(c)}

----------------------------------------------------------------------------
(* Properties.                                                             *)

AtTheMoment(anchor) == [scope |-> AllRounds, anchor |-> anchor, lead |-> 0]

\* Home and the DMs agree on what is still worth asking: a moment of a round
\* or leg is among "Coming up" exactly when a reminder for it would be planned
\* (moments the reader's own outcome has made moot stay listed, undunned).
HomeAgreesWithReminders ==
    ~standing.pruned =>
        \A a \in Anchor : \A x \in concert.rounds \cup concert.days :
            x \in Planned(concert, standing, AtTheMoment(a), now)
            <=> /\ \E row \in DeadlineRows(concert, standing, now) :
                      row.target = x /\ row.anchor = a
                /\ ~(x \in Round /\ MootAnchor(standing, x, a))

\* The page's "Next for you" and the lead of the concert's block on Home name
\* the same moment, and neither leads with something settled while the other
\* wants an answer.  Two rounds lead the page alone: one whose every leg is
\* cancelled, and an upgrade the reader applied to but can no longer enter.
OneNextForYou ==
    LET next  == NextForYou(concert, standing, now)
        leads == Leads(concert, standing, now)
    IN ~standing.pruned =>
        /\ \A n \in next :
              /\ Ahead(concert, n, now) # {} /\ ~RoundCancelled(concert, n)
              /\ MayEnter(concert, standing, n)
              => \A row \in leads : /\ RowWantsYou(concert, standing, row, now)
                                /\ row.at = Primary(concert, n, now)
        /\ (\E row \in leads : RowWantsYou(concert, standing, row, now)) => next # {}

\* The page says "won" under a live leg exactly when the planner counts that
\* leg as held, whatever mixture of round and leg answers, corrections and
\* saves led there: nobody is told of a ticket that reminders ignore.
TicketsAgree ==
    \A d \in Live(concert) :
        (\E r \in RowsUnder(concert, d) : LegResultFor(concert, standing, r, d) = "WON")
        <=> \E r \in concert.rounds : d \in Held(concert, standing, r)

\* On a leg the reader neither holds nor skips, the fold never hides every
\* round they could still enter (an unopened round they have already answered
\* for, or dated to close before it opens, does take the place of the next one).
WayInIsVisible ==
    \A d \in Live(concert) \ standing.out :
        LET base  == RowsUnder(concert, d) \ concert.upgrades
            enter == {r \in base : standing.outcome[r] = "NONE" /\ NotClosed(concert, r, now)}
        IN /\ ~\E r \in concert.rounds : d \in Held(concert, standing, r)
           /\ \A r \in base : HasOpened(concert, r, now) \/ r \in enter
           /\ enter # {}
           => enter \cap Visible(concert, standing, d, now) # {}

\* No dead end: a round the reader is in, whose result is out, offers the next
\* answer somewhere on the page, down to the payment of a win.
NextAnswerIsOffered ==
    \A r \in concert.rounds :
        /\ CanCapture(concert, standing, r, now)
        /\ standing.outcome[r] = "WON"
           \/ (standing.outcome[r] = "APPLIED" /\ ResultKnown(concert, r, now))
        => PageButtons(concert, standing, r, now) # {}

\* A card in the applied, won or secured column shows a rung with the outcome
\* that put it there.
CardExplainsItself ==
    LET shown == ShownStates(concert, standing, now)
    IN CASE Column(concert, standing, now) = "won" -> "WON" \in shown
         [] Column(concert, standing, now) = "secured" -> "PAID" \in shown
         [] Column(concert, standing, now) = "applied" -> "APPLIED" \in shown
         [] OTHER -> TRUE

\* The catalogue's pill is urgent exactly when the board says money is owed.
PillAgreesWithBoard ==
    ~AllLegsCancelled(concert) /\ standing.out = {} =>
        (PillTone(concert, standing) = "danger" <=> Column(concert, standing, now) = "won")

\* A ladder reported quiet has no reminder of a round left to plan.
QuietLadderPlansNothing ==
    LadderMoments(concert, now) = {} =>
        \A a \in RoundAnchor : Planned(concert, standing, AtTheMoment(a), now) = {}

----------------------------------------------------------------------------
(* What the docs say and the code does not do.                             *)

\* "So the shortcut withdraws" (_capture_actions.html): a whole-round "won" is
\* offered only where it gives the reader a ticket.
OfferedWinSecures ==
    \A r \in concert.rounds :
        <<r, "WON">> \in WholeRoundButtons(concert, standing, r, now) =>
            Held(concert, SetOutcome(standing, r, "WON"), r) # {}
=============================================================================
