---------------------------- MODULE ReaderQuestions ---------------------------
(***************************************************************************)
(* The other places that list a reader's moments or ask the reader for an  *)
(* answer: the calendar feed (src/app/db/calendar_feed.py), the setup flow *)
(* (src/app/db/setup_flow.py), the bot's /upcoming and the progressive     *)
(* buttons of a result DM (src/app/db/core.py), and the catch-up dialog of *)
(* the concert page (src/app/web/routes/concerts.py).                      *)
(***************************************************************************)
EXTENDS ReaderViews

CONSTANT Horizon   \* how far ahead /upcoming looks

ASSUME HorizonAssumption == Horizon \in Nat

----------------------------------------------------------------------------
(* The calendar feed: what the reader's own outcome leaves to act on.      *)

FeedMoments(c, s, r) ==
    CASE s.outcome[r] = "NONE" -> {Deadline(r, a, c.at[r][a]) : a \in {"OPENS", "CLOSES"}}
      [] s.outcome[r] = "APPLIED" ->
            {Deadline(r, "RESULTS", IF c.at[r]["RESULTS"] # NoTime THEN c.at[r]["RESULTS"]
                                                                  ELSE c.at[r]["CLOSES"])}
      [] s.outcome[r] = "WON" -> {Deadline(r, "PAYMENT", c.at[r]["PAYMENT"])}
      [] OTHER -> {}

UserCalendarEvents(c, s, t) ==
    IF s.pruned \/ AllLegsCancelled(c) THEN {}
    ELSE {Deadline(d, "EVENT_START", c.starts[d]) : d \in {e \in Live(c) \ s.out : c.starts[e] > t}}
         \cup UNION {{m \in FeedMoments(c, s, r) : m.at # NoTime /\ m.at > t} :
                        r \in {q \in c.rounds : /\ ~RoundCancelled(c, q)
                                                /\ ~FullyOptedOut(c, s, q)
                                                /\ ~RoundCovered(c, s, q)
                                                /\ MayEnter(c, s, q)}}

----------------------------------------------------------------------------
(* The bot's /upcoming: rounds that open or close soon, for everybody.     *)

UpcomingRounds(c, t) ==
    IF AllLegsCancelled(c) THEN {}
    ELSE {r \in c.rounds : /\ ~RoundCancelled(c, r)
                           /\ \E a \in {"OPENS", "CLOSES"} :
                                 c.at[r][a] # NoTime /\ c.at[r][a] \in t .. t + Horizon}

----------------------------------------------------------------------------
(* The setup flow.                                                         *)

SetupLiveRounds(c) == {r \in c.rounds : ~RoundCancelled(c, r)}

\* The concert is among the setup flow's: pruned or not, it is still ahead.
TrackedUpcoming(c, t) ==
    /\ ~AllLegsCancelled(c)
    /\ \/ \E d \in Live(c) : c.starts[d] > t
       \/ \E r \in SetupLiveRounds(c) : Ahead(c, r, t) # {}

\* Screen 1: the moment a tile announces.
NextRoundAnchor(c, t) ==
    LET ahead == UNION {{Deadline(r, a, c.at[r][a]) : a \in Ahead(c, r, t)} :
                           r \in SetupLiveRounds(c)}
    IN {m \in ahead : \A o \in ahead : m.at <= o.at}

\* Mutant: a round whose result is out is asked about too.
AsksIfOpened(c, s, r, t) ==
    s.outcome[r] = "NONE" /\ HasOpened(c, r, t) /\ Set(c, r) \ {"PAYMENT"} # {}

\* "Did you apply?", unless the round was decided or not dated at all.
RoundAsksApplication(c, s, r, t) ==
    /\ s.outcome[r] = "NONE" /\ HasOpened(c, r, t)
    /\ Set(c, r) \ {"PAYMENT"} # {}
    /\ {"CLOSES", "RESULTS"} \cap Set(c, r) = {} \/ ~ResultKnown(c, r, t)

\* Screen 2.  Unlike every other surface it does not ask about eligibility.
SetupApplicationRows(c, s, t) ==
    IF s.pruned \/ ~TrackedUpcoming(c, t) THEN {}
    ELSE {r \in SetupLiveRounds(c) : /\ ~FullyOptedOut(c, s, r) /\ ~RoundCovered(c, s, r)
                                     /\ RoundAsksApplication(c, s, r, t)}

\* Screen 3: the rounds counted as a payment still due.
PaymentDue(c, s, t) ==
    IF s.pruned \/ ~TrackedUpcoming(c, t) THEN {}
    ELSE {r \in SetupLiveRounds(c) : /\ ~FullyOptedOut(c, s, r)
                                     /\ s.outcome[r] = "WON" /\ "PAYMENT" \in Ahead(c, r, t)}

----------------------------------------------------------------------------
(* Results: the DM's progressive buttons and the page's catch-up dialog.   *)

\* The legs a press on an old result DM is answered with: a round settled as a
\* whole asks about none.
RoundResultState(c, s, r) ==
    IF ~HasDayRows(s, r) /\ s.outcome[r] \notin {"NONE", "APPLIED"}
    THEN {} ELSE UnresolvedDays(c, s, r)

\* Rounds that owe the page an answer about their result.
PendingRows(c, s, t) ==
    {r \in c.rounds :
        /\ ~RoundCovered(c, s, r) /\ ~FullyOptedOut(c, s, r) /\ MayEnter(c, s, r)
        /\ CaptureDays(c, s, r, t) # {} \/ CanReport(c, s, r, t)}

ResultOrder(c, r) ==
    IF c.at[r]["RESULTS"] # NoTime THEN c.at[r]["RESULTS"] ELSE c.at[r]["CLOSES"]

\* The one the dialog asks about: the soonest dated, undated ones last.
PendingCapture(c, s, t) ==
    LET dated == {r \in PendingRows(c, s, t) : ResultOrder(c, r) # NoTime}
    IN IF dated = {} THEN PendingRows(c, s, t)
       ELSE {r \in dated : \A o \in dated : ResultOrder(c, r) <= ResultOrder(c, o)}

\* What it can still ask about a round: a leg, or how the round went.
QuestionsLeft(c, s, r, t) ==
    CaptureDays(c, s, r, t) \cup (IF CanReport(c, s, r, t) THEN {r} ELSE {})

\* What an answer given in the dialog leaves of the reader's standing.
Answered(c, s, r, b) ==
    CASE b = <<r, "LOST_REST">> -> RecordRemainingLost(c, s, r).standing
      [] b \in RoundPress(r, {"WON", "LOST"}) -> RecordRoundOutcome(s, r, b[2]).standing
      [] b[2] = "SKIP" -> [s EXCEPT !.out = @ \cup {b[1]}]
      [] OTHER -> RecordDayResult(c, s, r, b[1], b[2]).standing

----------------------------------------------------------------------------
(* Properties.                                                             *)

\* The calendar feed carries exactly the "Coming up" rows the reader's outcome
\* leaves something to do about, a missing result date replaced by the close.
FeedAgreesWithHome ==
    LET feed == UserCalendarEvents(concert, standing, now)
        home == DeadlineRows(concert, standing, now)
    IN /\ \A m \in feed : \/ m \in home
                          \/ m.anchor = "RESULTS" /\ Deadline(m.target, "CLOSES", m.at) \in home
       /\ \A row \in home :
             \/ row \in feed
             \/ row.target \in Round
                /\ \/ standing.outcome[row.target] = "NONE" /\ row.anchor \in {"RESULTS", "PAYMENT"}
                   \/ standing.outcome[row.target] = "APPLIED" /\ row.anchor # "RESULTS"
                   \/ standing.outcome[row.target] = "WON" /\ row.anchor # "PAYMENT"
                   \/ standing.outcome[row.target] \in {"LOST", "NOT_APPLIED", "PAID"}

\* What Home lists as opening or closing soon, /upcoming lists; and a payment
\* counted as due by the setup flow is a row of Home, unless it is for an
\* upgrade the reader can no longer enter.
ListsAgree ==
    /\ \A row \in DeadlineRows(concert, standing, now) :
          /\ row.anchor \in {"OPENS", "CLOSES"} /\ row.at <= now + Horizon
          => row.target \in UpcomingRounds(concert, now)
    /\ \A r \in PaymentDue(concert, standing, now) :
          \/ ~MayEnter(concert, standing, r)
          \/ \E row \in DeadlineRows(concert, standing, now) :
                row.target = r /\ row.anchor = "PAYMENT"
    /\ \A m \in NextRoundAnchor(concert, now) : \A row \in DeadlineRows(concert, standing, now) :
          row.target \in Round => m.at <= row.at

\* One account of what lies ahead, on every surface that lists moments: Home,
\* the reminders, the feed, /upcoming, the setup flow and the ladder watch.
MomentsAgree == /\ HomeAgreesWithReminders
                /\ FeedAgreesWithHome
                /\ ListsAgree
                /\ QuietLadderPlansNothing

\* A round the setup flow asks about is one the page would record "applied"
\* for, and whose result is not out (so the answer is still worth something);
\* and the legs the page asks about are those the result DM asks about.
QuestionsAgree ==
    /\ \A r \in SetupApplicationRows(concert, standing, now) :
          MayEnter(concert, standing, r) =>
              /\ <<r, "APPLIED">> \in PageButtons(concert, standing, r, now)
              /\ ~CanReport(concert, SetOutcome(standing, r, "APPLIED"), r, now)
                 \/ {"CLOSES", "RESULTS"} \cap Set(concert, r) = {}
    /\ \A r \in concert.rounds :
          CaptureDays(concert, standing, r, now) # {} =>
              CaptureDays(concert, standing, r, now) = RoundResultState(concert, standing, r)

\* No dead end and no crossed wires between the surfaces that ask.
AnswersAreOffered == NextAnswerIsOffered /\ QuestionsAgree

\* Whatever button of the dialog is pressed, it has strictly less left to ask
\* about that round: the reader is never shown the same question again, and is
\* through after one answer per leg and one for the round.  (A loss that would
\* raise is rolled back and asked again.)
CatchUpAdvances ==
    \A r \in PendingCapture(concert, standing, now) :
        ~ArmingRaises(concert, r, WholeRound) =>
            \A b \in WholeRoundButtons(concert, standing, r, now) :
                LET left == QuestionsLeft(concert, Answered(concert, standing, r, b), r, now)
                IN /\ left \subseteq QuestionsLeft(concert, standing, r, now)
                   /\ left # QuestionsLeft(concert, standing, r, now)

\* A card shows the rung that put it in its column, and the catalogue's pill
\* is urgent exactly when the board says that money is owed.
StandingIsExplained == CardExplainsItself /\ PillAgreesWithBoard
=============================================================================
