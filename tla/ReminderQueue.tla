---------------------------- MODULE ReminderQueue ---------------------------
(***************************************************************************)
(* The reminder outbox of one reader for one concert (src/app/db/core.py): *)
(* reminder_queue is materialised, so every write that changes what the    *)
(* reader's rules imply has to re-plan it (sync_rule).  Each action is one *)
(* committed request: a press on a DM or on the site, an editor's save, a  *)
(* rule added or removed, a snooze, or the commit of a scheduler tick.     *)
(***************************************************************************)
EXTENDS RoundOutcomes

CONSTANTS
    InitialConcert,  \* the concert as it was created
    RuleChoice,      \* the concert-wide rules the reader may add
    Preset,          \* the rules of the reader's preset
    ArmLead,         \* offset of an auto-armed rule (default preset or 0)
    SnoozeDays,      \* the delays the snooze buttons offer
    AnswerRounds,    \* rounds the reader answers for
    FlatOutcomes,    \* outcomes recorded for a round as a whole
    LegPresses,      \* legs the reader records a result for
    LegToggles,      \* legs the reader opts out of, or back in
    EditKinds,       \* what an editor's save may change
    EditTimes,       \* deadlines an editor may enter
    MaxTime,         \* bound on the clock
    MaxEdits         \* bound on the number of saves

ASSUME QueueAssumption ==
    /\ InitialConcert \in Concert /\ IsFiniteSet(InitialConcert.rounds)
    /\ \A r \in Round : InitialConcert.legs[r] \subseteq InitialConcert.days
    /\ RuleChoice \subseteq Rule /\ Preset \subseteq Rule
    /\ \A rule \in RuleChoice \cup Preset : rule.scope = AllRounds
    /\ ArmLead \in Int /\ SnoozeDays \subseteq Nat \ {0}
    /\ AnswerRounds \subseteq Round /\ FlatOutcomes \subseteq Outcome
    /\ LegPresses \subseteq Day /\ LegToggles \subseteq Day
    /\ EditKinds \subseteq {"deadline", "start", "cancel", "legs", "rounds", "days"}
    /\ EditTimes \subseteq Time
    /\ MaxTime \in Nat /\ MaxEdits \in Nat

VARIABLES
    concert,   \* the shared catalogue's rows for this concert
    standing,  \* what the reader has recorded about it
    rules,     \* reminder_rules
    queue,     \* reminder_queue
    now,       \* the clock
    notices,   \* "leg cancelled" notifications queued for the reader
    failed,    \* the last request raised and was rolled back
    edits      \* number of saves so far

vars == <<concert, standing, rules, queue, now, notices, failed, edits>>

\* A queue row.  Two history fields: `dm`, a DM carrying this row's buttons may
\* be in the reader's hands; `snoozed`, its fire time is the reader's own.
Row == [rule: Rule, target: Target, fire: Int, sent: BOOLEAN,
        snoozed: BOOLEAN, dm: BOOLEAN]

NoStanding == [outcome |-> [r \in Round |-> "NONE"],
               result  |-> [r \in Round |-> [d \in Day |-> "NONE"]],
               out |-> {}, pruned |-> FALSE]

Init ==
    /\ concert = InitialConcert
    /\ standing = NoStanding
    /\ rules = {} /\ queue = {}
    /\ now = 0 /\ notices = 0 /\ failed = FALSE /\ edits = 0

----------------------------------------------------------------------------
(* sync_rule, for a set of rules: rows that are planned are (re)armed, the *)
(* unsent rows that no longer are are deleted, delivered ones stay.        *)

SameKey(w, rule, t) == w.rule = rule /\ w.target = t

ArmedRow(c, q, rule, t) ==
    [rule |-> rule, target |-> t, fire |-> FireTime(c, rule, t), sent |-> FALSE,
     snoozed |-> FALSE, dm |-> \E w \in q : SameKey(w, rule, t) /\ w.dm]

\* Mutant: a re-armed reminder is added beside the delivered row.
SyncedBesideSent(c, s, R, q) ==
    {w \in q : w.rule \in R => w.sent}
    \cup UNION {{ArmedRow(c, q, rule, t) : t \in Planned(c, s, rule, now)} : rule \in R}

\* Mutant: a delivered row is never re-armed.
SyncedOnce(c, s, R, q) ==
    {w \in q : w.rule \in R => w.sent}
    \cup UNION {{ArmedRow(c, q, rule, t) :
                    t \in {u \in Planned(c, s, rule, now) :
                              ~\E w \in q : SameKey(w, rule, u) /\ w.sent}} : rule \in R}

\* Mutant: rows that are no longer planned are left alone.
SyncedKeepingRows(c, s, R, q) ==
    {w \in q : w.rule \in R => w.target \notin Planned(c, s, w.rule, now)}
    \cup UNION {{ArmedRow(c, q, rule, t) : t \in Planned(c, s, rule, now)} : rule \in R}

Synced(c, s, R, q) ==
    {w \in q : w.rule \in R => w.sent /\ w.target \notin Planned(c, s, w.rule, now)}
    \cup UNION {{ArmedRow(c, q, rule, t) : t \in Planned(c, s, rule, now)} : rule \in R}

----------------------------------------------------------------------------
(* The reader's presses.  All re-plan every rule the reader has here, then *)
(* arm the fallback of a loss; an exception rolls the request back.        *)

Commit(w, r) ==
    LET armed == ArmedRules(concert, rules, r, w.arm, ArmLead)
    IN /\ standing' = w.standing
       /\ rules' = rules \cup armed
       /\ queue' = Synced(concert, w.standing, rules \cup armed, queue)
       /\ failed' = FALSE
       /\ UNCHANGED <<concert, now, notices, edits>>

Raise == failed' = TRUE
         /\ UNCHANGED <<concert, standing, rules, queue, now, notices, edits>>

Answer(w, r) == IF ArmingRaises(concert, r, w.arm) THEN Raise ELSE Commit(w, r)

PressOutcome(r, o) ==
    /\ r \in concert.rounds /\ OutcomeAccepted(standing, r, o)
    /\ Answer(RecordRoundOutcome(standing, r, o), r)

\* The two all-legs buttons refuse a round already won.
PressWonAllLegs(r) ==
    /\ r \in concert.rounds /\ standing.outcome[r] \notin Secured
    /\ Answer(Write(PressWonAll(concert, standing, r), NoArm), r)

PressLostAllLegs(r) ==
    /\ r \in concert.rounds /\ standing.outcome[r] \notin Secured
    /\ Answer(RecordRoundOutcome(standing, r, "LOST"), r)

PressLeg(r, d, res) ==
    /\ r \in concert.rounds /\ d \in CoveredDays(concert, r)
    /\ Answer(RecordDayResult(concert, standing, r, d, res), r)

PressLostRest(r) ==
    /\ r \in concert.rounds
    /\ Answer(RecordRemainingLost(concert, standing, r), r)

Backtrack(r) ==
    /\ r \in concert.rounds
    /\ Answer(Write(ClearRound(standing, r), NoArm), r)

\* Offered only for a leg that has an answer of its own.
BacktrackLeg(r, d) ==
    /\ r \in concert.rounds /\ d \in CoveredDays(concert, r)
    /\ standing.result[r][d] # "NONE"
    /\ Answer(Write(ClearDay(concert, standing, r, d), NoArm), r)

Replan(s) ==
    /\ standing' = s
    /\ queue' = Synced(concert, s, rules, queue)
    /\ failed' = FALSE
    /\ UNCHANGED <<concert, rules, now, notices, edits>>

ToggleLeg(d) ==
    /\ d \in concert.days
    /\ \E D \in {standing.out \cup {d}, standing.out \ {d}} :
          Replan([standing EXCEPT !.out = D])

TogglePrune == \E p \in BOOLEAN : Replan([standing EXCEPT !.pruned = p])

Reinstate == Replan(standing)

----------------------------------------------------------------------------
(* Rules and deliveries.                                                   *)

\* One rule from the site or /remindme, or the missing rules of a preset.
AddRules(R) ==
    /\ rules' = rules \cup R
    /\ queue' = Synced(concert, standing, R \ rules, queue)
    /\ failed' = FALSE
    /\ UNCHANGED <<concert, standing, now, notices, edits>>

\* Queue rows cascade.  Only concert-wide rules can be removed by the reader.
RemoveRules(R) ==
    /\ rules' = rules \ R
    /\ queue' = {w \in queue : w.rule \notin R}
    /\ failed' = FALSE
    /\ UNCHANGED <<concert, standing, now, notices, edits>>

ChangeRules ==
    \/ \E rule \in RuleChoice \ rules : AddRules({rule})
    \/ AddRules(Preset)
    \/ \E rule \in rules : rule.scope = AllRounds /\ RemoveRules({rule})
    \/ RemoveRules({rule \in rules : rule.scope = AllRounds})

Due == {w \in queue : ~w.sent /\ w.fire <= now}

\* A tick's commit: the due rows whose DM went out (or was refused for good)
\* are marked; the others were transient failures and stay.
Tick ==
    \E done \in SUBSET Due \ {{}} :
        /\ queue' = (queue \ done) \cup
               {[w EXCEPT !.sent = TRUE, !.dm = TRUE] : w \in done}
        /\ failed' = FALSE
        /\ UNCHANGED <<concert, standing, rules, now, notices, edits>>

TooClose(w, k) ==
    LET at == AnchorTime(concert, w.rule, w.target)
    IN at # NoTime /\ at > now /\ now + k >= at

Snooze(w, k) ==
    /\ w.dm /\ ~TooClose(w, k)
    /\ queue' = (queue \ {w}) \cup
           {[w EXCEPT !.fire = now + k, !.sent = FALSE, !.snoozed = TRUE]}
    /\ failed' = FALSE
    /\ UNCHANGED <<concert, standing, rules, now, notices, edits>>

Wait ==
    /\ now < MaxTime
    /\ now' = now + 1
    /\ UNCHANGED <<concert, standing, rules, queue, notices, failed, edits>>

----------------------------------------------------------------------------
(* An editor's save: edit_concert.                                         *)

\* Ids that are free may be used by a new leg or round; the record holds the
\* fields it will be created with.
DeadlineSaves(c) ==
    {[c EXCEPT !.at[r][a] = t] : r \in c.rounds, a \in RoundAnchor, t \in EditTimes}
StartSaves(c)  == {[c EXCEPT !.starts[d] = t] : d \in c.days, t \in EditTimes \ {NoTime}}
CancelSaves(c) == {[c EXCEPT !.cancelled = D] : D \in SUBSET c.days}
LegSaves(c)    == {[c EXCEPT !.legs[r] = D] : r \in c.rounds, D \in SUBSET c.days}
RoundSaves(c)  == {[c EXCEPT !.rounds = R] : R \in
                      {c.rounds \ {r} : r \in c.rounds} \cup {c.rounds \cup {r} : r \in Round}}
DayDrops(c)    == {[c EXCEPT !.days = @ \ {d}, !.cancelled = @ \ {d},
                             !.legs = [r \in Round |-> c.legs[r] \ {d}]] : d \in c.days}
DayAdds(c)     == {[c EXCEPT !.days = @ \cup {d}] : d \in Day \ c.days}

Saves(c) == UNION {CASE kind = "deadline" -> DeadlineSaves(c)
                     [] kind = "start"    -> StartSaves(c)
                     [] kind = "cancel"   -> CancelSaves(c)
                     [] kind = "legs"     -> LegSaves(c)
                     [] kind = "rounds"   -> RoundSaves(c)
                     [] kind = "days"     -> DayDrops(c) \cup DayAdds(c) : kind \in EditKinds}

\* A round without a single deadline is refused (422).
Accepted(c) == \A r \in c.rounds : \E a \in RoundAnchor : c.at[r][a] # NoTime

\* What the foreign keys leave of the reader's rows.
KeptStanding(s, c) ==
    [outcome |-> [r \in Round |-> IF r \in c.rounds THEN s.outcome[r] ELSE "NONE"],
     result  |-> [r \in Round |-> [d \in Day |->
                    IF r \in c.rounds /\ d \in c.days THEN s.result[r][d] ELSE "NONE"]],
     out |-> s.out \cap c.days, pruned |-> s.pruned]

KeptRules(R, c) == {rule \in R : rule.scope \in c.rounds \cup {AllRounds}}

KeptRows(q, c) ==
    {w \in q : w.target \in c.rounds \cup c.days /\ w.rule.scope \in c.rounds \cup {AllRounds}}

\* notify_newly_cancelled_legs, on the queue as it is before the re-plan.
LostRounds(c, newly) ==
    {r \in c.rounds : \/ AllLegsCancelled(c)
                      \/ c.legs[r] \cap newly # {} /\ RoundCancelled(c, r)}

Doomed(q, c, newly) ==
    {w \in q : ~w.sent /\ w.target \in newly \cup LostRounds(c, newly)}

\* Mutant: losing one reminder is enough for a notice.
LosesSome(q, c, newly) == newly # {} /\ Doomed(q, c, newly) # {}

LosesAll(q, c, newly) ==
    /\ newly # {} /\ Doomed(q, c, newly) # {}
    /\ \A w \in q : ~w.sent => w \in Doomed(q, c, newly)

\* sync_concert's catch-up: a fallback for every round recorded as lost.
LostOutcomes(c, s) == {r \in c.rounds : s.outcome[r] = "LOST"}

CaughtUp(c, s, R) ==
    UNION {ArmedRules(c, R, r, WholeRound, ArmLead) : r \in LostOutcomes(c, s)}

Save(c) ==
    LET s == KeptStanding(standing, c)
        q == KeptRows(queue, c)
        R == KeptRules(rules, c) \cup CaughtUp(c, s, KeptRules(rules, c))
    IN IF \E r \in LostOutcomes(c, s) : ArmingRaises(c, r, WholeRound)
       THEN failed' = TRUE
            /\ UNCHANGED <<concert, standing, rules, queue, now, notices>>
       ELSE /\ concert' = c /\ standing' = s /\ rules' = R
            /\ queue' = Synced(c, s, R, q)
            /\ notices' = notices +
                 (IF LosesAll(q, c, c.cancelled \ concert.cancelled) THEN 1 ELSE 0)
            /\ failed' = FALSE
            /\ UNCHANGED now

EditConcert ==
    /\ edits < MaxEdits /\ edits' = edits + 1
    /\ \E c \in Saves(concert) : Accepted(c) /\ Save(c)

----------------------------------------------------------------------------

Press ==
    \E r \in AnswerRounds :
        \/ \E o \in FlatOutcomes : PressOutcome(r, o)
        \/ PressWonAllLegs(r) \/ PressLostAllLegs(r)
        \/ Backtrack(r)
        \/ PressLostRest(r)
        \/ \E d \in LegPresses : \/ \E res \in {"WON", "LOST"} : PressLeg(r, d, res)
                                 \/ BacktrackLeg(r, d)

Prune == TogglePrune \/ Reinstate \/ \E d \in LegToggles : ToggleLeg(d)

SnoozeSome == \E w \in queue, k \in SnoozeDays : Snooze(w, k)

Next == Press \/ Prune \/ ChangeRules \/ SnoozeSome \/ Tick \/ Wait \/ EditConcert

Spec == Init /\ [][Next]_vars

----------------------------------------------------------------------------
(* Properties: the queue.                                                  *)

\* Every variable stays in its domain: rows, rules and the reader's answers
\* only ever name rounds, legs, anchors and times that the tables can hold.
TypeOK ==
    /\ concert \in Concert /\ standing \in Standing
    /\ rules \subseteq Rule /\ queue \subseteq Row
    /\ now \in Nat /\ notices \in Nat /\ failed \in BOOLEAN /\ edits \in Nat

\* The dedupe key of reminder_queue: re-planning updates the row a rule has
\* for a round or leg and never adds a second one beside it.
OneRowPerTarget ==
    \A v, w \in queue : v.rule = w.rule /\ v.target = w.target => v = w

\* Nothing is missing: whatever was pressed, saved or delivered before, every
\* reminder the rules imply from now on has an unsent row at its fire time
\* (or one whose time the reader has moved with a snooze).
PlanIsQueued ==
    \A rule \in rules : \A t \in Planned(concert, standing, rule, now) :
        \E w \in queue :
            /\ SameKey(w, rule, t)
            /\ w.snoozed \/ (~w.sent /\ w.fire = FireTime(concert, rule, t))

\* Nothing is left over: a pending reminder belongs to a rule the reader still
\* has, is about something the current outcomes, opt-outs and cancellations
\* leave open, and fires at the time the current deadline gives.
NothingElsePending ==
    \A w \in queue : ~w.sent /\ ~w.snoozed =>
        /\ w.rule \in rules
        /\ w.target \in Candidates(concert, standing, w.rule)
        /\ w.fire = FireTime(concert, w.rule, w.target)

\* A delivered row is at or before the clock, so nothing marks a reminder
\* sent ahead of its time, and a moved deadline cannot hide behind it.
SentIsPast == \A w \in queue : w.sent => w.fire <= now

\* A reminder once delivered is pending again only for a later moment: no
\* re-plan re-sends it for the deadline it was already about.
NeverRepeated ==
    [][\A w \in queue, v \in queue' :
          SameKey(v, w.rule, w.target) /\ w.sent /\ ~v.sent
              => v.fire > w.fire /\ v.fire > now]_vars

\* The notice "your reminder(s) were cleared" is sent only to a reader who had
\* pending reminders and whose pending reminders the save really all clears.
NoticeIsTrue ==
    [][notices' > notices =>
          /\ \E w \in queue : ~w.sent
          /\ \A w \in queue, v \in queue' :
                ~w.sent /\ SameKey(v, w.rule, w.target) => v.sent]_vars

----------------------------------------------------------------------------
(* Properties: the two layers of an outcome.                               *)

\* The legs the reader holds a ticket for through this round.
Held(c, s, r) == IF r \in SecuredRounds(c, s) THEN SecuredDays(c, s, r) ELSE {}

\* A won leg makes its round won (or paid): no order of presses, backtracks
\* and late DMs leaves a WON day row under a round that says otherwise.
WonLegSecuresRound ==
    \A r \in Round : WonDays(standing, r) # {} => standing.outcome[r] \in Secured

\* One press takes at most one leg's ticket away, the one it names: recording
\* a loss never throws the round's other tickets out, however the win was
\* recorded.  Only clearing the whole round drops them together, or an editor's
\* save that changes what the round sells.
OtherTicketsKept ==
    [][edits' = edits => \A r \in Round :
          \/ Cardinality(Held(concert, standing, r) \ Held(concert', standing', r)) <= 1
          \/ standing'.outcome[r] = "NONE"]_vars

NewlyLost(r) ==
    {d \in Day : standing'.result[r][d] = "LOST" /\ standing.result[r][d] # "LOST"}

RowsKept(r) ==
    \A d \in Day : standing.result[r][d] # "NONE" => standing'.result[r][d] # "NONE"

ArmedFor(r, arm) ==
    LET next == NextRounds(concert, r, arm)
    IN Arms(concert, r, arm) /\ next # {} =>
         \E rule \in rules' : rule.scope \in next /\ rule.anchor = "OPENS"

\* A round that becomes lost, or legs lost in a round that lives on, leave the
\* reader with a rule for the next round selling what was lost, through every
\* path that can settle the loss (a correction of an answer is not a loss).
LossArmsFallback ==
    [][\A r \in Round :
          /\ standing.outcome[r] # "LOST" /\ standing'.outcome[r] = "LOST" /\ RowsKept(r)
               => ArmedFor(r, WholeRound)
          /\ NewlyLost(r) # {} /\ standing'.outcome[r] # "LOST"
               => ArmedFor(r, LegsLost(NewlyLost(r)))]_vars

----------------------------------------------------------------------------
(* What the docs say and the code does not do.                             *)

\* "WON/LOST can be set regardless of the current state" (record_round_outcome)
\* and a save is always possible: no accepted request raises.
NeverFails == ~failed

=============================================================================
