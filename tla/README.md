# A verification of the concert reminder

This directory holds TLA+ models of the concert reminder under `src/src/app`: a
FastAPI site, a Discord bot and a one-minute scheduler that share one SQLite
database and one asyncio process.  The models say what the program does to its
persistent state, TLC checks them on small instances, and TLAPS proves some of
the results for every instance.  `PROJECT.json` maps each definition to the
lines of the source it stands for.  Paths below are relative to
`src/src/app` unless they start with `src/`.

## 1. Inventory

| part | state it keeps | operations | talks to |
|---|---|---|---|
| **Reminder planner** `domain/reminders.py`, `domain/upgrades.py` | none (pure) | `plan_for_rule`, coverage, cancellation, eligibility | called by the queue |
| **Outcome writers** `db/core.py` 428-1170, `bot/views.py`, `web/routes/outcomes.py` | `round_outcomes`, `round_outcome_days`, `leg_opt_outs` | flat and per-leg answers, lost the rest, won all, backtracks, re-derivation, auto-arming the next round | re-plan the queue in the same transaction |
| **Reminder queue** `db/core.py` `sync_rule`, `sync_concert` | `reminder_rules`, `reminder_queue` | re-plan, add and remove rules, presets, snooze, cascade, leg-cancelled notice | written by site, bot and editor; drained by the tick |
| **Scheduler tick** `scheduler/loop.py`, `db/delivery.py` | `sent` marks, `users.dm_blocked_since`, delivery log | select, send, mark, commit, log, queue the digest | Discord; both outboxes |
| **Broadcasts** `db/broadcast.py` | `notifications`, audit rows | queue, hold, cancel | tick |
| **Round watch and round poll** `db/quiet_ladders.py`, `round_poll.py`, `db/round_proposals.py`, `web/routes/quiet_ladders.py` | two stamps on `concerts`, `round_proposals`, the poll's daily clock | every-tick pass, daily poll, Checked, approve, dismiss | tick, admins, the outbox of notices |
| **Discovery sweep and leads** `discovery.py`, `calendars.py`, `db/discovery_events.py`, `web/routes/discoveries.py` | `discovered_events`, `discovery_state` (clock, request, cursor) | daily and requested sweep, single-tag sweep, dismiss, prune list, bind | tick, editors, the outbox of notices |
| **Drafts and requested runs** `db/drafts.py`, `triage.py`, `draft_completion.py`, `web/routes/imports.py` | `pending_drafts`, `triage_runs`, `fetch_domains` | request, classify, complete, paste, complete by hand, discard, commit | tick, language model, editors |
| **Tag following** `db/tags.py`, `db/venues.py`, `web/routes/preferences.py`, `subscriptions.py` | tags, subscriptions, presets | attach and detach with their expansions, venue roll-up, apply presets, announce | queue, the outbox of notices |
| **Health alerts** `domain/health.py`, `db/ops_alerts.py`, `ops.py` | `ops_check_state` | evaluate, alert, nag, recover | tick, the outbox of notices |
| **Concert editor form** `web/routes/concerts.py` | `concert_days`, `rounds`, `round_qualifiers` | create and edit from parallel arrays | queue, tags |
| **Read surfaces** Home, concert page, board, catalogue, calendar feed, catch-up dialog, setup flow | none | derive what lies ahead, what is held and what is asked | readers, bot |
| **Sessions and onboarding**, **rehearsal**, **importers and page parsing**, **translations** | tokens and setup step; a sandbox concert; none; none | sign in, demonstrate, parse, render | site, bot |

### What is hard

* The outbox `reminder_queue` is *materialised*: every write that changes what a
  reader's rules imply has to re-plan it in the same transaction.  Nothing
  recomputes it later.
* A lottery outcome lives on *two layers*, the round and its legs.  "No leg rows"
  means "every leg", so one added row changes the meaning of those that are absent.
* The tick reads rows, awaits Discord without a lock, and marks by id what it read.
  In between the site commits edits, and marks are lost when the tick aborts.
* SQLite has one writer.  A session takes the write lock with its first flush, so
  what a handler *reads* before that can be stale, and what comes after cannot.
* A daily or requested job shares a transaction with its own stamp, so a failure
  takes the stamp back too and the job would run again a minute later, fetches,
  model calls and all.
* The form posts a concert as arrays matched by position, id and client-side key,
  from pages that may be older than the last save or the last deploy.
* A dozen surfaces derive "what lies ahead for me" from the same rows, each by
  code of its own.

### What makes each part correct

* Planner and queue: the pending rows are exactly what the rules imply, one row per
  rule and round or leg, none delivered early, none re-sent for the same moment.
* Outcomes: the layers agree, one press loses one ticket, and each loss arms the next
  chance.
* Tick: it is an outbox.  A mark needs an answer of Discord, a batch is settled at
  once, duplicates need an aborted tick, everything due is delivered or withdrawn.
* Round watch: one notice per quiet spell, no reading of the page lost, repeated or
  un-dismissed, no round added twice.
* Sweep: each lead is announced once, each event on a followed page becomes a lead,
  a failed sweep waits for its day.
* Drafts: one concert per draft, no production drafted by two runs, one paid call per page.
* Tags: a "new event" DM is news and reaches those who asked for it.
* Health: two readings page, one does not; a lasting fault is repeated.
* Form: what is saved is what the page showed, under the ids it had.
* Surfaces: they agree, and none asks a question no button answers.

`PROJECT.json` lists the hazards behind these, each at its line.

## 2. The modules

| module | models | uses |
|---|---|---|
| `ReminderPlan` | a rule's plan for a concert and a reader's standing (pure) | |
| `RoundOutcomes` | each writer of an outcome as an operator on a standing (pure) | extends `ReminderPlan` |
| `ReminderQueue` | one reader, one concert: presses, prunes, rules, snoozes, ticks, saves | extends `RoundOutcomes` |
| `ReaderViews`, `ReaderQuestions` | what the surfaces derive from the state of `ReminderQueue` | extend `ReminderQueue` |
| `Outbox` | what an outbox promises (abstract) | |
| `SchedulerTick` | the tick in its phases, concurrent writers, failures, crashes | implements `Outbox` |
| `RoundWatch` | quiet-ladder pass, daily poll, review page, editor | |
| `DiscoverySweep` | daily and requested sweeps, the leads they fill, editors meanwhile | |
| `DraftPipeline` | the two paid runs and the import pages | |
| `TagFollowing` | tags on one concert, readers who follow them | |
| `HealthAlerts` | one alerting check | |
| `ConcertForm` | two editors' pages and the reconciliation of a save | |
| `ReminderQueueProofs`, `SchedulerTickProofs`, `RoundWatchProofs`, `DiscoverySweepProofs`, `DraftPipelineProofs`, `TagFollowingProofs`, `HealthAlertsProofs`, `ConcertFormProofs` | inductive invariants and theorems | extend their module and TLAPS |
| `MC...` | the small instances TLC checks | |

The components meet at tables.  `ReminderQueue` sees a tick as one commit (any set of
due rows that were answered) and a save as one new concert; `SchedulerTick` opens
the tick up and reduces web requests to what they do to a row (`Arm`, `Rearm`, `Postpone`,
`Remove`); `ConcertForm` opens the save up and forgets the reminders.  Every module
whose component sends a notice (`RoundWatch`, `DiscoverySweep`, `HealthAlerts`,
`TagFollowing`) counts it when its row commits: `SchedulerTick`'s `QueueNotice`.

### ReminderPlan, RoundOutcomes, ReminderQueue

A *concert* is one record of what `concerts`, `concert_days`, `rounds` and
`round_qualifiers` hold; a *standing* is one record of what a reader has answered.
`Planned` composes, in the code's order, the scope of the rule, cancelled
legs and rounds, the prune, opt-outs, coverage by tickets held elsewhere,
upgrade eligibility and moot anchors.  The prune empties the rounds and not the
legs, because `sync_rule` does.  A writer returns the new standing and what it
arms: `NoArm`, `WholeRound` or the legs lost, the three ways the code calls
`_auto_arm_next_round`.

Each action of `ReminderQueue` is one committed request.  `Synced` is `sync_rule` for a
set of rules: planned rows are armed (a sent row too, since a planned moment is still
ahead), unsent rows that are not planned go, sent ones stay.  `Commit` is the tail of every
press (standing, armed rule, re-plan), `Raise` the rollback when arming compares a round
without times.  `Save` is `edit_concert`: what foreign keys leave, the notice
computed on the old queue, the re-plan, the catch-up of lost rounds.  Two history fields of
a row record that its DM is in somebody's hands and that its time is the reader's own
(snoozed); the snooze button needs the first, the queue properties exempt the second.
Presses are those the surfaces offer; a stale DM may press any of them at any time.

### ReaderViews, ReaderQuestions

Each surface's derivation is an operator with the name of its function: Home's rows
and block leads, the concert page's rows, fold, strip and buttons, the board's column
and rungs, the catalogue's pill, the calendar feed, `/upcoming`, the setup flow's screens, the
result DM and the catch-up dialog.  Where the code takes the first or last of several in an order, the operator is the set
of those that are first or last in it.  They are checked in every state `ReminderQueue`
reaches: a standing no sequence of presses produces would be no witness.

### SchedulerTick and Outbox

`Begin`, `MarkReminders`, `Commit` and `Log` are the pieces of `tick()` between
its awaits; `Reply` is one of the gathered sends coming back.  `marked` is the open
transaction: while it is not empty no other writer commits.  `SendRaises`,
`MarkRaises` and `Crash` end the tick without its commit, and `orphans` are sends that
outlive it, because `asyncio.gather` propagates the first exception and does not
cancel the others.  `MarkRaises` is the `StaleDataError` of a notice deleted while its
DM was in flight: the tick holds the notices as objects, and re-reads only the reminders.

`Outbox` knows no phases, marks, aborts or crashes: messages are queued, withdrawn, sent,
answered, settled in one step, and a batch is closed.  `Promise` instantiates it with
pending for later or due, the tick's batch for `batch` and final answers for `heard`.  The one
thing `Outbox` must allow beyond the obvious is `spared`: a message withdrawn and queued anew while
the tick was sending it may be settled or not, because marking is by id.

### RoundWatch

The clock counts days, which is what the poll's interval is; the pass may run any number
of times within one.  A round is its dedupe key plus `ends`, one value for the closing,
results and payment times, which `anchors_differ` compares together.  `Scan` and
`Reconcile` are the read and the flush of one pass: the ORM writes only the columns that
differ from what it loaded.  `Poll` is one step, because `stamp_round_poll_run`
flushes first and so holds the write lock for the whole run.  A post on the review page is
a `Load...` (its checks, then awaits) and a `Write...` (its flush and commit).  A page is an
arbitrary list of believed rounds.  `asked` is history: per key, the date the poll last read and nobody
has answered; an answer settles it whatever the row says when it is written.

### DiscoverySweep

The opposite of the poll: a sweep reads pages for minutes *before* it writes, so all its
pages are separate steps (`ReadFeeds`, `ReadArtist`, `SkipPage`) and only `FinishSweep` is
one.  `job.knew` is the state row as the session loaded it, which happens after the feeds (`Past`): SQLAlchemy
leaves a column out of an UPDATE that the session did not change, so a request made while a daily sweep
reads its artists survives its stamp.  Time is spent whenever the model likes, after the feeds and one
artist.  `FailSweep` is the handler's rollback and re-stamp, `LoseSweep` the process dying or the
re-stamp failing.

### DraftPipeline

A run writes its own row first and so holds the lock until it commits: `Classify` and
`Complete` are one step each.  Pages that await between reading a draft and writing it are
two.  What the model makes of a page is an arbitrary reply: unusable, without a round it could
quote, or with.  Triage gets a *list* of productions: nothing in the code removes one that is named twice, nor checks
that it is an open lead, so `Classify` draws any sequence, and only containment (`Undrafted`) looks at the open drafts,
once, before the first is drafted.  A row's `after` is history: how many drafts there were before the run or paste that
added it, so rows of one reply share it.  `paid` counts calls also of runs that are rolled back, because money is
not.

### TagFollowing

`Attach` and `Detach` are the tag set's expansions (a character's voice artist),
`HandleNewlyTagged` is what followers get.  A save is one step, with the two announcing
passes (tags, then venues) in the code's order; the reader's own preset press reads
first and writes later.  Groups never expand on attaching, because no route asks for it: members join
through the retroactive page.

### HealthAlerts

One pass is `evaluate_and_alert` for one check with the disk's two marks.  The nag's clock is the age
of `last_notified_at` in passes, stopped at a day.

### ConcertForm

A page is the arrays a form posts: per leg its id, key, name and cancelled flag, per round its id,
key, kind and the tokens of its chips.  `Touched` is what an editor can make of a served page in
`MaxTouches` acts, the page's scripts (`rebuild()`) included; `UpTo` is that for every number of acts.  `IdsOf` is the flush: kept ids, then new
ones above the table's highest, other concerts' rows considered (SQLite reuses ids).
`Posted` is the presence rule for arrays an older page does not know.  `shown` is
history: the concert by name, as the last saved page showed it.

## 3. The runs

Passing runs:

| run | question | instance | distinct states |
|---|---|---|---|
| `Queue` | is the outbox what the rules imply, after any requests and one save of any kind? | one reader; two rounds, a draft of a third, two legs; a concert-wide rule and a preset; clock 0..3 | 216 k |
| `Tick` | does the tick implement the outbox under interleavings, failures and crashes? | two reminders, a notice, the digest slot, two users; four armings, one failure | 633 k |
| `Watch` | do pass, poll and reviews agree? | two keys of one label, two dates, two open requests, clock 0..2, one save or failed pass | 1.20 M |
| `Sweep` | are leads announced once, and does every event surface? | two artists and the feeds, one event, one concert, two edits, two clicks, one failure | 278 k |
| `Drafts` | is anything committed or paid twice, or drafted by two runs? | two admins, one production, two drafts, two presses, one pasted page, one lost run | 2.58 M |
| `Following` | who is told of a concert, and with which preset? | two characters, an artist, a group, a venue, two presets; two saves, one other change | 259 k |
| `Health` | who is paged, and when? | a day of three passes | 276 |
| `Form` | is what was saved what the page showed? | two editors, three legs, two sales, one act per page, three saves, four ids | 672 k |
| `Views` | do all presses and corrections keep both layers of an outcome right, do the surfaces agree on them, and is no button missing? | a lottery for two legs, an open-ended general sale, an upgrade; answers to the lottery and the upgrade on both legs; clock 0..3, one cancelled leg | 49.3 k |

Runs that refute a statement of the source:

| run | statement | what happens |
|---|---|---|
| `LossRaises` | "WON/LOST can be set regardless" (`db/core.py:662`) | losing a round that has only a results or payment time raises |
| `MovedDate` | "a moved date is surfaced, never applied" (`round_poll.py:222`) | after an approval the moved date is written into the settled proposal, which no page lists |
| `OfferedWin` | "the shortcut withdraws" (`web/templates/_capture_actions.html:208`) | with one leg lost and the other given up, the whole-round "I won" is offered and secures nothing |

### Properties

* `Queue`: `PlanIsQueued` and `NothingElsePending` together say that the unsent rows *are* the
  plan; `OneRowPerTarget` is the dedupe key; `NeverRepeated`: a delivered row becomes pending only for
  a strictly later moment; `NoticeIsTrue`: who is told "your reminders were cleared" had some and loses all.
* `Tick`: `KeepsThePromise` is the refinement of `Outbox`; `DuplicatesOnlyByAbort` prices each
  second DM at one lost transaction; `Drained` is liveness.
* `Watch`: `HandledOnce`, `ReadingsWait` (a date that was read stays in its proposal until somebody answers it or another
  date is read), `DismissalSticks` about proposals; `OneNoticePerSpell` about
  the notice, and `SpellsAreAnnounced`, the liveness of the stamp that stands for it.
* `Sweep`: `AnnouncedOnce`, `SweepsAreOwed`, and two liveness properties, `EveryEventSurfaces` (the cursor
  reaches everybody) and `HeldLeadsClose`.
* `Drafts`: `NoSecondCopy` (one concert per draft; two open drafts of one production are of one reply), `PaidOnce`, `LadderReplacedOnlyByRace`, and `RunsEnd` (liveness).
* `Following`: `NewsReachesFollowers`, `PerformerStays`, `TunedBeatsDefault`.
* `Health`: `NeverOnOneReading`, and `ChangesAreTold` (liveness: paged, nagged, called off).
* `Form`: `SavedAsShown`, `RowsKeepTheirIds`, `OldPageLosesNothing`, `NoDanglingReference`.
* `Views`: `WonLegSecuresRound`, `OtherTicketsKept`, `LossArmsFallback`: the two layers and the
  fallback, over every order of presses and corrections.  `MomentsAgree` (Home, reminders, feed, `/upcoming`, setup flow and ladder watch list the same
  moments), `OneNextForYou`, `TicketsAgree`, `WayInIsVisible`, `AnswersAreOffered`, `StandingIsExplained`,
  `CatchUpAdvances` (the catch-up dialog terminates: every answer leaves strictly less to ask).

Each property of a passing run has a mutant in `PROJECT.json`: a definition changed the way a
plausible slip would change the code, under which TLC finds the property violated.

### Bounds, and why they are enough

* `Queue`, `Views`: one reader and one concert, since `sync_rule` never looks at another
  reader's rows.  Two rounds and two legs are what coverage, per-leg results and fallbacks need; the third
  round exists so that a save can add one, or to be an upgrade.  A save acts on the committed rows, and what
  a second one would find is reached by other presses; `EditKinds` has every kind in `Queue`.  `MaxTime` 3
  passes each deadline that decides.  `Views` bounds no number of presses: it enumerates
  all their orders on two rounds that share a leg.
* `Tick`: four armings let a row be delivered, re-armed and delivered again beside another, and one
  hiccup is one failure, exception or crash at any point.  The batch limits (2 and 1) are smaller than the outbox.
* `Watch`: two requests are the smallest race; the page lists at most one round a day, on
  three days; one event among saves, Checked presses and failures.
* `Sweep`: two artists are the smallest list a cursor can be in the middle of; with the feeds three
  sources may list one event.  `Drafts`: two drafts of one production, or one and a pasted one, are the
  smallest pair that can collide; two presses can overlap; one lost run is the smallest excess `PaidOnce` allows.
* `Following`: two characters can share a voice; a second save can undo what the first one did.
  `Health`: three passes tell a confirmation (two) from a nag.
* `Form`: creating and two edits, of which one may come from a page older than the other.  Four ids let one be
  deleted and handed out again.

Deadlock is checked except in `Following`, `Form`, `Views` and the refuting runs: with bounded
clocks, saves and presses, an instance there may really have nothing left to do.

### Fairness, and why the code justifies it

Only the scheduler is fair: `reminder_loop` runs a tick each minute and catches what it
raises.  Nothing is assumed about readers, editors, admins, failures or crashes, and the number of
failures is bounded by `MaxHiccups` (no liveness holds when every tick fails).

* `SchedulerTick`: `WF(TickStep)`, and `WF(Replies)` because a request to Discord ends in an answer or an
  exception.
* `RoundWatch`: `WF(Pass)`, which each tick runs behind its own `try`.
* `DiscoverySweep`: `WF(Sweep)`: the tick starts a sweep that is due or asked for, and each fetch has a
  deadline; `WF(DayPasses)`: the clock runs.  Which page is read, skipped or cut off by the time limit is
  not chosen fairly, which is why the cursor matters.
* `DraftPipeline`: `WF(Tick)`: a tick takes the oldest requested run.
* `HealthAlerts`: `WF(Pass)`: a pass may fail any number of times, not for ever.

## 4. What is proved

For all values of the constants, from the named assumptions of each module (ids are
disjoint, bounds are numbers, NULL is no value):

| theorem | property |
|---|---|
| `ReminderQueueProofs`: `QueueInvariant`, `TypeCorrect`, `OneRow`, `NothingMissing`, `NothingStale`, `NothingEarly` | `QueueInv`; `TypeOK`, `OneRowPerTarget`, `PlanIsQueued`, `NothingElsePending`, `SentIsPast` |
| `ReminderQueueProofs`: `OwnedInvariant`, `DeliveredStaysDelivered`, `NoticesAreTrue` | `RowsOwned`; the action properties `NeverRepeated`, `NoticeIsTrue` |
| `ReminderQueueProofs`: `WonLegSecures`, `TicketsKept`, `LossArms` | `WonLegSecuresRound`, `OtherTicketsKept`, `LossArmsFallback` |
| `ReminderQueueProofs`: `ReaderInvariant`, `SurfacesAgree`, `PageTellsTheTruth`, `OneMomentLeads`, `WayInStays`, `AnswersOffered`, `CardsExplained`, `CatchUpEnds` | `ReaderInv`; `MomentsAgree`, `TicketsAgree`, `OneNextForYou`, `WayInIsVisible`, `AnswersAreOffered`, `StandingIsExplained`, `CatchUpAdvances` |
| `SchedulerTickProofs`: `TickInvariant`, `TickTypeCorrect`, `NoSpareDuplicates`, `PromiseKept` | `TickInv`; `TypeOK`, `DuplicatesOnlyByAbort`, `KeepsThePromise` (the refinement) |
| `RoundWatchProofs`: `WatchInvariant`, `WatchTypeCorrect`, `ProposalsHandledOnce`, `NoticeOncePerSpell`, `DismissedStays`, `UnansweredReadings` | `WatchInv`; `TypeOK`, `HandledOnce`, `OneNoticePerSpell`, `DismissalSticks`, `ReadingsWait` |
| `DiscoverySweepProofs`: `SweepInvariant`, `ToldOnce`, `NoSweepUnowed` | `SweepInv`; `AnnouncedOnce`, `SweepsAreOwed` |
| `DraftPipelineProofs`: `DraftInvariant`, `NoSecondCopies`, `OnePayment`, `LaddersStand` | `DraftInv`; `NoSecondCopy`, `PaidOnce`, `LadderReplacedOnlyByRace` |
| `TagFollowingProofs`: `FollowingTypeCorrect`, `PerformerIsKept`, `NewsIsNews`, `TunedWins` | `TypeOK`, `PerformerStays`, `NewsReachesFollowers`, `TunedBeatsDefault` |
| `HealthAlertsProofs`: `AlertInvariant`, `AlertTypeCorrect`, `TwoReadings` | `AlertInv`; `TypeOK`, `NeverOnOneReading` |
| `ConcertFormProofs`: `FormInvariant`, `FormTypeCorrect`, `ReferencesHold`, `SavesShow`, `IdsStayWithTheirRows`, `OldPagesLoseNothing` | `FormInv`; `TypeOK`, `NoDanglingReference`, `SavedAsShown`, `RowsKeepTheirIds`, `OldPageLosesNothing` |

**The queue.**  One inductive invariant, the conjunction of the five properties, with one lemma per
action of `Next`.  They hold together and not one by one: each leans on the type invariant (a moment can
only be compared with the clock when it is an integer); a save needs `NothingElsePending` to know that the row it
leaves pending belongs to a rule it re-plans; the site's new rules re-plan only themselves and need both halves
about the others; a tick needs `PlanIsQueued` to find the row of a planned moment, and that planned moments lie
ahead of the clock, to know that it does not mark that row.  Presses, prunes and saves all end in the same re-plan, so one
lemma, `ReplanAll`, carries them: a press only has to return a well-typed standing.
The two action properties add `RowsOwned`, the foreign key from a row to its rule.  `EveryQueueStep` sorts the
steps into five ways to touch the outbox; `NeverRepeated` then holds because a re-plan arms only moments ahead of the
clock while a delivered row's is behind it (`SentIsPast`), and `NoticeIsTrue` because the legs a save cancels leave
no plan behind for a reader it tells (`DoomedIsUnplanned`).

**The outcomes.**  The writers are operators on a standing, so there is one lemma per writer (`DayResultFacts`,
`RemainingLostFacts`, ...) that says what it does to the two layers and what it arms, and `PressWrites` ties each button to its writer.
`WonLegSecuresRound` is then inductive as it stands.  `WonLegSecures` and `TicketsKept` have one hypothesis, that
`FlatOutcomes` does not offer LOST.  In the code a flat LOST from a DM is refused once a ticket is held
(`PressLostAllLegs` here), and the site withdraws the whole-round buttons as soon as a leg has a row; only a page opened before
that can still post one.  Such a post would throw tickets away on purpose, and the two properties are not about it; the instance
TLC checks them on satisfies the hypothesis.  `LossArms` needs none.

**The reader's surfaces.**  They are functions of the state, so each property is a consequence of an invariant and
the proof is about the derivations.  `ReaderInv` adds `WellFormed` to the types: finitely many rounds, and no round that names a leg the
concert does not have, which every save keeps (`SavesWellFormed`) because `parse_round_legs` drops ids of other legs and a deleted leg leaves
`applies_to`.  Without it the page would list a round under every live leg (a named leg that is gone counts as none) while the
planner counts it for no leg at all.  `HomeRows` says which rows Home has; `MomentsAgree` compares every
other list with them.  `TicketsAgree` and `WayInIsVisible` also need `WonLegSecuresRound`, the agreement of the two layers of an outcome, and with
it the hypothesis of `WonLegSecures`: `WonIsHeld` compares page and planner leg by leg.  `OneNextForYou` and `WayInIsVisible` need that among moments ahead
of the clock one is the soonest (`SoonestOf`, from the well-foundedness of `<`), `StandingIsExplained` that of finitely many rungs one is
last (`SomeRungIsLast`, by counting the earlier ones).  `CatchUpAdvances` has one lemma per kind of answer (`LegAnswers`,
`RestAnswers`).

The proofs corrected the model in three places: the buttons of a concert without a leg, whose rounds are listed once and unscoped; a
`CASE` with overlapping arms in `StandingRank`; and `WayInIsVisible`, which is false when an editor dates a round to close before it opens
(section 7).

**The tick.**  `TickInv` adds two parts to the types.  `WorkInv` says what the open transaction holds: marks
only between the two selections and the commit, only of rows that exist (nobody else writes while there are
marks), and that an answered row that is not marked, or a tried row that is missing, was
withdrawn under the tick.  `BudgetInv` counts DMs: a row that can still be sent has cost at most `aborts`, an answered one at
most one more until it is marked, and a send that outlives its tick is charged in advance; so an abort, which may
leave sends running and forgets the answers, raises the budget by exactly what it may cost.  The refinement follows
from the same invariant: `WorkInv` is what makes `Commit` a `Settle`, with `spared` the answered reminders it did not
mark; all other steps are steps of the outbox or stutter.

**The round watch.**  `WatchInv` is the types with three parts.  `LadderInv` relates the stamp to the spell: without a stamp
the ladder has been seen moving since the last notice, and what an open pass loaded of the stamp is still what is stored,
because only passes and the Checked press write it.  `PressInv` says what an open approval may still believe after its awaits:
as long as no other commit overtook it (`clean`), its round is not held and its proposal not dismissed.  `HandledOnce` is
inductive with those: a duplicate round costs a race or an edit.  `ReadingsWait` is inductive on its own: a poll reads at most one
unanswered date per key (`OneReading`, from the folding of duplicate keys) and stores that one, and only an answer, which clears
`asked`, or a poll writes a proposal (`ReadingStep`).

**The sweep.**  Announced events are stored, and nothing deletes a stored event; so what a later sweep finds fresh
was never announced, however the earlier one ended.  `SweepsAreOwed` needs what the clock and the request flag still owe
while a sweep runs: a request that arrives after the sweep loaded its state row survives the stamp.  Sorting the pages is left open:
neither result depends on their order.

**The drafts.**  `DraftInv` counts per draft: `made` is one exactly for a committed draft, `paid` is at most
`aborts`, plus one once the row's record says that its official page was read; `Apart` is the second half of `NoSecondCopy`: what one run appends shares its `after`, and avoids the productions of all drafts open before it; rewriting rows in place (`RewriteInv`) and appending (`AppendInv`) are the only two ways the table changes.

**Tag following.**  The type invariant carries the unique index of `tag_subscriptions`: no reader follows a tag twice, which
every settings route must keep (appending, removing, rewriting: one lemma each).  `EditKeepsVoice` is set algebra over `Attach`,
`Detach` and `Keep`.  The news property is about two passes of `handle_newly_tagged` in one save (`TwoPasses`): the first may tell a
reader or give rules, and the second then finds the rules.  `TunedBeatsDefault` follows from the same lemma with `ChosenProperties`, where
`Earliest` is proved to be the least element from the well-foundedness of `<`.

**The health alerts.**  A pending reading is the last one that was taken: so the second of two that agree really
is the second in a row.

**The concert form.**  `FormInv` is the types, `NoDanglingReference`, that no two rows of a table are the same performance or
sale, and that every open page is `Servable`: a row's key says which saved row or which addition it is, no id stands on two rows,
and a chip in digits names a row the page was served with.  The argument has three parts.

*What an editor can make of a page.*  `Edited` relates the page that is posted to the one that was served: a row with an id is one
that was served under that name, a row without one is a row served without or an addition under a name of its own.  Every
act keeps it (`LegActsEdit`, `RoundActsEdit`, `ChipActsEdit`, `RebuiltEdits`), and so do any number of them: `UpTo` is a recursive function,
whose value exists and whose members are `Edited` by the least counterexample (`UpToDefined`, `TouchedEdits`, from the
well-foundedness of `<`), which needs no induction over an operator.

*What the flush makes of it.*  `IdsProperties` and `IdsDiffer`: no two rows get one id, kept rows keep theirs, new ones lie above
the highest id of their table.  `RowsAreTold` adds that no two rows have one key, without which `Keyed`, the code's `setdefault`, would bind a chip to
another row.  `SaveIsSound` is the step of the invariant, for pages of any age.

*What a token says after it.*  `TokenNamesItsRow`: unless an id the page knows was handed on to another row, the id a token resolves to is the id
of the row that carries it as its key, and a token that resolves to nothing is carried by none.  `SavedAsShown` is then
three set equations per round (`LegsShown`, `QualsShown`, `NeedsShown`).  `RowsKeepTheirIds` needs `Current` to compare ids
*and* names, which the proof found: with names alone a performance that was deleted and added again under a new id
leaves an old page looking current.  `OldPageLosesNothing` is about the preserved arrays: what a stored
round refers to is fed back as digits, and digits resolve to themselves or to nothing (`OldSave`).

`FormAssumption` says of the creation page what the templates say: it knows no ids, its keys differ from row to row, and its
required items are item sales on it.

Every invariant and action property that a run checks is proved.  Only model-checked, because out of the prover's reach: liveness
under fairness (`Drained`, `SpellsAreAnnounced`, `EveryEventSurfaces`, `HeldLeadsClose`, `RunsEnd`, `ChangesAreTold`),
`ENABLED`, and induction over data (what the sorted orders of `DiscoverySweep` compute).

## 5. The plan

Written, in this order: `ReminderPlan`, `RoundOutcomes`, `ReminderQueue`, its proofs, `SchedulerTick`, `RoundWatch`,
`DiscoverySweep`, `DraftPipeline`, `TagFollowing`, `HealthAlerts`, `ReaderViews`, `ReaderQuestions`, `ConcertForm`, `Outbox`,
the proofs of the tick, the drafts and the alerts, then those of the sweep, the watch, the outcomes, the tags, the form and the reader's surfaces.  Left:

1. A broadcast module: recipients, preview and audit, as a writer of notices.
2. `TagFollowing` composed with `ReminderQueue`: the preset a tag applies as rules that are planned.

## 6. Not modelled, and why

* Translations, wording, sorting and paging of messages and pages: they change no state.
* Importers, page parsing, the language model, HTTP fetching: text processing and
  network I/O, covered by unit tests; runs, polls and sweeps take their result as arbitrary.
* Sessions and tokens: one-row state with an expiry, over a library.
* Rehearsal: it reuses the writers modelled here on a sandbox concert.
* Who receives a broadcast, its preview and its audit rows: queries; its held notices and their
  cancellation are `QueueNotice`, `FallDue` and `Remove` of `SchedulerTick`.
* Tag search, listings and page texts; the rotation of the poll among concerts.
* SQLite's busy timeout: a writer here waits, where the code may answer an error after five
  seconds.  The tick holds the write lock while it sends notices, and the poll and the requested runs
  hold it through up to 240 s of network calls.
* An HTTP error from Discord is taken to mean that the DM was not delivered.

## 7. Open questions for the team

Behaviour met while modelling that no document decides, that contradicts a sentence of the source
without a run of its own, or that a property exempts.

Reminders and outcomes
* A due, unsent row is deleted by any re-plan before the next tick's retry (`scheduler/loop.py:11` says it retries).
* An opted-out concert still plans reminders of the show's start (`db/core.py:1941` says "plans nothing").
* Losing the only won leg while another is open leaves a won round whose only row is lost
  (`db/core.py:914` says that both layers stay consistent).  With such rows, and after a leg is reinstated, the result DM
  still asks where the page does not.
* A reminder moved to a later deadline during its send is marked sent for that one (`scheduler/loop.py:183`).
* A reader whose remaining row is overdue, or about to be cleared by the same save for
  another reason, loses every reminder without the leg-cancelled notice (`db/core.py:1386`).
* On the site a flat WON over leg rows keeps them; WON pressed over PAID demotes the
  round and re-arms its payment reminder.
* The next re-plan of its rule deletes a snoozed row or puts its planned time back.  An old DM's snooze
  button acts on whatever row has that id now.
* `sync_concert` catches up whole-round losses and not losses of single legs.  A whole
  loss arms only the earliest fallback, even one that does not sell every lost leg.
* `cancel_broadcast` counts a notice whose DM is in flight as cancelled.

Round watch, discovery, drafts
* Two overlapping approvals add a round twice (`web/routes/quiet_ladders.py:404` calls a double-click safe).
* A "changed" proposal stays pending with its date when the page goes back to the date the concert holds.
* A Checked press on a stale page stamps a spell that has not begun (`db/quiet_ladders.py:257`).
* A sweep requested while the daily one reads its artists runs after it (`db/drafts.py:400` says that it is absorbed, as one requested
  during the feeds is); a tag deleted while its page is read fails the whole sweep; removing a leg leaves its lead bound for ever.
* Two overlapping presses queue two paid runs (`web/routes/imports.py:741` says one).  A discard and a commit may both stamp
  a draft; approve and decline may both stamp a host.
* A triage reply that names one production twice opens two drafts of it in one run: containment is checked once, before the loop
  (`triage.py:535`), and `triage.py:189` accepts this only of a tour that straddles two batches.  Nothing checks that what a reply
  names is an open lead.
* The lead of a committed draft stays open until the next sweep, and triage may draft it again in between.  Committing a preview
  loses rounds a completion run added meanwhile.  The second-tab guard of `web/routes/imports.py:924` runs before the model call.

Health and tags
* A disk that moves between the low and the middle band on alternate readings never confirms and never pages
  (`domain/health.py:17` promises the opposite for a flapping disk).  A "recovered" DM may come without a "failing" one.
* Overlapping preset presses write duplicate rules (`apply_preset` calls repeated clicks harmless).
* One create DMs a reader twice who follows, without a preset, both an artist and the venue.  A default preset on an artist beats a
  preset picked for a venue.  A reader who opted out of a concert still gets "New event" when a tag is added.

Surfaces and form
* An upgrade the reader applied to but no longer qualifies for, and a round whose every leg is cancelled on a live
  concert, still lead the page's "Next for you" (exempt in `OneNextForYou`).  The slot of the next round to open is spent on one
  already answered, or dated to close before it opens, which no form refuses (exempt in `WayInIsVisible`).  The setup flow asks about locked upgrades and counts their payment.
* After "lost" for one leg and "not going" for the other, the catch-up dialog returns once with the whole-round question
  (`pending_capture_row` says that an answer removes it).
* `discoverable_open_round_count` counts a cancelled round as open, and Home keeps the rounds `_capture_actions.html:35` says it drops.
* SQLite hands ids out again: a stale page's token may name another leg or sale (exempt in `SavedAsShown`); a stale save deletes
  rows the other editor added; a qualifier chip of a round that the save re-creates is dropped, and no qualifier
  means any ticket qualifies.  Clearing all fields of a saved leg deletes it, and dropping a round's last named leg makes the
  round general (`db/core.py:196`).
