--------------------------- MODULE DiscoverySweep ---------------------------
(***************************************************************************)
(* The daily discovery sweep (src/app/discovery.py, run by                 *)
(* scheduler/loop.py) and the lead queue it fills.                         *)
(*                                                                         *)
(* A sweep reads the calendar feeds, then one artist page after another    *)
(* from where the last one ran out of time, and in one transaction stores  *)
(* the events the catalogue does not hold, queues one DM about them, starts*)
(* the 24-hour clock and moves the cursor.  While it reads, editors import *)
(* and delete concerts and tags, admins dismiss leads, sweep one artist by *)
(* hand and ask for another sweep.                                         *)
(***************************************************************************)
EXTENDS Naturals, Sequences, SequencesExt

CONSTANTS
    Artist,      \* tags with an actor page that are not characters, by id
    Event,       \* performances and deadlines, by the source's event id
    Concert,
    NoConcert,   \* NULL
    MaxEdits,    \* bound on what editors, pages and time of day change
    MaxClicks,   \* bound on the sweeps asked for by hand
    MaxHiccups   \* bound on unreadable pages, exceptions and crashes

ASSUME SweepAssumption ==
    /\ Artist \subseteq Nat \ {0} /\ NoConcert \notin Concert
    /\ MaxEdits \in Nat /\ MaxClicks \in Nat /\ MaxHiccups \in Nat

Feed   == 0                      \* the calendar feeds: no tag, always read
Source == Artist \cup {Feed}
AtHead == 0                      \* the cursor's NULL
Unseen == 99                     \* no source of this sweep listed the event

ASSUME UnseenAssumption == Unseen \notin Source

VARIABLES
    listed,   \* the future events each source lists
    tags,     \* the artists whose tag exists
    leg,      \* the concert one of whose legs carries the event's id
    stored,   \* events with a row in discovered_events
    bound,    \* that row's concert_id
    dismissed,\* rows whose dismissed_at is set
    state,    \* discovery_state: clock run out, request pending, cursor
    job,      \* the sweep in flight
    told,     \* how many DMs announced the event
    owed,     \* a day, a click, a crash or a lost stamp since the last sweep
    edits, clicks, hiccups

leads == <<stored, bound, dismissed, told>>
world == <<listed, tags, leg>>
vars  == <<world, leads, state, job, owed, edits, clicks, hiccups>>

Nothing == [e \in Event |-> Unseen]
Idle    == [phase |-> "idle", order |-> <<>>, at |-> 1, via |-> Nothing,
            knew |-> FALSE, click |-> FALSE]
Reading == job.phase = "reading"

Init ==
    /\ listed \in [Source -> SUBSET Event]
    /\ tags = Artist
    /\ leg = [e \in Event |-> NoConcert]
    /\ stored = {} /\ bound = leg /\ dismissed = {} /\ told = [e \in Event |-> 0]
    /\ state = [due |-> TRUE, asked |-> FALSE, cursor |-> AtHead]
    /\ job = Idle /\ owed = TRUE
    /\ edits = 0 /\ clicks = 0 /\ hiccups = 0

----------------------------------------------------------------------------
(* record_discovered.                                                      *)

\* Mutant: whatever is still open counts as fresh.
FreshIfOpen(via) ==
    {e \in Event : /\ via[e] # Unseen /\ leg[e] = NoConcert
                   /\ e \notin dismissed /\ bound[e] = NoConcert}

\* Events no leg holds and no row knows, however that row ended.
Fresh(via) ==
    {e \in Event : via[e] # Unseen /\ leg[e] = NoConcert /\ e \notin stored}

\* Mutant: held ids are dropped before their rows are looked up.
BoundNever(via) == bound

\* A held event is never stored; its row, if there is one, leaves the queue.
BoundAfter(via) ==
    [e \in Event |-> IF e \in stored /\ via[e] # Unseen /\ leg[e] # NoConcert
                     THEN leg[e] ELSE bound[e]]

\* The new row names the tag that surfaced it: one deleted since it was read
\* fails the foreign key, and with it the transaction.
Recordable(via) == \A e \in Fresh(via) : via[e] \in tags \cup {Feed}

Record(via) ==
    /\ Recordable(via)
    /\ stored' = stored \cup Fresh(via)
    /\ bound' = BoundAfter(via)
    /\ UNCHANGED dismissed

\* sweep_one_tag, in the request that asks for it: no DM, clock or cursor.
SweepOneTag(a) ==
    /\ a \in tags /\ clicks < MaxClicks /\ clicks' = clicks + 1
    /\ Record([e \in Event |-> IF e \in listed[a] THEN a ELSE Unseen])
    /\ UNCHANGED <<world, told, state, job, owed, edits, hiccups>>

----------------------------------------------------------------------------
(* Editors, admins, the pages and the clock.                               *)

Edit == edits < MaxEdits /\ edits' = edits + 1

\* A page lists a new event, or the event passes.
Publish(s, e) ==
    /\ Edit
    /\ listed' = [listed EXCEPT ![s] = IF e \in @ THEN @ \ {e} ELSE @ \cup {e}]
    /\ UNCHANGED <<tags, leg, leads, state, job, owed, clicks, hiccups>>

\* An import stamps the event's id on a leg of the concert it creates.
Import(e, c) ==
    /\ Edit /\ leg[e] = NoConcert
    /\ leg' = [leg EXCEPT ![e] = c]
    /\ UNCHANGED <<listed, tags, leads, state, job, owed, clicks, hiccups>>

\* Deleting a concert takes its legs and, by SET NULL, unbinds its leads.
DeleteConcert(c) ==
    /\ Edit /\ \E e \in Event : c \in {leg[e], bound[e]}
    /\ leg'   = [e \in Event |-> IF leg[e] = c THEN NoConcert ELSE leg[e]]
    /\ bound' = [e \in Event |-> IF bound[e] = c THEN NoConcert ELSE bound[e]]
    /\ UNCHANGED <<listed, tags, stored, dismissed, told, state, job, owed, clicks, hiccups>>

\* Deleting a tag leaves its leads: first_seen_via_tag_id is SET NULL.
DeleteTag(a) ==
    /\ Edit /\ a \in tags
    /\ tags' = tags \ {a}
    /\ UNCHANGED <<listed, leg, leads, state, job, owed, clicks, hiccups>>

\* The review page's queue: announced is not triaged.
OpenLeads == {e \in stored \ dismissed : bound[e] = NoConcert}

\* The plan of a pasted prune list, derived again when it is applied: rows
\* unknown, bound or already dismissed are left alone.
ApplyPrune(es) ==
    /\ es \cap OpenLeads # {}
    /\ dismissed' = dismissed \cup (es \cap OpenLeads)
    /\ UNCHANGED <<world, stored, bound, told, state, job, owed, edits, clicks, hiccups>>

\* The dismiss button of a page that may be stale: once, bound or not.
Dismiss(e) ==
    /\ e \in stored \ dismissed
    /\ dismissed' = dismissed \cup {e}
    /\ UNCHANGED <<world, stored, bound, told, state, job, owed, edits, clicks, hiccups>>

RequestSweep ==
    /\ clicks < MaxClicks /\ clicks' = clicks + 1
    /\ state' = [state EXCEPT !.asked = TRUE]
    /\ job' = [job EXCEPT !.click = Reading]
    /\ owed' = TRUE
    /\ UNCHANGED <<world, leads, edits, hiccups>>

DayPasses ==
    /\ ~state.due /\ ~Reading
    /\ state' = [state EXCEPT !.due = TRUE] /\ owed' = TRUE
    /\ UNCHANGED <<world, leads, job, edits, clicks, hiccups>>

Web ==
    \/ \E s \in Source, e \in Event : Publish(s, e)
    \/ \E e \in Event, c \in Concert : Import(e, c)
    \/ \E c \in Concert : DeleteConcert(c)
    \/ \E a \in Artist : DeleteTag(a) \/ SweepOneTag(a)
    \/ \E e \in Event : Dismiss(e)
    \/ \E es \in SUBSET Event : ApplyPrune(es)
    \/ RequestSweep

----------------------------------------------------------------------------
(* The sweep.                                                              *)

\* Mutant: every sweep starts at the head of the list.
OrderFromHead(cursor) == <<Feed>> \o SetToSortSeq(tags, <)

\* The artists by id from the cursor on, then those before it.
Order(cursor) ==
    LET sorted == SetToSortSeq(tags, <)
    IN <<Feed>> \o SelectSeq(sorted, LAMBDA a : a >= cursor)
                \o SelectSeq(sorted, LAMBDA a : a < cursor)

\* The loop reads the clock and the request, the sweep then its artists.
StartSweep ==
    /\ ~Reading /\ (state.asked \/ state.due)
    /\ job' = [phase |-> "reading", order |-> Order(state.cursor), at |-> 1,
               via |-> Nothing, knew |-> state.asked, click |-> FALSE]
    /\ UNCHANGED <<world, leads, state, owed, edits, clicks, hiccups>>

\* The first source that lists an event surfaces it; a page is read down to
\* its first event that is over, a calendar's categories are filtered.
Surfaced(s) == [e \in Event |-> IF job.via[e] = Unseen /\ e \in listed[s] THEN s ELSE job.via[e]]

Turn(s) == Reading /\ job.at <= Len(job.order) /\ job.order[job.at] = s

\* After the feeds the state row is loaded for its cursor and kept: a request
\* that commits later is not what the stamp compares with.
Past(s, via) ==
    [job EXCEPT !.at = @ + 1, !.via = via, !.knew = IF s = Feed THEN state.asked ELSE @,
                !.click = @ /\ s # Feed]

ReadFeeds ==
    /\ Turn(Feed)
    /\ job' = Past(Feed, Surfaced(Feed))
    /\ UNCHANGED <<world, leads, state, owed, edits, clicks, hiccups>>

ReadArtist(a) ==
    /\ Turn(a)
    /\ job' = Past(a, Surfaced(a))
    /\ UNCHANGED <<world, leads, state, owed, edits, clicks, hiccups>>

\* A page that cannot be fetched in time, or read, is counted and skipped.
SkipPage ==
    /\ \E s \in Source : Turn(s) /\ job' = Past(s, job.via)
    /\ hiccups < MaxHiccups /\ hiccups' = hiccups + 1
    /\ UNCHANGED <<world, leads, state, owed, edits, clicks>>

\* The loop ended, or its time is spent: the clock starts after the feeds,
\* so one artist is always visited.
Stopped == Reading /\ (job.at > Len(job.order) \/ job.at > 2)

NextCursor == IF job.at > Len(job.order) THEN AtHead ELSE job.order[job.at]

\* stamp_discovery_run and set_sweep_cursor.  The request is set to NULL on
\* the loaded row: when that row knew of none, nothing changed and the UPDATE
\* leaves the column alone.
Stamp(cursor) ==
    state' = [due |-> FALSE, asked |-> state.asked /\ ~job.knew, cursor |-> cursor]

Done == job' = Idle

\* Every lead the run found first goes into one DM and is marked with it.
Announce(fresh) == told' = [e \in Event |-> IF e \in fresh THEN told[e] + 1 ELSE told[e]]

\* One commit: the rows, the bindings, one DM naming the fresh ones, the stamp.
FinishSweep ==
    /\ Stopped /\ Record(job.via) /\ Stamp(NextCursor) /\ Done
    /\ Announce(Fresh(job.via))
    /\ owed' = job.click
    /\ UNCHANGED <<world, edits, clicks, hiccups>>

\* Mutant: the handler only rolls back.
FailWithoutStamp ==
    /\ Stopped
    /\ (Recordable(job.via) => hiccups < MaxHiccups)
    /\ hiccups' = IF Recordable(job.via) THEN hiccups + 1 ELSE hiccups
    /\ Done
    /\ UNCHANGED state /\ owed' = job.click
    /\ UNCHANGED <<world, leads, edits, clicks>>

\* The write half raises: everything is rolled back and the re-read row is
\* stamped, request and all, in a transaction of its own; the cursor stays.
FailSweep ==
    /\ Stopped
    /\ (Recordable(job.via) => hiccups < MaxHiccups)
    /\ hiccups' = IF Recordable(job.via) THEN hiccups + 1 ELSE hiccups
    /\ Done
    /\ state' = [state EXCEPT !.due = FALSE, !.asked = FALSE] /\ owed' = FALSE
    /\ UNCHANGED <<world, leads, edits, clicks>>

\* The stamp of a failed sweep is lost too, or the process dies.
LoseSweep ==
    /\ Reading /\ hiccups < MaxHiccups /\ hiccups' = hiccups + 1
    /\ Done /\ owed' = TRUE
    /\ UNCHANGED <<world, leads, state, edits, clicks>>

ReadPage == ReadFeeds \/ (\E a \in Artist : ReadArtist(a)) \/ SkipPage

Sweep == StartSweep \/ ReadPage \/ FinishSweep \/ FailSweep

Next == Web \/ DayPasses \/ Sweep \/ LoseSweep

\* The loop runs on and the days pass; nobody has to press anything, and how
\* soon a sweep's time is spent is anybody's guess.
Fairness == WF_vars(Sweep) /\ WF_vars(DayPasses)

Spec == Init /\ [][Next]_vars /\ Fairness

----------------------------------------------------------------------------

\* The tables and the sweep in flight keep their domains; only stored rows are
\* bound, dismissed or announced.
TypeOK ==
    /\ listed \in [Source -> SUBSET Event] /\ tags \subseteq Artist
    /\ leg \in [Event -> Concert \cup {NoConcert}]
    /\ bound \in [Event -> Concert \cup {NoConcert}]
    /\ dismissed \subseteq stored /\ told \in [Event -> Nat]
    /\ \A e \in Event \ stored : bound[e] = NoConcert /\ told[e] = 0
    /\ state.due \in BOOLEAN /\ state.asked \in BOOLEAN
    /\ state.cursor \in Artist \cup {AtHead}
    /\ job.phase \in {"idle", "reading"} /\ job.via \in [Event -> Source \cup {Unseen}]

\* A lead is announced at most once: not again when nine artists list it, when
\* it is dismissed, swept by hand, imported and deleted, or when a sweep fails.
AnnouncedOnce == \A e \in Event : told[e] <= 1

\* A sweep is eighty-six fetches from one site: it runs when a day has passed
\* or somebody asked since the last one began, and a sweep that raises does
\* not run again the next minute (scheduler/loop.py's re-stamp).
SweepsAreOwed == [][~Reading /\ job'.phase = "reading" => owed]_vars

Listing(e) == {s \in tags \cup {Feed} : e \in listed[s]}

\* However often sweeps run out of time, an event that stays on some page and
\* out of the catalogue becomes a lead: the cursor reaches every artist.
EveryEventSurfaces ==
    \A e \in Event :
        <>[](Listing(e) # {} /\ leg[e] = NoConcert) => <>(e \in stored)

\* A lead whose event the catalogue holds leaves the queue by itself, as long
\* as its page still lists it.
HeldLeadsClose ==
    \A e \in Event :
        <>[](Listing(e) # {} /\ leg[e] # NoConcert)
            => <>[](e \notin OpenLeads)

=============================================================================
