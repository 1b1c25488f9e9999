----------------------------- MODULE RoundWatch -----------------------------
(***************************************************************************)
(* Round watch for one concert: the scheduler's quiet-ladder pass          *)
(* (src/app/db/quiet_ladders.py), the daily round poll of its official     *)
(* page (src/app/round_poll.py, src/app/db/round_proposals.py) and the     *)
(* admins who review what the poll proposes                                *)
(* (src/app/web/routes/quiet_ladders.py), while an editor saves the        *)
(* concert.                                                                *)
(*                                                                         *)
(* The clock counts days.  A round is its key (label and opening minute)   *)
(* and `ends`, one value for its other three deadlines, which the code     *)
(* only ever compares together.                                            *)
(***************************************************************************)
EXTENDS Integers, Sequences, FiniteSets

CONSTANTS
    Key,          \* dedupe keys of the rounds the page may list
    label,        \* the label in a key; the other half is the opening time
    opens,
    EndTime,      \* what the other deadlines may be
    FirstRound,   \* the round the concert was created with
    Press,        \* requests of admins that can be in flight
    ShowDay,      \* the last performance
    MaxTime,      \* bound on the clock
    MaxRounds,    \* bound on the concert's rounds
    MaxPage,      \* bound on the rounds read off one page
    MaxEvents     \* bound on saves, Checked presses and failed passes

HeldRound == [key: Key, ends: EndTime]

ASSUME WatchAssumption ==
    /\ opens \in [Key -> Int] /\ EndTime \subseteq Int
    /\ FirstRound \in HeldRound /\ Press \subseteq Nat
    /\ {ShowDay, MaxTime, MaxRounds, MaxPage, MaxEvents} \subseteq Nat

VARIABLES
    now,       \* the clock
    live,      \* some leg is not cancelled
    held,      \* the concert's rounds, oldest first
    prop,      \* round_proposals: the row of each key
    stamped,   \* concerts.quiet_since_utc is set
    checked,   \* concerts.ladder_rechecked_at_utc is set
    scan,      \* what the quiet-ladder pass has loaded and not yet written
    polled,    \* the poll's daily clock has been stamped today
    press,     \* requests between their checks and their write
    \* history
    notices,   \* quiet-ladder notices queued
    left,      \* the ladder was not quiet at some time since the last notice
    news,      \* how many digests reported the key as new or changed
    asked,     \* the date the poll last read of a round the concert does not
               \* hold that way, while nobody has answered its proposal since
    races,     \* applies written after somebody else's commit
    edits, hiccups

concert  == <<live, held>>
spell    == <<stamped, checked, notices>>
poll     == <<polled, news, asked>>
bounds   == <<edits, hiccups>>
vars == <<now, live, held, prop, stamped, checked, scan, polled, press,
          notices, left, news, asked, races, edits, hiccups>>

Nothing  == [key |-> "none"]
NoRow    == [ends |-> "none"]
Row      == [ends: EndTime, applied: BOOLEAN, dismissed: BOOLEAN]
NoScan   == [quiet |-> "none"]
Idle     == [kind |-> "idle"]

Init ==
    /\ now = 0 /\ live = TRUE
    /\ held = <<FirstRound>>
    /\ prop = [k \in Key |-> NoRow]
    /\ stamped = FALSE /\ checked = FALSE /\ scan = NoScan
    /\ polled = FALSE
    /\ press = [p \in Press |-> Idle]
    /\ notices = 0 /\ left = TRUE /\ news = [k \in Key |-> 0]
    /\ asked = [k \in Key |-> {}] /\ races = 0
    /\ edits = 0 /\ hiccups = 0

----------------------------------------------------------------------------
(* The quiet-ladder pass.                                                  *)

\* is_quiet: still to be performed, and no round has a moment ahead of it.
Quiet ==
    /\ live /\ ShowDay > now
    /\ \A i \in DOMAIN held : opens[held[i].key] <= now /\ held[i].ends <= now

\* Every tick loads the concert ...
Scan ==
    /\ scan = NoScan
    /\ scan' = [quiet |-> Quiet, stamped |-> stamped, checked |-> checked]
    /\ UNCHANGED <<now, concert, prop, spell, poll, press, races, bounds>>

Quieted == scan.quiet /\ ~scan.stamped
Ended   == ~scan.quiet /\ scan.stamped

\* Mutant: every pass that finds it quiet announces it.
ReconcileLoudly ==
    /\ scan # NoScan /\ scan' = NoScan
    /\ stamped' = ((stamped \/ Quieted) /\ ~Ended)
    /\ checked' = (checked /\ ~(Ended /\ scan.checked))
    /\ notices' = notices + (IF scan.quiet THEN 1 ELSE 0)
    /\ UNCHANGED <<now, concert, prop, poll, press, races, bounds>>

\* Mutant: a spell that ended keeps its stamp.
ReconcileForgetsEnd ==
    /\ scan # NoScan /\ scan' = NoScan
    /\ stamped' = (stamped \/ Quieted)
    /\ checked' = (checked /\ ~(Ended /\ scan.checked))
    /\ notices' = notices + (IF Quieted THEN 1 ELSE 0)
    /\ UNCHANGED <<now, concert, prop, poll, press, races, bounds>>

\* ... and commits its stamps with the notice, from what it loaded; the ORM
\* writes only the columns that differ from it.
Reconcile ==
    /\ scan # NoScan /\ scan' = NoScan
    /\ stamped' = ((stamped \/ Quieted) /\ ~Ended)
    /\ checked' = (checked /\ ~(Ended /\ scan.checked))
    /\ notices' = notices + (IF Quieted THEN 1 ELSE 0)
    /\ UNCHANGED <<now, concert, prop, poll, press, races, bounds>>

Hiccup == edits + hiccups < MaxEvents /\ hiccups' = hiccups + 1 /\ UNCHANGED edits

ReconcileFails ==
    /\ scan # NoScan /\ scan' = NoScan
    /\ Hiccup
    /\ UNCHANGED <<now, concert, prop, spell, poll, press, races>>

\* The admin's "Checked" button, on whatever page is still open.
MarkChecked ==
    /\ edits + hiccups < MaxEvents /\ edits' = edits + 1
    /\ checked' = TRUE
    /\ UNCHANGED <<now, concert, prop, stamped, notices, scan, poll, press, races, hiccups>>

----------------------------------------------------------------------------
(* The round poll.                                                         *)

\* What may be read off the page and believed, in the page's order.
Reply == UNION {[1..n -> HeldRound] : n \in 0..MaxPage}

\* held_rounds_by_key: of two rounds with one key the last one loaded counts.
HeldBy(k) ==
    LET S == {i \in DOMAIN held : held[i].key = k}
    IN IF S = {} THEN Nothing ELSE held[CHOOSE i \in S : \A j \in S : j <= i]

\* "new", "changed" or "resolved": a deadline against the held round's.
Verdict(k, ends) ==
    IF HeldBy(k) = Nothing THEN "new"
    ELSE IF HeldBy(k).ends # ends THEN "changed" ELSE "resolved"

Pending(row) == row # NoRow /\ ~row.applied /\ ~row.dismissed

\* The first reading of a key in its bucket is the one kept.
FirstIn(reply, bucket) ==
    {reply[i] : i \in {j \in DOMAIN reply :
        /\ Verdict(reply[j].key, reply[j].ends) = bucket
        /\ \A h \in 1..(j - 1) : reply[h].key = reply[j].key =>
               Verdict(reply[h].key, reply[h].ends) # bucket}}

\* A round the concert holds as it was read is neither new nor changed.
Classified(reply) == FirstIn(reply, "new") \cup FirstIn(reply, "changed")

\* Mutant: a dismissed key is stored again.
Unfiltered(reply) == Classified(reply)

\* What the poll stores of a reply: neither held as it is, nor dismissed.
Candidates(reply) ==
    {f \in Classified(reply) :
        prop[f.key] = NoRow \/ ~prop[f.key].dismissed}

Reads(reply) == IF Quiet THEN Candidates(reply) ELSE {}

\* Mutant: the dates are set where the row is inserted.
UpsertedOnce(k, stored) ==
    IF prop[k] = NoRow /\ \E f \in stored : f.key = k
    THEN [ends |-> (CHOOSE g \in stored : g.key = k).ends, applied |-> FALSE, dismissed |-> FALSE]
    ELSE prop[k]

\* Today's reading wins; the two stamps are never touched.
Upserted(k, stored) ==
    IF \E f \in stored : f.key = k
    THEN LET f == CHOOSE g \in stored : g.key = k
         IN IF prop[k] = NoRow THEN [ends |-> f.ends, applied |-> FALSE, dismissed |-> FALSE]
                               ELSE [prop[k] EXCEPT !.ends = f.ends]
    ELSE prop[k]

\* The rows the digest reports as new or changed: the ones the run created.
Created(stored) == {f.key : f \in {g \in stored : prop[g.key] = NoRow}}

\* What the reply says that nobody has answered: not of a refused round.
Heard(k, reply) ==
    LET dates == {f.ends : f \in {g \in Classified(reply) : g.key = k}}
    IN IF Quiet /\ dates # {} /\ (prop[k] = NoRow \/ ~prop[k].dismissed)
       THEN dates ELSE asked[k]

\* One run: the page is read, the proposals, the day's stamp and the digest
\* are committed together.  The run holds SQLite's write lock throughout.
Poll(reply) ==
    LET stored == Reads(reply)
    IN /\ ~polled /\ polled' = TRUE
       /\ prop' = [k \in Key |-> Upserted(k, stored)]
       /\ news' = [k \in Key |-> news[k] + (IF k \in Created(stored) THEN 1 ELSE 0)]
       /\ asked' = [k \in Key |-> Heard(k, reply)]
       /\ UNCHANGED <<now, concert, spell, scan, press, races, bounds>>

\* Mutant: a failed run keeps the rows and loses the digest.
PollFailsLate ==
    /\ ~polled /\ Hiccup
    /\ polled' = TRUE
    /\ \E reply \in Reply : prop' = [k \in Key |-> Upserted(k, Reads(reply))]
    /\ UNCHANGED <<now, concert, spell, news, asked, scan, press, races>>

\* The run raises and is rolled back; the day is stamped again, or not.
PollFails ==
    /\ ~polled /\ Hiccup
    /\ polled' \in BOOLEAN
    /\ UNCHANGED <<now, concert, prop, spell, news, asked, scan, press, races>>

----------------------------------------------------------------------------
(* The review page.  Both posts read, then write.                          *)

\* A request takes the first place that is free.
NextPress == {p \in Press : press[p] = Idle /\ \A q \in Press : q < p => press[q] # Idle}

Disturbed(q) == [p \in Press |-> IF q[p] = Idle THEN Idle ELSE [q[p] EXCEPT !.clean = FALSE]]

\* apply_round_proposal up to its two refusals: `k` is the proposal, `j` and
\* `ends` the round the admin's form describes, its opening corrected or not.
LoadApply(p, k, j, ends) ==
    /\ p \in NextPress
    /\ Pending(prop[k]) /\ Verdict(k, prop[k].ends) = "new"
    /\ label[j] = label[k] /\ HeldBy(j) = Nothing
    /\ press' = [press EXCEPT ![p] =
                    [kind |-> "apply", row |-> k, key |-> j, ends |-> ends, clean |-> TRUE]]
    /\ UNCHANGED <<now, concert, prop, spell, scan, poll, races, bounds>>

\* Either stamp takes the proposal out of the queue.
MarkProposalApplied(k)   == prop' = [prop EXCEPT ![k].applied = TRUE]
MarkProposalDismissed(k) == prop' = [prop EXCEPT ![k].dismissed = TRUE]
Answered(k)              == asked' = [asked EXCEPT ![k] = {}]

\* The round, the stamp and sync_concert, in one commit.
WriteApply(p) ==
    /\ press[p].kind = "apply"
    /\ Len(held) < MaxRounds
    /\ held' = Append(held, [key |-> press[p].key, ends |-> press[p].ends])
    /\ MarkProposalApplied(press[p].row) /\ Answered(press[p].row)
    /\ press' = [Disturbed(press) EXCEPT ![p] = Idle]
    /\ races' = races + (IF press[p].clean THEN 0 ELSE 1)
    /\ UNCHANGED <<now, live, spell, scan, polled, news, bounds>>

LoadDismiss(p, k) ==
    /\ p \in NextPress
    /\ Pending(prop[k])
    /\ press' = [press EXCEPT ![p] = [kind |-> "dismiss", row |-> k, clean |-> TRUE]]
    /\ UNCHANGED <<now, concert, prop, spell, scan, poll, races, bounds>>

WriteDismiss(p) ==
    /\ press[p].kind = "dismiss"
    /\ MarkProposalDismissed(press[p].row) /\ Answered(press[p].row)
    /\ press' = [Disturbed(press) EXCEPT ![p] = Idle]
    /\ UNCHANGED <<now, concert, spell, scan, polled, news, races, bounds>>

Review ==
    \E p \in Press :
        \/ \E k, j \in Key, ends \in EndTime : LoadApply(p, k, j, ends)
        \/ \E k \in Key : LoadDismiss(p, k)
        \/ WriteApply(p) \/ WriteDismiss(p)

----------------------------------------------------------------------------
(* The editor and the clock.                                               *)

\* A save retypes a round, drops it or adds one, or cancels or restores legs.
EditConcert ==
    /\ edits + hiccups < MaxEvents /\ edits' = edits + 1
    /\ \/ \E i \in DOMAIN held, r \in HeldRound : held' = [held EXCEPT ![i] = r]
       \/ \E i \in DOMAIN held : held' = SubSeq(held, 1, i - 1) \o SubSeq(held, i + 1, Len(held))
       \/ Len(held) < MaxRounds /\ \E r \in HeldRound : held' = Append(held, r)
       \/ UNCHANGED held
    /\ live' \in (IF held' = held THEN {~live} ELSE {live})
    /\ press' = Disturbed(press)
    /\ UNCHANGED <<now, prop, spell, scan, poll, races, hiccups>>

\* A day passes: the poll is due again.
Wait ==
    /\ now < MaxTime /\ now' = now + 1
    /\ polled' = FALSE
    /\ UNCHANGED <<concert, prop, spell, news, asked, scan, press, races, bounds>>

Pass == Scan \/ Reconcile

Step ==
    \/ Pass \/ ReconcileFails
    \/ PollFails \/ \E reply \in Reply : Poll(reply)
    \/ MarkChecked \/ Review \/ EditConcert \/ Wait

\* `left` watches the ladder between notices.
Watched == left' = (~Quiet' \/ (left /\ notices' = notices))

Next == Step /\ Watched

\* The tick runs every minute.
Spec == Init /\ [][Next]_vars /\ WF_vars(Pass /\ Watched)

----------------------------------------------------------------------------

\* The rows, the stamps, the open requests and the history keep their domains.
TypeOK ==
    /\ now \in Nat /\ live \in BOOLEAN
    /\ held \in Seq(HeldRound)
    /\ prop \in [Key -> Row \cup {NoRow}]
    /\ {stamped, checked, polled, left} \subseteq BOOLEAN
    /\ scan \in [quiet: BOOLEAN, stamped: BOOLEAN, checked: BOOLEAN] \cup {NoScan}
    /\ \A p \in Press : press[p] = Idle \/ press[p].row \in Key
    /\ news \in [Key -> Nat] /\ asked \in [Key -> SUBSET EndTime]
    /\ {notices, races, edits, hiccups} \subseteq Nat

\* The admins are told once per quiet spell: between two notices the ladder was
\* not quiet at some time, whatever was saved between a pass's read and its
\* write and however often passes fail.
OneNoticePerSpell == [][notices' > notices => left]_vars

\* And they are told: in the end a quiet ladder is stamped, and one that has a
\* moment ahead again is not.
SpellsAreAnnounced == []<>(stamped <=> Quiet)

Copies(k) == Cardinality({i \in DOMAIN held : held[i].key = k})

\* A proposal is handled once.  It is new (or a change) in exactly one digest,
\* the one committed with its row: a failed run neither reports rows it lost
\* nor keeps rows it never reported.  And an approval puts no second copy of a
\* round on the concert, a corrected opening time included, unless another
\* commit came between its checks and its write.
HandledOnce ==
    \A k \in Key : /\ news[k] = IF prop[k] = NoRow THEN 0 ELSE 1
                   /\ Copies(k) <= 1 + races + edits

\* What the page says waits for an answer: a date the poll read of a round the
\* concert does not hold that way stays in the round's proposal, which nobody
\* has refused, until an admin answers that proposal or a later run reads
\* another date there.  No save, failed run, other day or other proposal's
\* answer loses it or puts an older date back.
\* Of a round whose proposal had been approved before, it says no more than
\* that the row has the date: MovedDatesWait is about those.
ReadingsWait ==
    \A k \in Key : \A d \in asked[k] :
        prop[k] # NoRow /\ prop[k].ends = d /\ ~prop[k].dismissed

\* A moved date is surfaced, as round_poll.py:222 says of a round the concert
\* already holds: it waits on the review page, in a proposal that is still
\* pending.
MovedDatesWait ==
    \A k \in Key : \A d \in asked[k] :
        HeldBy(k) # Nothing => Pending(prop[k]) /\ prop[k].ends = d

\* A dismissal sticks: the row is never offered, rewritten or cleared again.
\* Only an approval that had passed its checks before the dismissal was
\* committed can still touch it.
DismissalSticks ==
    [][\A k \in Key : prop[k] # NoRow /\ prop[k].dismissed =>
          \/ prop'[k] = prop[k]
          \/ /\ prop'[k] = [prop[k] EXCEPT !.applied = TRUE]
             /\ \E p \in Press : press[p].kind = "apply" /\ press[p].row = k
                                  /\ ~press[p].clean]_vars

=============================================================================
