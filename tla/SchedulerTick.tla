---------------------------- MODULE SchedulerTick ---------------------------
(***************************************************************************)
(* The scheduler's minute tick (src/app/scheduler/loop.py) draining the    *)
(* two outboxes, reminder_queue and notifications, while the site and the  *)
(* bot keep writing to them.                                               *)
(*                                                                         *)
(* One tick: select the due reminders, send them concurrently, mark the    *)
(* answered ones, select the due notices, send and mark those, commit; then*)
(* log the batch and queue the admins' digest in a commit of its own.      *)
(* Everything before the commit is one database transaction that an        *)
(* exception or a crash takes back, while the DMs stay on the wire.        *)
(***************************************************************************)
EXTENDS Naturals, FiniteSets

CONSTANTS
    Reminder,    \* rows of reminder_queue, numbered in the order they fire
    Notice,      \* rows of notifications, numbered after them
    Digest,      \* the notices that are the admins' delivery digests
    User,
    owner,       \* whose row it is
    Limit,       \* rows one tick selects: Limit[1] reminders, Limit[2] notices
    MaxArms,     \* bound on how often rows are armed
    MaxHiccups   \* bound on failures, exceptions and crashes

Item == Reminder \cup Notice

ASSUME TickAssumption ==
    /\ Reminder \subseteq Nat /\ Notice \subseteq Nat
    /\ \A i \in Reminder, n \in Notice : i < n
    /\ Digest \subseteq Notice
    /\ owner \in [Item -> User]
    /\ Limit \in (Nat \ {0}) \X (Nat \ {0}) /\ MaxArms \in Nat /\ MaxHiccups \in Nat

VARIABLES
    row,      \* the committed tables: "none", "later", "due" or "sent"
    phase,    \* where the tick is
    got,      \* what became of this tick's sends
    marked,   \* rows marked sent in the open transaction
    gone,     \* rows removed after this tick selected them (history, never read)
    orphans,  \* sends that outlive the tick that started them
    blocked,  \* users.dm_blocked_since is set
    arms,     \* how often rows were armed
    dms,      \* how many DMs its owner received about a row since it was armed
    aborts,   \* ticks that ended without their commit
    hiccups   \* failures so far

vars == <<row, phase, got, marked, gone, orphans, blocked, arms, dms, aborts, hiccups>>

table == <<row, arms, dms>>
work  == <<phase, got, marked, orphans, blocked, aborts, hiccups>>
tick  == <<work, gone>>

State    == {"none", "later", "due", "sent"}
Pending  == {"later", "due"}
Answer   == {"ok", "forbidden"}          \* marks the row either way
NoSends  == [i \in Item |-> "idle"]
Waiting  == {i \in Item : got[i] = "wait"}
Answered == {i \in Item : got[i] \in Answer}
Tried    == {i \in Item : got[i] # "idle"}

Init ==
    /\ row = [i \in Item |-> "none"] /\ arms = 0
    /\ phase = "idle" /\ got = NoSends /\ marked = {} /\ gone = {} /\ orphans = {}
    /\ blocked = [u \in User |-> FALSE]
    /\ dms = [i \in Item |-> 0] /\ aborts = 0 /\ hiccups = 0

----------------------------------------------------------------------------
(* Web requests and presses, each one committed transaction.  SQLite has   *)
(* one writer: none of them commits while the tick holds uncommitted marks.*)

Writable == marked = {}

Put(i, st) ==
    /\ arms < MaxArms /\ arms' = arms + 1
    /\ row' = [row EXCEPT ![i] = st]
    /\ dms' = [dms EXCEPT ![i] = 0]

\* A rule plans a reminder.
Arm(i) ==
    /\ Writable /\ i \in Reminder
    /\ row[i] = "none"
    /\ \E st \in Pending : Put(i, st)
    /\ UNCHANGED tick

\* A notice is queued for now, or one of a broadcast behind its hold.
QueueNotice(i) ==
    /\ Writable /\ i \in Notice \ Digest
    /\ row[i] = "none"
    /\ \E st \in Pending : Put(i, st)
    /\ UNCHANGED tick

\* A delivered reminder is re-armed for a later moment.
Rearm(i) ==
    /\ Writable /\ i \in Reminder
    /\ row[i] = "sent"
    /\ Put(i, "later")
    /\ UNCHANGED tick

\* An edit moves the deadline: the unsent reminder is re-planned for later.
Postpone(i) ==
    /\ Writable /\ i \in Reminder /\ row[i] = "due"
    /\ row' = [row EXCEPT ![i] = "later"]
    /\ UNCHANGED <<arms, dms, tick>>

\* Re-planned away, cascaded with its rule, user or concert, or a cancelled
\* broadcast: only a row that is still unsent is deleted by name.
Remove(i) ==
    /\ Writable /\ row[i] \in Pending
    /\ row' = [row EXCEPT ![i] = "none"]
    /\ gone' = gone \cup ({i} \cap Tried)
    /\ UNCHANGED <<arms, dms, work>>

\* fire_at_utc or send_after_utc passes.
FallDue(i) ==
    /\ row[i] = "later"
    /\ row' = [row EXCEPT ![i] = "due"]
    /\ UNCHANGED <<arms, dms, tick>>

Web == \E i \in Item : Arm(i) \/ QueueNotice(i) \/ Rearm(i) \/ Postpone(i) \/ Remove(i) \/ FallDue(i)

----------------------------------------------------------------------------
(* The tick.                                                               *)

\* The `limit` oldest due rows of one outbox.
Batch(outbox, limit) ==
    LET due == {i \in outbox : row[i] = "due"}
    IN {i \in due : Cardinality({j \in due : j < i}) < limit}

DueReminders     == Batch(Reminder, Limit[1])
DueNotifications == Batch(Notice, Limit[2])

Sending(batch) == [i \in Item |-> IF i \in batch THEN "wait" ELSE got[i]]

Begin ==
    /\ phase = "idle"
    /\ phase' = "reminders"
    /\ got' = Sending(DueReminders)
    /\ UNCHANGED <<table, marked, gone, orphans, blocked, aborts, hiccups>>

\* Discord answers one of the concurrent sends: delivered, refused for good,
\* or an HTTP error.
Reply(i, o) ==
    /\ i \in Waiting
    /\ got' = [got EXCEPT ![i] = o]
    /\ dms' = [dms EXCEPT ![i] = IF o = "ok" THEN @ + 1 ELSE @]
    /\ IF o = "transient" THEN hiccups < MaxHiccups /\ hiccups' = hiccups + 1
                          ELSE UNCHANGED hiccups
    /\ UNCHANGED <<row, arms, phase, marked, gone, orphans, blocked, aborts>>

Replies == \E i \in Item, o \in Answer \cup {"transient"} : Reply(i, o)

\* mark_sent re-reads each row, so one that is gone is skipped and one that
\* was moved is marked all the same; then the notices are selected.
MarkReminders ==
    /\ phase = "reminders" /\ Waiting = {}
    /\ phase' = "notices"
    /\ marked' = {i \in Answered : row[i] # "none"}
    /\ got' = Sending(DueNotifications)
    /\ UNCHANGED <<table, gone, orphans, blocked, aborts, hiccups>>

\* The notices are the selected objects themselves: marking one whose row was
\* deleted meanwhile raises.
Stale == \E i \in Answered \cap Notice : row[i] = "none"

\* The answers about a user's rows; the last one in the order the results are
\* read decides the flag.
AnswersTo(u) == {i \in Answered : owner[i] = u}

BlockedAfter ==
    {b \in [User -> BOOLEAN] : \A u \in User :
        IF AnswersTo(u) = {} THEN b[u] = blocked[u]
        ELSE \E i \in AnswersTo(u) : /\ \A j \in AnswersTo(u) : j <= i
                                     /\ b[u] = (got[i] = "forbidden")}

\* Mutant: every notice that was tried is marked.
CommitTried ==
    /\ phase = "notices" /\ Waiting = {} /\ ~Stale
    /\ phase' = "log"
    /\ row' = [i \in Item |-> IF i \in marked \cup (Tried \cap Notice) THEN "sent" ELSE row[i]]
    /\ blocked' \in BlockedAfter
    /\ marked' = {}
    /\ UNCHANGED <<got, gone, arms, orphans, dms, aborts, hiccups>>

Commit ==
    /\ phase = "notices" /\ Waiting = {} /\ ~Stale
    /\ phase' = "log"
    /\ row' = [i \in Item |-> IF i \in marked \cup (Answered \cap Notice) THEN "sent" ELSE row[i]]
    /\ blocked' \in BlockedAfter
    /\ marked' = {}
    /\ UNCHANGED <<got, gone, arms, orphans, dms, aborts, hiccups>>

Finish == phase' = "idle" /\ got' = NoSends /\ marked' = {} /\ gone' = {}

\* The batch is logged, digests left out; what was logged is reported to the
\* admins by a digest queued for the next tick.
News == Tried \ Digest

QueueDigest ==
    IF News = {} \/ arms = MaxArms \/ \A g \in Digest : row[g] \in Pending
    THEN UNCHANGED table
    ELSE \E g \in Digest : row[g] \notin Pending /\ Put(g, "due")

Log ==
    /\ phase = "log"
    /\ QueueDigest /\ Finish
    /\ UNCHANGED <<orphans, blocked, aborts, hiccups>>

----------------------------------------------------------------------------
(* What goes wrong.                                                        *)

Hiccup == hiccups < MaxHiccups /\ hiccups' = hiccups + 1

\* Mutant: the log shares the delivery's transaction and takes it back.
LogFailsDelivery ==
    /\ phase = "log" /\ Hiccup /\ Finish
    /\ row' = [i \in Item |-> IF i \in Answered /\ row[i] = "sent" THEN "due" ELSE row[i]]
    /\ UNCHANGED <<arms, dms, orphans, blocked, aborts>>

\* The log's own transaction fails and is rolled back; delivery is done.
LogFails ==
    /\ phase = "log" /\ Hiccup /\ Finish
    /\ UNCHANGED <<table, orphans, blocked, aborts>>

\* Mutant: nothing catches the exception and the loop ends.
LoopEnds ==
    /\ phase' = "ended" /\ got' = NoSends /\ marked' = {} /\ gone' = {} /\ aborts' = aborts + 1
    /\ UNCHANGED <<table, blocked>>

\* The session closes without a commit.
RollBack ==
    /\ Finish /\ aborts' = aborts + 1
    /\ UNCHANGED <<table, blocked>>

\* A send raises something that is not an HTTP error: gather propagates it
\* at once and leaves the other sends running.
SendRaises ==
    /\ Hiccup /\ \E i \in Waiting : orphans' = orphans \cup (Waiting \ {i})
    /\ RollBack

\* The transaction raises on a notice that was deleted under it.
MarkRaises ==
    /\ phase = "notices" /\ Waiting = {} /\ Stale
    /\ RollBack
    /\ UNCHANGED <<orphans, hiccups>>

OrphanReply ==
    \E i \in orphans :
        /\ orphans' = orphans \ {i}
        /\ \E n \in {0, 1} : dms' = [dms EXCEPT ![i] = @ + n]
        /\ UNCHANGED <<row, arms, phase, got, marked, gone, blocked, aborts, hiccups>>

\* The process dies; its sends that were not answered never will be.
Crash ==
    /\ phase # "idle" /\ Hiccup
    /\ orphans' = {}
    /\ Finish
    /\ aborts' = IF phase = "log" THEN aborts ELSE aborts + 1
    /\ UNCHANGED <<table, blocked>>

TickStep == Begin \/ MarkReminders \/ Commit \/ MarkRaises \/ Log

Next == Web \/ TickStep \/ Replies \/ OrphanReply \/ LogFails \/ SendRaises \/ Crash

\* The loop runs a tick every minute and Discord answers every send; web
\* requests and failures may or may not happen.
Fairness == WF_vars(TickStep) /\ WF_vars(Replies)

Spec == Init /\ [][Next]_vars /\ Fairness

----------------------------------------------------------------------------

\* The tables, the open transaction and the counters keep their domains; the
\* transaction never holds a mark for a reminder Discord has not answered.
TypeOK ==
    /\ row \in [Item -> State] /\ phase \in {"idle", "reminders", "notices", "log"}
    /\ got \in [Item -> {"idle", "wait", "transient"} \cup Answer]
    /\ marked \subseteq Reminder \cap Answered /\ gone \subseteq Tried /\ orphans \subseteq Item
    /\ blocked \in [User -> BOOLEAN]
    /\ arms \in Nat /\ dms \in [Item -> Nat] /\ aborts \in Nat /\ hiccups \in Nat

OutboxRow    == [i \in Item |-> IF row[i] \in Pending THEN "pending" ELSE row[i]]
FinalAnswers == [i \in Item |-> IF got[i] \in Answer THEN got[i] ELSE "none"]

Promise == INSTANCE Outbox WITH row <- OutboxRow, batch <- Tried, heard <- FinalAnswers

\* The tick keeps the outbox's promise (module Outbox): however sends, edits,
\* failures and crashes interleave, a row is settled only on Discord's final
\* answer of that tick and with all other answers or none, the "your DMs are
\* blocked" banner has such an answer behind it, and a digest is never about
\* digests alone, which would queue one a minute for ever.
KeepsThePromise == Promise!Spec

\* Nobody is told twice unless a tick lost its transaction: DMs about a row
\* never outnumber its armings and the ticks aborted before their commit.  In
\* particular a failing delivery log, or a crash after the commit, costs none.
DuplicatesOnlyByAbort ==
    \A i \in Item : dms[i] <= 1 + aborts

\* Every due row is delivered or withdrawn in the end, behind any batch limit
\* and after any finite number of failures.
Drained ==
    \A i \in Item : []<>(row[i] # "due")
=============================================================================
