---------------------------- MODULE HealthAlerts ----------------------------
(***************************************************************************)
(* One alerting check of the health registry (app/ops.py), the disk: every *)
(* fifth tick reads it, folds the reading into the stored state            *)
(* (should_alert, domain/health.py) and may queue a DM to the admins       *)
(* (evaluate_and_alert).  A reading counts once a second one agrees; a     *)
(* confirmed fault is repeated every day.  The disk trips below one mark   *)
(* and, once the stored verdict is low, clears above a higher one.         *)
(***************************************************************************)
EXTENDS Naturals

CONSTANT RealertAfter   \* passes in a day: the nag's period

ASSUME RealertAssumption == RealertAfter \in Nat \ {0}

VARIABLES
    level,    \* free space: "low", "between" the marks or "fine"
    bot,      \* a Discord token is configured
    stored,   \* the row of ops_check_state: ok, pending_ok, age of last_notified_at
    seen,     \* the last reading a pass committed
    told      \* the admins' last DM about the check, and how many they got (mod 2)

vars == <<level, bot, stored, seen, told>>

Verdict == {"none", "ok", "failing"}
Never   == RealertAfter + 1            \* nobody was notified yet
Unread  == [ok |-> "none", pending |-> "none", notified |-> Never]

Init ==
    /\ level \in {"low", "between", "fine"} /\ bot \in BOOLEAN
    /\ stored = Unread /\ seen = "none"
    /\ told = [last |-> "none", parity |-> 0]

----------------------------------------------------------------------------

\* disk_is_low, with the stored verdict as currently_low.
DiskIsLow == level = "low" \/ (level = "between" /\ stored.ok = "failing")
Reading   == IF DiskIsLow THEN "failing" ELSE "ok"

\* The nag's clock stands at RealertAfter when a day has passed.
Age(n) == IF n >= RealertAfter THEN n ELSE n + 1

Decision(notify, row) == [notify |-> notify, row |-> row]

\* Mutant: a confirmed fault is announced once.
SteadyOnce(s, reading) == Decision(FALSE, [s EXCEPT !.pending = "none"])

\* Mutant: a reading that agrees does not clear the one seen before it.
SteadyKeepsPending(s, reading) ==
    LET due == reading = "failing" /\ s.notified >= RealertAfter
    IN Decision(due, [s EXCEPT !.notified = IF due THEN 0 ELSE @])

\* The reading agrees with the confirmed verdict: nag when a day has passed.
Steady(s, reading) ==
    LET due == reading = "failing" /\ s.notified >= RealertAfter
    IN Decision(due, [ok       |-> s.ok,
                      pending  |-> "none",
                      notified |-> IF due THEN 0 ELSE s.notified])

\* Only the very first reading is, and only if it is healthy.
Adopted(s, reading) == s.ok = "none" /\ reading = "ok"

\* The reading contradicts the verdict: it takes a second one to move it.
Confirm(s, reading) ==
    IF s.pending = reading
    THEN Decision(TRUE, [ok |-> reading, pending |-> "none", notified |-> 0])
    ELSE Decision(FALSE, [s EXCEPT !.pending = reading])

ShouldAlert(s, reading) ==
    IF s.ok = reading THEN Steady(s, reading)
    ELSE IF Adopted(s, reading) THEN Decision(FALSE, [Unread EXCEPT !.ok = "ok"])
    ELSE Confirm(s, reading)

\* evaluate_and_alert: without a bot the verdict is stored, the DM is not
\* queued and the nag's clock is not reset.
Pass ==
    LET aged == [stored EXCEPT !.notified = Age(@)]
        next == ShouldAlert(aged, Reading)
    IN /\ stored' = IF next.notify /\ ~bot
                    THEN [next.row EXCEPT !.notified = aged.notified] ELSE next.row
       /\ told' = IF next.notify /\ bot
                  THEN [last |-> Reading, parity |-> 1 - told.parity] ELSE told
       /\ seen' = Reading
       /\ UNCHANGED <<level, bot>>

\* A pass that raises is rolled back and only time goes on; the prune that
\* follows has a transaction of its own.
PassFails ==
    /\ stored' = [stored EXCEPT !.notified = Age(@)]
    /\ UNCHANGED <<level, bot, seen, told>>

DiskChanges ==
    /\ level' \in {"low", "between", "fine"} \ {level}
    /\ UNCHANGED <<bot, stored, seen, told>>

\* The process restarts with or without a token; the state is in the database.
Restart == bot' = ~bot /\ UNCHANGED <<level, stored, seen, told>>

Next == Pass \/ PassFails \/ DiskChanges \/ Restart

\* The tick runs every minute, and passes do not fail for ever.
Spec == Init /\ [][Next]_vars /\ WF_vars(Pass)

----------------------------------------------------------------------------

\* The stored row keeps its domains; a pending reading contradicts the verdict.
TypeOK ==
    /\ level \in {"low", "between", "fine"} /\ bot \in BOOLEAN
    /\ stored \in [ok : Verdict, pending : Verdict, notified : 0 .. Never]
    /\ stored.pending = "none" \/ stored.pending # stored.ok
    /\ seen \in Verdict /\ told \in [last : Verdict, parity : {0, 1}]

\* No single reading pages anyone: what the admins are told changes only with
\* the second of two readings in a row, or repeats a verdict so confirmed.
NeverOnOneReading ==
    [][told'.last # told.last => Reading = seen \/ stored.ok = Reading]_vars

\* A fault that lasts is paged, and paged again every day: whatever passes
\* fail, whatever flapped before it, and also when the bot was switched on late.
\* The end of a confirmed fault is told.
ChangesAreTold ==
    /\ [](  [](level = "low" /\ bot)
        => []<>(told.parity = 0) /\ []<>(told.parity = 1))
    /\ [](   stored.ok = "failing" /\ [](level = "fine" /\ bot)
         => <>(stored.ok = "ok" /\ told.last = "ok"))

=============================================================================
