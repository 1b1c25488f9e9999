------------------------- MODULE SchedulerTickProofs ------------------------
(***************************************************************************)
(* Proofs about the scheduler's tick, for any number of rows and users, any*)
(* batch limits and any number of failures: it keeps the outbox's promise  *)
(* (module Outbox), and only an aborted tick sends anything twice.         *)
(***************************************************************************)
EXTENDS SchedulerTick, TLAPS

\* What the two halves of a tick have sent, and what the open transaction
\* holds: a reminder is answered before a notice is sent, marks exist only
\* between the two selections and the commit, and a sent row that is missing
\* now was removed after it was selected.
WorkInv ==
    /\ phase = "idle" => Tried = {}
    /\ phase \in {"idle", "reminders"} => Tried \subseteq Reminder
    /\ phase = "notices" => Waiting \subseteq Notice
    /\ phase = "log" => Waiting = {}
    /\ phase # "notices" => marked = {}
    /\ \A i \in marked : row[i] # "none"
    /\ \A i \in Tried : row[i] = "none" => i \in gone
    /\ phase = "notices" => (Answered \cap Reminder) \ marked \subseteq gone

\* DMs about a row since it was armed, with the one that may still go out.
Spent(i) == dms[i] + IF i \in orphans THEN 1 ELSE 0

\* A row that can still be sent has cost no more DMs than ticks were aborted;
\* the answered rows of a tick may have cost one more, until they are marked.
BudgetInv ==
    /\ orphans # {} => aborts >= 1
    /\ \A i \in Item :
          /\ Spent(i) <= aborts + 1
          /\ got[i] = "wait" => Spent(i) <= aborts
          /\ got[i] \in {"idle", "transient"} /\ row[i] \in Pending => Spent(i) <= aborts
          /\ phase = "notices" /\ i \in Reminder \ marked /\ row[i] \in Pending
                /\ got[i] \in Answer => Spent(i) <= aborts
          /\ phase = "log" /\ row[i] \in Pending => Spent(i) <= aborts

TickInv == TypeOK /\ WorkInv /\ BudgetInv

----------------------------------------------------------------------------
(* Reminders and notices are different rows.                               *)

\* A row is a reminder or a notice, never both.
LEMMA Disjoint == Reminder \cap Notice = {} /\ Item \subseteq Nat
  BY TickAssumption DEF Item

\* A batch holds due rows only, however the tick orders and cuts it.
LEMMA BatchIsDue ==
    ASSUME NEW outbox \in SUBSET Item, NEW limit
    PROVE  Batch(outbox, limit) \subseteq {i \in outbox : row[i] = "due"}
  BY DEF Batch

\* Nothing is under way, and nothing was sent, at the start.
LEMMA InitInv == Init => TickInv
  <1> SUFFICES ASSUME Init PROVE TickInv
    OBVIOUS
  <1> USE DEF Init, NoSends
  <1>1. TypeOK
    BY DEF TypeOK, State, Answer, Answered, Tried
  <1>2. WorkInv
    BY DEF WorkInv, Tried, Waiting
  <1>3. BudgetInv
    BY DEF BudgetInv, Spent, Pending
  <1> QED BY <1>1, <1>2, <1>3 DEF TickInv

----------------------------------------------------------------------------
(* The writers.                                                            *)

\* What a committed write may do to the rows and their counts.
LEMMA PutInv ==
    ASSUME TickInv, NEW i \in Item, NEW st \in Pending, Writable, Put(i, st), UNCHANGED tick
    PROVE  TickInv'
  <1> USE DEF Pending
  <1>1. /\ arms' = arms + 1 /\ row' = [row EXCEPT ![i] = st] /\ dms' = [dms EXCEPT ![i] = 0]
        /\ phase' = phase /\ got' = got /\ marked' = marked /\ orphans' = orphans
        /\ blocked' = blocked /\ aborts' = aborts /\ hiccups' = hiccups /\ gone' = gone
        /\ marked = {}
    BY DEF Put, tick, work, Writable
  <1>2. TypeOK'
    BY <1>1 DEF TickInv, TypeOK, State, Tried, Answered
  <1>3. WorkInv'
    BY <1>1 DEF TickInv, TypeOK, WorkInv, Tried, Waiting, Answered, Answer, State
  <1>4. BudgetInv'
    BY <1>1 DEF TickInv, TypeOK, BudgetInv, Spent, State
  <1> QED BY <1>2, <1>3, <1>4 DEF TickInv

\* No committed write of the web or the bot breaks the invariant.
LEMMA WebInv ==
    ASSUME TickInv, NEW i \in Item,
           Arm(i) \/ QueueNotice(i) \/ Rearm(i) \/ Postpone(i) \/ Remove(i) \/ FallDue(i)
    PROVE  TickInv'
  <1>1. CASE Arm(i) \/ QueueNotice(i) \/ Rearm(i)
    BY <1>1, PutInv DEF Arm, QueueNotice, Rearm, Pending
  <1>2. ASSUME NEW st \in Pending, row[i] \in Pending, row' = [row EXCEPT ![i] = st],
               UNCHANGED <<arms, dms, tick>>
        PROVE  TickInv'
    <2> USE <1>2 DEF Pending, tick, work
    <2>1. TypeOK'
      BY DEF TickInv, TypeOK, State, Tried, Answered
    <2>2. WorkInv'
      BY DEF TickInv, TypeOK, WorkInv, Tried, Waiting, Answered, State
    <2>3. BudgetInv'
      BY DEF TickInv, TypeOK, BudgetInv, Spent, State
    <2> QED BY <2>1, <2>2, <2>3 DEF TickInv
  <1>3. CASE Postpone(i) \/ FallDue(i)
    BY <1>2, <1>3 DEF Postpone, FallDue, Pending
  <1>4. CASE Remove(i)
    <2> USE <1>4 DEF Remove, Writable, Pending, work
    <2>1. TypeOK'
      BY DEF TickInv, TypeOK, State, Tried, Answered
    <2>2. WorkInv'
      BY DEF TickInv, TypeOK, WorkInv, Tried, Waiting, Answered, State
    <2>3. BudgetInv'
      BY DEF TickInv, TypeOK, BudgetInv, Spent, State
    <2> QED BY <2>1, <2>2, <2>3 DEF TickInv
  <1> QED BY <1>1, <1>3, <1>4

----------------------------------------------------------------------------
(* The tick.                                                               *)

\* Selecting the due reminders: each of them was within its budget.
LEMMA BeginInv ==
    ASSUME TickInv, Begin
    PROVE  TickInv'
  <1> DEFINE B == DueReminders
  <1>1. B \subseteq Reminder /\ \A i \in B : row[i] = "due"
    BY BatchIsDue DEF DueReminders, Item
  <1> HIDE DEF B
  <1>2. /\ phase = "idle" /\ phase' = "reminders" /\ Tried = {} /\ marked = {}
        /\ got' = [i \in Item |-> IF i \in B THEN "wait" ELSE got[i]]
        /\ UNCHANGED <<row, arms, dms, marked, gone, orphans, blocked, aborts, hiccups>>
    BY DEF Begin, Sending, B, table, TickInv, WorkInv
  <1>3. \A i \in Item : got[i] = "idle"
    BY <1>2 DEF Tried
  <1>4. TypeOK'
    BY <1>1, <1>2, <1>3 DEF TickInv, TypeOK, Tried, Answered
  <1>5. WorkInv'
    BY <1>1, <1>2, <1>3 DEF TickInv, TypeOK, WorkInv, Tried, Waiting, Answered
  <1>6. BudgetInv'
    BY <1>1, <1>2, <1>3 DEF TickInv, TypeOK, BudgetInv, Spent, Pending, Answer
  <1> QED BY <1>4, <1>5, <1>6 DEF TickInv

\* The marks go on answered rows; the notices selected were within their budget.
LEMMA MarkRemindersInv ==
    ASSUME TickInv, MarkReminders
    PROVE  TickInv'
  <1> DEFINE B == DueNotifications
  <1>1. B \subseteq Notice /\ \A i \in B : row[i] = "due"
    BY BatchIsDue DEF DueNotifications, Item
  <1> HIDE DEF B
  <1>2. /\ phase = "reminders" /\ Waiting = {} /\ phase' = "notices"
        /\ marked' = {i \in Answered : row[i] # "none"}
        /\ got' = [i \in Item |-> IF i \in B THEN "wait" ELSE got[i]]
        /\ UNCHANGED <<row, arms, dms, gone, orphans, blocked, aborts, hiccups>>
    BY DEF MarkReminders, Sending, B, table
  <1>3. Tried \subseteq Reminder /\ B \cap Reminder = {} /\ B \subseteq Item
    BY <1>1, <1>2, Disjoint DEF TickInv, WorkInv, Item
  <1>4. Answered' = Answered /\ Waiting' = B /\ Tried' = Tried \cup B
    <2>1. \A i \in B : got[i] = "idle"
      BY <1>3 DEF Tried
    <2> QED BY <1>2, <1>3, <2>1 DEF Answered, Waiting, Tried, Answer
  <1>5. TypeOK'
    BY <1>1, <1>2, <1>3, <1>4 DEF TickInv, TypeOK, Tried, Answered, Answer
  <1>6. WorkInv'
    BY <1>1, <1>2, <1>3, <1>4 DEF TickInv, TypeOK, WorkInv, Tried, Answered, Answer
  <1>7. BudgetInv'
    <2>1. \A i \in B : Spent(i) <= aborts
      BY <1>1, <1>3 DEF TickInv, BudgetInv, Tried, Pending
    <2>2. \A i \in Item : got[i] # "wait"
      BY <1>2 DEF Waiting
    <2> QED BY <1>1, <1>2, <1>3, <2>1, <2>2
            DEF TickInv, TypeOK, BudgetInv, Spent, Pending, Answer, Answered
  <1> QED BY <1>5, <1>6, <1>7 DEF TickInv

\* One answer costs one DM at most, on a row that waited for it.
LEMMA ReplyInv ==
    ASSUME TickInv, NEW i \in Item, NEW o \in Answer \cup {"transient"}, Reply(i, o)
    PROVE  TickInv'
  <1>1. /\ got[i] = "wait" /\ got' = [got EXCEPT ![i] = o]
        /\ dms' = [dms EXCEPT ![i] = IF o = "ok" THEN @ + 1 ELSE @]
        /\ hiccups' \in {hiccups, hiccups + 1}
        /\ UNCHANGED <<row, arms, phase, marked, gone, orphans, blocked, aborts>>
    BY DEF Reply, Waiting
  <1>2. TypeOK'
    BY <1>1 DEF TickInv, TypeOK, Tried, Answered, Answer
  <1>3. WorkInv'
    BY <1>1, Disjoint DEF TickInv, TypeOK, WorkInv, Tried, Waiting, Answered, Answer
  <1>4. BudgetInv'
    BY <1>1, Disjoint DEF TickInv, TypeOK, WorkInv, BudgetInv, Spent, Pending, Answer, Waiting
  <1> QED BY <1>2, <1>3, <1>4 DEF TickInv

\* What the commit leaves to send again is what Discord did not answer.
LEMMA CommitInv ==
    ASSUME TickInv, Commit
    PROVE  TickInv'
  <1>1. /\ phase = "notices" /\ Waiting = {} /\ phase' = "log" /\ marked' = {}
        /\ row' = [i \in Item |-> IF i \in marked \cup (Answered \cap Notice) THEN "sent" ELSE row[i]]
        /\ blocked' \in [User -> BOOLEAN]
        /\ UNCHANGED <<got, gone, arms, orphans, dms, aborts, hiccups>>
    BY DEF Commit, BlockedAfter
  <1>2. TypeOK'
    BY <1>1 DEF TickInv, TypeOK, Tried, Answered, Answer, State
  <1>3. WorkInv'
    BY <1>1 DEF TickInv, TypeOK, WorkInv, Tried, Waiting
  <1>4. BudgetInv'
    <2>1. \A i \in Item : got[i] \in {"idle", "transient"} \cup Answer
      BY <1>1 DEF TickInv, TypeOK, Waiting, Answer
    <2>2. ASSUME NEW i \in Item, row'[i] \in Pending
          PROVE  row[i] = row'[i] /\ i \notin marked /\ (got[i] \in Answer => i \in Reminder)
      BY <1>1, <2>2 DEF Pending, Answered, Item
    <2>3. ASSUME NEW i \in Item, row'[i] \in Pending
          PROVE  Spent(i) <= aborts
      BY <1>1, <2>1, <2>2, <2>3 DEF TickInv, BudgetInv
    <2> QED BY <1>1, <2>1, <2>3 DEF TickInv, BudgetInv, Spent, Answer
  <1> QED BY <1>2, <1>3, <1>4 DEF TickInv

----------------------------------------------------------------------------
(* The end of a tick, good or bad.                                         *)

\* The batch is forgotten; what is left of the rows, the failures counted and
\* the sends still running keeps every row within its budget.
LEMMA FinishInv ==
    ASSUME TickInv, Finish, blocked' = blocked,
           row' \in [Item -> State], arms' \in Nat, dms' \in [Item -> Nat],
           aborts' \in Nat, hiccups' \in Nat, orphans' \subseteq Item,
           orphans' # {} => aborts' >= 1,
           \A i \in Item : Spent(i)' <= aborts' + 1,
           \A i \in Item : row'[i] \in Pending => Spent(i)' <= aborts'
    PROVE  TickInv'
  <1>1. phase' = "idle" /\ got' = NoSends /\ marked' = {} /\ gone' = {}
    BY DEF Finish
  <1>2. \A i \in Item : got'[i] = "idle"
    BY <1>1 DEF NoSends
  <1>3. TypeOK'
    BY <1>1, <1>2 DEF TickInv, TypeOK, Tried, Answered, NoSends
  <1>4. WorkInv'
    BY <1>1, <1>2 DEF WorkInv, Tried, Waiting
  <1>5. BudgetInv'
    BY <1>1, <1>2 DEF BudgetInv, Answer
  <1> QED BY <1>3, <1>4, <1>5 DEF TickInv

\* An aborted tick: one more abort, and some of its sends may be left running.
LEMMA AbortInv ==
    ASSUME TickInv, Finish, UNCHANGED <<row, arms, dms, blocked>>,
           aborts' = aborts + 1, hiccups' \in Nat,
           orphans' \subseteq orphans \cup Waiting
    PROVE  TickInv'
  <1>1. orphans' \subseteq Item
    BY DEF TickInv, TypeOK, Waiting
  <1>2. ASSUME NEW i \in Item
        PROVE  Spent(i)' <= aborts + 1
    BY DEF TickInv, TypeOK, BudgetInv, Spent, Waiting
  <1>3. aborts \in Nat
    BY DEF TickInv, TypeOK
  <1>4. \A i \in Item : Spent(i)' \in Nat
    BY DEF Spent, TickInv, TypeOK
  <1> QED
    <2>1. \A i \in Item : Spent(i)' <= aborts'
      BY <1>2
    <2>2. \A i \in Item : Spent(i)' <= aborts' + 1
      BY <1>3, <1>4, <2>1
    <2>3. /\ row' \in [Item -> State] /\ arms' \in Nat /\ dms' \in [Item -> Nat]
          /\ aborts' \in Nat /\ aborts' >= 1 /\ blocked' = blocked
      BY <1>3 DEF TickInv, TypeOK
    <2> QED BY FinishInv, <1>1, <2>1, <2>2, <2>3

\* The log, and the digest it may queue.
LEMMA LogInv ==
    ASSUME TickInv, phase = "log", Finish, blocked' = blocked, aborts' = aborts,
           hiccups' \in Nat, orphans' \subseteq orphans,
           UNCHANGED table \/ \E g \in Digest : Put(g, "due")
    PROVE  TickInv'
  <1>1. ASSUME NEW i \in Item
        PROVE  Spent(i)' <= aborts + 1 /\ (row'[i] \in Pending => Spent(i)' <= aborts)
    BY DEF TickInv, TypeOK, BudgetInv, Spent, Pending, Put, table, State
  <1>2. row' \in [Item -> State] /\ arms' \in Nat /\ dms' \in [Item -> Nat]
    BY DEF TickInv, TypeOK, Put, table, State
  <1>3. /\ aborts' \in Nat /\ orphans' \subseteq Item /\ (orphans' # {} => aborts' >= 1)
        /\ \A i \in Item : Spent(i)' <= aborts' + 1
        /\ \A i \in Item : row'[i] \in Pending => Spent(i)' <= aborts'
    BY <1>1 DEF TickInv, TypeOK, BudgetInv
  <1> QED BY <1>2, <1>3, FinishInv

\* A send an aborted tick left running may still deliver, once.
LEMMA OrphanInv ==
    ASSUME TickInv, OrphanReply
    PROVE  TickInv'
  <1>1. PICK i \in orphans, n \in {0, 1} :
           /\ orphans' = orphans \ {i} /\ dms' = [dms EXCEPT ![i] = @ + n]
           /\ UNCHANGED <<row, arms, phase, got, marked, gone, blocked, aborts, hiccups>>
    BY DEF OrphanReply
  <1>2. TypeOK'
    BY <1>1 DEF TickInv, TypeOK, Tried, Answered
  <1>3. WorkInv'
    BY <1>1 DEF TickInv, WorkInv, Tried, Waiting, Answered
  <1>4. \A j \in Item : Spent(j)' <= Spent(j) /\ Spent(j)' \in Nat /\ Spent(j) \in Nat
    BY <1>1 DEF TickInv, TypeOK, Spent
  <1>5. BudgetInv'
    <2>1. orphans' # {} => aborts' >= 1
      BY <1>1 DEF TickInv, BudgetInv
    <2>2. \A j \in Item : \A b \in Nat : Spent(j) <= b => Spent(j)' <= b
      BY <1>4
    <2>3. aborts \in Nat /\ aborts + 1 \in Nat
      BY DEF TickInv, TypeOK
    <2> HIDE DEF Spent
    <2> QED BY <1>1, <2>1, <2>2, <2>3 DEF TickInv, BudgetInv
  <1> QED BY <1>2, <1>3, <1>5 DEF TickInv

\* Every step of the system keeps the invariant.
LEMMA StepInv ==
    ASSUME TickInv, [Next]_vars
    PROVE  TickInv'
  <1>1. CASE Web
    BY <1>1, WebInv DEF Web
  <1>2. CASE Begin
    BY <1>2, BeginInv
  <1>3. CASE MarkReminders
    BY <1>3, MarkRemindersInv
  <1>4. CASE Commit
    BY <1>4, CommitInv
  <1>5. CASE Log
    <2>1. /\ phase = "log" /\ Finish /\ blocked' = blocked /\ aborts' = aborts
          /\ orphans' \subseteq orphans /\ hiccups' \in Nat
      BY <1>5 DEF Log, TickInv, TypeOK
    <2>2. UNCHANGED table \/ \E g \in Digest : Put(g, "due")
      BY <1>5 DEF Log, QueueDigest
    <2> QED BY <2>1, <2>2, LogInv
  <1>6. CASE Replies
    BY <1>6, ReplyInv DEF Replies
  <1>7. CASE OrphanReply
    BY <1>7, OrphanInv
  <1>8. CASE LogFails
    <2>1. /\ phase = "log" /\ Finish /\ blocked' = blocked /\ aborts' = aborts
          /\ orphans' \subseteq orphans /\ hiccups' \in Nat /\ UNCHANGED table
      BY <1>8 DEF LogFails, Hiccup, TickInv, TypeOK
    <2> QED BY <2>1, LogInv
  <1>9. CASE SendRaises
    <2>1. /\ Finish /\ UNCHANGED <<row, arms, dms, blocked>> /\ aborts' = aborts + 1
          /\ hiccups' \in Nat /\ orphans' \subseteq orphans \cup Waiting
      BY <1>9 DEF SendRaises, RollBack, Hiccup, table, TickInv, TypeOK
    <2> QED BY <2>1, AbortInv
  <1>10. CASE MarkRaises
    <2>1. /\ Finish /\ UNCHANGED <<row, arms, dms, blocked>> /\ aborts' = aborts + 1
          /\ hiccups' \in Nat /\ orphans' \subseteq orphans \cup Waiting
      BY <1>10 DEF MarkRaises, RollBack, table, TickInv, TypeOK
    <2> QED BY <2>1, AbortInv
  <1>11. CASE Crash
    <2>1. /\ Finish /\ UNCHANGED <<row, arms, dms, blocked>> /\ UNCHANGED table
          /\ hiccups' \in Nat /\ orphans' = {}
          /\ aborts' = IF phase = "log" THEN aborts ELSE aborts + 1
      BY <1>11 DEF Crash, Hiccup, table, TickInv, TypeOK
    <2>2. CASE phase = "log"
      BY <2>1, <2>2, LogInv
    <2>3. CASE phase # "log"
      BY <2>1, <2>3, AbortInv
    <2> QED BY <2>2, <2>3
  <1>12. CASE UNCHANGED vars
    <2>1. TypeOK'
      BY <1>12 DEF vars, TickInv, TypeOK, Tried, Answered
    <2>2. WorkInv'
      BY <1>12 DEF vars, TickInv, WorkInv, Tried, Waiting, Answered
    <2>3. BudgetInv'
      BY <1>12 DEF vars, TickInv, BudgetInv, Spent
    <2> QED BY <2>1, <2>2, <2>3 DEF TickInv
  <1> QED
    BY <1>1, <1>2, <1>3, <1>4, <1>5, <1>6, <1>7, <1>8, <1>9, <1>10, <1>11, <1>12
       DEF Next, TickStep

\* The invariant of the tick.
THEOREM TickInvariant == Spec => []TickInv
  BY InitInv, StepInv, PTL DEF Spec

\* The tick's variables stay in their domains, and the open transaction marks
\* nothing that Discord has not answered (scheduler/loop.py, tick).
THEOREM TickTypeCorrect == Spec => []TypeOK
  <1>1. TickInv => TypeOK
    BY DEF TickInv
  <1> QED BY <1>1, TickInvariant, PTL

\* Nobody is told twice unless a tick lost its transaction, whatever the
\* writers, the failures and the crashes do (scheduler/loop.py, tick).
THEOREM NoSpareDuplicates == Spec => []DuplicatesOnlyByAbort
  <1>1. TickInv => DuplicatesOnlyByAbort
    BY DEF TickInv, TypeOK, BudgetInv, Spent, DuplicatesOnlyByAbort
  <1> QED BY <1>1, TickInvariant, PTL

----------------------------------------------------------------------------
(* The tick implements the outbox.                                         *)

\* A write that leaves the tick's work alone changes only the rows of the outbox.
LEMMA SameWork ==
    ASSUME got' = got
    PROVE  Tried' = Tried /\ FinalAnswers' = FinalAnswers
  BY DEF Tried, FinalAnswers

\* The first state maps to the outbox's first state.
LEMMA PromisedStart == Init => Promise!Init
  BY DEF Init, NoSends, Promise!Init, Promise!Silence, OutboxRow, FinalAnswers, Tried,
         Pending, Answer

\* Planning, queueing and re-arming queue a message.
LEMMA PutQueues ==
    ASSUME TickInv, NEW i \in Item \ Digest, NEW st \in Pending, row[i] \notin Pending,
           Put(i, st), UNCHANGED tick
    PROVE  Promise!Queue(i)
  <1>1. row' = [row EXCEPT ![i] = st] /\ got' = got /\ gone' = gone /\ blocked' = blocked
    BY DEF Put, tick, work
  <1>2. OutboxRow' = [OutboxRow EXCEPT ![i] = "pending"]
    BY <1>1 DEF OutboxRow, Pending, TickInv, TypeOK
  <1>3. OutboxRow[i] # "pending"
    BY DEF OutboxRow, Pending, TickInv, TypeOK, State
  <1> QED BY <1>1, <1>2, <1>3, SameWork DEF Promise!Queue

\* The writers queue, withdraw or only move a message.
LEMMA WebPromised ==
    ASSUME TickInv, NEW i \in Item,
           Arm(i) \/ QueueNotice(i) \/ Rearm(i) \/ Postpone(i) \/ Remove(i) \/ FallDue(i)
    PROVE  [Promise!Next]_(Promise!vars)
  <1>1. CASE Arm(i) \/ QueueNotice(i) \/ Rearm(i)
    <2>1. i \notin Digest /\ row[i] \notin Pending /\ UNCHANGED tick
      BY <1>1, Disjoint, TickAssumption DEF Arm, QueueNotice, Rearm, Pending
    <2>2. \E st \in Pending : Put(i, st)
      BY <1>1 DEF Arm, QueueNotice, Rearm, Pending
    <2>3. Promise!Queue(i)
      BY <2>1, <2>2, PutQueues
    <2> QED BY <2>3 DEF Promise!Next
  <1>2. CASE Postpone(i) \/ FallDue(i)
    <2>1. OutboxRow' = OutboxRow
      BY <1>2 DEF Postpone, FallDue, OutboxRow, Pending, TickInv, TypeOK
    <2>2. got' = got /\ gone' = gone /\ blocked' = blocked
      BY <1>2 DEF Postpone, FallDue, tick, work
    <2> QED BY <2>1, <2>2, SameWork DEF Promise!vars
  <1>3. CASE Remove(i)
    <2>1. OutboxRow[i] = "pending" /\ OutboxRow' = [OutboxRow EXCEPT ![i] = "none"]
      BY <1>3 DEF Remove, OutboxRow, Pending, TickInv, TypeOK
    <2>2. got' = got /\ gone' = gone \cup ({i} \cap Tried) /\ blocked' = blocked
      BY <1>3 DEF Remove, work
    <2>3. Promise!Withdraw(i)
      BY <2>1, <2>2, SameWork DEF Promise!Withdraw
    <2> QED BY <2>3 DEF Promise!Next
  <1> QED BY <1>1, <1>2, <1>3

\* Selecting due rows sends pending messages.
LEMMA SelectionPromised ==
    ASSUME TickInv, NEW B \in SUBSET Item,
           \A i \in B : row[i] = "due" /\ got[i] = "idle",
           got' = Sending(B), UNCHANGED <<row, gone, blocked>>
    PROVE  Promise!Send
  <1>1. FinalAnswers' = FinalAnswers
    BY DEF Sending, FinalAnswers, Answer
  <1>2. Tried' = Tried \cup B
    BY DEF Sending, Tried
  <1>3. B \in SUBSET {i \in Item : OutboxRow[i] = "pending"}
    BY DEF OutboxRow, Pending
  <1>4. OutboxRow' = OutboxRow
    BY DEF OutboxRow
  <1> QED BY <1>1, <1>2, <1>3, <1>4 DEF Promise!Send

\* The first selection of a tick is a Send of the outbox.
LEMMA BeginPromised ==
    ASSUME TickInv, Begin
    PROVE  Promise!Send
  <1>1. DueReminders \in SUBSET Item /\ \A i \in DueReminders : row[i] = "due"
    BY BatchIsDue DEF DueReminders, Item
  <1>2. \A i \in Item : got[i] = "idle"
    BY DEF Begin, TickInv, WorkInv, Tried
  <1> QED BY <1>1, <1>2, SelectionPromised DEF Begin, table

\* The second selection of a tick is a Send of the outbox.
LEMMA MarkRemindersPromised ==
    ASSUME TickInv, MarkReminders
    PROVE  Promise!Send
  <1>1. DueNotifications \in SUBSET Notice /\ \A i \in DueNotifications : row[i] = "due"
    BY BatchIsDue DEF DueNotifications, Item
  <1>2. \A i \in Notice : got[i] = "idle"
    BY Disjoint DEF MarkReminders, TickInv, WorkInv, Tried, Item
  <1>3. DueNotifications \in SUBSET Item
    BY <1>1 DEF Item
  <1> QED BY <1>1, <1>2, <1>3, SelectionPromised DEF MarkReminders, table

\* A final answer is an answer; an HTTP error says nothing.
LEMMA ReplyPromised ==
    ASSUME TickInv, NEW i \in Item, NEW o \in Answer \cup {"transient"}, Reply(i, o)
    PROVE  [Promise!Next]_(Promise!vars)
  <1>1. /\ got[i] = "wait" /\ got' = [got EXCEPT ![i] = o]
        /\ row' = row /\ gone' = gone /\ blocked' = blocked
    BY DEF Reply, Waiting
  <1>2. Tried' = Tried /\ i \in Tried /\ OutboxRow' = OutboxRow
    BY <1>1 DEF Tried, OutboxRow, TickInv, TypeOK, Answer
  <1>3. CASE o = "transient"
    <2>1. FinalAnswers' = FinalAnswers
      BY <1>1, <1>3 DEF FinalAnswers, Answer, TickInv, TypeOK
    <2> QED BY <1>1, <1>2, <2>1 DEF Promise!vars
  <1>4. CASE o \in Answer
    <2>1. FinalAnswers' = [FinalAnswers EXCEPT ![i] = o] /\ FinalAnswers[i] = "none"
      BY <1>1, <1>4 DEF FinalAnswers, Answer, TickInv, TypeOK
    <2>2. Promise!Answer(i, o)
      BY <1>1, <1>2, <2>1 DEF Promise!Answer
    <2> QED BY <1>4, <2>2 DEF Promise!Next, Answer
  <1> QED BY <1>3, <1>4

\* The commit settles every answered row but those withdrawn under the tick.
LEMMA CommitPromised ==
    ASSUME TickInv, Commit
    PROVE  Promise!Settle
  <1> DEFINE spared == (Answered \cap Reminder) \ marked
  <1>1. /\ phase = "notices" /\ ~Stale /\ blocked' \in BlockedAfter
        /\ row' = [i \in Item |-> IF i \in marked \cup (Answered \cap Notice) THEN "sent" ELSE row[i]]
        /\ got' = got /\ gone' = gone
    BY DEF Commit
  <1>2. Promise!Heard = Answered
    BY DEF Promise!Heard, FinalAnswers, Tried, Answered, Answer
  <1>3. spared \in SUBSET gone
    BY <1>1 DEF TickInv, WorkInv
  <1>4. OutboxRow' = [i \in Item |-> IF i \in Answered \ spared /\ OutboxRow[i] # "none"
                                      THEN "sent" ELSE OutboxRow[i]]
    <2> SUFFICES ASSUME NEW i \in Item
                 PROVE  OutboxRow'[i] = IF i \in Answered \ spared /\ OutboxRow[i] # "none"
                                        THEN "sent" ELSE OutboxRow[i]
      BY DEF OutboxRow
    <2>1. marked \subseteq Answered \cap Reminder /\ \A j \in marked : row[j] # "none"
      BY DEF TickInv, TypeOK, WorkInv
    <2>2. i \in Reminder \/ i \in Notice
      BY DEF Item
    <2>3. i \in Answered \cap Notice => row[i] # "none"
      BY <1>1 DEF Stale
    <2>4. i \in marked \cup (Answered \cap Notice) <=> i \in Answered \ spared
      BY <2>1, <2>2, Disjoint
    <2>5. OutboxRow[i] # "none" <=> row[i] # "none"
      BY DEF OutboxRow, Pending
    <2>6. OutboxRow'[i] = IF i \in Answered \ spared THEN "sent" ELSE OutboxRow[i]
      BY <1>1, <2>4 DEF OutboxRow, Pending
    <2> QED BY <2>1, <2>3, <2>4, <2>5, <2>6
  <1>5. ASSUME NEW u \in User
        PROVE  LET mine == {i \in Answered : owner[i] = u}
               IN IF mine = {} THEN blocked'[u] = blocked[u]
                  ELSE \E i \in mine : blocked'[u] = (FinalAnswers[i] = "forbidden")
    <2>1. \A i \in Answered : FinalAnswers[i] = got[i]
      BY DEF FinalAnswers, Answered
    <2> QED BY <1>1, <2>1 DEF BlockedAfter, AnswersTo
  <1>6. blocked' \in [User -> BOOLEAN]
    BY <1>1 DEF BlockedAfter
  <1> HIDE DEF spared
  <1> QED BY <1>1, <1>2, <1>3, <1>4, <1>5, <1>6, SameWork DEF Promise!Settle

\* The end of a tick closes the batch, whatever ended it.
LEMMA FinishPromised ==
    ASSUME TickInv, Finish, blocked' = blocked,
           \/ UNCHANGED table
           \/ News # {} /\ \E g \in Digest : row[g] \notin Pending /\ Put(g, "due")
    PROVE  Promise!Close
  <1>1. Tried' = {} /\ FinalAnswers' = Promise!Silence /\ gone' = {}
    BY DEF Finish, NoSends, Tried, FinalAnswers, Answer, Promise!Silence
  <1>2. CASE UNCHANGED table
    <2>1. OutboxRow' = OutboxRow
      BY <1>2 DEF OutboxRow, table
    <2> QED BY <1>1, <2>1 DEF Promise!Close
  <1>3. CASE News # {} /\ \E g \in Digest : row[g] \notin Pending /\ Put(g, "due")
    <2>1. PICK g \in Digest : row[g] \notin Pending /\ row' = [row EXCEPT ![g] = "due"]
      BY <1>3 DEF Put
    <2>2. g \in Item
      BY <2>1, TickAssumption DEF Item
    <2>3. OutboxRow[g] # "pending" /\ OutboxRow' = [OutboxRow EXCEPT ![g] = "pending"]
      BY <2>1, <2>2 DEF OutboxRow, Pending, TickInv, TypeOK, State
    <2>4. ~(Tried \subseteq Digest)
      BY <1>3 DEF News
    <2> QED BY <1>1, <2>3, <2>4 DEF Promise!Close
  <1> QED BY <1>2, <1>3

\* Every step of the tick is a step of the outbox or changes nothing there.
LEMMA StepPromised ==
    ASSUME TickInv, [Next]_vars
    PROVE  [Promise!Next]_(Promise!vars)
  <1>1. CASE Web
    BY <1>1, WebPromised DEF Web
  <1>2. CASE Begin
    BY <1>2, BeginPromised DEF Promise!Next
  <1>3. CASE MarkReminders
    BY <1>3, MarkRemindersPromised DEF Promise!Next
  <1>4. CASE Commit
    BY <1>4, CommitPromised DEF Promise!Next
  <1>5. CASE Log
    <2>1. Promise!Close
      BY <1>5, FinishPromised DEF Log, QueueDigest
    <2> QED BY <2>1 DEF Promise!Next
  <1>6. CASE Replies
    BY <1>6, ReplyPromised DEF Replies
  <1>7. CASE OrphanReply
    <2>1. row' = row /\ got' = got /\ gone' = gone /\ blocked' = blocked
      BY <1>7 DEF OrphanReply
    <2>2. OutboxRow' = OutboxRow
      BY <2>1 DEF OutboxRow
    <2> QED BY <2>1, <2>2, SameWork DEF Promise!vars
  <1>8. CASE LogFails \/ SendRaises \/ MarkRaises \/ Crash
    <2>1. Finish /\ blocked' = blocked /\ UNCHANGED table
      BY <1>8 DEF LogFails, SendRaises, MarkRaises, Crash, RollBack
    <2>2. Promise!Close
      BY <2>1, FinishPromised
    <2> QED BY <2>2 DEF Promise!Next
  <1>9. CASE UNCHANGED vars
    BY <1>9 DEF vars, Promise!vars, OutboxRow, Tried, FinalAnswers
  <1> QED BY <1>1, <1>2, <1>3, <1>4, <1>5, <1>6, <1>7, <1>8, <1>9 DEF Next, TickStep

\* The tick keeps the outbox's promise: settled on Discord's answers only, all
\* of a batch or none of it (scheduler/loop.py, tick).
THEOREM PromiseKept == Spec => KeepsThePromise
  <1>1. TickInv /\ [Next]_vars => [Promise!Next]_(Promise!vars)
    BY StepPromised
  <1> QED BY <1>1, PromisedStart, TickInvariant, PTL DEF Spec, KeepsThePromise, Promise!Spec
=============================================================================
