------------------------- MODULE ReminderQueueProofs ------------------------
(***************************************************************************)
(* Proofs about the reminder outbox, the outcomes it follows and what the  *)
(* reader's surfaces derive from them, for every concert, every set of     *)
(* rules and every bound.                                                  *)
(*                                                                         *)
(* The queue: type correctness, and that the materialised queue is exactly *)
(* what the reader's rules imply.  The outcomes, for every sequence of     *)
(* presses, corrections and saves: a won leg makes its round won, one      *)
(* press takes one ticket at most, and every loss arms the next round that *)
(* sells what was lost.  The surfaces: they agree on what lies ahead, on   *)
(* what is held and on what to ask next, and hide no way in.               *)
(***************************************************************************)
EXTENDS ReaderQuestions, FiniteSetTheorems, WellFoundedInduction, TLAPS

----------------------------------------------------------------------------
(* The writers of a standing return a standing.                            *)

\* A whole-round answer keeps the record's shape.
LEMMA SetOutcomeType ==
    ASSUME NEW s \in Standing, NEW r \in Round, NEW o \in Outcome \cup {"NONE"}
    PROVE  SetOutcome(s, r, o) \in Standing
  BY DEF SetOutcome, Standing

\* Rewriting one round's day rows does too.
LEMMA SetRowsType ==
    ASSUME NEW s \in Standing, NEW r \in Round,
           NEW row \in [Day -> {"WON", "LOST", "NONE"}]
    PROVE  [s EXCEPT !.result[r] = row] \in Standing
  BY DEF Standing

\* Spelling out an implicit win keeps the record's shape.
LEMMA MaterializeType ==
    ASSUME NEW c \in Concert, NEW s \in Standing, NEW r \in Round
    PROVE  MaterializeWins(c, s, r) \in Standing
  BY DEF MaterializeWins, Standing

\* So do the shared tail of the lost legs and its two results.
LEMMA SettleType ==
    ASSUME NEW c \in Concert, NEW s \in Standing, NEW r \in Round, NEW lost
    PROVE  SettleLostDays(c, s, r, lost).standing \in Standing
  <1>1. SetOutcome(s, r, "LOST") \in Standing
    BY SetOutcomeType DEF Outcome
  <1> QED BY <1>1 DEF SettleLostDays, RecordRoundOutcome, Write

\* A leg's result, won or lost.
LEMMA DayResultType ==
    ASSUME NEW c \in Concert, NEW s \in Standing, NEW r \in Round, NEW d \in Day,
           NEW res \in {"WON", "LOST"}
    PROVE  RecordDayResult(c, s, r, d, res).standing \in Standing
  <1> DEFINE s1 == [MaterializeWins(c, s, r) EXCEPT !.result[r][d] = res]
  <1>1. s1 \in Standing
    <2>1. MaterializeWins(c, s, r) \in Standing
      BY MaterializeType
    <2> QED BY <2>1 DEF Standing
  <1>2. SettleLostDays(c, s1, r, {d}).standing \in Standing
    BY <1>1, SettleType
  <1>3. SetOutcome(s1, r, "WON") \in Standing
    BY <1>1, SetOutcomeType DEF Outcome
  <1> HIDE DEF s1
  <1> QED BY <1>1, <1>2, <1>3 DEF RecordDayResult, RecordRoundOutcome, Write, s1

\* "Lost the rest".
LEMMA RemainingLostType ==
    ASSUME NEW c \in Concert, NEW s \in Standing, NEW r \in Round
    PROVE  RecordRemainingLost(c, s, r).standing \in Standing
  <1> DEFINE s1   == MaterializeWins(c, s, r)
             rest == UnresolvedDays(c, s1, r)
             row  == [d \in Day |-> IF d \in rest THEN "LOST" ELSE s1.result[r][d]]
             s2   == [s1 EXCEPT !.result[r] = row]
  <1>1. s1 \in Standing
    BY MaterializeType
  <1> HIDE DEF s1, rest
  <1>2. s2 \in Standing
    <2>1. row \in [Day -> {"WON", "LOST", "NONE"}]
      BY <1>1 DEF Standing
    <2> HIDE DEF row
    <2> QED BY <1>1, <2>1, SetRowsType
  <1>3. SettleLostDays(c, s2, r, rest).standing \in Standing
    BY <1>2, SettleType
  <1> QED BY <1>3 DEF RecordRemainingLost, s1, rest

\* "Won (all)" on a DM.
LEMMA WonAllType ==
    ASSUME NEW c \in Concert, NEW s \in Standing, NEW r \in Round
    PROVE  PressWonAll(c, s, r) \in Standing
  <1> DEFINE row == [d \in Day |-> IF HasDayRows(s, r) /\ d \in UnresolvedDays(c, s, r)
                                   THEN "WON" ELSE s.result[r][d]]
  <1>1. row \in [Day -> {"WON", "LOST", "NONE"}]
    BY DEF Standing
  <1>2. SetOutcome(s, r, "WON") \in Standing
    BY SetOutcomeType DEF Outcome
  <1> HIDE DEF row
  <1>3. [SetOutcome(s, r, "WON") EXCEPT !.result[r] = row] \in Standing
    BY <1>1, <1>2, SetRowsType
  <1> QED BY <1>3 DEF PressWonAll, row

\* Corrections: a whole round, or one leg and what the round then is.
LEMMA ClearType ==
    ASSUME NEW c \in Concert, NEW s \in Standing, NEW r \in Round
    PROVE  /\ ClearRound(s, r) \in Standing
           /\ \A d \in Day : ClearDay(c, s, r, d) \in Standing
  <1>1. ClearRound(s, r) \in Standing
    BY DEF ClearRound, Standing
  <1>2. ASSUME NEW d \in Day PROVE ClearDay(c, s, r, d) \in Standing
    <2> DEFINE s1 == [s EXCEPT !.result[r][d] = "NONE"]
    <2>1. s1 \in Standing
      BY DEF Standing
    <2> HIDE DEF s1
    <2>2. /\ SetOutcome(s1, r, "LOST") \in Standing
          /\ SetOutcome(s1, r, "APPLIED") \in Standing
      BY <2>1, SetOutcomeType DEF Outcome
    <2>3. Rederived(c, s1, r) \in Standing
      BY <2>1, <2>2 DEF Rederived
    <2> QED BY <2>3 DEF ClearDay, s1
  <1> QED BY <1>1, <1>2

\* A loss arms at most one rule, for a round of the concert.
LEMMA ArmedType ==
    ASSUME QueueAssumption, NEW c \in Concert, NEW R, NEW r \in Round, NEW arm
    PROVE  ArmedRules(c, R, r, arm, ArmLead) \subseteq Rule
  <1> DEFINE next == NextRounds(c, r, arm)
             n    == CHOOSE m \in next : TRUE
  <1>1. next \subseteq Round
    BY DEF NextRounds, LaterFallbacks, Fallbacks, Concert
  <1>2. next # {} => n \in Round
    BY <1>1
  <1> HIDE DEF n
  <1>3. next # {} => [scope |-> n, anchor |-> "OPENS", lead |-> ArmLead] \in Rule
    BY <1>2 DEF Rule, Anchor, RoundAnchor, QueueAssumption
  <1> QED BY <1>3 DEF ArmedRules, n

----------------------------------------------------------------------------
(* The planner and sync_rule.                                              *)

\* What a rule may remind of is a round or a leg, with a time to measure from.
LEMMA CandidateType ==
    ASSUME PlanAssumption, NEW c \in Concert, NEW s \in Standing, NEW rule \in Rule,
           NEW t \in Candidates(c, s, rule)
    PROVE  t \in Target /\ FireTime(c, rule, t) \in Int
  <1>1. rule.lead \in Int
    BY DEF Rule
  <1>2. CASE rule.anchor = "EVENT_START"
    <2>1. t \in Day
      BY <1>2 DEF Candidates, LiveDays, Concert
    <2>2. c.starts[t] \in Int
      BY <2>1 DEF Concert
    <2> QED BY <1>1, <2>1, <2>2 DEF FireTime, AnchorTime, Target
  <1>3. CASE rule.anchor # "EVENT_START"
    <2>1. t \in Round /\ c.at[t][rule.anchor] # NoTime
      BY <1>3 DEF Candidates, LiveRounds, Concert
    <2>2. rule.anchor \in RoundAnchor
      BY <1>3 DEF Rule, Anchor
    <2>3. c.at[t][rule.anchor] \in Int
      BY <2>1, <2>2 DEF Concert, Time
    <2>4. t \notin Day
      BY <2>1 DEF PlanAssumption
    <2> QED BY <1>1, <2>1, <2>3, <2>4 DEF FireTime, AnchorTime, Target
  <1> QED BY <1>2, <1>3

\* Every planned reminder of a synced rule has its armed row afterwards; a row
\* that survives beside them is of another rule, or delivered and unplanned.
LEMMA SyncedRows ==
    ASSUME NEW c, NEW s, NEW R, NEW q
    PROVE  /\ \A rule \in R : \A t \in Planned(c, s, rule, now) :
                 ArmedRow(c, q, rule, t) \in Synced(c, s, R, q)
           /\ \A w \in Synced(c, s, R, q) :
                 \/ /\ w \in q
                    /\ w.rule \in R => w.sent /\ w.target \notin Planned(c, s, w.rule, now)
                 \/ \E rule \in R : \E t \in Planned(c, s, rule, now) :
                       w = ArmedRow(c, q, rule, t)
           /\ \A w \in q : w.rule \notin R => w \in Synced(c, s, R, q)
  BY DEF Synced

\* Re-planning yields rows.
LEMMA SyncedType ==
    ASSUME PlanAssumption, NEW c \in Concert, NEW s \in Standing,
           NEW R \in SUBSET Rule, NEW q \in SUBSET Row
    PROVE  Synced(c, s, R, q) \in SUBSET Row
  <1>1. ASSUME NEW rule \in R, NEW t \in Planned(c, s, rule, now)
        PROVE  ArmedRow(c, q, rule, t) \in Row
    <2>1. t \in Target /\ FireTime(c, rule, t) \in Int
      BY CandidateType DEF Planned
    <2> QED BY <2>1 DEF ArmedRow, Row
  <1> QED BY <1>1, SyncedRows

\* Re-planning keeps one row per rule and target.
LEMMA SyncedOneRow ==
    ASSUME NEW c, NEW s, NEW R, NEW q,
           \A v, w \in q : v.rule = w.rule /\ v.target = w.target => v = w
    PROVE  \A v, w \in Synced(c, s, R, q) :
              v.rule = w.rule /\ v.target = w.target => v = w
  <1> SUFFICES ASSUME NEW v \in Synced(c, s, R, q), NEW w \in Synced(c, s, R, q),
                      v.rule = w.rule, v.target = w.target
               PROVE  v = w
    OBVIOUS
  <1> DEFINE Kept(x)  == /\ x \in q
                         /\ x.rule \in R => x.sent /\ x.target \notin Planned(c, s, x.rule, now)
             Armed(x) == /\ x.rule \in R /\ x.target \in Planned(c, s, x.rule, now)
                         /\ x = ArmedRow(c, q, x.rule, x.target)
  <1>1. ASSUME NEW x \in Synced(c, s, R, q)
        PROVE  Kept(x) \/ Armed(x)
    <2>1. CASE \E rule \in R : \E u \in Planned(c, s, rule, now) : x = ArmedRow(c, q, rule, u)
      <3>0. PICK rule \in R : \E u \in Planned(c, s, rule, now) : x = ArmedRow(c, q, rule, u)
        BY <2>1
      <3>1. PICK u \in Planned(c, s, rule, now) : x = ArmedRow(c, q, rule, u)
        BY <3>0
      <3>2. x.rule = rule /\ x.target = u
        BY <3>1 DEF ArmedRow
      <3> QED BY <3>1, <3>2
    <2>2. CASE /\ x \in q
               /\ x.rule \in R => x.sent /\ x.target \notin Planned(c, s, x.rule, now)
      BY <2>2
    <2> QED BY <2>1, <2>2, SyncedRows
  <1>2. (Kept(v) \/ Armed(v)) /\ (Kept(w) \/ Armed(w))
    BY <1>1
  <1>3. CASE Kept(v) /\ Kept(w)
    BY <1>3
  <1>4. CASE Armed(v) /\ Armed(w)
    BY <1>4
  <1>5. CASE (Kept(v) /\ Armed(w)) \/ (Armed(v) /\ Kept(w))
    BY <1>5
  <1> QED BY <1>2, <1>3, <1>4, <1>5

\* Time only takes reminders out of the plan.
LEMMA PlanShrinks ==
    ASSUME PlanAssumption, NEW c \in Concert, NEW s \in Standing, NEW rule \in Rule,
           NEW m \in Nat, NEW n \in Nat, m <= n
    PROVE  Planned(c, s, rule, n) \subseteq Planned(c, s, rule, m)
  BY CandidateType DEF Planned

----------------------------------------------------------------------------
(* The inductive invariant of the queue.  PlanIsQueued needs the three     *)
(* others: a kept row of another rule must still be that rule's only row,  *)
(* and a pending row must belong to a rule that the next sync covers.      *)

QueueInv == /\ TypeOK /\ OneRowPerTarget /\ PlanIsQueued
            /\ NothingElsePending /\ SentIsPast

\* A request that re-plans every rule of the reader establishes the queue
\* part of the invariant, whatever it did to the concert, the standing and
\* the rules before.
LEMMA ReplanAll ==
    ASSUME PlanAssumption, QueueInv,
           NEW c \in Concert, NEW s \in Standing, NEW R \in SUBSET Rule,
           NEW q \in SUBSET queue,
           \A w \in q : ~w.sent /\ ~w.snoozed => w.rule \in R,
           concert' = c, standing' = s, rules' = R, now' = now,
           queue' = Synced(c, s, R, q)
    PROVE  /\ queue' \subseteq Row
           /\ (OneRowPerTarget /\ PlanIsQueued /\ NothingElsePending /\ SentIsPast)'
  <1>1. queue' \subseteq Row
    BY SyncedType DEF QueueInv, TypeOK
  <1>2. OneRowPerTarget'
    BY SyncedOneRow DEF QueueInv, OneRowPerTarget
  <1>3. ASSUME NEW rule \in R, NEW t \in Planned(c, s, rule, now)
        PROVE  \E w \in Synced(c, s, R, q) :
                  /\ w.rule = rule /\ w.target = t
                  /\ ~w.sent /\ w.fire = FireTime(c, rule, t)
    <2>1. ArmedRow(c, q, rule, t) \in Synced(c, s, R, q)
      BY SyncedRows
    <2>2. /\ ArmedRow(c, q, rule, t).rule = rule /\ ArmedRow(c, q, rule, t).target = t
          /\ ~ArmedRow(c, q, rule, t).sent
          /\ ArmedRow(c, q, rule, t).fire = FireTime(c, rule, t)
      BY DEF ArmedRow
    <2> QED BY <2>1, <2>2
  <1>4. PlanIsQueued'
    BY <1>3 DEF PlanIsQueued, SameKey
  <1>5. ASSUME NEW w \in Synced(c, s, R, q)
        PROVE  /\ ~w.sent /\ ~w.snoozed =>
                    /\ w.rule \in R /\ w.target \in Candidates(c, s, w.rule)
                    /\ w.fire = FireTime(c, w.rule, w.target)
               /\ w.sent => w.fire <= now
    <2>1. CASE /\ w \in q
               /\ w.rule \in R => w.sent /\ w.target \notin Planned(c, s, w.rule, now)
      BY <2>1 DEF QueueInv, SentIsPast
    <2>2. CASE \E rule \in R : \E t \in Planned(c, s, rule, now) : w = ArmedRow(c, q, rule, t)
      <3>0. PICK rule \in R : \E t \in Planned(c, s, rule, now) : w = ArmedRow(c, q, rule, t)
        BY <2>2
      <3>1. PICK t \in Planned(c, s, rule, now) : w = ArmedRow(c, q, rule, t)
        BY <3>0
      <3>2. t \in Candidates(c, s, rule)
        BY <3>1 DEF Planned
      <3> QED BY <3>1, <3>2 DEF ArmedRow
    <2> QED BY <2>1, <2>2, SyncedRows
  <1>6. NothingElsePending' /\ SentIsPast'
    BY <1>5 DEF NothingElsePending, SentIsPast
  <1> QED BY <1>1, <1>2, <1>4, <1>6

\* So does re-planning only the rules that were just added.
LEMMA ReplanNew ==
    ASSUME PlanAssumption, QueueInv, NEW R \in SUBSET Rule, AddRules(R)
    PROVE  QueueInv'
  <1> DEFINE new == R \ rules
  <1> USE DEF AddRules
  <1>1. TypeOK'
    <2>1. new \in SUBSET Rule /\ concert \in Concert /\ standing \in Standing /\ queue \in SUBSET Row
      BY DEF QueueInv, TypeOK
    <2>2. queue' \subseteq Row
      BY <2>1, SyncedType
    <2> QED BY <2>2 DEF QueueInv, TypeOK
  <1>2. OneRowPerTarget'
    BY SyncedOneRow DEF QueueInv, OneRowPerTarget
  <1>3. ASSUME NEW rule \in rules', NEW t \in Planned(concert, standing, rule, now)
        PROVE  \E w \in queue' :
                  /\ w.rule = rule /\ w.target = t
                  /\ w.snoozed \/ (~w.sent /\ w.fire = FireTime(concert, rule, t))
    <2>1. CASE rule \in new
      <3>1. ArmedRow(concert, queue, rule, t) \in queue'
        BY <2>1, SyncedRows
      <3>2. /\ ArmedRow(concert, queue, rule, t).rule = rule
            /\ ArmedRow(concert, queue, rule, t).target = t
            /\ ~ArmedRow(concert, queue, rule, t).sent
            /\ ArmedRow(concert, queue, rule, t).fire = FireTime(concert, rule, t)
        BY DEF ArmedRow
      <3> QED BY <3>1, <3>2
    <2>2. CASE rule \notin new
      <3>1. PICK w \in queue :
                  /\ w.rule = rule /\ w.target = t
                  /\ w.snoozed \/ (~w.sent /\ w.fire = FireTime(concert, rule, t))
        BY <2>2 DEF QueueInv, PlanIsQueued, SameKey
      <3>2. w \in queue'
        BY <2>2, <3>1, SyncedRows
      <3> QED BY <3>1, <3>2
    <2> QED BY <2>1, <2>2
  <1>4. PlanIsQueued'
    <2>1. concert' = concert /\ standing' = standing /\ now' = now
      OBVIOUS
    <2>2. \A rule \in rules' : \A t \in Planned(concert', standing', rule, now') :
             \E w \in queue' :
                /\ w.rule = rule /\ w.target = t
                /\ w.snoozed \/ (~w.sent /\ w.fire = FireTime(concert', rule, t))
      <3> HIDE DEF AddRules
      <3> QED BY <1>3, <2>1
    <2> HIDE DEF AddRules
    <2> QED BY <2>2 DEF PlanIsQueued, SameKey
  <1>5. ASSUME NEW w \in queue'
        PROVE  /\ ~w.sent /\ ~w.snoozed =>
                    /\ w.rule \in rules' /\ w.target \in Candidates(concert, standing, w.rule)
                    /\ w.fire = FireTime(concert, w.rule, w.target)
               /\ w.sent => w.fire <= now
    <2>1. CASE w \in queue
      BY <2>1 DEF QueueInv, NothingElsePending, SentIsPast
    <2>2. CASE \E rule \in new : \E t \in Planned(concert, standing, rule, now) :
                  w = ArmedRow(concert, queue, rule, t)
      <3>0. PICK rule \in new : \E t \in Planned(concert, standing, rule, now) :
                  w = ArmedRow(concert, queue, rule, t)
        BY <2>2
      <3>1. PICK t \in Planned(concert, standing, rule, now) :
                  w = ArmedRow(concert, queue, rule, t)
        BY <3>0
      <3>2. t \in Candidates(concert, standing, rule)
        BY <3>1 DEF Planned
      <3> QED BY <3>1, <3>2 DEF ArmedRow
    <2> QED BY <2>1, <2>2, SyncedRows
  <1>6. NothingElsePending' /\ SentIsPast'
    BY <1>5 DEF NothingElsePending, SentIsPast
  <1> QED BY <1>1, <1>2, <1>4, <1>6 DEF QueueInv

----------------------------------------------------------------------------
(* Each action preserves it.                                               *)

\* A press that goes through re-plans everything, the armed fallback included.
LEMMA AnswerInv ==
    ASSUME PlanAssumption, QueueAssumption, QueueInv, NEW w, NEW r \in Round,
           w.standing \in Standing, Answer(w, r)
    PROVE  QueueInv'
  <1>1. CASE Raise
    BY <1>1 DEF Raise, QueueInv, TypeOK, OneRowPerTarget, PlanIsQueued, NothingElsePending, SentIsPast
  <1>2. CASE Commit(w, r)
    <2> DEFINE R == rules \cup ArmedRules(concert, rules, r, w.arm, ArmLead)
    <2>1. R \in SUBSET Rule
      BY ArmedType DEF QueueInv, TypeOK
    <2>2. /\ concert' = concert /\ standing' = w.standing /\ rules' = R /\ now' = now
          /\ queue' = Synced(concert, w.standing, R, queue)
          /\ notices' = notices /\ failed' = FALSE /\ edits' = edits
      BY <1>2 DEF Commit
    <2> HIDE DEF R
    <2>3. \A x \in queue : ~x.sent /\ ~x.snoozed => x.rule \in R
      BY DEF QueueInv, NothingElsePending, R
    <2>4. concert \in Concert
      BY DEF QueueInv, TypeOK
    <2>5. /\ queue' \subseteq Row
          /\ (OneRowPerTarget /\ PlanIsQueued /\ NothingElsePending /\ SentIsPast)'
      BY <2>1, <2>2, <2>3, <2>4, ReplanAll
    <2>6. TypeOK'
      BY <2>1, <2>2, <2>5 DEF QueueInv, TypeOK
    <2> QED BY <2>5, <2>6 DEF QueueInv
  <1> QED BY <1>1, <1>2 DEF Answer

\* The presses hand a standing to that commit.
LEMMA PressInv ==
    ASSUME PlanAssumption, QueueAssumption, QueueInv, Press
    PROVE  QueueInv'
  <1>1. PICK r \in AnswerRounds :
             \/ \E o \in FlatOutcomes : PressOutcome(r, o)
             \/ PressWonAllLegs(r) \/ PressLostAllLegs(r)
             \/ Backtrack(r)
             \/ PressLostRest(r)
             \/ \E d \in LegPresses : \/ \E res \in {"WON", "LOST"} : PressLeg(r, d, res)
                                      \/ BacktrackLeg(r, d)
    BY DEF Press
  <1>2. r \in Round /\ concert \in Concert /\ standing \in Standing
    BY DEF QueueAssumption, QueueInv, TypeOK
  <1>3. ASSUME NEW o \in FlatOutcomes, PressOutcome(r, o)
        PROVE  QueueInv'
    <2>1. SetOutcome(standing, r, o) \in Standing
      BY <1>2, SetOutcomeType DEF QueueAssumption
    <2>2. RecordRoundOutcome(standing, r, o).standing \in Standing
      BY <2>1 DEF RecordRoundOutcome, Write
    <2> QED BY <1>2, <1>3, <2>2, AnswerInv DEF PressOutcome
  <1>4. CASE PressWonAllLegs(r)
    <2>1. Write(PressWonAll(concert, standing, r), NoArm).standing \in Standing
      BY <1>2, WonAllType DEF Write
    <2> QED BY <1>2, <1>4, <2>1, AnswerInv DEF PressWonAllLegs
  <1>5. CASE PressLostAllLegs(r)
    <2>1. RecordRoundOutcome(standing, r, "LOST").standing \in Standing
      BY <1>2, SetOutcomeType DEF RecordRoundOutcome, Write, Outcome
    <2> QED BY <1>2, <1>5, <2>1, AnswerInv DEF PressLostAllLegs
  <1>6. CASE Backtrack(r)
    <2>1. Write(ClearRound(standing, r), NoArm).standing \in Standing
      BY <1>2, ClearType DEF Write
    <2> QED BY <1>2, <1>6, <2>1, AnswerInv DEF Backtrack
  <1>7. CASE PressLostRest(r)
    <2>1. RecordRemainingLost(concert, standing, r).standing \in Standing
      BY <1>2, RemainingLostType
    <2> QED BY <1>2, <1>7, <2>1, AnswerInv DEF PressLostRest
  <1>8. ASSUME NEW d \in LegPresses, NEW res \in {"WON", "LOST"}, PressLeg(r, d, res)
        PROVE  QueueInv'
    <2>1. d \in Day
      BY DEF QueueAssumption
    <2>2. RecordDayResult(concert, standing, r, d, res).standing \in Standing
      BY <1>2, <2>1, DayResultType
    <2> QED BY <1>2, <1>8, <2>2, AnswerInv DEF PressLeg
  <1>9. ASSUME NEW d \in LegPresses, BacktrackLeg(r, d)
        PROVE  QueueInv'
    <2>1. d \in Day
      BY DEF QueueAssumption
    <2>2. Write(ClearDay(concert, standing, r, d), NoArm).standing \in Standing
      BY <1>2, <2>1, ClearType DEF Write
    <2> QED BY <1>2, <1>9, <2>2, AnswerInv DEF BacktrackLeg
  <1> QED BY <1>1, <1>3, <1>4, <1>5, <1>6, <1>7, <1>8, <1>9

\* Opting out, pruning and reinstating re-plan everything too.
LEMMA PruneInv ==
    ASSUME PlanAssumption, QueueAssumption, QueueInv, Prune
    PROVE  QueueInv'
  <1>1. ASSUME NEW s \in Standing, Replan(s)
        PROVE  QueueInv'
    <2>1. /\ concert' = concert /\ standing' = s /\ rules' = rules /\ now' = now
          /\ queue' = Synced(concert, s, rules, queue)
          /\ notices' = notices /\ failed' = FALSE /\ edits' = edits
      BY <1>1 DEF Replan
    <2>2. concert \in Concert /\ rules \in SUBSET Rule
      BY DEF QueueInv, TypeOK
    <2>3. \A x \in queue : ~x.sent /\ ~x.snoozed => x.rule \in rules
      BY DEF QueueInv, NothingElsePending
    <2>4. /\ queue' \subseteq Row
          /\ (OneRowPerTarget /\ PlanIsQueued /\ NothingElsePending /\ SentIsPast)'
      BY <2>1, <2>2, <2>3, ReplanAll
    <2>5. TypeOK'
      BY <2>1, <2>4 DEF QueueInv, TypeOK
    <2> QED BY <2>4, <2>5 DEF QueueInv
  <1>2. standing \in Standing
    BY DEF QueueInv, TypeOK
  <1>3. CASE TogglePrune
    <2>1. PICK p \in BOOLEAN : Replan([standing EXCEPT !.pruned = p])
      BY <1>3 DEF TogglePrune
    <2>2. [standing EXCEPT !.pruned = p] \in Standing
      BY <1>2 DEF Standing
    <2> QED BY <1>1, <2>1, <2>2
  <1>4. CASE Reinstate
    BY <1>1, <1>2, <1>4 DEF Reinstate
  <1>5. ASSUME NEW d \in LegToggles, ToggleLeg(d)
        PROVE  QueueInv'
    <2>1. PICK D \in {standing.out \cup {d}, standing.out \ {d}} :
               Replan([standing EXCEPT !.out = D])
      BY <1>5 DEF ToggleLeg
    <2>2. D \subseteq Day
      BY <1>2 DEF QueueAssumption, Standing
    <2>3. [standing EXCEPT !.out = D] \in Standing
      BY <1>2, <2>2 DEF Standing
    <2> QED BY <1>1, <2>1, <2>3
  <1> QED BY <1>3, <1>4, <1>5 DEF Prune

\* Removing rules takes their rows with them and touches no other row.
LEMMA RemoveInv ==
    ASSUME QueueInv, NEW R, RemoveRules(R)
    PROVE  QueueInv'
  <1> USE DEF RemoveRules, QueueInv
  <1>1. TypeOK' /\ OneRowPerTarget' /\ SentIsPast'
    BY DEF TypeOK, OneRowPerTarget, SentIsPast
  <1>2. PlanIsQueued'
    BY DEF PlanIsQueued, SameKey
  <1>3. NothingElsePending'
    BY DEF NothingElsePending
  <1> QED BY <1>1, <1>2, <1>3

\* Adding and removing rules.
LEMMA ChangeRulesInv ==
    ASSUME PlanAssumption, QueueAssumption, QueueInv, ChangeRules
    PROVE  QueueInv'
  <1>1. ASSUME NEW rule \in RuleChoice \ rules, AddRules({rule})
        PROVE  QueueInv'
    <2>1. {rule} \in SUBSET Rule
      BY DEF QueueAssumption
    <2> QED BY <1>1, <2>1, ReplanNew
  <1>2. CASE AddRules(Preset)
    <2>1. Preset \in SUBSET Rule
      BY DEF QueueAssumption
    <2> QED BY <1>2, <2>1, ReplanNew
  <1> QED BY <1>1, <1>2, RemoveInv DEF ChangeRules

\* Delivery marks rows that are due, which the plan no longer holds.
LEMMA TickInv ==
    ASSUME PlanAssumption, QueueInv, Tick
    PROVE  QueueInv'
  <1>1. PICK done \in SUBSET Due : queue' = (queue \ done) \cup
               {[w EXCEPT !.sent = TRUE, !.dm = TRUE] : w \in done}
    BY DEF Tick
  <1> DEFINE Marked(w) == [w EXCEPT !.sent = TRUE, !.dm = TRUE]
  <1>2. /\ concert' = concert /\ standing' = standing /\ rules' = rules /\ now' = now
        /\ notices' = notices /\ edits' = edits /\ failed' = FALSE
    BY DEF Tick
  <1>3. /\ queue \subseteq Row /\ done \subseteq queue
        /\ \A w \in done : ~w.sent /\ w.fire <= now
    BY DEF QueueInv, TypeOK, Due
  <1>4. ASSUME NEW w \in done
        PROVE  /\ Marked(w) \in Row /\ Marked(w).rule = w.rule /\ Marked(w).target = w.target
               /\ Marked(w).fire = w.fire /\ Marked(w).snoozed = w.snoozed /\ Marked(w).sent
    BY <1>3 DEF Row
  <1>5. \A v \in queue' : \/ v \in queue \ done
                          \/ \E w \in done : v = Marked(w)
    BY <1>1
  <1>6. /\ \A w \in queue \ done : w \in queue'
        /\ \A w \in done : Marked(w) \in queue'
    BY <1>1
  <1> HIDE DEF Marked
  <1>7. TypeOK'
    <2>1. queue' \subseteq Row
      BY <1>3, <1>4, <1>5
    <2> QED BY <1>2, <2>1 DEF QueueInv, TypeOK
  <1>8. ASSUME NEW v \in queue'
        PROVE  \E w \in queue : /\ v.rule = w.rule /\ v.target = w.target
                                /\ v = IF w \in done THEN Marked(w) ELSE w
    BY <1>3, <1>4, <1>5
  <1>9. OneRowPerTarget'
    <2> SUFFICES ASSUME NEW v \in queue', NEW w \in queue', v.rule = w.rule, v.target = w.target
                 PROVE  v = w
      BY DEF OneRowPerTarget
    <2>1. PICK x \in queue : /\ v.rule = x.rule /\ v.target = x.target
                             /\ v = IF x \in done THEN Marked(x) ELSE x
      BY <1>8
    <2>2. PICK y \in queue : /\ w.rule = y.rule /\ w.target = y.target
                             /\ w = IF y \in done THEN Marked(y) ELSE y
      BY <1>8
    <2>3. x = y
      BY <2>1, <2>2 DEF QueueInv, OneRowPerTarget
    <2> QED BY <2>1, <2>2, <2>3
  <1>10. PlanIsQueued'
    <2> SUFFICES ASSUME NEW rule \in rules, NEW t \in Planned(concert, standing, rule, now)
                 PROVE  \E v \in queue' :
                           /\ v.rule = rule /\ v.target = t
                           /\ v.snoozed \/ (~v.sent /\ v.fire = FireTime(concert, rule, t))
      BY <1>2 DEF PlanIsQueued, SameKey
    <2>1. PICK w \in queue : /\ w.rule = rule /\ w.target = t
                             /\ w.snoozed \/ (~w.sent /\ w.fire = FireTime(concert, rule, t))
      BY DEF QueueInv, PlanIsQueued, SameKey
    <2>2. CASE w \notin done
      BY <1>6, <2>1, <2>2
    <2>3. CASE w \in done
      <3>1. FireTime(concert, rule, t) > now
        BY DEF Planned
      <3>2. FireTime(concert, rule, t) \in Int /\ now \in Int
        BY CandidateType DEF QueueInv, TypeOK, Planned
      <3>3. w.snoozed
        BY <1>3, <2>1, <2>3, <3>1, <3>2
      <3> QED BY <1>4, <1>6, <2>1, <2>3, <3>3
    <2> QED BY <2>2, <2>3
  <1>11. NothingElsePending' /\ SentIsPast'
    BY <1>2, <1>3, <1>4, <1>5 DEF QueueInv, NothingElsePending, SentIsPast
  <1> QED BY <1>7, <1>9, <1>10, <1>11 DEF QueueInv

\* A snooze moves one row, and the row says so.
LEMMA SnoozeInv ==
    ASSUME PlanAssumption, QueueAssumption, QueueInv, SnoozeSome
    PROVE  QueueInv'
  <1>1. PICK w \in queue, k \in SnoozeDays : Snooze(w, k)
    BY DEF SnoozeSome
  <1> DEFINE m == [w EXCEPT !.fire = now + k, !.sent = FALSE, !.snoozed = TRUE]
  <1>2. /\ concert' = concert /\ standing' = standing /\ rules' = rules /\ now' = now
        /\ notices' = notices /\ edits' = edits /\ failed' = FALSE
        /\ queue' = (queue \ {w}) \cup {m}
    BY <1>1 DEF Snooze
  <1>3. w \in Row /\ k \in Int /\ now \in Int
    BY DEF QueueInv, TypeOK, QueueAssumption
  <1>4. /\ m \in Row /\ m.rule = w.rule /\ m.target = w.target
        /\ m.snoozed = TRUE /\ m.sent = FALSE
    <2>1. now + k \in Int
      BY <1>3
    <2> QED BY <1>3, <2>1 DEF Row
  <1> HIDE DEF m
  <1>5. TypeOK'
    BY <1>2, <1>4 DEF QueueInv, TypeOK
  <1>6. OneRowPerTarget'
    BY <1>2, <1>4 DEF QueueInv, OneRowPerTarget
  <1>7. PlanIsQueued'
    BY <1>2, <1>4 DEF QueueInv, PlanIsQueued, SameKey
  <1>8. NothingElsePending' /\ SentIsPast'
    BY <1>2, <1>4 DEF QueueInv, NothingElsePending, SentIsPast
  <1> QED BY <1>5, <1>6, <1>7, <1>8 DEF QueueInv

\* The passing of time only takes reminders out of the plan.
LEMMA WaitInv ==
    ASSUME PlanAssumption, QueueInv, Wait
    PROVE  QueueInv'
  <1>1. /\ concert' = concert /\ standing' = standing /\ rules' = rules /\ queue' = queue
        /\ notices' = notices /\ edits' = edits /\ failed' = failed /\ now' = now + 1
    BY DEF Wait
  <1>2. now \in Nat /\ now' \in Nat /\ now <= now'
    BY <1>1 DEF QueueInv, TypeOK
  <1>3. ASSUME NEW rule \in rules
        PROVE  Planned(concert, standing, rule, now') \subseteq Planned(concert, standing, rule, now)
    BY <1>2, PlanShrinks DEF QueueInv, TypeOK
  <1>4. PlanIsQueued'
    BY <1>1, <1>3 DEF QueueInv, PlanIsQueued, SameKey
  <1>5. TypeOK' /\ OneRowPerTarget' /\ NothingElsePending'
    BY <1>1, <1>2 DEF QueueInv, TypeOK, OneRowPerTarget, NothingElsePending
  <1>6. SentIsPast'
    <2> SUFFICES ASSUME NEW w \in queue, w.sent
                 PROVE  w.fire <= now'
      BY <1>1 DEF SentIsPast
    <2>1. w.fire \in Int /\ w.fire <= now
      BY DEF QueueInv, TypeOK, Row, SentIsPast
    <2> QED BY <1>2, <2>1
  <1> QED BY <1>4, <1>5, <1>6 DEF QueueInv

\* An accepted save leaves a concert.
LEMMA SavesType ==
    ASSUME QueueAssumption, NEW c \in Concert, NEW e \in Saves(c)
    PROVE  e \in Concert
  <1>1. DeadlineSaves(c) \subseteq Concert
    <2> SUFFICES ASSUME NEW r \in c.rounds, NEW a \in RoundAnchor, NEW t \in EditTimes
                 PROVE  [c EXCEPT !.at[r][a] = t] \in Concert
      BY DEF DeadlineSaves
    <2>1. t \in Time /\ r \in Round
      BY DEF QueueAssumption, Concert
    <2> QED BY <2>1 DEF Concert
  <1>2. StartSaves(c) \subseteq Concert
    <2> SUFFICES ASSUME NEW d \in c.days, NEW t \in EditTimes \ {NoTime}
                 PROVE  [c EXCEPT !.starts[d] = t] \in Concert
      BY DEF StartSaves
    <2>1. t \in Int /\ d \in Day
      BY DEF QueueAssumption, Concert, Time
    <2> QED BY <2>1 DEF Concert
  <1>3. CancelSaves(c) \subseteq Concert
    <2> SUFFICES ASSUME NEW D \in SUBSET c.days
                 PROVE  [c EXCEPT !.cancelled = D] \in Concert
      BY DEF CancelSaves
    <2>1. D \subseteq Day
      BY DEF Concert
    <2> QED BY <2>1 DEF Concert
  <1>4. LegSaves(c) \subseteq Concert
    <2> SUFFICES ASSUME NEW r \in c.rounds, NEW D \in SUBSET c.days
                 PROVE  [c EXCEPT !.legs[r] = D] \in Concert
      BY DEF LegSaves
    <2>1. D \subseteq Day
      BY DEF Concert
    <2> QED BY <2>1 DEF Concert
  <1>5. RoundSaves(c) \subseteq Concert
    <2> SUFFICES ASSUME NEW R \in {c.rounds \ {r} : r \in c.rounds} \cup {c.rounds \cup {r} : r \in Round}
                 PROVE  [c EXCEPT !.rounds = R] \in Concert
      BY DEF RoundSaves
    <2>1. R \subseteq Round
      BY DEF Concert
    <2> QED BY <2>1 DEF Concert
  <1>6. DayDrops(c) \subseteq Concert
    <2> SUFFICES ASSUME NEW d \in c.days
                 PROVE  [c EXCEPT !.days = @ \ {d}, !.cancelled = @ \ {d},
                                  !.legs = [r \in Round |-> c.legs[r] \ {d}]] \in Concert
      BY DEF DayDrops
    <2>1. [r \in Round |-> c.legs[r] \ {d}] \in [Round -> SUBSET Day]
      BY DEF Concert
    <2> QED BY <2>1 DEF Concert
  <1>7. DayAdds(c) \subseteq Concert
    <2> SUFFICES ASSUME NEW d \in Day
                 PROVE  [c EXCEPT !.days = @ \cup {d}] \in Concert
      BY DEF DayAdds
    <2>1. c.days \cup {d} \subseteq Day
      BY DEF Concert
    <2> QED BY <2>1 DEF Concert
  <1>8. PICK kind \in EditKinds :
             e \in CASE kind = "deadline" -> DeadlineSaves(c)
                     [] kind = "start"    -> StartSaves(c)
                     [] kind = "cancel"   -> CancelSaves(c)
                     [] kind = "legs"     -> LegSaves(c)
                     [] kind = "rounds"   -> RoundSaves(c)
                     [] kind = "days"     -> DayDrops(c) \cup DayAdds(c)
    BY DEF Saves
  <1>9. kind \in {"deadline", "start", "cancel", "legs", "rounds", "days"}
    BY DEF QueueAssumption
  <1> QED BY <1>1, <1>2, <1>3, <1>4, <1>5, <1>6, <1>7, <1>8, <1>9

\* An editor's save re-plans every rule, the ones it drops and adds included.
LEMMA EditInv ==
    ASSUME PlanAssumption, QueueAssumption, QueueInv, EditConcert
    PROVE  QueueInv'
  <1>1. PICK c \in Saves(concert) : Save(c)
    BY DEF EditConcert
  <1>2. edits' \in Nat
    BY DEF EditConcert, QueueInv, TypeOK
  <1> DEFINE s  == KeptStanding(standing, c)
             q  == KeptRows(queue, c)
             R1 == KeptRules(rules, c)
             R  == R1 \cup CaughtUp(c, s, R1)
  <1>3. c \in Concert
    BY SavesType DEF QueueInv, TypeOK
  <1>4. s \in Standing
    BY DEF KeptStanding, QueueInv, TypeOK, Standing
  <1>5. R \in SUBSET Rule
    <2>1. R1 \subseteq Rule
      BY DEF KeptRules, QueueInv, TypeOK
    <2>2. \A r \in LostOutcomes(c, s) : r \in Round
      BY <1>3 DEF LostOutcomes, Concert
    <2>3. \A r \in LostOutcomes(c, s) : ArmedRules(c, R1, r, WholeRound, ArmLead) \subseteq Rule
      BY <1>3, <2>2, ArmedType
    <2> QED BY <2>1, <2>3 DEF CaughtUp
  <1>6. q \in SUBSET queue
    BY DEF KeptRows
  <1>7. \A w \in q : ~w.sent /\ ~w.snoozed => w.rule \in R
    BY DEF KeptRows, KeptRules, QueueInv, NothingElsePending
  <1>8. CASE \E r \in LostOutcomes(c, s) : ArmingRaises(c, r, WholeRound)
    <2>1. /\ failed' = TRUE
          /\ UNCHANGED <<concert, standing, rules, queue, now, notices>>
      BY <1>1, <1>8 DEF Save
    <2> QED BY <1>2, <2>1 DEF QueueInv, TypeOK, OneRowPerTarget, PlanIsQueued,
                              NothingElsePending, SentIsPast
  <1>9. CASE ~ \E r \in LostOutcomes(c, s) : ArmingRaises(c, r, WholeRound)
    <2>1. /\ concert' = c /\ standing' = s /\ rules' = R /\ queue' = Synced(c, s, R, q)
          /\ now' = now /\ failed' = FALSE /\ (notices' = notices + 1 \/ notices' = notices + 0)
      BY <1>1, <1>9 DEF Save
    <2> HIDE DEF s, q, R1, R
    <2>2. /\ queue' \subseteq Row
          /\ (OneRowPerTarget /\ PlanIsQueued /\ NothingElsePending /\ SentIsPast)'
      BY <1>3, <1>4, <1>5, <1>6, <1>7, <2>1, ReplanAll
    <2>3. concert' \in Concert /\ standing' \in Standing /\ rules' \subseteq Rule
      BY <1>3, <1>4, <1>5, <2>1
    <2>4. now' \in Nat /\ notices' \in Nat /\ failed' \in BOOLEAN
      <3>1. now \in Nat /\ notices \in Nat
        BY DEF QueueInv, TypeOK
      <3>2. notices' \in Nat
        BY <2>1, <3>1
      <3> QED BY <2>1, <3>1, <3>2
    <2>5. TypeOK'
      BY <1>2, <2>2, <2>3, <2>4 DEF TypeOK
    <2> QED BY <2>2, <2>5 DEF QueueInv
  <1> QED BY <1>8, <1>9

----------------------------------------------------------------------------
(* The theorems.                                                           *)

\* Init => Inv.
LEMMA InitInv ==
    ASSUME QueueAssumption, Init
    PROVE  QueueInv
  <1>1. NoStanding \in Standing
    BY DEF NoStanding, Standing
  <1>2. TypeOK
    BY <1>1 DEF Init, TypeOK, QueueAssumption
  <1> QED BY <1>2 DEF Init, QueueInv, OneRowPerTarget, PlanIsQueued, NothingElsePending, SentIsPast

\* Inv /\ [Next]_vars => Inv'.
LEMMA NextInv ==
    ASSUME PlanAssumption, QueueAssumption, QueueInv, [Next]_vars
    PROVE  QueueInv'
  <1>1. CASE Press
    BY <1>1, PressInv
  <1>2. CASE Prune
    BY <1>2, PruneInv
  <1>3. CASE ChangeRules
    BY <1>3, ChangeRulesInv
  <1>4. CASE SnoozeSome
    BY <1>4, SnoozeInv
  <1>5. CASE Tick
    BY <1>5, TickInv
  <1>6. CASE Wait
    BY <1>6, WaitInv
  <1>7. CASE EditConcert
    BY <1>7, EditInv
  <1>8. CASE UNCHANGED vars
    BY <1>8 DEF vars, QueueInv, TypeOK, OneRowPerTarget, PlanIsQueued,
                NothingElsePending, SentIsPast
  <1> QED BY <1>1, <1>2, <1>3, <1>4, <1>5, <1>6, <1>7, <1>8 DEF Next

\* The queue invariant holds in every reachable state.
THEOREM QueueInvariant == Spec => []QueueInv
  <1>1. Init => QueueInv
    BY InitInv, QueueAssumption
  <1>2. QueueInv /\ [Next]_vars => QueueInv'
    BY NextInv, PlanAssumption, QueueAssumption
  <1> QED BY <1>1, <1>2, PTL DEF Spec

\* Type correctness, whatever is pressed, saved, snoozed and delivered.
THEOREM TypeCorrect == Spec => []TypeOK
  <1>1. QueueInv => TypeOK
    BY DEF QueueInv
  <1> QED BY <1>1, QueueInvariant, PTL

\* One row per rule and round or leg: the dedupe key is never violated.
THEOREM OneRow == Spec => []OneRowPerTarget
  <1>1. QueueInv => OneRowPerTarget
    BY DEF QueueInv
  <1> QED BY <1>1, QueueInvariant, PTL

\* No reminder that the rules imply is ever missing from the queue.
THEOREM NothingMissing == Spec => []PlanIsQueued
  <1>1. QueueInv => PlanIsQueued
    BY DEF QueueInv
  <1> QED BY <1>1, QueueInvariant, PTL

\* No pending reminder outlives what it was planned from.
THEOREM NothingStale == Spec => []NothingElsePending
  <1>1. QueueInv => NothingElsePending
    BY DEF QueueInv
  <1> QED BY <1>1, QueueInvariant, PTL

\* No delivered row is ahead of the clock.
THEOREM NothingEarly == Spec => []SentIsPast
  <1>1. QueueInv => SentIsPast
    BY DEF QueueInv
  <1> QED BY <1>1, QueueInvariant, PTL

----------------------------------------------------------------------------
(* Two action properties.  Their steps fall into three kinds: a re-plan of *)
(* what is left of the queue, a queue that only lost rows, and the two     *)
(* actions that rewrite a row, Tick and Snooze.                            *)

\* The foreign key of reminder_queue: a row's rule exists.
RowsOwned == \A w \in queue : w.rule \in rules

QueueStep ==
    \/ \E c, s, R, q : /\ q \subseteq queue /\ R \subseteq rules'
                       /\ \A w \in q : w.rule \in rules'
                       /\ queue' = Synced(c, s, R, q)
    \/ queue' \subseteq queue /\ \A w \in queue' : w.rule \in rules'
    \/ Tick \/ SnoozeSome

\* What a save makes of the queue and the rules, unless it raises.
LEMMA SaveReplans ==
    ASSUME RowsOwned, NEW c, Save(c)
    PROVE  \/ UNCHANGED <<concert, standing, rules, queue, notices>>
           \/ /\ concert' = c /\ standing' = KeptStanding(standing, c)
              /\ rules' = KeptRules(rules, c) \cup CaughtUp(c, standing', KeptRules(rules, c))
              /\ queue' = Synced(c, standing', rules', KeptRows(queue, c))
              /\ KeptRows(queue, c) \subseteq queue
              /\ \A w \in KeptRows(queue, c) : w.rule \in rules'
              /\ notices' = notices +
                   (IF LosesAll(KeptRows(queue, c), c, c.cancelled \ concert.cancelled)
                    THEN 1 ELSE 0)
  <1> DEFINE s == KeptStanding(standing, c)
             q == KeptRows(queue, c)
             R == KeptRules(rules, c) \cup CaughtUp(c, s, KeptRules(rules, c))
  <1>1. /\ q \subseteq queue
        /\ \A w \in q : w.rule \in R
    BY DEF KeptRows, KeptRules, RowsOwned
  <1>2. CASE \E r \in LostOutcomes(c, s) : ArmingRaises(c, r, WholeRound)
    BY <1>2 DEF Save
  <1>3. CASE ~ \E r \in LostOutcomes(c, s) : ArmingRaises(c, r, WholeRound)
    <2>1. /\ concert' = c /\ standing' = s /\ rules' = R /\ queue' = Synced(c, s, R, q)
          /\ notices' = notices + (IF LosesAll(q, c, c.cancelled \ concert.cancelled) THEN 1 ELSE 0)
      BY <1>3 DEF Save
    <2> HIDE DEF q
    <2> QED BY <1>1, <2>1 DEF q
  <1> QED BY <1>2, <1>3

\* Every step is of one of the three kinds.
LEMMA EveryQueueStep ==
    ASSUME RowsOwned, [Next]_vars
    PROVE  QueueStep
  <1>1. ASSUME NEW w, NEW r, Answer(w, r)
        PROVE  QueueStep
    <2>1. CASE Raise
      BY <2>1 DEF Raise, QueueStep, RowsOwned
    <2>2. CASE Commit(w, r)
      <3>1. queue' = Synced(concert, w.standing, rules', queue) /\ rules \subseteq rules'
        BY <2>2 DEF Commit
      <3> QED BY <3>1 DEF QueueStep, RowsOwned
    <2> QED BY <1>1, <2>1, <2>2 DEF Answer
  <1>2. CASE Press
    BY <1>1, <1>2 DEF Press, PressOutcome, PressWonAllLegs, PressLostAllLegs, Backtrack,
                      PressLostRest, PressLeg, BacktrackLeg
  <1>3. CASE Prune
    <2>1. ASSUME NEW s, Replan(s) PROVE QueueStep
      BY <2>1 DEF Replan, QueueStep, RowsOwned
    <2> QED BY <1>3, <2>1 DEF Prune, TogglePrune, Reinstate, ToggleLeg
  <1>4. CASE ChangeRules
    <2>1. ASSUME NEW R, AddRules(R) PROVE QueueStep
      <3>1. /\ queue' = Synced(concert, standing, R \ rules, queue)
            /\ R \ rules \subseteq rules' /\ \A w \in queue : w.rule \in rules'
        BY <2>1 DEF AddRules, RowsOwned
      <3> QED BY <3>1 DEF QueueStep
    <2>2. ASSUME NEW R, RemoveRules(R) PROVE QueueStep
      BY <2>2 DEF RemoveRules, QueueStep, RowsOwned
    <2> QED BY <1>4, <2>1, <2>2 DEF ChangeRules
  <1>5. CASE SnoozeSome \/ Tick
    BY <1>5 DEF QueueStep
  <1>6. CASE Wait \/ UNCHANGED vars
    BY <1>6 DEF Wait, vars, QueueStep, RowsOwned
  <1>7. CASE EditConcert
    <2>1. PICK c \in Saves(concert) : Save(c)
      BY <1>7 DEF EditConcert
    <2>2. CASE UNCHANGED <<concert, standing, rules, queue, notices>>
      BY <2>2 DEF QueueStep, RowsOwned
    <2>3. CASE /\ queue' = Synced(c, standing', rules', KeptRows(queue, c))
               /\ KeptRows(queue, c) \subseteq queue
               /\ \A w \in KeptRows(queue, c) : w.rule \in rules'
      BY <2>3 DEF QueueStep
    <2> QED BY <2>1, <2>2, <2>3, SaveReplans
  <1> QED BY <1>2, <1>3, <1>4, <1>5, <1>6, <1>7 DEF Next

\* No step leaves a row without its rule.
LEMMA StepKeepsOwners ==
    ASSUME QueueInv, RowsOwned, [Next]_vars
    PROVE  RowsOwned'
  <1>1. ASSUME NEW c, NEW s, NEW R, NEW q,
               R \subseteq rules', \A w \in q : w.rule \in rules',
               queue' = Synced(c, s, R, q)
        PROVE  RowsOwned'
    <2>1. \A rule \in R : \A t \in Planned(c, s, rule, now) : ArmedRow(c, q, rule, t).rule = rule
      BY DEF ArmedRow
    <2>2. ASSUME NEW w \in queue' PROVE w.rule \in rules'
      BY <1>1, <2>1, SyncedRows
    <2> QED BY <2>2 DEF RowsOwned
  <1>2. CASE queue' \subseteq queue /\ \A w \in queue' : w.rule \in rules'
    BY <1>2 DEF RowsOwned
  <1>3. CASE Tick
    <2>1. PICK done \in SUBSET Due : queue' = (queue \ done) \cup
                 {[w EXCEPT !.sent = TRUE, !.dm = TRUE] : w \in done}
      BY <1>3 DEF Tick
    <2>2. done \subseteq queue /\ queue \subseteq Row /\ rules' = rules
      BY <1>3 DEF Due, QueueInv, TypeOK, Tick
    <2>3. \A w \in done : [w EXCEPT !.sent = TRUE, !.dm = TRUE].rule = w.rule
      BY <2>2 DEF Row
    <2> QED BY <2>1, <2>2, <2>3 DEF RowsOwned
  <1>4. CASE SnoozeSome
    <2>1. PICK w \in queue, k \in SnoozeDays : Snooze(w, k)
      BY <1>4 DEF SnoozeSome
    <2>2. w \in Row /\ rules' = rules
      BY <2>1 DEF QueueInv, TypeOK, Snooze
    <2>3. [w EXCEPT !.fire = now + k, !.sent = FALSE, !.snoozed = TRUE].rule = w.rule
      BY <2>2 DEF Row
    <2>4. queue' = (queue \ {w}) \cup
             {[w EXCEPT !.fire = now + k, !.sent = FALSE, !.snoozed = TRUE]}
      BY <2>1 DEF Snooze
    <2> QED BY <2>2, <2>3, <2>4 DEF RowsOwned
  <1> QED BY <1>1, <1>2, <1>3, <1>4, EveryQueueStep DEF QueueStep

\* The queue invariant together with the foreign key.
THEOREM OwnedInvariant == Spec => [](QueueInv /\ RowsOwned)
  <1>1. Init => RowsOwned
    BY DEF Init, RowsOwned
  <1>2. QueueInv /\ RowsOwned /\ [Next]_vars => RowsOwned'
    BY StepKeepsOwners
  <1> QED BY <1>1, <1>2, QueueInvariant, PTL DEF Spec

\* A delivered reminder comes back only for a later moment: a re-plan re-arms
\* only what is ahead of the clock, a snooze only moves forward, and the row
\* that was delivered is the only one with its key.
LEMMA StepNeverRepeats ==
    ASSUME QueueAssumption, QueueInv, RowsOwned, [Next]_vars,
           NEW w \in queue, NEW v \in queue', SameKey(v, w.rule, w.target), w.sent, ~v.sent
    PROVE  v.fire > w.fire /\ v.fire > now
  <1>0. /\ now \in Nat /\ w.fire \in Int /\ w.fire <= now /\ queue \subseteq Row
        /\ v.rule = w.rule /\ v.target = w.target
    BY DEF QueueInv, TypeOK, Row, SentIsPast, SameKey
  <1>1. v \notin queue
    BY <1>0 DEF QueueInv, OneRowPerTarget
  <1>2. v.fire \in Int /\ v.fire > now => v.fire > w.fire
    BY <1>0
  <1>3. v.fire \in Int
    BY NextInv, PlanAssumption DEF QueueInv, TypeOK, Row
  <1>4. v.fire > now
    <2>1. ASSUME NEW c, NEW s, NEW R, NEW q, q \subseteq queue, queue' = Synced(c, s, R, q)
          PROVE  v.fire > now
      <3>1. PICK rule \in R : \E t \in Planned(c, s, rule, now) : v = ArmedRow(c, q, rule, t)
        BY <1>1, <2>1, SyncedRows
      <3>2. PICK t \in Planned(c, s, rule, now) : v = ArmedRow(c, q, rule, t)
        BY <3>1
      <3>3. v.fire = FireTime(c, rule, t)
        BY <3>2 DEF ArmedRow
      <3> QED BY <3>3 DEF Planned
    <2>2. CASE queue' \subseteq queue
      BY <1>1, <2>2
    <2>3. CASE Tick
      <3>1. PICK done \in SUBSET Due : queue' = (queue \ done) \cup
                   {[x EXCEPT !.sent = TRUE, !.dm = TRUE] : x \in done}
        BY <2>3 DEF Tick
      <3>2. \A x \in done : [x EXCEPT !.sent = TRUE, !.dm = TRUE].sent = TRUE
        BY <1>0 DEF Due, Row
      <3> QED BY <1>1, <3>1, <3>2
    <2>4. CASE SnoozeSome
      <3>1. PICK x \in queue, k \in SnoozeDays : Snooze(x, k)
        BY <2>4 DEF SnoozeSome
      <3>2. v = [x EXCEPT !.fire = now + k, !.sent = FALSE, !.snoozed = TRUE]
        BY <1>1, <3>1 DEF Snooze
      <3>3. k \in Nat \ {0} /\ v.fire = now + k
        BY <1>0, <3>2 DEF Row, QueueAssumption
      <3> QED BY <1>0, <3>3
    <2> QED BY <2>1, <2>2, <2>3, <2>4, EveryQueueStep DEF QueueStep
  <1> QED BY <1>2, <1>3, <1>4

\* No re-plan, tick or snooze re-sends a reminder for the moment it was about.
THEOREM DeliveredStaysDelivered == Spec => NeverRepeated
  <1> DEFINE Once == \A w \in queue, v \in queue' :
                        SameKey(v, w.rule, w.target) /\ w.sent /\ ~v.sent
                            => v.fire > w.fire /\ v.fire > now
  <1>1. ASSUME QueueInv, RowsOwned, [Next]_vars
        PROVE  Once
    BY <1>1, StepNeverRepeats, QueueAssumption
  <1> HIDE DEF Once
  <1>2. QueueInv /\ RowsOwned /\ [Next]_vars => [Once]_vars
    BY <1>1
  <1>3. Spec => [][Once]_vars
    BY <1>2, OwnedInvariant, PTL DEF Spec
  <1> QED BY <1>3 DEF Once, NeverRepeated

\* Only a save queues a notice.
LEMMA OnlySavesNotify ==
    ASSUME QueueInv, [Next]_vars, notices' > notices
    PROVE  EditConcert
  <1>0. notices \in Nat /\ notices' # notices
    BY DEF QueueInv, TypeOK
  <1>1. ~Press
    <2>1. ASSUME NEW w, NEW r, Answer(w, r) PROVE FALSE
      BY <1>0, <2>1 DEF Answer, Raise, Commit
    <2> QED BY <2>1 DEF Press, PressOutcome, PressWonAllLegs, PressLostAllLegs, Backtrack,
                        PressLostRest, PressLeg, BacktrackLeg
  <1>2. ~Prune
    BY <1>0 DEF Prune, TogglePrune, Reinstate, ToggleLeg, Replan
  <1>3. ~ChangeRules
    BY <1>0 DEF ChangeRules, AddRules, RemoveRules
  <1>4. ~SnoozeSome /\ ~Tick /\ ~Wait /\ ~UNCHANGED vars
    BY <1>0 DEF SnoozeSome, Snooze, Tick, Wait, vars
  <1> QED BY <1>1, <1>2, <1>3, <1>4 DEF Next

\* What a save cancels is not planned any more: a cancelled leg, and a round
\* that it leaves without a leg.
LEMMA DoomedIsUnplanned ==
    ASSUME PlanAssumption, NEW c \in Concert, NEW s, NEW rule, NEW newly, newly \subseteq c.cancelled,
           NEW t \in newly \cup LostRounds(c, newly)
    PROVE  t \notin Candidates(c, s, rule)
  <1>1. c.cancelled \subseteq Day /\ c.rounds \subseteq Round
    BY DEF Concert
  <1>2. CASE t \in newly
    <2>1. t \in c.cancelled /\ t \notin c.rounds
      BY <1>1, <1>2 DEF PlanAssumption
    <2> QED BY <2>1 DEF Candidates, LiveDays, LiveRounds
  <1>3. CASE t \in LostRounds(c, newly)
    <2>1. t \in c.rounds /\ (AllLegsCancelled(c) \/ RoundCancelled(c, t))
      BY <1>3 DEF LostRounds
    <2>2. t \notin LiveRounds(c, s, rule)
      BY <2>1 DEF LiveRounds
    <2>3. t \notin LiveDays(c, s, rule)
      BY <1>1, <2>1 DEF LiveDays, PlanAssumption, Concert
    <2> QED BY <2>2, <2>3 DEF Candidates
  <1> QED BY <1>2, <1>3

\* The notice says that the reader's reminders were cleared, and they are: no
\* row of theirs that was pending is pending after the save.
LEMMA NoticeStep ==
    ASSUME PlanAssumption, QueueAssumption, QueueInv, RowsOwned, NEW c \in Saves(concert), Save(c),
           notices' > notices
    PROVE  /\ \E w \in queue : ~w.sent
           /\ \A w \in queue, v \in queue' :
                 ~w.sent /\ SameKey(v, w.rule, w.target) => v.sent
  <1> DEFINE q     == KeptRows(queue, c)
             newly == c.cancelled \ concert.cancelled
  <1>1. c \in Concert
    BY SavesType DEF QueueInv, TypeOK
  <1>2. /\ notices' # notices /\ notices + 0 = notices
    BY DEF QueueInv, TypeOK
  <1>3. /\ concert' = c /\ queue' = Synced(c, standing', rules', q)
        /\ q \subseteq queue /\ \A w \in q : w.rule \in rules'
        /\ rules' = KeptRules(rules, c) \cup CaughtUp(c, standing', KeptRules(rules, c))
        /\ LosesAll(q, c, newly)
    BY <1>2, SaveReplans
  <1>4. /\ \E w \in q : ~w.sent
        /\ \A w \in q : ~w.sent => w.target \in newly \cup LostRounds(c, newly)
    BY <1>3 DEF LosesAll, Doomed
  <1>5. \A rule \in rules' : rule.scope \in c.rounds \cup {AllRounds}
    <2>1. \A r : \A rule \in ArmedRules(c, KeptRules(rules, c), r, WholeRound, ArmLead) :
             rule.scope \in c.rounds
      <3> SUFFICES ASSUME NEW r, NEW rule \in ArmedRules(c, KeptRules(rules, c), r, WholeRound, ArmLead)
                   PROVE  rule.scope \in c.rounds
        OBVIOUS
      <3> DEFINE next == NextRounds(c, r, WholeRound)
                 n    == CHOOSE m \in next : TRUE
      <3>1. next # {} /\ rule = [scope |-> n, anchor |-> "OPENS", lead |-> ArmLead]
        BY DEF ArmedRules
      <3>2. n \in next
        BY <3>1
      <3>3. next \subseteq c.rounds
        BY DEF NextRounds, LaterFallbacks, Fallbacks
      <3> QED BY <3>1, <3>2, <3>3
    <2>2. \A rule \in KeptRules(rules, c) : rule.scope \in c.rounds \cup {AllRounds}
      BY DEF KeptRules
    <2> QED BY <1>3, <2>1, <2>2 DEF CaughtUp
  <1>6. ASSUME NEW rule \in rules', NEW t \in Planned(c, standing', rule, now)
        PROVE  t \in Candidates(c, standing', rule) /\ t \in c.rounds \cup c.days
    BY DEF Planned, Candidates, LiveRounds, LiveDays
  <1>7. ASSUME NEW w \in queue, ~w.sent, NEW v \in queue', SameKey(v, w.rule, w.target)
        PROVE  v.sent
    <2> SUFFICES ASSUME ~v.sent PROVE FALSE
      OBVIOUS
    <2>0. v.rule = w.rule /\ v.target = w.target
      BY <1>7 DEF SameKey
    <2>1. CASE v \in q /\ (v.rule \in rules' => v.sent)
      BY <1>3, <2>1
    <2>2. ASSUME NEW rule \in rules', NEW t \in Planned(c, standing', rule, now),
                 v = ArmedRow(c, q, rule, t)
          PROVE  FALSE
      <3>1. v.rule = rule /\ v.target = t
        BY <2>2 DEF ArmedRow
      <3>2. w \in q
        BY <1>5, <1>6, <2>0, <3>1 DEF KeptRows
      <3>3. t \in newly \cup LostRounds(c, newly)
        BY <1>4, <1>7, <2>0, <3>1, <3>2
      <3>4. newly \subseteq c.cancelled
        OBVIOUS
      <3>5. t \notin Candidates(c, standing', rule)
        BY <1>1, <3>3, <3>4, DoomedIsUnplanned
      <3> QED BY <1>6, <3>5
    <2>3. v \in Synced(c, standing', rules', q)
      BY <1>3
    <2> HIDE DEF q
    <2> QED BY <2>1, <2>2, <2>3, SyncedRows
  <1> QED BY <1>3, <1>4, <1>7

\* The notice is sent only to a reader who had pending reminders, all of which
\* the save really clears.
THEOREM NoticesAreTrue == Spec => NoticeIsTrue
  <1> DEFINE Truthful == notices' > notices =>
               /\ \E w \in queue : ~w.sent
               /\ \A w \in queue, v \in queue' :
                     ~w.sent /\ SameKey(v, w.rule, w.target) => v.sent
  <1>1. ASSUME QueueInv, RowsOwned, [Next]_vars
        PROVE  Truthful
    <2> SUFFICES ASSUME notices' > notices
                 PROVE  /\ \E w \in queue : ~w.sent
                        /\ \A w \in queue, v \in queue' :
                              ~w.sent /\ SameKey(v, w.rule, w.target) => v.sent
      OBVIOUS
    <2>1. PICK c \in Saves(concert) : Save(c)
      BY <1>1, OnlySavesNotify DEF EditConcert
    <2> QED BY <1>1, <2>1, NoticeStep, PlanAssumption, QueueAssumption
  <1> HIDE DEF Truthful
  <1>2. QueueInv /\ RowsOwned /\ [Next]_vars => [Truthful]_vars
    BY <1>1
  <1>3. Spec => [][Truthful]_vars
    BY <1>2, OwnedInvariant, PTL DEF Spec
  <1> QED BY <1>3 DEF Truthful, NoticeIsTrue

----------------------------------------------------------------------------
(* What a writer of an outcome does to the two layers.                     *)

\* A write for the round r leaves the other rounds alone.
OthersUntouched(s, t, r) ==
    \A q \in Round \ {r} : t.outcome[q] = s.outcome[q] /\ t.result[q] = s.result[q]

\* If won legs made the round won before, they do after.
WinsStaySecured(s, t, r) ==
    (WonDays(s, r) # {} => s.outcome[r] \in Secured)
        => (WonDays(t, r) # {} => t.outcome[r] \in Secured)

\* One leg's ticket is given up at most, unless the round was cleared.
OneTicketAtMost(c, s, t, r) ==
    (\E d \in Day : Held(c, s, r) \subseteq Held(c, t, r) \cup {d}) \/ t.outcome[r] = "NONE"
        \/ Held(c, s, r) \subseteq Held(c, t, r)

\* The legs that t says are lost and s does not.
LostSince(s, t, r) == {d \in Day : t.result[r][d] = "LOST" /\ s.result[r][d] # "LOST"}

\* No leg's answer was taken back.
NoRowGone(s, t, r) == \A d \in Day : s.result[r][d] # "NONE" => t.result[r][d] # "NONE"

\* What is armed is what was lost.
LossIsArmed(s, t, r, arm) ==
    /\ s.outcome[r] # "LOST" /\ t.outcome[r] = "LOST" /\ NoRowGone(s, t, r) => arm = WholeRound
    /\ LostSince(s, t, r) # {} /\ t.outcome[r] # "LOST" => arm = LegsLost(LostSince(s, t, r))

----------------------------------------------------------------------------
(* What each writer does to the round it is about.                         *)

\* A round's own outcome is one field of it.
LEMMA SetOutcomeFacts ==
    ASSUME NEW s \in Standing, NEW r \in Round, NEW o
    PROVE  /\ SetOutcome(s, r, o).outcome[r] = o
           /\ SetOutcome(s, r, o).result = s.result
           /\ \A q \in Round \ {r} : SetOutcome(s, r, o).outcome[q] = s.outcome[q]
  BY DEF SetOutcome, Standing

\* Spelling out an implied win adds WON rows on covered legs and nothing else.
LEMMA MaterializeFacts ==
    ASSUME NEW c \in Concert, NEW s \in Standing, NEW r \in Round, NEW t,
           t = MaterializeWins(c, s, r)
    PROVE  /\ t.outcome = s.outcome
           /\ \A q \in Round \ {r} : t.result[q] = s.result[q]
           /\ \A d \in Day : t.result[r][d] =
                 IF s.outcome[r] \in Secured /\ ~HasDayRows(s, r) /\ d \in CoveredDays(c, r)
                 THEN "WON" ELSE s.result[r][d]
           /\ s.outcome[r] \in Secured => WonDays(t, r) \cap CoveredDays(c, r) = SecuredDays(c, s, r)
  <1>1. CASE s.outcome[r] \in Secured /\ ~HasDayRows(s, r)
    <2>1. t = [s EXCEPT !.result[r] = [d \in Day |->
                  IF d \in CoveredDays(c, r) THEN "WON" ELSE "NONE"]]
      BY <1>1 DEF MaterializeWins
    <2>2. \A d \in Day : s.result[r][d] = "NONE"
      BY <1>1 DEF HasDayRows
    <2>3. /\ t.outcome = s.outcome
          /\ \A q \in Round \ {r} : t.result[q] = s.result[q]
          /\ \A d \in Day : t.result[r][d] = IF d \in CoveredDays(c, r) THEN "WON" ELSE "NONE"
      BY <2>1 DEF Standing
    <2>4. CoveredDays(c, r) \subseteq Day
      BY DEF CoveredDays, Concert
    <2>5. WonDays(t, r) = CoveredDays(c, r)
      BY <2>3, <2>4 DEF WonDays
    <2>6. SecuredDays(c, s, r) = CoveredDays(c, r)
      BY <1>1 DEF SecuredDays
    <2> QED BY <1>1, <2>2, <2>3, <2>5, <2>6
  <1>2. CASE ~(s.outcome[r] \in Secured /\ ~HasDayRows(s, r))
    <2>1. t = s
      BY <1>2 DEF MaterializeWins
    <2>2. s.outcome[r] \in Secured => SecuredDays(c, s, r) = WonDays(s, r) \cap CoveredDays(c, r)
      BY <1>2 DEF SecuredDays
    <2> QED BY <1>2, <2>1, <2>2
  <1> QED BY <1>1, <1>2

\* The legs a concert's round covers are legs.
LEMMA CoveredAreDays ==
    ASSUME NEW c \in Concert, NEW s, NEW r
    PROVE  CoveredDays(c, r) \subseteq Day /\ UnresolvedDays(c, s, r) \subseteq Day
  BY DEF CoveredDays, UnresolvedDays, Concert

\* The tail of every lost leg changes the round's own outcome or nothing.
LEMMA SettleFacts ==
    ASSUME NEW c, NEW s \in Standing, NEW r \in Round, NEW lost, NEW w,
           w = SettleLostDays(c, s, r, lost)
    PROVE  /\ w.standing.result = s.result
           /\ \A q \in Round \ {r} : w.standing.outcome[q] = s.outcome[q]
           /\ \/ /\ WonDays(s, r) = {} /\ UnresolvedDays(c, s, r) = {}
                 /\ w.standing.outcome[r] = "LOST" /\ w.arm = WholeRound
              \/ /\ WonDays(s, r) # {} \/ UnresolvedDays(c, s, r) # {}
                 /\ w.standing = s /\ w.arm = LegsLost(lost)
  BY SetOutcomeFacts DEF SettleLostDays, RecordRoundOutcome, Write

\* Any writer that keeps the rows and sets the round's own outcome: an answer
\* for a round as a whole.
LEMMA FlatFacts ==
    ASSUME NEW c \in Concert, NEW s \in Standing, NEW r \in Round, NEW o \in Outcome,
           NEW w, w = RecordRoundOutcome(s, r, o)
    PROVE  /\ OthersUntouched(s, w.standing, r)
           /\ LossIsArmed(s, w.standing, r, w.arm)
           /\ o # "LOST" /\ OutcomeAccepted(s, r, o) =>
                 WinsStaySecured(s, w.standing, r) /\ OneTicketAtMost(c, s, w.standing, r)
           /\ s.outcome[r] \notin Secured =>
                 WinsStaySecured(s, w.standing, r) /\ OneTicketAtMost(c, s, w.standing, r)
  <1> DEFINE t == w.standing
  <1>1. /\ t.outcome[r] = o /\ t.result = s.result
        /\ \A q \in Round \ {r} : t.outcome[q] = s.outcome[q]
        /\ o = "LOST" => w.arm = WholeRound
    <2>1. w.standing = SetOutcome(s, r, o) /\ (o = "LOST" => w.arm = WholeRound)
      BY DEF RecordRoundOutcome, Write
    <2> QED BY <2>1, SetOutcomeFacts
  <1> HIDE DEF t
  <1>2. OthersUntouched(s, t, r) /\ LossIsArmed(s, t, r, w.arm)
    <2>1. LostSince(s, t, r) = {}
      BY <1>1 DEF LostSince
    <2>2. OthersUntouched(s, t, r)
      BY <1>1 DEF OthersUntouched
    <2>3. LossIsArmed(s, t, r, w.arm)
      BY <1>1, <2>1 DEF LossIsArmed
    <2> QED BY <2>2, <2>3
  <1>3. WonDays(t, r) = WonDays(s, r) /\ HasDayRows(t, r) = HasDayRows(s, r)
    BY <1>1 DEF WonDays, HasDayRows
  <1>4. ASSUME s.outcome[r] \notin Secured
        PROVE  WinsStaySecured(s, t, r) /\ OneTicketAtMost(c, s, t, r)
    <2>1. Held(c, s, r) = {}
      BY <1>4 DEF Held, SecuredRounds
    <2> QED BY <1>3, <1>4, <2>1 DEF WinsStaySecured, OneTicketAtMost
  <1>5. ASSUME o # "LOST", OutcomeAccepted(s, r, o), s.outcome[r] \in Secured
        PROVE  WinsStaySecured(s, t, r) /\ OneTicketAtMost(c, s, t, r)
    <2>1. t.outcome[r] \in Secured
      BY <1>1, <1>5 DEF OutcomeAccepted, Outcome, Secured
    <2>2. Held(c, s, r) = Held(c, t, r)
      BY <1>3, <1>5, <2>1 DEF Held, SecuredRounds, SecuredDays
    <2> QED BY <2>1, <2>2 DEF WinsStaySecured, OneTicketAtMost
  <1> QED BY <1>2, <1>4, <1>5 DEF t

\* "Won (all)" on a round that is not won yet.
LEMMA WonAllFacts ==
    ASSUME NEW c \in Concert, NEW s \in Standing, NEW r \in Round, NEW t,
           t = PressWonAll(c, s, r), s.outcome[r] \notin Secured
    PROVE  /\ OthersUntouched(s, t, r) /\ LossIsArmed(s, t, r, NoArm)
           /\ WinsStaySecured(s, t, r) /\ OneTicketAtMost(c, s, t, r)
  <1>1. /\ t.outcome[r] = "WON"
        /\ \A q \in Round \ {r} : t.outcome[q] = s.outcome[q] /\ t.result[q] = s.result[q]
        /\ \A d \in Day : t.result[r][d] \in {"WON", s.result[r][d]}
    <2> DEFINE s1  == SetOutcome(s, r, "WON")
               row == [d \in Day |-> IF HasDayRows(s, r) /\ d \in UnresolvedDays(c, s, r)
                                     THEN "WON" ELSE s.result[r][d]]
    <2>1. s1 \in Standing
      BY SetOutcomeType DEF Outcome
    <2>2. /\ s1.outcome[r] = "WON" /\ s1.result = s.result
          /\ \A q \in Round \ {r} : s1.outcome[q] = s.outcome[q]
      BY SetOutcomeFacts
    <2>3. t = [s1 EXCEPT !.result[r] = row]
      BY DEF PressWonAll
    <2>4. \A d \in Day : row[d] \in {"WON", s.result[r][d]}
      OBVIOUS
    <2> HIDE DEF s1, row
    <2>5. /\ t.outcome = s1.outcome /\ t.result[r] = row
          /\ \A q \in Round \ {r} : t.result[q] = s1.result[q]
      BY <2>1, <2>3 DEF Standing
    <2> QED BY <2>2, <2>4, <2>5
  <1>2. Held(c, s, r) = {}
    BY DEF Held, SecuredRounds
  <1>3. LostSince(s, t, r) = {}
    BY <1>1 DEF LostSince
  <1>4. OthersUntouched(s, t, r)
    BY <1>1 DEF OthersUntouched
  <1>5. LossIsArmed(s, t, r, NoArm)
    BY <1>1, <1>3 DEF LossIsArmed
  <1>6. WinsStaySecured(s, t, r)
    BY <1>1 DEF WinsStaySecured, Secured
  <1>7. OneTicketAtMost(c, s, t, r)
    BY <1>2 DEF OneTicketAtMost
  <1> QED BY <1>4, <1>5, <1>6, <1>7

\* The legs that are still won after a leg of the round got a result, or all
\* open ones were lost, are the ones held before, but that leg.
LEMMA TicketsLeft ==
    ASSUME NEW c \in Concert, NEW s \in Standing, NEW r \in Round, NEW D \in SUBSET Day,
           NEW t, WonDays(MaterializeWins(c, s, r), r) \subseteq WonDays(t, r) \cup D,
           s.outcome[r] \in Secured,
           (t.outcome[r] = s.outcome[r] /\ HasDayRows(t, r)) \/ WonDays(t, r) = {}
    PROVE  Held(c, s, r) \subseteq Held(c, t, r) \cup D
  <1> DEFINE m == MaterializeWins(c, s, r)
  <1>1. WonDays(m, r) \cap CoveredDays(c, r) = SecuredDays(c, s, r)
    BY MaterializeFacts
  <1>2. Held(c, s, r) \subseteq WonDays(m, r) \cap CoveredDays(c, r)
    BY <1>1 DEF Held
  <1>3. CASE WonDays(t, r) = {}
    BY <1>2, <1>3
  <1>4. CASE t.outcome[r] = s.outcome[r] /\ HasDayRows(t, r)
    <2>1. r \in c.rounds => Held(c, t, r) = WonDays(t, r) \cap CoveredDays(c, r)
      BY <1>4 DEF Held, SecuredRounds, SecuredDays
    <2>2. r \notin c.rounds => Held(c, s, r) = {}
      BY DEF Held, SecuredRounds
    <2> QED BY <1>2, <2>1, <2>2
  <1> QED BY <1>3, <1>4

\* A leg's result, on a DM or on the site.
LEMMA DayResultFacts ==
    ASSUME NEW c \in Concert, NEW s \in Standing, NEW r \in Round, NEW d \in Day,
           NEW res \in {"WON", "LOST"}, NEW w, w = RecordDayResult(c, s, r, d, res)
    PROVE  /\ OthersUntouched(s, w.standing, r)
           /\ LossIsArmed(s, w.standing, r, w.arm)
           /\ WinsStaySecured(s, w.standing, r)
           /\ OneTicketAtMost(c, s, w.standing, r)
  <1> DEFINE m == MaterializeWins(c, s, r)
             u == [m EXCEPT !.result[r][d] = res]
             t == w.standing
  <1>1. m \in Standing
    BY MaterializeType
  <1>2. /\ m.outcome = s.outcome
        /\ \A q \in Round \ {r} : m.result[q] = s.result[q]
        /\ \A e \in Day : m.result[r][e] # s.result[r][e] =>
               m.result[r][e] = "WON" /\ s.outcome[r] \in Secured
    BY MaterializeFacts
  <1>a. w = IF res = "LOST" THEN SettleLostDays(c, u, r, {d})
            ELSE IF s.outcome[r] \in Secured THEN Write(u, NoArm)
            ELSE RecordRoundOutcome(u, r, "WON")
    BY DEF RecordDayResult
  <1> HIDE DEF m
  <1>3. /\ u \in Standing /\ u.outcome = m.outcome
        /\ \A q \in Round \ {r} : u.result[q] = m.result[q]
        /\ \A e \in Day : u.result[r][e] = IF e = d THEN res ELSE m.result[r][e]
    BY <1>1 DEF Standing
  <1> HIDE DEF u
  <1>b. u.outcome = s.outcome /\ \A q \in Round \ {r} : u.result[q] = s.result[q]
    BY <1>2, <1>3
  <1>4. /\ t.result = u.result /\ \A q \in Round \ {r} : t.outcome[q] = s.outcome[q]
        /\ \/ /\ res = "LOST" /\ t.outcome[r] = "LOST" /\ w.arm = WholeRound
              /\ WonDays(u, r) = {}
           \/ res = "LOST" /\ t = u /\ w.arm = LegsLost({d})
           \/ res = "WON" /\ s.outcome[r] \in Secured /\ t = u
           \/ res = "WON" /\ s.outcome[r] \notin Secured /\ t.outcome[r] = "WON"
    <2>1. CASE res = "LOST"
      <3>1. w = SettleLostDays(c, u, r, {d})
        BY <1>a, <2>1
      <3> QED BY <1>b, <1>3, <2>1, <3>1, SettleFacts
    <2>2. CASE res # "LOST" /\ s.outcome[r] \in Secured
      <3>1. t = u
        BY <1>a, <2>2 DEF Write
      <3> QED BY <1>b, <2>2, <3>1
    <2>3. CASE res # "LOST" /\ s.outcome[r] \notin Secured
      <3>1. t = SetOutcome(u, r, "WON")
        BY <1>a, <2>3 DEF RecordRoundOutcome, Write
      <3> QED BY <1>b, <1>3, <2>3, <3>1, SetOutcomeFacts
    <2> QED BY <2>1, <2>2, <2>3
  <1> HIDE DEF t
  <1>5. OthersUntouched(s, t, r)
    BY <1>b, <1>4 DEF OthersUntouched
  <1>6. WonDays(t, r) = WonDays(u, r) /\ HasDayRows(t, r)
    BY <1>3, <1>4 DEF WonDays, HasDayRows
  <1>7. WonDays(m, r) \subseteq WonDays(t, r) \cup {d}
    BY <1>3, <1>4 DEF WonDays
  <1>8. OneTicketAtMost(c, s, t, r)
    <2>1. CASE s.outcome[r] \notin Secured
      <3>1. Held(c, s, r) = {}
        BY <2>1 DEF Held, SecuredRounds
      <3> QED BY <3>1 DEF OneTicketAtMost
    <2>2. CASE s.outcome[r] \in Secured
      <3>1. (t.outcome[r] = s.outcome[r] /\ HasDayRows(t, r)) \/ WonDays(t, r) = {}
        BY <1>b, <1>4, <1>6, <2>2
      <3>2. Held(c, s, r) \subseteq Held(c, t, r) \cup {d}
        <4>1. {d} \in SUBSET Day
          OBVIOUS
        <4>2. WonDays(MaterializeWins(c, s, r), r) \subseteq WonDays(t, r) \cup {d}
          BY <1>7 DEF m
        <4> QED BY <2>2, <3>1, <4>1, <4>2, TicketsLeft
      <3> QED BY <3>2 DEF OneTicketAtMost
    <2> QED BY <2>1, <2>2
  <1>9. WinsStaySecured(s, t, r)
    <2> SUFFICES ASSUME WonDays(s, r) # {} => s.outcome[r] \in Secured, WonDays(t, r) # {}
                 PROVE  t.outcome[r] \in Secured
      BY DEF WinsStaySecured
    <2>1. CASE res = "WON"
      BY <1>b, <1>4, <2>1 DEF Secured
    <2>2. CASE res = "LOST"
      <3>1. t.outcome[r] = s.outcome[r]
        BY <1>b, <1>4, <1>6, <2>2
      <3>2. PICK e \in Day : u.result[r][e] = "WON"
        BY <1>6 DEF WonDays
      <3>3. m.result[r][e] = "WON"
        BY <1>3, <2>2, <3>2
      <3>4. s.outcome[r] \in Secured
        BY <1>2, <3>3 DEF WonDays
      <3> QED BY <3>1, <3>4
    <2> QED BY <2>1, <2>2
  <1>10. LossIsArmed(s, t, r, w.arm)
    <2>1. LostSince(s, t, r) = IF res = "LOST" /\ s.result[r][d] # "LOST" THEN {d} ELSE {}
      BY <1>2, <1>3, <1>4 DEF LostSince
    <2>2. s.outcome[r] # "LOST" /\ t.outcome[r] = "LOST" => w.arm = WholeRound
      BY <1>b, <1>4
    <2>3. LostSince(s, t, r) # {} /\ t.outcome[r] # "LOST" => w.arm = LegsLost({d})
      BY <1>4, <2>1
    <2> QED BY <2>1, <2>2, <2>3 DEF LossIsArmed
  <1> QED BY <1>5, <1>8, <1>9, <1>10 DEF t

\* "Lost the rest": every leg still open, and no leg that is won.
LEMMA RemainingLostFacts ==
    ASSUME NEW c \in Concert, NEW s \in Standing, NEW r \in Round,
           NEW w, w = RecordRemainingLost(c, s, r)
    PROVE  /\ OthersUntouched(s, w.standing, r)
           /\ LossIsArmed(s, w.standing, r, w.arm)
           /\ WinsStaySecured(s, w.standing, r)
           /\ OneTicketAtMost(c, s, w.standing, r)
  <1> DEFINE m    == MaterializeWins(c, s, r)
             rest == UnresolvedDays(c, m, r)
             row  == [d \in Day |-> IF d \in rest THEN "LOST" ELSE m.result[r][d]]
             u    == [m EXCEPT !.result[r] = row]
             t    == w.standing
  <1>1. m \in Standing
    BY MaterializeType
  <1>2. /\ m.outcome = s.outcome
        /\ \A q \in Round \ {r} : m.result[q] = s.result[q]
        /\ \A e \in Day : m.result[r][e] =
                 IF s.outcome[r] \in Secured /\ ~HasDayRows(s, r) /\ e \in CoveredDays(c, r)
                 THEN "WON" ELSE s.result[r][e]
    BY MaterializeFacts
  <1>3. rest \subseteq Day /\ \A d \in rest : m.result[r][d] = "NONE" /\ d \in CoveredDays(c, r)
    BY CoveredAreDays DEF UnresolvedDays
  <1>a. w = SettleLostDays(c, u, r, rest)
    BY DEF RecordRemainingLost
  <1> HIDE DEF m, rest
  <1>4. /\ row \in [Day -> {"WON", "LOST", "NONE"}]
        /\ \A d \in Day : row[d] = IF d \in rest THEN "LOST" ELSE m.result[r][d]
    BY <1>1 DEF Standing
  <1> HIDE DEF row
  <1>5. /\ u \in Standing /\ u.outcome = m.outcome /\ u.result[r] = row
        /\ \A q \in Round \ {r} : u.result[q] = m.result[q]
    BY <1>1, <1>4 DEF Standing
  <1> HIDE DEF u
  <1>6. /\ t.result = u.result /\ \A q \in Round \ {r} : t.outcome[q] = u.outcome[q]
        /\ \/ /\ WonDays(u, r) = {} /\ t.outcome[r] = "LOST" /\ w.arm = WholeRound
           \/ t = u /\ w.arm = LegsLost(rest)
    <2>1. /\ w.standing.result = u.result
          /\ \A q \in Round \ {r} : w.standing.outcome[q] = u.outcome[q]
          /\ \/ /\ WonDays(u, r) = {} /\ w.standing.outcome[r] = "LOST" /\ w.arm = WholeRound
             \/ w.standing = u /\ w.arm = LegsLost(rest)
      <3>1. u \in Standing
        BY <1>5
      <3>2. \/ /\ WonDays(u, r) = {}
               /\ w.standing = SetOutcome(u, r, "LOST") /\ w.arm = WholeRound
            \/ w.standing = u /\ w.arm = LegsLost(rest)
        BY <1>a DEF SettleLostDays, RecordRoundOutcome, Write
      <3> QED BY <3>1, <3>2, SetOutcomeFacts
    <2> QED BY <2>1
  <1> HIDE DEF t
  <1>7. OthersUntouched(s, t, r)
    BY <1>2, <1>5, <1>6 DEF OthersUntouched
  <1>8. /\ WonDays(t, r) = WonDays(m, r) /\ WonDays(u, r) = WonDays(m, r)
    <2>1. \A d \in Day : t.result[r][d] = "WON" <=> m.result[r][d] = "WON"
      BY <1>3, <1>4, <1>5, <1>6
    <2> QED BY <2>1, <1>6 DEF WonDays
  <1>9. OneTicketAtMost(c, s, t, r)
    <2>1. CASE s.outcome[r] \notin Secured
      <3>1. Held(c, s, r) = {}
        BY <2>1 DEF Held, SecuredRounds
      <3> QED BY <3>1 DEF OneTicketAtMost
    <2>2. CASE s.outcome[r] \in Secured
      <3>1. WonDays(MaterializeWins(c, s, r), r) \subseteq WonDays(t, r) \cup {}
        BY <1>8 DEF m
      <3>2. (t.outcome[r] = s.outcome[r] /\ HasDayRows(t, r)) \/ WonDays(t, r) = {}
        <4>1. CASE WonDays(t, r) # {}
          <5>1. HasDayRows(t, r)
            BY <4>1 DEF WonDays, HasDayRows
          <5> QED BY <1>2, <1>5, <1>6, <1>8, <4>1, <5>1
        <4> QED BY <4>1
      <3>3. Held(c, s, r) \subseteq Held(c, t, r) \cup {}
        <4>1. {} \in SUBSET Day
          OBVIOUS
        <4> QED BY <2>2, <3>1, <3>2, <4>1, TicketsLeft
      <3> QED BY <3>3 DEF OneTicketAtMost
    <2> QED BY <2>1, <2>2
  <1>10. WinsStaySecured(s, t, r)
    <2> SUFFICES ASSUME WonDays(s, r) # {} => s.outcome[r] \in Secured, WonDays(t, r) # {}
                 PROVE  t.outcome[r] \in Secured
      BY DEF WinsStaySecured
    <2>1. t.outcome[r] = s.outcome[r]
      BY <1>2, <1>5, <1>6, <1>8
    <2>2. PICK e \in Day : m.result[r][e] = "WON"
      BY <1>8 DEF WonDays
    <2>3. s.outcome[r] \in Secured
      BY <1>2, <2>2 DEF WonDays
    <2> QED BY <2>1, <2>3
  <1>11. LossIsArmed(s, t, r, w.arm)
    <2>1. \A d \in Day : t.result[r][d] = IF d \in rest THEN "LOST" ELSE m.result[r][d]
      BY <1>4, <1>5, <1>6
    <2>2. \A d \in rest : s.result[r][d] # "LOST"
      BY <1>2, <1>3
    <2>3. \A d \in Day : m.result[r][d] = "LOST" => s.result[r][d] = "LOST"
      BY <1>2
    <2>4. LostSince(s, t, r) = rest
      BY <1>3, <2>1, <2>2, <2>3 DEF LostSince
    <2>5. s.outcome[r] # "LOST" /\ t.outcome[r] = "LOST" => w.arm = WholeRound
      BY <1>2, <1>5, <1>6
    <2>6. LostSince(s, t, r) # {} /\ t.outcome[r] # "LOST" => w.arm = LegsLost(rest)
      BY <1>6
    <2> QED BY <2>4, <2>5, <2>6 DEF LossIsArmed
  <1> QED BY <1>7, <1>9, <1>10, <1>11 DEF t

\* Taking a whole round back.
LEMMA ClearRoundFacts ==
    ASSUME NEW c \in Concert, NEW s \in Standing, NEW r \in Round, NEW t, t = ClearRound(s, r)
    PROVE  /\ OthersUntouched(s, t, r) /\ LossIsArmed(s, t, r, NoArm)
           /\ WinsStaySecured(s, t, r) /\ OneTicketAtMost(c, s, t, r)
  <1>1. /\ t.outcome[r] = "NONE" /\ \A d \in Day : t.result[r][d] = "NONE"
        /\ \A q \in Round \ {r} : t.outcome[q] = s.outcome[q] /\ t.result[q] = s.result[q]
    BY DEF ClearRound, Standing
  <1>2. WonDays(t, r) = {} /\ LostSince(s, t, r) = {}
    BY <1>1 DEF WonDays, LostSince
  <1>3. OthersUntouched(s, t, r) /\ OneTicketAtMost(c, s, t, r)
    BY <1>1 DEF OthersUntouched, OneTicketAtMost
  <1>4. LossIsArmed(s, t, r, NoArm) /\ WinsStaySecured(s, t, r)
    BY <1>1, <1>2 DEF LossIsArmed, WinsStaySecured
  <1> QED BY <1>3, <1>4

\* Taking one leg's answer back: what is left decides what the round is.
LEMMA ClearDayFacts ==
    ASSUME NEW c \in Concert, NEW s \in Standing, NEW r \in Round, NEW d \in Day,
           s.result[r][d] # "NONE", NEW t, t = ClearDay(c, s, r, d)
    PROVE  /\ OthersUntouched(s, t, r) /\ LossIsArmed(s, t, r, NoArm)
           /\ WinsStaySecured(s, t, r) /\ OneTicketAtMost(c, s, t, r)
  <1> DEFINE u == [s EXCEPT !.result[r][d] = "NONE"]
  <1>1. /\ u \in Standing /\ u.outcome = s.outcome
        /\ \A q \in Round \ {r} : u.result[q] = s.result[q]
        /\ \A e \in Day : u.result[r][e] = IF e = d THEN "NONE" ELSE s.result[r][e]
    BY DEF Standing
  <1>a. t = Rederived(c, u, r)
    BY DEF ClearDay
  <1> HIDE DEF u
  <1>2. /\ t.result = u.result /\ \A q \in Round \ {r} : t.outcome[q] = s.outcome[q]
        /\ \/ t = u /\ (u.outcome[r] = "NONE" \/ WonDays(u, r) # {})
           \/ WonDays(u, r) = {} /\ t.outcome[r] \in {"LOST", "APPLIED"}
    <2>1. CASE u.outcome[r] = "NONE" \/ WonDays(u, r) # {}
      <3>1. t = u
        BY <1>a, <2>1 DEF Rederived
      <3> QED BY <1>1, <2>1, <3>1
    <2>2. CASE ~(u.outcome[r] = "NONE" \/ WonDays(u, r) # {})
      <3>1. \/ t = SetOutcome(u, r, "LOST") \/ t = SetOutcome(u, r, "APPLIED")
        BY <1>a, <2>2 DEF Rederived
      <3> QED BY <1>1, <2>2, <3>1, SetOutcomeFacts
    <2> QED BY <2>1, <2>2
  <1>3. OthersUntouched(s, t, r)
    BY <1>1, <1>2 DEF OthersUntouched
  <1>4. LossIsArmed(s, t, r, NoArm)
    <2>1. LostSince(s, t, r) = {}
      BY <1>1, <1>2 DEF LostSince
    <2>2. ~NoRowGone(s, t, r)
      BY <1>1, <1>2 DEF NoRowGone
    <2> QED BY <2>1, <2>2 DEF LossIsArmed
  <1>5. WonDays(t, r) = WonDays(u, r) /\ WonDays(s, r) \subseteq WonDays(u, r) \cup {d}
        /\ WonDays(u, r) \subseteq WonDays(s, r)
    BY <1>1, <1>2 DEF WonDays
  <1>6. WinsStaySecured(s, t, r)
    BY <1>1, <1>2, <1>5 DEF WinsStaySecured
  <1>7. OneTicketAtMost(c, s, t, r)
    <2>1. CASE s.outcome[r] \notin Secured \/ r \notin c.rounds
      <3>1. Held(c, s, r) = {}
        BY <2>1 DEF Held, SecuredRounds
      <3> QED BY <3>1 DEF OneTicketAtMost
    <2>2. CASE s.outcome[r] \in Secured /\ r \in c.rounds
      <3>1. Held(c, s, r) = WonDays(s, r) \cap CoveredDays(c, r)
        BY <2>2 DEF Held, SecuredRounds, SecuredDays, HasDayRows
      <3>2. CASE WonDays(u, r) = {}
        BY <1>5, <3>1, <3>2 DEF OneTicketAtMost
      <3>3. CASE WonDays(u, r) # {}
        <4>1. t.outcome[r] = s.outcome[r] /\ HasDayRows(t, r)
          BY <1>1, <1>2, <1>5, <3>3 DEF HasDayRows, WonDays
        <4>2. Held(c, t, r) = WonDays(t, r) \cap CoveredDays(c, r)
          BY <2>2, <4>1 DEF Held, SecuredRounds, SecuredDays
        <4> QED BY <1>5, <3>1, <4>2 DEF OneTicketAtMost
      <3> QED BY <3>2, <3>3
    <2> QED BY <2>1, <2>2
  <1> QED BY <1>3, <1>4, <1>6, <1>7

----------------------------------------------------------------------------
(* The presses, and what else touches a standing.                          *)

\* Every press commits one sound write for one round, or nothing.  A lost round
\* is recorded past its won legs only by a flat LOST that is not guarded.
SoundWrite(s, t, r, arm) ==
    /\ OthersUntouched(s, t, r) /\ LossIsArmed(s, t, r, arm)
    /\ "LOST" \notin FlatOutcomes =>
          WinsStaySecured(s, t, r) /\ OneTicketAtMost(concert, s, t, r)

PressWrote ==
    \/ UNCHANGED <<concert, standing, rules>>
    \/ \E r \in Round : \E w : Commit(w, r) /\ SoundWrite(standing, w.standing, r, w.arm)

LEMMA PressWrites ==
    ASSUME QueueAssumption, TypeOK, Press
    PROVE  PressWrote
  <1>1. ASSUME NEW r \in Round, NEW w, Answer(w, r), SoundWrite(standing, w.standing, r, w.arm)
        PROVE  PressWrote
    <2>1. CASE Raise
      BY <2>1 DEF Raise, PressWrote
    <2>2. CASE Commit(w, r)
      BY <1>1, <2>2 DEF PressWrote
    <2> QED BY <1>1, <2>1, <2>2 DEF Answer
  <1>2. PICK r \in AnswerRounds :
             \/ \E o \in FlatOutcomes : PressOutcome(r, o)
             \/ PressWonAllLegs(r) \/ PressLostAllLegs(r)
             \/ Backtrack(r)
             \/ PressLostRest(r)
             \/ \E d \in LegPresses : \/ \E res \in {"WON", "LOST"} : PressLeg(r, d, res)
                                      \/ BacktrackLeg(r, d)
    BY DEF Press
  <1>3. /\ r \in Round /\ concert \in Concert /\ standing \in Standing
        /\ FlatOutcomes \subseteq Outcome /\ LegPresses \subseteq Day
    BY DEF QueueAssumption, TypeOK
  <1>4. ASSUME NEW o \in FlatOutcomes, PressOutcome(r, o)
        PROVE  PressWrote
    <2> DEFINE w == RecordRoundOutcome(standing, r, o)
    <2>1. Answer(w, r) /\ OutcomeAccepted(standing, r, o)
      BY <1>4 DEF PressOutcome
    <2>2. SoundWrite(standing, w.standing, r, w.arm)
      BY <1>3, <2>1, FlatFacts DEF SoundWrite
    <2> HIDE DEF w
    <2> QED BY <1>1, <1>3, <2>1, <2>2
  <1>5. CASE PressWonAllLegs(r)
    <2> DEFINE t == PressWonAll(concert, standing, r)
               w == Write(t, NoArm)
    <2>1. Answer(w, r) /\ standing.outcome[r] \notin Secured
      BY <1>5 DEF PressWonAllLegs
    <2>2. SoundWrite(standing, t, r, NoArm)
      BY <1>3, <2>1, WonAllFacts DEF SoundWrite
    <2>3. w.standing = t /\ w.arm = NoArm
      BY DEF Write
    <2> HIDE DEF t, w
    <2> QED BY <1>1, <1>3, <2>1, <2>2, <2>3
  <1>6. CASE PressLostAllLegs(r)
    <2> DEFINE w == RecordRoundOutcome(standing, r, "LOST")
    <2>1. Answer(w, r) /\ standing.outcome[r] \notin Secured
      BY <1>6 DEF PressLostAllLegs
    <2>2. SoundWrite(standing, w.standing, r, w.arm)
      BY <1>3, <2>1, FlatFacts DEF SoundWrite, Outcome
    <2> HIDE DEF w
    <2> QED BY <1>1, <1>3, <2>1, <2>2
  <1>7. CASE Backtrack(r)
    <2> DEFINE t == ClearRound(standing, r)
               w == Write(t, NoArm)
    <2>1. Answer(w, r)
      BY <1>7 DEF Backtrack
    <2>2. SoundWrite(standing, t, r, NoArm)
      BY <1>3, ClearRoundFacts DEF SoundWrite
    <2>3. w.standing = t /\ w.arm = NoArm
      BY DEF Write
    <2> HIDE DEF t, w
    <2> QED BY <1>1, <1>3, <2>1, <2>2, <2>3
  <1>8. CASE PressLostRest(r)
    <2> DEFINE w == RecordRemainingLost(concert, standing, r)
    <2>1. Answer(w, r)
      BY <1>8 DEF PressLostRest
    <2>2. SoundWrite(standing, w.standing, r, w.arm)
      BY <1>3, RemainingLostFacts DEF SoundWrite
    <2> HIDE DEF w
    <2> QED BY <1>1, <1>3, <2>1, <2>2
  <1>9. ASSUME NEW d \in LegPresses, NEW res \in {"WON", "LOST"}, PressLeg(r, d, res)
        PROVE  PressWrote
    <2> DEFINE w == RecordDayResult(concert, standing, r, d, res)
    <2>1. Answer(w, r) /\ d \in Day
      BY <1>3, <1>9 DEF PressLeg
    <2>2. SoundWrite(standing, w.standing, r, w.arm)
      BY <1>3, <2>1, DayResultFacts DEF SoundWrite
    <2> HIDE DEF w
    <2> QED BY <1>1, <1>3, <2>1, <2>2
  <1>10. ASSUME NEW d \in LegPresses, BacktrackLeg(r, d)
         PROVE  PressWrote
    <2> DEFINE t == ClearDay(concert, standing, r, d)
               w == Write(t, NoArm)
    <2>1. Answer(w, r) /\ d \in Day /\ standing.result[r][d] # "NONE"
      BY <1>3, <1>10 DEF BacktrackLeg
    <2>2. SoundWrite(standing, t, r, NoArm)
      BY <1>3, <2>1, ClearDayFacts DEF SoundWrite
    <2>3. w.standing = t /\ w.arm = NoArm
      BY DEF Write
    <2> HIDE DEF t, w
    <2> QED BY <1>1, <1>3, <2>1, <2>2, <2>3
  <1> QED BY <1>2, <1>4, <1>5, <1>6, <1>7, <1>8, <1>9, <1>10

\* Nothing else writes an answer: opt-outs, rules, rows and the clock leave
\* both layers alone, and a save drops answers of rounds and legs it deletes.
OtherWrote ==
    \/ /\ standing'.outcome = standing.outcome /\ standing'.result = standing.result
       /\ concert' = concert
    \/ /\ edits' = edits + 1
       /\ \A r \in Round :
             \/ /\ standing'.outcome[r] = "NONE"
                /\ \A d \in Day : standing'.result[r][d] = "NONE"
             \/ /\ standing'.outcome[r] = standing.outcome[r]
                /\ \A d \in Day : standing'.result[r][d] \in {standing.result[r][d], "NONE"}

LEMMA OtherWrites ==
    ASSUME TypeOK, Prune \/ ChangeRules \/ SnoozeSome \/ Tick \/ Wait \/ EditConcert \/ UNCHANGED vars
    PROVE  OtherWrote
  <1>0. standing \in Standing
    BY DEF TypeOK
  <1>1. CASE UNCHANGED <<standing, concert>>
    BY <1>1 DEF OtherWrote
  <1>2. CASE Prune
    <2>1. ASSUME NEW s, Replan(s), s.outcome = standing.outcome, s.result = standing.result
          PROVE  OtherWrote
      BY <2>1 DEF Replan, OtherWrote
    <2>2. \A D : /\ [standing EXCEPT !.out = D].outcome = standing.outcome
                 /\ [standing EXCEPT !.out = D].result = standing.result
                 /\ [standing EXCEPT !.pruned = D].outcome = standing.outcome
                 /\ [standing EXCEPT !.pruned = D].result = standing.result
      BY <1>0 DEF Standing
    <2> QED BY <1>2, <2>1, <2>2 DEF Prune, TogglePrune, Reinstate, ToggleLeg
  <1>3. CASE EditConcert
    <2>1. PICK c \in Saves(concert) : Save(c)
      BY <1>3 DEF EditConcert
    <2>2. edits' = edits + 1
      BY <1>3 DEF EditConcert
    <2>3. UNCHANGED <<standing, concert>> \/ standing' = KeptStanding(standing, c)
      BY <2>1 DEF Save
    <2>4. CASE standing' = KeptStanding(standing, c)
      <3>1. \A r \in Round :
               /\ standing'.outcome[r] = IF r \in c.rounds THEN standing.outcome[r] ELSE "NONE"
               /\ \A d \in Day : standing'.result[r][d] =
                     IF r \in c.rounds /\ d \in c.days THEN standing.result[r][d] ELSE "NONE"
        BY <2>4 DEF KeptStanding
      <3> QED BY <2>2, <3>1 DEF OtherWrote
    <2> QED BY <1>1, <2>3, <2>4
  <1>4. CASE ChangeRules \/ SnoozeSome \/ Tick \/ Wait \/ UNCHANGED vars
    <2>1. UNCHANGED <<standing, concert>>
      BY <1>4 DEF ChangeRules, AddRules, RemoveRules, SnoozeSome, Snooze, Tick, Wait, vars
    <2> QED BY <1>1, <2>1
  <1> QED BY <1>2, <1>3, <1>4

----------------------------------------------------------------------------
(* The theorems.  LOST recorded for a round as a whole is guarded on a DM  *)
(* (PressLostAllLegs) and withdrawn from the site's page once a leg has a  *)
(* row; only a page that was opened before that still posts it.  The two   *)
(* theorems about tickets are about readers without such a page.           *)

\* A set with at most one element.
LEMMA AtMostOne ==
    ASSUME NEW S, NEW d, S \subseteq {d}
    PROVE  Cardinality(S) <= 1
  <1>1. IsFiniteSet({d}) /\ Cardinality({d}) = 1
    BY FS_Singleton
  <1>2. S \in SUBSET {d}
    OBVIOUS
  <1> QED BY <1>1, <1>2, FS_Subset

\* A won leg makes its round won or paid, in every order of presses,
\* corrections, late DMs and saves.
THEOREM WonLegSecures ==
    ASSUME "LOST" \notin FlatOutcomes
    PROVE  Spec => []WonLegSecuresRound
  <1>1. Init => WonLegSecuresRound
    BY DEF Init, NoStanding, WonLegSecuresRound, WonDays
  <1>2. TypeOK /\ WonLegSecuresRound /\ [Next]_vars => WonLegSecuresRound'
    <2> SUFFICES ASSUME TypeOK, WonLegSecuresRound, [Next]_vars, NEW r \in Round,
                        WonDays(standing', r) # {}
                 PROVE  standing'.outcome[r] \in Secured
      BY DEF WonLegSecuresRound, WonDays
    <2>0. WonDays(standing, r) # {} => standing.outcome[r] \in Secured
      BY DEF WonLegSecuresRound
    <2>1. CASE Press
      <3>1. PressWrote
        BY <2>1, PressWrites, QueueAssumption
      <3>2. CASE UNCHANGED <<concert, standing, rules>>
        BY <2>0, <3>2
      <3>3. ASSUME NEW p \in Round, NEW w, Commit(w, p), SoundWrite(standing, w.standing, p, w.arm)
            PROVE  standing'.outcome[r] \in Secured
        <4>1. standing' = w.standing
          BY <3>3 DEF Commit
        <4>2. OthersUntouched(standing, standing', p) /\ WinsStaySecured(standing, standing', p)
          BY <3>3, <4>1 DEF SoundWrite
        <4>3. CASE r = p
          BY <2>0, <4>2, <4>3 DEF WinsStaySecured
        <4>4. CASE r # p
          <5>1. standing'.outcome[r] = standing.outcome[r] /\ WonDays(standing', r) = WonDays(standing, r)
            BY <4>2, <4>4 DEF OthersUntouched, WonDays
          <5> QED BY <2>0, <5>1
        <4> QED BY <4>3, <4>4
      <3> QED BY <3>1, <3>2, <3>3 DEF PressWrote
    <2>2. CASE ~Press
      <3>1. OtherWrote
        BY <2>2, OtherWrites DEF Next
      <3>2. PICK d \in Day : standing'.result[r][d] = "WON"
        BY DEF WonDays
      <3>3. standing'.outcome[r] = standing.outcome[r] /\ standing.result[r][d] = "WON"
        BY <3>1, <3>2 DEF OtherWrote
      <3> QED BY <2>0, <3>3 DEF WonDays
    <2> QED BY <2>1, <2>2
  <1> QED BY <1>1, <1>2, TypeCorrect, PTL DEF Spec

\* One press takes at most the ticket of the leg it names.
THEOREM TicketsKept ==
    ASSUME "LOST" \notin FlatOutcomes
    PROVE  Spec => OtherTicketsKept
  <1> DEFINE Kept == edits' = edits => \A r \in Round :
          \/ Cardinality(Held(concert, standing, r) \ Held(concert', standing', r)) <= 1
          \/ standing'.outcome[r] = "NONE"
  <1>1. ASSUME TypeOK, [Next]_vars
        PROVE  Kept
    <2> SUFFICES ASSUME edits' = edits, NEW r \in Round, standing'.outcome[r] # "NONE"
                 PROVE  Cardinality(Held(concert, standing, r) \ Held(concert', standing', r)) <= 1
      OBVIOUS
    <2>0. edits \in Nat
      BY <1>1 DEF TypeOK
    <2>1. CASE concert' = concert /\ Held(concert, standing, r) \subseteq Held(concert, standing', r)
      <3>1. Held(concert, standing, r) \ Held(concert', standing', r) \subseteq {r}
        BY <2>1
      <3> QED BY <3>1, AtMostOne
    <2>2. CASE /\ concert' = concert /\ standing'.outcome[r] = standing.outcome[r]
               /\ standing'.result[r] = standing.result[r]
      <3>1. Held(concert, standing, r) = Held(concert, standing', r)
        BY <2>2 DEF Held, SecuredRounds, SecuredDays, HasDayRows, WonDays
      <3> QED BY <2>1, <2>2, <3>1
    <2>3. CASE Press
      <3>1. PressWrote
        BY <1>1, <2>3, PressWrites, QueueAssumption
      <3>2. CASE UNCHANGED <<concert, standing, rules>>
        BY <2>2, <3>2
      <3>3. ASSUME NEW p \in Round, NEW w, Commit(w, p), SoundWrite(standing, w.standing, p, w.arm)
            PROVE  Cardinality(Held(concert, standing, r) \ Held(concert', standing', r)) <= 1
        <4>1. standing' = w.standing /\ concert' = concert
          BY <3>3 DEF Commit
        <4>2. /\ OthersUntouched(standing, standing', p)
              /\ OneTicketAtMost(concert, standing, standing', p)
          BY <3>3, <4>1 DEF SoundWrite
        <4>3. CASE r = p
          <5>1. CASE Held(concert, standing, r) \subseteq Held(concert, standing', r)
            BY <2>1, <4>1, <5>1
          <5>2. ASSUME NEW d \in Day, Held(concert, standing, r) \subseteq Held(concert, standing', r) \cup {d}
                PROVE  Cardinality(Held(concert, standing, r) \ Held(concert', standing', r)) <= 1
            <6>1. Held(concert, standing, r) \ Held(concert', standing', r) \subseteq {d}
              BY <4>1, <5>2
            <6> QED BY <6>1, AtMostOne
          <5> QED BY <4>2, <4>3, <5>1, <5>2 DEF OneTicketAtMost
        <4>4. CASE r # p
          BY <2>2, <4>1, <4>2, <4>4 DEF OthersUntouched
        <4> QED BY <4>3, <4>4
      <3> QED BY <3>1, <3>2, <3>3 DEF PressWrote
    <2>4. CASE ~Press
      <3>1. OtherWrote
        BY <1>1, <2>4, OtherWrites DEF Next
      <3>2. /\ concert' = concert /\ standing'.outcome[r] = standing.outcome[r]
            /\ standing'.result[r] = standing.result[r]
        BY <2>0, <3>1 DEF OtherWrote
      <3> QED BY <2>2, <3>2
    <2> QED BY <2>3, <2>4
  <1> HIDE DEF Kept
  <1>2. TypeOK /\ [Next]_vars => [Kept]_vars
    BY <1>1
  <1>3. Spec => [][Kept]_vars
    BY <1>2, TypeCorrect, PTL DEF Spec
  <1> QED BY <1>3 DEF Kept, OtherTicketsKept

\* A round that becomes lost, or legs lost in a round that lives on, leave a
\* rule for the next round selling what was lost.
THEOREM LossArms == Spec => LossArmsFallback
  <1> DEFINE Armed == \A r \in Round :
          /\ standing.outcome[r] # "LOST" /\ standing'.outcome[r] = "LOST" /\ RowsKept(r)
               => ArmedFor(r, WholeRound)
          /\ NewlyLost(r) # {} /\ standing'.outcome[r] # "LOST"
               => ArmedFor(r, LegsLost(NewlyLost(r)))
  <1>1. ASSUME TypeOK, [Next]_vars
        PROVE  Armed
    <2>1. ASSUME NEW r \in Round, NewlyLost(r) = {},
                 standing'.outcome[r] = "LOST" => standing.outcome[r] = "LOST"
          PROVE  /\ standing.outcome[r] # "LOST" /\ standing'.outcome[r] = "LOST" /\ RowsKept(r)
                      => ArmedFor(r, WholeRound)
                 /\ NewlyLost(r) # {} /\ standing'.outcome[r] # "LOST"
                      => ArmedFor(r, LegsLost(NewlyLost(r)))
      BY <2>1
    <2>2. ASSUME NEW r \in Round, standing'.outcome[r] = standing.outcome[r],
                 standing'.result[r] = standing.result[r]
          PROVE  /\ NewlyLost(r) = {}
                 /\ standing'.outcome[r] = "LOST" => standing.outcome[r] = "LOST"
      BY <2>2 DEF NewlyLost
    <2>3. CASE Press
      <3>1. PressWrote
        BY <1>1, <2>3, PressWrites, QueueAssumption
      <3>2. CASE UNCHANGED <<concert, standing, rules>>
        BY <2>1, <2>2, <3>2
      <3>3. ASSUME NEW p \in Round, NEW w, Commit(w, p), SoundWrite(standing, w.standing, p, w.arm)
            PROVE  Armed
        <4>1. standing' = w.standing
          BY <3>3 DEF Commit
        <4>2. OthersUntouched(standing, standing', p) /\ LossIsArmed(standing, standing', p, w.arm)
          BY <3>3, <4>1 DEF SoundWrite
        <4>3. ASSUME NEW arm, arm = w.arm
              PROVE  ArmedFor(p, arm)
          <5> DEFINE next == NextRounds(concert, p, arm)
                     n    == CHOOSE m \in next : TRUE
          <5>1. rules' = rules \cup ArmedRules(concert, rules, p, arm, ArmLead)
            BY <3>3, <4>3 DEF Commit
          <5>2. ArmedRules(concert, rules, p, arm, ArmLead) =
                  IF next = {} \/ \E rule \in rules : rule.scope = n /\ rule.anchor = "OPENS"
                  THEN {} ELSE {[scope |-> n, anchor |-> "OPENS", lead |-> ArmLead]}
            BY DEF ArmedRules
          <5>3. next # {} => n \in next
            OBVIOUS
          <5> HIDE DEF n
          <5>4. next # {} => \E rule \in rules' : rule.scope = n /\ rule.anchor = "OPENS"
            <6>1. CASE next = {} \/ \E rule \in rules : rule.scope = n /\ rule.anchor = "OPENS"
              <7>1. rules \subseteq rules'
                BY <5>1
              <7> QED BY <6>1, <7>1
            <6>2. CASE ~(next = {} \/ \E rule \in rules : rule.scope = n /\ rule.anchor = "OPENS")
              <7>1. ArmedRules(concert, rules, p, arm, ArmLead)
                      = {[scope |-> n, anchor |-> "OPENS", lead |-> ArmLead]}
                BY <5>2, <6>2, Zenon
              <7>2. [scope |-> n, anchor |-> "OPENS", lead |-> ArmLead] \in rules'
                BY <5>1, <7>1
              <7> QED BY <7>2
            <6> QED BY <6>1, <6>2
          <5>5. next # {} => \E rule \in rules' : rule.scope \in next /\ rule.anchor = "OPENS"
            BY <5>3, <5>4
          <5> QED BY <5>5 DEF ArmedFor
        <4>4. NewlyLost(p) = LostSince(standing, standing', p)
          BY DEF NewlyLost, LostSince
        <4>5. /\ standing.outcome[p] # "LOST" /\ standing'.outcome[p] = "LOST" /\ RowsKept(p)
                   => ArmedFor(p, WholeRound)
              /\ NewlyLost(p) # {} /\ standing'.outcome[p] # "LOST"
                   => ArmedFor(p, LegsLost(NewlyLost(p)))
          BY <4>2, <4>3, <4>4 DEF LossIsArmed, RowsKept, NoRowGone
        <4>6. \A r \in Round \ {p} : standing'.outcome[r] = standing.outcome[r]
                                    /\ standing'.result[r] = standing.result[r]
          BY <4>2 DEF OthersUntouched
        <4> QED BY <2>1, <2>2, <4>5, <4>6
      <3> HIDE DEF Armed
      <3>4. UNCHANGED <<concert, standing, rules>> => Armed
        BY <3>2
      <3> QED BY <3>1, <3>3, <3>4 DEF PressWrote
    <2>4. CASE ~Press
      <3>1. OtherWrote
        BY <1>1, <2>4, OtherWrites DEF Next
      <3>2. \A r \in Round : /\ NewlyLost(r) = {}
                             /\ standing'.outcome[r] = "LOST" => standing.outcome[r] = "LOST"
        BY <3>1 DEF OtherWrote, NewlyLost
      <3> QED BY <2>1, <3>2
    <2> QED BY <2>3, <2>4
  <1> HIDE DEF Armed
  <1>2. TypeOK /\ [Next]_vars => [Armed]_vars
    BY <1>1
  <1>3. Spec => [][Armed]_vars
    BY <1>2, TypeCorrect, PTL DEF Spec
  <1> QED BY <1>3 DEF Armed, LossArmsFallback

----------------------------------------------------------------------------
(* The reader's surfaces: what they rest on.                               *)

\* The rounds are finitely many, and a round names only legs the concert has:
\* a save drops a leg from every round that names it.
WellFormed ==
    /\ IsFiniteSet(concert.rounds)
    /\ \A r \in Round : concert.legs[r] \subseteq concert.days

\* What the surfaces derive their answers from.
ReaderInv == TypeOK /\ WellFormed

\* No save breaks it.
LEMMA SavesWellFormed ==
    ASSUME QueueAssumption, TypeOK, WellFormed, NEW c \in Saves(concert)
    PROVE  IsFiniteSet(c.rounds) /\ \A r \in Round : c.legs[r] \subseteq c.days
  <1> DEFINE Good(e) == IsFiniteSet(e.rounds) /\ \A r \in Round : e.legs[r] \subseteq e.days
  <1>0. concert \in Concert /\ Good(concert)
    BY DEF TypeOK, WellFormed
  <1>1. \A e \in DeadlineSaves(concert) \cup StartSaves(concert) \cup CancelSaves(concert) : Good(e)
    <2>1. \A e \in DeadlineSaves(concert) \cup StartSaves(concert) \cup CancelSaves(concert) :
             e.rounds = concert.rounds /\ e.legs = concert.legs /\ e.days = concert.days
      BY <1>0 DEF DeadlineSaves, StartSaves, CancelSaves, Concert
    <2> QED BY <1>0, <2>1
  <1>2. \A e \in LegSaves(concert) : Good(e)
    <2>1. \A e \in LegSaves(concert) : /\ e.rounds = concert.rounds /\ e.days = concert.days
                                       /\ \A r \in Round : \/ e.legs[r] = concert.legs[r]
                                                           \/ e.legs[r] \subseteq concert.days
      BY <1>0 DEF LegSaves, Concert
    <2> QED BY <1>0, <2>1
  <1>3. \A e \in RoundSaves(concert) : Good(e)
    <2>1. ASSUME NEW r \in Round
          PROVE  IsFiniteSet(concert.rounds \ {r}) /\ IsFiniteSet(concert.rounds \cup {r})
      BY <1>0, FS_RemoveElement, FS_AddElement
    <2>2. \A r \in concert.rounds : r \in Round
      BY <1>0 DEF Concert
    <2>3. \A R \in SUBSET Round : /\ [concert EXCEPT !.rounds = R].rounds = R
                                  /\ [concert EXCEPT !.rounds = R].legs = concert.legs
                                  /\ [concert EXCEPT !.rounds = R].days = concert.days
      BY <1>0 DEF Concert
    <2>4. ASSUME NEW R \in SUBSET Round, IsFiniteSet(R) PROVE Good([concert EXCEPT !.rounds = R])
      BY <1>0, <2>3, <2>4
    <2> SUFFICES ASSUME NEW R \in {concert.rounds \ {r} : r \in concert.rounds} \cup
                                  {concert.rounds \cup {r} : r \in Round}
                 PROVE  R \subseteq Round /\ IsFiniteSet(R)
      BY <2>4 DEF RoundSaves
    <2>5. CASE \E r \in concert.rounds : R = concert.rounds \ {r}
      BY <2>1, <2>2, <2>5
    <2>6. CASE \E r \in Round : R = concert.rounds \cup {r}
      BY <2>1, <2>2, <2>6
    <2> QED BY <2>5, <2>6
  <1>4. \A e \in DayDrops(concert) : Good(e)
    <2> SUFFICES ASSUME NEW d \in concert.days
                 PROVE  Good([concert EXCEPT !.days = @ \ {d}, !.cancelled = @ \ {d},
                                             !.legs = [r \in Round |-> concert.legs[r] \ {d}]])
      BY DEF DayDrops
    <2> QED BY <1>0 DEF Concert
  <1>5. \A e \in DayAdds(concert) : Good(e)
    <2>1. \A e \in DayAdds(concert) : /\ e.rounds = concert.rounds /\ e.legs = concert.legs
                                      /\ concert.days \subseteq e.days
      BY <1>0 DEF DayAdds, Concert
    <2> QED BY <1>0, <2>1
  <1>6. PICK kind \in EditKinds :
             c \in CASE kind = "deadline" -> DeadlineSaves(concert)
                     [] kind = "start"    -> StartSaves(concert)
                     [] kind = "cancel"   -> CancelSaves(concert)
                     [] kind = "legs"     -> LegSaves(concert)
                     [] kind = "rounds"   -> RoundSaves(concert)
                     [] kind = "days"     -> DayDrops(concert) \cup DayAdds(concert)
    BY DEF Saves
  <1>7. kind \in {"deadline", "start", "cancel", "legs", "rounds", "days"}
    BY DEF QueueAssumption
  <1> HIDE DEF Good
  <1>8. Good(c)
    BY <1>1, <1>2, <1>3, <1>4, <1>5, <1>6, <1>7
  <1> QED BY <1>8 DEF Good

\* Only a save changes the concert.
LEMMA OnlySavesChangeConcert ==
    ASSUME [Next]_vars, concert' # concert
    PROVE  \E c \in Saves(concert) : concert' = c
  <1>1. ASSUME NEW w, NEW r, Answer(w, r) PROVE concert' = concert
    BY <1>1 DEF Answer, Raise, Commit
  <1>2. CASE Press
    BY <1>1, <1>2 DEF Press, PressOutcome, PressWonAllLegs, PressLostAllLegs, Backtrack,
                      PressLostRest, PressLeg, BacktrackLeg
  <1>3. CASE Prune \/ ChangeRules
    BY <1>3 DEF Prune, TogglePrune, Reinstate, ToggleLeg, Replan, ChangeRules, AddRules, RemoveRules
  <1>4. CASE SnoozeSome \/ Tick \/ Wait \/ UNCHANGED vars
    BY <1>4 DEF SnoozeSome, Snooze, Tick, Wait, vars
  <1>5. CASE EditConcert
    <2>1. PICK c \in Saves(concert) : Save(c)
      BY <1>5 DEF EditConcert
    <2>2. concert' = c \/ concert' = concert
      BY <2>1 DEF Save
    <2> QED BY <2>2
  <1> QED BY <1>2, <1>3, <1>4, <1>5 DEF Next

\* The saves keep the concert's rows well formed.
THEOREM ReaderInvariant == Spec => []ReaderInv
  <1>1. Init => WellFormed
    BY QueueAssumption DEF Init, WellFormed, QueueAssumption
  <1>2. TypeOK /\ WellFormed /\ [Next]_vars => WellFormed'
    <2> SUFFICES ASSUME TypeOK, WellFormed, [Next]_vars
                 PROVE  WellFormed'
      OBVIOUS
    <2>1. CASE concert' = concert
      BY <2>1 DEF WellFormed
    <2>2. CASE concert' # concert
      <3>1. PICK c \in Saves(concert) : concert' = c
        BY <2>2, OnlySavesChangeConcert
      <3> QED BY <3>1, SavesWellFormed, QueueAssumption DEF WellFormed
    <2> QED BY <2>1, <2>2
  <1> QED BY <1>1, <1>2, TypeCorrect, PTL DEF Spec, ReaderInv

----------------------------------------------------------------------------
(* What lies ahead.                                                        *)

\* The rounds Home lists for this reader.
HomeRounds(c, s) ==
    {r \in c.rounds : /\ ~AllLegsCancelled(c) /\ ~RoundCancelled(c, r)
                      /\ ~RoundCovered(c, s, r) /\ ~FullyOptedOut(c, s, r)
                      /\ MayEnter(c, s, r)}

\* Home's rows are the future starts of the legs the reader has not given up
\* and the future moments of these rounds.
LEMMA HomeRows ==
    ASSUME PlanAssumption, NEW c \in Concert, NEW s \in Standing, NEW t \in Int, NEW row
    PROVE  row \in DeadlineRows(c, s, t) <=>
              /\ ~s.pruned
              /\ \/ \E d \in Live(c) \ s.out : c.starts[d] > t /\ row = Deadline(d, "EVENT_START", c.starts[d])
                 \/ \E r \in HomeRounds(c, s) : \E a \in Ahead(c, r, t) : row = Deadline(r, a, c.at[r][a])
  <1>1. Live(c) \subseteq Day /\ c.rounds \subseteq Round /\ s.out \subseteq Day /\ Round \cap Day = {}
    BY DEF Live, Concert, Standing, PlanAssumption
  <1>2. \A x, a, m : Deadline(x, a, m).target = x
    BY DEF Deadline
  <1>3. row \in UpcomingDeadlines(c, t) <=>
           \/ \E d \in Live(c) : c.starts[d] > t /\ row = Deadline(d, "EVENT_START", c.starts[d])
           \/ \E r \in c.rounds : /\ ~AllLegsCancelled(c) /\ ~RoundCancelled(c, r)
                                  /\ \E a \in Ahead(c, r, t) : row = Deadline(r, a, c.at[r][a])
    BY DEF UpcomingDeadlines
  <1>4. row \in DeadlineRows(c, s, t) <=>
           /\ row \in UpcomingDeadlines(c, t) /\ ~s.pruned /\ row.target \notin s.out
           /\ row.target \in Round => /\ ~RoundCovered(c, s, row.target)
                                      /\ ~FullyOptedOut(c, s, row.target)
                                      /\ MayEnter(c, s, row.target)
    BY DEF DeadlineRows
  <1> QED BY <1>1, <1>2, <1>3, <1>4 DEF HomeRounds

\* Home against the planner, moment by moment.
LEMMA HomeAgrees ==
    ASSUME PlanAssumption, TypeOK
    PROVE  HomeAgreesWithReminders
  <1> SUFFICES ASSUME ~standing.pruned, NEW a \in Anchor, NEW x \in concert.rounds \cup concert.days
               PROVE  x \in Planned(concert, standing, AtTheMoment(a), now)
                      <=> /\ \E row \in DeadlineRows(concert, standing, now) :
                                row.target = x /\ row.anchor = a
                          /\ ~(x \in Round /\ MootAnchor(standing, x, a))
    BY DEF HomeAgreesWithReminders
  <1> DEFINE rule == AtTheMoment(a)
  <1>1. /\ concert \in Concert /\ standing \in Standing /\ now \in Int
        /\ concert.rounds \subseteq Round /\ concert.days \subseteq Day /\ Round \cap Day = {}
        /\ NoTime \notin Int
    BY DEF TypeOK, Concert, PlanAssumption
  <1>2. rule.scope = AllRounds /\ rule.anchor = a /\ rule.lead = 0
    BY DEF AtTheMoment
  <1>3. \A y, b, m : Deadline(y, b, m).target = y /\ Deadline(y, b, m).anchor = b
    BY DEF Deadline
  <1> DEFINE Listed == \E row \in DeadlineRows(concert, standing, now) : row.target = x /\ row.anchor = a
  <1>4. CASE a = "EVENT_START"
    <2>1. x \in Planned(concert, standing, rule, now)
          <=> x \in Live(concert) \ standing.out /\ FireTime(concert, rule, x) > now
      BY <1>2, <1>4 DEF Planned, Candidates, LiveDays, Live
    <2>2. x \in Day => FireTime(concert, rule, x) = concert.starts[x]
      BY <1>1, <1>2 DEF FireTime, AnchorTime, Concert
    <2>3. Listed <=> x \in Live(concert) \ standing.out /\ concert.starts[x] > now
      <3>1. \A r : \A b \in Ahead(concert, r, now) : b # "EVENT_START"
        BY DEF Ahead, Set, RoundAnchor
      <3>2. ASSUME Listed PROVE x \in Live(concert) \ standing.out /\ concert.starts[x] > now
        <4>1. PICK row \in DeadlineRows(concert, standing, now) : row.target = x /\ row.anchor = a
          BY <3>2
        <4>2. PICK d \in Live(concert) \ standing.out :
                   concert.starts[d] > now /\ row = Deadline(d, "EVENT_START", concert.starts[d])
          BY <1>1, <1>3, <1>4, <3>1, <4>1, HomeRows
        <4> QED BY <1>3, <4>1, <4>2
      <3>3. ASSUME x \in Live(concert) \ standing.out, concert.starts[x] > now PROVE Listed
        <4>1. Deadline(x, "EVENT_START", concert.starts[x]) \in DeadlineRows(concert, standing, now)
          BY <1>1, <3>3, HomeRows
        <4> QED BY <1>3, <1>4, <4>1
      <3> QED BY <3>2, <3>3
    <2>4. x \in Live(concert) => x \in Day /\ x \notin Round
      BY <1>1 DEF Live
    <2> QED BY <2>1, <2>2, <2>3, <2>4
  <1>5. CASE a \in RoundAnchor
    <2>0. a # "EVENT_START"
      BY <1>5 DEF RoundAnchor
    <2>1. x \in Planned(concert, standing, rule, now)
          <=> /\ x \in HomeRounds(concert, standing) /\ ~MootAnchor(standing, x, a)
              /\ concert.at[x][a] # NoTime /\ FireTime(concert, rule, x) > now
      BY <1>2, <2>0 DEF Planned, Candidates, LiveRounds, InScope, Suppressed, MayEnter, HomeRounds
    <2>2. x \in Round /\ concert.at[x][a] # NoTime => FireTime(concert, rule, x) = concert.at[x][a]
      <3>1. x \in Round /\ concert.at[x][a] # NoTime => concert.at[x][a] \in Int
        BY <1>1, <1>5 DEF Concert, Time
      <3> QED BY <1>1, <1>2, <3>1 DEF FireTime, AnchorTime
    <2>3. Listed <=> /\ x \in HomeRounds(concert, standing)
                     /\ concert.at[x][a] # NoTime /\ concert.at[x][a] > now
      <3>1. \A r : a \in Ahead(concert, r, now) <=> concert.at[r][a] # NoTime /\ concert.at[r][a] > now
        BY <1>5 DEF Ahead, Set
      <3>2. ASSUME Listed PROVE x \in HomeRounds(concert, standing) /\ a \in Ahead(concert, x, now)
        <4>1. PICK row \in DeadlineRows(concert, standing, now) : row.target = x /\ row.anchor = a
          BY <3>2
        <4>2. PICK r \in HomeRounds(concert, standing) :
                   \E b \in Ahead(concert, r, now) : row = Deadline(r, b, concert.at[r][b])
          BY <1>1, <1>3, <2>0, <4>1, HomeRows
        <4> QED BY <1>3, <4>1, <4>2
      <3>3. ASSUME x \in HomeRounds(concert, standing), a \in Ahead(concert, x, now) PROVE Listed
        <4>1. Deadline(x, a, concert.at[x][a]) \in DeadlineRows(concert, standing, now)
          BY <1>1, <3>3, HomeRows
        <4> QED BY <1>3, <4>1
      <3> QED BY <3>1, <3>2, <3>3
    <2>4. x \in HomeRounds(concert, standing) => x \in Round
      BY <1>1 DEF HomeRounds
    <2> QED BY <2>1, <2>2, <2>3, <2>4
  <1> QED BY <1>4, <1>5 DEF Anchor

\* The calendar feed against Home.
LEMMA FeedAgrees ==
    ASSUME PlanAssumption, TypeOK
    PROVE  FeedAgreesWithHome
  <1> DEFINE feed == UserCalendarEvents(concert, standing, now)
             home == DeadlineRows(concert, standing, now)
             rounds == HomeRounds(concert, standing)
  <1>1. /\ concert \in Concert /\ standing \in Standing /\ now \in Int
        /\ concert.rounds \subseteq Round /\ concert.days \subseteq Day /\ Round \cap Day = {}
    BY DEF TypeOK, Concert, PlanAssumption
  <1>2. \A y, b, m : /\ Deadline(y, b, m).target = y /\ Deadline(y, b, m).anchor = b
                     /\ Deadline(y, b, m).at = m
    BY DEF Deadline
  <1>3. \A r : \A b \in RoundAnchor : concert.at[r][b] # NoTime /\ concert.at[r][b] > now
                                        => b \in Ahead(concert, r, now)
    BY DEF Ahead, Set
  <1>4. \A r : \A b \in Ahead(concert, r, now) : /\ b \in RoundAnchor /\ concert.at[r][b] # NoTime
                                                /\ concert.at[r][b] > now
    BY DEF Ahead, Set
  <1>5. \A d \in Live(concert) : ~AllLegsCancelled(concert) /\ d \in Day
    BY <1>1 DEF Live, AllLegsCancelled
  <1>6. \A m : m \in feed <=>
           /\ ~standing.pruned
           /\ \/ \E d \in Live(concert) \ standing.out :
                    concert.starts[d] > now /\ m = Deadline(d, "EVENT_START", concert.starts[d])
              \/ \E r \in rounds : m \in FeedMoments(concert, standing, r) /\ m.at # NoTime /\ m.at > now
    BY <1>5 DEF UserCalendarEvents, HomeRounds
  <1>7. ASSUME NEW m \in feed
        PROVE  m \in home \/ (m.anchor = "RESULTS" /\ Deadline(m.target, "CLOSES", m.at) \in home)
    <2>1. CASE \E d \in Live(concert) \ standing.out :
                  concert.starts[d] > now /\ m = Deadline(d, "EVENT_START", concert.starts[d])
      BY <1>1, <1>6, <2>1, HomeRows
    <2>2. ASSUME NEW r \in rounds, m \in FeedMoments(concert, standing, r), m.at # NoTime, m.at > now
          PROVE  m \in home \/ (m.anchor = "RESULTS" /\ Deadline(m.target, "CLOSES", m.at) \in home)
      <3>1. ASSUME NEW b \in RoundAnchor, m.at = concert.at[r][b]
            PROVE  Deadline(r, b, concert.at[r][b]) \in home
        BY <1>1, <1>3, <1>6, <2>2, <3>1, HomeRows
      <3>2. PICK b \in RoundAnchor : \/ m = Deadline(r, b, concert.at[r][b])
                                    \/ m = Deadline(r, "RESULTS", concert.at[r]["CLOSES"])
        BY <2>2 DEF FeedMoments, RoundAnchor
      <3>3. "CLOSES" \in RoundAnchor
        BY DEF RoundAnchor
      <3> QED BY <1>2, <3>1, <3>2, <3>3
    <2> QED BY <1>6, <2>1, <2>2
  <1>8. ASSUME NEW row \in home
        PROVE  \/ row \in feed
               \/ row.target \in Round
                  /\ \/ standing.outcome[row.target] = "NONE" /\ row.anchor \in {"RESULTS", "PAYMENT"}
                     \/ standing.outcome[row.target] = "APPLIED" /\ row.anchor # "RESULTS"
                     \/ standing.outcome[row.target] = "WON" /\ row.anchor # "PAYMENT"
                     \/ standing.outcome[row.target] \in {"LOST", "NOT_APPLIED", "PAID"}
    <2>0. /\ ~standing.pruned
          /\ \/ \E d \in Live(concert) \ standing.out :
                   concert.starts[d] > now /\ row = Deadline(d, "EVENT_START", concert.starts[d])
             \/ \E r \in rounds : \E b \in Ahead(concert, r, now) : row = Deadline(r, b, concert.at[r][b])
      BY <1>1, HomeRows
    <2>1. CASE \E d \in Live(concert) \ standing.out :
                  concert.starts[d] > now /\ row = Deadline(d, "EVENT_START", concert.starts[d])
      BY <1>6, <2>0, <2>1
    <2>2. ASSUME NEW r \in rounds, NEW b \in Ahead(concert, r, now),
                 row = Deadline(r, b, concert.at[r][b]), row \notin feed
          PROVE  /\ row.target = r /\ row.anchor = b /\ r \in Round
                 /\ \/ standing.outcome[r] = "NONE" /\ b \in {"RESULTS", "PAYMENT"}
                    \/ standing.outcome[r] = "APPLIED" /\ b # "RESULTS"
                    \/ standing.outcome[r] = "WON" /\ b # "PAYMENT"
                    \/ standing.outcome[r] \in {"LOST", "NOT_APPLIED", "PAID"}
      <3>1. r \in Round /\ row.target = r /\ row.anchor = b /\ row.at = concert.at[r][b]
        BY <1>1, <1>2, <2>2 DEF HomeRounds
      <3>2. standing.outcome[r] \in Outcome \cup {"NONE"}
        BY <1>1, <3>1 DEF Standing
      <3>3. row \notin FeedMoments(concert, standing, r)
        BY <1>4, <1>6, <2>0, <2>2, <3>1
      <3>4. b \in {"OPENS", "CLOSES", "RESULTS", "PAYMENT"} /\ concert.at[r][b] # NoTime
        BY <1>4 DEF RoundAnchor
      <3>5. CASE standing.outcome[r] = "NONE"
        BY <2>2, <3>1, <3>3, <3>4, <3>5 DEF FeedMoments
      <3>6. CASE standing.outcome[r] = "APPLIED"
        BY <2>2, <3>1, <3>3, <3>4, <3>6 DEF FeedMoments
      <3>7. CASE standing.outcome[r] = "WON"
        BY <2>2, <3>1, <3>3, <3>4, <3>7 DEF FeedMoments
      <3> QED BY <3>1, <3>2, <3>5, <3>6, <3>7 DEF Outcome
    <2> QED BY <2>0, <2>1, <2>2
  <1> QED BY <1>7, <1>8 DEF FeedAgreesWithHome

\* /upcoming and the setup flow against Home.
LEMMA ListsMatch ==
    ASSUME PlanAssumption, HorizonAssumption, TypeOK
    PROVE  ListsAgree
  <1> DEFINE home == DeadlineRows(concert, standing, now)
             rounds == HomeRounds(concert, standing)
  <1>1. /\ concert \in Concert /\ standing \in Standing /\ now \in Int
        /\ concert.rounds \subseteq Round /\ concert.days \subseteq Day /\ Round \cap Day = {}
        /\ \A r \in Round : \A a \in RoundAnchor : concert.at[r][a] \in Int \cup {NoTime}
    BY DEF TypeOK, Concert, PlanAssumption, Time
  <1>2. \A y, b, m : /\ Deadline(y, b, m).target = y /\ Deadline(y, b, m).anchor = b
                     /\ Deadline(y, b, m).at = m
    BY DEF Deadline
  <1>3. \A r : \A a : a \in Ahead(concert, r, now) <=>
             a \in RoundAnchor /\ concert.at[r][a] # NoTime /\ concert.at[r][a] > now
    BY DEF Ahead, Set
  <1>4. ASSUME NEW row \in home, row.target \in Round \/ row.anchor # "EVENT_START"
        PROVE  /\ row.target \in rounds /\ row.anchor \in Ahead(concert, row.target, now)
               /\ row.at = concert.at[row.target][row.anchor]
               /\ row = Deadline(row.target, row.anchor, row.at)
    <2>1. PICK r \in rounds : \E a \in Ahead(concert, r, now) : row = Deadline(r, a, concert.at[r][a])
      BY <1>1, <1>2, <1>4, HomeRows DEF Live
    <2> QED BY <1>2, <2>1
  <1>5. ASSUME NEW row \in home, row.anchor \in {"OPENS", "CLOSES"}, row.at <= now + Horizon
        PROVE  row.target \in UpcomingRounds(concert, now)
    <2>1. row.target \in rounds /\ row.target \in Round /\ row.anchor \in RoundAnchor
          /\ row.at = concert.at[row.target][row.anchor] /\ row.at # NoTime /\ row.at > now
      BY <1>1, <1>3, <1>4, <1>5 DEF HomeRounds
    <2>2. row.at \in now .. now + Horizon
      BY <1>1, <1>5, <2>1, HorizonAssumption
    <2> QED BY <1>5, <2>1, <2>2 DEF UpcomingRounds, HomeRounds
  <1>6. ASSUME NEW r \in PaymentDue(concert, standing, now), MayEnter(concert, standing, r)
        PROVE  \E row \in home : row.target = r /\ row.anchor = "PAYMENT"
    <2>1. /\ ~standing.pruned /\ ~AllLegsCancelled(concert)
          /\ r \in concert.rounds /\ ~RoundCancelled(concert, r)
          /\ ~FullyOptedOut(concert, standing, r)
          /\ standing.outcome[r] = "WON" /\ "PAYMENT" \in Ahead(concert, r, now)
      BY DEF PaymentDue, TrackedUpcoming, SetupLiveRounds
    <2>2. ~RoundCovered(concert, standing, r)
      BY <2>1 DEF RoundCovered, SecuredRounds, Secured
    <2>3. r \in rounds
      BY <1>6, <2>1, <2>2 DEF HomeRounds
    <2>4. Deadline(r, "PAYMENT", concert.at[r]["PAYMENT"]) \in home
      BY <1>1, <2>1, <2>3, HomeRows
    <2> QED BY <1>2, <2>4
  <1>7. ASSUME NEW m \in NextRoundAnchor(concert, now), NEW row \in home, row.target \in Round
        PROVE  m.at <= row.at
    <2>1. rounds \subseteq SetupLiveRounds(concert)
      BY DEF HomeRounds, SetupLiveRounds
    <2>2. row \in UNION {{Deadline(r, a, concert.at[r][a]) : a \in Ahead(concert, r, now)} :
                            r \in SetupLiveRounds(concert)}
      BY <1>4, <1>7, <2>1
    <2> QED BY <2>2 DEF NextRoundAnchor
  <1> QED BY <1>5, <1>6, <1>7 DEF ListsAgree

\* The ladder watch against the planner.
LEMMA QuietLadder ==
    ASSUME PlanAssumption, TypeOK
    PROVE  QuietLadderPlansNothing
  <1> SUFFICES ASSUME LadderMoments(concert, now) = {}, NEW a \in RoundAnchor,
                      NEW r \in Planned(concert, standing, AtTheMoment(a), now)
               PROVE  FALSE
    BY DEF QuietLadderPlansNothing
  <1>1. a # "EVENT_START" /\ AtTheMoment(a).anchor = a /\ AtTheMoment(a).lead = 0
    BY DEF RoundAnchor, AtTheMoment
  <1>2. /\ r \in concert.rounds /\ ~AllLegsCancelled(concert) /\ ~RoundCancelled(concert, r)
        /\ concert.at[r][a] # NoTime /\ FireTime(concert, AtTheMoment(a), r) > now
    BY <1>1 DEF Planned, Candidates, LiveRounds
  <1>3. r \in Round /\ r \notin Day /\ concert.at[r][a] \in Int
    BY <1>2 DEF TypeOK, Concert, PlanAssumption, Time
  <1>4. concert.at[r][a] > now
    BY <1>1, <1>2, <1>3 DEF FireTime, AnchorTime
  <1>5. a \in Ahead(concert, r, now) /\ r \in ListedRounds(concert)
    BY <1>2, <1>4 DEF Ahead, Set, ListedRounds
  <1>6. concert.at[r][a] \in LadderMoments(concert, now)
    BY <1>2, <1>5 DEF LadderMoments
  <1> QED BY <1>6

\* One account of what lies ahead, on every surface that lists moments.
THEOREM SurfacesAgree == Spec => []MomentsAgree
  <1>1. TypeOK => MomentsAgree
    BY PlanAssumption, HorizonAssumption, HomeAgrees, FeedAgrees, ListsMatch, QuietLadder
    DEF MomentsAgree
  <1> QED BY <1>1, TypeCorrect, PTL

----------------------------------------------------------------------------
(* Tickets.                                                                *)

\* The legs a round is listed under are those it sells, while one is live.
LEMMA PageDaysCover ==
    ASSUME TypeOK, WellFormed, NEW r \in Round, NEW d \in Live(concert)
    PROVE  d \in PageDays(concert, r) <=> d \in CoveredDays(concert, r)
  <1>1. concert.legs[r] \subseteq concert.days /\ d \in concert.days
    BY DEF WellFormed, Live
  <1> QED BY <1>1 DEF PageDays, CoveredDays

\* The page's "won" against the planner's held legs, leg by leg.
LEMMA WonIsHeld ==
    ASSUME TypeOK, WellFormed, WonLegSecuresRound, NEW r \in concert.rounds, NEW d \in Live(concert)
    PROVE  (d \in PageDays(concert, r) /\ LegResultFor(concert, standing, r, d) = "WON")
           <=> d \in Held(concert, standing, r)
  <1>1. r \in Round /\ d \in Day
    BY DEF TypeOK, Concert, Live
  <1>2. d \in PageDays(concert, r) <=> d \in CoveredDays(concert, r)
    BY <1>1, PageDaysCover
  <1>3. standing.result[r][d] = "WON" => HasDayRows(standing, r) /\ standing.outcome[r] \in Secured
    BY <1>1 DEF WonLegSecuresRound, WonDays, HasDayRows
  <1>4. standing.result[r][d] # "NONE" => HasDayRows(standing, r)
    BY <1>1 DEF HasDayRows
  <1>5. d \in WonDays(standing, r) <=> standing.result[r][d] = "WON"
    BY <1>1 DEF WonDays
  <1> QED BY <1>1, <1>2, <1>3, <1>4, <1>5 DEF LegResultFor, Held, SecuredDays, SecuredRounds

\* The page says "won" under a live leg exactly when the planner counts it as
\* held, after any presses, corrections and saves.
THEOREM PageTellsTheTruth ==
    ASSUME "LOST" \notin FlatOutcomes
    PROVE  Spec => []TicketsAgree
  <1>1. ReaderInv /\ WonLegSecuresRound => TicketsAgree
    <2> SUFFICES ASSUME ReaderInv, WonLegSecuresRound, NEW d \in Live(concert)
                 PROVE  (\E r \in RowsUnder(concert, d) : LegResultFor(concert, standing, r, d) = "WON")
                        <=> \E r \in concert.rounds : d \in Held(concert, standing, r)
      BY DEF TicketsAgree
    <2>1. \A r \in concert.rounds :
             (d \in PageDays(concert, r) /\ LegResultFor(concert, standing, r, d) = "WON")
             <=> d \in Held(concert, standing, r)
      BY WonIsHeld DEF ReaderInv
    <2> QED BY <2>1 DEF RowsUnder
  <1> QED BY <1>1, ReaderInvariant, WonLegSecures, PTL

----------------------------------------------------------------------------
(* The soonest moment, the round that leads the page, the way in.          *)

\* Of moments that are all ahead, one is the soonest.
LEMMA SoonestOf ==
    ASSUME NEW S, NEW t \in Int, \A m \in S : m \in Int /\ m > t, S # {}
    PROVE  \E m \in S : \A n \in S : m <= n
  <1> DEFINE waits == {n \in Nat : t + n \in S}
  <1>1. \A m \in S : m - t \in waits
    BY SMT
  <1>2. waits # {}
    BY <1>1
  <1> HIDE DEF waits
  <1>3. waits \subseteq Nat
    BY DEF waits
  <1>4. PICK n \in waits : \A k \in waits : ~(<<k, n>> \in OpToRel(<, Nat))
    BY <1>2, <1>3, NatLessThanWellFounded, WFMin
  <1>5. n \in Nat /\ t + n \in S /\ \A k \in waits : k \in Nat /\ n <= k
    <2>1. n \in Nat /\ \A k \in waits : k \in Nat /\ ~(k < n)
      BY <1>3, <1>4 DEF OpToRel
    <2>2. t + n \in S
      BY <1>4 DEF waits
    <2> QED BY <2>1, <2>2
  <1>6. \A m \in S : t + n <= m
    <2> SUFFICES ASSUME NEW m \in S PROVE t + n <= m
      OBVIOUS
    <2>1. m \in Int /\ n <= m - t
      BY <1>1, <1>5
    <2> QED BY <1>5, <2>1
  <1> QED BY <1>5, <1>6

\* A round with a moment ahead leads with the soonest of them.
LEMMA PrimaryIsSoonest ==
    ASSUME PlanAssumption, NEW c \in Concert, NEW r \in Round, NEW t \in Int, Ahead(c, r, t) # {}
    PROVE  /\ \E a \in Ahead(c, r, t) : Primary(c, r, t) = c.at[r][a]
           /\ \A a \in Ahead(c, r, t) : Primary(c, r, t) <= c.at[r][a]
           /\ Primary(c, r, t) \in Int /\ Primary(c, r, t) > t
  <1> DEFINE ahead == {m \in {c.at[r][a] : a \in Set(c, r)} : m > t}
  <1>1. \A a \in RoundAnchor : c.at[r][a] \in Int \cup {NoTime}
    BY DEF Concert, Time
  <1>2. \A m : m \in ahead <=> \E a \in Ahead(c, r, t) : m = c.at[r][a]
    BY DEF Ahead
  <1>3. \A m \in ahead : m \in Int /\ m > t
    BY <1>1 DEF Set
  <1>4. ahead # {}
    BY <1>2
  <1>5. Primary(c, r, t) = CHOOSE m \in ahead : \A n \in ahead : m <= n
    BY <1>4 DEF Primary
  <1> HIDE DEF ahead
  <1>6. \E m \in ahead : \A n \in ahead : m <= n
    BY <1>3, <1>4, SoonestOf
  <1>7. Primary(c, r, t) \in ahead /\ \A n \in ahead : Primary(c, r, t) <= n
    BY <1>5, <1>6
  <1> QED BY <1>2, <1>3, <1>7

\* What leads Home's block and what leads the page.
LEMMA OneLead ==
    ASSUME PlanAssumption, TypeOK
    PROVE  OneNextForYou
  <1> DEFINE next  == NextForYou(concert, standing, now)
             leads == Leads(concert, standing, now)
             rows  == DeadlineRows(concert, standing, now)
             block == BlockRows(concert, standing, now)
             home  == HomeRounds(concert, standing)
             Needs(r) == NeedsYou(concert, standing, r, now)
             Prime(r) == Primary(concert, r, now)
             Wants(row) == RowWantsYou(concert, standing, row, now)
             ahead == {r \in concert.rounds : Needs(r) /\ Ahead(concert, r, now) # {}}
  <1> SUFFICES ASSUME ~standing.pruned
               PROVE  /\ \A n \in next : /\ Ahead(concert, n, now) # {} /\ ~RoundCancelled(concert, n)
                                         /\ MayEnter(concert, standing, n)
                         => \A row \in leads : Wants(row) /\ row.at = Prime(n)
                      /\ (\E row \in leads : Wants(row)) => next # {}
    BY DEF OneNextForYou
  <1>1. /\ concert \in Concert /\ standing \in Standing /\ now \in Int
        /\ concert.rounds \subseteq Round /\ concert.days \subseteq Day /\ Round \cap Day = {}
    BY DEF TypeOK, Concert, PlanAssumption
  <1>2. \A y, b, m : /\ Deadline(y, b, m).target = y /\ Deadline(y, b, m).anchor = b
                     /\ Deadline(y, b, m).at = m
    BY DEF Deadline
  <1>3. \A r \in concert.rounds : r \in Round /\ (Ahead(concert, r, now) # {} =>
           /\ \E a \in Ahead(concert, r, now) : Prime(r) = concert.at[r][a]
           /\ \A a \in Ahead(concert, r, now) : Prime(r) <= concert.at[r][a]
           /\ Prime(r) \in Int /\ Prime(r) > now)
    BY <1>1, PrimaryIsSoonest
  <1>4. ahead # {} => next = {r \in ahead : \A o \in ahead : Prime(r) <= Prime(o)}
    BY DEF NextForYou
  \* A round's row: the lead of its rows has the round's primary moment.
  <1>5. ASSUME NEW row \in rows, row.target \in Round
        PROVE  /\ row.target \in home /\ Ahead(concert, row.target, now) # {}
               /\ \E a \in Ahead(concert, row.target, now) : row.at = concert.at[row.target][a]
    <2>1. PICK r \in home : \E a \in Ahead(concert, r, now) : row = Deadline(r, a, concert.at[r][a])
      BY <1>1, <1>2, <1>5, HomeRows DEF Live
    <2> QED BY <1>2, <2>1
  <1>6. ASSUME NEW r \in home, Ahead(concert, r, now) # {}
        PROVE  \E row \in block : row.target = r /\ row.at = Prime(r)
    <2>0. r \in concert.rounds /\ r \in Round
      BY <1>1 DEF HomeRounds
    <2>1. PICK a \in Ahead(concert, r, now) : Prime(r) = concert.at[r][a]
      BY <1>3, <1>6, <2>0
    <2> DEFINE lead == Deadline(r, a, concert.at[r][a])
    <2>2. lead \in rows /\ lead.target = r /\ lead.at = Prime(r)
      BY <1>1, <1>2, <2>1, HomeRows
    <2> HIDE DEF lead
    <2>3. ASSUME NEW o \in rows, o.target = r PROVE lead.at <= o.at
      BY <1>3, <1>5, <1>6, <2>0, <2>2, <2>3
    <2>4. lead \in block
      BY <2>2, <2>3 DEF BlockRows
    <2> QED BY <2>2, <2>4
  <1>7. \A r \in home : Needs(r) <=> WantsYou(concert, standing, r, now)
    BY DEF NeedsYou, HomeRounds
  <1>8. \A r \in ahead : ~RoundCancelled(concert, r) /\ MayEnter(concert, standing, r) => r \in home
    BY DEF NeedsYou, HomeRounds
  <1>9. block \subseteq rows
    BY DEF BlockRows
  <1>10. \A row : Wants(row) <=> row.target \in Round /\ WantsYou(concert, standing, row.target, now)
    BY DEF RowWantsYou
  <1>11. \A row \in block : Wants(row) => /\ row.target \in ahead
                                          /\ Prime(row.target) \in Int /\ Prime(row.target) <= row.at
    BY <1>3, <1>5, <1>7, <1>9, <1>10 DEF HomeRounds
  <1>12. (\E row \in block : Wants(row)) =>
            leads = {row \in block : Wants(row) /\ \A o \in block : Wants(o) => row.at <= o.at}
    BY DEF Leads
  <1>13. leads \subseteq block
    BY DEF Leads
  <1>14. ASSUME NEW n \in next, Ahead(concert, n, now) # {}, ~RoundCancelled(concert, n),
                MayEnter(concert, standing, n), NEW row \in leads
         PROVE  Wants(row) /\ row.at = Prime(n)
    <2>1. n \in ahead
      BY <1>14 DEF NextForYou
    <2>2. n \in home /\ \A o \in ahead : Prime(n) <= Prime(o)
      BY <1>4, <1>8, <1>14, <2>1
    <2>3. PICK rn \in block : rn.target = n /\ rn.at = Prime(n)
      BY <1>6, <1>14, <2>2
    <2>4. Wants(rn)
      BY <1>3, <1>7, <1>10, <2>1, <2>2, <2>3
    <2>5. Wants(row) /\ row \in block /\ row.at <= Prime(n)
      BY <1>12, <1>14, <2>3, <2>4
    <2>6. /\ Prime(n) <= Prime(row.target) /\ Prime(row.target) <= row.at
          /\ Prime(n) \in Int /\ Prime(row.target) \in Int
      BY <1>3, <1>11, <2>1, <2>2, <2>5
    <2>7. row.at \in Int
      <3>1. \A a \in RoundAnchor : concert.at[row.target][a] \in Int \cup {NoTime}
        BY <1>1, <1>10, <2>5 DEF Concert, Time
      <3>2. \A a \in Ahead(concert, row.target, now) : concert.at[row.target][a] \in Int
        BY <3>1 DEF Ahead, Set
      <3> QED BY <1>5, <1>9, <1>10, <2>5, <3>2
    <2>8. row.at = Prime(n)
      BY ONLY <2>5, <2>6, <2>7
    <2> QED BY <2>5, <2>8
  <1>15. ASSUME NEW row \in leads, Wants(row)
         PROVE  next # {}
    <2>1. ahead # {}
      BY <1>11, <1>13, <1>15
    <2>2. \E m \in {Prime(r) : r \in ahead} : \A n \in {Prime(r) : r \in ahead} : m <= n
      <3>1. \A m \in {Prime(r) : r \in ahead} : m \in Int /\ m > now
        BY <1>3
      <3> HIDE DEF ahead, Prime
      <3>2. {Prime(r) : r \in ahead} # {}
        BY <2>1
      <3> QED BY <1>1, <3>1, <3>2, SoonestOf
    <2>3. \E r \in ahead : \A o \in ahead : Prime(r) <= Prime(o)
      BY <2>2
    <2> QED BY <1>4, <2>1, <2>3
  <1> QED BY <1>14, <1>15

\* Home and the page lead with the same moment.
THEOREM OneMomentLeads == Spec => []OneNextForYou
  <1>1. TypeOK => OneNextForYou
    BY PlanAssumption, OneLead
  <1> QED BY <1>1, TypeCorrect, PTL

\* The fold never hides the last way in: an open round shows itself, and of
\* those that have not opened the soonest is kept in front.
LEMMA SomeWayIn ==
    ASSUME PlanAssumption, TypeOK, WellFormed, WonLegSecuresRound
    PROVE  WayInIsVisible
  <1> SUFFICES ASSUME NEW d \in Live(concert) \ standing.out
               PROVE  LET base  == RowsUnder(concert, d) \ concert.upgrades
                          enter == {r \in base : standing.outcome[r] = "NONE" /\ NotClosed(concert, r, now)}
                      IN /\ ~\E r \in concert.rounds : d \in Held(concert, standing, r)
                         /\ \A r \in base : HasOpened(concert, r, now) \/ r \in enter
                         /\ enter # {}
                         => enter \cap Visible(concert, standing, d, now) # {}
    BY DEF WayInIsVisible
  <1> DEFINE base  == RowsUnder(concert, d) \ concert.upgrades
             enter == {r \in base : standing.outcome[r] = "NONE" /\ NotClosed(concert, r, now)}
             unopened == {r \in base : ~HasOpened(concert, r, now)}
  <1> SUFFICES ASSUME ~\E r \in concert.rounds : d \in Held(concert, standing, r),
                      \A r \in base : HasOpened(concert, r, now) \/ r \in enter, enter # {}
               PROVE  \E r \in enter : r \in Visible(concert, standing, d, now)
    OBVIOUS
  <1>1. /\ concert.rounds \subseteq Round /\ now \in Int /\ d \in concert.days /\ d \notin concert.cancelled
        /\ \A r \in Round : concert.at[r]["OPENS"] \in Int \cup {NoTime}
    BY DEF TypeOK, Concert, Time, RoundAnchor, Live
  <1>2. \A r \in base : r \in concert.rounds /\ r \in Round /\ r \notin concert.upgrades
                        /\ d \in PageDays(concert, r) /\ d \in CoveredDays(concert, r)
    BY <1>1, PageDaysCover DEF RowsUnder
  <1>3. \A r \in RowsUnder(concert, d) : LegResultFor(concert, standing, r, d) # "WON"
    <2>1. \A r \in concert.rounds :
             (d \in PageDays(concert, r) /\ LegResultFor(concert, standing, r, d) = "WON")
             <=> d \in Held(concert, standing, r)
      BY WonIsHeld
    <2> QED BY <2>1 DEF RowsUnder
  <1>4. CASE \E r \in enter : HasOpened(concert, r, now)
    <2>1. PICK r \in enter : HasOpened(concert, r, now)
      BY <1>4
    <2>2. d \notin SecuredElsewhere(concert, standing, r)
      BY DEF SecuredElsewhere, Held, SecuredRounds
    <2>3. ~RoundCovered(concert, standing, r) /\ ~AllLegsCancelled(concert)
      BY <1>1, <1>2, <2>2 DEF RoundCovered, AllLegsCancelled
    <2>4. WantsYou(concert, standing, r, now)
      BY <1>2, <2>1, <2>3 DEF WantsYou, CanCapture, MayEnter
    <2> QED BY <1>1, <2>4 DEF Visible
  <1>5. CASE \A r \in enter : ~HasOpened(concert, r, now)
    <2> DEFINE opens == {concert.at[r]["OPENS"] : r \in unopened}
    <2>1. unopened # {} /\ unopened \subseteq enter
      BY <1>5
    <2>2. opens # {} /\ \A m \in opens : m \in Int /\ m > now
      BY <1>1, <1>2, <2>1 DEF HasOpened
    <2> HIDE DEF opens, enter, base
    <2>3. \E m \in opens : \A n \in opens : m <= n
      BY <1>1, <2>2, SoonestOf
    <2>4. PICK r \in unopened : \A o \in unopened : concert.at[r]["OPENS"] <= concert.at[o]["OPENS"]
      BY <2>3 DEF opens
    <2>5. r \in NextOpening(concert, standing, d, now)
      BY <1>3, <2>4 DEF NextOpening, base
    <2>6. r \in enter /\ r \in RowsUnder(concert, d)
      BY <2>1, <2>4 DEF base
    <2> QED BY <1>1, <2>5, <2>6 DEF Visible
  <1> QED BY <1>4, <1>5

\* On a leg the reader neither holds nor skips, a round they could still enter
\* stays in front of the fold.
THEOREM WayInStays ==
    ASSUME "LOST" \notin FlatOutcomes
    PROVE  Spec => []WayInIsVisible
  <1>1. ReaderInv /\ WonLegSecuresRound => WayInIsVisible
    BY PlanAssumption, SomeWayIn DEF ReaderInv
  <1> QED BY <1>1, ReaderInvariant, WonLegSecures, PTL

----------------------------------------------------------------------------
(* The questions and the answers offered.                                  *)

\* A round is listed under some leg as soon as the concert has one.
LEMMA ListedSomewhere ==
    ASSUME NEW c, NEW r, c.days # {}
    PROVE  PageDays(c, r) # {}
  BY DEF PageDays

\* The next answer of a round the reader is in has its button on the page.
LEMMA AnswerOffered ==
    ASSUME TypeOK, WellFormed
    PROVE  NextAnswerIsOffered
  <1> SUFFICES ASSUME NEW r \in concert.rounds, CanCapture(concert, standing, r, now),
                      \/ standing.outcome[r] = "WON"
                      \/ standing.outcome[r] = "APPLIED" /\ ResultKnown(concert, r, now)
               PROVE  PageButtons(concert, standing, r, now) # {}
    BY DEF NextAnswerIsOffered
  <1> DEFINE capture == CaptureDays(concert, standing, r, now)
  <1>1. r \in Round /\ standing.outcome[r] # "NONE"
    BY DEF TypeOK, Concert
  <1>2. ASSUME NEW D, capture = {} PROVE Buttons(concert, standing, r, D, now) # {}
    <2>1. CASE CanReport(concert, standing, r, now)
      <3>1. <<r, "WON">> \in Buttons(concert, standing, r, D, now)
        BY <1>1, <1>2, <2>1 DEF Buttons, RoundPress
      <3> QED BY <3>1
    <2>2. CASE ~CanReport(concert, standing, r, now)
      <3>1. <<r, "PAID">> \in Buttons(concert, standing, r, D, now)
        BY <1>1, <1>2, <2>2 DEF Buttons, RoundPress, CanReport
      <3> QED BY <3>1
    <2> QED BY <2>1, <2>2
  <1>3. CASE concert.days = {}
    <2>1. CoveredDays(concert, r) = {}
      BY <1>3 DEF CoveredDays
    <2>2. capture = {}
      BY <2>1 DEF CaptureDays, UnresolvedDays
    <2> QED BY <1>2, <1>3, <2>2 DEF PageButtons, WholeRoundButtons
  <1>4. CASE concert.days # {} /\ capture = {}
    <2>1. PICK d \in PageDays(concert, r) : d \in PageDays(concert, r)
      BY <1>4, ListedSomewhere
    <2>2. Buttons(concert, standing, r, {d}, now) # {}
      BY <1>2, <1>4
    <2> QED BY <1>4, <2>2 DEF PageButtons
  <1>5. CASE concert.days # {} /\ capture # {}
    <2>1. PICK d \in capture : d \in CoveredDays(concert, r) \ (concert.cancelled \cup standing.out)
      BY <1>5 DEF CaptureDays, UnresolvedDays
    <2>2. d \in Live(concert)
      BY <2>1 DEF CoveredDays, Live
    <2>3. d \in PageDays(concert, r)
      BY <1>1, <2>1, <2>2, PageDaysCover
    <2>4. <<d, "WON">> \in LegPress(d)
      BY DEF LegPress
    <2>5. <<d, "WON">> \in Buttons(concert, standing, r, {d}, now)
      BY <1>1, <1>5, <2>1, <2>4 DEF Buttons
    <2> QED BY <1>5, <2>3, <2>5 DEF PageButtons
  <1> QED BY <1>3, <1>4, <1>5

\* The setup flow and the result DM ask what the page would record.
LEMMA QuestionsMatch ==
    ASSUME TypeOK
    PROVE  QuestionsAgree
  <1>1. ASSUME NEW r \in SetupApplicationRows(concert, standing, now), MayEnter(concert, standing, r)
        PROVE  /\ <<r, "APPLIED">> \in PageButtons(concert, standing, r, now)
               /\ ~CanReport(concert, SetOutcome(standing, r, "APPLIED"), r, now)
                  \/ {"CLOSES", "RESULTS"} \cap Set(concert, r) = {}
    <2>1. /\ ~AllLegsCancelled(concert) /\ ~RoundCovered(concert, standing, r)
          /\ standing.outcome[r] = "NONE" /\ HasOpened(concert, r, now)
          /\ {"CLOSES", "RESULTS"} \cap Set(concert, r) = {} \/ ~ResultKnown(concert, r, now)
      BY DEF SetupApplicationRows, TrackedUpcoming, RoundAsksApplication
    <2>2. \A D : <<r, "APPLIED">> \in Buttons(concert, standing, r, D, now)
      BY <1>1, <2>1 DEF Buttons, CanCapture, RoundPress
    <2>3. <<r, "APPLIED">> \in PageButtons(concert, standing, r, now)
      <3>1. CASE concert.days = {}
        BY <2>2, <3>1 DEF PageButtons, WholeRoundButtons
      <3>2. CASE concert.days # {}
        BY <2>2, <3>2, ListedSomewhere DEF PageButtons
      <3> QED BY <3>1, <3>2
    <2> QED BY <2>1, <2>3 DEF CanReport
  <1>2. ASSUME NEW r \in concert.rounds, CaptureDays(concert, standing, r, now) # {}
        PROVE  CaptureDays(concert, standing, r, now) = RoundResultState(concert, standing, r)
    <2>1. /\ CaptureDays(concert, standing, r, now) = UnresolvedDays(concert, standing, r)
          /\ standing.outcome[r] = "APPLIED" \/ WonDays(standing, r) # {}
      BY <1>2 DEF CaptureDays
    <2>2. WonDays(standing, r) # {} => HasDayRows(standing, r)
      BY DEF WonDays, HasDayRows
    <2> QED BY <2>1, <2>2 DEF RoundResultState
  <1> QED BY <1>1, <1>2 DEF QuestionsAgree

\* No dead end and no crossed wires between the surfaces that ask.
THEOREM AnswersOffered == Spec => []AnswersAreOffered
  <1>1. ReaderInv => AnswersAreOffered
    BY AnswerOffered, QuestionsMatch DEF ReaderInv, AnswersAreOffered
  <1> QED BY <1>1, ReaderInvariant, PTL

----------------------------------------------------------------------------
(* The board's card and the catalogue's pill.                              *)

\* A moment before a later one has fewer of a finite set's moments before it.
LEMMA EarlierGrows ==
    ASSUME NEW S, IsFiniteSet(S), NEW time \in [S -> Int], NEW i \in S, NEW j \in S, time[i] < time[j]
    PROVE  Cardinality({k \in S : time[k] < time[i]}) < Cardinality({k \in S : time[k] < time[j]})
  <1> DEFINE A == {k \in S : time[k] < time[i]}
             B == {k \in S : time[k] < time[j]}
  <1>1. \A k \in S : time[k] \in Int
    OBVIOUS
  <1>2. i \notin A /\ A \cup {i} \in SUBSET B /\ A \in SUBSET S /\ B \in SUBSET S
    BY <1>1
  <1> HIDE DEF A, B
  <1>3. IsFiniteSet(A) /\ IsFiniteSet(B)
    BY <1>2, FS_Subset
  <1>4. Cardinality(A \cup {i}) = Cardinality(A) + 1
    BY <1>2, <1>3, FS_AddElement
  <1>5. Cardinality(A \cup {i}) <= Cardinality(B)
    BY <1>2, <1>3, FS_Subset
  <1>6. Cardinality(A) \in Nat /\ Cardinality(B) \in Nat
    BY <1>3, FS_CardinalityType
  <1>7. Cardinality(A) < Cardinality(B)
    BY ONLY <1>4, <1>5, <1>6
  <1> QED BY <1>7 DEF A, B

\* Of finitely many rungs one is last.
LEMMA SomeRungIsLast ==
    ASSUME PlanAssumption, NEW c \in Concert, NEW R \in SUBSET Round, IsFiniteSet(R), R # {}
    PROVE  LastOf(c, R) # {}
  <1>1. \A r \in R : LadderTime(c, r) \in Int \cup {NoTime}
    BY DEF LadderTime, Concert, Time, RoundAnchor
  <1>2. CASE \E r \in R : LadderTime(c, r) = NoTime
    BY <1>2 DEF LastOf, LadderBefore
  <1>3. CASE \A r \in R : LadderTime(c, r) # NoTime
    <2> DEFINE time == [r \in R |-> LadderTime(c, r)]
               Earlier(r) == {k \in R : time[k] < time[r]}
               n == Cardinality(R)
               left == {n - Cardinality(Earlier(r)) : r \in R}
    <2>1. time \in [R -> Int]
      BY <1>1, <1>3
    <2>2. \A r, o \in R : LadderBefore(c, r, o) => time[r] < time[o]
      BY <1>3 DEF LadderBefore
    <2> HIDE DEF time
    <2>3. \A r, o \in R : time[r] < time[o] => Cardinality(Earlier(r)) < Cardinality(Earlier(o))
      BY <2>1, EarlierGrows
    <2>4. \A r \in R : /\ Cardinality(Earlier(r)) \in Nat /\ n \in Nat
                       /\ Cardinality(Earlier(r)) <= n
      <3> SUFFICES ASSUME NEW r \in R
                   PROVE  /\ Cardinality(Earlier(r)) \in Nat /\ n \in Nat
                          /\ Cardinality(Earlier(r)) <= n
        OBVIOUS
      <3>1. Earlier(r) \in SUBSET R
        OBVIOUS
      <3> HIDE DEF Earlier
      <3>2. IsFiniteSet(Earlier(r)) /\ Cardinality(Earlier(r)) <= n
        BY <3>1, FS_Subset
      <3> QED BY <3>2, FS_CardinalityType
    <2> HIDE DEF Earlier, n
    <2>5. \A m \in left : m \in Int /\ m > -1
      BY <2>4
    <2>6. left # {}
      OBVIOUS
    <2> HIDE DEF left
    <2>7. PICK m \in left : \A k \in left : m <= k
      BY <2>5, <2>6, SoonestOf
    <2>8. PICK r \in R : m = n - Cardinality(Earlier(r))
      BY DEF left
    <2>9. ASSUME NEW o \in R, time[r] < time[o] PROVE FALSE
      <3>1. n - Cardinality(Earlier(r)) <= n - Cardinality(Earlier(o))
        BY <2>7, <2>8 DEF left
      <3>2. Cardinality(Earlier(r)) < Cardinality(Earlier(o))
        BY <2>3, <2>9
      <3> QED BY <2>4, <3>1, <3>2
    <2>10. r \in LastOf(c, R)
      BY <2>2, <2>9 DEF LastOf
    <2> QED BY <2>10
  <1> QED BY <1>2, <1>3

\* The outcome behind each standing that puts a card in a column.
LEMMA RankSays ==
    ASSUME NEW c, NEW s, NEW r
    PROVE  /\ StandingRank(c, s, r) \in {0, 1, 2, 3, 4}
           /\ StandingRank(c, s, r) \in {2, 4} => s.outcome[r] = "WON"
           /\ StandingRank(c, s, r) = 3 => s.outcome[r] = "PAID"
           /\ StandingRank(c, s, r) = 1 => s.outcome[r] = "APPLIED"
           /\ s.outcome[r] = "WON" /\ r \in c.upgrades => StandingRank(c, s, r) = 4
  BY DEF StandingRank

\* The rung with the highest standing is shown.
LEMMA TopIsShown ==
    ASSUME PlanAssumption, TypeOK, WellFormed, NEW r \in CardRounds(concert, standing),
           StandingRank(concert, standing, r) > 0,
           \A o \in CardRounds(concert, standing) :
              StandingRank(concert, standing, o) <= StandingRank(concert, standing, r)
    PROVE  \E q \in CardRounds(concert, standing) :
              /\ StandingRank(concert, standing, q) = StandingRank(concert, standing, r)
              /\ standing.outcome[q] \in ShownStates(concert, standing, now)
  <1> DEFINE R == CardRounds(concert, standing)
             Rank(q) == StandingRank(concert, standing, q)
             top == {q \in R : Rank(q) > 0 /\ \A o \in R : Rank(o) <= Rank(q)}
             state == StateRung(concert, standing, R, now)
             shown == VisibleRungs(concert, standing, R, now)
  <1>1. R \subseteq Round /\ IsFiniteSet(R) /\ concert \in Concert
    <2>1. R \in SUBSET concert.rounds
      BY DEF CardRounds
    <2> HIDE DEF R
    <2> QED BY <2>1, FS_Subset DEF WellFormed, TypeOK, Concert
  <1>2. \A q : Rank(q) \in Int
    BY RankSays
  <1>3. \A q \in top : Rank(q) = Rank(r) /\ q \in R
    BY <1>2
  <1>4. r \in top /\ top \in SUBSET R
    OBVIOUS
  <1>5. state = LastOf(concert, top)
    BY <1>4 DEF StateRung
  <1> HIDE DEF top, R, state
  <1>6. IsFiniteSet(top) /\ top # {} /\ top \in SUBSET Round
    BY <1>1, <1>4, FS_Subset
  <1>7. PICK q \in top : q \in state
    <2>1. LastOf(concert, top) # {}
      BY <1>1, <1>6, SomeRungIsLast
    <2> QED BY <1>5, <2>1 DEF LastOf
  <1>8. q \in shown
    BY <1>3, <1>7 DEF VisibleRungs, state
  <1>9. standing.outcome[q] # "NONE"
    <2>1. Rank(q) > 0
      BY <1>7 DEF top
    <2> QED BY <2>1 DEF StandingRank
  <1>10. RungState(concert, standing, q, now) = standing.outcome[q]
    BY <1>9 DEF RungState
  <1> QED BY <1>3, <1>7, <1>8, <1>10 DEF ShownStates, R

\* A card shows the outcome that put it in its column.
LEMMA CardExplained ==
    ASSUME PlanAssumption, TypeOK, WellFormed
    PROVE  CardExplainsItself
  <1> DEFINE R == CardRounds(concert, standing)
             Rank(q) == StandingRank(concert, standing, q)
             ranks == {Rank(q) : q \in R}
             shown == ShownStates(concert, standing, now)
             column == Column(concert, standing, now)
  <1>1. \A q : /\ Rank(q) \in {0, 1, 2, 3, 4}
               /\ Rank(q) \in {2, 4} => standing.outcome[q] = "WON"
               /\ Rank(q) = 3 => standing.outcome[q] = "PAID"
               /\ Rank(q) = 1 => standing.outcome[q] = "APPLIED"
    BY RankSays
  <1>2. ASSUME NEW r \in R, Rank(r) > 0, \A o \in R : Rank(o) <= Rank(r)
        PROVE  \E q \in R : Rank(q) = Rank(r) /\ standing.outcome[q] \in shown
    BY <1>2, TopIsShown
  <1>3. column = "won" => ranks \cap {2, 4} # {} /\ (4 \in ranks \/ 3 \notin ranks)
    BY DEF Column, ColumnFor
  <1>4. column = "secured" => 3 \in ranks /\ 4 \notin ranks
    BY DEF Column, ColumnFor
  <1>5. column = "applied" => 1 \in ranks /\ 3 \notin ranks /\ 2 \notin ranks /\ 4 \notin ranks
    BY DEF Column, ColumnFor
  <1> HIDE DEF R, Rank, shown, column
  <1>6. CASE column = "won"
    <2>1. CASE 4 \in ranks
      <3>1. PICK r \in R : Rank(r) = 4
        BY <2>1
      <3> QED BY <1>1, <1>2, <1>6, <3>1 DEF CardExplainsItself, column, shown
    <2>2. CASE 4 \notin ranks
      <3>1. PICK r \in R : Rank(r) = 2
        BY <1>3, <1>6, <2>2
      <3>2. \A o \in R : Rank(o) <= 2
        BY <1>1, <1>3, <1>6, <2>2
      <3> QED BY <1>1, <1>2, <1>6, <3>1, <3>2 DEF CardExplainsItself, column, shown
    <2> QED BY <2>1, <2>2
  <1>7. CASE column = "secured"
    <2>1. PICK r \in R : Rank(r) = 3
      BY <1>4, <1>7
    <2>2. \A o \in R : Rank(o) <= 3
      BY <1>1, <1>4, <1>7
    <2> QED BY <1>1, <1>2, <1>7, <2>1, <2>2 DEF CardExplainsItself, column, shown
  <1>8. CASE column = "applied"
    <2>1. PICK r \in R : Rank(r) = 1
      BY <1>5, <1>8
    <2>2. \A o \in R : Rank(o) <= 1
      BY <1>1, <1>5, <1>8
    <2> QED BY <1>1, <1>2, <1>8, <2>1, <2>2 DEF CardExplainsItself, column, shown
  <1>9. CASE column \notin {"won", "secured", "applied"}
    BY <1>9 DEF CardExplainsItself, column
  <1> QED BY <1>6, <1>7, <1>8, <1>9

\* The pill is urgent exactly when the board says that money is owed.
LEMMA PillAgrees == PillAgreesWithBoard
  <1> SUFFICES ASSUME ~AllLegsCancelled(concert), standing.out = {}
               PROVE  PillTone(concert, standing) = "danger" <=> Column(concert, standing, now) = "won"
    BY DEF PillAgreesWithBoard
  <1>1. CardRounds(concert, standing) = ListedRounds(concert)
    BY DEF CardRounds, ListedRounds, FullyOptedOut
  <1> DEFINE ranks == {StandingRank(concert, standing, q) : q \in ListedRounds(concert)}
             owed == ranks \cap {2, 4} # {} /\ (4 \in ranks \/ 3 \notin ranks)
  <1>2. \A open : ColumnFor(concert, standing, ListedRounds(concert), open) = "won" <=> owed
    BY DEF ColumnFor
  <1>3. WonUpgrades(concert, standing) # {} => 4 \in ranks
    BY RankSays DEF WonUpgrades
  <1>4. 4 \in ranks => owed
    OBVIOUS
  <1> HIDE DEF ranks, owed
  <1>5. PillTone(concert, standing) = "danger" <=> owed
    BY <1>2, <1>3, <1>4 DEF PillTone
  <1> QED BY <1>1, <1>2, <1>5 DEF Column

\* A card shows the rung that put it in its column, and the pill agrees.
THEOREM CardsExplained == Spec => []StandingIsExplained
  <1>1. ReaderInv => StandingIsExplained
    BY PlanAssumption, CardExplained, PillAgrees DEF ReaderInv, StandingIsExplained
  <1> QED BY <1>1, ReaderInvariant, PTL

----------------------------------------------------------------------------
(* The catch-up dialog: every answer leaves strictly fewer questions.      *)

\* What a standing has left to ask about a round, spelled out.
LEMMA LeftToAsk ==
    ASSUME NEW c, NEW s, NEW r, NEW t
    PROVE  /\ CaptureDays(c, s, r, t) \subseteq UnresolvedDays(c, s, r)
           /\ CaptureDays(c, s, r, t) # {} =>
                 /\ CaptureDays(c, s, r, t) = UnresolvedDays(c, s, r)
                 /\ ResultKnown(c, r, t)
                 /\ Cardinality(CoveredDays(c, r) \ c.cancelled) >= 2
                 /\ s.outcome[r] = "APPLIED" \/ (s.outcome[r] = "WON" /\ WonDays(s, r) # {})
           /\ s.outcome[r] \notin {"APPLIED", "WON"} =>
                 CaptureDays(c, s, r, t) = {} /\ ~CanReport(c, s, r, t)
           /\ s.outcome[r] # "APPLIED" => ~CanReport(c, s, r, t)
           /\ s.outcome[r] = "WON" /\ WonDays(s, r) = {} => CaptureDays(c, s, r, t) = {}
  BY DEF CaptureDays, CanReport

\* A leg's answer, or the rest of them, leaves no question that was not there.
LEMMA FewerLegs ==
    ASSUME NEW c, NEW s, NEW z, NEW r \in Round, NEW t, PlanAssumption, c \in Concert,
           CaptureDays(c, s, r, t) # {}, CanCapture(c, s, r, t),
           NEW d \in UnresolvedDays(c, s, r),
           UnresolvedDays(c, z, r) \subseteq UnresolvedDays(c, s, r) \ {d},
           z.outcome[r] \in {s.outcome[r], "WON", "LOST"}
    PROVE  /\ QuestionsLeft(c, z, r, t) \subseteq QuestionsLeft(c, s, r, t)
           /\ QuestionsLeft(c, z, r, t) # QuestionsLeft(c, s, r, t)
  <1>1. d \in Day /\ d # r
    BY DEF UnresolvedDays, CoveredDays, Concert, PlanAssumption
  <1>2. CaptureDays(c, s, r, t) = UnresolvedDays(c, s, r) /\ ResultKnown(c, r, t)
    BY LeftToAsk
  <1>3. CaptureDays(c, z, r, t) \subseteq CaptureDays(c, s, r, t) /\ d \notin CaptureDays(c, z, r, t)
    BY <1>2, LeftToAsk
  <1>4. CanReport(c, z, r, t) => CanReport(c, s, r, t)
    BY <1>2 DEF CanReport
  <1>5. d \in QuestionsLeft(c, s, r, t) /\ d \notin QuestionsLeft(c, z, r, t)
    BY <1>1, <1>2, <1>3 DEF QuestionsLeft
  <1>6. QuestionsLeft(c, z, r, t) \subseteq QuestionsLeft(c, s, r, t)
    BY <1>3, <1>4 DEF QuestionsLeft
  <1> QED BY <1>5, <1>6

\* An answer that settles the round leaves none.
LEMMA NothingLeft ==
    ASSUME NEW c, NEW s, NEW z, NEW r, NEW t,
           CaptureDays(c, s, r, t) # {} \/ CanReport(c, s, r, t),
           CaptureDays(c, z, r, t) = {} /\ ~CanReport(c, z, r, t)
    PROVE  /\ QuestionsLeft(c, z, r, t) \subseteq QuestionsLeft(c, s, r, t)
           /\ QuestionsLeft(c, z, r, t) # QuestionsLeft(c, s, r, t)
  BY DEF QuestionsLeft

\* What the presses that name a leg leave unresolved, and the outcome after.
LEMMA LegAnswers ==
    ASSUME NEW c \in Concert, NEW s \in Standing, NEW r \in Round, NEW d \in UnresolvedDays(c, s, r),
           s.outcome[r] = "APPLIED" \/ (s.outcome[r] = "WON" /\ WonDays(s, r) # {}),
           NEW res \in {"WON", "LOST"}
    PROVE  LET z == RecordDayResult(c, s, r, d, res).standing
           IN /\ UnresolvedDays(c, z, r) \subseteq UnresolvedDays(c, s, r) \ {d}
              /\ z.outcome[r] \in {s.outcome[r], "WON", "LOST"}
  <1> DEFINE s1 == [s EXCEPT !.result[r][d] = res]
             z  == RecordDayResult(c, s, r, d, res).standing
  <1>1. WonDays(s, r) # {} => HasDayRows(s, r)
    BY DEF WonDays, HasDayRows
  <1>2. MaterializeWins(c, s, r) = s
    BY <1>1 DEF MaterializeWins, Secured
  <1>3. d \in Day
    BY DEF UnresolvedDays, CoveredDays, Concert
  <1>4. /\ s1.outcome = s.outcome /\ s1.out = s.out /\ s1.result[r][d] = res
        /\ \A e \in Day : e # d => s1.result[r][e] = s.result[r][e]
    BY <1>3 DEF Standing
  <1> HIDE DEF s1
  <1>5. UnresolvedDays(c, s1, r) \subseteq UnresolvedDays(c, s, r) \ {d}
    BY <1>4 DEF UnresolvedDays, CoveredDays, Concert
  <1>6. \/ z = s1 \/ z = SetOutcome(s1, r, "WON") \/ z = SetOutcome(s1, r, "LOST")
    BY <1>2 DEF RecordDayResult, SettleLostDays, RecordRoundOutcome, Write, s1
  <1>7. s1 \in Standing
    BY <1>3 DEF s1, Standing
  <1>8. \A o \in {"WON", "LOST"} : /\ SetOutcome(s1, r, o).result = s1.result
                                   /\ SetOutcome(s1, r, o).out = s1.out
                                   /\ SetOutcome(s1, r, o).outcome[r] = o
    BY <1>7 DEF SetOutcome, Standing
  <1>9. UnresolvedDays(c, z, r) = UnresolvedDays(c, s1, r)
    <2>1. z.result = s1.result /\ z.out = s1.out
      BY <1>6, <1>8
    <2> QED BY <2>1 DEF UnresolvedDays
  <1>10. z.outcome[r] \in {s.outcome[r], "WON", "LOST"}
    BY <1>4, <1>6, <1>8
  <1> QED BY <1>5, <1>9, <1>10

\* And "lost the rest", which answers for every leg at once.
LEMMA RestAnswers ==
    ASSUME NEW c \in Concert, NEW s \in Standing, NEW r \in Round,
           s.outcome[r] = "APPLIED" \/ s.outcome[r] = "WON", WonDays(s, r) # {}
    PROVE  LET z == RecordRemainingLost(c, s, r).standing
           IN UnresolvedDays(c, z, r) = {} /\ z.outcome[r] \in {s.outcome[r], "LOST"}
  <1> DEFINE rest == UnresolvedDays(c, s, r)
             s2 == [s EXCEPT !.result[r] = [d \in Day |-> IF d \in rest THEN "LOST" ELSE s.result[r][d]]]
             z  == RecordRemainingLost(c, s, r).standing
  <1>1. HasDayRows(s, r) /\ MaterializeWins(c, s, r) = s
    BY DEF WonDays, HasDayRows, MaterializeWins
  <1>2. /\ s2.outcome = s.outcome /\ s2.out = s.out
        /\ \A e \in Day : s2.result[r][e] = IF e \in rest THEN "LOST" ELSE s.result[r][e]
    BY DEF Standing
  <1>3. z = s2 \/ z = SetOutcome(s2, r, "LOST")
    BY <1>1 DEF RecordRemainingLost, SettleLostDays, RecordRoundOutcome, Write
  <1>4. /\ SetOutcome(s2, r, "LOST").result = s2.result
        /\ SetOutcome(s2, r, "LOST").out = s2.out
        /\ SetOutcome(s2, r, "LOST").outcome[r] = "LOST"
    BY DEF SetOutcome, Standing
  <1> HIDE DEF s2
  <1>5. z.result = s2.result /\ z.out = s2.out
    BY <1>3, <1>4
  <1>6. UnresolvedDays(c, z, r) = {}
    BY <1>2, <1>5 DEF UnresolvedDays, CoveredDays, Concert
  <1> QED BY <1>2, <1>3, <1>4, <1>6

\* Press by press.
LEMMA EveryAnswerAdvances ==
    ASSUME PlanAssumption, TypeOK
    PROVE  CatchUpAdvances
  <1> SUFFICES ASSUME NEW r \in PendingCapture(concert, standing, now),
                      NEW b \in WholeRoundButtons(concert, standing, r, now)
               PROVE  LET z == Answered(concert, standing, r, b)
                      IN /\ QuestionsLeft(concert, z, r, now)
                               \subseteq QuestionsLeft(concert, standing, r, now)
                         /\ QuestionsLeft(concert, z, r, now) # QuestionsLeft(concert, standing, r, now)
    BY DEF CatchUpAdvances
  <1> DEFINE capture == CaptureDays(concert, standing, r, now)
             report  == CanReport(concert, standing, r, now)
             z == Answered(concert, standing, r, b)
  <1>1. /\ concert \in Concert /\ standing \in Standing /\ r \in Round /\ r \notin Day
        /\ capture # {} \/ report
    BY DEF TypeOK, Concert, PendingCapture, PendingRows, PlanAssumption
  <1>2. CanCapture(concert, standing, r, now)
    BY DEF WholeRoundButtons, Buttons
  <1>3. report => standing.outcome[r] = "APPLIED" /\ ResultKnown(concert, r, now)
    BY DEF CanReport
  <1>4. standing.outcome[r] = "APPLIED" \/ (standing.outcome[r] = "WON" /\ WonDays(standing, r) # {})
    BY <1>1, <1>3, LeftToAsk
  <1>5. \A o \in {"WON", "LOST"} : /\ SetOutcome(standing, r, o).outcome[r] = o
                                   /\ SetOutcome(standing, r, o).result = standing.result
                                   /\ SetOutcome(standing, r, o).out = standing.out
    BY <1>1 DEF SetOutcome, Standing
  <1>6. CASE b \in RoundPress(r, {"WON", "LOST"})
    <2>1. PICK o \in {"WON", "LOST"} : b = <<r, o>>
      BY <1>6 DEF RoundPress
    <2>2. z = SetOutcome(standing, r, o)
      BY <1>6, <2>1 DEF Answered, RecordRoundOutcome, Write
    <2>3. z.outcome[r] = o /\ z.result = standing.result /\ z.out = standing.out
      BY <1>5, <2>2
    <2>4. ~CanReport(concert, z, r, now)
      BY <2>3, LeftToAsk
    <2>5. CaptureDays(concert, z, r, now) = {}
      <3>1. CASE o = "LOST"
        BY <2>3, <3>1, LeftToAsk
      <3>2. CASE o = "WON" /\ capture # {}
        <4>1. ~HasDayRows(standing, r)
          <5>1. b \notin RoundPress(r, {"LOST_REST"}) /\ b \notin RoundPress(r, {"LOST"})
            BY <2>1, <3>2 DEF RoundPress
          <5>2. b \notin UNION {LegPress(d) : d \in capture \cap Day}
            BY <1>1, <2>1 DEF LegPress
          <5>3. b \notin Buttons(concert, standing, r, Day, now)
            BY <1>4, <3>2, <5>2 DEF Buttons
          <5> QED BY <2>1, <3>2, <5>1, <5>3 DEF WholeRoundButtons, RoundPress
        <4>2. WonDays(z, r) = {}
          BY <2>3, <4>1 DEF WonDays, HasDayRows
        <4> QED BY <2>3, <3>2, <4>2, LeftToAsk
      <3>3. CASE o = "WON" /\ capture = {}
        <4>1. report
          BY <1>1, <3>3
        <4>2. UnresolvedDays(concert, z, r) = UnresolvedDays(concert, standing, r)
          BY <2>3 DEF UnresolvedDays
        <4>3. Cardinality(CoveredDays(concert, r) \ concert.cancelled) >= 2
              => UnresolvedDays(concert, standing, r) = {}
          BY <1>3, <3>3, <4>1 DEF CaptureDays
        <4> QED BY <4>2, <4>3 DEF CaptureDays
      <3> QED BY <3>1, <3>2, <3>3
    <2> QED BY <1>1, <2>4, <2>5, NothingLeft
  <1>7. CASE b = <<r, "LOST_REST">>
    <2>1. capture # {} /\ WonDays(standing, r) # {}
      <3>1. \A D : b \notin Buttons(concert, standing, r, D, now)
        <4>1. \A d \in Day : b \notin LegPress(d)
          BY <1>7 DEF LegPress
        <4>2. \A D : b \notin UNION {LegPress(d) : d \in capture \cap D}
          BY <1>7 DEF LegPress
        <4>3. \A O : "LOST_REST" \notin O => b \notin RoundPress(r, O)
          BY <1>7 DEF RoundPress
        <4> QED BY <4>2, <4>3 DEF Buttons
      <3>2. /\ capture # {}
            /\ b \in RoundPress(r, (IF HasDayRows(standing, r) THEN {} ELSE {"WON"})
                                   \cup (IF WonDays(standing, r) # {} THEN {"LOST_REST"} ELSE {"LOST"}))
        BY <3>1 DEF WholeRoundButtons
      <3> QED BY <1>7, <3>2 DEF RoundPress
    <2>2. z = RecordRemainingLost(concert, standing, r).standing
      <3>1. b \notin RoundPress(r, {"WON", "LOST"}) /\ b[2] # "SKIP"
        BY <1>7 DEF RoundPress
      <3> QED BY <1>7, <3>1 DEF Answered
    <2>3. UnresolvedDays(concert, z, r) = {} /\ z.outcome[r] \in {standing.outcome[r], "LOST"}
      BY <1>1, <1>4, <2>1, <2>2, RestAnswers
    <2>4. PICK d \in UnresolvedDays(concert, standing, r) : d \in capture
      BY <2>1, LeftToAsk
    <2> QED BY <1>1, <1>2, <2>1, <2>3, <2>4, PlanAssumption, FewerLegs
  <1>8. CASE b \notin RoundPress(r, {"WON", "LOST"}) /\ b # <<r, "LOST_REST">>
    <2>1. capture # {} /\ \E d \in capture : b \in LegPress(d)
      <3>1. b \in Buttons(concert, standing, r, Day, now)
        BY <1>8 DEF WholeRoundButtons, RoundPress
      <3>2. capture # {}
        BY <1>1, <1>2, <1>4, <1>8, <3>1 DEF Buttons
      <3> QED BY <1>2, <1>4, <3>1, <3>2 DEF Buttons
    <2>2. PICK d \in capture : b \in LegPress(d)
      BY <2>1
    <2>3. d \in UnresolvedDays(concert, standing, r) /\ d \in Day
      BY <1>1, <2>2, LeftToAsk DEF UnresolvedDays, CoveredDays, Concert
    <2>4. PICK res \in {"WON", "LOST", "SKIP"} : b = <<d, res>>
      BY <2>2 DEF LegPress
    <2>5. CASE res = "SKIP"
      <3>1. z = [standing EXCEPT !.out = @ \cup {d}]
        BY <1>8, <2>4, <2>5 DEF Answered
      <3>2. z.outcome = standing.outcome /\ z.result = standing.result /\ z.out = standing.out \cup {d}
        BY <1>1, <3>1 DEF Standing
      <3>3. UnresolvedDays(concert, z, r) \subseteq UnresolvedDays(concert, standing, r) \ {d}
        BY <3>2 DEF UnresolvedDays
      <3> QED BY <1>1, <1>2, <2>1, <2>3, <3>2, <3>3, PlanAssumption, FewerLegs
    <2>6. CASE res \in {"WON", "LOST"}
      <3>1. z = RecordDayResult(concert, standing, r, d, res).standing
        BY <1>8, <2>4, <2>6 DEF Answered
      <3>2. /\ UnresolvedDays(concert, z, r) \subseteq UnresolvedDays(concert, standing, r) \ {d}
            /\ z.outcome[r] \in {standing.outcome[r], "WON", "LOST"}
        BY <1>1, <1>4, <2>3, <2>6, <3>1, LegAnswers
      <3> QED BY <1>1, <1>2, <2>1, <2>3, <3>2, PlanAssumption, FewerLegs
    <2> QED BY <2>4, <2>5, <2>6
  <1> QED BY <1>6, <1>7, <1>8

\* The dialog never asks the same again: it is through after one answer per
\* leg and one for the round.
THEOREM CatchUpEnds == Spec => []CatchUpAdvances
  <1>1. TypeOK => CatchUpAdvances
    BY PlanAssumption, EveryAnswerAdvances
  <1> QED BY <1>1, TypeCorrect, PTL
=============================================================================
