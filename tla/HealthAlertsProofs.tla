-------------------------- MODULE HealthAlertsProofs ------------------------
(***************************************************************************)
(* Proofs about the health alerts, for any length of the nag's day: no one *)
(* is paged on the word of a single reading.                               *)
(***************************************************************************)
EXTENDS HealthAlerts, TLAPS

\* A reading that waits to be confirmed is the last one that was taken.
AlertInv ==
    /\ TypeOK
    /\ stored.pending # "none" => stored.pending = seen

\* The four ways a reading is folded into the stored row.
LEMMA AlertDecided ==
    ASSUME NEW s \in [ok : Verdict, pending : Verdict, notified : 0 .. Never],
           s.pending = "none" \/ s.pending # s.ok,
           NEW reading \in {"ok", "failing"}
    PROVE  LET d == ShouldAlert(s, reading)
           IN /\ d.notify \in BOOLEAN
              /\ d.row \in [ok : Verdict, pending : Verdict, notified : 0 .. Never]
              /\ d.row.pending = "none" \/ (d.row.pending = reading /\ d.row.ok # reading)
              /\ d.notify => s.ok = reading \/ s.pending = reading
  <1> USE RealertAssumption DEF Verdict, Never, Decision
  <1>1. CASE s.ok = reading
    BY <1>1 DEF ShouldAlert, Steady
  <1>2. CASE Adopted(s, reading)
    BY <1>2 DEF ShouldAlert, Adopted, Unread
  <1>3. CASE s.ok # reading /\ ~Adopted(s, reading)
    BY <1>3 DEF ShouldAlert, Confirm
  <1> QED BY <1>1, <1>2, <1>3

\* A check always reads one of the two verdicts.
LEMMA ReadingType == Reading \in {"ok", "failing"}
  BY DEF Reading, DiskIsLow

\* What one pass does, in terms of the row as time left it.
LEMMA PassDecided ==
    ASSUME AlertInv, Pass
    PROVE  /\ AlertInv'
           /\ told'.last # told.last => Reading = seen \/ stored.ok = Reading
  <1> DEFINE aged == [stored EXCEPT !.notified = Age(@)]
             d    == ShouldAlert(aged, Reading)
  <1>1. /\ aged \in [ok : Verdict, pending : Verdict, notified : 0 .. Never]
        /\ aged.ok = stored.ok /\ aged.pending = stored.pending
    BY RealertAssumption DEF AlertInv, TypeOK, Age, Never
  <1>2. /\ d.notify \in BOOLEAN
        /\ d.row \in [ok : Verdict, pending : Verdict, notified : 0 .. Never]
        /\ d.row.pending = "none" \/ (d.row.pending = Reading /\ d.row.ok # Reading)
        /\ d.notify => aged.ok = Reading \/ aged.pending = Reading
    BY <1>1, AlertDecided, ReadingType DEF AlertInv, TypeOK
  <1>3. /\ stored' = IF d.notify /\ ~bot THEN [d.row EXCEPT !.notified = aged.notified] ELSE d.row
        /\ told' = IF d.notify /\ bot
                   THEN [last |-> Reading, parity |-> 1 - told.parity] ELSE told
        /\ seen' = Reading /\ level' = level /\ bot' = bot
    BY DEF Pass
  <1> HIDE DEF aged, d
  <1>4. /\ stored' \in [ok : Verdict, pending : Verdict, notified : 0 .. Never]
        /\ stored'.pending = d.row.pending /\ stored'.ok = d.row.ok
    BY <1>1, <1>2, <1>3
  <1>5. told' \in [last : Verdict, parity : {0, 1}]
    BY <1>3, ReadingType DEF AlertInv, TypeOK, Verdict
  <1>6. AlertInv'
    BY <1>2, <1>3, <1>4, <1>5, ReadingType DEF AlertInv, TypeOK, Verdict
  <1>7. told'.last # told.last => Reading = seen \/ stored.ok = Reading
    BY <1>1, <1>2, <1>3, ReadingType DEF AlertInv
  <1> QED BY <1>6, <1>7

\* No check was read yet.
LEMMA AlertInit == Init => AlertInv
  BY RealertAssumption DEF Init, AlertInv, TypeOK, Unread, Verdict, Never

\* Every step keeps the invariant; only a pass touches the verdicts.
LEMMA AlertStep ==
    ASSUME AlertInv, [Next]_vars
    PROVE  AlertInv'
  <1>1. CASE Pass
    BY <1>1, PassDecided
  <1>2. CASE PassFails
    BY <1>2, RealertAssumption DEF PassFails, AlertInv, TypeOK, Age, Never
  <1>3. CASE DiskChanges \/ Restart
    BY <1>3 DEF DiskChanges, Restart, AlertInv, TypeOK
  <1>4. CASE UNCHANGED vars
    BY <1>4 DEF vars, AlertInv, TypeOK
  <1> QED BY <1>1, <1>2, <1>3, <1>4 DEF Next

\* The invariant of the health alerts.
THEOREM AlertInvariant == Spec => []AlertInv
  BY AlertInit, AlertStep, PTL DEF Spec

\* The stored row keeps its domains, the nag's clock included
\* (domain/health.py, StoredState).
THEOREM AlertTypeCorrect == Spec => []TypeOK
  <1>1. AlertInv => TypeOK
    BY DEF AlertInv
  <1> QED BY <1>1, AlertInvariant, PTL

\* A page needs two readings that agree, or the verdict two such readings left
\* (domain/health.py, should_alert).
THEOREM TwoReadings == Spec => NeverOnOneReading
  <1>1. AlertInv /\ [Next]_vars
          => [told'.last # told.last => Reading = seen \/ stored.ok = Reading]_vars
    <2> SUFFICES ASSUME AlertInv, Next, told'.last # told.last
                 PROVE  Reading = seen \/ stored.ok = Reading
      OBVIOUS
    <2>1. CASE Pass
      BY <2>1, PassDecided
    <2>2. CASE PassFails \/ DiskChanges \/ Restart
      BY <2>2 DEF PassFails, DiskChanges, Restart
    <2> QED BY <2>1, <2>2 DEF Next
  <1> QED BY <1>1, AlertInvariant, PTL DEF Spec, NeverOnOneReading
=============================================================================
