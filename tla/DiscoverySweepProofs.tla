------------------------ MODULE DiscoverySweepProofs -------------------------
(***************************************************************************)
(* Proofs about the discovery sweep, for every set of artists and events   *)
(* and every number of edits, clicks and failures: a lead is announced at  *)
(* most once, and a sweep runs only when one is owed.                      *)
(***************************************************************************)
EXTENDS DiscoverySweep, TLAPS

\* What record_discovered finds fresh has no row, and every sweep that finds
\* an event fresh leaves a row for it: nothing deletes one.  So an event
\* without a row was never announced, and one with a row never is again.
Announced ==
    /\ told \in [Event -> Nat]
    /\ \A e \in Event : told[e] <= 1 /\ (e \notin stored => told[e] = 0)

\* A due clock or a pending request is owed a sweep; while a sweep runs, a
\* request that came after it had loaded the state row is remembered twice,
\* in the row and as a click, because the stamp will leave it in the row.
Owed ==
    /\ ~Reading /\ (state.due \/ state.asked) => owed
    /\ Reading /\ state.asked /\ ~job.knew => job.click

\* The two records keep their fields.  (What the order of the pages is made of
\* is left open: sorting is a recursive definition.)
Shaped ==
    /\ state = [due |-> state.due, asked |-> state.asked, cursor |-> state.cursor]
    /\ job = [phase |-> job.phase, order |-> job.order, at |-> job.at, via |-> job.via,
              knew |-> job.knew, click |-> job.click]
    /\ job.phase \in {"idle", "reading"}

SweepInv == Announced /\ Shaped /\ Owed

----------------------------------------------------------------------------

LEMMA InitInv ==
    ASSUME Init
    PROVE  SweepInv
  BY DEF Init, SweepInv, Announced, Shaped, Owed, Reading, Idle

\* Only a sweep that commits announces, and it stores what it announces.
LEMMA AnnouncedInv ==
    ASSUME Announced, [Next]_vars
    PROVE  Announced'
  <1>1. CASE UNCHANGED told /\ stored \subseteq stored'
    BY <1>1 DEF Announced
  <1>2. CASE FinishSweep
    <2>1. /\ stored' = stored \cup Fresh(job.via)
          /\ told' = [e \in Event |-> IF e \in Fresh(job.via) THEN told[e] + 1 ELSE told[e]]
      BY <1>2 DEF FinishSweep, Record, Announce
    <2>2. \A e \in Fresh(job.via) : e \notin stored
      BY DEF Fresh
    <2> QED BY <2>1, <2>2 DEF Announced
  <1>3. CASE Web
    <2>1. UNCHANGED told /\ stored \subseteq stored'
      BY <1>3 DEF Web, Publish, Import, DeleteConcert, DeleteTag, SweepOneTag, Record,
                  Dismiss, ApplyPrune, RequestSweep, leads
    <2> QED BY <1>1, <2>1
  <1>4. CASE \/ DayPasses \/ StartSweep \/ ReadPage \/ FailSweep \/ LoseSweep
             \/ UNCHANGED vars
    <2>1. UNCHANGED told /\ stored \subseteq stored'
      BY <1>4 DEF DayPasses, StartSweep, ReadPage, ReadFeeds, ReadArtist, SkipPage, Past, FailSweep,
                  LoseSweep, leads, vars
    <2> QED BY <1>1, <2>1
  <1> QED BY <1>2, <1>3, <1>4 DEF Next, Sweep

\* No step changes the fields of the records.
LEMMA ShapedInv ==
    ASSUME Shaped, [Next]_vars
    PROVE  Shaped'
  <1> USE DEF Shaped
  <1>1. CASE UNCHANGED <<state, job>>
    BY <1>1
  <1>2. CASE Web
    <2>1. UNCHANGED <<state, job>> \/ RequestSweep
      BY <1>2 DEF Web, Publish, Import, DeleteConcert, DeleteTag, SweepOneTag, Dismiss, ApplyPrune
    <2>2. CASE RequestSweep
      BY <2>2 DEF RequestSweep
    <2> QED BY <1>1, <2>1, <2>2
  <1>3. CASE StartSweep
    BY <1>3 DEF StartSweep
  <1>6. CASE FinishSweep
    BY <1>6 DEF FinishSweep, Done, Idle, Stamp
  <1>7. CASE FailSweep
    <2>1. state' = [state EXCEPT !.due = FALSE, !.asked = FALSE] /\ job' = Idle
      BY <1>7 DEF FailSweep, Done
    <2> QED BY <2>1 DEF Idle
  <1>8. CASE LoseSweep
    BY <1>8 DEF LoseSweep, Done, Idle
  <1>4. CASE ReadPage
    BY <1>4 DEF ReadPage, ReadFeeds, ReadArtist, SkipPage, Past
  <1>5. CASE DayPasses \/ UNCHANGED vars
    BY <1>5 DEF DayPasses, vars
  <1> QED BY <1>2, <1>3, <1>4, <1>5, <1>6, <1>7, <1>8 DEF Next, Sweep

\* A sweep ends with its debt paid: the clock stamped, and the request gone
\* unless it came too late to be seen, which is what owed keeps.
LEMMA OwedInv ==
    ASSUME Shaped, Owed, [Next]_vars
    PROVE  Owed'
  <1> USE DEF Shaped, Owed, Reading
  <1>1. CASE UNCHANGED <<state, job, owed>>
    BY <1>1
  <1>2. CASE Web
    <2>1. UNCHANGED <<state, job, owed>> \/ RequestSweep
      BY <1>2 DEF Web, Publish, Import, DeleteConcert, DeleteTag, SweepOneTag, Dismiss, ApplyPrune
    <2>2. CASE RequestSweep
      BY <2>2 DEF RequestSweep
    <2> QED BY <1>1, <2>1, <2>2
  <1>3. CASE StartSweep
    BY <1>3 DEF StartSweep
  <1>4. CASE FinishSweep
    BY <1>4 DEF FinishSweep, Done, Idle, Stamp, Stopped
  <1>5. CASE FailSweep
    <2>1. state' = [state EXCEPT !.due = FALSE, !.asked = FALSE] /\ job' = Idle
      BY <1>5 DEF FailSweep, Done
    <2> QED BY <2>1 DEF Idle
  <1>8. CASE LoseSweep
    BY <1>8 DEF LoseSweep, Done, Idle
  <1>6. CASE ReadPage
    BY <1>6 DEF ReadPage, ReadFeeds, ReadArtist, SkipPage, Past, Turn
  <1>7. CASE DayPasses \/ UNCHANGED vars
    BY <1>7 DEF DayPasses, vars
  <1> QED BY <1>2, <1>3, <1>4, <1>5, <1>6, <1>7, <1>8 DEF Next, Sweep

\* A sweep only starts from a due clock or a pending request.
LEMMA StartIsOwed ==
    ASSUME Shaped, Owed, [Next]_vars, ~Reading, job'.phase = "reading"
    PROVE  owed
  <1> USE DEF Shaped, Owed, Reading
  <1>1. CASE StartSweep
    BY <1>1 DEF StartSweep
  <1>2. CASE Web \/ DayPasses \/ UNCHANGED vars
    <2>1. job'.phase = job.phase
      BY <1>2 DEF Web, Publish, Import, DeleteConcert, DeleteTag, SweepOneTag, Dismiss, ApplyPrune,
                  RequestSweep, DayPasses, vars
    <2> QED BY <2>1
  <1>3. CASE ReadPage \/ FinishSweep \/ FailSweep \/ LoseSweep
    BY <1>3 DEF ReadPage, ReadFeeds, ReadArtist, SkipPage, Past, Turn, FinishSweep, FailSweep, Stopped,
                LoseSweep
  <1> QED BY <1>1, <1>2, <1>3 DEF Next, Sweep

----------------------------------------------------------------------------
(* The theorems.                                                           *)

\* The invariant of the lead table and of the sweep's clock.
THEOREM SweepInvariant == Spec => []SweepInv
  <1>1. Init => SweepInv
    BY InitInv
  <1>2. SweepInv /\ [Next]_vars => SweepInv'
    BY AnnouncedInv, ShapedInv, OwedInv DEF SweepInv
  <1> QED BY <1>1, <1>2, PTL DEF Spec

\* A lead is announced at most once, whatever sources list it, whoever imports,
\* deletes, dismisses or sweeps by hand, and however sweeps end.
THEOREM ToldOnce == Spec => []AnnouncedOnce
  <1>1. SweepInv => AnnouncedOnce
    BY DEF SweepInv, Announced, AnnouncedOnce
  <1> QED BY <1>1, SweepInvariant, PTL

\* No sweep runs that no day, click or crash owes: in particular a sweep that
\* raises is not repeated by the next tick.
THEOREM NoSweepUnowed == Spec => SweepsAreOwed
  <1>1. SweepInv /\ [Next]_vars => [~Reading /\ job'.phase = "reading" => owed]_vars
    BY StartIsOwed DEF SweepInv
  <1> QED BY <1>1, SweepInvariant, PTL DEF Spec, SweepsAreOwed
=============================================================================
