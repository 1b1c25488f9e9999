------------------------- MODULE DraftPipelineProofs ------------------------
(***************************************************************************)
(* Proofs about the concert drafts, for any number of productions, admins, *)
(* drafts, presses, pasted pages and lost runs: a draft yields one concert,*)
(* two runs draft no production twice, and no official page is paid twice. *)
(***************************************************************************)
EXTENDS DraftPipeline, TLAPS

Row == [prod : Production \cup {Pasted}, by : Admin, rounds : Ladder,
        record : {"none", "triage", "official"}, done : SUBSET {"committed", "discarded"},
        after : Nat]

\* A draft the completion run may not touch again has cost one call more.
Budget(d) == aborts + IF d \in Known /\ drafts[d].record = "official" THEN 1 ELSE 0

Concerts(d) == IF d \in Known /\ "committed" \in drafts[d].done THEN 1 ELSE 0

\* Only drafts that exist are with the model.
Readings == {f \in [Draft -> Nat] : \A d \in Draft : f[d] > 0 => d \in Known}

DomainInv ==
    /\ drafts \in Seq(Row) /\ Len(drafts) <= MaxDrafts
    /\ queue \in Seq([kind : Kind, by : Admin])
    /\ pressing \subseteq [kind : Kind, by : Admin]
    /\ lead \subseteq Production /\ host \in HostState
    /\ made \in [Draft -> {0, 1}] /\ paid \in [Draft -> Nat] /\ aborts \in Nat
    /\ reading \in Readings /\ leaving \subseteq Known

\* Open drafts of one production were added together.
Apart ==
    \A d, e \in Known :
       d # e /\ Open(d) /\ Open(e) =>
          drafts[d].prod # drafts[e].prod \/ drafts[d].prod = Pasted \/ drafts[d].after = drafts[e].after

CountInv ==
    /\ \A d \in Draft : made[d] = Concerts(d)
    /\ \A d \in Draft : paid[d] <= Budget(d)

DraftInv == DomainInv /\ CountInv /\ Apart

----------------------------------------------------------------------------

\* Draft numbers are the numbers of the bound.
LEMMA KnownDrafts ==
    ASSUME DomainInv
    PROVE  /\ Known \subseteq Draft /\ Known = DOMAIN drafts
           /\ \A d \in Known : drafts[d] \in Row
  BY PipelineAssumption DEF DomainInv, Known, Draft

\* Nothing is drafted, asked for or paid at the start.
LEMMA DraftsInit == Init => DraftInv
  <1> SUFFICES ASSUME Init PROVE DraftInv
    OBVIOUS
  <1>1. drafts = <<>> /\ Len(drafts) = 0 /\ Known = {}
    BY DEF Init, Known
  <1>2. DomainInv
    BY <1>1, PipelineAssumption DEF Init, DomainInv, Readings, HostState
  <1>3. CountInv /\ Apart
    BY <1>1 DEF Init, CountInv, Apart, Concerts, Budget
  <1> QED BY <1>2, <1>3 DEF DraftInv

\* A step that rewrites rows in place keeps the invariant when it re-opens no
\* row, moves none to another production or reply, and counts what it commits
\* and pays.
LEMMA RewriteInv ==
    ASSUME DraftInv,
           drafts' \in Seq(Row), Len(drafts') = Len(drafts),
           \A d \in Known : /\ drafts'[d].prod = drafts[d].prod /\ drafts'[d].after = drafts[d].after
                            /\ drafts[d].done \subseteq drafts'[d].done,
           made' \in [Draft -> {0, 1}],
           \A d \in Draft : made'[d] = Concerts(d)',
           paid' \in [Draft -> Nat], aborts' \in Nat,
           \A d \in Draft : paid'[d] <= Budget(d)',
           queue' \in Seq([kind : Kind, by : Admin]),
           pressing' \subseteq [kind : Kind, by : Admin],
           lead' \subseteq Production, host' \in HostState,
           reading' \in Readings, leaving' \subseteq Known
    PROVE  DraftInv'
  <1>1. Known' = Known
    BY DEF Known
  <1>2. DomainInv'
    BY <1>1 DEF DraftInv, DomainInv, Readings
  <1>3. CountInv'
    BY DEF CountInv
  <1>4. Apart'
    <2>1. \A d \in Known : Open(d)' => Open(d)
      BY DEF Open
    <2> QED BY <1>1, <2>1 DEF DraftInv, Apart
  <1> QED BY <1>2, <1>3, <1>4 DEF DraftInv

\* A step that leaves the drafts and their counts alone.
LEMMA DeskInv ==
    ASSUME DraftInv, UNCHANGED <<drafts, made, paid, aborts>>,
           queue' \in Seq([kind : Kind, by : Admin]),
           pressing' \subseteq [kind : Kind, by : Admin],
           lead' \subseteq Production, host' \in HostState,
           reading' \in Readings, leaving' \subseteq Known
    PROVE  DraftInv'
  <1>1. \A d \in Draft : made'[d] = Concerts(d)' /\ paid'[d] <= Budget(d)'
    BY DEF DraftInv, CountInv, Concerts, Budget, Known
  <1> QED BY <1>1, RewriteInv DEF DraftInv, DomainInv

\* Rows added together at the end, open, neither committed nor paid for, and of
\* productions that no open draft has.
LEMMA AppendInv ==
    ASSUME DraftInv, NEW new \in Seq(Row),
           drafts' = drafts \o new, Len(drafts) + Len(new) <= MaxDrafts,
           \A i \in 1 .. Len(new) : new[i].record # "official" /\ new[i].done = {},
           \A i \in 1 .. Len(new) : \A d \in Known :
              Open(d) /\ drafts[d].prod = new[i].prod => new[i].prod = Pasted,
           \A i, j \in 1 .. Len(new) : new[i].after = new[j].after,
           queue' \in Seq([kind : Kind, by : Admin]),
           UNCHANGED <<made, paid, host, aborts, desk>>
    PROVE  DraftInv'
  <1> DEFINE n == Len(drafts)
  <1>1. /\ drafts' \in Seq(Row) /\ Len(drafts') = n + Len(new) /\ n \in Nat /\ Len(new) \in Nat
        /\ \A d \in 1 .. n : drafts'[d] = drafts[d]
        /\ \A d \in (n + 1) .. (n + Len(new)) : drafts'[d] = new[d - n] /\ d - n \in 1 .. Len(new)
    BY DEF DraftInv, DomainInv
  <1>2. Known' = 1 .. (n + Len(new)) /\ Known = 1 .. n
    BY <1>1 DEF Known
  <1>3. DomainInv'
    BY <1>1, <1>2 DEF DraftInv, DomainInv, Readings, desk
  <1>4. CountInv'
    <2> SUFFICES ASSUME NEW d \in Draft
                 PROVE  made'[d] = Concerts(d)' /\ paid'[d] <= Budget(d)'
      BY DEF CountInv
    <2>1. Concerts(d)' = Concerts(d) /\ Budget(d)' = Budget(d)
      <3>1. CASE d \in Known
        BY <1>1, <1>2, <3>1 DEF Concerts, Budget
      <3>2. CASE d \notin Known /\ d \in Known'
        <4>1. d \in (n + 1) .. (n + Len(new))
          BY <1>1, <1>2, <3>2 DEF Draft
        <4> QED BY <1>1, <3>2, <4>1 DEF Concerts, Budget
      <3>3. CASE d \notin Known /\ d \notin Known'
        BY <3>3 DEF Concerts, Budget
      <3> QED BY <3>1, <3>2, <3>3
    <2> QED BY <2>1 DEF DraftInv, CountInv
  <1>5. Apart'
    <2> SUFFICES ASSUME NEW d \in Known', NEW e \in Known', d # e, Open(d)', Open(e)',
                        drafts'[d].prod = drafts'[e].prod
                 PROVE  drafts'[d].prod = Pasted \/ drafts'[d].after = drafts'[e].after
      BY DEF Apart
    <2>1. \A x \in Known' : x \in Known \/ x \in (n + 1) .. (n + Len(new))
      BY <1>1, <1>2
    <2>2. \A x \in Known : Open(x)' => Open(x)
      BY <1>1, <1>2 DEF Open
    <2>3. CASE d \in Known /\ e \in Known
      BY <1>1, <1>2, <2>2, <2>3 DEF DraftInv, Apart
    <2>4. CASE d \in Known /\ e \notin Known
      <3>1. e - n \in 1 .. Len(new) /\ drafts'[e] = new[e - n] /\ drafts'[d] = drafts[d] /\ Open(d)
        BY <1>1, <1>2, <2>1, <2>2, <2>4
      <3> QED BY <2>4, <3>1
    <2>5. CASE d \notin Known /\ e \in Known
      <3>1. d - n \in 1 .. Len(new) /\ drafts'[d] = new[d - n] /\ drafts'[e] = drafts[e] /\ Open(e)
        BY <1>1, <1>2, <2>1, <2>2, <2>5
      <3> QED BY <2>5, <3>1
    <2>6. CASE d \notin Known /\ e \notin Known
      <3>1. d \in (n + 1) .. (n + Len(new)) /\ e \in (n + 1) .. (n + Len(new))
        BY <2>1, <2>6
      <3>2. /\ d - n \in 1 .. Len(new) /\ drafts'[d] = new[d - n]
            /\ e - n \in 1 .. Len(new) /\ drafts'[e] = new[e - n]
        BY <1>1, <3>1
      <3> QED BY <3>2
    <2> QED BY <2>3, <2>4, <2>5, <2>6
  <1> QED BY <1>3, <1>4, <1>5 DEF DraftInv

----------------------------------------------------------------------------
(* The import pages.                                                       *)

\* A pasted draft has no production to share.
LEMMA PasteInv ==
    ASSUME DraftInv, NEW u \in Admin, PasteDraft(u)
    PROVE  DraftInv'
  <1>1. PICK ladder \in {"none", "typed"} :
           drafts' = Append(drafts, NewDraft(Pasted, u, ladder, "none"))
    BY DEF PasteDraft
  <1> DEFINE r   == NewDraft(Pasted, u, ladder, "none")
             new == <<r>>
  <1>2. r \in Row /\ r.record = "none" /\ r.done = {} /\ r.prod = Pasted
    BY DEF NewDraft, Row, Ladder
  <1> HIDE DEF r
  <1>3. new \in Seq(Row) /\ Len(new) = 1 /\ new[1] = r
    BY <1>2
  <1>4. drafts' = drafts \o new
    BY <1>1, <1>2 DEF DraftInv, DomainInv, r
  <1>5. Len(drafts) + Len(new) <= MaxDrafts
    BY <1>3, PipelineAssumption DEF PasteDraft, DraftInv, DomainInv
  <1>6. /\ queue' \in Seq([kind : Kind, by : Admin])
        /\ UNCHANGED <<made, paid, host, aborts, desk>>
    BY DEF PasteDraft, DraftInv, DomainInv
  <1>7. \A i \in 1 .. Len(new) : new[i] = r
    BY <1>3
  <1> HIDE DEF new
  <1> QED BY <1>2, <1>3, <1>4, <1>5, <1>6, <1>7, AppendInv

\* What a reply does to a row leaves it a row of the same production.
LEMMA FilledRow ==
    ASSUME NEW r \in Row, NEW reply \in Reply
    PROVE  /\ Filled(r, reply) \in Row
           /\ Filled(r, reply).prod = r.prod /\ Filled(r, reply).by = r.by
           /\ Filled(r, reply).done = r.done /\ Filled(r, reply).record = "official"
           /\ Filled(r, reply).after = r.after
  BY DEF Row, Filled, Rebuilt, Ladder

\* One row is rewritten: what is left to count.
LEMMA OneRow ==
    ASSUME DraftInv, NEW d \in Known, NEW r \in Row, drafts' = [drafts EXCEPT ![d] = r],
           r.prod = drafts[d].prod, r.after = drafts[d].after, drafts[d].done \subseteq r.done,
           r.record = drafts[d].record \/ r.record = "official",
           made' = [made EXCEPT ![d] = IF "committed" \in r.done THEN 1 ELSE 0],
           UNCHANGED <<paid, host, queue, aborts, lead, pressing>>,
           reading' \in Readings, leaving' \subseteq Known
    PROVE  DraftInv'
  <1>1. /\ d \in Draft /\ Known \subseteq Draft /\ Known = DOMAIN drafts
    BY KnownDrafts DEF DraftInv
  <1>2. /\ drafts' \in Seq(Row) /\ Len(drafts') = Len(drafts) /\ drafts'[d] = r
        /\ \A e \in Known : e # d => drafts'[e] = drafts[e]
    BY <1>1 DEF DraftInv, DomainInv
  <1>3. Known' = Known
    BY <1>2 DEF Known
  <1>4. made' \in [Draft -> {0, 1}] /\ paid' \in [Draft -> Nat] /\ aborts' \in Nat
    BY DEF DraftInv, DomainInv
  <1>5. \A e \in Draft : made'[e] = Concerts(e)'
    BY <1>1, <1>2, <1>3 DEF DraftInv, DomainInv, CountInv, Concerts
  <1>6. \A e \in Draft : paid'[e] <= Budget(e)'
    <2> SUFFICES ASSUME NEW e \in Draft PROVE paid[e] <= Budget(e)'
      OBVIOUS
    <2>1. paid[e] <= Budget(e) /\ paid[e] \in Nat /\ aborts \in Nat
      BY DEF DraftInv, DomainInv, CountInv
    <2>2. Budget(e)' = Budget(e) \/ Budget(e)' = aborts + 1
      BY <1>2, <1>3 DEF Budget
    <2> QED BY <2>1, <2>2 DEF Budget
  <1>7. \A e \in Known : /\ drafts'[e].prod = drafts[e].prod /\ drafts'[e].after = drafts[e].after
                         /\ drafts[e].done \subseteq drafts'[e].done
    BY <1>2
  <1> QED BY <1>2, <1>4, <1>5, <1>6, <1>7, RewriteInv DEF DraftInv, DomainInv

\* A commit finds the draft open, so it is the first; a discard stamps it.
LEMMA StampInv ==
    ASSUME DraftInv, NEW d \in Draft, CommitDraft(d) \/ WriteDiscard(d)
    PROVE  DraftInv'
  <1>1. d \in Known /\ drafts[d] \in Row
    BY KnownDrafts DEF DraftInv, DomainInv, CommitDraft, WriteDiscard
  <1>2. made[d] = Concerts(d)
    BY DEF DraftInv, CountInv
  <1>3. CASE CommitDraft(d)
    <2> DEFINE r == [drafts[d] EXCEPT !.done = @ \cup {"committed"}]
    <2>1. /\ r \in Row /\ r.prod = drafts[d].prod /\ r.after = drafts[d].after
          /\ r.record = drafts[d].record /\ r.done = drafts[d].done \cup {"committed"}
      BY <1>1 DEF Row
    <2>2. drafts' = [drafts EXCEPT ![d] = r]
      BY <1>3 DEF CommitDraft
    <2> HIDE DEF r
    <2>3. made[d] = 0
      BY <1>2, <1>3 DEF CommitDraft, Open, Concerts
    <2>4. made' = [made EXCEPT ![d] = IF "committed" \in r.done THEN 1 ELSE 0]
      BY <1>3, <2>1, <2>3 DEF CommitDraft
    <2>5. /\ UNCHANGED <<paid, host, queue, aborts, lead, pressing>>
          /\ reading' \in Readings /\ leaving' \subseteq Known
      BY <1>3 DEF CommitDraft, desk, DraftInv, DomainInv
    <2> QED BY <1>1, <2>1, <2>2, <2>4, <2>5, OneRow
  <1>4. CASE WriteDiscard(d)
    <2> DEFINE r == [drafts[d] EXCEPT !.done = @ \cup {"discarded"}]
    <2>1. /\ r \in Row /\ r.prod = drafts[d].prod /\ r.after = drafts[d].after
          /\ r.record = drafts[d].record /\ r.done = drafts[d].done \cup {"discarded"}
      BY <1>1 DEF Row
    <2>2. drafts' = [drafts EXCEPT ![d] = r]
      BY <1>4 DEF WriteDiscard
    <2> HIDE DEF r
    <2>3. made' = [made EXCEPT ![d] = IF "committed" \in r.done THEN 1 ELSE 0]
      BY <1>1, <1>2, <1>4, <2>1 DEF WriteDiscard, Concerts, DraftInv, DomainInv
    <2>4. /\ UNCHANGED <<paid, host, queue, aborts, lead, pressing>>
          /\ reading' \in Readings /\ leaving' \subseteq Known
      BY <1>4 DEF WriteDiscard, DraftInv, DomainInv
    <2> QED BY <1>1, <2>1, <2>2, <2>3, <2>4, OneRow
  <1> QED BY <1>3, <1>4

\* A page more, or less, with the model.
LEMMA ReadingMoved ==
    ASSUME reading \in Readings, NEW d \in Draft, d \in Known, NEW n \in Nat
    PROVE  [reading EXCEPT ![d] = n] \in Readings
  <1>1. reading \in [Draft -> Nat] /\ \A e \in Draft : reading[e] > 0 => e \in Known
    BY DEF Readings
  <1> DEFINE f == [reading EXCEPT ![d] = n]
  <1>2. f \in [Draft -> Nat] /\ \A e \in Draft : f[e] > 0 => e \in Known
    BY <1>1
  <1> HIDE DEF f
  <1>3. f \in Readings
    BY <1>2 DEF Readings
  <1> QED BY <1>3 DEF f

\* The reply to a pasted page, and the call that fails.
LEMMA WritePageInv ==
    ASSUME DraftInv, NEW d \in Draft, WritePage(d)
    PROVE  DraftInv'
  <1>1. d \in Known /\ drafts[d] \in Row
    BY KnownDrafts DEF DraftInv, DomainInv, Readings, WritePage
  <1>2. /\ UNCHANGED <<made, paid, host, queue, aborts, lead, pressing, leaving>>
        /\ reading' \in Readings
    <2>1. reading \in Readings /\ reading[d] \in Nat /\ reading[d] > 0
      BY DEF WritePage, DraftInv, DomainInv, Readings
    <2>2. reading[d] - 1 \in Nat
      BY <2>1
    <2> QED BY <1>1, <2>1, <2>2, ReadingMoved DEF WritePage
  <1>3. CASE UNCHANGED drafts
    BY <1>2, <1>3, DeskInv DEF DraftInv, DomainInv
  <1>4. CASE \E reply \in Reply : drafts' = [drafts EXCEPT ![d] = Filled(@, reply)]
    <2>1. PICK reply \in Reply : drafts' = [drafts EXCEPT ![d] = Filled(drafts[d], reply)]
      BY <1>4
    <2> DEFINE r == Filled(drafts[d], reply)
    <2>2. /\ r \in Row /\ r.prod = drafts[d].prod /\ r.after = drafts[d].after
          /\ r.done = drafts[d].done /\ r.record = "official"
      BY <1>1, FilledRow
    <2>3. drafts' = [drafts EXCEPT ![d] = r]
      BY <2>1
    <2> HIDE DEF r
    <2>4. made' = [made EXCEPT ![d] = IF "committed" \in r.done THEN 1 ELSE 0]
      <3>1. made' = made /\ made \in [Draft -> {0, 1}] /\ made[d] = Concerts(d)
        BY <1>2 DEF DraftInv, DomainInv, CountInv
      <3>2. made[d] = IF "committed" \in r.done THEN 1 ELSE 0
        BY <1>1, <2>2, <3>1 DEF Concerts
      <3> QED BY <3>1, <3>2
    <2> QED BY <1>1, <1>2, <2>2, <2>3, <2>4, OneRow DEF DraftInv, DomainInv
  <1> QED BY <1>3, <1>4 DEF WritePage

----------------------------------------------------------------------------
(* The requests and the two runs.                                          *)

\* The other steps of the pages touch neither drafts nor counts.
LEMMA PageInv ==
    ASSUME DraftInv, Page
    PROVE  DraftInv'
  <1> USE DEF DraftInv, DomainInv
  <1>1. CASE \E u \in Admin : PasteDraft(u)
    BY <1>1, PasteInv
  <1>2. CASE \E d \in Draft : CommitDraft(d) \/ WriteDiscard(d)
    BY <1>2, StampInv
  <1>3. CASE \E d \in Draft : WritePage(d)
    BY <1>3, WritePageInv
  <1>4. ASSUME NEW k \in Kind, NEW u \in Admin, Press(k, u)
        PROVE  DraftInv'
    <2>1. /\ UNCHANGED <<drafts, made, paid, aborts, queue, lead, host, reading, leaving>>
          /\ pressing' = pressing \cup {[kind |-> k, by |-> u]}
      BY <1>4 DEF Press, work
    <2>2. pressing' \subseteq [kind : Kind, by : Admin]
      BY <2>1
    <2> QED BY <2>1, <2>2, DeskInv
  <1>5. ASSUME NEW r \in pressing, AddRun(r)
        PROVE  DraftInv'
    <2>1. /\ UNCHANGED <<drafts, made, paid, aborts, lead, host, reading, leaving>>
          /\ pressing' = pressing \ {r} /\ queue' = Append(queue, r)
      BY <1>5 DEF AddRun, work
    <2>2. pressing' \subseteq [kind : Kind, by : Admin] /\ queue' \in Seq([kind : Kind, by : Admin])
      BY <2>1
    <2> QED BY <2>1, <2>2, DeskInv
  <1>6. CASE Decide
    <2>1. /\ UNCHANGED <<drafts, made, paid, aborts, lead, queue, pressing, reading, leaving>>
          /\ host' \in HostState
      BY <1>6 DEF Decide, work, desk, HostState
    <2> QED BY <2>1, DeskInv
  <1>7. ASSUME NEW d \in Draft, LoadDiscard(d)
        PROVE  DraftInv'
    <2>1. /\ UNCHANGED <<drafts, made, paid, aborts, lead, host, queue, pressing, reading>>
          /\ leaving' \subseteq Known
      BY <1>7 DEF LoadDiscard, work
    <2> QED BY <2>1, DeskInv
  <1>8. ASSUME NEW d \in Draft, LoadPage(d)
        PROVE  DraftInv'
    <2>1. /\ UNCHANGED <<drafts, made, paid, aborts, lead, host, queue, pressing, leaving>>
          /\ reading' = [reading EXCEPT ![d] = @ + 1] /\ d \in Known
      BY <1>8 DEF LoadPage, work
    <2>2. reading' \in Readings
      <3>1. reading \in Readings /\ reading[d] + 1 \in Nat
        BY DEF Readings
      <3> QED BY <2>1, <3>1, KnownDrafts, ReadingMoved
    <2> QED BY <2>1, <2>2, DeskInv
  <1>9. ASSUME NEW p \in Production, ShutLead(p)
        PROVE  DraftInv'
    <2>1. /\ UNCHANGED <<drafts, made, paid, aborts, host, queue, pressing, reading, leaving>>
          /\ lead' \subseteq Production
      BY <1>9 DEF ShutLead, work
    <2> QED BY <2>1, DeskInv
  <1> QED BY <1>1, <1>2, <1>3, <1>4, <1>5, <1>6, <1>7, <1>8, <1>9 DEF Page

\* The queue of runs, without its first one.
LEMMA RunTaken ==
    ASSUME DomainInv, queue # <<>>
    PROVE  Run \in [kind : Kind, by : Admin] /\ Tail(queue) \in Seq([kind : Kind, by : Admin])
  <1> DEFINE R == [kind : Kind, by : Admin]
  <1>1. queue \in Seq(R)
    BY DEF DomainInv
  <1> HIDE DEF R
  <1>2. queue[1] \in R /\ Tail(queue) \in Seq(R)
    BY <1>1
  <1> QED BY <1>2 DEF Run, R

\* Triage drafts what no open draft held when its reply was read.
LEMMA ClassifyInv ==
    ASSUME DraftInv, Classify
    PROVE  DraftInv' /\ \A d \in Known : drafts'[d] = drafts[d]
  <1>0. PICK n \in 0 .. (MaxDrafts - Len(drafts)) :
           \E named \in [1 .. n -> Undrafted], ladder \in [1 .. n -> {"none", "triage"}] :
              drafts' = drafts \o [i \in 1 .. n |-> NewDraft(named[i], Run.by, ladder[i], "triage")]
    BY DEF Classify
  <1>1. PICK named \in [1 .. n -> Undrafted], ladder \in [1 .. n -> {"none", "triage"}] :
           drafts' = drafts \o [i \in 1 .. n |-> NewDraft(named[i], Run.by, ladder[i], "triage")]
    BY <1>0
  <1>2. queue # <<>> /\ queue' = Tail(queue) /\ UNCHANGED <<made, paid, host, aborts, desk>>
    BY DEF Classify, Due
  <1>3. Run.by \in Admin /\ queue' \in Seq([kind : Kind, by : Admin])
    BY <1>2, RunTaken DEF DraftInv
  <1>4. n \in Nat /\ Len(drafts) \in Nat /\ Len(drafts) + n <= MaxDrafts
    BY PipelineAssumption DEF DraftInv, DomainInv
  <1>5. ASSUME NEW i \in 1 .. n
        PROVE  /\ named[i] \in Production /\ ladder[i] \in {"none", "triage"}
               /\ \A d \in Known : Open(d) => drafts[d].prod # named[i]
    BY DEF Undrafted
  <1> DEFINE new == [i \in 1 .. n |-> NewDraft(named[i], Run.by, ladder[i], "triage")]
  <1>6. \A i \in 1 .. n : /\ new[i] \in Row /\ new[i].prod = named[i] /\ new[i].after = Len(drafts)
                         /\ new[i].record = "triage" /\ new[i].done = {}
    BY <1>3, <1>4, <1>5 DEF NewDraft, Row, Ladder
  <1>7. new \in Seq(Row) /\ Len(new) = n
    BY <1>4, <1>6
  <1>8. drafts' = drafts \o new
    BY <1>1
  <1> HIDE DEF new
  <1>9. \A d \in Known : drafts'[d] = drafts[d]
    BY <1>7, <1>8 DEF Known, DraftInv, DomainInv
  <1>10. /\ \A i \in 1 .. Len(new) : new[i].record # "official" /\ new[i].done = {}
         /\ \A i \in 1 .. Len(new) : \A d \in Known :
               Open(d) /\ drafts[d].prod = new[i].prod => new[i].prod = Pasted
         /\ \A i, j \in 1 .. Len(new) : new[i].after = new[j].after
    <2>1. \A i \in 1 .. Len(new) : \A d \in Known : Open(d) => drafts[d].prod # new[i].prod
      BY <1>5, <1>6, <1>7
    <2> QED BY <1>6, <1>7, <2>1
  <1>11. DraftInv'
    BY <1>2, <1>3, <1>4, <1>7, <1>8, <1>10, AppendInv
  <1> QED BY <1>9, <1>11

\* The completion run pays once for each draft it reads, and marks it.
LEMMA CompleteInv ==
    ASSUME DraftInv, Complete
    PROVE  DraftInv'
  <1> DEFINE Reading(read, reply) ==
          /\ drafts' = [d \in Known |-> IF d \in read THEN Filled(drafts[d], reply[d])
                                                      ELSE drafts[d]]
          /\ paid' = Paid(read)
  <1>0. PICK read \in SUBSET Candidates : \E reply \in [read -> Reply] : Reading(read, reply)
    BY DEF Complete
  <1>1. PICK reply \in [read -> Reply] : Reading(read, reply)
    BY <1>0
  <1>2. /\ queue # <<>> /\ queue' = Tail(queue) /\ UNCHANGED <<made, aborts, desk>>
        /\ host' \in HostState
    BY DEF Complete, Due, DraftInv, DomainInv, HostState
  <1>3. Known \subseteq Draft /\ \A d \in Known : drafts[d] \in Row
    BY KnownDrafts DEF DraftInv
  <1>4. read \subseteq Known /\ \A d \in read : drafts[d].record # "official"
    BY DEF Candidates
  <1>5. /\ \A d \in Known : drafts'[d] \in Row /\ drafts'[d].prod = drafts[d].prod
                             /\ drafts'[d].after = drafts[d].after
                             /\ drafts'[d].done = drafts[d].done
        /\ \A d \in read : drafts'[d].record = "official"
        /\ \A d \in Known \ read : drafts'[d] = drafts[d]
    BY <1>1, <1>3, <1>4, FilledRow
  <1>6. drafts' \in Seq(Row) /\ Len(drafts') = Len(drafts)
    <2>1. drafts' \in [Known -> Row]
      BY <1>1, <1>5
    <2>2. Len(drafts) \in Nat
      BY DEF DraftInv, DomainInv
    <2> QED BY <2>1, <2>2 DEF Known
  <1>7. Known' = Known
    BY <1>6 DEF Known
  <1>8. made' \in [Draft -> {0, 1}] /\ \A d \in Draft : made'[d] = Concerts(d)'
    BY <1>2, <1>5, <1>7 DEF DraftInv, DomainInv, CountInv, Concerts
  <1>9. paid' \in [Draft -> Nat] /\ \A d \in Draft : paid'[d] <= Budget(d)'
    <2>1. paid' \in [Draft -> Nat]
      BY <1>1 DEF Paid, DraftInv, DomainInv
    <2> SUFFICES ASSUME NEW d \in Draft PROVE paid'[d] <= Budget(d)'
      BY <2>1
    <2>2. paid[d] <= Budget(d) /\ paid[d] \in Nat /\ aborts \in Nat /\ aborts' = aborts
      BY <1>2 DEF DraftInv, DomainInv, CountInv
    <2>3. CASE d \in read
      <3>1. paid'[d] = paid[d] + 1
        BY <1>1, <2>3 DEF Paid
      <3>2. d \in Known /\ Budget(d) = aborts
        BY <1>4, <2>2, <2>3 DEF Budget
      <3>3. Budget(d)' = aborts + 1
        BY <1>5, <1>7, <2>2, <2>3, <3>2 DEF Budget
      <3> QED BY <2>2, <3>1, <3>2, <3>3
    <2>4. CASE d \notin read
      BY <1>1, <1>5, <1>7, <2>2, <2>4 DEF Paid, Budget
    <2> QED BY <2>3, <2>4
  <1>10. queue' \in Seq([kind : Kind, by : Admin])
    BY <1>2, RunTaken DEF DraftInv
  <1> QED BY <1>2, <1>5, <1>6, <1>8, <1>9, <1>10, RewriteInv DEF DraftInv, DomainInv, desk

\* A lost run has paid for pages nobody will remember: one loss more.
LEMMA LostInv ==
    ASSUME DraftInv, FailRun \/ LoseRun
    PROVE  DraftInv'
  <1>1. /\ queue # <<>> /\ aborts' = aborts + 1 /\ Spent
        /\ queue' = Tail(queue) \/ queue' = queue
        /\ UNCHANGED <<drafts, made, host, desk>>
    BY DEF FailRun, LoseRun
  <1>2. queue' \in Seq([kind : Kind, by : Admin])
    BY <1>1, RunTaken DEF DraftInv, DomainInv
  <1>3. paid' = paid \/ \E read \in SUBSET Candidates : paid' = Paid(read)
    BY <1>1 DEF Spent
  <1>4. paid' \in [Draft -> Nat] /\ \A d \in Draft : paid'[d] <= paid[d] + 1
    <2>1. paid \in [Draft -> Nat]
      BY DEF DraftInv, DomainInv
    <2>2. ASSUME NEW read \in SUBSET Candidates, paid' = Paid(read)
          PROVE  paid' \in [Draft -> Nat] /\ \A d \in Draft : paid'[d] <= paid[d] + 1
      BY <2>1, <2>2 DEF Paid
    <2> QED BY <1>3, <2>1, <2>2
  <1>5. \A d \in Draft : paid'[d] <= Budget(d)'
    <2> SUFFICES ASSUME NEW d \in Draft PROVE paid'[d] <= Budget(d)'
      OBVIOUS
    <2>1. /\ paid[d] <= Budget(d) /\ paid[d] \in Nat /\ paid'[d] \in Nat /\ aborts \in Nat
          /\ paid'[d] <= paid[d] + 1
      BY <1>4 DEF DraftInv, DomainInv, CountInv
    <2>2. Known' = Known
      BY <1>1 DEF Known
    <2> QED BY <1>1, <2>1, <2>2 DEF Budget
  <1>6. \A d \in Draft : made'[d] = Concerts(d)'
    BY <1>1 DEF DraftInv, CountInv, Concerts, Known
  <1>7. \A d \in Known : /\ drafts'[d].prod = drafts[d].prod /\ drafts'[d].after = drafts[d].after
                         /\ drafts[d].done \subseteq drafts'[d].done
    BY <1>1
  <1> QED BY <1>1, <1>2, <1>4, <1>5, <1>6, <1>7, RewriteInv DEF DraftInv, DomainInv, desk

\* Every step of the pages and of the tick keeps the invariant.
LEMMA DraftStep ==
    ASSUME DraftInv, [Next]_vars
    PROVE  DraftInv'
  <1>1. CASE UNCHANGED vars
    BY <1>1, DeskInv DEF vars, DraftInv, DomainInv
  <1>2. CASE NoRun
    BY <1>1, <1>2 DEF NoRun
  <1> QED BY <1>1, <1>2, PageInv, ClassifyInv, CompleteInv, LostInv DEF Next, Tick

\* The invariant of the drafts.
THEOREM DraftInvariant == Spec => []DraftInv
  BY DraftsInit, DraftStep, PTL DEF Spec

\* A draft produces at most one concert, and says so (import_commit).  Two
\* runs, or a run and a retry of it, never draft a production that is open
\* already; two copies of one come from a single reply (run_triage).
THEOREM NoSecondCopies == Spec => []NoSecondCopy
  <1>1. DraftInv => NoSecondCopy
    <2> SUFFICES ASSUME DraftInv PROVE NoSecondCopy
      OBVIOUS
    <2>1. \A d \in Known : made[d] = IF "committed" \in drafts[d].done THEN 1 ELSE 0
      BY KnownDrafts DEF DraftInv, CountInv, Concerts
    <2>2. \A d, e \in Known :
             d # e /\ Open(d) /\ Open(e) /\ drafts[d].prod = drafts[e].prod =>
                 drafts[d].prod = Pasted \/ drafts[d].after = drafts[e].after
      BY DEF DraftInv, Apart
    <2> QED BY <2>1, <2>2 DEF NoSecondCopy
  <1> QED BY <1>1, DraftInvariant, PTL

\* The tick pays for a draft's official page once, plus once for every run that
\* was lost (draft_completion.py, complete_one).
THEOREM OnePayment == Spec => []PaidOnce
  <1>1. DraftInv => PaidOnce
    BY DEF DraftInv, DomainInv, CountInv, Budget, PaidOnce
  <1> QED BY <1>1, DraftInvariant, PTL

\* What may touch the rounds of a draft whose page nobody is reading.
LEMMA LadderStands ==
    ASSUME DraftInv, Next, NEW d \in Known, drafts[d].rounds # "none", reading[d] = 0
    PROVE  drafts'[d].rounds = drafts[d].rounds
  <1>1. /\ drafts \in Seq(Row) /\ d \in DOMAIN drafts /\ DOMAIN drafts = Known
        /\ \A e \in Known : drafts[e] \in Row
    BY KnownDrafts DEF DraftInv, DomainInv
  <1>2. CASE UNCHANGED drafts
    BY <1>2
  <1>3. CASE \E u \in Admin : PasteDraft(u)
    BY <1>1, <1>3 DEF PasteDraft, Known
  <1>4. ASSUME NEW e \in Draft, CommitDraft(e) \/ WriteDiscard(e)
        PROVE  drafts'[d].rounds = drafts[d].rounds
    <2>1. PICK s \in {"committed", "discarded"} :
             drafts' = [drafts EXCEPT ![e] = [drafts[e] EXCEPT !.done = @ \cup {s}]]
      BY <1>4 DEF CommitDraft, WriteDiscard
    <2>2. e \in Known
      BY <1>4 DEF CommitDraft, WriteDiscard, DraftInv, DomainInv
    <2> QED BY <1>1, <2>1, <2>2 DEF Row
  <1>5. ASSUME NEW e \in Draft, WritePage(e)
        PROVE  drafts'[d].rounds = drafts[d].rounds
    <2>1. e # d
      BY <1>5 DEF WritePage
    <2> QED BY <1>1, <1>5, <2>1 DEF WritePage
  <1>6. CASE Classify
    BY <1>6, ClassifyInv
  <1>7. CASE Complete
    BY <1>7 DEF Complete, Candidates
  <1> QED
    <2>1. UNCHANGED drafts
             \/ Classify \/ Complete
             \/ (\E u \in Admin : PasteDraft(u))
             \/ \E e \in Draft : CommitDraft(e) \/ WriteDiscard(e) \/ WritePage(e)
      BY DEF Next, Page, Tick, Press, AddRun, Decide, LoadDiscard, LoadPage, ShutLead,
             FailRun, LoseRun, NoRun, vars, work
    <2> QED BY <1>2, <1>3, <1>4, <1>5, <1>6, <1>7, <2>1

\* A round ladder is replaced only by a page that was with the model when it
\* appeared (complete_one's candidates; the preview's completion route).
THEOREM LaddersStand == Spec => LadderReplacedOnlyByRace
  <1>1. DraftInv /\ [Next]_vars
          => [\A d \in Known : drafts[d].rounds # "none" /\ reading[d] = 0
                 => drafts'[d].rounds = drafts[d].rounds]_vars
    BY LadderStands
  <1> QED BY <1>1, DraftInvariant, PTL DEF Spec, LadderReplacedOnlyByRace
=============================================================================
