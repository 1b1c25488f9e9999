---------------------------- MODULE DraftPipeline ---------------------------
(***************************************************************************)
(* Concert drafts, from the open leads to the catalogue: the two paid runs *)
(* an admin asks for and the scheduler's tick carries out (app/triage.py   *)
(* drafts productions, app/draft_completion.py fills in rounds from the    *)
(* official page), and the import pages where editors paste, complete,     *)
(* discard and commit drafts.                                              *)
(*                                                                         *)
(* A run writes its own row first and so holds SQLite's write lock until it*)
(* commits: to every other writer it is one step.  A page that awaits      *)
(* between reading a draft and writing it is two.                          *)
(***************************************************************************)
EXTENDS Naturals, Sequences

CONSTANTS
    Production,   \* told apart by the page a draft names as its source
    Pasted,       \* the production of a draft somebody pasted: none known
    Admin,
    MaxDrafts,    \* bound on the rows of pending_drafts, numbered from 1
    MaxPresses,   \* bound on the runs asked for
    MaxReads,     \* bound on the pages pasted
    MaxHiccups    \* bound on runs that raise or die

ASSUME PipelineAssumption ==
    /\ Pasted \notin Production
    /\ MaxDrafts \in Nat
    /\ MaxPresses \in Nat /\ MaxReads \in Nat /\ MaxHiccups \in Nat

Draft == 1 .. MaxDrafts

VARIABLES
    lead,      \* productions whose leads are still open
    drafts,    \* pending_drafts, in id order
    made,      \* how many concerts a draft produced
    host,      \* the verdict on the official pages' host
    queue,     \* triage_runs still requested, oldest first
    pressing,  \* presses that found no run of their kind waiting
    reading,   \* pages pasted for a draft and still with the model
    leaving,   \* discards that found their draft open
    paid,      \* official-page calls the tick paid for a draft
    aborts,    \* runs that were rolled back
    presses, reads

vars == <<lead, drafts, made, host, queue, pressing, reading, leaving, paid, aborts,
          presses, reads>>
work == <<drafts, made, paid>>
desk == <<lead, pressing, reading, leaving, presses, reads>>

Kind   == {"classify", "complete"}
Ladder == {"none", "typed", "triage", "official"}   \* where its rounds come from

\* Noted by a run that wanted to read it, then approved or declined, once.
HostState == {"unknown", "noted", "approved", "declined"}

Known   == 1 .. Len(drafts)
Open(d) == drafts[d].done = {}

\* `after` is history: the drafts there were before the run, or paste, it is of.
NewDraft(p, u, ladder, record) ==
    [prod |-> p, by |-> u, rounds |-> ladder, record |-> record, done |-> {},
     after |-> Len(drafts)]

Init ==
    /\ lead = Production /\ drafts = <<>> /\ made = [d \in Draft |-> 0]
    /\ host \in {"unknown", "approved"} /\ queue = <<>> /\ pressing = {}
    /\ reading = [d \in Draft |-> 0] /\ leaving = {}
    /\ paid = [d \in Draft |-> 0] /\ aborts = 0 /\ presses = 0 /\ reads = 0

----------------------------------------------------------------------------
(* The import pages and the discovery page.                                *)

\* A batch paste stores one row per document.
PasteDraft(u) ==
    /\ Len(drafts) < MaxDrafts
    /\ \E ladder \in {"none", "typed"} :
          drafts' = Append(drafts, NewDraft(Pasted, u, ladder, "none"))
    /\ UNCHANGED <<made, paid, host, queue, aborts, desk>>

Waiting(kind) == \E i \in 1 .. Len(queue) : queue[i].kind = kind

\* request_triage looks for a run of its kind that is still waiting ...
Press(kind, u) ==
    /\ presses < MaxPresses /\ presses' = presses + 1
    /\ ~Waiting(kind)
    /\ pressing' = pressing \cup {[kind |-> kind, by |-> u]}
    /\ UNCHANGED <<work, host, queue, aborts, lead, reading, leaving, reads>>

\* ... and adds one.
AddRun(r) ==
    /\ r \in pressing
    /\ pressing' = pressing \ {r}
    /\ queue' = Append(queue, r)
    /\ UNCHANGED <<work, host, aborts, lead, reading, leaving, presses, reads>>

\* An admin approves or declines a host a run has noted, once.
Decide ==
    /\ host = "noted" /\ host' \in {"approved", "declined"}
    /\ UNCHANGED <<work, queue, aborts, desk>>

\* import_commit writes the concert and then finds the draft open, all under
\* one lock; otherwise it answers 409 and keeps nothing.
CommitDraft(d) ==
    /\ d \in Known /\ Open(d)
    /\ made' = [made EXCEPT ![d] = @ + 1]
    /\ drafts' = [drafts EXCEPT ![d].done = @ \cup {"committed"}]
    /\ UNCHANGED <<paid, host, queue, aborts, desk>>

\* A discard finds the draft open and stamps it a moment later.
LoadDiscard(d) ==
    /\ d \in Known \ leaving /\ Open(d)
    /\ leaving' = leaving \cup {d}
    /\ UNCHANGED <<work, host, queue, aborts, lead, pressing, reading, presses, reads>>

WriteDiscard(d) ==
    /\ d \in leaving /\ leaving' = leaving \ {d}
    /\ drafts' = [drafts EXCEPT ![d].done = @ \cup {"discarded"}]
    /\ UNCHANGED <<made, paid, host, queue, aborts, lead, pressing, reading, presses, reads>>

\* Pasting the page of an open draft without rounds sends it to the model ...
LoadPage(d) ==
    /\ reads < MaxReads /\ reads' = reads + 1
    /\ d \in Known /\ Open(d) /\ drafts[d].rounds = "none"
    /\ reading' = [reading EXCEPT ![d] = @ + 1]
    /\ UNCHANGED <<work, host, queue, aborts, lead, pressing, leaving, presses>>

\* What a reply does to a draft: nothing usable leaves the text alone, and
\* otherwise the rounds it could quote replace the whole ladder.
Reply == {"unusable", "ungrounded", "grounded"}

Rebuilt(ladder, reply) ==
    IF reply = "unusable" THEN ladder ELSE IF reply = "grounded" THEN "official" ELSE "none"

Filled(row, reply) ==
    [row EXCEPT !.rounds = Rebuilt(@, reply), !.record = "official"]

\* ... and up to ninety seconds later its reply is written over the draft,
\* whatever has become of it; a call that fails writes nothing.
WritePage(d) ==
    /\ reading[d] > 0 /\ reading' = [reading EXCEPT ![d] = @ - 1]
    /\ \/ \E reply \in Reply : drafts' = [drafts EXCEPT ![d] = Filled(@, reply)]
       \/ UNCHANGED drafts
    /\ UNCHANGED <<made, paid, host, queue, aborts, lead, pressing, leaving, presses, reads>>

\* A lead is dismissed, or the next sweep finds its event on a leg.
ShutLead(p) ==
    /\ p \in lead /\ lead' = lead \ {p}
    /\ UNCHANGED <<work, host, queue, aborts, pressing, reading, leaving, presses, reads>>

Page ==
    \/ \E u \in Admin : PasteDraft(u)
    \/ \E k \in Kind, u \in Admin : Press(k, u)
    \/ \E r \in pressing : AddRun(r)
    \/ Decide
    \/ \E d \in Draft :
          \/ CommitDraft(d) \/ LoadDiscard(d) \/ WriteDiscard(d)
          \/ LoadPage(d) \/ WritePage(d)
    \/ \E p \in Production : ShutLead(p)

----------------------------------------------------------------------------
(* The tick carries out the oldest run of either kind, one per tick.       *)

Run == queue[1]
Due(kind) == queue # <<>> /\ Run.kind = kind

\* Mutant: only the requester's own drafts are looked at.
UndraftedByMe ==
    {p \in Production : \A d \in Known : Open(d) /\ drafts[d].by = Run.by => drafts[d].prod # p}

\* Productions whose source line is in no open draft, anybody's.
Undrafted == {p \in Production : \A d \in Known : Open(d) => drafts[d].prod # p}

\* The model answers with a list of productions: nothing checks that it names
\* one once, or an open lead.  Containment looks at the drafts there were
\* before the first of them is drafted; those within the cap, the budget and
\* luck become drafts, with the rounds their page states.  Dismissals are only
\* proposed.
Classify ==
    /\ Due("classify") /\ queue' = Tail(queue)
    /\ \E n \in 0 .. (MaxDrafts - Len(drafts)) :
       \E named \in [1 .. n -> Undrafted], ladder \in [1 .. n -> {"none", "triage"}] :
          /\ lead = {} => n = 0
          /\ drafts' = drafts \o
                [i \in 1 .. n |-> NewDraft(named[i], Run.by, ladder[i], "triage")]
    /\ UNCHANGED <<made, paid, host, aborts, desk>>

\* Mutant: drafts that have rounds are read again.
CandidatesAnyLadder ==
    {d \in Known : /\ Open(d) /\ drafts[d].by = Run.by
                   /\ drafts[d].record # "official"}

\* Mutant: any record counts as no attempt.
CandidatesUnrecorded ==
    {d \in Known : /\ Open(d) /\ drafts[d].by = Run.by
                   /\ drafts[d].rounds = "none"}

\* The requester's open drafts without rounds that no official page was paid
\* for.
Candidates ==
    {d \in Known : /\ Open(d) /\ drafts[d].by = Run.by
                   /\ drafts[d].rounds = "none" /\ drafts[d].record # "official"}

Paid(ds) == [d \in Draft |-> IF d \in ds THEN paid[d] + 1 ELSE paid[d]]

\* Whatever has no page, no approved host, no answer or no time left stays a
\* candidate.
Complete ==
    /\ Due("complete") /\ queue' = Tail(queue)
    /\ \E read \in SUBSET Candidates : \E reply \in [read -> Reply] :
          /\ read # {} => host = "approved"
          /\ drafts' = [d \in Known |-> IF d \in read THEN Filled(drafts[d], reply[d])
                                                      ELSE drafts[d]]
          /\ paid' = Paid(read)
    /\ host' = IF host = "unknown" /\ Candidates # {} THEN "noted" ELSE host
    /\ UNCHANGED <<made, aborts, desk>>

\* Calls a run has paid for when it raises or dies.
Spent ==
    IF Due("complete") /\ host = "approved"
    THEN \E read \in SUBSET Candidates : paid' = Paid(read)
    ELSE UNCHANGED paid

\* Mutant: the handler only rolls back, so the run is still requested.
FailUnmarked ==
    /\ queue # <<>> /\ aborts' = IF aborts = 3 THEN 2 ELSE 3
    /\ UNCHANGED <<drafts, made, paid, queue, host, desk>>

\* A run that raises loses all it wrote and is marked failed afterwards.
FailRun ==
    /\ queue # <<>> /\ aborts < MaxHiccups /\ aborts' = aborts + 1
    /\ Spent /\ queue' = Tail(queue)
    /\ UNCHANGED <<drafts, made, host, desk>>

\* The mark is lost as well, or the process dies: the run is requested again.
LoseRun ==
    /\ queue # <<>> /\ aborts < MaxHiccups /\ aborts' = aborts + 1
    /\ Spent /\ UNCHANGED queue
    /\ UNCHANGED <<drafts, made, host, desk>>

\* A tick without a request does nothing.
NoRun == queue = <<>> /\ UNCHANGED vars

Tick == Classify \/ Complete \/ FailRun

Next == Page \/ Tick \/ NoRun \/ LoseRun

Spec == Init /\ [][Next]_vars /\ WF_vars(Tick)

----------------------------------------------------------------------------

\* Rows keep their domains; a draft that reached its official page says so.
TypeOK ==
    /\ lead \subseteq Production /\ Len(drafts) <= MaxDrafts
    /\ \A d \in Known :
          /\ drafts[d].prod \in Production \cup {Pasted} /\ drafts[d].by \in Admin
          /\ drafts[d].rounds \in Ladder /\ drafts[d].record \in {"none", "triage", "official"}
          /\ drafts[d].rounds = "official" => drafts[d].record = "official"
          /\ drafts[d].done \subseteq {"committed", "discarded"} /\ drafts[d].after \in Nat
    /\ host \in HostState
    /\ \A i \in 1 .. Len(queue) : queue[i] \in [kind : Kind, by : Admin]
    /\ reading \in [Draft -> Nat] /\ leaving \subseteq Known
    /\ paid \in [Draft -> Nat] /\ aborts \in Nat

\* Nobody gets a second copy.  A draft produces at most one concert, however
\* often its preview is posted, and says committed exactly when it did.  And
\* two open drafts of one production come from one reply of the model that
\* named it twice, never from two runs, whoever asked for them, however they
\* overlap with commits and discards and however often one is lost.
NoSecondCopy ==
    /\ \A d \in Known : made[d] = IF "committed" \in drafts[d].done THEN 1 ELSE 0
    /\ \A d, e \in Known :
          d # e /\ Open(d) /\ Open(e) /\ drafts[d].prod = drafts[e].prod =>
              drafts[d].prod = Pasted \/ drafts[d].after = drafts[e].after

\* The tick pays for a draft's official page once, whatever the reply was and
\* however often the button is pressed, plus once for every run that was lost.
PaidOnce == \A d \in Draft : paid[d] <= 1 + aborts

\* A round ladder is replaced only by a page that was already being read when
\* the ladder appeared: no run and no later paste touches it.
LadderReplacedOnlyByRace ==
    [][\A d \in Known : drafts[d].rounds # "none" /\ reading[d] = 0
          => drafts'[d].rounds = drafts[d].rounds]_vars

\* Every requested run ends, done or failed: none fires every minute for ever.
RunsEnd == []<>(queue = <<>>)

=============================================================================
