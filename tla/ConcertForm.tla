----------------------------- MODULE ConcertForm ----------------------------
(***************************************************************************)
(* The editor's form (app/web/routes/concerts.py): one submit carries      *)
(* every leg and every round of a concert as parallel arrays, and          *)
(* edit_concert reconciles them with the rows it finds.  A round names its *)
(* legs, its qualifying rounds and its required item by token: the id of a *)
(* saved row, or the key the page gave to a row it added.  Ids exist only  *)
(* after the flush, and SQLite hands the next one out above the table's    *)
(* highest, so an id can come back.  Two editors keep pages open while the *)
(* other one saves; a page loaded before the chips were deployed posts     *)
(* none of the token arrays.                                               *)
(***************************************************************************)
EXTENDS Naturals, SequencesExt

CONSTANTS
    Tab,          \* the editors' pages
    Performance,  \* the legs there may be, numbered by their start time
    Sale,         \* the rounds there may be
    FirstPage,    \* the rows of the creation form, or of an imported draft
    MaxTouches,   \* bound on what an editor changes on one page
    MaxSaves,     \* bound on the number of saves
    MaxId         \* bound on row ids

VARIABLES
    concert,  \* its concert_days, rounds and round_qualifiers rows
    pages,    \* what each tab was served
    others,   \* the highest ids other concerts hold in the two tables
    saves,    \* number of saves so far
    shown     \* history: the concert by name, as the last saved page showed it

vars == <<concert, pages, others, saves, shown>>

RoundKind == {"LOTTERY", "UPGRADE", "ITEM_SALE"}
NoRound   == 0
Refused   == MaxId + 1

\* A token is a saved row's id, in digits, or a generated key.
IdToken(i)  == <<"id", i>>
NewToken(n) == <<"new", n>>
NoToken     == <<"none", 0>>
Digits(t)   == t[1] = "id"

Token == {"id", "new", "none"} \X Nat

LegLine   == [id : Nat, key : Token, name : Performance, off : BOOLEAN, blank : BOOLEAN]
RoundLine == [id : Nat, key : Token, name : Sale, kind : RoundKind,
              legs : SUBSET Token, quals : SUBSET Token, needs : Token]
Page      == [open : BOOLEAN, new : BOOLEAN, old : BOOLEAN,
              legs : Seq(LegLine), rounds : Seq(RoundLine)]

\* No two rows of a page, or of a table, are the same performance or sale.
NamesDiffer(rows) == \A m, n \in DOMAIN rows : rows[m].name = rows[n].name => m = n

\* Required items are picked from the item sales on the page.
Offered(page, n) ==
    {page.rounds[m].key : m \in {m \in DOMAIN page.rounds :
                                   m # n /\ page.rounds[m].kind = "ITEM_SALE"}}
OfferedItems(page) ==
    \A n \in DOMAIN page.rounds : page.rounds[n].needs \in Offered(page, n) \cup {NoToken}

\* The creation form knows no ids: it names its rows by their keys.
ASSUME FormAssumption ==
    /\ Performance \subseteq Nat \ {0} /\ Sale \subseteq Nat \ {0}
    /\ MaxTouches \in Nat /\ MaxSaves \in Nat /\ MaxId \in Nat
    /\ FirstPage \in Page /\ ~FirstPage.old /\ OfferedItems(FirstPage)
    /\ \A rows \in {FirstPage.legs, FirstPage.rounds} :
          /\ NamesDiffer(rows)
          /\ \A n \in DOMAIN rows : rows[n].id = 0 /\ rows[n].key = NewToken(rows[n].name)
    /\ \A n \in DOMAIN FirstPage.rounds :
          \A t \in FirstPage.rounds[n].legs \cup FirstPage.rounds[n].quals : ~Digits(t)

NoOthers  == [leg |-> 0, round |-> 0]
Unread    == [read |-> FALSE, legs |-> {}, rounds |-> {}]
EmptyPage == [open |-> FALSE, new |-> FALSE, old |-> FALSE, legs |-> <<>>, rounds |-> <<>>]

Init ==
    /\ concert = [made |-> FALSE, legs |-> <<>>, rounds |-> <<>>]
    /\ pages = [t \in Tab |-> EmptyPage]
    /\ others = NoOthers /\ saves = 0
    /\ shown = Unread

----------------------------------------------------------------------------
(* The page. *)

\* edit_concert_form: legs by start time, rounds by id; a saved row's key is its id.
LegRow(i) ==
    [id |-> i, key |-> IdToken(i), name |-> concert.legs[i].name,
     off |-> concert.legs[i].off, blank |-> FALSE]
RoundRow(i) ==
    LET r == concert.rounds[i]
    IN [id |-> i, key |-> IdToken(i), name |-> r.name, kind |-> r.kind,
        legs |-> {IdToken(d) : d \in r.legs}, quals |-> {IdToken(q) : q \in r.quals},
        needs |-> IF r.needs = NoRound THEN NoToken ELSE IdToken(r.needs)]

\* ORDER BY place: the n-th row has n - 1 others before it.
InOrder(ids, place) ==
    [n \in 1 .. Cardinality(ids) |->
        CHOOSE i \in ids : Cardinality({j \in ids : place[j] < place[i]}) = n - 1]

EditPage(old) ==
    LET days == InOrder(DOMAIN concert.legs, [i \in DOMAIN concert.legs |-> concert.legs[i].name])
        sales == InOrder(DOMAIN concert.rounds, [i \in DOMAIN concert.rounds |-> i])
    IN [open |-> TRUE, new |-> FALSE, old |-> old,
        legs |-> [n \in DOMAIN days |-> LegRow(days[n])],
        rounds |-> [n \in DOMAIN sales |-> RoundRow(sales[n])]]

Names(rows) == {rows[n].name : n \in DOMAIN rows}
Flip(set, x) == IF x \in set THEN set \ {x} ELSE set \cup {x}

\* rebuild(): a required item that is no longer on offer is deselected.
Rebuilt(page) ==
    [page EXCEPT !.rounds = [n \in DOMAIN page.rounds |->
        IF page.rounds[n].needs \in Offered(page, n) THEN page.rounds[n]
        ELSE [page.rounds[n] EXCEPT !.needs = NoToken]]]

NewLeg(d, b) == [id |-> 0, key |-> NewToken(d), name |-> d, off |-> FALSE, blank |-> b]
NewRound(s, k) == [id |-> 0, key |-> NewToken(s), name |-> s, kind |-> k,
                   legs |-> {}, quals |-> {}, needs |-> NoToken]

\* The legs and the rounds a page has after one act of the editor.  A removed
\* leg's token stays in the hidden fields of the rounds; a leg row may be left,
\* or made, blank.
LegActs(served, legs) ==
    {RemoveAt(legs, n) : n \in DOMAIN legs}
    \cup {[legs EXCEPT ![n].blank = TRUE] : n \in DOMAIN legs}
    \cup {[legs EXCEPT ![n].off = ~@] : n \in DOMAIN legs}
    \cup UNION {{Append(legs, NewLeg(d, b)) : b \in BOOLEAN} :
                   d \in Performance \ (Names(legs) \cup Names(served.legs))}
RoundActs(served, rounds) ==
    {RemoveAt(rounds, n) : n \in DOMAIN rounds}
    \cup UNION ({{[rounds EXCEPT ![n].kind = k] : k \in RoundKind} : n \in DOMAIN rounds}
                \cup {{Append(rounds, NewRound(s, k)) : k \in RoundKind} :
                         s \in Sale \ (Names(rounds) \cup Names(served.rounds))})

\* Chips: the live legs of the page, the saved rounds, the item sales on it.
LegChips(page) == {page.legs[m].key : m \in {m \in DOMAIN page.legs : ~page.legs[m].off}}
QualChips(served, page, n) ==
    {served.rounds[m].key :
        m \in {m \in DOMAIN served.rounds :
                 /\ page.rounds[n].kind = "UPGRADE" /\ served.rounds[m].id # 0
                 /\ served.rounds[m].id # page.rounds[n].id}}
ChipActs(served, page) ==
    UNION {{[page.rounds EXCEPT ![n].legs = Flip(@, t)] : t \in LegChips(page)}
           \cup {[page.rounds EXCEPT ![n].quals = Flip(@, t)] : t \in QualChips(served, page, n)}
           \cup {[page.rounds EXCEPT ![n].needs = t] : t \in Offered(page, n) \cup {NoToken}} :
           n \in DOMAIN page.rounds}

Acts(served, page) ==
    {Rebuilt([page EXCEPT !.legs = legs]) : legs \in LegActs(served, page.legs)}
    \cup {Rebuilt([page EXCEPT !.rounds = rounds]) :
             rounds \in RoundActs(served, page.rounds)
                           \cup IF page.old THEN {} ELSE ChipActs(served, page)}
\* The pages at most k acts away, for every k.
UpTo(served) ==
    LET upTo[k \in 0 .. MaxTouches] ==
            IF k = 0 THEN {served}
            ELSE upTo[k - 1] \cup UNION {Acts(served, p) : p \in upTo[k - 1]}
    IN upTo
Touched(served) == UpTo(served)[MaxTouches]

----------------------------------------------------------------------------
(* The save. *)

\* A row left blank is skipped; the others keep their order.
Filled(rows) == Restrict(rows, {n \in DOMAIN rows : ~rows[n].blank})

\* Mutant: every row of the page becomes a new row.
IdsAllNew(rows, held, top) == [n \in DOMAIN rows |-> top + n]

\* A row whose id the concert still holds is updated in place, any other is
\* inserted above the table's highest id; the deletes come after the inserts.
IdsOf(rows, held, top) ==
    [n \in DOMAIN rows |->
        IF rows[n].id \in held THEN rows[n].id
        ELSE top + Cardinality({m \in DOMAIN rows : m <= n /\ rows[m].id \notin held})]

Highest(held, elsewhere) == Max(held \cup {elsewhere})

\* key_to_day_id, key_to_round_id: the first row that claims a key keeps it.
Keyed(rows, ids) ==
    [t \in {rows[n].key : n \in DOMAIN rows} |->
        ids[Min({m \in DOMAIN rows : rows[m].key = t})]]

\* Mutant: only a saved row's id is understood.
NamedById(t, valid, keyed) ==
    IF Digits(t) /\ t[2] \in valid THEN t[2] ELSE NoRound

\* A token names a surviving row, by its id first and by its key then; NoRound
\* if neither is known.
Named(t, valid, keyed) ==
    CASE Digits(t) /\ t[2] \in valid -> t[2]
      [] ~(Digits(t) /\ t[2] \in valid) /\ t \in DOMAIN keyed -> keyed[t]
      [] OTHER -> NoRound

\* parse_round_legs: unknown tokens are dropped.
ParseRoundLegs(tokens, valid, keyed) ==
    {Named(t, valid, keyed) : t \in tokens} \ {NoRound}

\* parse_round_qualifiers: ids of surviving rounds, never the round itself.
ParseRoundQualifiers(tokens, valid, self) ==
    ({t[2] : t \in {u \in tokens : Digits(u)}} \cap valid) \ {self}

\* resolve_round_requires: one token, and it must name another item sale.
ResolveRoundRequires(t, kinds, keyed, self) ==
    LET named == Named(t, DOMAIN kinds, keyed)
    IN IF t = NoToken THEN NoRound
       ELSE IF named = NoRound \/ named = self \/ kinds[named] # "ITEM_SALE" THEN Refused
       ELSE named

\* Mutant: an array the page did not post is read as an empty one.
PostedAsEmpty(page, row) ==
    IF page.old THEN [row EXCEPT !.legs = {}, !.quals = {}, !.needs = NoToken] ELSE row

\* An array the page did not post leaves a kept round what it had.
Posted(page, row) ==
    IF ~page.old THEN row
    ELSE IF row.id \in DOMAIN concert.rounds
    THEN [row EXCEPT !.legs = RoundRow(row.id).legs, !.quals = RoundRow(row.id).quals,
                     !.needs = RoundRow(row.id).needs]
    ELSE [row EXCEPT !.legs = {}, !.quals = {}, !.needs = NoToken]

\* Mutant: a link that was preserved is kept as it was.
RequiresUnchecked(page, row, kinds, keyed, self) ==
    IF page.old /\ row.id \in DOMAIN concert.rounds THEN concert.rounds[row.id].needs
    ELSE ResolveRoundRequires(row.needs, kinds, keyed, self)

\* A link that was preserved, not posted, is dropped where a posted one is refused.
Requires(page, row, kinds, keyed, self) ==
    LET rid == ResolveRoundRequires(row.needs, kinds, keyed, self)
    IN IF rid = Refused /\ page.old /\ row.id \in DOMAIN concert.rounds THEN NoRound ELSE rid

LegIds(page) ==
    IdsOf(Filled(page.legs), DOMAIN concert.legs, Highest(DOMAIN concert.legs, others.leg))
RoundIds(page) ==
    IdsOf(page.rounds, DOMAIN concert.rounds, Highest(DOMAIN concert.rounds, others.round))

\* The row of the page that is stored under an id.
RowOf(ids, i) == CHOOSE n \in DOMAIN ids : ids[n] = i

SavedLegs(page) ==
    LET rows == Filled(page.legs)
        ids == LegIds(page)
    IN [keyed |-> IF page.old THEN <<>> ELSE Keyed(rows, ids),
        rows |-> [i \in Range(ids) |->
                    LET row == rows[RowOf(ids, i)] IN [name |-> row.name, off |-> row.off]]]

SavedRounds(page, legs) ==
    LET ids == RoundIds(page)
        keyed == IF page.old THEN <<>> ELSE Keyed(page.rounds, ids)
        At(i) == Posted(page, page.rounds[RowOf(ids, i)])
        kinds == [i \in Range(ids) |-> At(i).kind]
    IN [i \in Range(ids) |->
          [name |-> At(i).name, kind |-> At(i).kind,
           legs |-> ParseRoundLegs(At(i).legs, DOMAIN legs.rows, legs.keyed),
           quals |-> IF At(i).kind = "UPGRADE"
                     THEN ParseRoundQualifiers(At(i).quals, Range(ids), i) ELSE {},
           needs |-> Requires(page, At(i), kinds, keyed, i)]]

\* History: the page by name.  What a token shows is the row that has its key.
NamesOf(rows, tokens) == {rows[n].name : n \in {n \in DOMAIN rows : rows[n].key \in tokens}}
Shown(page, rounds) ==
    LET legs == Filled(page.legs)
        saved == Restrict(page.rounds, {n \in DOMAIN page.rounds :
                                           page.rounds[n].id \in DOMAIN rounds})
    IN [read |-> TRUE,
        legs |-> {<<legs[n].name, legs[n].off>> : n \in DOMAIN legs},
        rounds |-> {LET row == page.rounds[n]
                    IN [name |-> row.name, kind |-> row.kind,
                        legs |-> NamesOf(legs, row.legs),
                        quals |-> IF row.kind = "UPGRADE"
                                  THEN NamesOf(saved, row.quals)
                                  ELSE {},
                        needs |-> NamesOf(page.rounds, {row.needs})] :
                    n \in DOMAIN page.rounds}]

\* An id the page was served with is the id of another row by now.
HandedOn(served, legs, rounds) ==
    \/ \E n \in DOMAIN served.legs :
          LET row == served.legs[n]
          IN row.id \in DOMAIN legs /\ legs[row.id].name # row.name
    \/ \E n \in DOMAIN served.rounds :
          LET row == served.rounds[n]
          IN row.id \in DOMAIN rounds /\ rounds[row.id].name # row.name

\* The tail create_concert, import_commit and edit_concert share; a link that is
\* refused answers 422 and rolls everything back.
Submit(t) ==
    /\ pages[t].open /\ saves < MaxSaves
    /\ \E page \in Touched(pages[t]) :
          LET legs == SavedLegs(page)
              rounds == SavedRounds(page, legs)
          IN /\ DOMAIN legs.rows \cup DOMAIN rounds \subseteq 1 .. MaxId
             /\ \A i \in DOMAIN rounds : rounds[i].needs # Refused
             /\ concert' = [made |-> TRUE, legs |-> legs.rows, rounds |-> rounds]
             /\ shown' = IF page.old \/ HandedOn(pages[t], legs.rows, rounds)
                         THEN Unread ELSE Shown(page, rounds)
    /\ pages' = [pages EXCEPT ![t] = EmptyPage]
    /\ saves' = saves + 1
    /\ UNCHANGED others

\* A second create of the event answers 409: validate_event_id.
CreateConcert(t) == pages[t].new /\ ~concert.made /\ Submit(t)

EditConcert(t) == ~pages[t].new /\ Submit(t)

OpenNew(t) ==
    /\ ~concert.made /\ ~pages[t].open
    /\ pages' = [pages EXCEPT ![t] = FirstPage]
    /\ UNCHANGED <<concert, others, saves, shown>>

OpenEdit(t) ==
    /\ concert.made /\ ~pages[t].open
    /\ \E old \in BOOLEAN : pages' = [pages EXCEPT ![t] = EditPage(old)]
    /\ UNCHANGED <<concert, others, saves, shown>>

\* Another concert is added, or deleted again.
OthersChange ==
    /\ others' = IF others = NoOthers
                 THEN [leg |-> Highest(DOMAIN concert.legs, 0) + 1,
                       round |-> Highest(DOMAIN concert.rounds, 0) + 1]
                 ELSE NoOthers
    /\ UNCHANGED <<concert, pages, saves, shown>>

Next ==
    \/ \E t \in Tab : OpenNew(t) \/ OpenEdit(t) \/ CreateConcert(t) \/ EditConcert(t)
    \/ OthersChange

Spec == Init /\ [][Next]_vars

----------------------------------------------------------------------------
(* What the reconciliation must get right. *)

Leg   == [name : Performance, off : BOOLEAN]
Round == [name : Sale, kind : RoundKind, legs : SUBSET Nat, quals : SUBSET Nat, needs : Nat]

\* Pages and tables keep their columns, and rows are numbered from 1 to MaxId.
TypeOK ==
    /\ concert.made \in BOOLEAN
    /\ concert.legs \in [DOMAIN concert.legs -> Leg]
    /\ concert.rounds \in [DOMAIN concert.rounds -> Round]
    /\ DOMAIN concert.legs \cup DOMAIN concert.rounds \subseteq 1 .. MaxId
    /\ pages \in [Tab -> Page]
    /\ others \in [leg : Nat, round : Nat] /\ saves \in Nat

\* Whatever was removed, blanked, re-kinded or saved from an older page, a
\* round never refers to a leg or round the concert does not have, nor to
\* itself, and the item it requires is sold by an item sale.
NoDanglingReference ==
    \A i \in DOMAIN concert.rounds :
        LET r == concert.rounds[i]
        IN /\ r.legs \subseteq DOMAIN concert.legs
           /\ r.quals \subseteq DOMAIN concert.rounds \ {i}
           /\ r.needs # NoRound => /\ r.needs \in DOMAIN concert.rounds \ {i}
                                   /\ concert.rounds[r.needs].kind = "ITEM_SALE"

ByName ==
    [read |-> TRUE,
     legs |-> {<<concert.legs[i].name, concert.legs[i].off>> : i \in DOMAIN concert.legs},
     rounds |-> {LET r == concert.rounds[i]
                 IN [name |-> r.name, kind |-> r.kind,
                     legs |-> {concert.legs[d].name : d \in r.legs},
                     quals |-> {concert.rounds[q].name : q \in r.quals},
                     needs |-> {concert.rounds[q].name : q \in {r.needs} \ {NoRound}}] :
                 i \in DOMAIN concert.rounds}]

\* A save stores what its page showed: every round bound to the legs whose
\* chips were on, the qualifiers and the item it named, rows added on the page
\* included, although the ids were not known when the chips were pressed and
\* another editor may have deleted the very rows.  Two exceptions: an id that
\* was deleted and handed out again since the page was loaded, and a qualifying
\* round the other editor deleted and this save brings back under a new id, which
\* its chip does not know.
SavedAsShown == shown.read => ByName = shown

\* Nobody saved this concert since the page was served.
SameRows(lines, rows) ==
    {<<lines[n].id, lines[n].name>> : n \in DOMAIN lines} = {<<i, rows[i].name>> : i \in DOMAIN rows}
Current(served) ==
    SameRows(served.legs, concert.legs) /\ SameRows(served.rounds, concert.rounds)

Submitted(t) == pages[t].open /\ ~pages'[t].open

\* Reminders and answers hang on the ids: after a save from a current page a
\* row is the same performance or sale under the same id, and no id is passed on
\* to another one.
RowsKeepTheirIds ==
    [][\A t \in Tab : Submitted(t) /\ ~pages[t].new /\ Current(pages[t]) =>
        /\ \A i \in DOMAIN concert.legs, j \in DOMAIN concert'.legs :
              (i = j) <=> (concert.legs[i].name = concert'.legs[j].name)
        /\ \A i \in DOMAIN concert.rounds, j \in DOMAIN concert'.rounds :
              (i = j) <=> (concert.rounds[i].name = concert'.rounds[j].name)]_vars

\* A page from before the chips does not know what the rounds apply to: its save
\* takes from a round only what refers to a row that is gone or was re-kinded.
OldPageLosesNothing ==
    [][\A t \in Tab : Submitted(t) /\ pages[t].old =>
        \A i \in DOMAIN concert.rounds \cap DOMAIN concert'.rounds :
            LET before == concert.rounds[i]  after == concert'.rounds[i]
            IN /\ after.legs = before.legs \cap DOMAIN concert'.legs
               /\ after.kind = "UPGRADE" =>
                     after.quals = before.quals \cap DOMAIN concert'.rounds
               /\ (before.needs \in DOMAIN concert'.rounds \ {NoRound}
                    /\ concert'.rounds[before.needs].kind = "ITEM_SALE")
                   => after.needs = before.needs]_vars
=============================================================================
