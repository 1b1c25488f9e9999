--------------------------- MODULE RoundWatchProofs ---------------------------
(***************************************************************************)
(* Proofs about the round watch, for every page, every set of rounds and   *)
(* any number of admins: one notice per quiet spell, one digest entry per  *)
(* proposal, no second copy of a round but by a race, a dismissal that     *)
(* sticks, and every unanswered reading kept under its latest date.        *)
(***************************************************************************)
EXTENDS RoundWatch, FiniteSetTheorems, SequenceTheorems, TLAPS

\* The requests in flight; Disturbed keeps their shape.
ApplyPress   == [kind: {"apply"}, row: Key, key: Key, ends: EndTime, clean: BOOLEAN]
DismissPress == [kind: {"dismiss"}, row: Key, clean: BOOLEAN]
AnyPress     == {Idle} \cup ApplyPress \cup DismissPress

Typed == TypeOK /\ press \in [Press -> AnyPress]

\* Where the concert holds a round with the key k.
Places(s, k) == {i \in DOMAIN s : s[i].key = k}

\* A concert without its stamp was not quiet at some time since the last
\* notice, and a pass read the stamp that is still there: nothing but a pass
\* writes it.  A pass that found the ladder not quiet is itself such a time.
LadderInv ==
    /\ ~stamped => left
    /\ scan # NoScan => scan.stamped = stamped
    /\ scan # NoScan /\ ~scan.quiet => left

\* A request holds a proposal that has its row; one whose checks nothing has
\* overtaken also has a round the concert does not hold and a proposal nobody
\* dismissed.
PressInv ==
    \A p \in Press : press[p] # Idle =>
        /\ prop[press[p].row] # NoRow
        /\ press[p].kind = "apply" /\ press[p].clean =>
               /\ Places(held, press[p].key) = {}
               /\ ~prop[press[p].row].dismissed

WatchInv == Typed /\ LadderInv /\ PressInv /\ HandledOnce /\ ReadingsWait

----------------------------------------------------------------------------
(* Facts about the operators.                                              *)

\* The values that stand for "none" are no rows, rounds, passes or requests.
LEMMA Distinct ==
    /\ Nothing \notin HeldRound /\ NoRow \notin Row
    /\ NoScan \notin [quiet: BOOLEAN, stamped: BOOLEAN, checked: BOOLEAN]
    /\ Idle \notin ApplyPress \cup DismissPress
  <1>1. DOMAIN Nothing # DOMAIN [key |-> 0, ends |-> 0]
    BY DEF Nothing
  <1>2. Nothing \notin HeldRound
    BY <1>1 DEF Nothing, HeldRound
  <1>3. NoRow \notin Row
    BY DEF NoRow, Row
  <1>4. NoScan \notin [quiet: BOOLEAN, stamped: BOOLEAN, checked: BOOLEAN]
    BY DEF NoScan
  <1>5. Idle \notin ApplyPress \cup DismissPress
    BY DEF Idle, ApplyPress, DismissPress
  <1> QED BY <1>2, <1>3, <1>4, <1>5

\* A nonempty set of places has a last one.
LEMMA LastPlace ==
    ASSUME NEW n \in Nat, NEW S \in SUBSET (1..n), S # {}
    PROVE  \E i \in S : \A j \in S : j <= i
  <1> DEFINE T == {n - i : i \in S}
  <1>1. T \subseteq Nat /\ T # {}
    <2>1. \A i \in S : i \in 1..n /\ n - i \in Nat
      OBVIOUS
    <2>2. T \subseteq Nat
      BY <2>1
    <2>3. \E i \in S : n - i \in T
      OBVIOUS
    <2> QED BY <2>2, <2>3
  <1>2. PICK t \in T : \A u \in T : ~(<<u, t>> \in OpToRel(<, Nat))
    <2> HIDE DEF T
    <2> QED BY <1>1, NatLessThanWellFounded, WFMin
  <1>3. \A u \in T : ~(u < t)
    <2> HIDE DEF T
    <2> QED BY <1>1, <1>2 DEF OpToRel
  <1>4. PICK i \in S : t = n - i
    OBVIOUS
  <1>5. \A j \in S : j <= i
    BY <1>3, <1>4
  <1> QED BY <1>5

\* HeldBy finds a round with the key, or none has it.
LEMMA HeldByFinds ==
    ASSUME held \in Seq(HeldRound), NEW k \in Key
    PROVE  IF Places(held, k) = {}
           THEN HeldBy(k) = Nothing
           ELSE HeldBy(k) \in HeldRound /\ HeldBy(k).key = k
  <1>1. DOMAIN held = 1..Len(held) /\ Len(held) \in Nat
    BY LenProperties
  <1>2. CASE Places(held, k) = {}
    BY <1>2 DEF Places, HeldBy
  <1>3. CASE Places(held, k) # {}
    <2> DEFINE S == {i \in DOMAIN held : held[i].key = k}
    <2>1. \E i \in S : \A j \in S : j <= i
      <3>1. S \in SUBSET (1..Len(held)) /\ S # {}
        BY <1>1, <1>3 DEF Places
      <3> HIDE DEF S
      <3> QED BY <1>1, <3>1, LastPlace
    <2>2. (CHOOSE i \in S : \A j \in S : j <= i) \in S
      BY <2>1
    <2>3. \A i \in S : held[i] \in HeldRound
      BY <1>1, ElementOfSeq
    <2>4. HeldBy(k) = held[CHOOSE i \in S : \A j \in S : j <= i]
      BY <1>3 DEF HeldBy, Places
    <2>5. HeldBy(k) \in HeldRound /\ HeldBy(k).key = k
      <3> DEFINE c == CHOOSE i \in S : \A j \in S : j <= i
      <3>1. c \in S
        BY <2>2
      <3>2. held[c] \in HeldRound /\ held[c].key = k
        BY <3>1, <2>3
      <3>3. HeldBy(k) = held[c]
        BY <2>4
      <3> QED BY <3>2, <3>3
    <2> QED BY <1>3, <2>5
  <1> QED BY <1>2, <1>3

\* The places of a key are finitely many.
LEMMA PlacesFinite ==
    ASSUME NEW s \in Seq(HeldRound), NEW k
    PROVE  /\ IsFiniteSet(Places(s, k))
           /\ Cardinality(Places(s, k)) \in Nat
           /\ Places(s, k) \subseteq 1..Len(s)
  <1>1. DOMAIN s = 1..Len(s) /\ Len(s) \in Nat
    BY LenProperties
  <1>2. IsFiniteSet(1..Len(s))
    BY <1>1, FS_Interval
  <1>3. Places(s, k) \in SUBSET (1..Len(s))
    BY <1>1 DEF Places
  <1>4. IsFiniteSet(Places(s, k))
    BY <1>2, <1>3, FS_Subset
  <1> QED BY <1>3, <1>4, FS_CardinalityType

\* The rounds before the i-th and the rounds after it, one after the other.
LEMMA Joined ==
    ASSUME NEW s \in Seq(HeldRound), NEW i \in 1..Len(s),
           NEW a \in Seq(HeldRound), Len(a) = i - 1, \A j \in 1..(i - 1) : a[j] = s[j],
           NEW b \in Seq(HeldRound), Len(b) = Len(s) - i,
           \A j \in 1..(Len(s) - i) : b[j] = s[i + j]
    PROVE  /\ a \o b \in Seq(HeldRound)
           /\ DOMAIN (a \o b) = 1..(Len(s) - 1)
           /\ \A j \in 1..(Len(s) - 1) : (a \o b)[j] = s[IF j < i THEN j ELSE j + 1]
  <1>1. Len(s) \in Nat /\ i \in Int
    BY LenProperties
  <1>2. /\ a \o b \in Seq(HeldRound) /\ Len(a \o b) = Len(s) - 1
        /\ \A j \in 1..(Len(s) - 1) : (a \o b)[j] = IF j <= i - 1 THEN a[j] ELSE b[j - (i - 1)]
    <2>1. /\ a \o b \in Seq(HeldRound)
          /\ Len(a \o b) = Len(a) + Len(b)
          /\ \A j \in 1..(Len(a) + Len(b)) :
                (a \o b)[j] = IF j <= Len(a) THEN a[j] ELSE b[j - Len(a)]
      BY ConcatProperties, Zenon
    <2>2. Len(a) + Len(b) = Len(s) - 1
      BY <1>1
    <2> QED BY <2>1, <2>2
  <1>3. DOMAIN (a \o b) = 1..(Len(s) - 1)
    BY <1>2, LenProperties
  <1>4. ASSUME NEW j \in 1..(Len(s) - 1)
        PROVE  (a \o b)[j] = s[IF j < i THEN j ELSE j + 1]
    <2>1. (a \o b)[j] = IF j <= i - 1 THEN a[j] ELSE b[j - (i - 1)]
      BY <1>2
    <2>2. CASE j < i
      <3>1. j \in 1..(i - 1) /\ j <= i - 1
        BY <1>1, <2>2
      <3> QED BY <2>1, <2>2, <3>1
    <2>3. CASE ~(j < i)
      <3>1. ~(j <= i - 1) /\ j - (i - 1) \in 1..(Len(s) - i) /\ i + (j - (i - 1)) = j + 1
        BY <1>1, <2>3
      <3>2. b[j - (i - 1)] = s[i + (j - (i - 1))]
        BY <3>1
      <3> QED BY <2>1, <2>3, <3>1, <3>2
    <2> QED BY <2>2, <2>3
  <1> QED BY <1>2, <1>3, <1>4

\* Dropping the i-th round moves the later ones up by one.
LEMMA Removed ==
    ASSUME NEW s \in Seq(HeldRound), NEW i \in 1..Len(s)
    PROVE  /\ SubSeq(s, 1, i - 1) \o SubSeq(s, i + 1, Len(s)) \in Seq(HeldRound)
           /\ DOMAIN (SubSeq(s, 1, i - 1) \o SubSeq(s, i + 1, Len(s))) = 1..(Len(s) - 1)
           /\ \A j \in 1..(Len(s) - 1) :
                 (SubSeq(s, 1, i - 1) \o SubSeq(s, i + 1, Len(s)))[j]
                    = s[IF j < i THEN j ELSE j + 1]
  <1>1. Len(s) \in Nat /\ i \in Int
    BY LenProperties
  <1>2. \A j \in 1..Len(s) : s[j] \in HeldRound
    BY ElementOfSeq
  <1>3. /\ SubSeq(s, 1, i - 1) \in Seq(HeldRound) /\ Len(SubSeq(s, 1, i - 1)) = i - 1
        /\ \A j \in 1..(i - 1) : SubSeq(s, 1, i - 1)[j] = s[j]
    <2>1. \A j \in 1..(i - 1) : s[j] \in HeldRound
      BY <1>1, <1>2
    <2>2. /\ SubSeq(s, 1, i - 1) \in Seq(HeldRound)
          /\ Len(SubSeq(s, 1, i - 1)) = IF 1 <= i - 1 THEN (i - 1) - 1 + 1 ELSE 0
          /\ \A j \in 1..((i - 1) - 1 + 1) : SubSeq(s, 1, i - 1)[j] = s[1 + j - 1]
      BY <1>1, <2>1, SubSeqProperties
    <2> QED BY <1>1, <2>2
  <1>4. /\ SubSeq(s, i + 1, Len(s)) \in Seq(HeldRound)
        /\ Len(SubSeq(s, i + 1, Len(s))) = Len(s) - i
        /\ \A j \in 1..(Len(s) - i) : SubSeq(s, i + 1, Len(s))[j] = s[i + j]
    <2>1. \A j \in (i + 1)..Len(s) : s[j] \in HeldRound
      BY <1>1, <1>2
    <2>2. /\ SubSeq(s, i + 1, Len(s)) \in Seq(HeldRound)
          /\ Len(SubSeq(s, i + 1, Len(s)))
                = IF i + 1 <= Len(s) THEN Len(s) - (i + 1) + 1 ELSE 0
          /\ \A j \in 1..(Len(s) - (i + 1) + 1) :
                SubSeq(s, i + 1, Len(s))[j] = s[(i + 1) + j - 1]
      BY <1>1, <2>1, SubSeqProperties
    <2>3. Len(SubSeq(s, i + 1, Len(s))) = Len(s) - i
      BY <1>1, <2>2
    <2>4. ASSUME NEW j \in 1..(Len(s) - i)
          PROVE  SubSeq(s, i + 1, Len(s))[j] = s[i + j]
      <3>1. j \in 1..(Len(s) - (i + 1) + 1) /\ (i + 1) + j - 1 = i + j
        BY <1>1
      <3> QED BY <2>2, <3>1
    <2> QED BY <2>2, <2>3, <2>4
  <1> DEFINE a == SubSeq(s, 1, i - 1)
             b == SubSeq(s, i + 1, Len(s))
  <1>5. a \in Seq(HeldRound) /\ Len(a) = i - 1 /\ \A j \in 1..(i - 1) : a[j] = s[j]
    BY <1>3
  <1>6. /\ b \in Seq(HeldRound) /\ Len(b) = Len(s) - i
        /\ \A j \in 1..(Len(s) - i) : b[j] = s[i + j]
    BY <1>4
  <1> HIDE DEF a, b
  <1>7. /\ a \o b \in Seq(HeldRound)
        /\ DOMAIN (a \o b) = 1..(Len(s) - 1)
        /\ \A j \in 1..(Len(s) - 1) : (a \o b)[j] = s[IF j < i THEN j ELSE j + 1]
    BY <1>5, <1>6, Joined
  <1> QED BY <1>7 DEF a, b

\* A set that gains at most one element grows by at most one.
LEMMA AtMostOneMore ==
    ASSUME NEW S, NEW T, NEW x, IsFiniteSet(S), T \subseteq S \cup {x}
    PROVE  Cardinality(T) <= Cardinality(S) + 1
  <1>1. /\ IsFiniteSet(S \cup {x})
        /\ Cardinality(S \cup {x}) = IF x \in S THEN Cardinality(S) ELSE Cardinality(S) + 1
    BY FS_AddElement
  <1>2. T \in SUBSET (S \cup {x})
    OBVIOUS
  <1>3. IsFiniteSet(T) /\ Cardinality(T) <= Cardinality(S \cup {x})
    BY <1>1, <1>2, FS_Subset
  <1>4. Cardinality(S) \in Nat /\ Cardinality(T) \in Nat
    BY <1>3, FS_CardinalityType
  <1> QED BY <1>1, <1>3, <1>4

----------------------------------------------------------------------------
(* The types.                                                              *)

\* Disturbed changes `clean` alone.
LEMMA DisturbedTyped ==
    ASSUME NEW q \in [Press -> AnyPress]
    PROVE  /\ Disturbed(q) \in [Press -> AnyPress]
           /\ \A p \in Press :
                 IF q[p] = Idle
                 THEN Disturbed(q)[p] = Idle
                 ELSE /\ Disturbed(q)[p] # Idle /\ ~Disturbed(q)[p].clean
                      /\ Disturbed(q)[p].kind = q[p].kind
                      /\ Disturbed(q)[p].row = q[p].row
  <1>1. ASSUME NEW p \in Press
        PROVE  /\ Disturbed(q)[p] \in AnyPress
               /\ IF q[p] = Idle
                  THEN Disturbed(q)[p] = Idle
                  ELSE /\ Disturbed(q)[p] # Idle /\ ~Disturbed(q)[p].clean
                       /\ Disturbed(q)[p].kind = q[p].kind
                       /\ Disturbed(q)[p].row = q[p].row
    <2>1. CASE q[p] = Idle
      BY <2>1 DEF Disturbed, AnyPress
    <2>2. CASE q[p] # Idle /\ q[p] \in ApplyPress
      <3>1. Disturbed(q)[p] = [q[p] EXCEPT !.clean = FALSE]
        BY <2>2 DEF Disturbed
      <3>2. /\ Disturbed(q)[p] \in ApplyPress /\ ~Disturbed(q)[p].clean
            /\ Disturbed(q)[p].kind = q[p].kind /\ Disturbed(q)[p].row = q[p].row
        BY <2>2, <3>1 DEF ApplyPress
      <3> QED BY <2>2, <3>2, Distinct DEF AnyPress
    <2>3. CASE q[p] # Idle /\ q[p] \in DismissPress
      <3>1. Disturbed(q)[p] = [q[p] EXCEPT !.clean = FALSE]
        BY <2>3 DEF Disturbed
      <3>2. /\ Disturbed(q)[p] \in DismissPress /\ ~Disturbed(q)[p].clean
            /\ Disturbed(q)[p].kind = q[p].kind /\ Disturbed(q)[p].row = q[p].row
        BY <2>3, <3>1 DEF DismissPress
      <3> QED BY <2>3, <3>2, Distinct DEF AnyPress
    <2> QED BY <2>1, <2>2, <2>3 DEF AnyPress
  <1>2. Disturbed(q) = [p \in Press |-> Disturbed(q)[p]]
    BY DEF Disturbed
  <1> QED BY <1>1, <1>2

\* Every open request names the row of a key.
LEMMA PressRows ==
    ASSUME NEW q \in [Press -> AnyPress]
    PROVE  \A p \in Press : q[p] = Idle \/ q[p].row \in Key
  BY DEF AnyPress, ApplyPress, DismissPress

\* The request that is written is gone, and every other one is disturbed.
LEMMA Written ==
    ASSUME NEW q \in [Press -> AnyPress], NEW p \in Press
    PROVE  /\ [Disturbed(q) EXCEPT ![p] = Idle] \in [Press -> AnyPress]
           /\ \A o \in Press : LET w == [Disturbed(q) EXCEPT ![p] = Idle][o]
                              IN w # Idle => ~w.clean /\ q[o] # Idle /\ w.row = q[o].row
  BY DisturbedTyped DEF AnyPress

\* An edit keeps a sequence of rounds, and puts a key in one more place at most.
LEMMA Edited ==
    ASSUME held \in Seq(HeldRound), EditConcert
    PROVE  /\ held' \in Seq(HeldRound)
           /\ \A k \in Key : Cardinality(Places(held', k)) <= Cardinality(Places(held, k)) + 1
  <1>1. DOMAIN held = 1..Len(held) /\ Len(held) \in Nat
    BY LenProperties
  <1>2. ASSUME NEW i \in DOMAIN held, NEW r \in HeldRound, held' = [held EXCEPT ![i] = r]
        PROVE  /\ held' \in Seq(HeldRound)
               /\ \A k \in Key : Cardinality(Places(held', k)) <= Cardinality(Places(held, k)) + 1
    <2>1. held' \in Seq(HeldRound)
      BY <1>1, <1>2, ExceptSeq
    <2>2. \A k \in Key : Places(held', k) \subseteq Places(held, k) \cup {i}
      BY <1>2 DEF Places
    <2> QED BY <2>1, <2>2, PlacesFinite, AtMostOneMore
  <1>3. ASSUME NEW r \in HeldRound, held' = Append(held, r)
        PROVE  /\ held' \in Seq(HeldRound)
               /\ \A k \in Key : Cardinality(Places(held', k)) <= Cardinality(Places(held, k)) + 1
    <2>1. /\ held' \in Seq(HeldRound) /\ Len(held') = Len(held) + 1
          /\ \A i \in 1..Len(held) : held'[i] = held[i]
      BY <1>3, AppendProperties
    <2>2. DOMAIN held' = 1..Len(held')
      BY <2>1, LenProperties
    <2>3. \A k \in Key : Places(held', k) \subseteq Places(held, k) \cup {Len(held) + 1}
      BY <1>1, <2>1, <2>2 DEF Places
    <2> QED BY <2>1, <2>3, PlacesFinite, AtMostOneMore
  <1>4. ASSUME NEW i \in DOMAIN held,
               held' = SubSeq(held, 1, i - 1) \o SubSeq(held, i + 1, Len(held))
        PROVE  /\ held' \in Seq(HeldRound)
               /\ \A k \in Key : Cardinality(Places(held', k)) <= Cardinality(Places(held, k)) + 1
    <2>1. /\ held' \in Seq(HeldRound)
          /\ DOMAIN held' = 1..(Len(held) - 1)
          /\ \A j \in 1..(Len(held) - 1) : held'[j] = held[IF j < i THEN j ELSE j + 1]
      BY <1>1, <1>4, Removed
    <2>2. ASSUME NEW k \in Key
          PROVE  Cardinality(Places(held', k)) <= Cardinality(Places(held, k)) + 1
      <3> DEFINE f == [j \in Places(held', k) |-> IF j < i THEN j ELSE j + 1]
      <3>1. f \in Injection(Places(held', k), Places(held, k))
        <4>1. \A j \in Places(held', k) : j \in 1..(Len(held) - 1) /\ held'[j].key = k
          BY <2>1 DEF Places
        <4>2. \A j \in Places(held', k) : f[j] \in Places(held, k)
          BY <1>1, <2>1, <4>1 DEF Places
        <4>3. \A j, h \in Places(held', k) : f[j] = f[h] => j = h
          BY <1>1, <4>1
        <4> QED BY <4>2, <4>3 DEF Injection, IsInjective
      <3>2. Cardinality(Places(held', k)) <= Cardinality(Places(held, k))
        BY <3>1, PlacesFinite, FS_Injection
      <3> QED BY <2>1, <3>2, PlacesFinite
    <2> QED BY <2>1, <2>2
  <1>5. ASSUME held' = held
        PROVE  /\ held' \in Seq(HeldRound)
               /\ \A k \in Key : Cardinality(Places(held', k)) <= Cardinality(Places(held, k)) + 1
    BY <1>5, PlacesFinite
  <1> QED BY <1>2, <1>3, <1>4, <1>5 DEF EditConcert

\* The steps are many; these are the ones that write the rounds, the
\* proposals or the requests.
Reviewing(p) ==
    \/ \E k, j \in Key, ends \in EndTime : LoadApply(p, k, j, ends)
    \/ \E k \in Key : LoadDismiss(p, k)
    \/ WriteApply(p) \/ WriteDismiss(p)

LEMMA Cases ==
    ASSUME Next
    PROVE  \/ /\ Scan \/ Reconcile \/ ReconcileFails \/ MarkChecked \/ Wait \/ PollFails
              /\ UNCHANGED <<live, held, prop, press, news, asked, races>>
           \/ \E reply \in Reply : Poll(reply)
           \/ EditConcert
           \/ \E p \in Press : Reviewing(p)
  BY DEF Next, Step, Pass, Review, Reviewing, Scan, Reconcile, ReconcileFails, MarkChecked, Wait,
         PollFails, concert, poll, spell, bounds

\* What a run stores keeps every row a row.
LEMMA UpsertedTyped ==
    ASSUME Typed, NEW reply \in Reply, NEW k \in Key
    PROVE  /\ Upserted(k, Reads(reply)) \in Row \cup {NoRow}
           /\ prop[k] # NoRow => Upserted(k, Reads(reply)) # NoRow
           /\ (Upserted(k, Reads(reply)) = NoRow) =
                 (prop[k] = NoRow /\ k \notin Created(Reads(reply)))
           /\ prop[k] # NoRow => Upserted(k, Reads(reply)).dismissed = prop[k].dismissed
           /\ prop[k] # NoRow /\ prop[k].dismissed => Upserted(k, Reads(reply)) = prop[k]
  <1> DEFINE stored == Reads(reply)
  <1>1. stored \subseteq HeldRound
    <2>1. \A i \in DOMAIN reply : reply[i] \in HeldRound
      BY DEF Reply
    <2> QED BY <2>1 DEF Reads, Candidates, Classified, FirstIn
  <1>2. \A f \in stored : prop[f.key] = NoRow \/ ~prop[f.key].dismissed
    BY DEF Reads, Candidates
  <1>3. prop[k] \in Row \cup {NoRow}
    BY DEF Typed, TypeOK
  <1> HIDE DEF stored
  <1>4. CASE ~\E f \in stored : f.key = k
    BY <1>3, <1>4 DEF Upserted, Created, stored
  <1>5. CASE \E f \in stored : f.key = k
    <2> DEFINE f == CHOOSE g \in stored : g.key = k
    <2>1. f \in stored /\ f.key = k
      BY <1>5
    <2>2. f.ends \in EndTime
      BY <1>1, <2>1 DEF HeldRound
    <2>3. Upserted(k, stored) =
             IF prop[k] = NoRow THEN [ends |-> f.ends, applied |-> FALSE, dismissed |-> FALSE]
                                ELSE [prop[k] EXCEPT !.ends = f.ends]
      BY <1>5 DEF Upserted
    <2>4. prop[k] = NoRow \/ ~prop[k].dismissed
      BY <1>2, <2>1
    <2> HIDE DEF f
    <2>5. prop[k] = NoRow => k \in Created(stored)
      BY <2>1 DEF Created
    <2>6. CASE prop[k] = NoRow
      <3>1. Upserted(k, stored) \in Row
        BY <2>2, <2>3, <2>6 DEF Row
      <3> QED BY <2>5, <2>6, <3>1, Distinct DEF stored
    <2>7. CASE prop[k] # NoRow
      <3>1. Upserted(k, stored) \in Row /\ Upserted(k, stored).dismissed = prop[k].dismissed
        BY <1>3, <2>2, <2>3, <2>7 DEF Row
      <3> QED BY <2>4, <2>7, <3>1, Distinct DEF stored
    <2> QED BY <2>6, <2>7
  <1> QED BY <1>4, <1>5

\* What the page says of a key counts once: a reply has one first reading of
\* it that is new or changed.
LEMMA OneReading ==
    ASSUME NEW reply \in Reply, NEW f \in Classified(reply), NEW g \in Classified(reply),
           f.key = g.key
    PROVE  f = g
  <1>1. PICK n \in Nat : reply \in [1..n -> HeldRound]
    BY WatchAssumption DEF Reply
  <1> DEFINE First(x, i, bucket) ==
          /\ i \in 1..n /\ x = reply[i] /\ Verdict(x.key, x.ends) = bucket
          /\ \A h \in 1..(i - 1) : reply[h].key = x.key =>
                 Verdict(reply[h].key, reply[h].ends) # bucket
  <1>2. ASSUME NEW x \in Classified(reply)
        PROVE  \E i, bucket : First(x, i, bucket) /\ bucket \in {"new", "changed"}
    BY <1>1 DEF Classified, FirstIn
  <1>3. PICK i, bi : First(f, i, bi) /\ bi \in {"new", "changed"}
    BY <1>2
  <1>4. PICK j, bj : First(g, j, bj) /\ bj \in {"new", "changed"}
    BY <1>2
  <1>5. bi = bj
    BY <1>3, <1>4 DEF Verdict
  <1>6. ~(i < j) /\ ~(j < i) /\ i \in Int /\ j \in Int
    <2>1. ASSUME i < j PROVE FALSE
      <3>1. i \in 1..(j - 1)
        BY <1>1, <1>3, <1>4, <2>1
      <3> QED BY <1>3, <1>4, <1>5, <3>1
    <2>2. ASSUME j < i PROVE FALSE
      <3>1. j \in 1..(i - 1)
        BY <1>1, <1>3, <1>4, <2>2
      <3> QED BY <1>3, <1>4, <1>5, <3>1
    <2> QED BY <1>3, <1>4, <2>1, <2>2
  <1>7. i = j
    BY ONLY <1>6
  <1> QED BY <1>3, <1>4, <1>7

\* The readings of a reply are rounds, and what it leaves unanswered is a date.
LEMMA HeardTyped ==
    ASSUME Typed, NEW reply \in Reply
    PROVE  /\ Classified(reply) \subseteq HeldRound
           /\ \A k \in Key : Heard(k, reply) \in SUBSET EndTime
  <1>1. Classified(reply) \subseteq HeldRound
    <2>1. \A i \in DOMAIN reply : reply[i] \in HeldRound
      BY DEF Reply
    <2> QED BY <2>1 DEF Classified, FirstIn
  <1>2. \A f \in Classified(reply) : f.ends \in EndTime
    BY <1>1 DEF HeldRound
  <1>3. \A k \in Key : asked[k] \in SUBSET EndTime
    BY DEF Typed, TypeOK
  <1> QED BY <1>1, <1>2, <1>3 DEF Heard

\* The kind of a request tells what it carries.
LEMMA KindsApart ==
    ASSUME NEW x \in AnyPress
    PROVE  /\ x.kind = "apply" => x \in ApplyPress
           /\ x.kind = "dismiss" => x \in DismissPress
  <1>1. x = Idle => x.kind = "idle"
    BY DEF Idle
  <1>2. x \in ApplyPress => x.kind = "apply"
    BY DEF ApplyPress
  <1>3. x \in DismissPress => x.kind = "dismiss"
    BY DEF DismissPress
  <1>4. x = Idle \/ x \in ApplyPress \/ x \in DismissPress
    BY DEF AnyPress
  <1> QED BY <1>1, <1>2, <1>3, <1>4

\* A request that was open holds a row, and its write keeps the rows typed.
LEMMA ReviewingTyped ==
    ASSUME Typed, PressInv, NEW p \in Press, Reviewing(p)
    PROVE  /\ held' \in Seq(HeldRound)
           /\ prop' \in [Key -> Row \cup {NoRow}]
           /\ press' \in [Press -> AnyPress]
           /\ races' \in Nat
           /\ \A k \in Key : (prop'[k] = NoRow) = (prop[k] = NoRow)
  <1> USE DEF Typed, TypeOK
  <1>1. ASSUME NEW k \in Key, NEW j \in Key, NEW ends \in EndTime, LoadApply(p, k, j, ends)
        PROVE  press' \in [Press -> AnyPress] /\ UNCHANGED <<held, prop, races>>
    <2>1. [kind |-> "apply", row |-> k, key |-> j, ends |-> ends, clean |-> TRUE] \in AnyPress
      BY DEF AnyPress, ApplyPress
    <2> QED BY <1>1, <2>1 DEF LoadApply, concert
  <1>2. ASSUME NEW k \in Key, LoadDismiss(p, k)
        PROVE  press' \in [Press -> AnyPress] /\ UNCHANGED <<held, prop, races>>
    <2>1. [kind |-> "dismiss", row |-> k, clean |-> TRUE] \in AnyPress
      BY DEF AnyPress, DismissPress
    <2> QED BY <1>2, <2>1 DEF LoadDismiss, concert
  <1>3. CASE WriteApply(p)
    <2>1. press[p] \in ApplyPress
      <3>1. press[p] \in AnyPress
        OBVIOUS
      <3>2. press[p].kind = "apply"
        BY <1>3 DEF WriteApply
      <3> QED BY ONLY <3>1, <3>2, KindsApart
    <2>2. press[p].row \in Key /\ prop[press[p].row] \in Row /\ press[p] # Idle
      BY <2>1, Distinct DEF PressInv, ApplyPress
    <2>3. [key |-> press[p].key, ends |-> press[p].ends] \in HeldRound
      BY <2>1 DEF ApplyPress, HeldRound
    <2>4. held' \in Seq(HeldRound)
      BY <1>3, <2>3, AppendProperties DEF WriteApply
    <2>5. [prop[press[p].row] EXCEPT !.applied = TRUE] \in Row
      BY <2>2 DEF Row
    <2>6. /\ prop' \in [Key -> Row \cup {NoRow}]
          /\ \A k \in Key : (prop'[k] = NoRow) = (prop[k] = NoRow)
      <3>1. prop' = [prop EXCEPT ![press[p].row] = [prop[press[p].row] EXCEPT !.applied = TRUE]]
        BY <1>3 DEF WriteApply, MarkProposalApplied
      <3>2. prop \in [Key -> Row \cup {NoRow}]
        OBVIOUS
      <3>3. NoRow \notin Row
        BY Distinct
      <3> QED BY ONLY <3>1, <3>2, <3>3, <2>2, <2>5
    <2>7. press' \in [Press -> AnyPress]
      BY <1>3, Written DEF WriteApply
    <2>8. races' \in Nat
      BY <1>3 DEF WriteApply
    <2> QED BY <2>4, <2>6, <2>7, <2>8
  <1>4. CASE WriteDismiss(p)
    <2>1. press[p] \in DismissPress
      <3>1. press[p] \in AnyPress
        OBVIOUS
      <3>2. press[p].kind = "dismiss"
        BY <1>4 DEF WriteDismiss
      <3> QED BY ONLY <3>1, <3>2, KindsApart
    <2>2. press[p].row \in Key /\ prop[press[p].row] \in Row /\ press[p] # Idle
      BY <2>1, Distinct DEF PressInv, DismissPress
    <2>3. [prop[press[p].row] EXCEPT !.dismissed = TRUE] \in Row
      BY <2>2 DEF Row
    <2>4. /\ prop' \in [Key -> Row \cup {NoRow}]
          /\ \A k \in Key : (prop'[k] = NoRow) = (prop[k] = NoRow)
      <3>1. prop' = [prop EXCEPT ![press[p].row] = [prop[press[p].row] EXCEPT !.dismissed = TRUE]]
        BY <1>4 DEF WriteDismiss, MarkProposalDismissed
      <3>2. prop \in [Key -> Row \cup {NoRow}]
        OBVIOUS
      <3>3. NoRow \notin Row
        BY Distinct
      <3> QED BY ONLY <3>1, <3>2, <3>3, <2>2, <2>3
    <2>5. press' \in [Press -> AnyPress]
      BY <1>4, Written DEF WriteDismiss
    <2> QED BY <1>4, <2>4, <2>5 DEF WriteDismiss, concert
  <1> QED BY <1>1, <1>2, <1>3, <1>4 DEF Reviewing

----------------------------------------------------------------------------
(* The invariant.                                                          *)

LEMMA InitInv ==
    ASSUME Init
    PROVE  WatchInv
  <1> USE DEF Init
  <1>1. Typed
    <2>1. /\ held \in Seq(HeldRound)
          /\ prop \in [Key -> Row \cup {NoRow}]
          /\ press \in [Press -> AnyPress]
          /\ news \in [Key -> Nat] /\ asked \in [Key -> SUBSET EndTime]
      BY WatchAssumption DEF AnyPress
    <2>2. \A p \in Press : press[p] = Idle \/ press[p].row \in Key
      OBVIOUS
    <2>3. now \in Nat /\ live \in BOOLEAN /\ {stamped, checked, polled, left} \subseteq BOOLEAN
      OBVIOUS
    <2>4. {notices, races, edits, hiccups} \subseteq Nat /\ scan = NoScan
      OBVIOUS
    <2> HIDE DEF Init
    <2> QED BY <2>1, <2>2, <2>3, <2>4 DEF Typed, TypeOK
  <1>2. LadderInv /\ PressInv /\ ReadingsWait
    BY DEF LadderInv, PressInv, ReadingsWait
  <1>3. HandledOnce
    <2>1. ASSUME NEW k \in Key
          PROVE  Copies(k) <= 1
      <3>1. held \in Seq(HeldRound) /\ DOMAIN held = {1}
        BY WatchAssumption
      <3>2. IsFiniteSet({1}) /\ Cardinality({1}) = 1
        BY FS_Singleton
      <3>3. {i \in DOMAIN held : held[i].key = k} \in SUBSET {1}
        BY <3>1
      <3>4. Cardinality({i \in DOMAIN held : held[i].key = k}) <= 1
        BY <3>2, <3>3, FS_Subset
      <3> QED BY <3>4 DEF Copies
    <2> QED BY <2>1 DEF HandledOnce
  <1> QED BY <1>1, <1>2, <1>3 DEF WatchInv

LEMMA TypedInv ==
    ASSUME Typed, PressInv, [Next]_vars
    PROVE  Typed'
  <1> USE DEF Typed, TypeOK
  <1>1. CASE UNCHANGED vars
    BY <1>1 DEF vars
  <1>2. CASE Next
    <2>1. left' \in BOOLEAN
      BY <1>2 DEF Next, Watched, Quiet
    <2>2. Quiet \in BOOLEAN
      BY DEF Quiet
    <2>3. CASE /\ Scan \/ Reconcile \/ ReconcileFails \/ MarkChecked \/ Wait \/ PollFails
               /\ UNCHANGED <<live, held, prop, press, news, asked, races>>
      <3>1. CASE Scan
        BY <2>1, <2>2, <2>3, <3>1 DEF Scan, spell, poll, bounds
      <3>2. CASE Reconcile
        BY <2>1, <2>3, <3>2 DEF Reconcile, Quieted, Ended, poll, bounds
      <3>3. CASE ReconcileFails
        BY <2>1, <2>3, <3>3 DEF ReconcileFails, Hiccup, spell, poll
      <3>4. CASE MarkChecked
        BY <2>1, <2>3, <3>4 DEF MarkChecked, poll
      <3>5. CASE Wait
        <4>1. now' \in Nat
          <5> HIDE DEF Typed
          <5>1. now \in Nat
            BY DEF Typed
          <5> HIDE DEF TypeOK
          <5> QED BY <3>5, <5>1 DEF Wait
        <4>2. polled' \in BOOLEAN
          BY <3>5 DEF Wait
        <4>3. UNCHANGED <<stamped, checked, notices, scan, edits, hiccups>>
          BY <3>5 DEF Wait, spell, bounds
        <4> QED BY <2>1, <2>3, <4>1, <4>2, <4>3
      <3>6. CASE PollFails
        BY <2>1, <2>3, <3>6 DEF PollFails, Hiccup, spell
      <3> QED BY <2>3, <3>1, <3>2, <3>3, <3>4, <3>5, <3>6
    <2>4. ASSUME NEW reply \in Reply, Poll(reply)
          PROVE  Typed'
      <3>1. prop' \in [Key -> Row \cup {NoRow}]
        BY <2>4, UpsertedTyped DEF Poll
      <3>2. news' \in [Key -> Nat]
        BY <2>4 DEF Poll
      <3>3. asked' \in [Key -> SUBSET EndTime]
        BY <2>4, HeardTyped DEF Poll
      <3> QED BY <2>1, <2>4, <3>1, <3>2, <3>3 DEF Poll, concert, spell, bounds
    <2>5. CASE EditConcert
      <3>1. held' \in Seq(HeldRound)
        BY <2>5, Edited
      <3>2. press' \in [Press -> AnyPress]
        BY <2>5, DisturbedTyped DEF EditConcert
      <3>3. live' \in BOOLEAN /\ edits' \in Nat
        <4>1. live \in BOOLEAN /\ edits \in Nat
          OBVIOUS
        <4> HIDE DEF Typed, TypeOK
        <4>2. edits' \in Nat
          BY <2>5, <4>1 DEF EditConcert
        <4>3. live' \in IF held' = held THEN {~live} ELSE {live}
          BY <2>5 DEF EditConcert
        <4> QED BY <4>1, <4>2, <4>3
      <3>4. UNCHANGED <<now, prop, stamped, checked, notices, scan, polled, news, asked, races,
                        hiccups>>
        BY <2>5 DEF EditConcert, spell, poll
      <3> QED BY <2>1, <3>1, <3>2, <3>3, <3>4, PressRows
    <2>6. ASSUME NEW p \in Press, Reviewing(p)
          PROVE  Typed'
      <3>1. /\ held' \in Seq(HeldRound) /\ prop' \in [Key -> Row \cup {NoRow}]
            /\ press' \in [Press -> AnyPress] /\ races' \in Nat
        BY <2>6, ReviewingTyped
      <3>2. UNCHANGED <<now, live, stamped, checked, polled, scan, news, notices, edits, hiccups>>
        BY <2>6 DEF Reviewing, LoadApply, LoadDismiss, WriteApply, WriteDismiss, concert, spell,
                    poll, bounds
      <3>3. asked' \in [Key -> SUBSET EndTime]
        BY <2>6 DEF Reviewing, LoadApply, LoadDismiss, WriteApply, WriteDismiss, Answered, poll
      <3> QED BY <2>1, <3>1, <3>2, <3>3, PressRows
    <2> QED BY <1>2, <2>3, <2>4, <2>5, <2>6, Cases
  <1> QED BY <1>1, <1>2

\* The stamp and the watch for a time the ladder was not quiet.
LEMMA LadderStep ==
    ASSUME Typed, LadderInv, [Next]_vars
    PROVE  LadderInv' /\ (notices' > notices => left)
  <1> USE DEF Typed, TypeOK, LadderInv
  <1>1. CASE UNCHANGED vars
    BY <1>1 DEF vars
  <1>2. ASSUME Next, UNCHANGED <<stamped, scan, notices>>
        PROVE  LadderInv' /\ (notices' > notices => left)
    BY <1>2 DEF Next, Watched
  <1>3. CASE Next /\ Scan
    <2>1. Quiet' = Quiet
      BY <1>3 DEF Scan, Quiet, concert
    <2> QED BY <1>3, <2>1, Distinct DEF Next, Watched, Scan, spell
  <1>4. CASE Next /\ Reconcile
    BY <1>4, Distinct DEF Next, Watched, Reconcile, Quieted, Ended
  <1>5. CASE Next /\ ReconcileFails
    BY <1>5 DEF Next, Watched, ReconcileFails, spell
  <1>6. CASE Next /\ ~Scan /\ ~Reconcile /\ ~ReconcileFails
    <2>1. UNCHANGED <<stamped, scan, notices>>
      BY <1>6 DEF Next, Step, Pass, Poll, PollFails, MarkChecked, Review, LoadApply, WriteApply,
                  LoadDismiss, WriteDismiss, EditConcert, Wait, spell
    <2> QED BY <1>2, <1>6, <2>1
  <1> QED BY <1>1, <1>3, <1>4, <1>5, <1>6

\* A run rewrites no dismissed row and deletes none.
LEMMA PollKeeps ==
    ASSUME Typed, NEW reply \in Reply, Poll(reply)
    PROVE  \A k \in Key : prop[k] # NoRow =>
              /\ prop'[k] # NoRow /\ prop'[k].dismissed = prop[k].dismissed
              /\ prop[k].dismissed => prop'[k] = prop[k]
  <1>1. \A k \in Key : prop'[k] = Upserted(k, Reads(reply))
    BY DEF Poll
  <1> QED BY <1>1, UpsertedTyped

\* Whoever commits disturbs every open request; a new one has just been checked.
LEMMA PressStep ==
    ASSUME Typed, PressInv, [Next]_vars
    PROVE  PressInv'
  <1> USE DEF PressInv
  <1>0. prop \in [Key -> Row \cup {NoRow}] /\ press \in [Press -> AnyPress] /\ held \in Seq(HeldRound)
    BY DEF Typed, TypeOK
  <1>1. CASE UNCHANGED <<held, prop, press>>
    BY <1>1 DEF Places
  <1>2. ASSUME NEW reply \in Reply, Poll(reply)
        PROVE  PressInv'
    <2>1. UNCHANGED <<held, press>>
      BY <1>2 DEF Poll, concert
    <2>2. \A p \in Press : press[p] # Idle => press[p].row \in Key
      BY <1>0, PressRows
    <2> QED BY <1>2, <2>1, <2>2, PollKeeps DEF Places
  <1>3. CASE EditConcert
    <2>1. prop' = prop /\ press' = Disturbed(press)
      BY <1>3 DEF EditConcert
    <2> QED BY <1>0, <2>1, DisturbedTyped
  <1>4. ASSUME NEW p \in Press, Reviewing(p)
        PROVE  PressInv'
    <2>1. ASSUME NEW k \in Key, NEW j \in Key, NEW ends \in EndTime, LoadApply(p, k, j, ends)
          PROVE  PressInv'
      <3>1. UNCHANGED <<held, prop>> /\ prop[k] # NoRow /\ ~prop[k].dismissed /\ HeldBy(j) = Nothing
        BY <2>1 DEF LoadApply, concert, Pending
      <3>2. Places(held, j) = {}
        BY <1>0, <3>1, HeldByFinds, Distinct
      <3>3. /\ press'[p].row = k /\ press'[p].key = j
            /\ \A o \in Press : o # p => press'[o] = press[o]
        BY <1>0, <2>1 DEF LoadApply
      <3> QED BY <3>1, <3>2, <3>3 DEF Places
    <2>2. ASSUME NEW k \in Key, LoadDismiss(p, k)
          PROVE  PressInv'
      <3>1. UNCHANGED <<held, prop>> /\ prop[k] # NoRow
        BY <2>2 DEF LoadDismiss, concert, Pending
      <3>2. /\ press'[p].row = k /\ press'[p].kind = "dismiss"
            /\ \A o \in Press : o # p => press'[o] = press[o]
        BY <1>0, <2>2 DEF LoadDismiss
      <3> QED BY <3>1, <3>2 DEF Places
    <2>3. CASE WriteApply(p) \/ WriteDismiss(p)
      <3>1. press' = [Disturbed(press) EXCEPT ![p] = Idle]
        BY <2>3 DEF WriteApply, WriteDismiss
      <3>2. \A o \in Press : press'[o] # Idle =>
                ~press'[o].clean /\ press[o] # Idle /\ press'[o].row = press[o].row
        BY <1>0, <3>1, Written
      <3>3. \A k \in Key : (prop'[k] = NoRow) = (prop[k] = NoRow)
        BY <1>4, ReviewingTyped
      <3>4. \A o \in Press : press[o] # Idle => press[o].row \in Key
        BY <1>0, PressRows
      <3> QED BY <3>2, <3>3, <3>4
    <2> QED BY <1>4, <2>1, <2>2, <2>3 DEF Reviewing
  <1> QED BY <1>1, <1>2, <1>3, <1>4, Cases DEF vars

\* A digest entry comes with the row; a copy of a round costs a race or an edit.
LEMMA HandledStep ==
    ASSUME Typed, PressInv, HandledOnce, [Next]_vars
    PROVE  HandledOnce'
  <1>0. /\ prop \in [Key -> Row \cup {NoRow}] /\ press \in [Press -> AnyPress]
        /\ held \in Seq(HeldRound) /\ news \in [Key -> Nat] /\ races \in Nat /\ edits \in Nat
    BY DEF Typed, TypeOK
  <1>a. \A k \in Key : Copies(k) = Cardinality(Places(held, k)) /\ Copies(k) \in Nat
    BY <1>0, PlacesFinite DEF Copies, Places
  <1>b. \A k \in Key : Copies(k)' = Cardinality(Places(held', k))
    BY DEF Copies, Places
  <1>c. ASSUME UNCHANGED held, races' \in Nat, edits' \in Nat, races' >= races, edits' >= edits
        PROVE  \A k \in Key : Copies(k)' <= 1 + races' + edits'
    <2>1. \A k \in Key : Copies(k)' = Copies(k)
      BY <1>c, <1>a, <1>b
    <2> QED BY <1>0, <1>c, <1>a, <2>1 DEF HandledOnce
  <1>1. CASE UNCHANGED <<held, prop, news, races>> /\ edits' \in Nat /\ edits' >= edits
    BY <1>0, <1>1, <1>c DEF HandledOnce
  <1>2. ASSUME NEW reply \in Reply, Poll(reply)
        PROVE  HandledOnce'
    <2>1. UNCHANGED <<held, races, edits>>
      BY <1>2 DEF Poll, concert, bounds
    <2>2. ASSUME NEW k \in Key
          PROVE  news'[k] = IF prop'[k] = NoRow THEN 0 ELSE 1
      <3>1. /\ prop'[k] = Upserted(k, Reads(reply))
            /\ news'[k] = news[k] + (IF k \in Created(Reads(reply)) THEN 1 ELSE 0)
        BY <1>2 DEF Poll
      <3>2. k \in Created(Reads(reply)) => prop[k] = NoRow
        BY DEF Created
      <3>3. news[k] = IF prop[k] = NoRow THEN 0 ELSE 1
        BY DEF HandledOnce
      <3> QED BY <3>1, <3>2, <3>3, UpsertedTyped
    <2> QED BY <1>0, <1>c, <2>1, <2>2 DEF HandledOnce
  <1>3. CASE EditConcert
    <2>1. UNCHANGED <<prop, news, races>> /\ edits' = edits + 1
      BY <1>3 DEF EditConcert, poll
    <2>2. \A k \in Key : Cardinality(Places(held', k)) <= Cardinality(Places(held, k)) + 1
      BY <1>0, <1>3, Edited
    <2>3. held' \in Seq(HeldRound)
      BY <1>0, <1>3, Edited
    <2>4. \A k \in Key : Cardinality(Places(held', k)) \in Nat
      BY <2>3, PlacesFinite
    <2>5. \A k \in Key : Copies(k)' <= 1 + races' + edits'
      BY <1>0, <1>a, <1>b, <2>1, <2>2, <2>4 DEF HandledOnce
    <2> QED BY <2>1, <2>5 DEF HandledOnce
  <1>4. ASSUME NEW p \in Press, Reviewing(p)
        PROVE  HandledOnce'
    <2>1. UNCHANGED <<news, edits>> /\ \A k \in Key : (prop'[k] = NoRow) = (prop[k] = NoRow)
      BY <1>4, ReviewingTyped DEF Reviewing, LoadApply, LoadDismiss, WriteApply, WriteDismiss,
                                  poll, bounds
    <2>2. \A k \in Key : news'[k] = IF prop'[k] = NoRow THEN 0 ELSE 1
      BY <2>1 DEF HandledOnce
    <2>3. CASE UNCHANGED <<held, races>>
      BY <1>0, <1>c, <2>1, <2>2, <2>3 DEF HandledOnce
    <2>4. CASE WriteApply(p)
      <3> DEFINE r == [key |-> press[p].key, ends |-> press[p].ends]
      <3>1. press[p] \in ApplyPress
        BY <1>0, <2>4, KindsApart DEF WriteApply
      <3>2. r \in HeldRound /\ held' = Append(held, r) /\ press[p] # Idle /\ press[p].kind = "apply"
        BY <2>4, <3>1, Distinct DEF WriteApply, ApplyPress, HeldRound
      <3>3. races' = races + (IF press[p].clean THEN 0 ELSE 1)
        BY <2>4 DEF WriteApply
      <3>4. press[p].clean => Places(held, press[p].key) = {}
        BY <3>2 DEF PressInv
      <3>5. ASSUME NEW k \in Key
            PROVE  Copies(k)' <= 1 + races' + edits'
        <4> DEFINE n == Len(held) + 1
        <4>1. /\ held' \in Seq(HeldRound) /\ Len(held') = n
              /\ \A i \in 1..Len(held) : held'[i] = held[i]
              /\ held'[n] = r
          BY <1>0, <3>2, AppendProperties
        <4>2. /\ DOMAIN held' = 1..n /\ DOMAIN held = 1..Len(held) /\ Len(held) \in Nat
          BY <1>0, <4>1, LenProperties
        <4>3. /\ Places(held', k) \subseteq Places(held, k) \cup {n}
              /\ r.key # k => Places(held', k) = Places(held, k)
          BY <4>1, <4>2 DEF Places
        <4>4. Cardinality(Places(held', k)) \in Nat
          BY <4>1, PlacesFinite
        <4>5. Cardinality(Places(held', k)) <= Cardinality(Places(held, k)) + 1
          BY <1>0, <4>3, PlacesFinite, AtMostOneMore
        <4>6. Copies(k) <= 1 + races + edits
          BY DEF HandledOnce
        <4>7. CASE r.key # k
          BY <1>0, <1>a, <1>b, <2>1, <3>1, <3>3, <4>3, <4>6, <4>7 DEF ApplyPress
        <4>8. CASE r.key = k /\ press[p].clean
          <5>1. Cardinality(Places(held, k)) = 0
            BY <3>4, <4>8, FS_EmptySet
          <5> QED BY <1>0, <1>b, <2>1, <3>3, <4>4, <4>5, <4>8, <5>1
        <4>9. CASE r.key = k /\ ~press[p].clean
          <5>1. races' = races + 1
            BY <3>3, <4>9
          <5>2. Copies(k)' <= Copies(k) + 1 /\ Copies(k)' \in Nat /\ Copies(k) \in Nat
            BY <1>a, <1>b, <4>4, <4>5
          <5> QED BY ONLY <1>0, <2>1, <4>6, <5>1, <5>2
        <4> QED BY <4>7, <4>8, <4>9
      <3> QED BY <2>2, <3>5 DEF HandledOnce
    <2>5. WriteApply(p) \/ UNCHANGED <<held, races>>
      BY <1>4 DEF Reviewing, LoadApply, LoadDismiss, WriteDismiss, concert
    <2> QED BY <2>3, <2>4, <2>5
  <1>5. CASE UNCHANGED vars
    BY <1>0, <1>1, <1>5 DEF vars
  <1>6. CASE /\ Scan \/ Reconcile \/ ReconcileFails \/ MarkChecked \/ Wait \/ PollFails
             /\ UNCHANGED <<live, held, prop, press, news, asked, races>>
    <2>1. edits' = edits \/ edits' = edits + 1
      BY <1>6 DEF Scan, Reconcile, ReconcileFails, MarkChecked, Wait, PollFails, Hiccup, bounds
    <2> QED BY <1>0, <1>1, <1>6, <2>1
  <1> QED BY <1>2, <1>3, <1>4, <1>5, <1>6, Cases

\* A run stores under its key what it leaves unanswered; an answer clears it.
LEMMA ReadingStep ==
    ASSUME Typed, PressInv, ReadingsWait, [Next]_vars
    PROVE  ReadingsWait'
  <1>0. /\ prop \in [Key -> Row \cup {NoRow}] /\ press \in [Press -> AnyPress]
        /\ asked \in [Key -> SUBSET EndTime]
    BY DEF Typed, TypeOK
  <1>1. CASE UNCHANGED <<prop, asked>>
    BY <1>1 DEF ReadingsWait
  <1>2. ASSUME NEW reply \in Reply, Poll(reply)
        PROVE  ReadingsWait'
    <2> SUFFICES ASSUME NEW k \in Key, NEW d \in asked'[k]
                 PROVE  prop'[k] # NoRow /\ prop'[k].ends = d /\ ~prop'[k].dismissed
      BY DEF ReadingsWait
    <2> DEFINE stored == Reads(reply)
               heard  == {g \in Classified(reply) : g.key = k}
    <2>1. /\ prop'[k] = Upserted(k, stored) /\ asked'[k] = Heard(k, reply)
          /\ prop[k] \in Row \cup {NoRow}
      BY <1>0, <1>2 DEF Poll
    <2>2. CASE Quiet /\ heard # {} /\ (prop[k] = NoRow \/ ~prop[k].dismissed)
      <3>1. PICK g \in Classified(reply) : g.key = k /\ d = g.ends
        BY <2>1, <2>2 DEF Heard
      <3>2. g \in stored
        BY <2>2, <3>1 DEF Reads, Candidates
      <3>3. stored \subseteq Classified(reply)
        BY DEF Reads, Candidates
      <3>4. \A f \in stored : f.key = k => f = g
        BY <3>1, <3>3, OneReading
      <3> HIDE DEF stored
      <3>5. (CHOOSE f \in stored : f.key = k) = g
        BY <3>1, <3>2, <3>4
      <3>6. prop'[k] = IF prop[k] = NoRow
                       THEN [ends |-> g.ends, applied |-> FALSE, dismissed |-> FALSE]
                       ELSE [prop[k] EXCEPT !.ends = g.ends]
        BY <2>1, <3>1, <3>2, <3>5 DEF Upserted
      <3>7. g.ends \in EndTime
        BY <3>1, HeardTyped DEF HeldRound
      <3>8. prop'[k] \in Row /\ prop'[k].ends = d /\ ~prop'[k].dismissed
        BY <2>1, <2>2, <3>1, <3>6, <3>7 DEF Row
      <3> QED BY <3>8, Distinct
    <2>3. CASE ~(Quiet /\ heard # {} /\ (prop[k] = NoRow \/ ~prop[k].dismissed))
      <3>1. d \in asked[k]
        BY <2>1, <2>3 DEF Heard
      <3>2. prop[k] # NoRow /\ prop[k].ends = d /\ ~prop[k].dismissed
        BY <3>1 DEF ReadingsWait
      <3>3. ~\E f \in stored : f.key = k
        BY <2>3, <3>2 DEF Reads, Candidates
      <3> QED BY <2>1, <3>2, <3>3 DEF Upserted
    <2> QED BY <2>2, <2>3
  <1>3. CASE EditConcert
    BY <1>1, <1>3 DEF EditConcert, poll
  <1>4. ASSUME NEW p \in Press, Reviewing(p)
        PROVE  ReadingsWait'
    <2>1. CASE ~WriteApply(p) /\ ~WriteDismiss(p)
      BY <1>1, <1>4, <2>1 DEF Reviewing, LoadApply, LoadDismiss, poll
    <2>2. CASE WriteApply(p) \/ WriteDismiss(p)
      <3> DEFINE k == press[p].row
      <3>1. press[p] # Idle /\ k \in Key
        BY <1>0, <2>2, KindsApart DEF WriteApply, WriteDismiss, ApplyPress, DismissPress, Idle
      <3>2. asked' = [asked EXCEPT ![k] = {}]
        BY <2>2 DEF WriteApply, WriteDismiss, Answered
      <3>3. \A o \in Key : o # k => prop'[o] = prop[o] /\ asked'[o] = asked[o]
        BY <1>0, <2>2, <3>1, <3>2
        DEF WriteApply, WriteDismiss, MarkProposalApplied, MarkProposalDismissed
      <3>4. asked'[k] = {}
        BY <1>0, <3>1, <3>2
      <3> QED BY <3>3, <3>4 DEF ReadingsWait
    <2> QED BY <2>1, <2>2
  <1>5. CASE UNCHANGED vars
    BY <1>1, <1>5 DEF vars
  <1> QED BY <1>1, <1>2, <1>3, <1>4, <1>5, Cases

----------------------------------------------------------------------------

\* WatchInv is an invariant: types, the watch over the stamp, the requests that
\* nothing has overtaken, the count of digest entries and copies, and the
\* readings nobody answered.
THEOREM WatchInvariant == Spec => []WatchInv
  <1>1. WatchInv /\ [Next]_vars => WatchInv'
    BY TypedInv, LadderStep, PressStep, HandledStep, ReadingStep DEF WatchInv
  <1> QED BY <1>1, InitInv, PTL DEF Spec

\* The rows, the stamps, the open requests and the history keep their domains.
THEOREM WatchTypeCorrect == Spec => []TypeOK
  BY WatchInvariant, PTL DEF WatchInv, Typed

\* A proposal is new in exactly one digest, the one committed with its row, and
\* only a race or an edit makes a second copy of a round, for any page and any
\* number of admins.
THEOREM ProposalsHandledOnce == Spec => []HandledOnce
  BY WatchInvariant, PTL DEF WatchInv

\* Between two notices the ladder was not quiet at some time, whatever was
\* saved between a pass's read and its write.
THEOREM NoticeOncePerSpell == Spec => OneNoticePerSpell
  <1>1. WatchInv /\ [Next]_vars => [notices' > notices => left]_vars
    BY LadderStep DEF WatchInv
  <1> QED BY <1>1, WatchInvariant, PTL DEF Spec, OneNoticePerSpell

\* A dismissed proposal changes only by an approval whose checks preceded the
\* dismissal.
THEOREM DismissedStays == Spec => DismissalSticks
  <1> DEFINE Sticks ==
        \A k \in Key : prop[k] # NoRow /\ prop[k].dismissed =>
          \/ prop'[k] = prop[k]
          \/ /\ prop'[k] = [prop[k] EXCEPT !.applied = TRUE]
             /\ \E p \in Press : press[p].kind = "apply" /\ press[p].row = k
                                  /\ ~press[p].clean
  <1>1. ASSUME WatchInv, [Next]_vars
        PROVE  Sticks
    <2>0. /\ prop \in [Key -> Row \cup {NoRow}] /\ press \in [Press -> AnyPress] /\ PressInv
          /\ Typed
      BY <1>1 DEF WatchInv, Typed, TypeOK
    <2>1. CASE UNCHANGED prop
      BY <2>1
    <2>2. ASSUME NEW reply \in Reply, Poll(reply)
          PROVE  Sticks
      BY <2>0, <2>2, PollKeeps
    <2>3. ASSUME NEW p \in Press, WriteApply(p)
          PROVE  Sticks
      <3>1. press[p] \in ApplyPress
        BY <2>0, <2>3 DEF WriteApply, AnyPress, Idle, DismissPress
      <3>2. /\ press[p].kind = "apply" /\ press[p] # Idle
            /\ prop' = [prop EXCEPT ![press[p].row].applied = TRUE]
        BY <2>3, <3>1, Distinct DEF WriteApply, MarkProposalApplied
      <3>3. prop[press[p].row].dismissed => ~press[p].clean
        BY <2>0, <3>2 DEF PressInv
      <3>4. \A k \in Key : prop'[k] = IF k = press[p].row
                                      THEN [prop[k] EXCEPT !.applied = TRUE] ELSE prop[k]
        BY <2>0, <3>2
      <3> QED BY <3>2, <3>3, <3>4
    <2>4. ASSUME NEW p \in Press, WriteDismiss(p)
          PROVE  Sticks
      <3>1. \A k \in Key : prop'[k] = IF k = press[p].row
                                      THEN [prop[k] EXCEPT !.dismissed = TRUE] ELSE prop[k]
        BY <2>0, <2>4 DEF WriteDismiss, MarkProposalDismissed
      <3>2. \A k \in Key : prop[k] # NoRow /\ prop[k].dismissed =>
                               [prop[k] EXCEPT !.dismissed = TRUE] = prop[k]
        BY <2>0 DEF Row
      <3> QED BY <3>1, <3>2
    <2>5. CASE EditConcert
      BY <2>1, <2>5 DEF EditConcert
    <2>6. ASSUME NEW p \in Press, Reviewing(p)
          PROVE  Sticks
      BY <2>1, <2>3, <2>4, <2>6 DEF Reviewing, LoadApply, LoadDismiss
    <2> HIDE DEF Sticks
    <2>7. CASE Next
      BY <2>1, <2>2, <2>5, <2>6, <2>7, Cases
    <2> QED BY <1>1, <2>1, <2>7 DEF vars
  <1> HIDE DEF Sticks
  <1>2. WatchInv /\ [Next]_vars => [Sticks]_vars
    BY <1>1
  <1>3. Spec => [][Sticks]_vars
    BY <1>2, WatchInvariant, PTL DEF Spec
  <1> QED BY <1>3 DEF Sticks, DismissalSticks

\* A date read off the page that nobody has answered since is in its proposal,
\* which nobody has refused (upsert_proposal), for any page and any number of
\* admins, runs and saves.
THEOREM UnansweredReadings == Spec => []ReadingsWait
  BY WatchInvariant, PTL DEF WatchInv

=============================================================================
