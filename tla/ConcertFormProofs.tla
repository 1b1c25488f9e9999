-------------------------- MODULE ConcertFormProofs --------------------------
(***************************************************************************)
(* Proofs about the concert editor's form, for any number of editors, rows *)
(* and acts on a page: no reference dangles, ids stay with their rows, an  *)
(* old page loses nothing, and a save stores what its page showed.         *)
(***************************************************************************)
EXTENDS ConcertForm, FiniteSetTheorems, SequenceTheorems, WellFoundedInduction, TLAPS

----------------------------------------------------------------------------
(* Tokens and numbers.                                                     *)

\* A token says which of the two it is, and what it names.
LEMMA Tokens ==
    /\ NoToken \in Token /\ ~Digits(NoToken)
    /\ \A i \in Nat : IdToken(i) \in Token /\ Digits(IdToken(i)) /\ IdToken(i)[2] = i
    /\ \A n \in Nat : NewToken(n) \in Token /\ ~Digits(NewToken(n)) /\ NewToken(n)[2] = n
    /\ \A n \in Nat : NewToken(n) # NoToken /\ IdToken(n) # NoToken
    /\ \A t \in Token : Digits(t) => t[2] \in Nat /\ t = IdToken(t[2])
  BY DEF NoToken, Token, IdToken, NewToken, Digits

\* Different rows have different tokens.
LEMMA TokensDiffer ==
    ASSUME NEW a, NEW b
    PROVE  /\ NewToken(a) # IdToken(b)
           /\ NewToken(a) = NewToken(b) => a = b
           /\ IdToken(a) = IdToken(b) => a = b
  <1>1. /\ NewToken(a)[1] = "new" /\ NewToken(a)[2] = a
        /\ NewToken(b)[1] = "new" /\ NewToken(b)[2] = b
        /\ IdToken(a)[1] = "id" /\ IdToken(a)[2] = a
        /\ IdToken(b)[1] = "id" /\ IdToken(b)[2] = b
    BY DEF NewToken, IdToken
  <1> QED BY <1>1

\* A nonempty set of places has a least one.
LEMMA MinOf ==
    ASSUME NEW S, S \subseteq Nat, S # {}
    PROVE  Min(S) \in S /\ \A x \in S : Min(S) <= x
  <1>1. PICK x \in S : \A y \in S : ~(<<y, x>> \in OpToRel(<, Nat))
    BY NatLessThanWellFounded, WFMin
  <1>2. \A y \in S : ~(y < x)
    BY <1>1 DEF OpToRel
  <1>3. \E z \in S : \A y \in S : z <= y
    BY <1>2
  <1> QED BY <1>3 DEF Min

\* The table's highest id is at least every id in it.
LEMMA HighestOf ==
    ASSUME NEW held, held \subseteq 1 .. MaxId, NEW top \in Nat
    PROVE  /\ Highest(held, top) \in Nat /\ top <= Highest(held, top)
           /\ \A i \in held : i <= Highest(held, top)
  <1> DEFINE S == held \cup {top}
             U == {m \in Nat : \A x \in S : x <= m}
  <1>1. S \subseteq Nat /\ MaxId \in Nat
    BY FormAssumption
  <1>2. MaxId + top \in U
    BY <1>1
  <1>3. U \subseteq Nat /\ U # {}
    BY <1>2
  <1> HIDE DEF U
  <1>4. Min(U) \in U /\ \A m \in U : Min(U) <= m
    BY <1>3, MinOf
  <1>5. Min(U) \in Nat /\ \A x \in S : x <= Min(U)
    BY <1>4 DEF U
  <1>6. Min(U) \in S
    <2> SUFFICES ASSUME Min(U) \notin S
                 PROVE  FALSE
      OBVIOUS
    <2>1. \A x \in S : x < Min(U)
      BY <1>1, <1>5
    <2>2. Min(U) - 1 \in Nat /\ \A x \in S : x <= Min(U) - 1
      BY <1>1, <1>5, <2>1
    <2>3. Min(U) - 1 \in U
      BY <2>2 DEF U
    <2> QED BY <1>4, <1>5, <2>3
  <1>7. \E x \in S : \A y \in S : x >= y
    BY <1>1, <1>5, <1>6
  <1>8. Max(S) \in S /\ \A y \in S : Max(S) >= y
    BY <1>7 DEF Max
  <1> QED BY <1>1, <1>8 DEF Highest

\* The part of a set below a higher bound has more elements.
LEMMA RankGrows ==
    ASSUME NEW S, IsFiniteSet(S), NEW place \in [S -> Nat], NEW i \in S, NEW j \in S,
           place[i] < place[j]
    PROVE  Cardinality({k \in S : place[k] < place[i]}) < Cardinality({k \in S : place[k] < place[j]})
  <1> DEFINE A == {k \in S : place[k] < place[i]}
             B == {k \in S : place[k] < place[j]}
  <1>1. \A k \in S : place[k] \in Nat
    OBVIOUS
  <1>2. i \notin A /\ A \cup {i} \in SUBSET B /\ A \in SUBSET S /\ B \in SUBSET S
    BY <1>1
  <1> HIDE DEF A, B
  <1>3. IsFiniteSet(A) /\ IsFiniteSet(B)
    BY <1>2, FS_Subset
  <1>4. Cardinality(A \cup {i}) = Cardinality(A) + 1
    BY <1>2, <1>3, FS_AddElement
  <1>5. Cardinality(A \cup {i}) <= Cardinality(B)
    BY <1>2, <1>3, FS_Subset
  <1>6. Cardinality(A) \in Nat /\ Cardinality(B) \in Nat
    BY <1>3, FS_CardinalityType
  <1>7. Cardinality(A) < Cardinality(B)
    BY ONLY <1>4, <1>5, <1>6
  <1> QED BY <1>7 DEF A, B

\* Rows in the order of different places: each once.
LEMMA InOrderProperties ==
    ASSUME NEW S, IsFiniteSet(S), NEW place \in [S -> Nat],
           \A i, j \in S : place[i] = place[j] => i = j
    PROVE  /\ Cardinality(S) \in Nat
           /\ InOrder(S, place) \in [1 .. Cardinality(S) -> S]
           /\ \A m, n \in 1 .. Cardinality(S) :
                 InOrder(S, place)[m] = InOrder(S, place)[n] => m = n
           /\ \A i \in S : \E n \in 1 .. Cardinality(S) : InOrder(S, place)[n] = i
  <1> DEFINE c == Cardinality(S)
             Below(i) == {k \in S : place[k] < place[i]}
             rank == [i \in S |-> Cardinality(Below(i)) + 1]
             days == InOrder(S, place)
  <1>1. c \in Nat
    BY FS_CardinalityType
  <1>2. \A i \in S : Cardinality(Below(i)) \in Nat /\ Cardinality(Below(i)) < c
    <2> SUFFICES ASSUME NEW i \in S
                 PROVE  Cardinality(Below(i)) \in Nat /\ Cardinality(Below(i)) < c
      OBVIOUS
    <2>1. Below(i) \in SUBSET S /\ i \notin Below(i)
      OBVIOUS
    <2> HIDE DEF Below
    <2>2. IsFiniteSet(Below(i)) /\ Cardinality(Below(i)) <= c /\ Cardinality(Below(i)) # c
      BY <2>1, FS_Subset
    <2>3. Cardinality(Below(i)) \in Nat
      BY <2>2, FS_CardinalityType
    <2> QED BY <1>1, <2>2, <2>3
  <1>3. \A i, j \in S : i # j => Cardinality(Below(i)) # Cardinality(Below(j))
    <2> SUFFICES ASSUME NEW i \in S, NEW j \in S, place[i] < place[j]
                 PROVE  Cardinality(Below(i)) # Cardinality(Below(j))
      OBVIOUS
    <2>1. Cardinality(Below(i)) < Cardinality(Below(j))
      BY RankGrows
    <2> QED BY <1>2, <2>1
  <1> HIDE DEF Below, c
  <1>4. rank \in [S -> 1 .. c] /\ \A i, j \in S : rank[i] = rank[j] => i = j
    BY <1>1, <1>2, <1>3
  <1>5. rank \in Injection(S, 1 .. c)
    BY <1>4 DEF Injection, IsInjective
  <1>6. IsFiniteSet(1 .. c) /\ Cardinality(1 .. c) = c
    BY <1>1, FS_Interval
  <1>7. rank \in Surjection(S, 1 .. c)
    BY <1>5, <1>6, FS_Injection DEF c
  <1>8. ASSUME NEW n \in 1 .. c
        PROVE  \E i \in S : Cardinality(Below(i)) = n - 1
    <2>1. PICK i \in S : rank[i] = n
      BY <1>7 DEF Surjection
    <2> QED BY <1>1, <1>2, <2>1
  <1>9. days = [n \in 1 .. c |-> CHOOSE i \in S : Cardinality(Below(i)) = n - 1]
    BY DEF InOrder, Below, c
  <1>10. \A n \in 1 .. c : days[n] \in S /\ Cardinality(Below(days[n])) = n - 1
    BY <1>8, <1>9
  <1> HIDE DEF days
  <1>11. days \in [1 .. c -> S]
    BY <1>9, <1>10
  <1>12. \A m, n \in 1 .. c : days[m] = days[n] => m = n
    BY <1>1, <1>10
  <1>13. days \in Injection(1 .. c, S)
    BY <1>11, <1>12 DEF Injection, IsInjective
  <1>14. days \in Surjection(1 .. c, S)
    BY <1>6, <1>13, FS_Injection DEF c
  <1>15. \A i \in S : \E n \in 1 .. c : days[n] = i
    BY <1>14 DEF Surjection
  <1> QED BY <1>1, <1>11, <1>12, <1>15 DEF days, c

\* Taking one row out.
LEMMA RowRemoved ==
    ASSUME NEW S, NEW s \in Seq(S), NEW i \in DOMAIN s
    PROVE  /\ RemoveAt(s, i) \in Seq(S)
           /\ \A j \in DOMAIN RemoveAt(s, i) :
                 \E k \in DOMAIN s : /\ RemoveAt(s, i)[j] = s[k]
                                     /\ (j < i => k = j) /\ (j >= i => k = j + 1)
  <1> DEFINE a == SubSeq(s, 1, i - 1)
             b == SubSeq(s, i + 1, Len(s))
  <1>1. Len(s) \in Nat /\ DOMAIN s = 1..Len(s) /\ i \in 1..Len(s)
    BY LenProperties
  <1>2. \A j \in 1..Len(s) : s[j] \in S
    BY ElementOfSeq
  <1>3. a \in Seq(S) /\ Len(a) = i - 1 /\ \A j \in 1..(i - 1) : a[j] = s[j]
    <2>1. \A j \in 1..(i - 1) : s[j] \in S
      BY <1>1, <1>2
    <2>2. /\ a \in Seq(S)
          /\ Len(a) = IF 1 <= i - 1 THEN (i - 1) - 1 + 1 ELSE 0
          /\ \A j \in 1..((i - 1) - 1 + 1) : a[j] = s[1 + j - 1]
      BY <1>1, <2>1, SubSeqProperties
    <2> HIDE DEF a
    <2> QED BY <1>1, <2>2
  <1>4. /\ b \in Seq(S) /\ Len(b) = Len(s) - i
        /\ \A j \in 1..(Len(s) - i) : b[j] = s[i + j]
    <2>1. \A j \in (i + 1)..Len(s) : s[j] \in S
      BY <1>1, <1>2
    <2>2. /\ b \in Seq(S)
          /\ Len(b) = IF i + 1 <= Len(s) THEN Len(s) - (i + 1) + 1 ELSE 0
          /\ \A j \in 1..(Len(s) - (i + 1) + 1) : b[j] = s[(i + 1) + j - 1]
      BY <1>1, <2>1, SubSeqProperties
    <2> HIDE DEF b
    <2>3. Len(b) = Len(s) - i
      BY <1>1, <2>2
    <2>4. ASSUME NEW j \in 1..(Len(s) - i)
          PROVE  b[j] = s[i + j]
      <3>1. j \in 1..(Len(s) - (i + 1) + 1) /\ (i + 1) + j - 1 = i + j
        BY <1>1
      <3> QED BY <2>2, <3>1
    <2> QED BY <2>2, <2>3, <2>4
  <1>5. RemoveAt(s, i) = a \o b
    BY DEF RemoveAt
  <1> HIDE DEF a, b
  <1>6. /\ a \o b \in Seq(S)
        /\ Len(a \o b) = Len(a) + Len(b)
        /\ \A j \in 1..(Len(a) + Len(b)) :
              (a \o b)[j] = IF j <= Len(a) THEN a[j] ELSE b[j - Len(a)]
    BY <1>3, <1>4, ConcatProperties, Zenon
  <1>7. DOMAIN (a \o b) = 1..(Len(s) - 1)
    <2>1. Len(a \o b) = Len(s) - 1
      BY <1>1, <1>3, <1>4, <1>6
    <2>2. DOMAIN (a \o b) = 1..Len(a \o b)
      BY <1>6, LenProperties, Zenon
    <2> QED BY <2>1, <2>2
  <1>8. ASSUME NEW j \in 1..(Len(s) - 1)
        PROVE  \E k \in DOMAIN s : /\ (a \o b)[j] = s[k]
                                   /\ (j < i => k = j) /\ (j >= i => k = j + 1)
    <2>1. j \in 1..(Len(a) + Len(b))
      BY <1>1, <1>3, <1>4
    <2>2. (a \o b)[j] = IF j <= Len(a) THEN a[j] ELSE b[j - Len(a)]
      BY <1>6, <2>1
    <2>3. CASE j < i
      <3>1. j <= Len(a) /\ j \in 1..(i - 1) /\ j \in 1..Len(s)
        BY <1>1, <1>3, <2>3
      <3>2. (a \o b)[j] = a[j] /\ a[j] = s[j]
        BY <1>3, <2>2, <3>1
      <3>3. j \in DOMAIN s /\ (a \o b)[j] = s[j] /\ ~(j >= i)
        BY <1>1, <2>3, <3>1, <3>2
      <3> QED BY ONLY <2>3, <3>3
    <2>4. CASE ~(j < i)
      <3>1. /\ ~(j <= Len(a)) /\ j - Len(a) \in 1..(Len(s) - i) /\ j + 1 \in 1..Len(s)
            /\ i + (j - Len(a)) = j + 1
        BY <1>1, <1>3, <2>4
      <3>2. (a \o b)[j] = b[j - Len(a)] /\ b[j - Len(a)] = s[i + (j - Len(a))]
        BY <1>4, <2>2, <3>1
      <3>3. j + 1 \in DOMAIN s /\ ~(j < i)
        BY <1>1, <2>4, <3>1
      <3> QED BY ONLY <3>1, <3>2, <3>3
    <2> QED BY <2>3, <2>4
  <1> QED BY <1>5, <1>6, <1>7, <1>8

----------------------------------------------------------------------------
(* The flush.                                                              *)

Flushable(rows, held, top) ==
    /\ IsFiniteSet(DOMAIN rows) /\ DOMAIN rows \subseteq Nat
    /\ \A n \in DOMAIN rows : rows[n].id \in Nat
    /\ held \subseteq Nat \ {0} /\ top \in Nat /\ \A i \in held : i <= top

NewUpTo(rows, held, n) == {m \in DOMAIN rows : m <= n /\ rows[m].id \notin held}

\* The new rows up to a place can be counted.
LEMMA NewUpToProperties ==
    ASSUME NEW rows, NEW held, NEW top, Flushable(rows, held, top), NEW n
    PROVE  /\ IsFiniteSet(NewUpTo(rows, held, n))
           /\ Cardinality(NewUpTo(rows, held, n)) \in Nat
           /\ n \in NewUpTo(rows, held, n) => Cardinality(NewUpTo(rows, held, n)) # 0
  <1>1. NewUpTo(rows, held, n) \in SUBSET DOMAIN rows
    BY DEF NewUpTo
  <1>2. IsFiniteSet(NewUpTo(rows, held, n))
    BY <1>1, FS_Subset DEF Flushable
  <1> QED BY <1>2, FS_CardinalityType, FS_EmptySet

\* A row keeps an id the concert holds, any other gets one above them all.
LEMMA IdsProperties ==
    ASSUME NEW rows, NEW held, NEW top, Flushable(rows, held, top)
    PROVE  /\ DOMAIN IdsOf(rows, held, top) = DOMAIN rows
           /\ \A n \in DOMAIN rows :
                 /\ IdsOf(rows, held, top)[n] \in Nat \ {0}
                 /\ rows[n].id \in held => IdsOf(rows, held, top)[n] = rows[n].id
                 /\ rows[n].id \notin held =>
                       IdsOf(rows, held, top)[n] = top + Cardinality(NewUpTo(rows, held, n))
                 /\ IdsOf(rows, held, top)[n] \in held => rows[n].id = IdsOf(rows, held, top)[n]
  <1>1. ASSUME NEW n \in DOMAIN rows, rows[n].id \notin held
        PROVE  Cardinality(NewUpTo(rows, held, n)) \in Nat \ {0}
    <2>1. n \in NewUpTo(rows, held, n)
      BY <1>1 DEF NewUpTo, Flushable
    <2> QED BY <2>1, NewUpToProperties
  <1>2. ASSUME NEW n \in DOMAIN rows
        PROVE  IdsOf(rows, held, top)[n]
                 = IF rows[n].id \in held THEN rows[n].id
                   ELSE top + Cardinality(NewUpTo(rows, held, n))
    BY DEF IdsOf, NewUpTo
  <1>3. DOMAIN IdsOf(rows, held, top) = DOMAIN rows
    BY DEF IdsOf
  <1>4. ASSUME NEW n \in DOMAIN rows
        PROVE  /\ IdsOf(rows, held, top)[n] \in Nat \ {0}
               /\ rows[n].id \in held => IdsOf(rows, held, top)[n] = rows[n].id
               /\ rows[n].id \notin held =>
                     IdsOf(rows, held, top)[n] = top + Cardinality(NewUpTo(rows, held, n))
               /\ IdsOf(rows, held, top)[n] \in held => rows[n].id = IdsOf(rows, held, top)[n]
    BY <1>1, <1>2 DEF Flushable
  <1> QED BY <1>3, <1>4

\* Rows with ids of their own, and new ones, get different ids.
LEMMA IdsDiffer ==
    ASSUME NEW rows, NEW held, NEW top, Flushable(rows, held, top),
           \A m, n \in DOMAIN rows : rows[m].id = rows[n].id /\ rows[m].id # 0 => m = n,
           NEW m \in DOMAIN rows, NEW n \in DOMAIN rows,
           IdsOf(rows, held, top)[m] = IdsOf(rows, held, top)[n]
    PROVE  m = n
  <1> DEFINE New(k) == NewUpTo(rows, held, k)
  <1>1. /\ \A k \in {m, n} :
              /\ rows[k].id \in held => IdsOf(rows, held, top)[k] = rows[k].id
              /\ rows[k].id \notin held => IdsOf(rows, held, top)[k] = top + Cardinality(New(k))
              /\ IdsOf(rows, held, top)[k] \in held => rows[k].id = IdsOf(rows, held, top)[k]
    BY IdsProperties
  <1>2. ASSUME NEW k \in DOMAIN rows, NEW l \in DOMAIN rows, rows[l].id \notin held, k < l
        PROVE  Cardinality(New(k)) # Cardinality(New(l))
    <2>1. l \in New(l) /\ l \notin New(k) /\ New(k) \in SUBSET New(l)
      BY <1>2 DEF NewUpTo, Flushable
    <2>2. IsFiniteSet(New(l))
      BY NewUpToProperties
    <2> QED BY <2>1, <2>2, FS_Subset
  <1>3. Cardinality(New(m)) \in Nat /\ Cardinality(New(n)) \in Nat
    BY NewUpToProperties
  <1> HIDE DEF New
  <1>5. CASE rows[m].id \in held \/ rows[n].id \in held
    <2>1. rows[m].id = rows[n].id /\ rows[m].id # 0
      BY <1>1, <1>5 DEF Flushable
    <2> QED BY <2>1
  <1>6. CASE rows[m].id \notin held /\ rows[n].id \notin held
    <2>1. Cardinality(New(m)) = Cardinality(New(n))
      BY <1>1, <1>3, <1>6 DEF Flushable
    <2>2. ~(m < n) /\ ~(n < m)
      BY <1>2, <1>6, <2>1
    <2> QED BY <2>2 DEF Flushable
  <1> QED BY <1>5, <1>6

\* Whatever has an id is the row of some place.
LEMMA RowOfId ==
    ASSUME NEW ids, NEW i \in Range(ids)
    PROVE  RowOf(ids, i) \in DOMAIN ids /\ ids[RowOf(ids, i)] = i
  <1>1. \E n \in DOMAIN ids : ids[n] = i
    BY DEF Range
  <1> QED BY <1>1 DEF RowOf

\* A key names the id of a row that has it.
LEMMA KeyedProperties ==
    ASSUME NEW rows, DOMAIN rows \subseteq Nat, NEW ids, DOMAIN ids = DOMAIN rows
    PROVE  \A t \in DOMAIN Keyed(rows, ids) :
              \E n \in DOMAIN rows : rows[n].key = t /\ Keyed(rows, ids)[t] = ids[n]
  <1> SUFFICES ASSUME NEW t \in DOMAIN Keyed(rows, ids)
               PROVE  \E n \in DOMAIN rows : rows[n].key = t /\ Keyed(rows, ids)[t] = ids[n]
    OBVIOUS
  <1> DEFINE S == {m \in DOMAIN rows : rows[m].key = t}
  <1>1. t \in {rows[n].key : n \in DOMAIN rows} /\ Keyed(rows, ids)[t] = ids[Min(S)]
    BY DEF Keyed
  <1>2. S # {} /\ S \subseteq Nat
    BY <1>1
  <1> HIDE DEF S
  <1>3. Min(S) \in S
    BY <1>2, MinOf
  <1> QED BY <1>1, <1>3 DEF S

----------------------------------------------------------------------------
(* What an editor can make of a page.                                      *)

\* The rows of a page, and those it was served with: a key says which saved row
\* or which addition it is, a row with an id is one that was served, and a row
\* without one was served without or is added under a name of its own.
RowsFrom(lines, rows) ==
    /\ NamesDiffer(rows)
    /\ \A n \in DOMAIN rows :
          /\ rows[n].key = IF rows[n].id = 0 THEN NewToken(rows[n].name) ELSE IdToken(rows[n].id)
          /\ \/ \E m \in DOMAIN lines : lines[m].id = rows[n].id /\ lines[m].name = rows[n].name
             \/ rows[n].id = 0 /\ rows[n].name \notin Names(lines)

\* A token in digits is the id of a row the page was served with.
RowTokens(served, row) ==
    /\ \A t \in row.legs :
          Digits(t) => t[2] # 0 /\ \E m \in DOMAIN served.legs : served.legs[m].id = t[2]
    /\ \A t \in row.quals :
          Digits(t) => /\ t[2] # 0 /\ t[2] # row.id
                       /\ \E m \in DOMAIN served.rounds : served.rounds[m].id = t[2]
TokensFrom(served, page) == \A n \in DOMAIN page.rounds : RowTokens(served, page.rounds[n])

Edited(served, page) ==
    /\ page \in Page /\ page.old = served.old
    /\ RowsFrom(served.legs, page.legs) /\ RowsFrom(served.rounds, page.rounds)
    /\ TokensFrom(served, page)

IdsDistinct(rows) == \A m, n \in DOMAIN rows : rows[m].id = rows[n].id /\ rows[m].id # 0 => m = n

\* A page as it is served.
Servable(page) ==
    /\ Edited(page, page) /\ OfferedItems(page)
    /\ IdsDistinct(page.legs) /\ IdsDistinct(page.rounds)

\* The inductive invariant.
FormInv ==
    /\ TypeOK /\ NoDanglingReference
    /\ NamesDiffer(concert.legs) /\ NamesDiffer(concert.rounds)
    /\ \A t \in Tab : Servable(pages[t])

----------------------------------------------------------------------------
(* One act on a page.                                                      *)

\* Rows whose ids, keys and names stay.
LEMMA SameLines ==
    ASSUME NEW lines, NEW rows, NEW after, RowsFrom(lines, rows), DOMAIN after = DOMAIN rows,
           \A n \in DOMAIN rows : /\ after[n].id = rows[n].id /\ after[n].key = rows[n].key
                                  /\ after[n].name = rows[n].name
    PROVE  RowsFrom(lines, after)
  BY DEF RowsFrom, NamesDiffer

\* Rows with one taken out.
LEMMA FewerLines ==
    ASSUME NEW S, NEW lines, NEW rows \in Seq(S), RowsFrom(lines, rows), NEW i \in DOMAIN rows
    PROVE  RowsFrom(lines, RemoveAt(rows, i))
  <1> DEFINE after == RemoveAt(rows, i)
  <1>1. \A j \in DOMAIN after :
           \E k \in DOMAIN rows : /\ after[j] = rows[k]
                                  /\ (j < i => k = j) /\ (j >= i => k = j + 1)
    BY RowRemoved
  <1>2. after \in Seq(S)
    BY RowRemoved
  <1>3. DOMAIN after \subseteq Nat /\ i \in Nat
    BY <1>2, LenProperties
  <1> HIDE DEF after
  <1>4. NamesDiffer(after)
    <2> SUFFICES ASSUME NEW m \in DOMAIN after, NEW n \in DOMAIN after,
                        after[m].name = after[n].name
                 PROVE  m = n
      BY DEF NamesDiffer
    <2>1. PICK k \in DOMAIN rows : /\ after[m] = rows[k]
                                   /\ (m < i => k = m) /\ (m >= i => k = m + 1)
      BY <1>1
    <2>2. PICK l \in DOMAIN rows : /\ after[n] = rows[l]
                                   /\ (n < i => l = n) /\ (n >= i => l = n + 1)
      BY <1>1
    <2>3. k = l
      BY <2>1, <2>2 DEF RowsFrom, NamesDiffer
    <2> QED BY ONLY <1>3, <2>1, <2>2, <2>3, m \in DOMAIN after, n \in DOMAIN after
  <1>5. ASSUME NEW j \in DOMAIN after
        PROVE  \E k \in DOMAIN rows : after[j] = rows[k]
    BY <1>1
  <1>6. RowsFrom(lines, after)
    BY <1>4, <1>5 DEF RowsFrom
  <1> QED BY <1>6 DEF after

\* Rows with one added, under a name of its own.
LEMMA OneMoreLine ==
    ASSUME NEW S, NEW lines, NEW rows \in Seq(S), RowsFrom(lines, rows), NEW row \in S,
           row.id = 0, row.key = NewToken(row.name),
           row.name \notin Names(rows) \cup Names(lines)
    PROVE  /\ RowsFrom(lines, Append(rows, row))
           /\ Append(rows, row) \in Seq(S)
           /\ \A n \in DOMAIN Append(rows, row) :
                 \/ Append(rows, row)[n] = row
                 \/ n \in DOMAIN rows /\ Append(rows, row)[n] = rows[n]
  <1> DEFINE after == Append(rows, row)
  <1>1. /\ after \in Seq(S) /\ Len(after) = Len(rows) + 1
        /\ \A n \in 1 .. Len(rows) : after[n] = rows[n]
        /\ after[Len(rows) + 1] = row
    BY AppendProperties
  <1>2. DOMAIN rows = 1 .. Len(rows) /\ Len(rows) \in Nat /\ DOMAIN after = 1 .. Len(after)
    BY <1>1, LenProperties
  <1> HIDE DEF after
  <1>3. \A n \in DOMAIN after : \/ n = Len(rows) + 1 /\ after[n] = row
                                \/ n \in DOMAIN rows /\ after[n] = rows[n]
    BY <1>1, <1>2
  <1>4. NamesDiffer(after)
    BY <1>3 DEF RowsFrom, NamesDiffer, Names
  <1>5. RowsFrom(lines, after)
    BY <1>3, <1>4 DEF RowsFrom
  <1> QED BY <1>1, <1>3, <1>5 DEF after

\* A page of the right shape, made of a right page.
LEMMA NewPage ==
    ASSUME NEW page \in Page
    PROVE  /\ page.legs \in Seq(LegLine) /\ page.rounds \in Seq(RoundLine)
           /\ \A n \in DOMAIN page.legs : page.legs[n] \in LegLine
           /\ \A n \in DOMAIN page.rounds : page.rounds[n] \in RoundLine
           /\ \A legs \in Seq(LegLine) :
                 /\ [page EXCEPT !.legs = legs] \in Page
                 /\ [page EXCEPT !.legs = legs].old = page.old
                 /\ [page EXCEPT !.legs = legs].legs = legs
                 /\ [page EXCEPT !.legs = legs].rounds = page.rounds
           /\ \A rounds \in Seq(RoundLine) :
                 /\ [page EXCEPT !.rounds = rounds] \in Page
                 /\ [page EXCEPT !.rounds = rounds].old = page.old
                 /\ [page EXCEPT !.rounds = rounds].legs = page.legs
                 /\ [page EXCEPT !.rounds = rounds].rounds = rounds
  <1>1. page.legs \in Seq(LegLine) /\ page.rounds \in Seq(RoundLine)
    BY DEF Page
  <1>2. /\ \A n \in DOMAIN page.legs : page.legs[n] \in LegLine
        /\ \A n \in DOMAIN page.rounds : page.rounds[n] \in RoundLine
    BY <1>1, ElementOfSeq, LenProperties
  <1>3. ASSUME NEW legs \in Seq(LegLine)
        PROVE  /\ [page EXCEPT !.legs = legs] \in Page
               /\ [page EXCEPT !.legs = legs].old = page.old
               /\ [page EXCEPT !.legs = legs].legs = legs
               /\ [page EXCEPT !.legs = legs].rounds = page.rounds
    BY DEF Page
  <1>4. ASSUME NEW rounds \in Seq(RoundLine)
        PROVE  /\ [page EXCEPT !.rounds = rounds] \in Page
               /\ [page EXCEPT !.rounds = rounds].old = page.old
               /\ [page EXCEPT !.rounds = rounds].legs = page.legs
               /\ [page EXCEPT !.rounds = rounds].rounds = rounds
    BY DEF Page
  <1> QED BY <1>1, <1>2, <1>3, <1>4

\* Changing one line in place.
LEMMA LineChanged ==
    ASSUME NEW S, NEW rows \in Seq(S), NEW n \in DOMAIN rows, NEW row \in S
    PROVE  /\ [rows EXCEPT ![n] = row] \in Seq(S)
           /\ DOMAIN [rows EXCEPT ![n] = row] = DOMAIN rows
           /\ [rows EXCEPT ![n] = row][n] = row
           /\ \A m \in DOMAIN rows : m # n => [rows EXCEPT ![n] = row][m] = rows[m]
  <1>1. n \in 1 .. Len(rows)
    BY LenProperties
  <1> QED BY <1>1, ExceptSeq

\* The page with other leg rows.
LEMMA LegsEdited ==
    ASSUME NEW served, NEW page, Edited(served, page), NEW legs \in Seq(LegLine),
           RowsFrom(served.legs, legs)
    PROVE  Edited(served, [page EXCEPT !.legs = legs])
  <1> DEFINE p == [page EXCEPT !.legs = legs]
  <1>1. page \in Page
    BY DEF Edited
  <1>2. p \in Page /\ p.old = page.old /\ p.legs = legs /\ p.rounds = page.rounds
    BY <1>1, NewPage
  <1> HIDE DEF p
  <1>3. Edited(served, p)
    BY <1>2 DEF Edited, TokensFrom
  <1> QED BY <1>3 DEF p

\* The page with other round rows, whose tokens are known.
LEMMA RoundsEdited ==
    ASSUME NEW served, NEW page, Edited(served, page), NEW rounds \in Seq(RoundLine),
           RowsFrom(served.rounds, rounds), \A n \in DOMAIN rounds : RowTokens(served, rounds[n])
    PROVE  Edited(served, [page EXCEPT !.rounds = rounds])
  <1> DEFINE p == [page EXCEPT !.rounds = rounds]
  <1>1. page \in Page
    BY DEF Edited
  <1>2. p \in Page /\ p.old = page.old /\ p.legs = page.legs /\ p.rounds = rounds
    BY <1>1, NewPage
  <1> HIDE DEF p
  <1>3. Edited(served, p)
    BY <1>2 DEF Edited, TokensFrom
  <1> QED BY <1>3 DEF p

\* A round row changed in place, its tokens known.
LEMMA RoundLineChanged ==
    ASSUME NEW served, NEW page, Edited(served, page), NEW n \in DOMAIN page.rounds,
           NEW row \in RoundLine, RowTokens(served, row), row.id = page.rounds[n].id,
           row.key = page.rounds[n].key, row.name = page.rounds[n].name
    PROVE  Edited(served, [page EXCEPT !.rounds = [page.rounds EXCEPT ![n] = row]])
  <1> DEFINE rows == page.rounds
             after == [rows EXCEPT ![n] = row]
  <1>1. page \in Page /\ RowsFrom(served.rounds, rows)
    BY DEF Edited
  <1>2. rows \in Seq(RoundLine)
    BY <1>1, NewPage
  <1>3. \A m \in DOMAIN rows : RowTokens(served, rows[m])
    BY DEF Edited, TokensFrom
  <1>4. row.id = rows[n].id /\ row.key = rows[n].key /\ row.name = rows[n].name
        /\ n \in DOMAIN rows
    OBVIOUS
  <1> HIDE DEF rows
  <1>5. /\ after \in Seq(RoundLine) /\ DOMAIN after = DOMAIN rows /\ after[n] = row
        /\ \A m \in DOMAIN rows : m # n => after[m] = rows[m]
    BY <1>2, <1>4, LineChanged
  <1> HIDE DEF after
  <1>6. RowsFrom(served.rounds, after)
    BY <1>1, <1>4, <1>5, SameLines
  <1>7. \A m \in DOMAIN after : RowTokens(served, after[m])
    BY <1>3, <1>5
  <1>8. Edited(served, [page EXCEPT !.rounds = after])
    BY <1>5, <1>6, <1>7, RoundsEdited
  <1> QED BY <1>8 DEF after, rows

\* A leg added, removed, blanked or called off.
LEMMA LegActsEdit ==
    ASSUME NEW served, NEW page, Edited(served, page), NEW legs \in LegActs(served, page.legs)
    PROVE  legs \in Seq(LegLine) /\ RowsFrom(served.legs, legs)
  <1> DEFINE rows == page.legs
             Good(after) == after \in Seq(LegLine) /\ RowsFrom(served.legs, after)
  <1>1. page \in Page /\ RowsFrom(served.legs, rows)
    BY DEF Edited
  <1>2. rows \in Seq(LegLine) /\ \A n \in DOMAIN rows : rows[n] \in LegLine
    BY <1>1, NewPage
  <1> HIDE DEF rows
  <1>3. ASSUME NEW d \in Performance \ (Names(rows) \cup Names(served.legs)), NEW b \in BOOLEAN
        PROVE  Good(Append(rows, NewLeg(d, b)))
    <2>1. NewLeg(d, b) \in LegLine
      BY FormAssumption, Tokens DEF LegLine, NewLeg
    <2>2. /\ NewLeg(d, b).id = 0 /\ NewLeg(d, b).key = NewToken(NewLeg(d, b).name)
          /\ NewLeg(d, b).name = d
      BY DEF NewLeg
    <2> QED BY <1>1, <1>2, <2>1, <2>2, OneMoreLine
  <1>4. ASSUME NEW n \in DOMAIN rows
        PROVE  Good(RemoveAt(rows, n))
    BY <1>1, <1>2, RowRemoved, FewerLines
  <1>5. ASSUME NEW n \in DOMAIN rows, NEW row \in LegLine,
               row.id = rows[n].id, row.key = rows[n].key, row.name = rows[n].name
        PROVE  Good([rows EXCEPT ![n] = row])
    <2> DEFINE after == [rows EXCEPT ![n] = row]
    <2>1. /\ after \in Seq(LegLine) /\ DOMAIN after = DOMAIN rows /\ after[n] = row
          /\ \A m \in DOMAIN rows : m # n => after[m] = rows[m]
      BY <1>2, LineChanged
    <2> HIDE DEF after
    <2>2. RowsFrom(served.legs, after)
      BY <1>1, <1>5, <2>1, SameLines
    <2> QED BY <2>1, <2>2 DEF after
  <1>6. ASSUME NEW n \in DOMAIN rows
        PROVE  /\ Good([rows EXCEPT ![n].blank = TRUE])
               /\ Good([rows EXCEPT ![n].off = ~@])
    <2> DEFINE row == [rows[n] EXCEPT !.blank = TRUE]
               off == [rows[n] EXCEPT !.off = ~rows[n].off]
    <2>1. /\ row \in LegLine /\ row.id = rows[n].id
          /\ row.key = rows[n].key /\ row.name = rows[n].name
      BY <1>2 DEF LegLine
    <2>2. /\ off \in LegLine /\ off.id = rows[n].id
          /\ off.key = rows[n].key /\ off.name = rows[n].name
      BY <1>2 DEF LegLine
    <2>3. /\ [rows EXCEPT ![n].blank = TRUE] = [rows EXCEPT ![n] = row]
          /\ [rows EXCEPT ![n].off = ~@] = [rows EXCEPT ![n] = off]
      OBVIOUS
    <2> HIDE DEF row, off, Good
    <2>4. Good([rows EXCEPT ![n] = row]) /\ Good([rows EXCEPT ![n] = off])
      BY <1>5, <2>1, <2>2
    <2> QED BY <2>3, <2>4
  <1> SUFFICES Good(legs)
    OBVIOUS
  <1> HIDE DEF Good
  <1>7. legs \in LegActs(served, rows)
    BY DEF rows
  <1>8. CASE legs \in UNION {{Append(rows, NewLeg(d, b)) : b \in BOOLEAN} :
                               d \in Performance \ (Names(rows) \cup Names(served.legs))}
    BY <1>3, <1>8
  <1>9. CASE legs \in {RemoveAt(rows, n) : n \in DOMAIN rows}
    BY <1>4, <1>9
  <1>10. CASE legs \in {[rows EXCEPT ![n].blank = TRUE] : n \in DOMAIN rows}
    BY <1>6, <1>10
  <1>11. CASE legs \in {[rows EXCEPT ![n].off = ~@] : n \in DOMAIN rows}
    BY <1>6, <1>11
  <1> QED BY <1>7, <1>8, <1>9, <1>10, <1>11 DEF LegActs

\* A round removed, added or of another kind.
LEMMA RoundActsEdit ==
    ASSUME NEW served, NEW page, Edited(served, page), NEW rounds \in RoundActs(served, page.rounds)
    PROVE  Edited(served, [page EXCEPT !.rounds = rounds])
  <1> DEFINE rows == page.rounds
             Good(after) == Edited(served, [page EXCEPT !.rounds = after])
  <1>1. page \in Page /\ RowsFrom(served.rounds, rows)
    BY DEF Edited
  <1>2. rows \in Seq(RoundLine) /\ \A n \in DOMAIN rows : rows[n] \in RoundLine
    BY <1>1, NewPage
  <1>3. \A m \in DOMAIN rows : RowTokens(served, rows[m])
    BY DEF Edited, TokensFrom
  <1>4. ASSUME NEW n \in DOMAIN rows
        PROVE  Good(RemoveAt(rows, n))
    <2> DEFINE after == RemoveAt(rows, n)
    <2> HIDE DEF rows
    <2>1. after \in Seq(RoundLine) /\ RowsFrom(served.rounds, after)
      BY <1>1, <1>2, RowRemoved, FewerLines
    <2>2. \A j \in DOMAIN after : \E k \in DOMAIN rows : after[j] = rows[k]
      BY <1>2, RowRemoved
    <2> HIDE DEF after
    <2>3. \A m \in DOMAIN after : RowTokens(served, after[m])
      BY <1>3, <2>2
    <2>4. Good(after)
      BY <2>1, <2>3, RoundsEdited
    <2> QED BY <2>4 DEF after
  <1>5. ASSUME NEW s \in Sale \ (Names(rows) \cup Names(served.rounds)), NEW k \in RoundKind
        PROVE  Good(Append(rows, NewRound(s, k)))
    <2> DEFINE row == NewRound(s, k)
               after == Append(rows, row)
    <2> HIDE DEF rows
    <2>1. row \in RoundLine
      BY FormAssumption, Tokens DEF RoundLine, NewRound
    <2>2. /\ row.id = 0 /\ row.key = NewToken(row.name) /\ row.name = s
          /\ RowTokens(served, row)
      BY DEF NewRound, RowTokens
    <2> HIDE DEF row
    <2>3. /\ after \in Seq(RoundLine) /\ RowsFrom(served.rounds, after)
          /\ \A n \in DOMAIN after : \/ after[n] = row
                                     \/ n \in DOMAIN rows /\ after[n] = rows[n]
      BY <1>1, <1>2, <2>1, <2>2, OneMoreLine
    <2> HIDE DEF after
    <2>4. \A m \in DOMAIN after : RowTokens(served, after[m])
      BY <1>3, <2>2, <2>3
    <2>5. Good(after)
      BY <2>3, <2>4, RoundsEdited
    <2> QED BY <2>5 DEF after, row
  <1>6. ASSUME NEW n \in DOMAIN rows, NEW k \in RoundKind
        PROVE  Good([rows EXCEPT ![n].kind = k])
    <2> DEFINE row == [rows[n] EXCEPT !.kind = k]
    <2>1. /\ row \in RoundLine /\ row.id = rows[n].id /\ row.key = rows[n].key
          /\ row.name = rows[n].name /\ row.legs = rows[n].legs /\ row.quals = rows[n].quals
      BY <1>2 DEF RoundLine
    <2>2. [rows EXCEPT ![n].kind = k] = [rows EXCEPT ![n] = row]
      OBVIOUS
    <2> HIDE DEF row
    <2>3. RowTokens(served, row)
      BY <1>3, <2>1 DEF RowTokens
    <2>4. Good([rows EXCEPT ![n] = row])
      BY <2>1, <2>3, RoundLineChanged
    <2> QED BY <2>2, <2>4
  <1>7. rounds \in RoundActs(served, rows)
    OBVIOUS
  <1> SUFFICES Good(rounds)
    OBVIOUS
  <1> HIDE DEF Good, rows
  <1>8. CASE rounds \in {RemoveAt(rows, n) : n \in DOMAIN rows}
    BY <1>4, <1>8
  <1>9. CASE rounds \in UNION {{[rows EXCEPT ![n].kind = k] : k \in RoundKind} : n \in DOMAIN rows}
    BY <1>6, <1>9
  <1>10. CASE rounds \in UNION {{Append(rows, NewRound(s, k)) : k \in RoundKind} :
                                  s \in Sale \ (Names(rows) \cup Names(served.rounds))}
    <2>1. PICK s \in Sale \ (Names(rows) \cup Names(served.rounds)) :
             rounds \in {Append(rows, NewRound(s, k)) : k \in RoundKind}
      BY <1>10
    <2>2. PICK k \in RoundKind : rounds = Append(rows, NewRound(s, k))
      BY <2>1
    <2> QED BY <1>5, <2>2
  <1> QED BY <1>7, <1>8, <1>9, <1>10 DEF RoundActs

\* A chip pressed.
LEMMA ChipActsEdit ==
    ASSUME NEW served, NEW page, Edited(served, served), Edited(served, page),
           NEW rounds \in ChipActs(served, page)
    PROVE  Edited(served, [page EXCEPT !.rounds = rounds])
  <1> DEFINE rows == page.rounds
             Good(after) == Edited(served, [page EXCEPT !.rounds = after])
  <1>1. /\ page \in Page /\ served \in Page
        /\ RowsFrom(served.legs, page.legs) /\ RowsFrom(served.rounds, served.rounds)
    BY DEF Edited
  <1>2. /\ \A n \in DOMAIN rows : rows[n] \in RoundLine
        /\ \A n \in DOMAIN page.legs : page.legs[n] \in LegLine
        /\ \A n \in DOMAIN served.rounds : served.rounds[n] \in RoundLine
    BY <1>1, NewPage
  <1>3. \A m \in DOMAIN rows : RowTokens(served, rows[m])
    BY DEF Edited, TokensFrom
  <1>4. ASSUME NEW n \in DOMAIN rows, NEW t \in LegChips(page)
        PROVE  Good([rows EXCEPT ![n].legs = Flip(@, t)])
    <2> DEFINE row == [rows[n] EXCEPT !.legs = Flip(rows[n].legs, t)]
    <2>1. PICK m \in DOMAIN page.legs : t = page.legs[m].key
      BY DEF LegChips
    <2>2. t \in Token /\ page.legs[m].id \in Nat
      BY <1>2, <2>1 DEF LegLine
    <2>3. Digits(t) => t[2] # 0 /\ \E k \in DOMAIN served.legs : served.legs[k].id = t[2]
      <3>1. CASE page.legs[m].id = 0
        <4>1. t = NewToken(page.legs[m].name)
          BY <1>1, <2>1, <3>1 DEF RowsFrom
        <4> QED BY <4>1 DEF NewToken, Digits
      <3>2. CASE page.legs[m].id # 0
        <4>1. t = IdToken(page.legs[m].id)
          BY <1>1, <2>1, <3>2 DEF RowsFrom
        <4>2. t[2] = page.legs[m].id
          BY <4>1 DEF IdToken
        <4>3. \E k \in DOMAIN served.legs : served.legs[k].id = page.legs[m].id
          BY <1>1, <3>2 DEF RowsFrom
        <4> QED BY <3>2, <4>2, <4>3
      <3> QED BY <3>1, <3>2
    <2>4. Flip(rows[n].legs, t) \in SUBSET Token /\ Flip(rows[n].legs, t) \subseteq rows[n].legs \cup {t}
      BY <1>2, <2>2 DEF Flip, RoundLine
    <2>5. /\ row \in RoundLine /\ row.id = rows[n].id /\ row.key = rows[n].key
          /\ row.name = rows[n].name /\ row.legs = Flip(rows[n].legs, t)
          /\ row.quals = rows[n].quals
      BY <1>2, <2>4 DEF RoundLine
    <2>6. [rows EXCEPT ![n].legs = Flip(@, t)] = [rows EXCEPT ![n] = row]
      OBVIOUS
    <2> HIDE DEF row
    <2>7. RowTokens(served, row)
      BY <1>3, <2>3, <2>4, <2>5 DEF RowTokens
    <2>8. Good([rows EXCEPT ![n] = row])
      BY <2>5, <2>7, RoundLineChanged
    <2> QED BY <2>6, <2>8
  <1>5. ASSUME NEW n \in DOMAIN rows, NEW t \in QualChips(served, page, n)
        PROVE  Good([rows EXCEPT ![n].quals = Flip(@, t)])
    <2> DEFINE row == [rows[n] EXCEPT !.quals = Flip(rows[n].quals, t)]
    <2>1. PICK m \in DOMAIN served.rounds : /\ t = served.rounds[m].key /\ served.rounds[m].id # 0
                                            /\ served.rounds[m].id # rows[n].id
      BY DEF QualChips
    <2>2. t \in Token /\ t = IdToken(served.rounds[m].id)
      BY <1>1, <1>2, <2>1 DEF RoundLine, RowsFrom
    <2>3. t[2] # 0 /\ t[2] # rows[n].id /\ \E k \in DOMAIN served.rounds : served.rounds[k].id = t[2]
      BY <2>1, <2>2 DEF IdToken
    <2>4. /\ Flip(rows[n].quals, t) \in SUBSET Token
          /\ Flip(rows[n].quals, t) \subseteq rows[n].quals \cup {t}
      BY <1>2, <2>2 DEF Flip, RoundLine
    <2>5. /\ row \in RoundLine /\ row.id = rows[n].id /\ row.key = rows[n].key
          /\ row.name = rows[n].name /\ row.quals = Flip(rows[n].quals, t)
          /\ row.legs = rows[n].legs
      BY <1>2, <2>4 DEF RoundLine
    <2>6. [rows EXCEPT ![n].quals = Flip(@, t)] = [rows EXCEPT ![n] = row]
      OBVIOUS
    <2> HIDE DEF row
    <2>7. RowTokens(served, row)
      BY <1>3, <2>3, <2>4, <2>5 DEF RowTokens
    <2>8. Good([rows EXCEPT ![n] = row])
      BY <2>5, <2>7, RoundLineChanged
    <2> QED BY <2>6, <2>8
  <1>6. ASSUME NEW n \in DOMAIN rows, NEW t \in Offered(page, n) \cup {NoToken}
        PROVE  Good([rows EXCEPT ![n].needs = t])
    <2> DEFINE row == [rows[n] EXCEPT !.needs = t]
    <2>1. t \in Token
      BY <1>2, Tokens DEF Offered, RoundLine
    <2>2. /\ row \in RoundLine /\ row.id = rows[n].id /\ row.key = rows[n].key
          /\ row.name = rows[n].name /\ row.legs = rows[n].legs /\ row.quals = rows[n].quals
      BY <1>2, <2>1 DEF RoundLine
    <2>3. [rows EXCEPT ![n].needs = t] = [rows EXCEPT ![n] = row]
      OBVIOUS
    <2> HIDE DEF row
    <2>4. RowTokens(served, row)
      BY <1>3, <2>2 DEF RowTokens
    <2>5. Good([rows EXCEPT ![n] = row])
      BY <2>2, <2>4, RoundLineChanged
    <2> QED BY <2>3, <2>5
  <1> SUFFICES Good(rounds)
    OBVIOUS
  <1> HIDE DEF Good
  <1>7. PICK n \in DOMAIN rows :
           rounds \in {[rows EXCEPT ![n].legs = Flip(@, t)] : t \in LegChips(page)}
                      \cup {[rows EXCEPT ![n].quals = Flip(@, t)] : t \in QualChips(served, page, n)}
                      \cup {[rows EXCEPT ![n].needs = t] : t \in Offered(page, n) \cup {NoToken}}
    BY DEF ChipActs
  <1> HIDE DEF rows
  <1>8. CASE rounds \in {[rows EXCEPT ![n].legs = Flip(@, t)] : t \in LegChips(page)}
    BY <1>4, <1>8
  <1>9. CASE rounds \in {[rows EXCEPT ![n].quals = Flip(@, t)] : t \in QualChips(served, page, n)}
    BY <1>5, <1>9
  <1>10. CASE rounds \in {[rows EXCEPT ![n].needs = t] : t \in Offered(page, n) \cup {NoToken}}
    BY <1>6, <1>10
  <1> QED BY <1>7, <1>8, <1>9, <1>10

\* A function on the places up to a number is a sequence.
LEMMA SequenceOf ==
    ASSUME NEW S, NEW n \in Nat, NEW f \in [1 .. n -> S]
    PROVE  f \in Seq(S)
  BY SeqDef

\* Deselecting leaves the rows what they are and the required items on offer.
LEMMA RebuiltEdits ==
    ASSUME NEW served, NEW page, Edited(served, page)
    PROVE  Edited(served, Rebuilt(page)) /\ OfferedItems(Rebuilt(page))
  <1> DEFINE rows == page.rounds
             Row(n) == IF rows[n].needs \in Offered(page, n) THEN rows[n]
                       ELSE [rows[n] EXCEPT !.needs = NoToken]
             after == [n \in DOMAIN rows |-> Row(n)]
             p == [page EXCEPT !.rounds = after]
  <1>1. page \in Page /\ RowsFrom(served.rounds, rows)
    BY DEF Edited
  <1>2. rows \in Seq(RoundLine) /\ \A n \in DOMAIN rows : rows[n] \in RoundLine
    BY <1>1, NewPage
  <1>3. \A m \in DOMAIN rows : RowTokens(served, rows[m])
    BY DEF Edited, TokensFrom
  <1>4. ASSUME NEW n \in DOMAIN rows
        PROVE  /\ Row(n) \in RoundLine /\ Row(n).id = rows[n].id /\ Row(n).key = rows[n].key
               /\ Row(n).name = rows[n].name /\ Row(n).legs = rows[n].legs
               /\ Row(n).quals = rows[n].quals /\ Row(n).kind = rows[n].kind
               /\ Row(n).needs \in Offered(page, n) \cup {NoToken}
    BY <1>2, Tokens DEF RoundLine
  <1>5. Rebuilt(page) = p
    BY DEF Rebuilt
  <1> HIDE DEF rows, Row
  <1>6. DOMAIN after = DOMAIN rows /\ \A n \in DOMAIN rows : after[n] = Row(n)
    OBVIOUS
  <1>7. after \in Seq(RoundLine)
    <2>1. DOMAIN rows = 1 .. Len(rows) /\ Len(rows) \in Nat
      BY <1>2, LenProperties
    <2>2. after \in [1 .. Len(rows) -> RoundLine]
      BY <1>4, <2>1
    <2> QED BY <2>1, <2>2, SequenceOf
  <1>8. RowsFrom(served.rounds, after)
    BY <1>1, <1>4, <1>6, SameLines
  <1>9. \A n \in DOMAIN after : RowTokens(served, after[n])
    BY <1>3, <1>4, <1>6 DEF RowTokens
  <1> HIDE DEF after
  <1>10. Edited(served, p)
    BY <1>7, <1>8, <1>9, RoundsEdited
  <1>11. p.rounds = after
    BY <1>1, <1>7, NewPage
  <1> HIDE DEF p
  <1>12. \A n \in DOMAIN rows : Offered(p, n) = Offered(page, n)
    BY <1>4, <1>6, <1>11 DEF Offered, rows
  <1>13. OfferedItems(p)
    BY <1>4, <1>6, <1>11, <1>12 DEF OfferedItems
  <1> QED BY <1>5, <1>10, <1>13

\* One act of the editor.
LEMMA ActsEdit ==
    ASSUME NEW served, NEW page, Edited(served, served), Edited(served, page),
           NEW p \in Acts(served, page)
    PROVE  Edited(served, p) /\ OfferedItems(p)
  <1>1. ASSUME NEW legs \in LegActs(served, page.legs), p = Rebuilt([page EXCEPT !.legs = legs])
        PROVE  Edited(served, p) /\ OfferedItems(p)
    <2>1. Edited(served, [page EXCEPT !.legs = legs])
      BY LegActsEdit, LegsEdited
    <2> QED BY <1>1, <2>1, RebuiltEdits
  <1>2. ASSUME NEW rounds \in RoundActs(served, page.rounds) \cup ChipActs(served, page),
               p = Rebuilt([page EXCEPT !.rounds = rounds])
        PROVE  Edited(served, p) /\ OfferedItems(p)
    <2>1. Edited(served, [page EXCEPT !.rounds = rounds])
      BY RoundActsEdit, ChipActsEdit
    <2> QED BY <1>2, <2>1, RebuiltEdits
  <1>3. \/ \E legs \in LegActs(served, page.legs) : p = Rebuilt([page EXCEPT !.legs = legs])
        \/ \E rounds \in RoundActs(served, page.rounds) \cup ChipActs(served, page) :
              p = Rebuilt([page EXCEPT !.rounds = rounds])
    BY DEF Acts
  <1> QED BY <1>1, <1>2, <1>3

\* The pages up to any number of acts away: the recursive definition has a value.
LEMMA UpToDefined ==
    ASSUME NEW served
    PROVE  UpTo(served) = [k \in 0 .. MaxTouches |->
              IF k = 0 THEN {served}
              ELSE UpTo(served)[k - 1]
                     \cup UNION {Acts(served, p) : p \in UpTo(served)[k - 1]}]
  <1> DEFINE Step(set) == set \cup UNION {Acts(served, p) : p \in set}
             Def(f, n) == f = [k \in 0 .. n |-> IF k = 0 THEN {served} ELSE Step(f[k - 1])]
             Bad == {n \in Nat : ~\E f : Def(f, n)}
  <1>1. Bad = {}
    <2> SUFFICES ASSUME Bad # {}
                 PROVE  FALSE
      OBVIOUS
    <2>1. Min(Bad) \in Bad /\ \A n \in Bad : Min(Bad) <= n
      <3>1. Bad \subseteq Nat
        OBVIOUS
      <3> HIDE DEF Bad
      <3> QED BY <3>1, MinOf
    <2> DEFINE n == Min(Bad)
    <2>2. n \in Nat /\ ~\E f : Def(f, n)
      BY <2>1
    <2>3. n # 0 => n - 1 \in Nat /\ \E f : Def(f, n - 1)
      <3>1. n # 0 => n - 1 \in Nat /\ ~(n <= n - 1)
        BY <2>2
      <3>2. n # 0 => n - 1 \notin Bad
        BY <2>1, <3>1
      <3> QED BY <3>1, <3>2
    <2> HIDE DEF n, Step, Bad
    <2>4. CASE n = 0
      <3> DEFINE g == [k \in 0 .. 0 |-> {served}]
      <3>1. \A k \in 0 .. 0 : k = 0
        OBVIOUS
      <3>2. g = [k \in 0 .. 0 |-> IF k = 0 THEN {served} ELSE Step(g[k - 1])]
        BY <3>1
      <3>3. Def(g, n)
        BY <2>4, <3>2
      <3> QED BY <2>2, <3>3
    <2>5. CASE n # 0
      <3>1. PICK f : Def(f, n - 1)
        BY <2>3, <2>5
      <3> DEFINE g == [k \in 0 .. n |-> IF k = n THEN Step(f[n - 1]) ELSE f[k]]
      <3>2. \A k \in 0 .. n - 1 : f[k] = IF k = 0 THEN {served} ELSE Step(f[k - 1])
        BY <3>1
      <3>3. ASSUME NEW k \in 0 .. n
            PROVE  g[k] = IF k = 0 THEN {served} ELSE Step(g[k - 1])
        <4>1. CASE k = n
          <5>1. n - 1 \in 0 .. n /\ n - 1 # n /\ k # 0 /\ n \in 0 .. n
            BY <2>2, <2>3, <2>5, <4>1
          <5>2. g[n - 1] = f[n - 1] /\ g[n] = Step(f[n - 1])
            BY <5>1
          <5> QED BY <4>1, <5>1, <5>2
        <4>2. CASE k # n /\ k # 0
          <5>1. k \in 0 .. n - 1 /\ k - 1 \in 0 .. n /\ k - 1 # n
            BY <2>2, <4>2
          <5>2. g[k] = f[k] /\ g[k - 1] = f[k - 1]
            BY <4>2, <5>1
          <5> QED BY <3>2, <4>2, <5>1, <5>2
        <4>3. CASE k # n /\ k = 0
          <5>1. k \in 0 .. n - 1 /\ g[k] = f[k]
            BY <2>2, <2>5, <4>3
          <5> QED BY <3>2, <4>3, <5>1
        <4> QED BY <4>1, <4>2, <4>3
      <3>4. g = [k \in 0 .. n |-> IF k = 0 THEN {served} ELSE Step(g[k - 1])]
        <4>1. g = [k \in 0 .. n |-> g[k]]
          OBVIOUS
        <4> HIDE DEF g
        <4> QED BY <3>3, <4>1
      <3> HIDE DEF g
      <3>5. Def(g, n)
        BY <3>4
      <3> QED BY <2>2, <3>5
    <2> QED BY <2>4, <2>5
  <1>2. MaxTouches \notin Bad /\ MaxTouches \in Nat
    BY <1>1, FormAssumption
  <1>3. \E f : Def(f, MaxTouches)
    BY <1>2
  <1>4. UpTo(served) = CHOOSE f : Def(f, MaxTouches)
    BY DEF UpTo
  <1> HIDE DEF Bad
  <1>5. Def(UpTo(served), MaxTouches)
    <2> HIDE DEF Def
    <2> QED BY <1>3, <1>4
  <1> QED BY <1>5

\* Everything an editor can make of a page.
LEMMA TouchedEdits ==
    ASSUME NEW served, Servable(served), NEW page \in Touched(served)
    PROVE  Edited(served, page) /\ OfferedItems(page)
  <1> DEFINE Good(p) == Edited(served, p) /\ OfferedItems(p)
             Bad == {k \in 0 .. MaxTouches : ~\A p \in UpTo(served)[k] : Good(p)}
  <1>1. \A k \in 0 .. MaxTouches :
           UpTo(served)[k] = IF k = 0 THEN {served}
                             ELSE UpTo(served)[k - 1]
                                    \cup UNION {Acts(served, p) : p \in UpTo(served)[k - 1]}
    <2> DEFINE f == UpTo(served)
               Value(k) == IF k = 0 THEN {served}
                           ELSE f[k - 1] \cup UNION {Acts(served, p) : p \in f[k - 1]}
    <2>1. f = [k \in 0 .. MaxTouches |-> Value(k)]
      BY UpToDefined
    <2> HIDE DEF f, Value
    <2>2. \A k \in 0 .. MaxTouches : f[k] = Value(k)
      BY <2>1
    <2> QED BY <2>2 DEF f, Value
  <1>2. Good(served) /\ Edited(served, served) /\ MaxTouches \in Nat
    BY FormAssumption DEF Servable
  <1>3. Bad = {}
    <2> SUFFICES ASSUME Bad # {}
                 PROVE  FALSE
      OBVIOUS
    <2>1. Bad \subseteq Nat
      OBVIOUS
    <2> DEFINE k == Min(Bad)
    <2>2. k \in Bad /\ \A l \in Bad : k <= l
      <3> HIDE DEF Bad
      <3> QED BY <2>1, MinOf
    <2>3. k \in 0 .. MaxTouches /\ ~\A p \in UpTo(served)[k] : Good(p)
      BY <2>2
    <2>4. k # 0 => k - 1 \in 0 .. MaxTouches /\ ~(k <= k - 1)
      BY <1>2, <2>3
    <2>5. k # 0 => \A p \in UpTo(served)[k - 1] : Good(p)
      BY <2>2, <2>4
    <2> HIDE DEF k, Bad
    <2>6. CASE k = 0
      <3>1. UpTo(served)[k] = {served}
        BY <1>1, <2>3, <2>6
      <3> QED BY <1>2, <2>3, <3>1
    <2>7. CASE k # 0
      <3>1. PICK p \in UpTo(served)[k] : ~Good(p)
        BY <2>3
      <3>2. p \in UpTo(served)[k - 1] \cup UNION {Acts(served, q) : q \in UpTo(served)[k - 1]}
        BY <1>1, <2>3, <2>7, <3>1
      <3>3. PICK q \in UpTo(served)[k - 1] : p \in Acts(served, q)
        BY <2>5, <2>7, <3>1, <3>2
      <3> QED BY <1>2, <2>5, <2>7, <3>1, <3>3, ActsEdit
    <2> QED BY <2>6, <2>7
  <1>4. MaxTouches \in 0 .. MaxTouches
    BY <1>2
  <1> QED BY <1>3, <1>4 DEF Touched

----------------------------------------------------------------------------
(* The pages that are served.                                              *)

LEMMA NothingServed == Servable(EmptyPage)
  <1>1. EmptyPage.legs = <<>> /\ EmptyPage.rounds = <<>> /\ ~EmptyPage.old
        /\ EmptyPage \in Page
    BY DEF EmptyPage, Page
  <1> QED BY <1>1 DEF Servable, Edited, OfferedItems, IdsDistinct, RowsFrom, NamesDiffer, TokensFrom

LEMMA CreationServed == Servable(FirstPage)
  <1> DEFINE legs == FirstPage.legs
             rounds == FirstPage.rounds
  <1>1. /\ FirstPage \in Page /\ OfferedItems(FirstPage)
        /\ NamesDiffer(legs) /\ \A n \in DOMAIN legs : legs[n].id = 0 /\ legs[n].key = NewToken(legs[n].name)
        /\ NamesDiffer(rounds)
        /\ \A n \in DOMAIN rounds : rounds[n].id = 0 /\ rounds[n].key = NewToken(rounds[n].name)
        /\ \A n \in DOMAIN rounds : \A t \in rounds[n].legs \cup rounds[n].quals : ~Digits(t)
    BY FormAssumption
  <1> HIDE DEF legs, rounds
  <1>2. IdsDistinct(legs) /\ IdsDistinct(rounds)
    BY <1>1 DEF IdsDistinct
  <1>3. RowsFrom(legs, legs) /\ RowsFrom(rounds, rounds)
    BY <1>1 DEF RowsFrom
  <1>4. \A n \in DOMAIN rounds : RowTokens(FirstPage, rounds[n])
    BY <1>1 DEF RowTokens
  <1> QED BY <1>1, <1>2, <1>3, <1>4 DEF Servable, Edited, TokensFrom, legs, rounds

\* The page of a saved concert: its rows under their ids, and their references.
LEMMA EditServed ==
    ASSUME TypeOK, NoDanglingReference, NamesDiffer(concert.legs), NamesDiffer(concert.rounds),
           NEW old \in BOOLEAN
    PROVE  Servable(EditPage(old))
  <1> DEFINE D == DOMAIN concert.legs
             R == DOMAIN concert.rounds
             days == InOrder(D, [i \in D |-> concert.legs[i].name])
             sales == InOrder(R, [i \in R |-> i])
             legs == [n \in DOMAIN days |-> LegRow(days[n])]
             rounds == [n \in DOMAIN sales |-> RoundRow(sales[n])]
             page == EditPage(old)
             c == Cardinality(D)
             d == Cardinality(R)
  <1>1. /\ D \subseteq 1 .. MaxId /\ R \subseteq 1 .. MaxId /\ MaxId \in Nat
        /\ \A i \in D : concert.legs[i] \in Leg
        /\ \A i \in R : concert.rounds[i] \in Round
    BY FormAssumption DEF TypeOK
  <1>2. D \subseteq Nat \ {0} /\ R \subseteq Nat \ {0}
    BY <1>1
  <1>3. IsFiniteSet(D) /\ IsFiniteSet(R)
    <2>1. IsFiniteSet(1 .. MaxId) /\ D \in SUBSET (1 .. MaxId) /\ R \in SUBSET (1 .. MaxId)
      BY <1>1, FS_Interval
    <2> QED BY <2>1, FS_Subset
  <1>4. /\ c \in Nat /\ days \in [1 .. c -> D]
        /\ \A m, n \in 1 .. c : days[m] = days[n] => m = n
        /\ \A i \in D : \E n \in 1 .. c : days[n] = i
    <2> DEFINE place == [i \in D |-> concert.legs[i].name]
    <2>1. place \in [D -> Nat] /\ \A i, j \in D : place[i] = place[j] => i = j
      BY <1>1, FormAssumption DEF Leg, NamesDiffer
    <2>2. days = InOrder(D, place)
      OBVIOUS
    <2> HIDE DEF D, place, days
    <2>3. /\ Cardinality(D) \in Nat
          /\ InOrder(D, place) \in [1 .. Cardinality(D) -> D]
          /\ \A m, n \in 1 .. Cardinality(D) :
                InOrder(D, place)[m] = InOrder(D, place)[n] => m = n
          /\ \A i \in D : \E n \in 1 .. Cardinality(D) : InOrder(D, place)[n] = i
      BY ONLY <1>3, <2>1, InOrderProperties
    <2> QED BY <2>2, <2>3
  <1>5. /\ d \in Nat /\ sales \in [1 .. d -> R]
        /\ \A m, n \in 1 .. d : sales[m] = sales[n] => m = n
        /\ \A i \in R : \E n \in 1 .. d : sales[n] = i
    <2> DEFINE place == [i \in R |-> i]
    <2>1. place \in [R -> Nat] /\ \A i, j \in R : place[i] = place[j] => i = j
      BY <1>2
    <2>2. sales = InOrder(R, place)
      OBVIOUS
    <2> HIDE DEF R, place, sales
    <2>3. /\ Cardinality(R) \in Nat
          /\ InOrder(R, place) \in [1 .. Cardinality(R) -> R]
          /\ \A m, n \in 1 .. Cardinality(R) :
                InOrder(R, place)[m] = InOrder(R, place)[n] => m = n
          /\ \A i \in R : \E n \in 1 .. Cardinality(R) : InOrder(R, place)[n] = i
      BY ONLY <1>3, <2>1, InOrderProperties
    <2> QED BY <2>2, <2>3
  <1>6. page = [open |-> TRUE, new |-> FALSE, old |-> old, legs |-> legs, rounds |-> rounds]
    BY DEF EditPage
  <1> HIDE DEF days, sales, page, c, d
  <1>7. DOMAIN days = 1 .. c /\ DOMAIN sales = 1 .. d
    BY <1>4, <1>5
  <1>8. \A n \in 1 .. c : /\ days[n] \in D /\ legs[n] = LegRow(days[n])
    BY <1>4, <1>7
  <1>9. \A n \in 1 .. d : /\ sales[n] \in R /\ rounds[n] = RoundRow(sales[n])
    BY <1>5, <1>7
  <1>10. DOMAIN legs = 1 .. c /\ DOMAIN rounds = 1 .. d
    BY <1>7
  <1> HIDE DEF legs, rounds
  <1>11. ASSUME NEW n \in 1 .. c
         PROVE  /\ legs[n] \in LegLine /\ legs[n].id = days[n] /\ legs[n].id # 0
                /\ legs[n].key = IdToken(days[n]) /\ legs[n].name = concert.legs[days[n]].name
    <2>1. days[n] \in Nat \ {0} /\ concert.legs[days[n]] \in Leg
      BY <1>1, <1>2, <1>8
    <2>2. legs[n] = LegRow(days[n]) /\ IdToken(days[n]) \in Token
      BY <1>8, <2>1, Tokens
    <2>3. /\ legs[n].id = days[n] /\ legs[n].key = IdToken(days[n])
          /\ legs[n].name = concert.legs[days[n]].name
      BY <2>2 DEF LegRow
    <2>4. legs[n] \in LegLine
      BY <2>1, <2>2 DEF LegRow, LegLine, Leg
    <2> QED BY <2>1, <2>3, <2>4
  <1>12. ASSUME NEW n \in 1 .. d
         PROVE  LET r == concert.rounds[sales[n]]
                IN /\ rounds[n] \in RoundLine /\ rounds[n].id = sales[n] /\ rounds[n].id # 0
                   /\ rounds[n].key = IdToken(sales[n]) /\ rounds[n].name = r.name
                   /\ rounds[n].kind = r.kind
                   /\ rounds[n].legs = {IdToken(i) : i \in r.legs}
                   /\ rounds[n].quals = {IdToken(i) : i \in r.quals}
                   /\ rounds[n].needs = IF r.needs = NoRound THEN NoToken ELSE IdToken(r.needs)
    <2> DEFINE r == concert.rounds[sales[n]]
    <2>1. sales[n] \in Nat \ {0} /\ r \in Round
      BY <1>1, <1>2, <1>9
    <2>2. rounds[n] = RoundRow(sales[n])
      BY <1>9
    <2>3. /\ IdToken(sales[n]) \in Token /\ {IdToken(i) : i \in r.legs} \in SUBSET Token
          /\ {IdToken(i) : i \in r.quals} \in SUBSET Token
          /\ (IF r.needs = NoRound THEN NoToken ELSE IdToken(r.needs)) \in Token
      BY <2>1, Tokens DEF Round
    <2>4. /\ rounds[n].id = sales[n]
          /\ rounds[n].key = IdToken(sales[n]) /\ rounds[n].name = r.name
          /\ rounds[n].kind = r.kind
          /\ rounds[n].legs = {IdToken(i) : i \in r.legs}
          /\ rounds[n].quals = {IdToken(i) : i \in r.quals}
          /\ rounds[n].needs = IF r.needs = NoRound THEN NoToken ELSE IdToken(r.needs)
      BY <2>2 DEF RoundRow
    <2>5. rounds[n] \in RoundLine
      BY <2>1, <2>2, <2>3 DEF RoundRow, RoundLine, Round
    <2> QED BY <2>1, <2>4, <2>5
  <1>13. /\ legs \in Seq(LegLine) /\ rounds \in Seq(RoundLine)
    <2>1. legs = [n \in 1 .. c |-> legs[n]] /\ rounds = [n \in 1 .. d |-> rounds[n]]
      BY <1>7 DEF legs, rounds
    <2>2. legs \in [1 .. c -> LegLine] /\ rounds \in [1 .. d -> RoundLine]
      BY <1>11, <1>12, <2>1
    <2> QED BY <1>4, <1>5, <2>2, SequenceOf
  <1>14. page \in Page /\ page.legs = legs /\ page.rounds = rounds
    BY <1>6, <1>13 DEF Page
  <1>15. RowsFrom(legs, legs) /\ IdsDistinct(legs)
    <2>1. NamesDiffer(legs)
      BY <1>4, <1>8, <1>10, <1>11 DEF NamesDiffer
    <2>2. IdsDistinct(legs)
      BY <1>4, <1>10, <1>11 DEF IdsDistinct
    <2> QED BY <1>10, <1>11, <2>1, <2>2 DEF RowsFrom
  <1>16. RowsFrom(rounds, rounds) /\ IdsDistinct(rounds)
    <2>1. NamesDiffer(rounds)
      BY <1>5, <1>9, <1>10, <1>12 DEF NamesDiffer
    <2>2. IdsDistinct(rounds)
      BY <1>5, <1>10, <1>12 DEF IdsDistinct
    <2> QED BY <1>10, <1>12, <2>1, <2>2 DEF RowsFrom
  <1>17. \A n \in 1 .. d :
            LET r == concert.rounds[sales[n]]
            IN /\ r.legs \subseteq D /\ r.quals \subseteq R \ {sales[n]}
               /\ r.needs # NoRound => /\ r.needs \in R \ {sales[n]}
                                       /\ concert.rounds[r.needs].kind = "ITEM_SALE"
    BY <1>9 DEF NoDanglingReference
  <1>18. /\ \A i \in D : \E m \in DOMAIN legs : legs[m].id = i
         /\ \A i \in R : \E m \in DOMAIN rounds : rounds[m].id = i /\ sales[m] = i
    BY <1>4, <1>5, <1>10, <1>11, <1>12
  <1>19. \A n \in DOMAIN rounds : RowTokens(page, rounds[n])
    <2> SUFFICES ASSUME NEW n \in 1 .. d
                 PROVE  RowTokens(page, rounds[n])
      BY <1>10
    <2>1. ASSUME NEW t \in rounds[n].legs
          PROVE  t[2] # 0 /\ \E m \in DOMAIN legs : legs[m].id = t[2]
      <3>1. PICK i \in concert.rounds[sales[n]].legs : t = IdToken(i)
        BY <1>12, <2>1
      <3>2. i \in D /\ t[2] = i
        BY <1>17, <3>1 DEF IdToken
      <3> QED BY <1>2, <1>18, <3>2
    <2>2. ASSUME NEW t \in rounds[n].quals
          PROVE  t[2] # 0 /\ t[2] # rounds[n].id /\ \E m \in DOMAIN rounds : rounds[m].id = t[2]
      <3>1. PICK i \in concert.rounds[sales[n]].quals : t = IdToken(i)
        BY <1>12, <2>2
      <3>2. i \in R \ {sales[n]} /\ t[2] = i
        BY <1>17, <3>1 DEF IdToken
      <3> QED BY <1>2, <1>12, <1>18, <3>2
    <2> QED BY <1>14, <2>1, <2>2 DEF RowTokens
  <1>20. \A n \in DOMAIN rounds : rounds[n].needs \in Offered(page, n) \cup {NoToken}
    <2> SUFFICES ASSUME NEW n \in 1 .. d, concert.rounds[sales[n]].needs # NoRound
                 PROVE  rounds[n].needs \in Offered(page, n)
      BY <1>10, <1>12
    <2> DEFINE i == concert.rounds[sales[n]].needs
    <2>1. i \in R \ {sales[n]} /\ concert.rounds[i].kind = "ITEM_SALE"
      BY <1>17
    <2>2. PICK m \in DOMAIN rounds : rounds[m].id = i /\ sales[m] = i
      BY <1>18, <2>1
    <2>3. m # n /\ rounds[m].kind = "ITEM_SALE" /\ rounds[m].key = IdToken(i)
      BY <1>10, <1>12, <2>1, <2>2
    <2>4. rounds[n].needs = IdToken(i)
      BY <1>12
    <2> QED BY <1>14, <2>3, <2>4 DEF Offered
  <1>21. Servable(page)
    BY <1>14, <1>15, <1>16, <1>19, <1>20 DEF Servable, Edited, TokensFrom, OfferedItems
  <1> QED BY <1>21 DEF page

----------------------------------------------------------------------------
(* What a save stores.                                                     *)

\* Rows that came from rows with different ids have different ids and keys.
LEMMA RowsAreTold ==
    ASSUME NEW lines, NEW rows, RowsFrom(lines, rows), IdsDistinct(lines),
           \A n \in DOMAIN rows : rows[n].id \in Nat
    PROVE  /\ IdsDistinct(rows)
           /\ \A m, n \in DOMAIN rows : rows[m].key = rows[n].key => m = n
  <1>1. IdsDistinct(rows)
    <2> SUFFICES ASSUME NEW m \in DOMAIN rows, NEW n \in DOMAIN rows,
                        rows[m].id = rows[n].id, rows[m].id # 0
                 PROVE  m = n
      BY DEF IdsDistinct
    <2>1. PICK k \in DOMAIN lines : lines[k].id = rows[m].id /\ lines[k].name = rows[m].name
      BY DEF RowsFrom
    <2>2. PICK l \in DOMAIN lines : lines[l].id = rows[n].id /\ lines[l].name = rows[n].name
      BY DEF RowsFrom
    <2>3. k = l
      BY <2>1, <2>2 DEF IdsDistinct
    <2> QED BY <2>1, <2>2, <2>3 DEF RowsFrom, NamesDiffer
  <1>2. ASSUME NEW m \in DOMAIN rows, NEW n \in DOMAIN rows, rows[m].key = rows[n].key
        PROVE  m = n
    <2>1. /\ rows[m].key = IF rows[m].id = 0 THEN NewToken(rows[m].name) ELSE IdToken(rows[m].id)
          /\ rows[n].key = IF rows[n].id = 0 THEN NewToken(rows[n].name) ELSE IdToken(rows[n].id)
      BY DEF RowsFrom
    <2>2. CASE rows[m].id = 0
      <3>1. rows[n].id = 0
        BY <1>2, <2>1, <2>2, TokensDiffer
      <3>2. rows[m].name = rows[n].name
        BY <1>2, <2>1, <2>2, <3>1, TokensDiffer
      <3> QED BY <3>2 DEF RowsFrom, NamesDiffer
    <2>3. CASE rows[m].id # 0
      <3>1. rows[n].id # 0
        BY <1>2, <2>1, <2>3, TokensDiffer
      <3>2. rows[m].id = rows[n].id
        BY <1>2, <2>1, <2>3, <3>1, TokensDiffer
      <3> QED BY <1>1, <2>3, <3>2 DEF IdsDistinct
    <2> QED BY <2>2, <2>3
  <1> QED BY <1>1, <1>2

\* Every row is stored once, under an id of its own.
LEMMA Stored ==
    ASSUME NEW lines, NEW rows, NEW held, NEW top, RowsFrom(lines, rows), IdsDistinct(lines),
           Flushable(rows, held, top), NEW ids, ids = IdsOf(rows, held, top)
    PROVE  /\ DOMAIN ids = DOMAIN rows
           /\ \A n \in DOMAIN rows : /\ ids[n] \in Nat \ {0} /\ ids[n] \in Range(ids)
                                     /\ ids[n] \in held => rows[n].id = ids[n]
                                     /\ rows[n].id \in held => ids[n] = rows[n].id
                                     /\ RowOf(ids, ids[n]) = n
           /\ \A i \in Range(ids) : /\ RowOf(ids, i) \in DOMAIN rows /\ ids[RowOf(ids, i)] = i
                                    /\ i \in Nat \ {0}
  <1>1. /\ DOMAIN ids = DOMAIN rows
        /\ \A n \in DOMAIN rows : /\ ids[n] \in Nat \ {0}
                                  /\ ids[n] \in held => rows[n].id = ids[n]
                                  /\ rows[n].id \in held => ids[n] = rows[n].id
    BY IdsProperties
  <1>2. \A m, n \in DOMAIN rows : rows[m].id = rows[n].id /\ rows[m].id # 0 => m = n
    BY RowsAreTold DEF Flushable, IdsDistinct
  <1>3. \A m, n \in DOMAIN rows : ids[m] = ids[n] => m = n
    BY <1>2, IdsDiffer
  <1>4. \A n \in DOMAIN rows : ids[n] \in Range(ids)
    BY <1>1 DEF Range
  <1>5. \A i \in Range(ids) : RowOf(ids, i) \in DOMAIN rows /\ ids[RowOf(ids, i)] = i
    BY <1>1, RowOfId
  <1>6. \A n \in DOMAIN rows : RowOf(ids, ids[n]) = n
    BY <1>3, <1>4, <1>5
  <1> QED BY <1>1, <1>4, <1>5, <1>6

\* The leg rows that are filled in, and the rounds, are rows the flush can store.
LEMMA LegsFlush ==
    ASSUME TypeOK, NEW served, NEW page, Edited(served, page)
    PROVE  /\ RowsFrom(served.legs, Filled(page.legs))
           /\ Flushable(Filled(page.legs), DOMAIN concert.legs,
                        Highest(DOMAIN concert.legs, others.leg))
           /\ \A n \in DOMAIN Filled(page.legs) : Filled(page.legs)[n] \in LegLine
  <1> DEFINE rows == Filled(page.legs)
             held == DOMAIN concert.legs
  <1>1. page \in Page /\ RowsFrom(served.legs, page.legs)
    BY DEF Edited
  <1>2. page.legs \in Seq(LegLine) /\ \A n \in DOMAIN page.legs : page.legs[n] \in LegLine
    BY <1>1, NewPage
  <1>3. DOMAIN page.legs = 1 .. Len(page.legs) /\ Len(page.legs) \in Nat
    BY <1>2, LenProperties
  <1>4. /\ DOMAIN rows \in SUBSET DOMAIN page.legs
        /\ \A n \in DOMAIN rows : rows[n] = page.legs[n]
    BY DEF Filled, Restrict
  <1> HIDE DEF rows
  <1>5. IsFiniteSet(DOMAIN page.legs)
    BY <1>3, FS_Interval
  <1>6. IsFiniteSet(DOMAIN rows) /\ DOMAIN rows \subseteq Nat
    BY <1>3, <1>4, <1>5, FS_Subset
  <1>7. RowsFrom(served.legs, rows)
    BY <1>1, <1>4 DEF RowsFrom, NamesDiffer
  <1>8. \A n \in DOMAIN rows : rows[n] \in LegLine /\ rows[n].id \in Nat
    BY <1>2, <1>4 DEF LegLine
  <1>9. held \subseteq 1 .. MaxId /\ others.leg \in Nat /\ MaxId \in Nat
    BY FormAssumption DEF TypeOK
  <1> HIDE DEF held
  <1>10. Highest(held, others.leg) \in Nat /\ \A i \in held : i <= Highest(held, others.leg)
    BY <1>9, HighestOf
  <1>11. held \subseteq Nat \ {0}
    BY <1>9
  <1>12. Flushable(rows, held, Highest(held, others.leg))
    BY <1>6, <1>8, <1>10, <1>11 DEF Flushable
  <1> QED BY <1>7, <1>8, <1>12 DEF rows, held

LEMMA RoundsFlush ==
    ASSUME TypeOK, NEW served, NEW page, Edited(served, page)
    PROVE  /\ RowsFrom(served.rounds, page.rounds)
           /\ Flushable(page.rounds, DOMAIN concert.rounds,
                        Highest(DOMAIN concert.rounds, others.round))
           /\ \A n \in DOMAIN page.rounds : page.rounds[n] \in RoundLine
  <1> DEFINE rows == page.rounds
             held == DOMAIN concert.rounds
  <1>1. page \in Page /\ RowsFrom(served.rounds, rows)
    BY DEF Edited
  <1>2. rows \in Seq(RoundLine) /\ \A n \in DOMAIN rows : rows[n] \in RoundLine
    BY <1>1, NewPage
  <1> HIDE DEF rows
  <1>3. DOMAIN rows = 1 .. Len(rows) /\ Len(rows) \in Nat
    BY <1>2, LenProperties
  <1>4. IsFiniteSet(DOMAIN rows) /\ DOMAIN rows \subseteq Nat
    BY <1>3, FS_Interval
  <1>5. \A n \in DOMAIN rows : rows[n].id \in Nat
    BY <1>2 DEF RoundLine
  <1>6. held \subseteq 1 .. MaxId /\ others.round \in Nat /\ MaxId \in Nat
    BY FormAssumption DEF TypeOK
  <1> HIDE DEF held
  <1>7. Highest(held, others.round) \in Nat /\ \A i \in held : i <= Highest(held, others.round)
    BY <1>6, HighestOf
  <1>8. held \subseteq Nat \ {0}
    BY <1>6
  <1>9. Flushable(rows, held, Highest(held, others.round))
    BY <1>4, <1>5, <1>7, <1>8 DEF Flushable
  <1> QED BY <1>1, <1>2, <1>9 DEF rows, held

\* A name is the id of a surviving row, or nothing.
LEMMA NamedIsKnown ==
    ASSUME NEW t, NEW valid, NEW keyed, \A u \in DOMAIN keyed : keyed[u] \in valid
    PROVE  Named(t, valid, keyed) \in valid \cup {NoRound}
  <1>1. CASE Digits(t) /\ t[2] \in valid
    BY <1>1 DEF Named
  <1>2. CASE ~(Digits(t) /\ t[2] \in valid) /\ t \in DOMAIN keyed
    BY <1>2 DEF Named
  <1>3. CASE ~(Digits(t) /\ t[2] \in valid) /\ t \notin DOMAIN keyed
    BY <1>3 DEF Named
  <1> QED BY <1>1, <1>2, <1>3

\* A key names the id of a surviving row.
LEMMA KeyedIsKnown ==
    ASSUME NEW rows, DOMAIN rows \subseteq Nat, NEW ids, DOMAIN ids = DOMAIN rows
    PROVE  \A u \in DOMAIN Keyed(rows, ids) : Keyed(rows, ids)[u] \in Range(ids)
  BY KeyedProperties DEF Range

\* A required item is another item sale.
LEMMA RequiresProperties ==
    ASSUME NEW page, NEW row, NEW kinds, NEW keyed, NEW self,
           \A u \in DOMAIN keyed : keyed[u] \in DOMAIN kinds,
           NEW rid, rid = Requires(page, row, kinds, keyed, self), rid # Refused, rid # NoRound
    PROVE  /\ rid \in DOMAIN kinds \ {self} /\ kinds[rid] = "ITEM_SALE"
           /\ rid = Named(row.needs, DOMAIN kinds, keyed)
  <1> DEFINE named == Named(row.needs, DOMAIN kinds, keyed)
  <1>1. named \in DOMAIN kinds \cup {NoRound}
    BY NamedIsKnown
  <1> HIDE DEF named
  <1>2. ResolveRoundRequires(row.needs, kinds, keyed, self)
          = IF row.needs = NoToken THEN NoRound
            ELSE IF named = NoRound \/ named = self \/ kinds[named] # "ITEM_SALE" THEN Refused
            ELSE named
    BY DEF ResolveRoundRequires, named
  <1>3. rid = ResolveRoundRequires(row.needs, kinds, keyed, self)
    BY DEF Requires
  <1>4. rid = named /\ named # NoRound /\ named # self /\ kinds[named] = "ITEM_SALE"
    BY <1>2, <1>3
  <1> QED BY <1>1, <1>4 DEF named

\* The legs a save stores: one for every row filled in, and keys that name them.
StoredLegs(page, legs) ==
    LET rows == Filled(page.legs)
        ids == LegIds(page)
    IN /\ DOMAIN legs.rows = Range(ids)
       /\ \A n \in DOMAIN rows : /\ ids[n] \in DOMAIN legs.rows
                                 /\ legs.rows[ids[n]].name = rows[n].name
                                 /\ legs.rows[ids[n]].off = rows[n].off
       /\ \A i \in DOMAIN legs.rows : i # NoRound /\ \E n \in DOMAIN rows : ids[n] = i
       /\ legs.rows \in [DOMAIN legs.rows -> Leg] /\ NamesDiffer(legs.rows)
       /\ \A u \in DOMAIN legs.keyed : legs.keyed[u] \in DOMAIN legs.rows
       /\ legs.keyed = IF page.old THEN <<>> ELSE Keyed(rows, ids)

LEMMA LegsSaved ==
    ASSUME TypeOK, NEW served, Servable(served), NEW page, Edited(served, page),
           NEW legs, legs = SavedLegs(page)
    PROVE  StoredLegs(page, legs)
  <1> DEFINE rows == Filled(page.legs)
             ids == LegIds(page)
             held == DOMAIN concert.legs
             top == Highest(DOMAIN concert.legs, others.leg)
  <1>1. /\ RowsFrom(served.legs, rows) /\ Flushable(rows, held, top)
        /\ \A n \in DOMAIN rows : rows[n] \in LegLine
    BY LegsFlush
  <1>2. ids = IdsOf(rows, held, top) /\ IdsDistinct(served.legs)
    BY DEF LegIds, Servable
  <1>3. /\ legs.rows = [i \in Range(ids) |-> [name |-> rows[RowOf(ids, i)].name,
                                              off |-> rows[RowOf(ids, i)].off]]
        /\ legs.keyed = IF page.old THEN <<>> ELSE Keyed(rows, ids)
    BY DEF SavedLegs
  <1> HIDE DEF rows, ids, held, top
  <1>4. /\ DOMAIN ids = DOMAIN rows
        /\ \A n \in DOMAIN rows : ids[n] \in Range(ids) /\ RowOf(ids, ids[n]) = n
        /\ \A i \in Range(ids) : /\ RowOf(ids, i) \in DOMAIN rows /\ ids[RowOf(ids, i)] = i
                                 /\ i \in Nat \ {0}
    BY <1>1, <1>2, Stored
  <1>5. DOMAIN legs.rows = Range(ids)
    BY <1>3
  <1>6. \A n \in DOMAIN rows : /\ ids[n] \in DOMAIN legs.rows
                               /\ legs.rows[ids[n]].name = rows[n].name
                               /\ legs.rows[ids[n]].off = rows[n].off
    BY <1>3, <1>4
  <1>7. \A i \in DOMAIN legs.rows : i # NoRound /\ \E n \in DOMAIN rows : ids[n] = i
    BY <1>4, <1>5 DEF NoRound
  <1>8. legs.rows \in [DOMAIN legs.rows -> Leg]
    <2>1. \A i \in Range(ids) : legs.rows[i] \in Leg
      BY <1>1, <1>3, <1>4 DEF LegLine, Leg
    <2> QED BY <1>3, <2>1
  <1>9. NamesDiffer(legs.rows)
    <2> SUFFICES ASSUME NEW i \in DOMAIN legs.rows, NEW j \in DOMAIN legs.rows,
                        legs.rows[i].name = legs.rows[j].name
                 PROVE  i = j
      BY DEF NamesDiffer
    <2>1. PICK m \in DOMAIN rows : ids[m] = i
      BY <1>7
    <2>2. PICK n \in DOMAIN rows : ids[n] = j
      BY <1>7
    <2>3. legs.rows[ids[m]].name = rows[m].name /\ legs.rows[ids[n]].name = rows[n].name
      BY <1>6
    <2>4. rows[m].name = rows[n].name
      BY <2>1, <2>2, <2>3
    <2> QED BY <1>1, <2>1, <2>2, <2>4 DEF RowsFrom, NamesDiffer
  <1>10. \A u \in DOMAIN legs.keyed : legs.keyed[u] \in DOMAIN legs.rows
    <2>1. CASE page.old
      BY <1>3, <2>1
    <2>2. CASE ~page.old
      <3>1. legs.keyed = Keyed(rows, ids)
        BY <1>3, <2>2
      <3>2. DOMAIN rows \subseteq Nat
        BY <1>1 DEF Flushable
      <3>3. \A u \in DOMAIN Keyed(rows, ids) : Keyed(rows, ids)[u] \in Range(ids)
        BY <1>4, <3>2, KeyedIsKnown
      <3> QED BY <1>5, <3>1, <3>3
    <2> QED BY <2>1, <2>2
  <1> QED BY <1>3, <1>5, <1>6, <1>7, <1>8, <1>9, <1>10 DEF rows, ids, StoredLegs

\* The keys the rounds of a page may be required by, and their kinds.
RoundKeys(page) == IF page.old THEN <<>> ELSE Keyed(page.rounds, RoundIds(page))
Kinds(rounds) == [i \in DOMAIN rounds |-> rounds[i].kind]

\* What is posted for a round is about that round.
LEMMA PostedProperties ==
    ASSUME NEW page, NEW row \in RoundLine
    PROVE  /\ Posted(page, row).name = row.name /\ Posted(page, row).kind = row.kind
           /\ Posted(page, row).id = row.id
           /\ ~page.old => Posted(page, row) = row
           /\ page.old /\ row.id \in DOMAIN concert.rounds =>
                 /\ Posted(page, row).legs = RoundRow(row.id).legs
                 /\ Posted(page, row).quals = RoundRow(row.id).quals
                 /\ Posted(page, row).needs = RoundRow(row.id).needs
  <1> DEFINE old == RoundRow(row.id)
             kept == [row EXCEPT !.legs = old.legs, !.quals = old.quals, !.needs = old.needs]
             bare == [row EXCEPT !.legs = {}, !.quals = {}, !.needs = NoToken]
  <1>1. /\ kept.name = row.name /\ kept.kind = row.kind /\ kept.id = row.id
        /\ kept.legs = old.legs /\ kept.quals = old.quals /\ kept.needs = old.needs
        /\ bare.name = row.name /\ bare.kind = row.kind /\ bare.id = row.id
    BY DEF RoundLine
  <1>2. Posted(page, row) = IF ~page.old THEN row
                            ELSE IF row.id \in DOMAIN concert.rounds THEN kept ELSE bare
    BY DEF Posted
  <1> HIDE DEF old, kept, bare
  <1>3. CASE ~page.old
    BY <1>2, <1>3
  <1>4. CASE page.old /\ row.id \in DOMAIN concert.rounds
    BY <1>1, <1>2, <1>4 DEF old
  <1>5. CASE page.old /\ row.id \notin DOMAIN concert.rounds
    BY <1>1, <1>2, <1>5
  <1> QED BY <1>3, <1>4, <1>5

\* The rounds a save stores: one for every row, with what was posted for it.
StoredRounds(page, legs, rounds) ==
    LET rows == page.rounds
        ids == RoundIds(page)
    IN /\ DOMAIN rounds = Range(ids)
       /\ \A n \in DOMAIN rows :
             LET r == rounds[ids[n]]
                 posted == Posted(page, rows[n])
             IN /\ ids[n] \in DOMAIN rounds
                /\ r.name = rows[n].name /\ r.kind = rows[n].kind
                /\ r.legs = ParseRoundLegs(posted.legs, DOMAIN legs.rows, legs.keyed)
                /\ r.quals = IF r.kind = "UPGRADE"
                             THEN ParseRoundQualifiers(posted.quals, DOMAIN rounds, ids[n])
                             ELSE {}
                /\ r.needs = Requires(page, posted, Kinds(rounds), RoundKeys(page), ids[n])
       /\ \A i \in DOMAIN rounds : /\ i # NoRound /\ \E n \in DOMAIN rows : ids[n] = i
                                   /\ rounds[i] = [name |-> rounds[i].name,
                                                   kind |-> rounds[i].kind,
                                                   legs |-> rounds[i].legs,
                                                   quals |-> rounds[i].quals,
                                                   needs |-> rounds[i].needs]
       /\ \A u \in DOMAIN RoundKeys(page) : RoundKeys(page)[u] \in DOMAIN rounds
       /\ NamesDiffer(rounds) /\ rounds = [i \in DOMAIN rounds |-> rounds[i]]

LEMMA RoundsSaved ==
    ASSUME TypeOK, NEW served, Servable(served), NEW page, Edited(served, page),
           NEW legs, NEW rounds, rounds = SavedRounds(page, legs)
    PROVE  StoredRounds(page, legs, rounds)
  <1> DEFINE rows == page.rounds
             ids == RoundIds(page)
             held == DOMAIN concert.rounds
             top == Highest(DOMAIN concert.rounds, others.round)
             keyed == RoundKeys(page)
             At(i) == Posted(page, rows[RowOf(ids, i)])
             kinds == [i \in Range(ids) |-> At(i).kind]
             Saved(i) == [name |-> At(i).name, kind |-> At(i).kind,
                          legs |-> ParseRoundLegs(At(i).legs, DOMAIN legs.rows, legs.keyed),
                          quals |-> IF At(i).kind = "UPGRADE"
                                    THEN ParseRoundQualifiers(At(i).quals, Range(ids), i) ELSE {},
                          needs |-> Requires(page, At(i), kinds, keyed, i)]
  <1>1. /\ RowsFrom(served.rounds, rows) /\ Flushable(rows, held, top)
        /\ \A n \in DOMAIN rows : rows[n] \in RoundLine
    BY RoundsFlush
  <1>2. ids = IdsOf(rows, held, top) /\ IdsDistinct(served.rounds)
    BY DEF RoundIds, Servable
  <1>3. rounds = [i \in Range(ids) |-> Saved(i)]
    BY DEF SavedRounds, RoundKeys
  <1>4. keyed = IF page.old THEN <<>> ELSE Keyed(rows, ids)
    BY DEF RoundKeys
  <1> HIDE DEF rows, ids, held, top, keyed
  <1>5. /\ DOMAIN ids = DOMAIN rows
        /\ \A n \in DOMAIN rows : ids[n] \in Range(ids) /\ RowOf(ids, ids[n]) = n
        /\ \A i \in Range(ids) : /\ RowOf(ids, i) \in DOMAIN rows /\ ids[RowOf(ids, i)] = i
                                 /\ i \in Nat \ {0}
    BY <1>1, <1>2, Stored
  <1>6. \A n \in DOMAIN rows : At(ids[n]) = Posted(page, rows[n])
    BY <1>5
  <1>7. \A i \in Range(ids) : At(i).kind = rows[RowOf(ids, i)].kind
    BY <1>1, <1>5, PostedProperties
  <1>8. DOMAIN rounds = Range(ids) /\ \A i \in Range(ids) : rounds[i] = Saved(i)
    BY <1>3
  <1>9. \A i \in Range(ids) :
           /\ Saved(i).name = At(i).name /\ Saved(i).kind = At(i).kind
           /\ Saved(i).legs = ParseRoundLegs(At(i).legs, DOMAIN legs.rows, legs.keyed)
           /\ Saved(i).quals = IF At(i).kind = "UPGRADE"
                               THEN ParseRoundQualifiers(At(i).quals, Range(ids), i) ELSE {}
           /\ Saved(i).needs = Requires(page, At(i), kinds, keyed, i)
           /\ Saved(i) = [name |-> Saved(i).name, kind |-> Saved(i).kind,
                          legs |-> Saved(i).legs, quals |-> Saved(i).quals,
                          needs |-> Saved(i).needs]
    OBVIOUS
  <1>10. kinds = [i \in Range(ids) |-> At(i).kind]
    OBVIOUS
  <1> HIDE DEF Saved, At, kinds
  <1>16. kinds = Kinds(rounds)
    <2>1. \A i \in Range(ids) : rounds[i].kind = At(i).kind
      BY <1>8, <1>9
    <2> QED BY <1>8, <1>10, <2>1 DEF Kinds
  <1>11. ASSUME NEW n \in DOMAIN rows
         PROVE  LET r == rounds[ids[n]]
                    posted == Posted(page, rows[n])
                IN /\ ids[n] \in DOMAIN rounds
                   /\ r.name = rows[n].name /\ r.kind = rows[n].kind
                   /\ r.legs = ParseRoundLegs(posted.legs, DOMAIN legs.rows, legs.keyed)
                   /\ r.quals = IF r.kind = "UPGRADE"
                                THEN ParseRoundQualifiers(posted.quals, DOMAIN rounds, ids[n])
                                ELSE {}
                   /\ r.needs = Requires(page, posted, Kinds(rounds), keyed, ids[n])
    <2>1. ids[n] \in Range(ids) /\ At(ids[n]) = Posted(page, rows[n])
      BY <1>5, <1>6
    <2>2. /\ Posted(page, rows[n]).name = rows[n].name
          /\ Posted(page, rows[n]).kind = rows[n].kind
      BY <1>1, PostedProperties
    <2> QED BY <1>8, <1>9, <1>16, <2>1, <2>2
  <1>12. \A i \in DOMAIN rounds : /\ i # NoRound /\ \E n \in DOMAIN rows : ids[n] = i
                                  /\ rounds[i] = [name |-> rounds[i].name,
                                                  kind |-> rounds[i].kind,
                                                  legs |-> rounds[i].legs,
                                                  quals |-> rounds[i].quals,
                                                  needs |-> rounds[i].needs]
    BY <1>5, <1>8, <1>9 DEF NoRound
  <1>13. \A u \in DOMAIN keyed : keyed[u] \in DOMAIN rounds
    <2>1. CASE page.old
      BY <1>4, <2>1
    <2>2. CASE ~page.old
      <3>1. keyed = Keyed(rows, ids)
        BY <1>4, <2>2
      <3>2. DOMAIN rows \subseteq Nat
        BY <1>1 DEF Flushable
      <3>3. \A u \in DOMAIN Keyed(rows, ids) : Keyed(rows, ids)[u] \in Range(ids)
        BY <1>5, <3>2, KeyedIsKnown
      <3> QED BY <1>8, <3>1, <3>3
    <2> QED BY <2>1, <2>2
  <1>14. NamesDiffer(rounds)
    <2> SUFFICES ASSUME NEW i \in DOMAIN rounds, NEW j \in DOMAIN rounds,
                        rounds[i].name = rounds[j].name
                 PROVE  i = j
      BY DEF NamesDiffer
    <2>1. PICK m \in DOMAIN rows : ids[m] = i
      BY <1>12
    <2>2. PICK n \in DOMAIN rows : ids[n] = j
      BY <1>12
    <2>3. rounds[i].name = rows[m].name
      BY <1>11, <2>1
    <2>4. rounds[j].name = rows[n].name
      BY <1>11, <2>2
    <2> QED BY <1>1, <2>1, <2>2, <2>3, <2>4 DEF RowsFrom, NamesDiffer
  <1>15. rounds = [i \in DOMAIN rounds |-> rounds[i]]
    BY <1>3
  <1> QED BY <1>8, <1>11, <1>12, <1>13, <1>14, <1>15 DEF rows, ids, keyed, StoredRounds

\* A save that is not refused stores rounds that refer to what it stores.
LEMMA SaveIsSound ==
    ASSUME TypeOK, NEW served, Servable(served), NEW page, Edited(served, page),
           NEW legs, legs = SavedLegs(page), NEW rounds, rounds = SavedRounds(page, legs),
           DOMAIN legs.rows \cup DOMAIN rounds \subseteq 1 .. MaxId,
           \A i \in DOMAIN rounds : rounds[i].needs # Refused
    PROVE  /\ rounds \in [DOMAIN rounds -> Round]
           /\ \A i \in DOMAIN rounds :
                 LET r == rounds[i]
                 IN /\ r.legs \subseteq DOMAIN legs.rows
                    /\ r.quals \subseteq DOMAIN rounds \ {i}
                    /\ r.needs # NoRound => /\ r.needs \in DOMAIN rounds \ {i}
                                            /\ rounds[r.needs].kind = "ITEM_SALE"
  <1> DEFINE rows == page.rounds
             ids == RoundIds(page)
  <1>1. /\ \A n \in DOMAIN rows :
              LET r == rounds[ids[n]]
                  posted == Posted(page, rows[n])
              IN /\ ids[n] \in DOMAIN rounds
                 /\ r.name = rows[n].name /\ r.kind = rows[n].kind
                 /\ r.legs = ParseRoundLegs(posted.legs, DOMAIN legs.rows, legs.keyed)
                 /\ r.quals = IF r.kind = "UPGRADE"
                              THEN ParseRoundQualifiers(posted.quals, DOMAIN rounds, ids[n])
                              ELSE {}
                 /\ r.needs = Requires(page, posted, Kinds(rounds), RoundKeys(page), ids[n])
        /\ \A i \in DOMAIN rounds : \E n \in DOMAIN rows : ids[n] = i
        /\ \A i \in DOMAIN rounds : rounds[i] = [name |-> rounds[i].name,
                                                 kind |-> rounds[i].kind,
                                                 legs |-> rounds[i].legs,
                                                 quals |-> rounds[i].quals,
                                                 needs |-> rounds[i].needs]
        /\ \A u \in DOMAIN RoundKeys(page) : RoundKeys(page)[u] \in DOMAIN rounds
        /\ rounds = [i \in DOMAIN rounds |-> rounds[i]]
    <2>1. StoredRounds(page, legs, rounds)
      BY RoundsSaved
    <2> QED BY ONLY <2>1 DEF StoredRounds
  <1>2. \A u \in DOMAIN legs.keyed : legs.keyed[u] \in DOMAIN legs.rows
    <2>1. StoredLegs(page, legs)
      BY LegsSaved
    <2> QED BY ONLY <2>1 DEF StoredLegs
  <1>3. \A n \in DOMAIN rows : rows[n] \in RoundLine
    BY RoundsFlush
  <1> HIDE DEF rows, ids
  <1>4. ASSUME NEW i \in DOMAIN rounds
        PROVE  /\ rounds[i].legs \subseteq DOMAIN legs.rows
               /\ rounds[i].quals \subseteq DOMAIN rounds \ {i}
               /\ rounds[i].needs # NoRound =>
                     /\ rounds[i].needs \in DOMAIN rounds \ {i}
                     /\ rounds[rounds[i].needs].kind = "ITEM_SALE"
               /\ rounds[i].name \in Sale /\ rounds[i].kind \in RoundKind
    <2>1. PICK n \in DOMAIN rows : ids[n] = i
      BY <1>1
    <2> DEFINE posted == Posted(page, rows[n])
    <2>2. /\ rounds[i].name = rows[n].name /\ rounds[i].kind = rows[n].kind
          /\ rounds[i].legs = ParseRoundLegs(posted.legs, DOMAIN legs.rows, legs.keyed)
          /\ rounds[i].quals = IF rounds[i].kind = "UPGRADE"
                               THEN ParseRoundQualifiers(posted.quals, DOMAIN rounds, i)
                               ELSE {}
          /\ rounds[i].needs = Requires(page, posted, Kinds(rounds), RoundKeys(page), i)
      BY <1>1, <2>1
    <2> HIDE DEF posted
    <2>3. rounds[i].legs \subseteq DOMAIN legs.rows
      <3>1. \A u : Named(u, DOMAIN legs.rows, legs.keyed) \in DOMAIN legs.rows \cup {NoRound}
        BY <1>2, NamedIsKnown
      <3> QED BY <2>2, <3>1 DEF ParseRoundLegs
    <2>4. rounds[i].quals \subseteq DOMAIN rounds \ {i}
      BY <2>2 DEF ParseRoundQualifiers
    <2>5. ASSUME rounds[i].needs # NoRound
          PROVE  /\ rounds[i].needs \in DOMAIN rounds \ {i}
                 /\ rounds[rounds[i].needs].kind = "ITEM_SALE"
      <3>1. DOMAIN Kinds(rounds) = DOMAIN rounds /\ \A j \in DOMAIN rounds : Kinds(rounds)[j] = rounds[j].kind
        BY DEF Kinds
      <3>2. /\ rounds[i].needs \in DOMAIN Kinds(rounds) \ {i}
            /\ Kinds(rounds)[rounds[i].needs] = "ITEM_SALE"
        BY <1>1, <2>2, <2>5, <3>1, RequiresProperties
      <3> QED BY <3>1, <3>2
    <2>6. rounds[i].name \in Sale /\ rounds[i].kind \in RoundKind
      BY <1>3, <2>2 DEF RoundLine
    <2> QED BY <2>3, <2>4, <2>5, <2>6
  <1>5. \A i \in DOMAIN rounds : rounds[i] \in Round
    <2> SUFFICES ASSUME NEW i \in DOMAIN rounds
                 PROVE  rounds[i] \in Round
      OBVIOUS
    <2>1. /\ DOMAIN legs.rows \subseteq Nat /\ DOMAIN rounds \subseteq Nat /\ NoRound \in Nat
      BY DEF NoRound
    <2>2. /\ rounds[i].legs \in SUBSET Nat /\ rounds[i].quals \in SUBSET Nat
          /\ rounds[i].needs \in Nat /\ rounds[i].name \in Sale /\ rounds[i].kind \in RoundKind
      BY <1>4, <2>1
    <2> QED BY <1>1, <2>2 DEF Round
  <1> QED BY <1>1, <1>4, <1>5

----------------------------------------------------------------------------
(* The invariant.                                                          *)

\* Any save starts from an edited page and stores what it says.
LEMMA SubmitStores ==
    ASSUME FormInv, NEW t \in Tab, Submit(t)
    PROVE  \E page, legs, rounds :
              /\ Edited(pages[t], page) /\ OfferedItems(page) /\ Servable(pages[t])
              /\ legs = SavedLegs(page) /\ rounds = SavedRounds(page, legs)
              /\ DOMAIN legs.rows \cup DOMAIN rounds \subseteq 1 .. MaxId
              /\ \A i \in DOMAIN rounds : rounds[i].needs # Refused
              /\ concert'.made = TRUE /\ concert'.legs = legs.rows /\ concert'.rounds = rounds
              /\ shown' = IF page.old \/ HandedOn(pages[t], legs.rows, rounds)
                          THEN Unread ELSE Shown(page, rounds)
  <1>1. PICK page \in Touched(pages[t]) :
           LET legs == SavedLegs(page)
               rounds == SavedRounds(page, legs)
           IN /\ DOMAIN legs.rows \cup DOMAIN rounds \subseteq 1 .. MaxId
              /\ \A i \in DOMAIN rounds : rounds[i].needs # Refused
              /\ concert' = [made |-> TRUE, legs |-> legs.rows, rounds |-> rounds]
              /\ shown' = IF page.old \/ HandedOn(pages[t], legs.rows, rounds)
                          THEN Unread ELSE Shown(page, rounds)
    BY Zenon DEF Submit
  <1>2. Servable(pages[t])
    BY DEF FormInv
  <1>3. Edited(pages[t], page) /\ OfferedItems(page)
    BY <1>2, TouchedEdits
  <1> DEFINE legs == SavedLegs(page)
             rounds == SavedRounds(page, legs)
  <1>4. /\ DOMAIN legs.rows \cup DOMAIN rounds \subseteq 1 .. MaxId
        /\ \A i \in DOMAIN rounds : rounds[i].needs # Refused
        /\ concert' = [made |-> TRUE, legs |-> legs.rows, rounds |-> rounds]
        /\ shown' = IF page.old \/ HandedOn(pages[t], legs.rows, rounds)
                    THEN Unread ELSE Shown(page, rounds)
    BY <1>1
  <1>5. \E l, r : l = legs /\ r = rounds
    OBVIOUS
  <1> HIDE DEF legs
  <1>6. rounds = SavedRounds(page, legs)
    OBVIOUS
  <1> HIDE DEF rounds
  <1>7. concert'.made = TRUE /\ concert'.legs = legs.rows /\ concert'.rounds = rounds
    BY <1>4
  <1>8. legs = SavedLegs(page)
    BY DEF legs
  <1> QED BY <1>2, <1>3, <1>4, <1>6, <1>7, <1>8

THEOREM FormInvariant == Spec => []FormInv
  <1>1. Init => FormInv
    <2> SUFFICES ASSUME Init
                 PROVE  FormInv
      OBVIOUS
    <2>1. /\ concert = [made |-> FALSE, legs |-> <<>>, rounds |-> <<>>]
          /\ pages = [t \in Tab |-> EmptyPage] /\ others = NoOthers /\ saves = 0
      BY DEF Init
    <2>2. /\ concert.made = FALSE /\ DOMAIN concert.legs = {} /\ DOMAIN concert.rounds = {}
          /\ concert.legs = <<>> /\ concert.rounds = <<>>
      BY <2>1
    <2>3. \A t \in Tab : pages[t] = EmptyPage
      BY <2>1
    <2>4. EmptyPage \in Page
      BY NothingServed DEF Servable, Edited
    <2>5. TypeOK
      <3>1. concert.legs \in [DOMAIN concert.legs -> Leg] /\ concert.rounds \in [DOMAIN concert.rounds -> Round]
        BY <2>2
      <3>2. pages \in [Tab -> Page] /\ others \in [leg : Nat, round : Nat]
        BY <2>1, <2>4 DEF NoOthers
      <3> QED BY <2>1, <2>2, <3>1, <3>2 DEF TypeOK
    <2>6. NoDanglingReference /\ NamesDiffer(concert.legs) /\ NamesDiffer(concert.rounds)
      BY <2>2 DEF NoDanglingReference, NamesDiffer
    <2> QED BY <2>3, <2>5, <2>6, NothingServed DEF FormInv
  <1>2. FormInv /\ [Next]_vars => FormInv'
    <2> SUFFICES ASSUME FormInv, [Next]_vars
                 PROVE  FormInv'
      OBVIOUS
    <2>1. /\ TypeOK /\ NoDanglingReference
          /\ NamesDiffer(concert.legs) /\ NamesDiffer(concert.rounds)
          /\ \A t \in Tab : Servable(pages[t])
      BY DEF FormInv
    <2>2. /\ pages \in [Tab -> Page] /\ others \in [leg : Nat, round : Nat] /\ saves \in Nat
      BY <2>1 DEF TypeOK
    <2>3. ASSUME NEW t \in Tab, NEW served, Servable(served),
                 pages' = [pages EXCEPT ![t] = served]
          PROVE  pages' \in [Tab -> Page] /\ \A u \in Tab : Servable(pages'[u])
      <3>1. served \in Page
        BY <2>3 DEF Servable, Edited
      <3> QED BY <2>1, <2>2, <2>3, <3>1
    <2>4. ASSUME NEW t \in Tab, Submit(t)
          PROVE  FormInv'
      <3>1. PICK page, legs, rounds :
               /\ Edited(pages[t], page) /\ Servable(pages[t])
               /\ legs = SavedLegs(page) /\ rounds = SavedRounds(page, legs)
               /\ DOMAIN legs.rows \cup DOMAIN rounds \subseteq 1 .. MaxId
               /\ \A i \in DOMAIN rounds : rounds[i].needs # Refused
               /\ concert'.made = TRUE /\ concert'.legs = legs.rows /\ concert'.rounds = rounds
        BY <2>4, SubmitStores, Zenon
      <3>2. /\ pages' = [pages EXCEPT ![t] = EmptyPage] /\ saves' = saves + 1
            /\ others' = others
        BY <2>4 DEF Submit
      <3>3. pages' \in [Tab -> Page] /\ \A u \in Tab : Servable(pages'[u])
        BY <2>3, <3>2, NothingServed
      <3>4. legs.rows \in [DOMAIN legs.rows -> Leg] /\ NamesDiffer(legs.rows)
        BY <2>1, <3>1, LegsSaved DEF StoredLegs
      <3>5. NamesDiffer(rounds)
        BY <2>1, <3>1, RoundsSaved DEF StoredRounds
      <3>6. /\ rounds \in [DOMAIN rounds -> Round]
            /\ \A i \in DOMAIN rounds :
                  LET r == rounds[i]
                  IN /\ r.legs \subseteq DOMAIN legs.rows
                     /\ r.quals \subseteq DOMAIN rounds \ {i}
                     /\ r.needs # NoRound => /\ r.needs \in DOMAIN rounds \ {i}
                                             /\ rounds[r.needs].kind = "ITEM_SALE"
        BY <2>1, <3>1, SaveIsSound
      <3>7. TypeOK'
        <4>1. /\ concert'.made \in BOOLEAN
              /\ concert'.legs \in [DOMAIN concert'.legs -> Leg]
              /\ concert'.rounds \in [DOMAIN concert'.rounds -> Round]
              /\ DOMAIN concert'.legs \cup DOMAIN concert'.rounds \subseteq 1 .. MaxId
          BY <3>1, <3>4, <3>6
        <4>2. others' \in [leg : Nat, round : Nat] /\ saves' \in Nat
          BY <2>2, <3>2
        <4> QED BY <3>3, <4>1, <4>2 DEF TypeOK
      <3>8. NoDanglingReference'
        BY <3>1, <3>6 DEF NoDanglingReference
      <3>9. NamesDiffer(concert'.legs) /\ NamesDiffer(concert'.rounds)
        BY <3>1, <3>4, <3>5
      <3> QED BY <3>3, <3>7, <3>8, <3>9 DEF FormInv
    <2>5. ASSUME NEW t \in Tab, NEW served, Servable(served),
                 pages' = [pages EXCEPT ![t] = served], UNCHANGED <<concert, others, saves>>
          PROVE  FormInv'
      <3>1. pages' \in [Tab -> Page] /\ \A u \in Tab : Servable(pages'[u])
        BY <2>3, <2>5
      <3>2. TypeOK'
        BY <2>1, <2>5, <3>1 DEF TypeOK
      <3>3. NoDanglingReference'
        BY <2>1, <2>5 DEF NoDanglingReference
      <3> QED BY <2>1, <2>5, <3>1, <3>2, <3>3 DEF FormInv
    <2>6. ASSUME NEW t \in Tab, OpenNew(t)
          PROVE  FormInv'
      BY <2>5, <2>6, CreationServed DEF OpenNew
    <2>7. ASSUME NEW t \in Tab, OpenEdit(t)
          PROVE  FormInv'
      <3>1. PICK old \in BOOLEAN : pages' = [pages EXCEPT ![t] = EditPage(old)]
        BY <2>7 DEF OpenEdit
      <3>2. Servable(EditPage(old))
        BY <2>1, EditServed
      <3>3. UNCHANGED <<concert, others, saves>>
        BY <2>7 DEF OpenEdit
      <3> QED BY <2>5, <3>1, <3>2, <3>3
    <2>8. CASE OthersChange
      <3>1. concert' = concert /\ pages' = pages /\ saves' = saves
        BY <2>8 DEF OthersChange
      <3>2. DOMAIN concert.legs \subseteq 1 .. MaxId /\ DOMAIN concert.rounds \subseteq 1 .. MaxId
        BY <2>1 DEF TypeOK
      <3>3. Highest(DOMAIN concert.legs, 0) \in Nat /\ Highest(DOMAIN concert.rounds, 0) \in Nat
        BY <3>2, HighestOf
      <3>4. others' \in [leg : Nat, round : Nat]
        BY <2>8, <3>3 DEF OthersChange, NoOthers
      <3>5. TypeOK'
        BY <2>1, <3>1, <3>4 DEF TypeOK
      <3>6. NoDanglingReference'
        BY <2>1, <3>1 DEF NoDanglingReference
      <3> QED BY <2>1, <3>1, <3>5, <3>6 DEF FormInv
    <2>9. CASE UNCHANGED vars
      <3>1. concert' = concert /\ pages' = pages /\ saves' = saves /\ others' = others
        BY <2>9 DEF vars
      <3>2. TypeOK'
        BY <2>1, <3>1 DEF TypeOK
      <3>3. NoDanglingReference'
        BY <2>1, <3>1 DEF NoDanglingReference
      <3> QED BY <2>1, <3>1, <3>2, <3>3 DEF FormInv
    <2> QED BY <2>4, <2>6, <2>7, <2>8, <2>9 DEF Next, CreateConcert, EditConcert
  <1> QED BY <1>1, <1>2, PTL DEF Spec

THEOREM FormTypeCorrect == Spec => []TypeOK
  <1>1. FormInv => TypeOK
    BY DEF FormInv
  <1> QED BY <1>1, FormInvariant, PTL

THEOREM ReferencesHold == Spec => []NoDanglingReference
  <1>1. FormInv => NoDanglingReference
    BY DEF FormInv
  <1> QED BY <1>1, FormInvariant, PTL

----------------------------------------------------------------------------
(* What a save may never do.                                               *)

\* A page that was open and is not was submitted.
LEMMA SubmittedBySubmit ==
    ASSUME FormInv, [Next]_vars, NEW t \in Tab, Submitted(t)
    PROVE  Submit(t)
  <1>1. pages \in [Tab -> Page] /\ pages[t].open /\ ~pages'[t].open
    BY DEF FormInv, TypeOK, Submitted
  <1>2. ASSUME NEW u \in Tab, Submit(u)
        PROVE  Submit(t)
    <2>1. pages' = [pages EXCEPT ![u] = EmptyPage]
      BY <1>2 DEF Submit
    <2> QED BY <1>1, <1>2, <2>1
  <1>3. ASSUME NEW u \in Tab, NEW page, ~pages[u].open, pages' = [pages EXCEPT ![u] = page]
        PROVE  FALSE
    BY <1>1, <1>3
  <1>4. ASSUME NEW u \in Tab, OpenNew(u) \/ OpenEdit(u)
        PROVE  FALSE
    BY <1>3, <1>4 DEF OpenNew, OpenEdit
  <1>5. CASE OthersChange \/ UNCHANGED vars
    BY <1>1, <1>5 DEF OthersChange, vars
  <1> QED BY <1>2, <1>4, <1>5 DEF Next, CreateConcert, EditConcert

\* A token in digits names the row with that id, if it survives.
LEMMA IdNamesItsRow ==
    ASSUME NEW d, NEW valid, NEW keyed
    PROVE  /\ d \in valid => Named(IdToken(d), valid, keyed) = d
           /\ d \notin valid /\ IdToken(d) \notin DOMAIN keyed =>
                 Named(IdToken(d), valid, keyed) = NoRound
  <1>1. Digits(IdToken(d)) /\ IdToken(d)[2] = d
    BY DEF Digits, IdToken
  <1>2. d \in valid => Named(IdToken(d), valid, keyed) = d
    BY <1>1 DEF Named
  <1>3. d \notin valid /\ IdToken(d) \notin DOMAIN keyed => Named(IdToken(d), valid, keyed) = NoRound
    BY <1>1 DEF Named
  <1> QED BY <1>2, <1>3

\* What an old page keeps of a round.
LEMMA OldSave ==
    ASSUME FormInv, NEW served, Servable(served), NEW page, Edited(served, page), page.old,
           NEW legs, legs = SavedLegs(page), NEW rounds, rounds = SavedRounds(page, legs),
           DOMAIN rounds \subseteq 1 .. MaxId,
           NEW i \in DOMAIN concert.rounds \cap DOMAIN rounds
    PROVE  LET before == concert.rounds[i]
               after == rounds[i]
           IN /\ after.legs = before.legs \cap DOMAIN legs.rows
              /\ after.kind = "UPGRADE" => after.quals = before.quals \cap DOMAIN rounds
              /\ (before.needs \in DOMAIN rounds \ {NoRound}
                   /\ rounds[before.needs].kind = "ITEM_SALE")
                  => after.needs = before.needs
  <1> DEFINE rows == page.rounds
             ids == RoundIds(page)
             held == DOMAIN concert.rounds
             top == Highest(DOMAIN concert.rounds, others.round)
             before == concert.rounds[i]
             after == rounds[i]
  <1>1. TypeOK /\ NoDanglingReference
    BY DEF FormInv
  <1>2. StoredRounds(page, legs, rounds)
    BY <1>1, RoundsSaved
  <1>3. /\ RowsFrom(served.rounds, rows) /\ Flushable(rows, held, top)
        /\ \A n \in DOMAIN rows : rows[n] \in RoundLine
    BY <1>1, RoundsFlush
  <1>4. ids = IdsOf(rows, held, top) /\ IdsDistinct(served.rounds)
    BY DEF RoundIds, Servable
  <1>5. PICK n \in DOMAIN rows : ids[n] = i
    BY <1>2 DEF StoredRounds
  <1>6. rows[n].id = i
    <2> HIDE DEF rows, ids, held, top
    <2>1. \A m \in DOMAIN rows : ids[m] \in held => rows[m].id = ids[m]
      BY <1>3, <1>4, Stored
    <2> QED BY <1>5, <2>1 DEF held
  <1> DEFINE posted == Posted(page, rows[n])
  <1>7. /\ after.legs = ParseRoundLegs(posted.legs, DOMAIN legs.rows, legs.keyed)
        /\ after.quals = IF after.kind = "UPGRADE"
                         THEN ParseRoundQualifiers(posted.quals, DOMAIN rounds, i)
                         ELSE {}
        /\ after.needs = Requires(page, posted, Kinds(rounds), RoundKeys(page), i)
    BY <1>2, <1>5 DEF StoredRounds
  <1>8. /\ posted.legs = {IdToken(d) : d \in before.legs}
        /\ posted.quals = {IdToken(q) : q \in before.quals}
        /\ posted.needs = IF before.needs = NoRound THEN NoToken ELSE IdToken(before.needs)
    <2>1. /\ posted.legs = RoundRow(i).legs /\ posted.quals = RoundRow(i).quals
          /\ posted.needs = RoundRow(i).needs
      BY <1>3, <1>6, PostedProperties
    <2> QED BY <2>1 DEF RoundRow
  <1>9. /\ before.legs \subseteq DOMAIN concert.legs
        /\ before.quals \subseteq DOMAIN concert.rounds \ {i}
        /\ before.needs # NoRound => before.needs \in DOMAIN concert.rounds \ {i}
    BY <1>1 DEF NoDanglingReference
  <1>10. legs.keyed = <<>> /\ RoundKeys(page) = <<>> /\ DOMAIN <<>> = {}
    BY DEF SavedLegs, RoundKeys
  <1>11. /\ NoRound \notin DOMAIN concert.legs /\ NoRound \notin DOMAIN concert.rounds
         /\ \A d \in DOMAIN concert.legs \cup DOMAIN concert.rounds : d \in Nat
    BY <1>1, FormAssumption DEF TypeOK, NoRound
  <1> HIDE DEF rows, ids, held, top, posted
  <1>12. after.legs = before.legs \cap DOMAIN legs.rows
    <2> DEFINE valid == DOMAIN legs.rows
    <2>1. \A d \in before.legs : Named(IdToken(d), valid, <<>>) = IF d \in valid THEN d ELSE NoRound
      BY <1>10, IdNamesItsRow
    <2>2. after.legs = {Named(t, valid, <<>>) : t \in {IdToken(d) : d \in before.legs}} \ {NoRound}
      BY <1>7, <1>8, <1>10 DEF ParseRoundLegs
    <2>3. after.legs = {Named(IdToken(d), valid, <<>>) : d \in before.legs} \ {NoRound}
      BY <2>2
    <2> HIDE DEF valid, before, after
    <2>4. \A d \in before.legs : d # NoRound
      BY <1>9, <1>11
    <2>5. after.legs = before.legs \cap valid
      BY <2>1, <2>3, <2>4
    <2> QED BY <2>5 DEF valid
  <1>13. ASSUME after.kind = "UPGRADE"
         PROVE  after.quals = before.quals \cap DOMAIN rounds
    <2>1. after.quals = ({t[2] : t \in {u \in posted.quals : Digits(u)}} \cap DOMAIN rounds) \ {i}
      BY <1>7, <1>13 DEF ParseRoundQualifiers
    <2>2. \A q : Digits(IdToken(q)) /\ IdToken(q)[2] = q
      BY DEF Digits, IdToken
    <2>3. {t[2] : t \in {u \in posted.quals : Digits(u)}} = before.quals
      <3> HIDE DEF before
      <3> QED BY <1>8, <2>2
    <2> QED BY <1>9, <2>1, <2>3
  <1>14. ASSUME before.needs \in DOMAIN rounds \ {NoRound}, rounds[before.needs].kind = "ITEM_SALE"
         PROVE  after.needs = before.needs
    <2> DEFINE q == before.needs
    <2>1. posted.needs = IdToken(q) /\ q # i /\ IdToken(q) # NoToken
      BY <1>8, <1>9, <1>11, <1>14, Tokens
    <2>2. /\ DOMAIN Kinds(rounds) = DOMAIN rounds /\ q \in DOMAIN rounds
          /\ Kinds(rounds)[q] = "ITEM_SALE" /\ q # NoRound
      BY <1>14 DEF Kinds
    <2>3. q # Refused
      BY <2>2, FormAssumption DEF Refused
    <2> HIDE DEF q
    <2>4. Named(IdToken(q), DOMAIN Kinds(rounds), <<>>) = q
      BY <2>2, IdNamesItsRow
    <2>5. ResolveRoundRequires(posted.needs, Kinds(rounds), <<>>, i) = q
      BY <2>1, <2>2, <2>4 DEF ResolveRoundRequires
    <2>6. after.needs = q
      BY <1>7, <1>10, <2>3, <2>5 DEF Requires
    <2> QED BY <2>6 DEF q
  <1> QED BY <1>12, <1>13, <1>14

\* A save from an old page takes from a round only what is gone.
THEOREM OldPagesLoseNothing == Spec => OldPageLosesNothing
  <1> DEFINE Kept == \A t \in Tab : Submitted(t) /\ pages[t].old =>
               \A i \in DOMAIN concert.rounds \cap DOMAIN concert'.rounds :
                   LET before == concert.rounds[i]  after == concert'.rounds[i]
                   IN /\ after.legs = before.legs \cap DOMAIN concert'.legs
                      /\ after.kind = "UPGRADE" =>
                            after.quals = before.quals \cap DOMAIN concert'.rounds
                      /\ (before.needs \in DOMAIN concert'.rounds \ {NoRound}
                           /\ concert'.rounds[before.needs].kind = "ITEM_SALE")
                          => after.needs = before.needs
  <1>1. FormInv /\ [Next]_vars => Kept
    <2> SUFFICES ASSUME FormInv, [Next]_vars, NEW t \in Tab, Submitted(t), pages[t].old,
                        NEW i \in DOMAIN concert.rounds \cap DOMAIN concert'.rounds
                 PROVE  LET before == concert.rounds[i]  after == concert'.rounds[i]
                        IN /\ after.legs = before.legs \cap DOMAIN concert'.legs
                           /\ after.kind = "UPGRADE" =>
                                 after.quals = before.quals \cap DOMAIN concert'.rounds
                           /\ (before.needs \in DOMAIN concert'.rounds \ {NoRound}
                                /\ concert'.rounds[before.needs].kind = "ITEM_SALE")
                               => after.needs = before.needs
      OBVIOUS
    <2>1. Submit(t)
      BY SubmittedBySubmit
    <2>2. PICK page, legs, rounds :
             /\ Edited(pages[t], page) /\ Servable(pages[t])
             /\ legs = SavedLegs(page) /\ rounds = SavedRounds(page, legs)
             /\ DOMAIN legs.rows \cup DOMAIN rounds \subseteq 1 .. MaxId
             /\ concert'.legs = legs.rows /\ concert'.rounds = rounds
      BY <2>1, SubmitStores, Zenon
    <2>3. page.old /\ DOMAIN rounds \subseteq 1 .. MaxId /\ i \in DOMAIN concert.rounds \cap DOMAIN rounds
      BY <2>2 DEF Edited
    <2>4. LET before == concert.rounds[i]
              after == rounds[i]
          IN /\ after.legs = before.legs \cap DOMAIN legs.rows
             /\ after.kind = "UPGRADE" => after.quals = before.quals \cap DOMAIN rounds
             /\ (before.needs \in DOMAIN rounds \ {NoRound}
                  /\ rounds[before.needs].kind = "ITEM_SALE")
                 => after.needs = before.needs
      BY <2>2, <2>3, OldSave
    <2> QED BY <2>2, <2>4
  <1> HIDE DEF Kept
  <1>2. Spec => [][Kept]_vars
    BY <1>1, FormInvariant, PTL DEF Spec
  <1> QED BY <1>2 DEF OldPageLosesNothing, Kept

\* A row with the name of one that was served is that one.
LEMMA SameNameSameId ==
    ASSUME NEW lines, NEW rows, RowsFrom(lines, rows), NamesDiffer(lines),
           NEW k \in DOMAIN lines, NEW n \in DOMAIN rows, lines[k].name = rows[n].name
    PROVE  rows[n].id = lines[k].id
  <1>1. rows[n].name \in Names(lines)
    BY DEF Names
  <1>2. PICK m \in DOMAIN lines : lines[m].id = rows[n].id /\ lines[m].name = rows[n].name
    BY <1>1 DEF RowsFrom
  <1>3. m = k
    BY <1>2 DEF NamesDiffer
  <1> QED BY <1>2, <1>3

\* Rows saved from a current page: the same id is the same name.
LEMMA IdsStay ==
    ASSUME NEW lines, NEW rows, NEW table, NEW top, RowsFrom(lines, rows), NamesDiffer(lines),
           IdsDistinct(lines), SameRows(lines, table), Flushable(rows, DOMAIN table, top),
           NEW ids, ids = IdsOf(rows, DOMAIN table, top),
           NEW i \in DOMAIN table, NEW n \in DOMAIN rows
    PROVE  (i = ids[n]) <=> (table[i].name = rows[n].name)
  <1>1. \A j \in DOMAIN table : \E k \in DOMAIN lines : lines[k].id = j /\ lines[k].name = table[j].name
    <2> SUFFICES ASSUME NEW j \in DOMAIN table
                 PROVE  \E k \in DOMAIN lines : lines[k].id = j /\ lines[k].name = table[j].name
      OBVIOUS
    <2>1. <<j, table[j].name>> \in {<<lines[k].id, lines[k].name>> : k \in DOMAIN lines}
      BY DEF SameRows
    <2> QED BY <2>1
  <1>2. \A k \in DOMAIN lines : \E j \in DOMAIN table : lines[k].id = j /\ lines[k].name = table[j].name
    <2> SUFFICES ASSUME NEW k \in DOMAIN lines
                 PROVE  \E j \in DOMAIN table : lines[k].id = j /\ lines[k].name = table[j].name
      OBVIOUS
    <2>1. <<lines[k].id, lines[k].name>> \in {<<j, table[j].name>> : j \in DOMAIN table}
      BY DEF SameRows
    <2> QED BY <2>1
  <1>3. /\ ids[n] \in DOMAIN table => rows[n].id = ids[n]
        /\ rows[n].id \in DOMAIN table => ids[n] = rows[n].id
        /\ ids[n] # 0
    BY Stored
  <1>4. ASSUME i = ids[n]
        PROVE  table[i].name = rows[n].name
    <2>1. rows[n].id = i /\ rows[n].id # 0
      BY <1>3, <1>4
    <2>2. PICK m \in DOMAIN lines : lines[m].id = i /\ lines[m].name = rows[n].name
      BY <2>1 DEF RowsFrom
    <2> QED BY <1>2, <2>2
  <1>5. ASSUME table[i].name = rows[n].name
        PROVE  i = ids[n]
    <2>1. PICK k \in DOMAIN lines : lines[k].id = i /\ lines[k].name = rows[n].name
      BY <1>1, <1>5
    <2>2. rows[n].id = i
      BY <2>1, SameNameSameId
    <2> QED BY <1>3, <2>2
  <1> QED BY <1>4, <1>5

\* No save from a current page moves a row to another id, or an id to another row.
THEOREM IdsStayWithTheirRows == Spec => RowsKeepTheirIds
  <1> DEFINE Kept == \A t \in Tab : Submitted(t) /\ ~pages[t].new /\ Current(pages[t]) =>
               /\ \A i \in DOMAIN concert.legs, j \in DOMAIN concert'.legs :
                     (i = j) <=> (concert.legs[i].name = concert'.legs[j].name)
               /\ \A i \in DOMAIN concert.rounds, j \in DOMAIN concert'.rounds :
                     (i = j) <=> (concert.rounds[i].name = concert'.rounds[j].name)
  <1>1. FormInv /\ [Next]_vars => Kept
    <2> SUFFICES ASSUME FormInv, [Next]_vars, NEW t \in Tab, Submitted(t), Current(pages[t])
                 PROVE  /\ \A i \in DOMAIN concert.legs, j \in DOMAIN concert'.legs :
                              (i = j) <=> (concert.legs[i].name = concert'.legs[j].name)
                        /\ \A i \in DOMAIN concert.rounds, j \in DOMAIN concert'.rounds :
                              (i = j) <=> (concert.rounds[i].name = concert'.rounds[j].name)
      OBVIOUS
    <2>1. Submit(t) /\ TypeOK
      BY SubmittedBySubmit DEF FormInv
    <2> DEFINE served == pages[t]
    <2>2. PICK page, legs, rounds :
             /\ Edited(served, page) /\ Servable(served)
             /\ legs = SavedLegs(page) /\ rounds = SavedRounds(page, legs)
             /\ concert'.legs = legs.rows /\ concert'.rounds = rounds
      BY <2>1, SubmitStores, Zenon
    <2>3. /\ SameRows(served.legs, concert.legs) /\ SameRows(served.rounds, concert.rounds)
          /\ NamesDiffer(served.legs) /\ NamesDiffer(served.rounds)
          /\ IdsDistinct(served.legs) /\ IdsDistinct(served.rounds)
      BY <2>2 DEF Current, Servable, Edited, RowsFrom
    <2> HIDE DEF served
    <2>4. ASSUME NEW i \in DOMAIN concert.legs, NEW j \in DOMAIN legs.rows
          PROVE  (i = j) <=> (concert.legs[i].name = legs.rows[j].name)
      <3> DEFINE rows == Filled(page.legs)
                 ids == LegIds(page)
                 top == Highest(DOMAIN concert.legs, others.leg)
      <3>1. RowsFrom(served.legs, rows) /\ Flushable(rows, DOMAIN concert.legs, top)
        BY <2>1, <2>2, LegsFlush
      <3>2. ids = IdsOf(rows, DOMAIN concert.legs, top)
        BY DEF LegIds
      <3>3. StoredLegs(page, legs)
        BY <2>1, <2>2, LegsSaved
      <3>4. PICK n \in DOMAIN rows : ids[n] = j
        BY <3>3 DEF StoredLegs
      <3>5. legs.rows[j].name = rows[n].name
        BY <3>3, <3>4 DEF StoredLegs
      <3> HIDE DEF rows, ids, top
      <3>6. (i = ids[n]) <=> (concert.legs[i].name = rows[n].name)
        BY <2>3, <3>1, <3>2, IdsStay
      <3> QED BY <3>4, <3>5, <3>6
    <2>5. ASSUME NEW i \in DOMAIN concert.rounds, NEW j \in DOMAIN rounds
          PROVE  (i = j) <=> (concert.rounds[i].name = rounds[j].name)
      <3> DEFINE rows == page.rounds
                 ids == RoundIds(page)
                 top == Highest(DOMAIN concert.rounds, others.round)
      <3>1. RowsFrom(served.rounds, rows) /\ Flushable(rows, DOMAIN concert.rounds, top)
        BY <2>1, <2>2, RoundsFlush
      <3>2. ids = IdsOf(rows, DOMAIN concert.rounds, top)
        BY DEF RoundIds
      <3>3. StoredRounds(page, legs, rounds)
        BY <2>1, <2>2, RoundsSaved
      <3>4. PICK n \in DOMAIN rows : ids[n] = j
        BY <3>3 DEF StoredRounds
      <3>5. rounds[j].name = rows[n].name
        BY <3>3, <3>4 DEF StoredRounds
      <3> HIDE DEF rows, ids, top
      <3>6. (i = ids[n]) <=> (concert.rounds[i].name = rows[n].name)
        BY <2>3, <3>1, <3>2, IdsStay
      <3> QED BY <3>4, <3>5, <3>6
    <2> QED BY <2>2, <2>4, <2>5
  <1> HIDE DEF Kept
  <1>2. Spec => [][Kept]_vars
    BY <1>1, FormInvariant, PTL DEF Spec
  <1> QED BY <1>2 DEF RowsKeepTheirIds, Kept

----------------------------------------------------------------------------
(* What a save shows.                                                      *)

\* No id the page was served with is another row's by now.
StillOwn(lines, rows, ids) ==
    \A k \in DOMAIN lines, n \in DOMAIN rows :
       lines[k].id = ids[n] => lines[k].name = rows[n].name

\* A token names the row that has it as its key, and no other.
LEMMA TokenNamesItsRow ==
    ASSUME NEW lines, NEW rows, NEW held, NEW top, RowsFrom(lines, rows), NamesDiffer(lines),
           IdsDistinct(lines), Flushable(rows, held, top), NEW ids, ids = IdsOf(rows, held, top),
           StillOwn(lines, rows, ids), NEW t \in Token,
           Digits(t) => t[2] # 0 /\ \E k \in DOMAIN lines : lines[k].id = t[2]
    PROVE  /\ Named(t, Range(ids), Keyed(rows, ids)) # NoRound =>
                 \E n \in DOMAIN rows :
                    rows[n].key = t /\ ids[n] = Named(t, Range(ids), Keyed(rows, ids))
           /\ \A n \in DOMAIN rows :
                 rows[n].key = t => ids[n] = Named(t, Range(ids), Keyed(rows, ids))
  <1> DEFINE keyed == Keyed(rows, ids)
             named == Named(t, Range(ids), keyed)
  <1>1. DOMAIN ids = DOMAIN rows
    BY Stored
  <1>2. \A m, n \in DOMAIN rows : rows[m].key = rows[n].key => m = n
    BY RowsAreTold DEF Flushable
  <1>3. /\ \A u \in DOMAIN keyed : \E n \in DOMAIN rows : rows[n].key = u /\ keyed[u] = ids[n]
        /\ DOMAIN keyed = {rows[n].key : n \in DOMAIN rows}
    <2>1. DOMAIN rows \subseteq Nat
      BY DEF Flushable
    <2>2. \A u \in DOMAIN keyed : \E n \in DOMAIN rows : rows[n].key = u /\ keyed[u] = ids[n]
      BY <1>1, <2>1, KeyedProperties
    <2>3. DOMAIN keyed = {rows[n].key : n \in DOMAIN rows}
      BY DEF Keyed
    <2> QED BY <2>2, <2>3
  <1> SUFFICES /\ named # NoRound => \E n \in DOMAIN rows : rows[n].key = t /\ ids[n] = named
               /\ \A n \in DOMAIN rows : rows[n].key = t => ids[n] = named
    OBVIOUS
  <1>4. CASE Digits(t) /\ t[2] \in Range(ids)
    <2>1. named = t[2]
      BY <1>4 DEF Named
    <2>2. PICK n \in DOMAIN rows : ids[n] = t[2]
      BY <1>1, <1>4 DEF Range
    <2>3. PICK k \in DOMAIN lines : lines[k].id = t[2]
      BY <1>4
    <2>4. rows[n].id = t[2]
      BY <2>2, <2>3, SameNameSameId DEF StillOwn
    <2>5. rows[n].key = t
      BY <1>4, <2>4, Tokens DEF RowsFrom
    <2> HIDE DEF named
    <2> QED BY <1>2, <2>1, <2>2, <2>5
  <1>5. CASE ~(Digits(t) /\ t[2] \in Range(ids)) /\ t \in DOMAIN keyed
    <2>1. named = keyed[t]
      BY <1>5 DEF Named
    <2>2. PICK n \in DOMAIN rows : rows[n].key = t /\ keyed[t] = ids[n]
      BY <1>3, <1>5
    <2> HIDE DEF named, keyed
    <2> QED BY <1>2, <2>1, <2>2
  <1>6. CASE ~(Digits(t) /\ t[2] \in Range(ids)) /\ t \notin DOMAIN keyed
    <2>1. named = NoRound
      BY <1>6 DEF Named
    <2> HIDE DEF named, keyed
    <2> QED BY <1>3, <1>6, <2>1
  <1> QED BY <1>4, <1>5, <1>6

\* A save of a page with chips none of whose ids was handed on.
PlainSave(served, page, legs, rounds) ==
    /\ Servable(served) /\ Edited(served, page) /\ OfferedItems(page) /\ ~page.old
    /\ legs = SavedLegs(page) /\ rounds = SavedRounds(page, legs)
    /\ DOMAIN legs.rows \cup DOMAIN rounds \subseteq 1 .. MaxId
    /\ \A i \in DOMAIN rounds : rounds[i].needs # Refused
    /\ ~HandedOn(served, legs.rows, rounds)

\* Its rows, their ids and its tokens.
LEMMA PlainSaveProperties ==
    ASSUME TypeOK, NEW served, NEW page, NEW legs, NEW rounds,
           PlainSave(served, page, legs, rounds)
    PROVE  /\ StoredLegs(page, legs) /\ StoredRounds(page, legs, rounds)
           /\ StillOwn(served.legs, Filled(page.legs), LegIds(page))
           /\ StillOwn(served.rounds, page.rounds, RoundIds(page))
           /\ \A n \in DOMAIN page.rounds : page.rounds[n] \in RoundLine /\ RowTokens(served, page.rounds[n])
           /\ RowsFrom(served.rounds, page.rounds) /\ NamesDiffer(served.rounds)
  <1>1. Servable(served) /\ Edited(served, page)
    BY DEF PlainSave
  <1>2. StoredLegs(page, legs)
    BY <1>1, LegsSaved DEF PlainSave
  <1>3. StoredRounds(page, legs, rounds)
    BY <1>1, RoundsSaved DEF PlainSave
  <1>4. ~HandedOn(served, legs.rows, rounds)
    BY DEF PlainSave
  <1>5. StillOwn(served.legs, Filled(page.legs), LegIds(page))
    <2> SUFFICES ASSUME NEW k \in DOMAIN served.legs, NEW n \in DOMAIN Filled(page.legs),
                        served.legs[k].id = LegIds(page)[n]
                 PROVE  served.legs[k].name = Filled(page.legs)[n].name
      BY DEF StillOwn
    <2>1. /\ LegIds(page)[n] \in DOMAIN legs.rows
          /\ legs.rows[LegIds(page)[n]].name = Filled(page.legs)[n].name
      BY <1>2 DEF StoredLegs
    <2>2. served.legs[k].id \in DOMAIN legs.rows =>
             legs.rows[served.legs[k].id].name = served.legs[k].name
      BY <1>4 DEF HandedOn
    <2> QED BY <2>1, <2>2
  <1>6. StillOwn(served.rounds, page.rounds, RoundIds(page))
    <2> SUFFICES ASSUME NEW k \in DOMAIN served.rounds, NEW n \in DOMAIN page.rounds,
                        served.rounds[k].id = RoundIds(page)[n]
                 PROVE  served.rounds[k].name = page.rounds[n].name
      BY DEF StillOwn
    <2>1. /\ RoundIds(page)[n] \in DOMAIN rounds
          /\ rounds[RoundIds(page)[n]].name = page.rounds[n].name
      BY <1>3 DEF StoredRounds
    <2>2. served.rounds[k].id \in DOMAIN rounds =>
             rounds[served.rounds[k].id].name = served.rounds[k].name
      BY <1>4 DEF HandedOn
    <2> QED BY <2>1, <2>2
  <1>7. \A n \in DOMAIN page.rounds : page.rounds[n] \in RoundLine /\ RowTokens(served, page.rounds[n])
    BY <1>1, RoundsFlush DEF Edited, TokensFrom
  <1>8. RowsFrom(served.rounds, page.rounds) /\ NamesDiffer(served.rounds)
    BY <1>1 DEF Servable, Edited, RowsFrom
  <1> QED BY <1>2, <1>3, <1>5, <1>6, <1>7, <1>8

\* The saved rounds a row of the page is shown as an upgrade of.
UpgradeOf(page, rounds, n) ==
    IF page.rounds[n].kind = "UPGRADE"
    THEN NamesOf(Restrict(page.rounds, {m \in DOMAIN page.rounds :
                                           page.rounds[m].id \in DOMAIN rounds}),
                 page.rounds[n].quals)
    ELSE {}

\* What a stored round refers to, by name, is what its row on the page shows:
\* its legs, the rounds it is an upgrade of, the item it requires.
LegsMatch(page, legs, rounds, n) ==
    {legs.rows[d].name : d \in rounds[RoundIds(page)[n]].legs}
      = NamesOf(Filled(page.legs), page.rounds[n].legs)
QualsMatch(page, rounds, n) ==
    {rounds[q].name : q \in rounds[RoundIds(page)[n]].quals} = UpgradeOf(page, rounds, n)
NeedsMatch(page, rounds, n) ==
    {rounds[q].name : q \in {rounds[RoundIds(page)[n]].needs} \ {NoRound}}
      = NamesOf(page.rounds, {page.rounds[n].needs})

\* A round is bound to the legs whose chips were on.
LEMMA LegsShown ==
    ASSUME TypeOK, NEW served, NEW page, NEW legs, NEW rounds,
           PlainSave(served, page, legs, rounds), NEW n \in DOMAIN page.rounds
    PROVE  LegsMatch(page, legs, rounds, n)
  <1> DEFINE rows == Filled(page.legs)
             ids == LegIds(page)
             held == DOMAIN concert.legs
             top == Highest(DOMAIN concert.legs, others.leg)
             tokens == page.rounds[n].legs
             stored == rounds[RoundIds(page)[n]].legs
             NameOf(t) == Named(t, Range(ids), Keyed(rows, ids))
  <1>1. /\ StoredLegs(page, legs) /\ StoredRounds(page, legs, rounds)
        /\ StillOwn(served.legs, rows, ids)
        /\ page.rounds[n] \in RoundLine /\ RowTokens(served, page.rounds[n])
    BY PlainSaveProperties
  <1>2. /\ RowsFrom(served.legs, rows) /\ Flushable(rows, held, top)
        /\ ids = IdsOf(rows, held, top)
        /\ IdsDistinct(served.legs) /\ NamesDiffer(served.legs)
    BY LegsFlush DEF PlainSave, LegIds, Servable, Edited, RowsFrom
  <1>3. /\ DOMAIN legs.rows = Range(ids) /\ legs.keyed = Keyed(rows, ids)
        /\ \A m \in DOMAIN rows : legs.rows[ids[m]].name = rows[m].name
        /\ NoRound \notin DOMAIN legs.rows
        /\ \A m \in DOMAIN rows : ids[m] \in DOMAIN legs.rows
    BY <1>1 DEF StoredLegs, PlainSave
  <1>4. stored = {NameOf(t) : t \in tokens} \ {NoRound}
    <2>1. Posted(page, page.rounds[n]) = page.rounds[n]
      BY DEF Posted, PlainSave
    <2>2. stored = ParseRoundLegs(tokens, DOMAIN legs.rows, legs.keyed)
      BY <1>1, <2>1 DEF StoredRounds
    <2> QED BY <1>3, <2>2 DEF ParseRoundLegs
  <1>5. tokens \subseteq Token
        /\ \A t \in tokens : Digits(t) => t[2] # 0 /\ \E k \in DOMAIN served.legs : served.legs[k].id = t[2]
    BY <1>1 DEF RowTokens, RoundLine
  <1> HIDE DEF rows, ids, held, top, tokens, stored
  <1>6. ASSUME NEW t \in tokens
        PROVE  /\ NameOf(t) # NoRound => \E m \in DOMAIN rows : rows[m].key = t /\ ids[m] = NameOf(t)
               /\ \A m \in DOMAIN rows : rows[m].key = t => ids[m] = NameOf(t)
    BY <1>1, <1>2, <1>5, TokenNamesItsRow
  <1> HIDE DEF NameOf
  <1>7. {legs.rows[d].name : d \in stored} \subseteq NamesOf(rows, tokens)
    <2> SUFFICES ASSUME NEW d \in stored
                 PROVE  legs.rows[d].name \in NamesOf(rows, tokens)
      OBVIOUS
    <2>1. PICK t \in tokens : d = NameOf(t) /\ d # NoRound
      BY <1>4
    <2>2. PICK m \in DOMAIN rows : rows[m].key = t /\ ids[m] = d
      BY <1>6, <2>1
    <2>3. legs.rows[d].name = rows[m].name
      BY <1>3, <2>2
    <2> QED BY <2>2, <2>3 DEF NamesOf
  <1>8. NamesOf(rows, tokens) \subseteq {legs.rows[d].name : d \in stored}
    <2> SUFFICES ASSUME NEW m \in DOMAIN rows, rows[m].key \in tokens
                 PROVE  rows[m].name \in {legs.rows[d].name : d \in stored}
      BY DEF NamesOf
    <2>1. ids[m] = NameOf(rows[m].key)
      BY <1>6
    <2>2. ids[m] \in stored
      BY <1>3, <1>4, <2>1
    <2> QED BY <1>3, <2>2
  <1>9. {legs.rows[d].name : d \in stored} = NamesOf(rows, tokens)
    BY <1>7, <1>8
  <1> QED BY <1>9 DEF rows, tokens, stored, LegsMatch

\* A round is an upgrade of the rounds whose chips were on, and that survive.
LEMMA QualsShown ==
    ASSUME TypeOK, NEW served, NEW page, NEW legs, NEW rounds,
           PlainSave(served, page, legs, rounds), NEW n \in DOMAIN page.rounds
    PROVE  QualsMatch(page, rounds, n)
  <1> DEFINE rows == page.rounds
             ids == RoundIds(page)
             held == DOMAIN concert.rounds
             top == Highest(DOMAIN concert.rounds, others.round)
             tokens == page.rounds[n].quals
             stored == rounds[RoundIds(page)[n]].quals
             saved == Restrict(rows, {m \in DOMAIN rows : rows[m].id \in DOMAIN rounds})
  <1>1. /\ StoredRounds(page, legs, rounds) /\ StillOwn(served.rounds, rows, ids)
        /\ rows[n] \in RoundLine /\ RowTokens(served, rows[n])
        /\ RowsFrom(served.rounds, rows) /\ NamesDiffer(served.rounds)
    BY PlainSaveProperties
  <1>2. /\ Flushable(rows, held, top) /\ ids = IdsOf(rows, held, top)
        /\ IdsDistinct(served.rounds)
    BY RoundsFlush DEF PlainSave, RoundIds, Servable
  <1>3. /\ DOMAIN rounds = Range(ids)
        /\ \A m \in DOMAIN rows : ids[m] \in DOMAIN rounds /\ rounds[ids[m]].name = rows[m].name
        /\ \A i \in DOMAIN rounds : i # 0 /\ \E m \in DOMAIN rows : ids[m] = i
        /\ rounds[ids[n]].kind = rows[n].kind
    BY <1>1 DEF StoredRounds, NoRound
  <1>4. stored = IF rows[n].kind = "UPGRADE"
                 THEN ParseRoundQualifiers(tokens, DOMAIN rounds, ids[n]) ELSE {}
    <2>1. Posted(page, page.rounds[n]) = page.rounds[n]
      BY DEF Posted, PlainSave
    <2> QED BY <1>1, <2>1 DEF StoredRounds
  <1>5. /\ tokens \subseteq Token
        /\ \A t \in tokens : Digits(t) => /\ t[2] # 0 /\ t[2] # rows[n].id
                                          /\ \E k \in DOMAIN served.rounds : served.rounds[k].id = t[2]
    BY <1>1 DEF RowTokens, RoundLine
  <1> HIDE DEF rows, ids, held, top, tokens, stored
  <1>6. IdsDistinct(rows) /\ \A m \in DOMAIN rows : rows[m].id \in Nat
    BY <1>1, <1>2, RowsAreTold DEF Flushable
  <1>7. ASSUME NEW m \in DOMAIN rows, NEW k \in DOMAIN served.rounds, served.rounds[k].id = ids[m]
        PROVE  rows[m].id = ids[m]
    BY <1>1, <1>7, SameNameSameId DEF StillOwn
  <1>8. /\ DOMAIN saved = {m \in DOMAIN rows : rows[m].id \in DOMAIN rounds}
        /\ \A m \in DOMAIN saved : saved[m] = rows[m]
    BY DEF Restrict
  <1> HIDE DEF saved
  <1>9. CASE rows[n].kind = "UPGRADE"
    <2>1. stored = ({t[2] : t \in {u \in tokens : Digits(u)}} \cap DOMAIN rounds) \ {ids[n]}
      BY <1>4, <1>9 DEF ParseRoundQualifiers
    <2>2. {rounds[q].name : q \in stored} \subseteq NamesOf(saved, tokens)
      <3> SUFFICES ASSUME NEW q \in stored
                   PROVE  rounds[q].name \in NamesOf(saved, tokens)
        OBVIOUS
      <3>1. PICK t \in tokens : Digits(t) /\ t[2] = q /\ q \in DOMAIN rounds
        BY <2>1
      <3>2. PICK m \in DOMAIN rows : ids[m] = q
        BY <1>3, <3>1
      <3>3. rows[m].id = q /\ q # 0
        BY <1>5, <1>7, <3>1, <3>2
      <3>4. rows[m].key = t
        BY <1>1, <1>5, <3>1, <3>3, Tokens DEF RowsFrom
      <3>5. m \in DOMAIN saved /\ saved[m].key \in tokens /\ saved[m].name = rounds[q].name
        BY <1>3, <1>8, <3>1, <3>2, <3>3, <3>4
      <3> QED BY <3>5 DEF NamesOf
    <2>3. NamesOf(saved, tokens) \subseteq {rounds[q].name : q \in stored}
      <3> SUFFICES ASSUME NEW m \in DOMAIN saved, saved[m].key \in tokens
                   PROVE  saved[m].name \in {rounds[q].name : q \in stored}
        BY DEF NamesOf
      <3>1. m \in DOMAIN rows /\ rows[m].id \in DOMAIN rounds /\ rows[m].key \in tokens
            /\ saved[m].name = rows[m].name
        BY <1>8
      <3>2. rows[m].id # 0
        BY <1>3, <3>1
      <3>3. rows[m].key = IdToken(rows[m].id)
        BY <1>1, <3>1, <3>2 DEF RowsFrom
      <3>4. Digits(rows[m].key) /\ rows[m].key[2] = rows[m].id
        BY <1>6, <3>1, <3>3, Tokens
      <3>5. PICK k \in DOMAIN served.rounds : served.rounds[k].id = rows[m].id
        BY <1>5, <3>1, <3>4
      <3>6. PICK l \in DOMAIN rows : ids[l] = rows[m].id
        BY <1>3, <3>1
      <3>7. rows[l].id = rows[m].id
        BY <1>7, <3>5, <3>6
      <3>8. l = m
        BY <1>6, <3>1, <3>2, <3>7 DEF IdsDistinct
      <3>9. rows[m].id # ids[n]
        <4> SUFFICES ASSUME rows[m].id = ids[n]
                     PROVE  FALSE
          OBVIOUS
        <4>1. n \in DOMAIN rows
          BY DEF rows
        <4>2. rows[n].id = ids[n]
          BY <1>7, <3>5, <4>1
        <4> QED BY <1>5, <3>1, <3>4, <4>2
      <3>10. rows[m].id \in stored
        BY <2>1, <3>1, <3>4, <3>9
      <3>11. rounds[rows[m].id].name = rows[m].name
        BY <1>3, <3>6, <3>8
      <3> QED BY <3>1, <3>10, <3>11
    <2>4. {rounds[q].name : q \in stored} = NamesOf(saved, tokens)
      BY <2>2, <2>3
    <2> QED BY <1>9, <2>4 DEF rows, tokens, stored, saved, UpgradeOf, QualsMatch
  <1>10. CASE rows[n].kind # "UPGRADE"
    <2>1. stored = {}
      BY <1>4, <1>10
    <2>2. {rounds[q].name : q \in stored} = {}
      BY <2>1
    <2> QED BY <1>10, <2>2 DEF rows, stored, UpgradeOf, QualsMatch
  <1> QED BY <1>9, <1>10

\* A round requires the item that was picked.
LEMMA NeedsShown ==
    ASSUME TypeOK, NEW served, NEW page, NEW legs, NEW rounds,
           PlainSave(served, page, legs, rounds), NEW n \in DOMAIN page.rounds
    PROVE  NeedsMatch(page, rounds, n)
  <1> DEFINE rows == page.rounds
             ids == RoundIds(page)
             held == DOMAIN concert.rounds
             top == Highest(DOMAIN concert.rounds, others.round)
             t == page.rounds[n].needs
             stored == rounds[RoundIds(page)[n]].needs
             NameOf(u) == Named(u, Range(ids), Keyed(rows, ids))
  <1>1. /\ StoredRounds(page, legs, rounds) /\ StillOwn(served.rounds, rows, ids)
        /\ \A m \in DOMAIN rows : rows[m] \in RoundLine
        /\ RowsFrom(served.rounds, rows) /\ NamesDiffer(served.rounds)
    BY PlainSaveProperties
  <1>2. /\ Flushable(rows, held, top) /\ ids = IdsOf(rows, held, top)
        /\ IdsDistinct(served.rounds)
    BY RoundsFlush DEF PlainSave, RoundIds, Servable
  <1>3. /\ DOMAIN rounds = Range(ids) /\ DOMAIN Kinds(rounds) = Range(ids)
        /\ \A m \in DOMAIN rows : ids[m] \in DOMAIN rounds /\ rounds[ids[m]].name = rows[m].name
        /\ \A i \in DOMAIN rounds : i # NoRound
    BY <1>1 DEF StoredRounds, Kinds
  <1>4. /\ stored = Requires(page, rows[n], Kinds(rounds), Keyed(rows, ids), ids[n])
        /\ stored # Refused /\ ~page.old
    <2>1. Posted(page, page.rounds[n]) = page.rounds[n]
      BY DEF Posted, PlainSave
    <2>2. RoundKeys(page) = Keyed(rows, ids)
      BY DEF RoundKeys, PlainSave
    <2>3. ids[n] \in DOMAIN rounds
      BY <1>3
    <2> QED BY <1>1, <2>1, <2>2, <2>3 DEF StoredRounds, PlainSave
  <1>5. t \in {rows[m].key : m \in DOMAIN rows} \cup {NoToken}
    BY DEF PlainSave, OfferedItems, Offered
  <1>6. \A m \in DOMAIN rows :
           rows[m].key = IF rows[m].id = 0 THEN NewToken(rows[m].name) ELSE IdToken(rows[m].id)
    BY <1>1 DEF RowsFrom
  <1>7. \A m \in DOMAIN rows : rows[m].id \in Nat /\ rows[m].name \in Nat /\ rows[m].key \in Token
    BY <1>1, FormAssumption DEF RoundLine
  <1>8. t = rows[n].needs /\ n \in DOMAIN rows
    OBVIOUS
  <1> HIDE DEF rows, ids, held, top, t, stored
  <1>9. CASE t = NoToken
    <2>1. stored = NoRound
      BY <1>4, <1>8, <1>9 DEF Requires, ResolveRoundRequires, Refused, NoRound
    <2>2. {rounds[q].name : q \in {stored} \ {NoRound}} = {}
      BY <2>1
    <2>3. \A m \in DOMAIN rows : rows[m].key # t
      BY <1>6, <1>7, <1>9, Tokens
    <2>4. NamesOf(rows, {t}) = {}
      BY <2>3 DEF NamesOf
    <2> QED BY <2>2, <2>4 DEF rows, t, stored, NeedsMatch
  <1>10. CASE t # NoToken
    <2>1. PICK m \in DOMAIN rows : rows[m].key = t
      BY <1>5, <1>10
    <2>2. Digits(t) => t[2] # 0 /\ \E k \in DOMAIN served.rounds : served.rounds[k].id = t[2]
      <3>1. CASE rows[m].id = 0
        BY <1>6, <1>7, <2>1, <3>1, Tokens
      <3>2. CASE rows[m].id # 0
        <4>1. t[2] = rows[m].id
          BY <1>6, <1>7, <2>1, <3>2, Tokens
        <4>2. \E k \in DOMAIN served.rounds : served.rounds[k].id = rows[m].id
          BY <1>1, <3>2 DEF RowsFrom
        <4> QED BY <3>2, <4>1, <4>2
      <3> QED BY <3>1, <3>2
    <2>3. t \in Token
      BY <1>7, <2>1
    <2>4. /\ NameOf(t) # NoRound => \E l \in DOMAIN rows : rows[l].key = t /\ ids[l] = NameOf(t)
          /\ \A l \in DOMAIN rows : rows[l].key = t => ids[l] = NameOf(t)
      BY <1>1, <1>2, <2>2, <2>3, TokenNamesItsRow
    <2>5. NameOf(t) = Named(rows[n].needs, DOMAIN Kinds(rounds), Keyed(rows, ids))
      BY <1>3, <1>8
    <2> HIDE DEF NameOf
    <2>6. ids[m] = NameOf(t) /\ NameOf(t) # NoRound
      BY <1>3, <2>1, <2>4
    <2>7. stored = NameOf(t)
      BY <1>4, <1>8, <1>10, <2>5 DEF Requires, ResolveRoundRequires
    <2>8. {rounds[q].name : q \in {stored} \ {NoRound}} = {rows[m].name}
      BY <1>3, <2>6, <2>7
    <2>9. \A l \in DOMAIN rows : rows[l].key = t => l = m
      BY <1>1, <1>2, <2>1, RowsAreTold DEF Flushable
    <2>10. NamesOf(rows, {t}) = {rows[m].name}
      BY <2>1, <2>9 DEF NamesOf
    <2> QED BY <2>8, <2>10 DEF rows, t, stored, NeedsMatch
  <1> QED BY <1>9, <1>10

\* The concert a plain save stores is the page, by name.
LEMMA PlainSaveShows ==
    ASSUME TypeOK, NEW served, NEW page, NEW legs, NEW rounds,
           PlainSave(served, page, legs, rounds),
           concert'.legs = legs.rows, concert'.rounds = rounds
    PROVE  ByName' = Shown(page, rounds)
  <1>1. \A n \in DOMAIN page.rounds : LegsMatch(page, legs, rounds, n)
    BY LegsShown, Zenon
  <1>2. \A n \in DOMAIN page.rounds : QualsMatch(page, rounds, n)
    BY QualsShown, Zenon
  <1>3. \A n \in DOMAIN page.rounds : NeedsMatch(page, rounds, n)
    BY NeedsShown, Zenon
  <1> DEFINE ids == RoundIds(page)
             InTable(i) == LET r == rounds[i]
                           IN [name |-> r.name, kind |-> r.kind,
                               legs |-> {legs.rows[d].name : d \in r.legs},
                               quals |-> {rounds[q].name : q \in r.quals},
                               needs |-> {rounds[q].name : q \in {r.needs} \ {NoRound}}]
             OnPage(n) == LET row == page.rounds[n]
                          IN [name |-> row.name, kind |-> row.kind,
                              legs |-> NamesOf(Filled(page.legs), row.legs),
                              quals |-> UpgradeOf(page, rounds, n),
                              needs |-> NamesOf(page.rounds, {row.needs})]
             legTable == {<<legs.rows[i].name, legs.rows[i].off>> : i \in DOMAIN legs.rows}
             filled == Filled(page.legs)
             onPage == {<<filled[n].name, filled[n].off>> : n \in DOMAIN filled}
  <1>4. StoredLegs(page, legs) /\ StoredRounds(page, legs, rounds)
    BY PlainSaveProperties
  <1>5. ByName' = [read |-> TRUE, legs |-> legTable, rounds |-> {InTable(i) : i \in DOMAIN rounds}]
    BY DEF ByName
  <1>6. Shown(page, rounds) = [read |-> TRUE, legs |-> onPage,
                               rounds |-> {OnPage(n) : n \in DOMAIN page.rounds}]
    BY DEF Shown, UpgradeOf
  <1>7. ASSUME NEW n \in DOMAIN page.rounds
        PROVE  InTable(ids[n]) = OnPage(n)
    <2>1. rounds[ids[n]].name = page.rounds[n].name /\ rounds[ids[n]].kind = page.rounds[n].kind
      BY <1>4 DEF StoredRounds
    <2>2. {legs.rows[d].name : d \in rounds[ids[n]].legs}
            = NamesOf(Filled(page.legs), page.rounds[n].legs)
      BY ONLY <1>1, n \in DOMAIN page.rounds DEF LegsMatch
    <2>3. {rounds[q].name : q \in rounds[ids[n]].quals} = UpgradeOf(page, rounds, n)
      BY ONLY <1>2, n \in DOMAIN page.rounds DEF QualsMatch
    <2>4. {rounds[q].name : q \in {rounds[ids[n]].needs} \ {NoRound}}
            = NamesOf(page.rounds, {page.rounds[n].needs})
      BY ONLY <1>3, n \in DOMAIN page.rounds DEF NeedsMatch
    <2> HIDE DEF ids
    <2> QED BY ONLY <2>1, <2>2, <2>3, <2>4
  <1>8. /\ \A n \in DOMAIN page.rounds : ids[n] \in DOMAIN rounds
        /\ \A i \in DOMAIN rounds : \E n \in DOMAIN page.rounds : ids[n] = i
    BY <1>4 DEF StoredRounds
  <1>9. legTable = onPage
    <2> DEFINE legIds == LegIds(page)
    <2>1. /\ \A n \in DOMAIN filled : /\ legIds[n] \in DOMAIN legs.rows
                                      /\ legs.rows[legIds[n]].name = filled[n].name
                                      /\ legs.rows[legIds[n]].off = filled[n].off
          /\ \A i \in DOMAIN legs.rows : \E n \in DOMAIN filled : legIds[n] = i
      BY <1>4 DEF StoredLegs
    <2> HIDE DEF filled, legIds
    <2>2. ASSUME NEW i \in DOMAIN legs.rows
          PROVE  <<legs.rows[i].name, legs.rows[i].off>> \in onPage
      <3>1. PICK n \in DOMAIN filled : legIds[n] = i
        BY <2>1
      <3>2. legs.rows[i].name = filled[n].name /\ legs.rows[i].off = filled[n].off
        BY <2>1, <3>1
      <3> QED BY <3>2
    <2>3. ASSUME NEW n \in DOMAIN filled
          PROVE  <<filled[n].name, filled[n].off>> \in legTable
      BY <2>1
    <2> QED BY <2>2, <2>3
  <1> HIDE DEF ids, InTable, OnPage, legTable, onPage
  <1>10. {InTable(i) : i \in DOMAIN rounds} = {OnPage(n) : n \in DOMAIN page.rounds}
    BY <1>7, <1>8
  <1> QED BY <1>5, <1>6, <1>9, <1>10

\* The concert is always what the last page that was saved showed.
THEOREM SavesShow == Spec => []SavedAsShown
  <1>1. Init => SavedAsShown
    BY DEF Init, SavedAsShown, Unread
  <1>2. FormInv /\ SavedAsShown /\ [Next]_vars => SavedAsShown'
    <2> SUFFICES ASSUME FormInv, SavedAsShown, [Next]_vars
                 PROVE  SavedAsShown'
      OBVIOUS
    <2>1. ASSUME NEW t \in Tab, Submit(t)
          PROVE  SavedAsShown'
      <3>1. PICK page, legs, rounds :
               /\ Edited(pages[t], page) /\ OfferedItems(page) /\ Servable(pages[t])
               /\ legs = SavedLegs(page) /\ rounds = SavedRounds(page, legs)
               /\ DOMAIN legs.rows \cup DOMAIN rounds \subseteq 1 .. MaxId
               /\ \A i \in DOMAIN rounds : rounds[i].needs # Refused
               /\ concert'.legs = legs.rows /\ concert'.rounds = rounds
               /\ shown' = IF page.old \/ HandedOn(pages[t], legs.rows, rounds)
                           THEN Unread ELSE Shown(page, rounds)
        BY <2>1, SubmitStores, Zenon
      <3>2. CASE page.old \/ HandedOn(pages[t], legs.rows, rounds)
        <4>1. shown' = Unread
          BY <3>1, <3>2
        <4> QED BY <4>1 DEF SavedAsShown, Unread
      <3>3. CASE ~(page.old \/ HandedOn(pages[t], legs.rows, rounds))
        <4>1. PlainSave(pages[t], page, legs, rounds) /\ TypeOK
          BY <3>1, <3>3 DEF PlainSave, FormInv
        <4>2. shown' = Shown(page, rounds)
          BY <3>1, <3>3
        <4>3. ByName' = Shown(page, rounds)
          BY <3>1, <4>1, PlainSaveShows
        <4> QED BY <4>2, <4>3 DEF SavedAsShown
      <3> QED BY <3>2, <3>3
    <2>2. ASSUME UNCHANGED <<concert, shown>>
          PROVE  SavedAsShown'
      BY <2>2 DEF SavedAsShown, ByName
    <2>3. ASSUME NEW t \in Tab, OpenNew(t) \/ OpenEdit(t)
          PROVE  SavedAsShown'
      BY <2>2, <2>3 DEF OpenNew, OpenEdit
    <2>4. CASE OthersChange
      BY <2>2, <2>4 DEF OthersChange
    <2>5. CASE UNCHANGED vars
      BY <2>2, <2>5 DEF vars
    <2> QED BY <2>1, <2>3, <2>4, <2>5 DEF Next, CreateConcert, EditConcert
  <1> QED BY <1>1, <1>2, FormInvariant, PTL DEF Spec

=============================================================================
