------------------------- MODULE TagFollowingProofs -------------------------
(***************************************************************************)
(* Proofs about tags and followers, for every catalogue, every number of   *)
(* readers and presets and every bound: type correctness, who is told that *)
(* a tag was attached, that an edit keeps a character's performer, and     *)
(* which preset a followed tag brings.                                     *)
(***************************************************************************)
EXTENDS TagFollowing, SequenceTheorems, WellFoundedInduction, TLAPS

----------------------------------------------------------------------------
(* The follows of one reader, as a sequence in id order.                   *)

\* A nonempty set of places has a first one, and Earliest names it.
LEMMA EarliestIsFirst ==
    ASSUME NEW is, is \subseteq Nat, is # {}
    PROVE  Earliest(is) \in is /\ \A j \in is : Earliest(is) <= j
  <1>1. PICK i \in is : \A j \in is : ~(<<j, i>> \in OpToRel(<, Nat))
    BY NatLessThanWellFounded, WFMin
  <1>2. \A j \in is : ~(j < i)
    BY <1>1 DEF OpToRel
  <1>3. \E k \in is : \A j \in is : k <= j
    BY <1>2
  <1> QED BY <1>3 DEF Earliest

\* Taking one place out.
LEMMA RemoveAtProperties ==
    ASSUME NEW S, NEW s \in Seq(S), NEW i \in DOMAIN s
    PROVE  /\ RemoveAt(s, i) \in Seq(S)
           /\ DOMAIN RemoveAt(s, i) = 1..(Len(s) - 1)
           /\ \A j \in 1..(Len(s) - 1) :
                 RemoveAt(s, i)[j] = s[IF j < i THEN j ELSE j + 1]
  <1> DEFINE a == SubSeq(s, 1, i - 1)
             b == SubSeq(s, i + 1, Len(s))
  <1>1. Len(s) \in Nat /\ DOMAIN s = 1..Len(s) /\ i \in 1..Len(s)
    BY LenProperties
  <1>2. \A j \in 1..Len(s) : s[j] \in S
    BY ElementOfSeq
  <1>3. a \in Seq(S) /\ Len(a) = i - 1 /\ \A j \in 1..(i - 1) : a[j] = s[j]
    <2>1. \A j \in 1..(i - 1) : s[j] \in S
      BY <1>1, <1>2
    <2>2. /\ a \in Seq(S)
          /\ Len(a) = IF 1 <= i - 1 THEN (i - 1) - 1 + 1 ELSE 0
          /\ \A j \in 1..((i - 1) - 1 + 1) : a[j] = s[1 + j - 1]
      BY <1>1, <2>1, SubSeqProperties
    <2> HIDE DEF a
    <2> QED BY <1>1, <2>2
  <1>4. /\ b \in Seq(S) /\ Len(b) = Len(s) - i
        /\ \A j \in 1..(Len(s) - i) : b[j] = s[i + j]
    <2>1. \A j \in (i + 1)..Len(s) : s[j] \in S
      BY <1>1, <1>2
    <2>2. /\ b \in Seq(S)
          /\ Len(b) = IF i + 1 <= Len(s) THEN Len(s) - (i + 1) + 1 ELSE 0
          /\ \A j \in 1..(Len(s) - (i + 1) + 1) : b[j] = s[(i + 1) + j - 1]
      BY <1>1, <2>1, SubSeqProperties
    <2> HIDE DEF b
    <2>3. Len(b) = Len(s) - i
      BY <1>1, <2>2
    <2>4. ASSUME NEW j \in 1..(Len(s) - i)
          PROVE  b[j] = s[i + j]
      <3>1. j \in 1..(Len(s) - (i + 1) + 1) /\ (i + 1) + j - 1 = i + j
        BY <1>1
      <3> QED BY <2>2, <3>1
    <2> QED BY <2>2, <2>3, <2>4
  <1>5. RemoveAt(s, i) = a \o b
    BY DEF RemoveAt
  <1> HIDE DEF a, b
  <1>6. /\ a \o b \in Seq(S)
        /\ Len(a \o b) = Len(a) + Len(b)
        /\ \A j \in 1..(Len(a) + Len(b)) :
              (a \o b)[j] = IF j <= Len(a) THEN a[j] ELSE b[j - Len(a)]
    BY <1>3, <1>4, ConcatProperties, Zenon
  <1>7. DOMAIN (a \o b) = 1..(Len(s) - 1)
    <2>1. Len(a \o b) = Len(s) - 1
      BY <1>1, <1>3, <1>4, <1>6
    <2>2. DOMAIN (a \o b) = 1..Len(a \o b)
      BY <1>6, LenProperties, Zenon
    <2> QED BY <2>1, <2>2
  <1>8. ASSUME NEW j \in 1..(Len(s) - 1)
        PROVE  (a \o b)[j] = s[IF j < i THEN j ELSE j + 1]
    <2>1. j \in 1..(Len(a) + Len(b))
      BY <1>1, <1>3, <1>4
    <2>2. (a \o b)[j] = IF j <= Len(a) THEN a[j] ELSE b[j - Len(a)]
      BY <1>6, <2>1
    <2> QED BY <1>1, <1>3, <1>4, <2>2
  <1> QED BY <1>5, <1>6, <1>7, <1>8

\* What a follow list keeps when one follow goes, one is rewritten under its
\* tag, or a tag that was not followed is appended.
LEMMA FollowsShrink ==
    ASSUME NEW s \in Seq(Follow), OnePerTag(s), NEW i \in DOMAIN s
    PROVE  RemoveAt(s, i) \in Seq(Follow) /\ OnePerTag(RemoveAt(s, i))
  <1>1. /\ RemoveAt(s, i) \in Seq(Follow)
        /\ DOMAIN RemoveAt(s, i) = 1..(Len(s) - 1)
        /\ \A j \in 1..(Len(s) - 1) :
              RemoveAt(s, i)[j] = s[IF j < i THEN j ELSE j + 1]
    BY RemoveAtProperties
  <1>2. Len(s) \in Nat /\ DOMAIN s = 1..Len(s)
    BY LenProperties
  <1>3. ASSUME NEW j \in DOMAIN RemoveAt(s, i), NEW k \in DOMAIN RemoveAt(s, i),
               RemoveAt(s, i)[j].tag = RemoveAt(s, i)[k].tag
        PROVE  j = k
    <2> DEFINE u == IF j < i THEN j ELSE j + 1
               v == IF k < i THEN k ELSE k + 1
    <2>1. j \in 1..(Len(s) - 1) /\ k \in 1..(Len(s) - 1) /\ i \in 1..Len(s)
      BY <1>1, <1>2
    <2>2. u \in DOMAIN s /\ v \in DOMAIN s
      BY <1>2, <2>1
    <2>3. s[u].tag = s[v].tag
      BY <1>1, <1>3, <2>1
    <2>4. u = v
      BY <2>2, <2>3 DEF OnePerTag
    <2> QED BY <1>2, <2>1, <2>4
  <1> QED BY <1>1, <1>3 DEF OnePerTag

LEMMA FollowsRewritten ==
    ASSUME NEW s \in Seq(Follow), OnePerTag(s), NEW e \in [DOMAIN s -> Follow],
           \A i \in DOMAIN s : e[i].tag = s[i].tag
    PROVE  e \in Seq(Follow) /\ OnePerTag(e)
  <1>1. Len(s) \in Nat /\ DOMAIN s = 1..Len(s)
    BY LenProperties
  <1>2. e \in Seq(Follow)
    BY <1>1, IsASeq
  <1> QED BY <1>2 DEF OnePerTag

LEMMA FollowsGrow ==
    ASSUME NEW s \in Seq(Follow), OnePerTag(s), NEW row \in Follow,
           \A i \in DOMAIN s : s[i].tag # row.tag
    PROVE  Append(s, row) \in Seq(Follow) /\ OnePerTag(Append(s, row))
  <1>1. Len(s) \in Nat /\ DOMAIN s = 1..Len(s)
    BY LenProperties
  <1>2. /\ Append(s, row) \in Seq(Follow)
        /\ Len(Append(s, row)) = Len(s) + 1
        /\ \A i \in 1..Len(s) : Append(s, row)[i] = s[i]
        /\ Append(s, row)[Len(s) + 1] = row
    BY AppendProperties
  <1>3. DOMAIN Append(s, row) = 1..(Len(s) + 1)
    BY <1>2, LenProperties
  <1> DEFINE t == Append(s, row)
  <1>4. /\ DOMAIN t = 1..(Len(s) + 1)
        /\ \A i \in 1..Len(s) : t[i] = s[i]
        /\ t[Len(s) + 1] = row
    BY <1>2, <1>3
  <1> HIDE DEF t
  <1>5. OnePerTag(t)
    <2> SUFFICES ASSUME NEW i \in DOMAIN t, NEW j \in DOMAIN t, t[i].tag = t[j].tag
                 PROVE  i = j
      BY DEF OnePerTag
    <2>1. i \in 1..Len(s) \/ i = Len(s) + 1
      BY <1>1, <1>4
    <2>2. j \in 1..Len(s) \/ j = Len(s) + 1
      BY <1>1, <1>4
    <2> QED BY <1>1, <1>4, <2>1, <2>2 DEF OnePerTag
  <1> QED BY <1>2, <1>5 DEF t

----------------------------------------------------------------------------
(* handle_newly_tagged, for one reader.                                    *)

\* The preset that comes with an attached tag is one that a followed tag
\* carries; a tuned one if there is one.
LEMMA ChosenProperties ==
    ASSUME NEW m \in Reader, NEW new
    PROVE  /\ ChosenPreset(m, new) \in Preset \cup {None}
           /\ (\A i \in Follows(m, new) : m.follows[i].preset = None)
                => ChosenPreset(m, new) = None
           /\ (\E i \in Follows(m, new) : m.follows[i].preset \notin {None, m.default})
                => ChosenPreset(m, new) \in Preset \ {m.default}
  <1> DEFINE linked == Linked(m, new)
             tuned  == {i \in linked : m.follows[i].preset # m.default}
  <1>1. /\ DOMAIN m.follows \subseteq Nat
        /\ \A i \in DOMAIN m.follows : m.follows[i].preset \in Preset \cup {None}
    <2>1. m.follows \in Seq(Follow)
      BY DEF Reader
    <2>2. DOMAIN m.follows = 1..Len(m.follows) /\ Len(m.follows) \in Nat
      BY <2>1, LenProperties
    <2>3. \A i \in DOMAIN m.follows : m.follows[i] \in Follow
      BY <2>1, <2>2, ElementOfSeq
    <2> QED BY <2>2, <2>3 DEF Follow
  <1>2. linked \subseteq DOMAIN m.follows /\ \A i \in linked : m.follows[i].preset # None
    BY DEF Linked
  <1>3. linked # {} => Earliest(linked) \in linked
    BY <1>1, <1>2, EarliestIsFirst
  <1>4. tuned # {} => Earliest(tuned) \in tuned
    BY <1>1, <1>2, EarliestIsFirst
  <1>5. ChosenPreset(m, new) =
          CASE tuned # {}  -> m.follows[Earliest(tuned)].preset
            [] linked = {} -> None
            [] OTHER       -> m.follows[Earliest(linked)].preset
    BY DEF ChosenPreset
  <1>6. /\ (\A i \in Follows(m, new) : m.follows[i].preset = None) => linked = {}
        /\ (\E i \in Follows(m, new) : m.follows[i].preset \notin {None, m.default}) => tuned # {}
    BY DEF Follows, Linked
  <1>7. linked = {} => tuned = {}
    OBVIOUS
  <1>8. /\ tuned # {} => ChosenPreset(m, new) \in Preset \ {m.default}
        /\ linked = {} => ChosenPreset(m, new) = None
        /\ tuned = {} /\ linked # {} => ChosenPreset(m, new) \in Preset
    <2>1. CASE tuned # {}
      <3>1. ChosenPreset(m, new) = m.follows[Earliest(tuned)].preset /\ linked # {}
        BY <1>5, <1>7, <2>1
      <3> QED BY <1>1, <1>2, <1>4, <2>1, <3>1
    <2>2. CASE tuned = {} /\ linked = {}
      <3>1. ChosenPreset(m, new) = None
        BY <1>5, <2>2
      <3> QED BY <2>2, <3>1
    <2>3. CASE tuned = {} /\ linked # {}
      <3>1. ChosenPreset(m, new) = m.follows[Earliest(linked)].preset
        BY <1>5, <2>3
      <3> QED BY <1>1, <1>2, <1>3, <2>3, <3>1
    <2> QED BY <2>1, <2>2, <2>3
  <1> QED BY <1>6, <1>8

\* What one pass does to a reader: nothing, or the preset's rules and a notice
\* if one of the follows asks for it.
LEMMA ToldProperties ==
    ASSUME TagAssumption, NEW m \in Reader, NEW new
    PROVE  LET n == Told(m, new)
               chosen == ChosenPreset(m, new)
           IN /\ n \in Reader /\ n.follows = m.follows /\ n.default = m.default
              /\ Follows(m, new) = {} \/ HasRules(m) => n = m
              /\ Follows(m, new) # {} /\ ~HasRules(m) =>
                    /\ n.rules = IF chosen = None THEN m.rules
                                 ELSE [m.rules EXCEPT ![chosen] = 1]
                    /\ n.notices = IF \E i \in Follows(m, new) : m.follows[i].notify
                                   THEN m.notices + 1 ELSE m.notices
  <1> DEFINE n       == Told(m, new)
             chosen  == ChosenPreset(m, new)
             applied == IF chosen = None THEN m ELSE ApplyPreset(m, chosen)
             told    == IF \E i \in Follows(m, new) : m.follows[i].notify
                        THEN m.notices + 1 ELSE m.notices
  <1>1. chosen \in Preset \cup {None} /\ None \notin Preset
    BY ChosenProperties DEF TagAssumption
  <1>2. CASE Follows(m, new) = {} \/ HasRules(m)
    <2>1. n = m
      BY <1>2 DEF Told
    <2> QED BY <1>2, <2>1
  <1>3. CASE Follows(m, new) # {} /\ ~HasRules(m)
    <2>1. n = [applied EXCEPT !.notices =
                  IF \E i \in Follows(m, new) : m.follows[i].notify THEN @ + 1 ELSE @]
      BY <1>3 DEF Told
    <2> HIDE DEF n
    <2>2. /\ applied \in Reader /\ applied.follows = m.follows /\ applied.default = m.default
          /\ applied.notices = m.notices
          /\ applied.rules = IF chosen = None THEN m.rules ELSE [m.rules EXCEPT ![chosen] = 1]
      <3>1. CASE chosen = None
        BY <3>1
      <3>2. CASE chosen # None
        <4> HIDE DEF chosen
        <4>1. chosen \in Preset /\ m.rules \in [Preset -> Nat]
          BY <1>1, <3>2 DEF Reader
        <4>2. m.rules[chosen] = 0
          BY <1>3, <4>1 DEF HasRules
        <4>3. applied = [m EXCEPT !.rules = [m.rules EXCEPT ![chosen] = 1]]
          BY <3>2, <4>2 DEF ApplyPreset, Reader
        <4>4. [m.rules EXCEPT ![chosen] = 1] \in [Preset -> Nat]
          BY <4>1
        <4> HIDE DEF applied
        <4> QED BY <3>2, <4>3, <4>4 DEF Reader
      <3> QED BY <3>1, <3>2
    <2> HIDE DEF applied, chosen
    <2>3. n = [applied EXCEPT !.notices = told] /\ told \in Nat
      <3>1. m.notices \in Nat
        BY DEF Reader
      <3> QED BY <2>1, <2>2, <3>1 DEF Reader
    <2> HIDE DEF told
    <2>4. /\ n \in Reader /\ n.follows = m.follows /\ n.default = m.default
          /\ n.rules = applied.rules /\ n.notices = told
      BY <2>2, <2>3 DEF Reader
    <2> QED BY <1>3, <2>2, <2>4 DEF told, chosen, n
  <1> QED BY <1>2, <1>3

----------------------------------------------------------------------------
(* Type correctness.                                                       *)

Readers(all) == all \in [User -> Reader] /\ \A u \in User : OnePerTag(all[u].follows)

\* A pass over the readers leaves their follows and defaults alone.
LEMMA HandleProperties ==
    ASSUME TagAssumption, NEW all, Readers(all), NEW dead, NEW new
    PROVE  /\ Readers(HandleNewlyTagged(all, dead, new))
           /\ \A u \in User :
                 /\ HandleNewlyTagged(all, dead, new)[u].follows = all[u].follows
                 /\ HandleNewlyTagged(all, dead, new)[u].default = all[u].default
  <1>1. ASSUME NEW u \in User
        PROVE  LET n == IF dead THEN all[u] ELSE Told(all[u], new)
               IN n \in Reader /\ n.follows = all[u].follows /\ n.default = all[u].default
    <2>1. all[u] \in Reader
      BY DEF Readers
    <2> QED BY <2>1, ToldProperties
  <1> QED BY <1>1 DEF HandleNewlyTagged, Readers

\* Voices are artists, and what is attached or left is a set of tags.
LEMMA TagSets ==
    ASSUME TypeOK, NEW ts \in SUBSET Tag, NEW chosen \in SUBSET Tag, NEW keep
    PROVE  /\ VoicesOf(ts) \subseteq Artist
           /\ Attach(ts, chosen) \subseteq Tag
           /\ Detach(ts, chosen, keep) \subseteq ts
  <1>1. \A x : VoicesOf(x) \subseteq Artist
    BY DEF VoicesOf, TypeOK
  <1> QED BY <1>1 DEF Attach, Detach, Tag

\* A save of the concert.
LEMMA SaveTyped ==
    ASSUME TagAssumption, TypeOK, NEW tags \in SUBSET Tag, NEW vs \in SUBSET Venue,
           NEW dead \in BOOLEAN, Save(tags, vs, dead)
    PROVE  TypeOK'
  <1>1. Readers(mine')
    <2>1. Readers(mine)
      BY DEF TypeOK, Readers
    <2> QED BY <2>1, HandleProperties DEF Save, Announce
  <1>2. concert' \in [tags : SUBSET Tag, dead : BOOLEAN, made : BOOLEAN] /\ concert'.made
    BY DEF Save, Tag
  <1> QED BY <1>1, <1>2 DEF Save, TypeOK, Readers

\* A reader's own settings.
LEMMA MineTyped ==
    ASSUME TypeOK, NEW u \in User, NEW m \in Reader, OnePerTag(m.follows), Mine(u, m)
    PROVE  TypeOK'
  <1>1. Readers(mine')
    BY DEF Mine, TypeOK, Readers
  <1> QED BY <1>1 DEF Mine, Setting, TypeOK, Readers

LEMMA FollowEdits ==
    ASSUME TypeOK, NEW u \in User, NEW p \in Preset \cup {None}, NEW notify \in BOOLEAN
    PROVE  /\ \A t \in Tag : Subscribe(u, t, p, notify) => TypeOK'
           /\ \A i \in DOMAIN mine[u].follows :
                 ChangeFollow(u, i, p, notify) \/ Unfollow(u, i) => TypeOK'
  <1> DEFINE m == mine[u]
             s == m.follows
  <1>1. /\ m \in Reader /\ OnePerTag(s) /\ s \in Seq(Follow)
        /\ m.default \in Preset \cup {None}
    BY DEF TypeOK, Reader
  <1>2. \A i \in DOMAIN s : s[i] \in Follow
    BY <1>1, LenProperties, ElementOfSeq
  <1>3. /\ DOMAIN s \subseteq Nat
    BY <1>1, LenProperties
  <1>4. ASSUME NEW f \in Seq(Follow), OnePerTag(f), Mine(u, [m EXCEPT !.follows = f])
        PROVE  TypeOK'
    <2>1. [m EXCEPT !.follows = f] \in Reader /\ [m EXCEPT !.follows = f].follows = f
      BY <1>1, <1>4 DEF Reader
    <2> HIDE DEF m
    <2> QED BY <1>4, <2>1, MineTyped
  <1>5. ASSUME NEW i \in DOMAIN s, NEW row \in Follow, row.tag = s[i].tag
        PROVE  [s EXCEPT ![i] = row] \in Seq(Follow) /\ OnePerTag([s EXCEPT ![i] = row])
    <2> DEFINE e == [s EXCEPT ![i] = row]
    <2>1. e \in [DOMAIN s -> Follow] /\ \A j \in DOMAIN s : e[j].tag = s[j].tag
      <3> HIDE DEF s
      <3>1. s = [j \in DOMAIN s |-> s[j]]
        BY <1>1
      <3> QED BY <1>2, <1>5, <3>1
    <2> HIDE DEF e, s
    <2>2. e \in Seq(Follow) /\ OnePerTag(e)
      BY <1>1, <2>1, FollowsRewritten
    <2> QED BY <2>2 DEF e
  <1>6. ASSUME NEW t \in Tag, Subscribe(u, t, p, notify)
        PROVE  TypeOK'
    <2> DEFINE have == {i \in DOMAIN s : s[i].tag = t}
               row  == [tag |-> t, preset |-> IF p = None THEN m.default ELSE p, notify |-> notify]
               k    == Earliest(have)
    <2>1. row \in Follow
      BY <1>1 DEF Follow
    <2>2. CASE have = {}
      <3>1. Mine(u, [m EXCEPT !.follows = Append(s, row)])
        BY <1>6, <2>2 DEF Subscribe
      <3>2. Append(s, row) \in Seq(Follow) /\ OnePerTag(Append(s, row))
        <4>1. \A i \in DOMAIN s : s[i].tag # row.tag
          BY <2>2
        <4> HIDE DEF row, s
        <4> QED BY <1>1, <2>1, <4>1, FollowsGrow
      <3> HIDE DEF m, s, row
      <3> QED BY <1>4, <3>1, <3>2
    <2>3. CASE have # {}
      <3>1. Mine(u, [m EXCEPT !.follows[k] =
                        [tag |-> t, preset |-> IF p = None THEN @.preset ELSE p,
                         notify |-> notify]])
        BY <1>6, <2>3 DEF Subscribe
      <3>2. k \in DOMAIN s /\ s[k] \in Follow
        BY <1>2, <1>3, <2>3, EarliestIsFirst
      <3> DEFINE new == [tag |-> t, preset |-> IF p = None THEN s[k].preset ELSE p,
                         notify |-> notify]
      <3>3. new \in Follow /\ new.tag = s[k].tag
        <4>1. k \in have
          BY <1>3, <2>3, EarliestIsFirst
        <4> QED BY <3>2, <4>1 DEF Follow
      <3>4. Mine(u, [m EXCEPT !.follows = [s EXCEPT ![k] = new]])
        BY <3>1
      <3> HIDE DEF m, s, k, new
      <3> QED BY <1>4, <1>5, <3>2, <3>3, <3>4
    <2> QED BY <2>2, <2>3
  <1>7. ASSUME NEW i \in DOMAIN s, ChangeFollow(u, i, p, notify)
        PROVE  TypeOK'
    <2> DEFINE new == [s[i] EXCEPT !.preset = p, !.notify = notify]
    <2>1. new \in Follow /\ new.tag = s[i].tag
      BY <1>2 DEF Follow
    <2>2. Mine(u, [m EXCEPT !.follows = [s EXCEPT ![i] = new]])
      BY <1>7 DEF ChangeFollow
    <2> HIDE DEF m, s, new
    <2> QED BY <1>4, <1>5, <2>1, <2>2
  <1>8. ASSUME NEW i \in DOMAIN s, Unfollow(u, i)
        PROVE  TypeOK'
    <2>1. Mine(u, [m EXCEPT !.follows = RemoveAt(s, i)])
      BY <1>8 DEF Unfollow
    <2>2. RemoveAt(s, i) \in Seq(Follow) /\ OnePerTag(RemoveAt(s, i))
      BY <1>1, FollowsShrink
    <2> HIDE DEF m, s
    <2> QED BY <1>4, <2>1, <2>2
  <1> QED BY <1>6, <1>7, <1>8

\* What a reader changes on the whole list, or beside it.
LEMMA PresetEdits ==
    ASSUME TypeOK, NEW u \in User
    PROVE  /\ \A p \in Preset : SetDefault(u, p) \/ DeletePreset(u, p) => TypeOK'
           /\ ApplyDefaultToFollowing(u) \/ RemoveRules(u) => TypeOK'
  <1> DEFINE m == mine[u]
             s == m.follows
  <1>1. /\ m \in Reader /\ OnePerTag(s) /\ s \in Seq(Follow)
        /\ m.default \in Preset \cup {None}
    BY DEF TypeOK, Reader
  <1>2. \A i \in DOMAIN s : s[i] \in Follow
    BY <1>1, LenProperties, ElementOfSeq
  <1>3. ASSUME NEW p \in Preset, SetDefault(u, p)
        PROVE  TypeOK'
    <2>1. [m EXCEPT !.default = p] \in Reader /\ [m EXCEPT !.default = p].follows = s
      BY <1>1 DEF Reader
    <2> QED BY <1>1, <1>3, <2>1, MineTyped DEF SetDefault
  <1>4. ASSUME NEW p \in Preset, DeletePreset(u, p)
        PROVE  TypeOK'
    <2> DEFINE d == IF m.default = p THEN None ELSE m.default
               e == [i \in DOMAIN s |-> IF s[i].preset = p THEN [s[i] EXCEPT !.preset = None]
                                                           ELSE s[i]]
               n == [m EXCEPT !.default = d, !.follows = e]
    <2>1. Mine(u, n)
      BY <1>4 DEF DeletePreset
    <2>2. e \in [DOMAIN s -> Follow] /\ \A i \in DOMAIN s : e[i].tag = s[i].tag
      BY <1>2 DEF Follow
    <2> HIDE DEF e
    <2>3. e \in Seq(Follow) /\ OnePerTag(e)
      BY <1>1, <2>2, FollowsRewritten
    <2>4. n \in Reader /\ n.follows = e
      BY <1>1, <2>3 DEF Reader
    <2> HIDE DEF n
    <2> QED BY <2>1, <2>3, <2>4, MineTyped
  <1>5. ASSUME ApplyDefaultToFollowing(u)
        PROVE  TypeOK'
    <2> DEFINE e == [i \in DOMAIN s |-> IF s[i].preset = None THEN [s[i] EXCEPT !.preset = m.default]
                                                              ELSE s[i]]
               n == [m EXCEPT !.follows = e]
    <2>1. Mine(u, n)
      BY <1>5 DEF ApplyDefaultToFollowing
    <2>2. e \in [DOMAIN s -> Follow] /\ \A i \in DOMAIN s : e[i].tag = s[i].tag
      BY <1>1, <1>2 DEF Follow
    <2> HIDE DEF e
    <2>3. e \in Seq(Follow) /\ OnePerTag(e)
      BY <1>1, <2>2, FollowsRewritten
    <2>4. n \in Reader /\ n.follows = e
      BY <1>1, <2>3 DEF Reader
    <2> HIDE DEF n
    <2> QED BY <2>1, <2>3, <2>4, MineTyped
  <1>6. ASSUME RemoveRules(u)
        PROVE  TypeOK'
    <2> DEFINE n == [m EXCEPT !.rules = [p \in Preset |-> 0]]
    <2>1. n \in Reader /\ n.follows = s
      BY <1>1 DEF Reader
    <2> QED BY <1>1, <1>6, <2>1, MineTyped DEF RemoveRules
  <1> QED BY <1>3, <1>4, <1>5, <1>6

\* A deleted tag takes at most one follow from each reader.
LEMMA DeleteTagTyped ==
    ASSUME TypeOK, NEW t \in Tag, DeleteTag(t)
    PROVE  TypeOK'
  <1>1. ASSUME NEW u \in User
        PROVE  /\ [mine[u] EXCEPT !.follows = WithoutTag(@, t)] \in Reader
               /\ OnePerTag([mine[u] EXCEPT !.follows = WithoutTag(@, t)].follows)
    <2> DEFINE s    == mine[u].follows
               have == {i \in DOMAIN s : s[i].tag = t}
    <2>1. mine[u] \in Reader /\ OnePerTag(s) /\ s \in Seq(Follow)
      BY DEF TypeOK, Reader
    <2>2. WithoutTag(s, t) \in Seq(Follow) /\ OnePerTag(WithoutTag(s, t))
      <3>1. CASE have = {}
        BY <2>1, <3>1 DEF WithoutTag
      <3>2. CASE have # {}
        <4>1. Earliest(have) \in DOMAIN s
          <5>1. have \subseteq Nat
            BY <2>1, LenProperties
          <5>2. Earliest(have) \in have
            <6> HIDE DEF have
            <6> QED BY <3>2, <5>1, EarliestIsFirst
          <5> QED BY <5>2
        <4>2. WithoutTag(s, t) = RemoveAt(s, Earliest(have))
          BY <3>2 DEF WithoutTag
        <4> HIDE DEF have, s
        <4> QED BY <2>1, <4>1, <4>2, FollowsShrink
      <3> QED BY <3>1, <3>2
    <2> QED BY <2>1, <2>2 DEF Reader
  <1>2. Readers(mine')
    BY <1>1 DEF DeleteTag, Readers
  <1>3. /\ voice' \in [Character -> Artist \cup {None}]
        /\ members' \in [Group -> SUBSET (Tag \ Group)]
    BY DEF DeleteTag, TypeOK
  <1>4. /\ concert' \in [tags : SUBSET Tag, dead : BOOLEAN, made : BOOLEAN]
        /\ ~concert'.made => concert' = NoConcert
    <2>1. /\ concert' = [concert EXCEPT !.tags = concert.tags \ {t}]
          /\ concert \in [tags : SUBSET Tag, dead : BOOLEAN, made : BOOLEAN]
          /\ ~concert.made => concert = NoConcert
      BY DEF DeleteTag, TypeOK
    <2>2. /\ concert' \in [tags : SUBSET Tag, dead : BOOLEAN, made : BOOLEAN]
          /\ concert'.made = concert.made
      BY <2>1
    <2>3. concert = NoConcert => concert' = NoConcert
      <3>1. NoConcert.tags = {}
        BY DEF NoConcert
      <3>2. concert = NoConcert => concert' = [NoConcert EXCEPT !.tags = {}]
        BY <2>1, <3>1
      <3> QED BY <3>2 DEF NoConcert
    <2> QED BY <2>1, <2>2, <2>3
  <1> QED BY <1>2, <1>3, <1>4 DEF DeleteTag, Setting, TypeOK, Readers

\* The reader's own presses.
LEMMA PressTyped ==
    ASSUME TypeOK
    PROVE  /\ \A u \in User, p \in Preset : Press(u, p) => TypeOK'
           /\ \A w \in pressing : WriteRules(w) => TypeOK'
  <1>1. ASSUME NEW u \in User, NEW p \in Preset, Press(u, p)
        PROVE  TypeOK'
    BY <1>1 DEF Press, TypeOK
  <1>2. ASSUME NEW w \in pressing, WriteRules(w)
        PROVE  TypeOK'
    <2> DEFINE m == mine[w.by]
               n == [m EXCEPT !.rules = [m.rules EXCEPT ![w.preset] = @ + 1]]
    <2>1. w.by \in User /\ w.preset \in Preset
      BY DEF TypeOK
    <2>2. m \in Reader /\ mine \in [User -> Reader] /\ \A u \in User : OnePerTag(mine[u].follows)
      BY <2>1 DEF TypeOK
    <2>3. [m.rules EXCEPT ![w.preset] = @ + 1] \in [Preset -> Nat]
      BY <2>1, <2>2 DEF Reader
    <2>4. n \in Reader /\ n.follows = m.follows
      BY <2>2, <2>3 DEF Reader
    <2>5. mine' = [mine EXCEPT ![w.by] = n]
      BY <1>2, <2>1, <2>2 DEF WriteRules, Reader
    <2> HIDE DEF n
    <2>6. Readers(mine')
      BY <2>1, <2>2, <2>4, <2>5 DEF Readers
    <2> QED BY <1>2, <2>6 DEF WriteRules, TypeOK, Readers
  <1> QED BY <1>1, <1>2

\* The editors.
LEMMA EditorTyped ==
    ASSUME TagAssumption, TypeOK
    PROVE  /\ Tagging => TypeOK'
           /\ \A g \in Group, m \in Tag : RetroactiveApply(g, m) => TypeOK'
           /\ \A g \in Group, m \in Tag \ Group : ChangeMembers(g, m) => TypeOK'
           /\ \A c \in Character, a \in Artist \cup {None} : ChangeVoice(c, a) => TypeOK'
  <1>1. concert.tags \in SUBSET Tag /\ concert.dead \in BOOLEAN
    BY DEF TypeOK
  <1>2. ASSUME NEW chosen \in SUBSET (Tag \ Venue), NEW vs \in SUBSET Venue, NEW dead \in BOOLEAN,
               CreateConcert(chosen, vs, dead) \/ EditConcert(chosen, vs, dead)
        PROVE  TypeOK'
    <2> DEFINE before == concert.tags \ Venue
               kept   == Detach(before, before \ Keep(chosen), Keep(chosen))
    <2>1. Attach({}, chosen) \in SUBSET Tag
      BY TagSets
    <2>2. before \in SUBSET Tag /\ before \ Keep(chosen) \in SUBSET Tag
      BY <1>1
    <2>3. kept \in SUBSET Tag
      <3> HIDE DEF before
      <3>1. kept \subseteq before
        BY <2>2, TagSets
      <3> QED BY <2>2, <3>1
    <2>4. chosen \ before \in SUBSET Tag
      OBVIOUS
    <2> HIDE DEF before, kept
    <2>5. Attach(kept, chosen \ before) \in SUBSET Tag
      BY <2>3, <2>4, TagSets
    <2>6. CASE CreateConcert(chosen, vs, dead)
      BY <2>1, <2>6, SaveTyped DEF CreateConcert
    <2>7. CASE EditConcert(chosen, vs, dead)
      BY <2>5, <2>7, SaveTyped DEF EditConcert, before, kept
    <2> QED BY <1>2, <2>6, <2>7
  <1>3. ASSUME NEW g \in Group, NEW m \in Tag, RetroactiveApply(g, m)
        PROVE  TypeOK'
    <2> DEFINE new == Attach(concert.tags, {m}) \ concert.tags
    <2>1. new \subseteq Tag
      <3>1. {m} \in SUBSET Tag
        OBVIOUS
      <3> QED BY <1>1, <3>1, TagSets
    <2>2. /\ concert' = [concert EXCEPT !.tags = @ \cup new]
          /\ mine' = HandleNewlyTagged(mine, concert.dead, new)
          /\ concert.made /\ saves' = saves + 1
          /\ UNCHANGED <<voice, members, pressing, settings>>
      BY <1>3 DEF RetroactiveApply
    <2> HIDE DEF new
    <2>3. Readers(mine')
      <3>1. Readers(mine)
        BY DEF TypeOK, Readers
      <3> QED BY <2>2, <3>1, HandleProperties
    <2>4. concert' \in [tags : SUBSET Tag, dead : BOOLEAN, made : BOOLEAN] /\ concert'.made
      BY <2>1, <2>2 DEF TypeOK
    <2> QED BY <2>2, <2>3, <2>4 DEF TypeOK, Readers
  <1>4. ASSUME NEW g \in Group, NEW m \in Tag \ Group, ChangeMembers(g, m)
        PROVE  TypeOK'
    <2>1. members' \in [Group -> SUBSET (Tag \ Group)]
      BY <1>4 DEF ChangeMembers, TypeOK
    <2> QED BY <1>4, <2>1 DEF ChangeMembers, Setting, TypeOK
  <1>5. ASSUME NEW c \in Character, NEW a \in Artist \cup {None}, ChangeVoice(c, a)
        PROVE  TypeOK'
    <2>1. voice' \in [Character -> Artist \cup {None}]
      BY <1>5 DEF ChangeVoice, TypeOK
    <2> QED BY <1>5, <2>1 DEF ChangeVoice, Setting, TypeOK
  <1> QED BY <1>2, <1>3, <1>4, <1>5 DEF Tagging

\* Type correctness of the catalogue, the concert and the readers.
THEOREM FollowingTypeCorrect == Spec => []TypeOK
  <1>1. Init => TypeOK
    <2> SUFFICES ASSUME Init PROVE TypeOK
      OBVIOUS
    <2>1. PICK f \in [User -> Follows0], d \in [User -> Preset \cup {None}] :
             mine = [u \in User |-> NewReader(f[u], d[u])]
      BY DEF Init
    <2>2. ASSUME NEW u \in User
          PROVE  mine[u] \in Reader /\ OnePerTag(mine[u].follows)
      <3>1. f[u] \in Seq(Follow) /\ OnePerTag(f[u]) /\ mine[u] = NewReader(f[u], d[u])
        BY <2>1, FollowsAssumption
      <3> QED BY <3>1 DEF NewReader, Reader
    <2>3. mine \in [User -> Reader]
      BY <2>1, <2>2
    <2> QED BY <2>2, <2>3 DEF Init, TypeOK, NoConcert
  <1>2. TypeOK /\ [Next]_vars => TypeOK'
    <2> SUFFICES ASSUME TypeOK, [Next]_vars PROVE TypeOK'
      OBVIOUS
    <2>1. CASE UNCHANGED vars
      BY <2>1 DEF vars, TypeOK
    <2> QED BY <2>1, TagAssumption, EditorTyped, DeleteTagTyped, FollowEdits, PresetEdits, PressTyped DEF Next
  <1> QED BY <1>1, <1>2, PTL DEF Spec

----------------------------------------------------------------------------
(* What the other steps leave alone.                                       *)

NoNotice == \A u \in User : mine'[u].notices = mine[u].notices

\* Only a save and the retroactive page attach tags or send notices.
LEMMA StepKinds ==
    ASSUME TypeOK, [Next]_vars
    PROVE  \/ Tagging
           \/ \E g \in Group, m \in Tag : RetroactiveApply(g, m)
           \/ NoNotice /\ \E t \in Tag : DeleteTag(t)
           \/ NoNotice /\ UNCHANGED concert
  <1>1. \A u \in User : mine[u] \in Reader
    BY DEF TypeOK
  <1>2. ASSUME NEW u \in User, NEW m, m.notices = mine[u].notices, Mine(u, m)
        PROVE  NoNotice /\ UNCHANGED concert
    BY <1>2 DEF Mine, NoNotice, TypeOK
  <1>3. ASSUME NEW u \in User, NEW t \in Tag, NEW p, NEW n, Subscribe(u, t, p, n)
        PROVE  NoNotice /\ UNCHANGED concert
    <2> DEFINE m    == mine[u]
               have == {i \in DOMAIN m.follows : m.follows[i].tag = t}
               row  == [tag |-> t, preset |-> IF p = None THEN m.default ELSE p, notify |-> n]
               grow == [m EXCEPT !.follows = Append(@, row)]
               edit == [m EXCEPT !.follows[Earliest(have)] =
                           [tag |-> t, preset |-> IF p = None THEN @.preset ELSE p,
                            notify |-> n]]
    <2>1. Mine(u, grow) \/ Mine(u, edit)
      BY <1>3 DEF Subscribe
    <2>2. grow.notices = m.notices /\ edit.notices = m.notices
      BY <1>1 DEF Reader
    <2> HIDE DEF grow, edit
    <2> QED BY <1>2, <2>1, <2>2
  <1>4. ASSUME NEW u \in User, NEW i, NEW p, NEW n, ChangeFollow(u, i, p, n)
        PROVE  NoNotice /\ UNCHANGED concert
    <2> DEFINE m == [mine[u] EXCEPT !.follows[i] = [@ EXCEPT !.preset = p, !.notify = n]]
    <2>1. m.notices = mine[u].notices
      BY <1>1 DEF Reader
    <2> HIDE DEF m
    <2> QED BY <1>2, <1>4, <2>1 DEF ChangeFollow, m
  <1>5. ASSUME NEW u \in User, NEW i, Unfollow(u, i)
        PROVE  NoNotice /\ UNCHANGED concert
    <2> DEFINE m == [mine[u] EXCEPT !.follows = RemoveAt(@, i)]
    <2>1. m.notices = mine[u].notices
      BY <1>1 DEF Reader
    <2> HIDE DEF m
    <2> QED BY <1>2, <1>5, <2>1 DEF Unfollow, m
  <1>6. ASSUME NEW u \in User, NEW p, SetDefault(u, p)
        PROVE  NoNotice /\ UNCHANGED concert
    <2>1. [mine[u] EXCEPT !.default = p].notices = mine[u].notices
      BY <1>1 DEF Reader
    <2> QED BY <1>2, <1>6, <2>1 DEF SetDefault
  <1>7. ASSUME NEW u \in User, NEW p, DeletePreset(u, p)
        PROVE  NoNotice /\ UNCHANGED concert
    <2> DEFINE m == [mine[u] EXCEPT !.default = IF @ = p THEN None ELSE @,
                            !.follows = [i \in DOMAIN @ |->
                                IF @[i].preset = p THEN [@[i] EXCEPT !.preset = None]
                                                   ELSE @[i]]]
    <2>1. m.notices = mine[u].notices
      BY <1>1 DEF Reader
    <2> HIDE DEF m
    <2> QED BY <1>2, <1>7, <2>1 DEF DeletePreset, m
  <1>8. ASSUME NEW u \in User, ApplyDefaultToFollowing(u)
        PROVE  NoNotice /\ UNCHANGED concert
    <2> DEFINE m == [mine[u] EXCEPT !.follows =
                        [i \in DOMAIN @ |-> IF @[i].preset = None
                                            THEN [@[i] EXCEPT !.preset = mine[u].default]
                                            ELSE @[i]]]
    <2>1. m.notices = mine[u].notices
      BY <1>1 DEF Reader
    <2> HIDE DEF m
    <2> QED BY <1>2, <1>8, <2>1 DEF ApplyDefaultToFollowing, m
  <1>9. ASSUME NEW u \in User, RemoveRules(u)
        PROVE  NoNotice /\ UNCHANGED concert
    <2>1. [mine[u] EXCEPT !.rules = [p \in Preset |-> 0]].notices = mine[u].notices
      BY <1>1 DEF Reader
    <2> QED BY <1>2, <1>9, <2>1 DEF RemoveRules
  <1>10. ASSUME NEW u \in User, NEW p, Press(u, p)
         PROVE  NoNotice /\ UNCHANGED concert
    BY <1>10 DEF Press, NoNotice
  <1>11. ASSUME NEW w \in pressing, WriteRules(w)
         PROVE  NoNotice /\ UNCHANGED concert
    <2>1. w.by \in User /\ mine \in [User -> Reader]
      BY DEF TypeOK
    <2>2. mine' = [mine EXCEPT ![w.by].rules[w.preset] = @ + 1]
      BY <1>11 DEF WriteRules
    <2>3. ASSUME NEW u \in User PROVE mine'[u].notices = mine[u].notices
      BY <2>1, <2>2 DEF Reader
    <2> QED BY <1>11, <2>3 DEF WriteRules, NoNotice
  <1>12. ASSUME NEW t \in Tag, DeleteTag(t)
         PROVE  NoNotice
    BY <1>1, <1>12 DEF DeleteTag, NoNotice, Reader
  <1>13. ASSUME (\E g \in Group, m \in Tag \ Group : ChangeMembers(g, m))
                \/ (\E c \in Character, a \in Artist \cup {None} : ChangeVoice(c, a))
                \/ UNCHANGED vars
         PROVE  NoNotice /\ UNCHANGED concert
    BY <1>13 DEF ChangeMembers, ChangeVoice, vars, NoNotice
  <1> QED BY <1>3, <1>4, <1>5, <1>6, <1>7, <1>8, <1>9, <1>10, <1>11, <1>12, <1>13 DEF Next

----------------------------------------------------------------------------
(* The performer stays.                                                    *)

\* An edit that keeps a character keeps the artist who voices her: while the
\* character is in the form, Keep holds her voice against the detach; if she
\* is not, she is herself detached.
LEMMA EditKeepsVoice ==
    ASSUME TagAssumption, TypeOK,
           NEW chosen \in SUBSET (Tag \ Venue), NEW vs \in SUBSET Venue, NEW dead \in BOOLEAN,
           EditConcert(chosen, vs, dead),
           NEW c \in Character, c \in concert.tags, c \in concert'.tags,
           voice[c] \in concert.tags
    PROVE  voice[c] \in concert'.tags
  <1> DEFINE before == concert.tags \ Venue
             gone   == before \ Keep(chosen)
             left   == before \ gone
             kept   == Detach(before, gone, Keep(chosen))
             a      == voice[c]
  <1>1. /\ concert.tags \subseteq Tag /\ a \in Artist \cup {None} /\ a # None
        /\ c \notin Artist \cup Group \cup Venue /\ None \notin Tag
        /\ \A x \in Artist : x \notin Venue
    BY DEF TypeOK, TagAssumption
  <1>2. a \in Artist /\ a \notin Venue /\ a \in before /\ c \in before
    BY <1>1
  <1>3. concert'.tags = Attach(kept, chosen \ before) \cup vs
    BY DEF EditConcert, Save
  <1>4. \A ts : VoicesOf(ts) \subseteq Artist
    BY DEF VoicesOf, TypeOK
  <1>5. kept = left \ (VoicesOf(gone) \ (VoicesOf(left) \cup Keep(chosen)))
    BY DEF Detach
  <1>6. \A ts : c \in ts => a \in VoicesOf(ts)
    BY <1>1 DEF VoicesOf
  <1> HIDE DEF a
  <1>7. c \in kept
    <2>1. c \in Attach(kept, chosen \ before)
      BY <1>1, <1>3
    <2>2. c \notin VoicesOf((chosen \ before) \ kept)
      BY <1>1, <1>4
    <2> HIDE DEF kept, before
    <2> QED BY <1>2, <2>1, <2>2 DEF Attach
  <1>8. c \in left /\ c \in Keep(chosen)
    BY <1>5, <1>7
  <1>9. c \in chosen
    BY <1>1, <1>4, <1>8 DEF Keep
  <1>10. a \in VoicesOf(left) /\ a \in Keep(chosen)
    BY <1>6, <1>8, <1>9 DEF Keep
  <1>11. a \in kept
    <2>1. a \in left
      BY <1>2, <1>10
    <2> HIDE DEF left, gone, kept
    <2> QED BY <1>5, <1>10, <2>1
  <1> QED BY <1>3, <1>11 DEF Attach, a

\* A save that keeps a character keeps the artist who voices her.
THEOREM PerformerIsKept == Spec => PerformerStays
  <1> DEFINE Stays == \A c \in Character \cap concert.tags \cap concert'.tags :
                         voice'[c] \in concert.tags => voice'[c] \in concert'.tags
  <1>1. ASSUME TypeOK, [Next]_vars
        PROVE  Stays
    <2> SUFFICES ASSUME NEW c \in Character, c \in concert.tags, c \in concert'.tags,
                        voice'[c] \in concert.tags
                 PROVE  voice'[c] \in concert'.tags
      OBVIOUS
    <2>0. concert.tags \subseteq Tag /\ None \notin Tag
      BY <1>1, TagAssumption DEF TypeOK, TagAssumption
    <2>1. CASE Tagging
      <3>1. ASSUME NEW chosen \in SUBSET (Tag \ Venue), NEW vs \in SUBSET Venue,
                   NEW dead \in BOOLEAN, CreateConcert(chosen, vs, dead)
            PROVE  FALSE
        BY <1>1, <3>1 DEF CreateConcert, TypeOK, NoConcert
      <3>2. ASSUME NEW chosen \in SUBSET (Tag \ Venue), NEW vs \in SUBSET Venue,
                   NEW dead \in BOOLEAN, EditConcert(chosen, vs, dead)
            PROVE  voice'[c] \in concert'.tags
        <4>1. voice' = voice
          BY <3>2 DEF EditConcert, Save
        <4> QED BY <1>1, <3>2, <4>1, TagAssumption, EditKeepsVoice
      <3> QED BY <2>1, <3>1, <3>2 DEF Tagging
    <2>2. ASSUME NEW g \in Group, NEW m \in Tag, RetroactiveApply(g, m)
          PROVE  voice'[c] \in concert'.tags
      BY <1>1, <2>2 DEF RetroactiveApply, TypeOK
    <2>3. ASSUME NEW t \in Tag, DeleteTag(t)
          PROVE  voice'[c] \in concert'.tags
      <3>1. voice'[c] = IF t \in {c, voice[c]} THEN None ELSE voice[c]
        BY <2>3 DEF DeleteTag
      <3>2. voice'[c] # t
        BY <2>0, <3>1
      <3> QED BY <1>1, <2>3, <3>2 DEF DeleteTag, TypeOK
    <2>4. CASE UNCHANGED concert
      BY <2>4
    <2> QED BY <1>1, <2>1, <2>2, <2>3, <2>4, StepKinds
  <1> HIDE DEF Stays
  <1>2. TypeOK /\ [Next]_vars => [Stays]_vars
    BY <1>1
  <1>3. Spec => [][Stays]_vars
    BY <1>2, FollowingTypeCorrect, PTL DEF Spec
  <1> QED BY <1>3 DEF Stays, PerformerStays

----------------------------------------------------------------------------
(* News, and the preset that comes with it.                                *)

Asks(m, new) == \E i \in Follows(m, new) : m.follows[i].notify

\* A save announces twice: what the editor attached, then the venues.  A
\* reader whom the first pass gave rules is not told by the second.
LEMMA TwoPasses ==
    ASSUME TagAssumption, NEW m \in Reader, NEW new1, NEW new2
    PROVE  LET n == Told(Told(m, new1), new2)
               new == new1 \cup new2
           IN /\ n.notices > m.notices => ~HasRules(m) /\ Asks(m, new)
              /\ ~HasRules(m) /\ Asks(m, new)
                   /\ (\A i \in Follows(m, new) : m.follows[i].preset = None)
                   => n.notices > m.notices
              /\ ~HasRules(m) /\ HasRules(n)
                   /\ (\E i \in Follows(m, new1) : m.follows[i].preset \notin {None, m.default})
                   => \A p \in Preset : n.rules[p] > 0 => p # m.default
  <1> DEFINE n1  == Told(m, new1)
             n   == Told(n1, new2)
             new == new1 \cup new2
  <1>1. /\ n1 \in Reader /\ n1.follows = m.follows /\ n1.default = m.default
        /\ Follows(m, new1) = {} \/ HasRules(m) => n1 = m
        /\ Follows(m, new1) # {} /\ ~HasRules(m) =>
              /\ n1.rules = IF ChosenPreset(m, new1) = None THEN m.rules
                            ELSE [m.rules EXCEPT ![ChosenPreset(m, new1)] = 1]
              /\ n1.notices = IF Asks(m, new1) THEN m.notices + 1 ELSE m.notices
    BY ToldProperties DEF Asks
  <1> HIDE DEF n1
  <1>2. /\ n \in Reader
        /\ Follows(n1, new2) = {} \/ HasRules(n1) => n = n1
        /\ Follows(n1, new2) # {} /\ ~HasRules(n1) =>
              n.notices = IF Asks(n1, new2) THEN n1.notices + 1 ELSE n1.notices
    BY <1>1, ToldProperties DEF Asks
  <1> HIDE DEF n
  <1>3. /\ Follows(n1, new2) = Follows(m, new2) /\ Asks(n1, new2) = Asks(m, new2)
        /\ Follows(m, new) = Follows(m, new1) \cup Follows(m, new2)
        /\ Asks(m, new) <=> Asks(m, new1) \/ Asks(m, new2)
    BY <1>1 DEF Follows, Asks
  <1>4. /\ Asks(m, new1) => Follows(m, new1) # {}
        /\ Asks(m, new2) => Follows(m, new2) # {}
    BY DEF Asks
  <1>5. m.notices \in Nat /\ n1.notices \in Nat /\ n.notices \in Nat
    BY <1>1, <1>2 DEF Reader
  <1>6. HasRules(m) => n = m
    BY <1>1, <1>2
  <1>7. /\ ~Asks(m, new1) => n1.notices = m.notices
        /\ ~Asks(m, new2) => n.notices = n1.notices
        /\ n1.notices >= m.notices /\ n.notices >= n1.notices
    BY <1>1, <1>2, <1>3, <1>5
  <1>8. n.notices > m.notices => ~HasRules(m) /\ Asks(m, new)
    BY <1>3, <1>5, <1>6, <1>7
  <1>9. ASSUME ~HasRules(m), Asks(m, new),
               \A i \in Follows(m, new) : m.follows[i].preset = None
        PROVE  n.notices > m.notices
    <2>1. ChosenPreset(m, new1) = None
      BY <1>3, <1>9, ChosenProperties
    <2>2. n1.rules = m.rules
      BY <1>1, <1>9, <2>1
    <2>3. ~HasRules(n1)
      BY <1>9, <2>2 DEF HasRules
    <2>4. CASE Asks(m, new1)
      <3>1. n1.notices = m.notices + 1
        BY <1>1, <1>4, <1>9, <2>4
      <3> QED BY <1>5, <1>7, <3>1
    <2>5. CASE Asks(m, new2)
      <3>1. n.notices = n1.notices + 1
        BY <1>2, <1>3, <1>4, <2>3, <2>5
      <3> QED BY <1>5, <1>7, <3>1
    <2> QED BY <1>3, <1>9, <2>4, <2>5
  <1>10. ASSUME ~HasRules(m),
                \E i \in Follows(m, new1) : m.follows[i].preset \notin {None, m.default},
                NEW p \in Preset, n.rules[p] > 0
         PROVE  p # m.default
    <2>1. ChosenPreset(m, new1) \in Preset \ {m.default} /\ None \notin Preset
      BY <1>10, ChosenProperties DEF TagAssumption
    <2> DEFINE chosen == ChosenPreset(m, new1)
    <2>2. n1.rules = [m.rules EXCEPT ![chosen] = 1] /\ m.rules \in [Preset -> Nat]
      BY <1>1, <1>10, <2>1 DEF Reader
    <2> HIDE DEF chosen
    <2>3. n1.rules[chosen] = 1 /\ chosen \in Preset
      BY <2>1, <2>2 DEF chosen
    <2>4. n = n1
      BY <1>2, <2>3 DEF HasRules
    <2>5. p # chosen => n1.rules[p] = m.rules[p]
      BY <2>2
    <2>6. ~(m.rules[p] > 0)
      BY <1>10 DEF HasRules
    <2>7. p = chosen
      BY <1>10, <2>4, <2>5, <2>6
    <2> QED BY <2>1, <2>7 DEF chosen
  <1> QED BY <1>8, <1>9, <1>10 DEF n, n1

\* A step that attaches tags is those two passes, on the concert as it leaves
\* it.
LEMMA Attaching ==
    ASSUME TagAssumption, TypeOK,
           Tagging \/ \E g \in Group, m \in Tag : RetroactiveApply(g, m)
    PROVE  \E new1, new2 :
              /\ New = new1 \cup new2 /\ New \ Venue \subseteq new1
              /\ \A u \in User : mine'[u] = IF concert'.dead THEN mine[u]
                                            ELSE Told(Told(mine[u], new1), new2)
  <1>1. ASSUME NEW tags, NEW vs \in SUBSET Venue, NEW dead, Save(tags, vs, dead)
        PROVE  /\ New = (tags \ concert.tags) \cup (vs \ concert.tags)
               /\ New \ Venue \subseteq tags \ concert.tags
               /\ \A u \in User : mine'[u] = IF concert'.dead THEN mine[u]
                     ELSE Told(Told(mine[u], tags \ concert.tags), vs \ concert.tags)
    <2>1. concert'.tags = tags \cup vs /\ concert'.dead = dead
      BY <1>1 DEF Save
    <2>2. mine' = Announce(tags, vs, dead)
      BY <1>1 DEF Save
    <2>3. \A u \in User : mine'[u] = IF dead THEN mine[u]
                     ELSE Told(Told(mine[u], tags \ concert.tags), vs \ concert.tags)
      BY <2>2 DEF Announce, HandleNewlyTagged
    <2> QED BY <2>1, <2>3 DEF New
  <1>2. CASE Tagging
    <2>1. \E tags : \E vs \in SUBSET Venue : \E dead : Save(tags, vs, dead)
      BY <1>2 DEF Tagging, CreateConcert, EditConcert
    <2>2. PICK tags, vs, dead : vs \in SUBSET Venue /\ Save(tags, vs, dead)
      BY <2>1
    <2> DEFINE new1 == tags \ concert.tags
               new2 == vs \ concert.tags
    <2>3. /\ New = new1 \cup new2 /\ New \ Venue \subseteq new1
          /\ \A u \in User : mine'[u] = IF concert'.dead THEN mine[u]
                                        ELSE Told(Told(mine[u], new1), new2)
      BY <1>1, <2>2
    <2> HIDE DEF new1, new2
    <2> QED BY <2>3
  <1>3. ASSUME NEW g \in Group, NEW t \in Tag, RetroactiveApply(g, t)
        PROVE  \E new1, new2 :
                  /\ New = new1 \cup new2 /\ New \ Venue \subseteq new1
                  /\ \A u \in User : mine'[u] = IF concert'.dead THEN mine[u]
                                                ELSE Told(Told(mine[u], new1), new2)
    <2> DEFINE new == Attach(concert.tags, {t}) \ concert.tags
    <2>1. /\ concert' = [concert EXCEPT !.tags = concert.tags \cup new]
          /\ mine' = HandleNewlyTagged(mine, concert.dead, new)
      BY <1>3 DEF RetroactiveApply
    <2> HIDE DEF new
    <2>2. concert'.tags = concert.tags \cup new /\ concert'.dead = concert.dead
      BY <2>1 DEF TypeOK
    <2>3. New = new
      BY <2>2 DEF New, new
    <2>4. \A m : Told(m, {}) = m
      BY DEF Told, Follows
    <2>5. \A u \in User : mine'[u] = IF concert'.dead THEN mine[u]
                                     ELSE Told(Told(mine[u], new), {})
      BY <2>1, <2>2, <2>4 DEF HandleNewlyTagged
    <2>6. New = new \cup {} /\ New \ Venue \subseteq new
      BY <2>3
    <2> QED BY <2>5, <2>6
  <1> QED BY <1>2, <1>3

\* A reader is told only of a tag she follows that a step attaches to a living
\* concert she has no reminders on, and is told if nothing else comes with it.
LEMMA StepNews ==
    ASSUME TagAssumption, TypeOK, [Next]_vars, NEW u \in User
    PROVE  LET asked == /\ ~concert'.dead /\ ~HasRules(mine[u])
                        /\ \E i \in Matched(u) : mine[u].follows[i].notify
               told  == mine'[u].notices > mine[u].notices
           IN /\ told => asked
              /\ asked /\ (\A i \in Matched(u) : mine[u].follows[i].preset = None) => told
  <1>0. mine[u] \in Reader /\ mine[u].notices \in Nat
    BY DEF TypeOK, Reader
  <1>1. CASE Tagging \/ \E g \in Group, m \in Tag : RetroactiveApply(g, m)
    <2>1. PICK new1, new2 :
              /\ New = new1 \cup new2 /\ New \ Venue \subseteq new1
              /\ \A v \in User : mine'[v] = IF concert'.dead THEN mine[v]
                                            ELSE Told(Told(mine[v], new1), new2)
      BY <1>1, Attaching
    <2>2. CASE concert'.dead
      BY <1>0, <2>1, <2>2
    <2>3. CASE ~concert'.dead
      <3>1. mine'[u] = Told(Told(mine[u], new1), new2)
        BY <2>1, <2>3
      <3>2. /\ mine'[u].notices > mine[u].notices => ~HasRules(mine[u]) /\ Asks(mine[u], New)
            /\ ~HasRules(mine[u]) /\ Asks(mine[u], New)
                 /\ (\A i \in Follows(mine[u], New) : mine[u].follows[i].preset = None)
                 => mine'[u].notices > mine[u].notices
        BY <1>0, <2>1, <3>1, TwoPasses
      <3> QED BY <2>3, <3>2 DEF Asks, Matched
    <2> QED BY <2>2, <2>3
  <1>2. CASE NoNotice /\ (UNCHANGED concert \/ \E t \in Tag : DeleteTag(t))
    <2>1. New = {}
      BY <1>2 DEF New, DeleteTag, TypeOK
    <2>2. Matched(u) = {}
      BY <2>1 DEF Matched, Follows
    <2>3. mine'[u].notices = mine[u].notices
      BY <1>2 DEF NoNotice
    <2> QED BY <1>0, <2>2, <2>3
  <1> QED BY <1>1, <1>2, StepKinds

\* News reaches the followers who asked for it, and nobody else.
THEOREM NewsIsNews == Spec => NewsReachesFollowers
  <1> DEFINE News == \A u \in User :
          LET asked == /\ ~concert'.dead /\ ~HasRules(mine[u])
                       /\ \E i \in Matched(u) : mine[u].follows[i].notify
              told  == mine'[u].notices > mine[u].notices
          IN /\ told => asked
             /\ asked /\ (\A i \in Matched(u) : mine[u].follows[i].preset = None)
                => told
  <1>1. ASSUME TypeOK, [Next]_vars
        PROVE  News
    BY <1>1, TagAssumption, StepNews
  <1> HIDE DEF News
  <1>2. TypeOK /\ [Next]_vars => [News]_vars
    BY <1>1
  <1>3. Spec => [][News]_vars
    BY <1>2, FollowingTypeCorrect, PTL DEF Spec
  <1> QED BY <1>3 DEF News, NewsReachesFollowers

\* A preset picked for a followed tag beats the default carried by another.
THEOREM TunedWins == Spec => TunedBeatsDefault
  <1> DEFINE Tuned == \A u \in User :
          /\ ~HasRules(mine[u]) /\ HasRules(mine'[u]) /\ New # {}
          /\ \E i \in Matched(u) : /\ mine[u].follows[i].tag \notin Venue
                                    /\ mine[u].follows[i].preset \notin {None, mine[u].default}
          => \A p \in Preset : mine'[u].rules[p] > 0 => p # mine[u].default
  <1>1. ASSUME TypeOK, [Next]_vars
        PROVE  Tuned
    <2> SUFFICES ASSUME NEW u \in User, ~HasRules(mine[u]), HasRules(mine'[u]), New # {},
                        NEW i \in Matched(u), mine[u].follows[i].tag \notin Venue,
                        mine[u].follows[i].preset \notin {None, mine[u].default}
                 PROVE  \A p \in Preset : mine'[u].rules[p] > 0 => p # mine[u].default
      OBVIOUS
    <2>0. mine[u] \in Reader
      BY <1>1 DEF TypeOK
    <2>1. Tagging \/ \E g \in Group, m \in Tag : RetroactiveApply(g, m)
      <3>1. UNCHANGED concert \/ (\E t \in Tag : DeleteTag(t)) => New = {}
        BY <1>1 DEF New, DeleteTag, TypeOK
      <3> QED BY <1>1, <3>1, StepKinds
    <2>2. PICK new1, new2 :
              /\ New = new1 \cup new2 /\ New \ Venue \subseteq new1
              /\ \A v \in User : mine'[v] = IF concert'.dead THEN mine[v]
                                            ELSE Told(Told(mine[v], new1), new2)
      BY <1>1, <2>1, TagAssumption, Attaching
    <2>3. mine'[u] = Told(Told(mine[u], new1), new2)
      BY <2>2
    <2>4. i \in Follows(mine[u], new1)
      <3>1. i \in DOMAIN mine[u].follows /\ mine[u].follows[i].tag \in New
        BY DEF Matched, Follows
      <3>2. mine[u].follows[i].tag \in New \ Venue
        BY <3>1
      <3> QED BY <2>2, <3>1, <3>2 DEF Follows
    <2> QED BY <2>0, <2>3, <2>4, TagAssumption, TwoPasses
  <1> HIDE DEF Tuned
  <1>2. TypeOK /\ [Next]_vars => [Tuned]_vars
    BY <1>1
  <1>3. Spec => [][Tuned]_vars
    BY <1>2, FollowingTypeCorrect, PTL DEF Spec
  <1> QED BY <1>3 DEF Tuned, TunedBeatsDefault

=============================================================================
