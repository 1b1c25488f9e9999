---------------------------- MODULE TagFollowing ----------------------------
(***************************************************************************)
(* Tags on one concert and the readers who follow them.  Attaching a tag is *)
(* what tells its followers of a concert (the outbox's "new event" notice)  *)
(* and gives them the reminders of the preset they linked to it            *)
(* (handle_newly_tagged).  A character brings the artist who voices her; the*)
(* venues are rolled up from the legs.                                     *)
(*                                                                         *)
(* A save is one transaction.  A reader's own preset press reads the rules *)
(* before it writes any: two steps.                                        *)
(***************************************************************************)
EXTENDS Naturals, SequencesExt

CONSTANTS
    Character, Artist, Group, Venue,   \* the catalogue's tags, by kind
    User,
    Preset,       \* a reader's presets; each stands for the rules it sets
    None,         \* no voice, no preset
    Follows0,     \* what the readers follow when the run begins
    MaxSaves,     \* bound on the saves of the concert
    MaxSettings   \* bound on follows, settings, presses and catalogue edits

Tag == Character \cup Artist \cup Group \cup Venue

ASSUME TagAssumption ==
    /\ Character \cap (Artist \cup Group \cup Venue) = {}
    /\ Artist \cap (Group \cup Venue) = {} /\ Group \cap Venue = {}
    /\ None \notin Tag \cup Preset
    /\ MaxSaves \in Nat /\ MaxSettings \in Nat

VARIABLES
    voice,     \* voiced_by: the artist of each character, or None
    members,   \* tag_members of each group
    concert,   \* its attached tags, and whether every leg is cancelled
    mine,      \* per reader: follows in id order, default preset, rules, notices
    pressing,  \* preset presses that have read the reader's rules
    saves, settings

vars == <<voice, members, concert, mine, pressing, saves, settings>>

Follow    == [tag : Tag, preset : Preset \cup {None}, notify : BOOLEAN]

\* tag_subscriptions has one row per reader and tag.
OnePerTag(follows) ==
    \A i, j \in DOMAIN follows : follows[i].tag = follows[j].tag => i = j

ASSUME FollowsAssumption ==
    Follows0 \subseteq Seq(Follow) /\ \A follows \in Follows0 : OnePerTag(follows)

NoConcert == [tags |-> {}, dead |-> FALSE, made |-> FALSE]

Reader == [follows : Seq(Follow), default : Preset \cup {None},
           rules : [Preset -> Nat], notices : Nat]

\* A reader with these follows and default preset and nothing on the concert.
NewReader(follows, default) ==
    [follows |-> follows, default |-> default, rules |-> [p \in Preset |-> 0], notices |-> 0]

Init ==
    /\ voice \in [Character -> Artist \cup {None}]
    /\ members = [g \in Group |-> {}]
    /\ concert = NoConcert
    /\ \E f \in [User -> Follows0], d \in [User -> Preset \cup {None}] :
          mine = [u \in User |-> NewReader(f[u], d[u])]
    /\ pressing = {} /\ saves = 0 /\ settings = 0

----------------------------------------------------------------------------
(* attach_tag, detach_tag                                                  *)

VoicesOf(ts) == {voice[c] : c \in ts \cap Character} \ {None}

\* Only a character attached by this save pulls her voice in; no route lets a
\* group expand.
Attach(tags, chosen) == tags \cup chosen \cup VoicesOf(chosen \ tags)

\* A detached character takes her voice with her, unless a character left on
\* the concert shares it or the save keeps it.
Detach(tags, gone, keep) ==
    LET left == tags \ gone
    IN left \ (VoicesOf(gone) \ (VoicesOf(left) \cup keep))

----------------------------------------------------------------------------
(* handle_newly_tagged                                                     *)

HasRules(m) == \E p \in Preset : m.rules[p] > 0

\* apply_preset skips the rules the reader already has.
ApplyPreset(m, p) == [m EXCEPT !.rules[p] = IF @ = 0 THEN 1 ELSE @]

Linked(m, new) == {i \in DOMAIN m.follows : m.follows[i].tag \in new /\ m.follows[i].preset # None}
Earliest(is) == CHOOSE i \in is : \A j \in is : i <= j

\* Mutant: earliest created wins, the rule before the default could be
\* written into every follow.
EarliestPreset(m, new) ==
    IF Linked(m, new) = {} THEN None ELSE m.follows[Earliest(Linked(m, new))].preset

\* A preset chosen for a tag beats the catch-all default; then the earliest.
ChosenPreset(m, new) ==
    LET tuned == {i \in Linked(m, new) : m.follows[i].preset # m.default}
    IN CASE tuned # {}         -> m.follows[Earliest(tuned)].preset
         [] Linked(m, new) = {} -> None
         [] OTHER              -> m.follows[Earliest(Linked(m, new))].preset

Follows(m, new) == {i \in DOMAIN m.follows : m.follows[i].tag \in new}

\* A reader with rules on the concert knows of it and is left alone.
Told(m, new) ==
    LET applied == IF ChosenPreset(m, new) = None THEN m ELSE ApplyPreset(m, ChosenPreset(m, new))
    IN IF Follows(m, new) = {} \/ HasRules(m)
       THEN m
       ELSE [applied EXCEPT !.notices =
                IF \E i \in Follows(m, new) : m.follows[i].notify THEN @ + 1 ELSE @]

\* A dead concert tells nobody.
HandleNewlyTagged(all, dead, new) ==
    [u \in User |-> IF dead THEN all[u] ELSE Told(all[u], new)]

----------------------------------------------------------------------------
(* Saves of the concert.                                                   *)

\* Mutant: the attach site asks whether the concert is dead before the legs of
\* this save are written.
AnnounceAtAttach(tags, vs, dead) ==
    HandleNewlyTagged(
        HandleNewlyTagged(mine, concert.dead, tags \ concert.tags), dead, vs \ concert.tags)

\* Both passes run on the legs as saved: first the tags the editor added, then
\* the venues the roll-up added.
Announce(tags, vs, dead) ==
    HandleNewlyTagged(
        HandleNewlyTagged(mine, dead, tags \ concert.tags), dead, vs \ concert.tags)

Save(tags, vs, dead) ==
    /\ concert' = [tags |-> tags \cup vs, dead |-> dead, made |-> TRUE]
    /\ mine' = Announce(tags, vs, dead)
    /\ UNCHANGED <<voice, members, pressing, settings>>
    /\ saves < MaxSaves /\ saves' = saves + 1

\* A concert typed in, imported or cloned.
CreateConcert(chosen, vs, dead) ==
    /\ ~concert.made
    /\ Save(Attach({}, chosen), vs, dead)

\* Mutant: the form's own tags are all the save keeps.
KeepChosen(chosen) == chosen

\* A kept character keeps her voice, which the form does not list.
Keep(chosen) == chosen \cup VoicesOf(chosen)

EditConcert(chosen, vs, dead) ==
    LET before == concert.tags \ Venue
        kept   == Detach(before, before \ Keep(chosen), Keep(chosen))
    IN /\ concert.made
       /\ Save(Attach(kept, chosen \ before), vs, dead)

\* After a member joined a group, an editor may add her to the group's
\* concerts that still have a live leg ahead.
RetroactiveApply(g, m) ==
    /\ m \in members[g] /\ concert.made /\ ~concert.dead
    /\ g \in concert.tags /\ m \notin concert.tags
    /\ LET new == Attach(concert.tags, {m}) \ concert.tags
       IN /\ concert' = [concert EXCEPT !.tags = @ \cup new]
          /\ mine' = HandleNewlyTagged(mine, concert.dead, new)
    /\ saves < MaxSaves /\ saves' = saves + 1
    /\ UNCHANGED <<voice, members, pressing, settings>>

----------------------------------------------------------------------------
(* The catalogue and the readers' settings: a concert keeps what it got.   *)

Setting ==
    /\ settings < MaxSettings /\ settings' = settings + 1
    /\ UNCHANGED <<pressing, saves>>

ChangeMembers(g, m) ==
    /\ members' = [members EXCEPT ![g] = IF m \in @ THEN @ \ {m} ELSE @ \cup {m}]
    /\ Setting /\ UNCHANGED <<voice, concert, mine>>

ChangeVoice(c, a) ==
    /\ voice[c] # a /\ voice' = [voice EXCEPT ![c] = a]
    /\ Setting /\ UNCHANGED <<members, concert, mine>>

\* The follow of one tag goes.
WithoutTag(follows, t) ==
    LET of == {i \in DOMAIN follows : follows[i].tag = t}
    IN IF of = {} THEN follows ELSE RemoveAt(follows, Earliest(of))

\* A deleted tag leaves its concerts, groups, characters and followers.
DeleteTag(t) ==
    /\ voice' = [c \in Character |-> IF t \in {c, voice[c]} THEN None ELSE voice[c]]
    /\ members' = [g \in Group |-> IF g = t THEN {} ELSE members[g] \ {t}]
    /\ concert' = [concert EXCEPT !.tags = @ \ {t}]
    /\ mine' = [u \in User |-> [mine[u] EXCEPT !.follows = WithoutTag(@, t)]]
    /\ Setting

Mine(u, m) ==
    /\ m # mine[u] /\ mine' = [mine EXCEPT ![u] = m]
    /\ Setting /\ UNCHANGED <<voice, members, concert>>

\* A new follow inherits the default unless a preset was picked; following
\* again changes what was picked, and never clears the preset.
Subscribe(u, t, p, notify) ==
    LET m    == mine[u]
        have == {i \in DOMAIN m.follows : m.follows[i].tag = t}
        row  == [tag |-> t, preset |-> IF p = None THEN m.default ELSE p, notify |-> notify]
    IN Mine(u, IF have = {}
               THEN [m EXCEPT !.follows = Append(@, row)]
               ELSE [m EXCEPT !.follows[Earliest(have)] =
                        [tag |-> t, preset |-> IF p = None THEN @.preset ELSE p,
                         notify |-> notify]])

\* The dialog saves both settings, and a blank preset clears it.
ChangeFollow(u, i, p, notify) ==
    Mine(u, [mine[u] EXCEPT !.follows[i] = [@ EXCEPT !.preset = p, !.notify = notify]])

Unfollow(u, i) ==
    Mine(u, [mine[u] EXCEPT !.follows = RemoveAt(@, i)])

SetDefault(u, p) == Mine(u, [mine[u] EXCEPT !.default = p])

\* A deleted preset leaves its follows blank and the rules it set in place.
DeletePreset(u, p) ==
    Mine(u, [mine[u] EXCEPT !.default = IF @ = p THEN None ELSE @,
                            !.follows = [i \in DOMAIN @ |->
                                IF @[i].preset = p THEN [@[i] EXCEPT !.preset = None]
                                                   ELSE @[i]]])

\* "Apply to following" writes the default into every blank follow.
ApplyDefaultToFollowing(u) ==
    /\ mine[u].default # None
    /\ Mine(u, [mine[u] EXCEPT !.follows =
                   [i \in DOMAIN @ |-> IF @[i].preset = None
                                       THEN [@[i] EXCEPT !.preset = mine[u].default]
                                       ELSE @[i]]])

\* The DM's button: every rule the reader has on the concert goes.
RemoveRules(u) ==
    /\ HasRules(mine[u])
    /\ Mine(u, [mine[u] EXCEPT !.rules = [p \in Preset |-> 0]])

----------------------------------------------------------------------------
(* A reader's own presses on the concert page or in a DM.                  *)

\* The page skips the rules it finds; the DM's button wants none at all.
Press(u, p) ==
    /\ settings < MaxSettings /\ settings' = settings + 1
    /\ concert.made /\ mine[u].rules[p] = 0
    /\ pressing' = pressing \cup {[by |-> u, preset |-> p, nr |-> settings']}
    /\ UNCHANGED <<voice, members, concert, mine, saves>>

\* The rules are written as found: nothing in the schema makes them unique.
WriteRules(w) ==
    /\ w \in pressing /\ pressing' = pressing \ {w}
    /\ mine' = [mine EXCEPT ![w.by].rules[w.preset] = @ + 1]
    /\ UNCHANGED <<voice, members, concert, saves, settings>>

----------------------------------------------------------------------------

Tagging ==
    \E chosen \in SUBSET (Tag \ Venue), vs \in SUBSET Venue, dead \in BOOLEAN :
        CreateConcert(chosen, vs, dead) \/ EditConcert(chosen, vs, dead)

Next ==
    \/ Tagging
    \/ \E g \in Group, m \in Tag : RetroactiveApply(g, m)
    \/ \E g \in Group, m \in Tag \ Group : ChangeMembers(g, m)
    \/ \E t \in Tag : DeleteTag(t)
    \/ \E c \in Character, a \in Artist \cup {None} : ChangeVoice(c, a)
    \/ \E u \in User :
          \/ \E t \in Tag, p \in Preset \cup {None}, n \in BOOLEAN : Subscribe(u, t, p, n)
          \/ \E i \in DOMAIN mine[u].follows :
                \/ Unfollow(u, i)
                \/ \E p \in Preset \cup {None}, n \in BOOLEAN : ChangeFollow(u, i, p, n)
          \/ \E p \in Preset : SetDefault(u, p) \/ DeletePreset(u, p) \/ Press(u, p)
          \/ ApplyDefaultToFollowing(u) \/ RemoveRules(u)
    \/ \E w \in pressing : WriteRules(w)

Spec == Init /\ [][Next]_vars

----------------------------------------------------------------------------

New == concert'.tags \ concert.tags   \* what a step attaches
Matched(u) == Follows(mine[u], New)

\* The catalogue, the concert and the readers keep their domains; a dead or
\* tagged concert exists, and a group has no group in it.
TypeOK ==
    /\ voice \in [Character -> Artist \cup {None}]
    /\ members \in [Group -> SUBSET (Tag \ Group)]
    /\ concert \in [tags : SUBSET Tag, dead : BOOLEAN, made : BOOLEAN]
    /\ ~concert.made => concert = NoConcert
    /\ mine \in [User -> Reader]
    /\ pressing \subseteq [by : User, preset : Preset, nr : Nat]
    /\ saves \in Nat /\ settings \in Nat
    /\ \A u \in User : OnePerTag(mine[u].follows)

\* "New event" is news: a reader is told only in a step that puts a tag she
\* follows on a concert that is alive as that step leaves it, and only while
\* she has no reminders on it.  No detached and re-attached tag, no catalogue
\* edit and no cancelled concert sends it.  And it reaches every follower who
\* asked for it, has nothing planned and no preset on the tag, whichever road
\* attached the tag: the form, a character's voice, a leg's venue or the
\* retroactive page.
NewsReachesFollowers ==
    [][\A u \in User :
          LET asked == /\ ~concert'.dead /\ ~HasRules(mine[u])
                       /\ \E i \in Matched(u) : mine[u].follows[i].notify
              told  == mine'[u].notices > mine[u].notices
          IN /\ told => asked
             /\ asked /\ (\A i \in Matched(u) : mine[u].follows[i].preset = None)
                => told]_vars

\* A save that keeps a character keeps the artist who voices her, although the
\* form never lists her, and whichever other characters of hers are dropped.
PerformerStays ==
    [][\A c \in Character \cap concert.tags \cap concert'.tags :
          voice'[c] \in concert.tags => voice'[c] \in concert'.tags]_vars

\* A preset picked for one followed tag is what the concert gets, not the
\* default that another followed tag carries, whatever their age.  (Venues are
\* announced after the other tags and come too late to count.)
TunedBeatsDefault ==
    [][\A u \in User :
          /\ ~HasRules(mine[u]) /\ HasRules(mine'[u]) /\ New # {}
          /\ \E i \in Matched(u) : /\ mine[u].follows[i].tag \notin Venue
                                    /\ mine[u].follows[i].preset \notin {None, mine[u].default}
          => \A p \in Preset : mine'[u].rules[p] > 0 => p # mine[u].default]_vars

=============================================================================
