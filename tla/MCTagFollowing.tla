-------------------------- MODULE MCTagFollowing ---------------------------
(***************************************************************************)
(* Two characters, an artist, a group, a venue and what a reader follows.  *)
(***************************************************************************)
EXTENDS TagFollowing

CONSTANTS c1, c2, a1, g1, v1, p1, p2

\* Nothing; two followed tags, one on each preset; a voice and a venue without.
StartFollows ==
    LET follow(t, p, n) == [tag |-> t, preset |-> p, notify |-> n]
    IN {<<>>,
        <<follow(c1, p1, TRUE), follow(a1, p2, TRUE)>>,
        <<follow(a1, None, TRUE), follow(v1, None, TRUE)>>}
============================================================================
