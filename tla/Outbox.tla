------------------------------- MODULE Outbox -------------------------------
(***************************************************************************)
(* What the outbox promises, without the tick that carries it out: a queued*)
(* message is pending until Discord gave a final answer to a DM about it   *)
(* or somebody withdrew it, a batch is settled at once, a user counts as   *)
(* blocked on Discord's word only, and a digest is news of other messages. *)
(***************************************************************************)
CONSTANTS
    Item,      \* the messages
    Digest,    \* those that only report on deliveries
    User,
    owner      \* whose message it is, [Item -> User]

VARIABLES
    row,      \* "none", "pending" or "sent"
    batch,    \* messages sent to Discord since the last settlement
    heard,    \* its final answers to them: "none", "ok" or "forbidden"
    gone,     \* those of the batch that were withdrawn after they were sent
    blocked   \* users who are told that their DMs are closed

vars == <<row, batch, heard, gone, blocked>>

Silence == [i \in Item |-> "none"]
Heard   == {i \in batch : heard[i] # "none"}

Init ==
    /\ row = [i \in Item |-> "none"] /\ batch = {} /\ heard = Silence /\ gone = {}
    /\ blocked = [u \in User |-> FALSE]

\* A message is queued, or queued anew after its delivery.
Queue(i) ==
    /\ i \notin Digest /\ row[i] # "pending"
    /\ row' = [row EXCEPT ![i] = "pending"]
    /\ UNCHANGED <<batch, heard, gone, blocked>>

Withdraw(i) ==
    /\ row[i] = "pending" /\ row' = [row EXCEPT ![i] = "none"]
    /\ gone' = gone \cup ({i} \cap batch)
    /\ UNCHANGED <<batch, heard, blocked>>

\* Only pending messages are sent.
Send ==
    /\ \E more \in SUBSET {i \in Item : row[i] = "pending"} : batch' = batch \cup more
    /\ UNCHANGED <<row, heard, gone, blocked>>

Answer(i, o) ==
    /\ i \in batch /\ heard[i] = "none" /\ heard' = [heard EXCEPT ![i] = o]
    /\ UNCHANGED <<row, batch, gone, blocked>>

\* All answered messages are settled in one step, and a user's flag follows one
\* of the answers.  One withdrawn after it was sent stays withdrawn; if it was
\* queued anew meanwhile, the answer may count for it or not.
Settle ==
    /\ \E spared \in SUBSET gone :
          row' = [i \in Item |-> IF i \in Heard \ spared /\ row[i] # "none" THEN "sent" ELSE row[i]]
    /\ \A u \in User :
          LET mine == {i \in Heard : owner[i] = u}
          IN IF mine = {} THEN blocked'[u] = blocked[u]
             ELSE \E i \in mine : blocked'[u] = (heard[i] = "forbidden")
    /\ blocked' \in [User -> BOOLEAN]
    /\ UNCHANGED <<batch, heard, gone>>

\* The batch is over, settled or lost; at most one digest tells of it.
Close ==
    /\ batch' = {} /\ heard' = Silence /\ gone' = {} /\ UNCHANGED blocked
    /\ \/ UNCHANGED row
       \/ /\ ~(batch \subseteq Digest)
          /\ \E g \in Digest : row[g] # "pending" /\ row' = [row EXCEPT ![g] = "pending"]

Next ==
    \/ \E i \in Item : Queue(i) \/ Withdraw(i) \/ \E o \in {"ok", "forbidden"} : Answer(i, o)
    \/ Send \/ Settle \/ Close

Spec == Init /\ [][Next]_vars
=============================================================================
