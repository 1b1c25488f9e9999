--------------------------- MODULE MCSchedulerTick --------------------------
(***************************************************************************)
(* Two reminders, one notice and the slot of the admins' digest.  One user *)
(* owns the first reminder and the notice.  A tick takes both reminders    *)
(* but only one notice.                                                    *)
(***************************************************************************)
EXTENDS SchedulerTick

CONSTANTS u1, u2

Owners == [i \in Item |-> IF i \in {1, 3} THEN u1 ELSE u2]
Limits == <<2, 1>>
=============================================================================
