----------------------------- MODULE AuditTrail -----------------------------
(***************************************************************************)
(* What the audit log promises to the threads that record in it: records   *)
(* get numbers in the order of their acceptance, reach the disk in that    *)
(* order, and a caller that asked for durability is answered only when its *)
(* record and all earlier ones are there.  After a failure of the storage  *)
(* nothing is accepted or acknowledged any more.                           *)
(***************************************************************************)
EXTENDS Naturals

VARIABLES
    accepted,      \* how many records have been given a number
    durable,       \* how many of them are on the disk
    acknowledged,  \* how many some caller was told are on the disk
    healthy

vars == <<accepted, durable, acknowledged, healthy>>

\* The record that opens the session.
Init == accepted = 1 /\ durable = 0 /\ acknowledged = 0 /\ healthy = TRUE

Accept ==
    /\ healthy
    /\ accepted' = accepted + 1
    /\ UNCHANGED <<durable, acknowledged, healthy>>

Persist ==
    /\ durable' \in (durable + 1)..accepted
    /\ UNCHANGED <<accepted, acknowledged, healthy>>

Acknowledge ==
    /\ healthy
    /\ acknowledged' \in (acknowledged + 1)..durable
    /\ UNCHANGED <<accepted, durable, healthy>>

Fail ==
    /\ healthy' = FALSE
    /\ UNCHANGED <<accepted, durable, acknowledged>>

Next == Accept \/ Persist \/ Acknowledge \/ Fail

Spec == Init /\ [][Next]_vars
=============================================================================
