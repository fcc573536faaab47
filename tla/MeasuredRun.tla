---------------------------- MODULE MeasuredRun -----------------------------
(***************************************************************************)
(* What the archive of a run promises: measurements are appended, a        *)
(* boundary confirms those it counts, and a failure costs no more than the *)
(* tail after the boundary.                                                *)
(***************************************************************************)
EXTENDS Naturals, Sequences

VARIABLES
    record,     \* the measurements a reader of the file finds
    confirmed   \* how many of them the latest boundary counts

Init == record = <<>> /\ confirmed = 0

Kept(s, n) == SubSeq(s, 1, n)

Measure ==
    /\ Len(record') = Len(record) + 1
    /\ Kept(record', Len(record)) = record
    /\ UNCHANGED confirmed

Confirm ==
    /\ confirmed' \in (confirmed + 1)..Len(record)
    /\ UNCHANGED record

Lose ==
    /\ Len(record') \in confirmed..(Len(record) - 1)
    /\ record' = Kept(record, Len(record'))
    /\ UNCHANGED confirmed

Next == Measure \/ Confirm \/ Lose

Spec == Init /\ [][Next]_<<record, confirmed>>
=============================================================================
