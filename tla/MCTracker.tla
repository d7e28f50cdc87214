------------------------------ MODULE MCTracker ------------------------------
(* Tracker for TLC: the constants are given in MCTracker*.cfg. *)
EXTENDS Tracker

\* No fair run appends more rows than this.
RowIds == 1 .. 4

FairSpec == Spec /\ Fairness(RowIds)

\* Every row of the journal that waits for its upload leaves the queue:
\* flush_pending_events reaches it, however often the segment in memory is
\* merged into other rows meanwhile.
PendingDrains == \A i \in RowIds : Drains(i)
=============================================================================
