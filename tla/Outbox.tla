-------------------------------- MODULE Outbox --------------------------------
(***************************************************************************)
(* What the client's journal promises about delivery, without rows, times, *)
(* sessions or processes: entries are numbered in the order in which they  *)
(* are made, each waits for its delivery until the delivery is confirmed,  *)
(* and an entry that was dropped never comes back: at most, the one        *)
(* attempt that was under way when it was dropped still delivers it.       *)
(* Tracker implements it.                                                  *)
(***************************************************************************)
EXTENDS Naturals

VARIABLES
  last,        \* the number of the newest entry
  pending,     \* entries that wait for delivery
  taken,       \* the entry whose delivery is being attempted, if any
  sent,        \* entries whose delivery is confirmed
  dropped,     \* entries given up for good
  delivered    \* entries the receiver has as they are now

state == <<last, pending, taken, sent, dropped, delivered>>

Init ==
  /\ last = 0
  /\ pending = {} /\ taken = {} /\ sent = {} /\ dropped = {} /\ delivered = {}

\* A new entry.
Add ==
  /\ last' = last + 1
  /\ pending' = pending \cup {last + 1}
  /\ UNCHANGED <<taken, sent, dropped, delivered>>

\* An entry grows and waits again: the receiver may no longer have all of it.
\* It does not grow under an attempt to deliver it.
Grow(i) ==
  /\ i \in (pending \cup sent) \ taken
  /\ pending' = pending \cup {i}
  /\ sent' = sent \ {i}
  /\ delivered' \in {delivered, delivered \ {i}}
  /\ UNCHANGED <<last, taken, dropped>>

\* The delivery of an entry that waits is attempted, of one at a time.
Take(i) ==
  /\ i \in pending
  /\ taken = {}
  /\ taken' = {i}
  /\ UNCHANGED <<last, pending, sent, dropped, delivered>>

\* The attempt ends, whether the sender learns of it or not: the receiver gets
\* the entry, which may have been dropped meanwhile, or does not.
Deliver(i) ==
  /\ i \in taken
  /\ taken' = {}
  /\ delivered' = delivered \cup {i}
  /\ UNCHANGED <<last, pending, sent, dropped>>

Miss ==
  /\ taken' = {}
  /\ UNCHANGED <<last, pending, sent, dropped, delivered>>

\* The sender ends the waiting of an entry the receiver has.
Confirm(i) ==
  /\ i \in pending \cap delivered
  /\ pending' = pending \ {i}
  /\ sent' = sent \cup {i}
  /\ UNCHANGED <<last, taken, dropped, delivered>>

\* Entries that wait are given up.
Drop(ids) ==
  /\ pending' = pending \ ids
  /\ dropped' = dropped \cup ids
  /\ UNCHANGED <<last, taken, sent, delivered>>

\* Old entries are forgotten, whatever became of them, when no attempt is
\* under way.
Forget(ids) ==
  /\ taken = {}
  /\ pending' = pending \ ids
  /\ sent' = sent \ ids
  /\ dropped' = dropped \ ids
  /\ delivered' = delivered \ ids
  /\ UNCHANGED <<last, taken>>

Next ==
  \/ Add \/ Miss
  \/ \E i \in pending : Take(i) \/ Confirm(i)
  \/ \E i \in taken : Deliver(i)
  \/ \E i \in pending \cup sent : Grow(i)
  \/ \E ids \in SUBSET pending : Drop(ids)
  \/ \E ids \in SUBSET (pending \cup sent \cup dropped) : Forget(ids)

Spec == Init /\ [][Next]_state
=============================================================================
