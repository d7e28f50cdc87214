------------------------------ MODULE EventStore ------------------------------
(***************************************************************************)
(* The local SQLite journal of the client (src/src/event_store.c): one     *)
(* table, heartbeat_events, as a set of rows, and every statement the      *)
(* client runs on it as an operator from a table to a table.  Each         *)
(* statement is one transaction of SQLite, so each operator is one step.   *)
(*                                                                         *)
(* Times are ticks; one tick stands for the millisecond the code uses as   *)
(* the offset of a transition marker and as the resolution of a stored     *)
(* timestamp.  A row keeps its interval as start and end instead of        *)
(* timestamp and duration.  One server, one account and one kind of event  *)
(* are modelled, so server_url, bucket, kind and pulsetime, which then are *)
(* the same in every row, are left out: the device id is the part of the   *)
(* scope that changes.                                                     *)
(***************************************************************************)
EXTENDS Integers, FiniteSets

CONSTANT MergeWindow    \* EVENT_MERGE_WINDOW_SECONDS

ASSUME MergeWindowAssumption == MergeWindow \in Nat \ {0}

Status == {"afk", "not-afk"}

\* Device identifiers are drawn afresh at every login.
DeviceId == Nat \ {0}

\* stored_event as tracker.c builds it, before it has a row.
Event == [device : DeviceId, status : Status, start : Nat, end : Nat,
          created : Nat]

\* A row of heartbeat_events; sent and discarded stand for "sent_at is not
\* NULL" and "discarded_at is not NULL".
Row == [id : Nat \ {0}, device : DeviceId, status : Status, start : Nat,
        end : Nat, created : Nat, sent : BOOLEAN, discarded : BOOLEAN]

Lower(a, b) == IF a < b THEN a ELSE b
Higher(a, b) == IF a > b THEN a ELSE b

\* interval_gap: the time between two intervals, 0 when they touch or overlap.
interval_gap(a, b) ==
  IF b.start > a.end THEN b.start - a.end
  ELSE IF a.start > b.end THEN a.start - b.end
  ELSE 0

-----------------------------------------------------------------------------
(***************************************************************************)
(* event_store_append and event_store_merge.  The merge looks at one row   *)
(* only: the row of the same device, not discarded, that ends last (start, *)
(* then id break ties).  The event extends that row, and the row becomes   *)
(* pending again, when the statuses agree and the gap is small enough;     *)
(* otherwise the event is appended under the next id.                      *)
(***************************************************************************)
event_store_append(rows, id, e) ==
  rows \cup {[id |-> id, device |-> e.device, status |-> e.status,
              start |-> e.start, end |-> e.end, created |-> e.created,
              sent |-> FALSE, discarded |-> FALSE]}

EndsLater(q, r) ==
  \/ q.end > r.end
  \/ q.end = r.end /\ q.start > r.start
  \/ q.end = r.end /\ q.start = r.start /\ q.id > r.id

\* Mutant: the SELECT orders by id alone.
LatestRowById(rows, dev) ==
  LET Kept == {r \in rows : r.device = dev /\ ~r.discarded}
  IN  {r \in Kept : \A q \in Kept : q.id <= r.id}

\* The row the SELECT of event_store_merge returns: one or none.
LatestRow(rows, dev) ==
  LET Kept == {r \in rows : r.device = dev /\ ~r.discarded}
  IN  {r \in Kept : \A q \in Kept : ~EndsLater(q, r)}

\* The latest row, when the event may be merged into it.
MergeTarget(rows, e) ==
  {r \in LatestRow(rows, e.device) :
     r.status = e.status /\ interval_gap(r, e) <= MergeWindow}

\* Mutant: the UPDATE leaves sent_at as it was.
UpdateMergedStillSent(r, e) ==
  [r EXCEPT !.start = Lower(@, e.start), !.end = Higher(@, e.end),
            !.created = Higher(@, e.created)]

\* update_merged with the values event_store_merge computes for it.
update_merged(r, e) ==
  [r EXCEPT !.start = Lower(@, e.start), !.end = Higher(@, e.end),
            !.created = Higher(@, e.created), !.sent = FALSE]

event_store_merge(rows, id, e) ==
  LET target == MergeTarget(rows, e)
  IN  IF target = {}
      THEN event_store_append(rows, id, e)
      ELSE (rows \ target) \cup {update_merged(r, e) : r \in target}

-----------------------------------------------------------------------------
(***************************************************************************)
(* Delivery: the rows still to be sent for one device, the oldest of them, *)
(* and the three statements that end a row's pending state.                *)
(***************************************************************************)
\* Mutant: discarded rows are still offered for upload.
PendingRowsAnyState(rows, dev) ==
  {r \in rows : r.device = dev /\ ~r.sent}

PendingRows(rows, dev) ==
  {r \in rows : r.device = dev /\ ~r.sent /\ ~r.discarded}

\* The row of event_store_next_pending: one or none.
event_store_next_pending(rows, dev) ==
  {r \in PendingRows(rows, dev) :
     \A q \in PendingRows(rows, dev) : r.id <= q.id}

event_store_pending_count(rows, dev) == Cardinality(PendingRows(rows, dev))

event_store_mark_sent(rows, id) ==
  {IF r.id = id THEN [r EXCEPT !.sent = TRUE] ELSE r : r \in rows}

\* Mutant: the UPDATE forgets that sent rows are done.
DiscardAlsoSent(rows, dev) ==
  {IF r.device = dev THEN [r EXCEPT !.discarded = TRUE] ELSE r : r \in rows}

event_store_discard_pending(rows, dev) ==
  {IF r \in PendingRows(rows, dev) THEN [r EXCEPT !.discarded = TRUE] ELSE r :
     r \in rows}

event_store_prune(rows, createdBefore) ==
  {r \in rows : r.created >= createdBefore}

-----------------------------------------------------------------------------
(***************************************************************************)
(* event_store_tracked_seconds: the rows that are not discarded, of every  *)
(* device, are read in the order of their ids, and consecutive rows of one *)
(* status at most the window and one tick apart form one segment.  The     *)
(* total is the time of the not-afk segments inside the asked range.       *)
(***************************************************************************)
NoSegment == [status |-> "none", start |-> 0, end |-> 0]

tracked_overlap(segment, from, to) ==
  LET start == Higher(segment.start, from)
      end   == Lower(segment.end, to)
  IN  IF segment.status = "not-afk" /\ end > start THEN end - start ELSE 0

\* One turn of the reading loop: the row joins the open segment or closes it.
ReadRow(loop, r, from, to) ==
  IF /\ loop.open.status = r.status
     /\ interval_gap(loop.open, r) <= MergeWindow + 1
  THEN [loop EXCEPT !.open.start = Lower(@, r.start),
                    !.open.end   = Higher(@, r.end)]
  ELSE [total |-> loop.total + tracked_overlap(loop.open, from, to),
        open  |-> [status |-> r.status, start |-> r.start, end |-> r.end]]

\* lastId bounds the ids of the table.
event_store_tracked_seconds(rows, lastId, from, to) ==
  LET RowsAt(i) == {r \in rows : r.id = i /\ ~r.discarded}
      Read[i \in 0 .. lastId] ==
        IF i = 0 THEN [total |-> 0, open |-> NoSegment]
        ELSE IF RowsAt(i) = {} THEN Read[i - 1]
        ELSE ReadRow(Read[i - 1], CHOOSE r \in RowsAt(i) : TRUE, from, to)
  IN  Read[lastId].total + tracked_overlap(Read[lastId].open, from, to)
=============================================================================
