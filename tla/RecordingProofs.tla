---------------------------- MODULE RecordingProofs ----------------------------
(***************************************************************************)
(* No stretch of time is recorded twice: the theorem about the journal and *)
(* the segment in memory together, for every value of the constants.       *)
(*                                                                         *)
(* A merge looks at one row only, the latest.  It is therefore not enough  *)
(* that the rows lie apart: the segment in memory has to stand in such a   *)
(* relation to the rows that a row it overlaps is that latest row.  The    *)
(* invariant states this relation; it speaks of the rows K that one device *)
(* keeps, the segment b, the last input L and the clock n.                 *)
(***************************************************************************)
EXTENDS TrackerProofs

KeptRows(R, d) == {r \in R : r.device = d /\ ~r.discarded}

NoOverlap(K) ==
  \A r, q \in K : r.id # q.id /\ r.status = q.status =>
    Lower(r.end, q.end) <= Higher(r.start, q.start)

\* An interval begins at most one tick after the last input and ends at most
\* one tick from now; an active one ends with the input, and an idle one that
\* goes on after it was recorded by an idle user.
Timely(r, L, n) ==
  /\ r.start <= r.end /\ r.start <= L + 1 /\ r.end <= n + 1
  /\ r.status = "not-afk" => r.end <= L + 1
  /\ r.status = "afk" /\ r.end > L => n - L >= AfkTimeout

\* A row that goes on after the last input is the latest one of its status,
\* and the latest of all when it is idle.
LateIsLatest(K, L) ==
  \A q, p \in K :
    q.end > L /\ (q.status = "afk" \/ p.status = q.status) => ~EndsLater(p, q)

RowsInOrder(K, L, n) ==
  /\ \A r \in K : Timely(r, L, n)
  /\ LateIsLatest(K, L)
  /\ NoOverlap(K)

\* Between the two markers of a transition, the first may stand alone in
\* memory: rows of an earlier session may end after it.
LoneMarker(b, L, marker) ==
  marker /\ b.status = "not-afk" /\ b.start = b.end /\ b.end <= L

\* The rows of the other status end before the segment, those of its own
\* status no more than a tick after it, and one that reaches into the segment
\* is the latest row: the one a checkpoint merges the segment into.
OthersEndBefore(K, b, L, marker) ==
  \A p \in K : p.status # b.status =>
    \/ p.end < b.end
    \/ p.end = b.end /\ b.start = b.end /\ b.end <= L
    \/ LoneMarker(b, L, marker)

SameEndBy(K, b) == \A p \in K : p.status = b.status => p.end <= b.end + 1

LatestIsTarget(K, b, L, marker) ==
  \A q, p \in K : q.status = b.status /\ q.end > b.start /\ EndsLater(p, q) =>
    LoneMarker(b, L, marker) /\ p.status # b.status

SegmentInOrder(K, b, L, n, marker) ==
  /\ Timely(b, L, n)
  /\ OthersEndBefore(K, b, L, marker)
  /\ SameEndBy(K, b)
  /\ LatestIsTarget(K, b, L, marker)

-----------------------------------------------------------------------------
(***************************************************************************)
(* The order of the rows.                                                  *)
(***************************************************************************)
Bounds == MergeWindow \in Nat \ {0} /\ AfkTimeout \in Nat \ {0}

LEMMA ConstantBounds == Bounds
  BY MergeWindowAssumption, ConstantsAssumption DEF Bounds

LEMMA EndsLaterOrders ==
  ASSUME NEW q \in Row, NEW r \in Row
  PROVE  /\ q.id # r.id => EndsLater(q, r) \/ EndsLater(r, q)
         /\ ~(EndsLater(q, r) /\ EndsLater(r, q))
  BY DEF EndsLater, Row

\* What event_store_merge does to the rows one device keeps: the event is
\* appended, or the latest row grows by it.
Appended(K, after, e) ==
  \E new \in Row :
    /\ after = K \cup {new}
    /\ \A r \in K : r.id < new.id
    /\ new.status = e.status /\ new.start = e.start /\ new.end = e.end
    /\ \A z \in K : (\A q \in K : ~EndsLater(q, z)) =>
         z.status # e.status \/ interval_gap(z, e) > MergeWindow

Merged(K, after, e) ==
  \E z \in K, m \in Row :
    /\ \A q \in K : ~EndsLater(q, z)
    /\ z.status = e.status /\ interval_gap(z, e) <= MergeWindow
    /\ after = (K \ {z}) \cup {m}
    /\ m.id = z.id /\ m.status = z.status
    /\ m.start = Lower(z.start, e.start) /\ m.end = Higher(z.end, e.end)

LEMMA MergeCases ==
  ASSUME NEW R, R \subseteq Row, NEW id \in Nat \ {0}, NEW e \in Event,
         \A r, q \in R : r.id = q.id => r = q, \A r \in R : r.id < id
  PROVE  LET K     == KeptRows(R, e.device)
             after == KeptRows(event_store_merge(R, id, e), e.device)
         IN  Appended(K, after, e) \/ Merged(K, after, e)
<1> DEFINE K     == KeptRows(R, e.device)
           after == KeptRows(event_store_merge(R, id, e), e.device)
           new   == [id |-> id, device |-> e.device, status |-> e.status,
                     start |-> e.start, end |-> e.end, created |-> e.created,
                     sent |-> FALSE, discarded |-> FALSE]
<1>1. LatestRow(R, e.device) = {r \in K : \A q \in K : ~EndsLater(q, r)}
  BY DEF LatestRow, KeptRows
<1>2. MergeTarget(R, e) = {r \in K : /\ \A q \in K : ~EndsLater(q, r)
                                     /\ r.status = e.status
                                     /\ interval_gap(r, e) <= MergeWindow}
  BY <1>1 DEF MergeTarget
<1>3. CASE MergeTarget(R, e) = {}
  <2>1. new \in Row /\ new.device = e.device /\ ~new.discarded
    BY DEF Row, Event
  <2>2. event_store_merge(R, id, e) = R \cup {new}
    BY <1>3 DEF event_store_merge, event_store_append
  <2>3. new.id = id /\ new.status = e.status /\ new.start = e.start /\ new.end = e.end
    OBVIOUS
  <2> HIDE DEF new
  <2>4. after = K \cup {new}
    BY <2>1, <2>2 DEF KeptRows
  <2>5. \A r \in K : r.id < new.id
    BY <2>3 DEF KeptRows
  <2>6. ASSUME NEW z \in K, \A q \in K : ~EndsLater(q, z)
        PROVE  z.status # e.status \/ interval_gap(z, e) > MergeWindow
    <3>1. z.start \in Nat /\ z.end \in Nat /\ e.start \in Nat /\ e.end \in Nat /\ MergeWindow \in Nat
      BY ConstantBounds DEF KeptRows, Row, Event, Bounds
    <3>2. interval_gap(z, e) \in Int
      BY <3>1 DEF interval_gap
    <3>3. ~(z.status = e.status /\ interval_gap(z, e) <= MergeWindow)
      BY <1>2, <1>3, <2>6
    <3> QED
      BY <3>1, <3>2, <3>3
  <2> QED
    BY <2>1, <2>3, <2>4, <2>5, <2>6 DEF Appended
<1>4. CASE MergeTarget(R, e) # {}
  <2>1. PICK z \in MergeTarget(R, e) : TRUE
    BY <1>4
  <2>2. z \in K /\ z \in R /\ z \in Row /\ ~z.discarded /\ z.device = e.device
    BY <1>2, <2>1 DEF KeptRows
  <2>3. MergeTarget(R, e) = {z}
    BY <1>2, <2>1, EndsLaterOrders DEF KeptRows
  <2>4. event_store_merge(R, id, e) = (R \ {z}) \cup {update_merged(z, e)}
    BY <2>3 DEF event_store_merge
  <2> DEFINE m == update_merged(z, e)
  <2>5. m \in Row /\ m.device = e.device /\ ~m.discarded /\ m.id = z.id /\ m.status = z.status
        /\ m.start = Lower(z.start, e.start) /\ m.end = Higher(z.end, e.end)
    BY <2>2 DEF update_merged, Row, Event, Lower, Higher
  <2> HIDE DEF m
  <2>6. after = (K \ {z}) \cup {m}
    BY <2>2, <2>4, <2>5 DEF KeptRows, m
  <2> QED
    BY <1>2, <2>1, <2>2, <2>5, <2>6 DEF Merged
<1> QED
  BY <1>3, <1>4

\* It leaves the rows of the other devices alone.
LEMMA MergeOthers ==
  ASSUME NEW R, R \subseteq Row, NEW id, NEW e \in Event, NEW d, d # e.device
  PROVE  KeptRows(event_store_merge(R, id, e), d) = KeptRows(R, d)
<1>1. \A r \in MergeTarget(R, e) : /\ r \in R /\ r.device = e.device
                                   /\ update_merged(r, e).device = e.device
  BY DEF MergeTarget, LatestRow, update_merged, Row
<1>2. event_store_merge(R, id, e) \subseteq
        R \cup {r \in event_store_merge(R, id, e) : r.device = e.device}
  BY <1>1 DEF event_store_merge, event_store_append
<1>3. \A r \in R : r.device # e.device => r \in event_store_merge(R, id, e)
  BY <1>1 DEF event_store_merge, event_store_append
<1> QED
  BY <1>2, <1>3 DEF KeptRows

-----------------------------------------------------------------------------
(***************************************************************************)
(* A checkpoint leaves the rows in order.                                  *)
(***************************************************************************)
\* A row of the segment's status that goes on after the last input, as the
\* segment does, is the row the segment is merged into.
LEMMA LateIsTarget ==
  ASSUME NEW K, K \subseteq Row, NEW b \in Event, NEW L \in Nat, NEW n \in Nat, NEW marker,
         RowsInOrder(K, L, n), SegmentInOrder(K, b, L, n, marker), b.end > L,
         NEW p \in K, p.status = b.status, p.end > L
  PROVE  /\ \A q \in K : ~EndsLater(q, p)
         /\ interval_gap(p, b) = 0
<1>1. /\ \A r \in K : r.status \in Status /\ r.start \in Nat /\ r.end \in Nat /\ r.id \in Nat
      /\ b.status \in Status /\ b.start \in Nat /\ b.end \in Nat
  BY DEF Row, Event
<1>2. Timely(p, L, n) /\ Timely(b, L, n)
  BY DEF RowsInOrder, SegmentInOrder
<1>3. interval_gap(p, b) = 0
  BY <1>1, <1>2 DEF Timely, interval_gap
<1>4. ASSUME NEW q \in K, EndsLater(q, p)
      PROVE  FALSE
  <2>1. p.status = "not-afk" /\ q.status = "afk"
    BY <1>1, <1>4 DEF RowsInOrder, LateIsLatest, Status
  <2>2. q.end < b.end
    BY <1>1, <2>1 DEF SegmentInOrder, OthersEndBefore, LoneMarker
  <2>3. p.end = L + 1 /\ b.end = L + 1
    BY <1>1, <1>2, <2>1 DEF Timely
  <2> QED
    BY <1>1, <1>4, <2>2, <2>3 DEF EndsLater
<1> QED
  BY <1>3, <1>4

LEMMA AppendedInOrder ==
  ASSUME NEW K, K \subseteq Row, NEW b \in Event, NEW L \in Nat, NEW n \in Nat, NEW marker,
         NEW after, Appended(K, after, b),
         RowsInOrder(K, L, n), SegmentInOrder(K, b, L, n, marker)
  PROVE  RowsInOrder(after, L, n)
<1>1. PICK new \in Row :
        /\ after = K \cup {new}
        /\ \A r \in K : r.id < new.id
        /\ new.status = b.status /\ new.start = b.start /\ new.end = b.end
        /\ \A z \in K : (\A q \in K : ~EndsLater(q, z)) =>
             z.status # b.status \/ interval_gap(z, b) > MergeWindow
  BY DEF Appended
<1>2. /\ \A r \in after : r.status \in Status /\ r.start \in Nat /\ r.end \in Nat /\ r.id \in Nat
      /\ b.status \in Status /\ b.start \in Nat /\ b.end \in Nat
      /\ MergeWindow \in Nat \ {0}
  BY <1>1, ConstantBounds DEF Row, Event, Bounds
<1>3. \A r \in after : Timely(r, L, n)
  BY <1>1 DEF RowsInOrder, SegmentInOrder, Timely
<1>4. \A p \in K : p.status = b.status /\ p.end > L /\ b.end > L => FALSE
  BY <1>1, <1>2, LateIsTarget
<1>5. LateIsLatest(after, L)
  <2> SUFFICES ASSUME NEW q \in after, NEW p \in after, q.end > L,
                      q.status = "afk" \/ p.status = q.status, EndsLater(p, q)
               PROVE  FALSE
    BY DEF LateIsLatest
  <2>1. CASE q \in K /\ p \in K
    BY <2>1 DEF RowsInOrder, LateIsLatest
  <2>2. CASE q = new /\ p = new
    BY <1>2, <2>2 DEF EndsLater
  <2>3. p.end >= q.end
    BY <1>2 DEF EndsLater
  <2>4. CASE q = new /\ p \in K
    <3>1. p.status # b.status
      BY <1>1, <1>2, <1>4, <2>3, <2>4
    <3>2. p.end < b.end
      BY <1>1, <1>2, <2>4, <3>1 DEF SegmentInOrder, OthersEndBefore, LoneMarker
    <3> QED
      BY <1>1, <1>2, <2>3, <2>4, <3>2
  <2>5. CASE q \in K /\ p = new
    <3>1. q.status = "afk" /\ b.status = "not-afk"
      BY <1>1, <1>2, <1>4, <2>3, <2>5 DEF Status
    <3>2. b.end <= L + 1
      BY <3>1 DEF SegmentInOrder, Timely
    <3>3. q.end < b.end
      BY <1>1, <1>2, <2>3, <2>5, <3>1 DEF SegmentInOrder, OthersEndBefore, LoneMarker
    <3> QED
      BY <1>2, <2>5, <3>2, <3>3
  <2> QED
    BY <1>1, <2>1, <2>2, <2>4, <2>5
<1>6. ASSUME NEW p \in K, p.status = b.status
      PROVE  Lower(p.end, b.end) <= Higher(p.start, b.start)
  <2> SUFFICES ASSUME p.end > b.start, b.end > p.start, p.end > p.start, b.end > b.start
               PROVE  FALSE
    BY <1>1, <1>2 DEF Lower, Higher
  <2>1. \A q \in K : ~EndsLater(q, p)
    BY <1>2, <1>6 DEF SegmentInOrder, LatestIsTarget, LoneMarker
  <2>2. interval_gap(p, b) = 0
    BY <1>1, <1>2 DEF interval_gap
  <2> QED
    BY <1>1, <1>2, <1>6, <2>1, <2>2
<1>7. NoOverlap(after)
  <2>1. \A x, y, u, v \in Nat : Lower(x, y) = Lower(y, x) /\ Higher(u, v) = Higher(v, u)
    BY DEF Lower, Higher
  <2> QED
    BY <1>1, <1>2, <1>6, <2>1 DEF NoOverlap, RowsInOrder
<1> QED
  BY <1>3, <1>5, <1>7 DEF RowsInOrder

LEMMA MergedInOrder ==
  ASSUME NEW K, K \subseteq Row, \A r, q \in K : r.id = q.id => r = q,
         NEW b \in Event, NEW L \in Nat, NEW n \in Nat, NEW marker,
         NEW after, Merged(K, after, b),
         RowsInOrder(K, L, n), SegmentInOrder(K, b, L, n, marker)
  PROVE  RowsInOrder(after, L, n)
<1>1. PICK z \in K, m \in Row :
        /\ \A q \in K : ~EndsLater(q, z)
        /\ z.status = b.status /\ interval_gap(z, b) <= MergeWindow
        /\ after = (K \ {z}) \cup {m}
        /\ m.id = z.id /\ m.status = z.status
        /\ m.start = Lower(z.start, b.start) /\ m.end = Higher(z.end, b.end)
  BY DEF Merged
<1>2. /\ \A r \in K : r.status \in Status /\ r.start \in Nat /\ r.end \in Nat /\ r.id \in Nat
      /\ m.status \in Status /\ m.start \in Nat /\ m.end \in Nat /\ m.id \in Nat
      /\ b.status \in Status /\ b.start \in Nat /\ b.end \in Nat
  BY <1>1 DEF Row, Event
<1>3. \A r \in K \ {z} : r.id # z.id /\ EndsLater(z, r) /\ r.end <= z.end
  <2>1. \A r \in K \ {z} : r.id # z.id /\ EndsLater(z, r)
    BY <1>1, EndsLaterOrders
  <2> QED
    BY <1>2, <2>1 DEF EndsLater
<1>4. \A r \in after : Timely(r, L, n)
  <2>1. Timely(z, L, n) /\ Timely(b, L, n)
    BY <1>1 DEF RowsInOrder, SegmentInOrder
  <2>2. Timely(m, L, n)
    BY <1>1, <1>2, <2>1 DEF Timely, Lower, Higher
  <2> QED
    BY <1>1, <2>2 DEF RowsInOrder
<1>5. \A q \in K \ {z} : q.end > L => q.status = "not-afk" /\ z.status = "afk"
  BY <1>1, <1>2, <1>3 DEF RowsInOrder, LateIsLatest, Status
<1>6. LateIsLatest(after, L)
  <2> SUFFICES ASSUME NEW q \in after, NEW p \in after, q.end > L,
                      q.status = "afk" \/ p.status = q.status, EndsLater(p, q)
               PROVE  FALSE
    BY DEF LateIsLatest
  <2>1. CASE q \in K \ {z} /\ p \in K \ {z}
    BY <2>1 DEF RowsInOrder, LateIsLatest
  <2>2. CASE q = m /\ p = m
    BY <1>2, <2>2 DEF EndsLater
  <2>3. CASE q \in K \ {z} /\ p = m
    BY <1>1, <1>5, <2>3
  <2>4. CASE q = m /\ p \in K \ {z}
    <3>1. p.end = z.end /\ p.end = m.end /\ p.end >= b.end
      BY <1>1, <1>2, <1>3, <2>4 DEF EndsLater, Higher
    <3>2. p.status = "not-afk" /\ b.status = "afk"
      BY <1>1, <1>5, <2>4, <3>1
    <3>3. p.end <= b.end /\ (p.end = b.end => b.end <= L)
      BY <1>2, <3>1, <3>2, <2>4 DEF SegmentInOrder, OthersEndBefore, LoneMarker
    <3> QED
      BY <1>2, <2>4, <3>1, <3>3
  <2> QED
    BY <1>1, <2>1, <2>2, <2>3, <2>4
<1>7. ASSUME NEW p \in K \ {z}, p.status = m.status
      PROVE  Lower(p.end, m.end) <= Higher(p.start, m.start)
  <2>1. Lower(p.end, z.end) <= Higher(p.start, z.start)
    BY <1>1, <1>3, <1>7 DEF RowsInOrder, NoOverlap
  <2>2. p.end <= b.start
    BY <1>1, <1>2, <1>3, <1>7 DEF SegmentInOrder, LatestIsTarget
  <2> QED
    BY <1>1, <1>2, <1>3, <2>1, <2>2 DEF Lower, Higher
<1>8. NoOverlap(after)
  <2>1. \A x, y, u, v \in Nat : Lower(x, y) = Lower(y, x) /\ Higher(u, v) = Higher(v, u)
    BY DEF Lower, Higher
  <2> QED
    BY <1>1, <1>2, <1>7, <2>1 DEF NoOverlap, RowsInOrder
<1> QED
  BY <1>4, <1>6, <1>8 DEF RowsInOrder

\* The rows of the other status are not touched by a checkpoint.
LEMMA OthersStay ==
  ASSUME NEW K, NEW after, NEW b, Appended(K, after, b) \/ Merged(K, after, b),
         NEW p \in after, p.status # b.status
  PROVE  p \in K
  BY DEF Appended, Merged

\* A checkpoint outside a transition leaves the segment in memory in order.
LEMMA AppendedKeepsSegment ==
  ASSUME NEW K, K \subseteq Row, NEW b \in Event, NEW L \in Nat, NEW n \in Nat,
         NEW after, Appended(K, after, b),
         RowsInOrder(K, L, n), SegmentInOrder(K, b, L, n, FALSE)
  PROVE  SegmentInOrder(after, b, L, n, FALSE)
<1>1. PICK new \in Row :
        /\ after = K \cup {new}
        /\ \A r \in K : r.id < new.id
        /\ new.status = b.status /\ new.start = b.start /\ new.end = b.end
        /\ \A z \in K : (\A q \in K : ~EndsLater(q, z)) =>
             z.status # b.status \/ interval_gap(z, b) > MergeWindow
  BY DEF Appended
<1>2. /\ \A r \in after : r.status \in Status /\ r.start \in Nat /\ r.end \in Nat /\ r.id \in Nat
      /\ b.status \in Status /\ b.start \in Nat /\ b.end \in Nat /\ b.start <= b.end
      /\ MergeWindow \in Nat \ {0}
  BY <1>1, ConstantBounds DEF Row, Event, Bounds, SegmentInOrder, Timely
<1>3. \A p \in K : p.status = b.status => p.end <= b.start
  <2> SUFFICES ASSUME NEW p \in K, p.status = b.status, p.end > b.start
               PROVE  FALSE
    BY <1>1, <1>2
  <2>1. \A q \in K : ~EndsLater(q, p)
    BY DEF SegmentInOrder, LatestIsTarget, LoneMarker
  <2>2. p.end <= b.end + 1 /\ p.start <= p.end
    BY DEF SegmentInOrder, SameEndBy, RowsInOrder, Timely
  <2>3. interval_gap(p, b) <= 1
    BY <1>1, <1>2, <2>2 DEF interval_gap
  <2>4. interval_gap(p, b) \in Int
    BY <1>1, <1>2 DEF interval_gap
  <2> QED
    BY <1>1, <1>2, <2>1, <2>3, <2>4
<1>4. OthersEndBefore(after, b, L, FALSE)
  BY <1>1 DEF SegmentInOrder, OthersEndBefore
<1>5. SameEndBy(after, b)
  BY <1>1, <1>2 DEF SegmentInOrder, SameEndBy
<1>6. LatestIsTarget(after, b, L, FALSE)
  <2> SUFFICES ASSUME NEW q \in after, NEW p \in after, q.status = b.status,
                      q.end > b.start, EndsLater(p, q)
               PROVE  FALSE
    BY DEF LatestIsTarget
  <2>1. q = new
    BY <1>1, <1>2, <1>3
  <2>2. p \in K
    BY <1>1, <1>2, <2>1 DEF EndsLater
  <2>3. p.end >= b.end /\ b.end > b.start
    BY <1>1, <1>2, <2>1 DEF EndsLater
  <2>4. p.status = b.status
    BY <1>2, <2>2, <2>3 DEF SegmentInOrder, OthersEndBefore, LoneMarker
  <2> QED
    BY <1>2, <1>3, <2>2, <2>3, <2>4
<1> QED
  BY <1>4, <1>5, <1>6 DEF SegmentInOrder

LEMMA MergedKeepsSegment ==
  ASSUME NEW K, K \subseteq Row, \A r, q \in K : r.id = q.id => r = q,
         NEW b \in Event, NEW L \in Nat, NEW n \in Nat,
         NEW after, Merged(K, after, b),
         RowsInOrder(K, L, n), SegmentInOrder(K, b, L, n, FALSE)
  PROVE  SegmentInOrder(after, b, L, n, FALSE)
<1>1. PICK z \in K, m \in Row :
        /\ \A q \in K : ~EndsLater(q, z)
        /\ z.status = b.status /\ interval_gap(z, b) <= MergeWindow
        /\ after = (K \ {z}) \cup {m}
        /\ m.id = z.id /\ m.status = z.status
        /\ m.start = Lower(z.start, b.start) /\ m.end = Higher(z.end, b.end)
  BY DEF Merged
<1>2. /\ \A r \in K : r.status \in Status /\ r.start \in Nat /\ r.end \in Nat /\ r.id \in Nat
      /\ m.status \in Status /\ m.start \in Nat /\ m.end \in Nat /\ m.id \in Nat
      /\ b.status \in Status /\ b.start \in Nat /\ b.end \in Nat /\ b.start <= b.end
  BY <1>1 DEF Row, Event, SegmentInOrder, Timely
<1>3. \A r \in K \ {z} : EndsLater(z, r) /\ r.end <= z.end
  <2>1. \A r \in K \ {z} : EndsLater(z, r)
    BY <1>1, EndsLaterOrders
  <2> QED
    BY <1>2, <2>1 DEF EndsLater
<1>4. \A q \in K \ {z} : q.status = b.status => q.end <= b.start
  BY <1>1, <1>2, <1>3 DEF SegmentInOrder, LatestIsTarget, LoneMarker
<1>5. OthersEndBefore(after, b, L, FALSE)
  BY <1>1 DEF SegmentInOrder, OthersEndBefore
<1>6. SameEndBy(after, b)
  BY <1>1, <1>2 DEF SegmentInOrder, SameEndBy, Higher
<1>7. LatestIsTarget(after, b, L, FALSE)
  <2> SUFFICES ASSUME NEW q \in after, NEW p \in after, q.status = b.status,
                      q.end > b.start, EndsLater(p, q)
               PROVE  FALSE
    BY DEF LatestIsTarget
  <2>1. q = m
    BY <1>1, <1>2, <1>4
  <2>2. p \in K \ {z}
    BY <1>1, <1>2, <2>1 DEF EndsLater
  <2>3. p.end >= b.end /\ p.end > b.start
    BY <1>1, <1>2, <2>1, <2>2 DEF EndsLater, Higher
  <2>4. p.status = b.status
    BY <1>2, <2>2, <2>3 DEF SegmentInOrder, OthersEndBefore, LoneMarker
  <2> QED
    BY <1>2, <1>4, <2>2, <2>3, <2>4
<1> QED
  BY <1>5, <1>6, <1>7 DEF SegmentInOrder

-----------------------------------------------------------------------------
(***************************************************************************)
(* A new segment, and one that grows.                                      *)
(***************************************************************************)
\* The events buffer_afk_event is called with: a sample of the user as active
\* or idle, or one of the two markers.
EventOfSample(e, L, n) ==
  /\ e.start = L
  /\ \/ e.end = L /\ (e.status = "afk" => n - L < AfkTimeout)
     \/ e.end = n /\ e.status = "afk" /\ n - L >= AfkTimeout

SecondMarker(e, L, n) ==
  /\ e.start = L + 1
  /\ \/ e.end = L + 1 /\ e.status = "not-afk" /\ n - L < AfkTimeout
     \/ e.end = n + 1 /\ e.status = "afk" /\ n - L >= AfkTimeout

\* The second marker starts a segment that is in order, whatever the rows.
LEMMA SecondMarkerInOrder ==
  ASSUME NEW K, K \subseteq Row, NEW L \in Nat, NEW n \in Nat, L <= n,
         RowsInOrder(K, L, n), NEW e \in Event, SecondMarker(e, L, n)
  PROVE  SegmentInOrder(K, e, L, n, FALSE)
<1>1. /\ \A r \in K : r.status \in Status /\ r.start \in Nat /\ r.end \in Nat
      /\ e.status \in Status /\ e.start \in Nat /\ e.end \in Nat /\ AfkTimeout \in Nat \ {0}
  BY ConstantBounds DEF Row, Event, Bounds
<1>2. \A r \in K : Timely(r, L, n)
  BY DEF RowsInOrder
<1>3. Timely(e, L, n)
  BY <1>1 DEF Timely, SecondMarker
<1>4. OthersEndBefore(K, e, L, FALSE)
  <2> SUFFICES ASSUME NEW p \in K, p.status # e.status
               PROVE  p.end < e.end
    BY DEF OthersEndBefore
  <2>1. CASE p.status = "afk"
    BY <1>1, <1>2, <2>1 DEF SecondMarker, Timely
  <2>2. CASE p.status = "not-afk"
    BY <1>1, <1>2, <2>2 DEF SecondMarker, Timely
  <2> QED
    BY <1>1, <2>1, <2>2 DEF Status
<1>5. SameEndBy(K, e)
  BY <1>1, <1>2 DEF SameEndBy, SecondMarker, Timely
<1>6. LatestIsTarget(K, e, L, FALSE)
  <2> SUFFICES ASSUME NEW q \in K, NEW p \in K, q.status = e.status, q.end > e.start,
                      EndsLater(p, q)
               PROVE  FALSE
    BY DEF LatestIsTarget
  <2>1. q.end > L /\ q.status = "afk"
    BY <1>1, <1>2 DEF SecondMarker, Timely
  <2> QED
    BY <2>1 DEF RowsInOrder, LateIsLatest
<1> QED
  BY <1>3, <1>4, <1>5, <1>6 DEF SegmentInOrder

\* So does a sample of an active user, and the marker of one who has gone.
LEMMA ActiveInOrder ==
  ASSUME NEW K, K \subseteq Row, NEW L \in Nat, NEW n \in Nat, L <= n,
         RowsInOrder(K, L, n), NEW e \in Event, EventOfSample(e, L, n),
         e.status = "not-afk", NEW marker \in BOOLEAN, marker \/ n - L < AfkTimeout
  PROVE  SegmentInOrder(K, e, L, n, marker)
<1>1. /\ \A r \in K : r.status \in Status /\ r.start \in Nat /\ r.end \in Nat
      /\ e.start = L /\ e.end = L
  BY DEF Row, EventOfSample
<1>2. \A r \in K : Timely(r, L, n)
  BY DEF RowsInOrder
<1>3. Timely(e, L, n)
  BY <1>1 DEF Timely
<1>4. marker => LoneMarker(e, L, marker)
  BY <1>1 DEF LoneMarker
<1>5. ~marker => \A r \in K : r.status = "afk" => r.end <= L
  BY <1>1, <1>2, ConstantBounds DEF Timely, Bounds
<1>6. OthersEndBefore(K, e, L, marker)
  BY <1>1, <1>4, <1>5 DEF OthersEndBefore, Status
<1>7. SameEndBy(K, e)
  BY <1>1, <1>2 DEF SameEndBy, Timely
<1>8. LatestIsTarget(K, e, L, marker)
  <2> SUFFICES ASSUME NEW q \in K, NEW p \in K, q.status = "not-afk", q.end > L,
                      EndsLater(p, q)
               PROVE  marker /\ p.status # "not-afk"
    BY <1>1, <1>4 DEF LatestIsTarget
  <2>1. p.status = "afk"
    BY <1>1 DEF RowsInOrder, LateIsLatest, Status
  <2>2. p.end > L
    BY <1>1 DEF EndsLater
  <2> QED
    BY <1>1, <1>5, <2>1, <2>2
<1> QED
  BY <1>3, <1>6, <1>7, <1>8 DEF SegmentInOrder

\* An idle sample replaces an idle segment only when they lie apart, and then
\* the active rows end before both.
LEMMA IdleInOrder ==
  ASSUME NEW K, K \subseteq Row, NEW L \in Nat, NEW n \in Nat, L <= n,
         RowsInOrder(K, L, n), NEW e \in Event, EventOfSample(e, L, n),
         e.status = "afk", \A p \in K : p.status = "not-afk" => p.end < L
  PROVE  SegmentInOrder(K, e, L, n, FALSE)
<1>1. /\ \A r \in K : r.status \in Status /\ r.start \in Nat /\ r.end \in Nat
      /\ e.start = L /\ e.end \in Nat /\ e.end >= L /\ AfkTimeout \in Nat \ {0}
  BY ConstantBounds DEF Row, Event, EventOfSample, Bounds
<1>2. \A r \in K : Timely(r, L, n)
  BY DEF RowsInOrder
<1>3. Timely(e, L, n)
  BY <1>1 DEF Timely, EventOfSample
<1>4. \A p \in K : p.status # e.status => p.end < e.end
  BY <1>1 DEF Status
<1>5. SameEndBy(K, e)
  BY <1>1, <1>2 DEF SameEndBy, Timely, EventOfSample
<1>6. LatestIsTarget(K, e, L, FALSE)
  BY <1>1 DEF LatestIsTarget, RowsInOrder, LateIsLatest
<1> QED
  BY <1>3, <1>4, <1>5, <1>6 DEF SegmentInOrder, OthersEndBefore

LEMMA IncompatibleEndsBefore ==
  ASSUME NEW K, K \subseteq Row, NEW L \in Nat, NEW n \in Nat, L <= n,
         NEW b \in Event, SegmentInOrder(K, b, L, n, FALSE), b.status = "afk",
         NEW e \in Event, EventOfSample(e, L, n), interval_gap(b, e) > MergeWindow
  PROVE  \A p \in K : p.status = "not-afk" => p.end < L
<1>1. /\ \A r \in K : r.end \in Nat
      /\ b.start \in Nat /\ b.end \in Nat /\ b.start <= L + 1
      /\ e.start = L /\ e.end \in Nat /\ e.end >= L /\ MergeWindow \in Nat \ {0}
  BY ConstantBounds DEF Row, Event, Bounds, EventOfSample, SegmentInOrder, Timely
<1>2. b.end < L
  BY <1>1 DEF interval_gap
<1> QED
  BY <1>1, <1>2 DEF SegmentInOrder, OthersEndBefore, LoneMarker

\* A compatible sample extends the segment, and it stays in order.
LEMMA ExtendedInOrder ==
  ASSUME NEW K, K \subseteq Row, NEW L \in Nat, NEW n \in Nat, L <= n,
         RowsInOrder(K, L, n),
         NEW b \in Event, SegmentInOrder(K, b, L, n, FALSE),
         NEW e \in Event, EventOfSample(e, L, n), b.status = e.status,
         NEW c \in Event, c.status = b.status,
         c.start = Lower(b.start, e.start), c.end = Higher(b.end, e.end)
  PROVE  SegmentInOrder(K, c, L, n, FALSE)
<1>1. /\ \A r \in K : r.status \in Status /\ r.start \in Nat /\ r.end \in Nat
      /\ b.status \in Status /\ b.start \in Nat /\ b.end \in Nat /\ b.start <= b.end
      /\ b.start <= L + 1
      /\ e.start = L /\ e.end \in Nat /\ e.end >= L /\ AfkTimeout \in Nat \ {0}
      /\ c.start \in Nat /\ c.end \in Nat
  BY ConstantBounds DEF Row, Event, EventOfSample, Bounds, SegmentInOrder, Timely
<1>2. Timely(c, L, n)
  BY <1>1 DEF SegmentInOrder, Timely, EventOfSample, Lower, Higher
<1>3. OthersEndBefore(K, c, L, FALSE)
  BY <1>1 DEF SegmentInOrder, OthersEndBefore, LoneMarker, Lower, Higher
<1>4. SameEndBy(K, c)
  BY <1>1 DEF SegmentInOrder, SameEndBy, Higher
<1>5. LatestIsTarget(K, c, L, FALSE)
  <2> SUFFICES ASSUME NEW q \in K, NEW p \in K, q.status = b.status, q.end > c.start,
                      EndsLater(p, q)
               PROVE  FALSE
    BY DEF LatestIsTarget
  <2>1. q.end <= b.start
    BY <1>1 DEF SegmentInOrder, LatestIsTarget, LoneMarker
  <2>2. c.start = L /\ b.start = L + 1 /\ q.end = L + 1 /\ b.end >= L + 1
    BY <1>1, <2>1 DEF Lower
  <2>3. q.status = "not-afk" /\ p.status = "afk"
    BY <1>1, <2>2 DEF RowsInOrder, LateIsLatest, Status
  <2>4. p.end < b.end /\ b.end <= L + 1
    BY <1>1, <2>2, <2>3 DEF SegmentInOrder, OthersEndBefore, LoneMarker, Timely
  <2> QED
    BY <1>1, <2>2, <2>4 DEF EndsLater
<1> QED
  BY <1>2, <1>3, <1>4, <1>5 DEF SegmentInOrder

-----------------------------------------------------------------------------
(***************************************************************************)
(* Rows that go, and time that passes.                                     *)
(***************************************************************************)
\* Every row of Q is a row of K, up to its flags.
Thinned(Q, K) ==
  \A q \in Q : \E r \in K :
    r.id = q.id /\ r.status = q.status /\ r.start = q.start /\ r.end = q.end

LEMMA ThinnedInOrder ==
  ASSUME NEW K, NEW Q, Thinned(Q, K), NEW L, NEW n, RowsInOrder(K, L, n)
  PROVE  RowsInOrder(Q, L, n)
<1>1. \A r \in Q : Timely(r, L, n)
  BY DEF Thinned, RowsInOrder, Timely
<1>2. ASSUME NEW q \in Q, NEW p \in Q, q.end > L, q.status = "afk" \/ p.status = q.status
      PROVE  ~EndsLater(p, q)
  <2>1. PICK r \in K : r.id = q.id /\ r.status = q.status /\ r.start = q.start /\ r.end = q.end
    BY DEF Thinned
  <2>2. PICK s \in K : s.id = p.id /\ s.status = p.status /\ s.start = p.start /\ s.end = p.end
    BY DEF Thinned
  <2>3. ~EndsLater(s, r)
    BY <1>2, <2>1, <2>2 DEF RowsInOrder, LateIsLatest
  <2> QED
    BY <2>1, <2>2, <2>3 DEF EndsLater
<1>3. ASSUME NEW p \in Q, NEW q \in Q, p.id # q.id, p.status = q.status
      PROVE  Lower(p.end, q.end) <= Higher(p.start, q.start)
  <2>1. PICK r \in K : r.id = q.id /\ r.status = q.status /\ r.start = q.start /\ r.end = q.end
    BY DEF Thinned
  <2>2. PICK s \in K : s.id = p.id /\ s.status = p.status /\ s.start = p.start /\ s.end = p.end
    BY DEF Thinned
  <2> QED
    BY <1>3, <2>1, <2>2 DEF RowsInOrder, NoOverlap
<1> QED
  BY <1>1, <1>2, <1>3 DEF RowsInOrder, LateIsLatest, NoOverlap

LEMMA ThinnedKeepsSegment ==
  ASSUME NEW K, NEW Q, Thinned(Q, K), NEW L, NEW n, NEW b, NEW marker,
         SegmentInOrder(K, b, L, n, marker)
  PROVE  SegmentInOrder(Q, b, L, n, marker)
<1>1. OthersEndBefore(Q, b, L, marker)
  BY DEF Thinned, SegmentInOrder, OthersEndBefore
<1>2. SameEndBy(Q, b)
  BY DEF Thinned, SegmentInOrder, SameEndBy
<1>3. ASSUME NEW q \in Q, NEW p \in Q, q.status = b.status, q.end > b.start, EndsLater(p, q)
      PROVE  LoneMarker(b, L, marker) /\ p.status # b.status
  <2>1. PICK r \in K : r.id = q.id /\ r.status = q.status /\ r.start = q.start /\ r.end = q.end
    BY DEF Thinned
  <2>2. PICK s \in K : s.id = p.id /\ s.status = p.status /\ s.start = p.start /\ s.end = p.end
    BY DEF Thinned
  <2>3. EndsLater(s, r)
    BY <1>3, <2>1, <2>2 DEF EndsLater
  <2> QED
    BY <1>3, <2>1, <2>2, <2>3 DEF SegmentInOrder, LatestIsTarget
<1> QED
  BY <1>1, <1>2, <1>3 DEF SegmentInOrder, LatestIsTarget

\* Pruning, discarding and marking as sent thin the rows of every device.
LEMMA StatementsThin ==
  ASSUME NEW R, R \subseteq Row, NEW x, NEW d,
         NEW after \in {event_store_mark_sent(R, x), event_store_discard_pending(R, x),
                        event_store_prune(R, x)}
  PROVE  /\ Thinned(KeptRows(after, d), KeptRows(R, d))
         /\ \A r \in after : \E q \in R : q.device = r.device
<1>1. ASSUME NEW q \in after
      PROVE  \E r \in R : /\ r.device = q.device /\ (r.discarded => q.discarded)
                          /\ r.id = q.id /\ r.status = q.status
                          /\ r.start = q.start /\ r.end = q.end
  <2>1. PICK r \in R : q \in {r, [r EXCEPT !.sent = TRUE], [r EXCEPT !.discarded = TRUE]}
    BY DEF event_store_mark_sent, event_store_discard_pending, event_store_prune
  <2>2. r \in Row
    OBVIOUS
  <2>3. CASE q = r
    BY <2>3
  <2>4. CASE q = [r EXCEPT !.sent = TRUE]
    BY <2>2, <2>4 DEF Row
  <2>5. CASE q = [r EXCEPT !.discarded = TRUE]
    BY <2>2, <2>5 DEF Row
  <2> QED
    BY <2>1, <2>3, <2>4, <2>5
<1>2. ASSUME NEW q \in KeptRows(after, d)
      PROVE  \E r \in KeptRows(R, d) :
               r.id = q.id /\ r.status = q.status /\ r.start = q.start /\ r.end = q.end
  <2>1. q \in after /\ q.device = d /\ ~q.discarded
    BY DEF KeptRows
  <2> QED
    BY <1>1, <2>1 DEF KeptRows
<1> QED
  BY <1>1, <1>2 DEF Thinned

\* The clock advances, with or without a new input.
LEMMA TimePasses ==
  ASSUME NEW K, K \subseteq Row, NEW L \in Nat, NEW n \in Nat, L <= n,
         NEW M \in {L, n + 1}, RowsInOrder(K, L, n)
  PROVE  /\ RowsInOrder(K, M, n + 1)
         /\ \A b \in Event : SegmentInOrder(K, b, L, n, FALSE) =>
                             SegmentInOrder(K, b, M, n + 1, FALSE)
<1>1. AfkTimeout \in Nat
  BY ConstantBounds DEF Bounds
<1>2. \A r : /\ Timely(r, L, n) /\ r.start \in Nat /\ r.end \in Nat
             => Timely(r, M, n + 1)
  BY <1>1 DEF Timely
<1>3. /\ \A r \in K : r.start \in Nat /\ r.end \in Nat
      /\ \A b \in Event : b.start \in Nat /\ b.end \in Nat
  BY DEF Row, Event
<1>4. \A r \in K : Timely(r, M, n + 1)
  BY <1>2, <1>3 DEF RowsInOrder
<1>5. LateIsLatest(K, M)
  <2>1. CASE M = L
    BY <2>1 DEF RowsInOrder, LateIsLatest
  <2>2. CASE M = n + 1
    <3>1. \A r \in K : ~(r.end > M)
      BY <1>3, <2>2 DEF RowsInOrder, Timely
    <3> QED
      BY <3>1 DEF LateIsLatest
  <2> QED
    BY <2>1, <2>2
<1>6. ASSUME NEW b \in Event, SegmentInOrder(K, b, L, n, FALSE)
      PROVE  SegmentInOrder(K, b, M, n + 1, FALSE)
  <2>1. Timely(b, M, n + 1)
    BY <1>2, <1>3, <1>6 DEF SegmentInOrder
  <2>2. OthersEndBefore(K, b, M, FALSE)
    BY <1>3, <1>6 DEF SegmentInOrder, OthersEndBefore, LoneMarker
  <2>3. LatestIsTarget(K, b, M, FALSE)
    BY <1>6 DEF SegmentInOrder, LatestIsTarget, LoneMarker
  <2> QED
    BY <1>6, <2>1, <2>2, <2>3 DEF SegmentInOrder
<1> QED
  BY <1>4, <1>5, <1>6 DEF RowsInOrder

-----------------------------------------------------------------------------
(***************************************************************************)
(* The invariant of the session.                                           *)
(***************************************************************************)
Mine == KeptRows(rows, device)

\* What the statements on the journal keep.
RowsRecorded ==
  /\ RowsInOrder(Mine, lastInput, now)
  /\ \A d : NoOverlap(KeptRows(rows, d))
  /\ \A r \in rows : r.device <= device

\* The segment has the status of the session, or in the last step of a
\* transition that of the sample; no input comes inside a transition.
StatusFollows ==
  /\ phase \in {"marker", "save"} =>
       buffer # NoEvent /\ sample = afk_update(now - lastInput)
  /\ phase = "marker" => sample.afk # afk
  /\ buffer = NoEvent => ~afk
  /\ buffer # NoEvent => buffer.status = StatusOf(IF phase = "save" THEN sample.afk ELSE afk)

SegmentRecorded ==
  buffer # NoEvent => SegmentInOrder(Mine, buffer, lastInput, now, phase = "marker")

Recorded == RowsRecorded /\ SegmentRecorded /\ StatusFollows

\* As long as no transaction has failed.
RecordingInv == failures = 0 => Recorded

LEMMA RecordedTwice == TypeInv /\ RecordingInv => NoTimeRecordedTwice
  BY DEF TypeInv, TypeOK, RecordingInv, Recorded, RowsRecorded, NoOverlap, KeptRows,
         NoTimeRecordedTwice

LEMMA StateTypes ==
  ASSUME TypeInv
  PROVE  /\ rows \subseteq Row /\ Mine \subseteq Row
         /\ lastInput \in Nat /\ now \in Nat /\ lastInput <= now
         /\ device \in Nat
         /\ buffer # NoEvent => buffer \in Event /\ buffer.device = device
  BY DEF TypeInv, TypeOK, Consistent, KeptRows, Mine, DeviceId

\* A failed step counts as one.
LEMMA FailuresGrow == ASSUME [Next]_vars PROVE Fails \/ failures' = failures
<1>1. ASSUME NEW e, buffer_afk_event(e) \/ BufferingFails(e)
      PROVE  Fails \/ failures' = failures
  BY <1>1 DEF buffer_afk_event, ExtendBuffer, ReplaceBuffer, WriteSegment, BufferingFails,
              CheckpointFails
<1>2. CASE SampleSameStatus
  BY <1>1, <1>2 DEF SampleSameStatus
<1>3. CASE SampleNewStatus
  BY <1>1, <1>3 DEF SampleNewStatus
<1>4. CASE MarkNewStatus
  BY <1>1, <1>4 DEF MarkNewStatus
<1>5. CASE StartSession \/ StartFails \/ OpenBucket \/ Poll \/ SkipSample
           \/ SaveTransition \/ PeriodicCheckpoint
  BY <1>5 DEF StartSession, StartFails, OpenBucket, Poll, SkipSample, SaveTransition,
              PeriodicCheckpoint, checkpoint_buffered_event, WriteSegment, CheckpointFails
<1>6. CASE EnsureBucket \/ ReadPending \/ ReplayDone \/ ReadPendingFails \/ PostRow
           \/ PostRowFails \/ MarkSent \/ MarkSentFails \/ RequestEnds \/ Unauthorized
  BY <1>6 DEF EnsureBucket, ReadPending, ReplayDone, ReadPendingFails, PostRow, PostRowFails,
              MarkSent, MarkSentFails, RequestEnds, Unauthorized
<1>7. CASE CheckpointLast \/ DiscardPending \/ Owner \/ Crash
  BY <1>7 DEF CheckpointLast, checkpoint_buffered_event, WriteSegment, CheckpointFails,
              DiscardPending, Owner, tracker_session_tracked_today, tracker_session_cleanup,
              Crash
<1>8. CASE World \/ UNCHANGED vars
  BY <1>8 DEF World, Tick, Login, Revoke, tracker_discard_pending_events, vars
<1> QED
  BY <1>2, <1>3, <1>4, <1>5, <1>6, <1>7, <1>8 DEF Next, Session

LEMMA NothingFailed ==
  ASSUME TypeInv, [Next]_vars, failures' = 0
  PROVE  failures = 0 /\ ~Fails
<1>1. failures \in Nat
  BY DEF TypeInv, TypeOK
<1> QED
  BY <1>1, FailuresGrow DEF Fails

\* A checkpoint keeps the rows in order, does not touch those of the other
\* status, and leaves the segment in order.
LEMMA SaveRecords ==
  ASSUME TypeInv, IdsUnique, Recorded, SaveSegment, UNCHANGED <<device, lastInput, now>>
  PROVE  /\ RowsRecorded'
         /\ \A p \in Mine' : p.status # buffer.status => p \in Mine
         /\ buffer # NoEvent /\ phase # "marker" =>
              SegmentInOrder(Mine', buffer, lastInput, now, FALSE)
<1>0. SegmentRecorded /\ RowsRecorded
  BY DEF Recorded
<1>1. CASE ~dirty
  <2>1. rows' = rows
    BY <1>1 DEF SaveSegment, journal
  <2>2. Mine' = Mine
    BY <2>1 DEF Mine
  <2>3. RowsRecorded'
    BY <1>0, <2>1, <2>2 DEF RowsRecorded
  <2> QED
    BY <1>0, <2>2, <2>3 DEF SegmentRecorded
<1>2. CASE dirty
  <2> DEFINE b == buffer
             after == event_store_merge(rows, nextId, b)
  <2>1. buffer # NoEvent /\ b \in Event /\ b.device = device
    BY <1>2, StateTypes DEF TypeInv, Consistent
  <2>2. rows \subseteq Row /\ Mine \subseteq Row /\ lastInput \in Nat /\ now \in Nat
        /\ nextId \in Nat \ {0}
    BY StateTypes DEF TypeInv, TypeOK
  <2>3. rows' = after
    BY <1>2 DEF SaveSegment
  <2>4. Mine' = KeptRows(after, b.device) /\ Mine = KeptRows(rows, b.device)
    BY <2>1, <2>3 DEF Mine
  <2>5. Appended(Mine, Mine', b) \/ Merged(Mine, Mine', b)
    BY <2>1, <2>2, <2>4, MergeCases DEF IdsUnique
  <2>6. \A r, q \in Mine : r.id = q.id => r = q
    BY DEF IdsUnique, Mine, KeptRows
  <2>7. RowsInOrder(Mine, lastInput, now)
        /\ SegmentInOrder(Mine, b, lastInput, now, phase = "marker")
    BY <1>0, <2>1 DEF RowsRecorded, SegmentRecorded
  <2> HIDE DEF b, after
  <2>8. RowsInOrder(Mine', lastInput, now)
    BY <2>1, <2>2, <2>5, <2>6, <2>7, AppendedInOrder, MergedInOrder
  <2>9. \A d : NoOverlap(KeptRows(rows', d))
    <3> SUFFICES ASSUME NEW d PROVE NoOverlap(KeptRows(rows', d))
      OBVIOUS
    <3>1. CASE d = device
      BY <2>8, <3>1 DEF Mine, RowsInOrder
    <3>2. CASE d # device
      <4>1. KeptRows(rows', d) = KeptRows(rows, d)
        BY <2>1, <2>2, <2>3, <3>2, MergeOthers DEF after
      <4> QED
        BY <1>0, <4>1 DEF RowsRecorded
    <3> QED
      BY <3>1, <3>2
  <2>10. \A r \in rows' : r.device <= device
    <3>1. \A r \in MergeTarget(rows, b) : r \in rows /\ update_merged(r, b).device = r.device
      BY <2>2 DEF MergeTarget, LatestRow, update_merged, Row
    <3>2. ASSUME NEW r \in rows' PROVE r.device = device \/ \E q \in rows : q.device = r.device
      BY <2>1, <2>3, <3>1 DEF after, event_store_merge, event_store_append
    <3> QED
      BY <1>0, <2>2, <3>2, StateTypes DEF RowsRecorded
  <2>11. \A p \in Mine' : p.status # b.status => p \in Mine
    BY <2>5, OthersStay
  <2>12. phase # "marker" => SegmentInOrder(Mine', b, lastInput, now, FALSE)
    BY <2>1, <2>2, <2>5, <2>6, <2>7, AppendedKeepsSegment, MergedKeepsSegment
  <2>13. RowsRecorded'
    BY <2>8, <2>9, <2>10 DEF RowsRecorded
  <2> QED
    BY <2>11, <2>12, <2>13 DEF b
<1> QED
  BY <1>1, <1>2

\* In the order of a lone marker or without one.
LEMMA OrderWeakens ==
  ASSUME NEW K, NEW b, NEW L, NEW n, NEW marker, SegmentInOrder(K, b, L, n, FALSE)
  PROVE  SegmentInOrder(K, b, L, n, marker)
  BY DEF SegmentInOrder, OthersEndBefore, LatestIsTarget, LoneMarker

\* A sample, or the first marker of a transition, is recorded: the rows and
\* the segment in memory stay in order.
LEMMA SampleRecords ==
  ASSUME TypeInv, IdsUnique, Recorded, UNCHANGED <<device, lastInput, now>>,
         phase = "sample", NEW e \in Event, e.device = device,
         e.status = StatusOf(afk), EventOfSample(e, lastInput, now),
         NEW marker \in BOOLEAN,
         marker \/ e.status = "afk" \/ now - lastInput < AfkTimeout,
         buffer_afk_event(e)
  PROVE  /\ RowsRecorded'
         /\ buffer' # NoEvent /\ buffer'.status = e.status
         /\ SegmentInOrder(Mine', buffer', lastInput, now, marker)
<1>1. /\ rows \subseteq Row /\ Mine \subseteq Row
      /\ lastInput \in Nat /\ now \in Nat /\ lastInput <= now
      /\ buffer # NoEvent => buffer \in Event /\ buffer.device = device
  BY StateTypes
<1>2. /\ buffer # NoEvent => buffer.status = e.status
      /\ buffer # NoEvent => SegmentInOrder(Mine, buffer, lastInput, now, FALSE)
      /\ buffer = NoEvent => e.status = "not-afk"
  BY DEF Recorded, SegmentRecorded, StatusFollows, StatusOf
<1>3. \A x \in Event : x # NoEvent
  BY DEF Event, NoEvent, Status
<1>4. CASE ExtendBuffer(e)
  <2>1. buffer # NoEvent /\ buffer \in Event /\ rows' = rows
    BY <1>1, <1>4 DEF ExtendBuffer, Compatible, journal
  <2>2. /\ buffer' \in Event /\ buffer'.status = buffer.status
        /\ buffer'.start = Lower(buffer.start, e.start)
        /\ buffer'.end = Higher(buffer.end, e.end)
    BY <1>4, <2>1 DEF ExtendBuffer, Event, Lower, Higher
  <2>3. Mine' = Mine
    BY <2>1 DEF Mine
  <2>4. RowsRecorded'
    BY <2>1, <2>3 DEF Recorded, RowsRecorded
  <2>5. SegmentInOrder(Mine, buffer', lastInput, now, FALSE)
    BY <1>1, <1>2, <2>1, <2>2, ExtendedInOrder DEF Recorded, RowsRecorded
  <2> QED
    BY <1>2, <1>3, <2>1, <2>2, <2>3, <2>4, <2>5, OrderWeakens
<1>5. CASE ReplaceBuffer(e)
  <2>1. SaveSegment /\ buffer' = e /\ ~Compatible(e)
    BY <1>5 DEF ReplaceBuffer, WriteSegment
  <2>2. RowsRecorded' /\ \A p \in Mine' : p.status # buffer.status => p \in Mine
    BY <2>1, SaveRecords
  <2>3. Mine' \subseteq Row
    <3>1. rows' \subseteq Row
      BY <2>1, SaveSegmentType
    <3> QED
      BY <3>1 DEF Mine, KeptRows
  <2>4. RowsInOrder(Mine', lastInput, now)
    BY <2>2 DEF RowsRecorded
  <2>5. CASE e.status = "not-afk"
    BY <1>1, <1>3, <2>1, <2>2, <2>3, <2>4, <2>5, ActiveInOrder
  <2>6. CASE e.status = "afk"
    <3>1. buffer # NoEvent /\ buffer \in Event /\ buffer.status = "afk"
      BY <1>1, <1>2, <2>6
    <3>2. interval_gap(buffer, e) > MergeWindow
      <4>1. ~(interval_gap(buffer, e) <= MergeWindow)
        BY <1>2, <2>1, <3>1 DEF Compatible
      <4>2. interval_gap(buffer, e) \in Int /\ MergeWindow \in Int
        BY <3>1, ConstantBounds DEF interval_gap, Event, Bounds
      <4> QED
        BY <4>1, <4>2
    <3>3. \A p \in Mine : p.status = "not-afk" => p.end < lastInput
      BY <1>1, <1>2, <3>1, <3>2, IncompatibleEndsBefore
    <3>4. \A p \in Mine' : p.status = "not-afk" => p.end < lastInput
      BY <2>2, <3>1, <3>3
    <3>5. SegmentInOrder(Mine', e, lastInput, now, FALSE)
      BY <1>1, <2>3, <2>4, <2>6, <3>4, IdleInOrder
    <3> QED
      BY <1>3, <2>1, <2>2, <3>5, OrderWeakens
  <2> QED
    BY <2>5, <2>6 DEF Event, Status
<1> QED
  BY <1>4, <1>5 DEF buffer_afk_event

\* The second marker has another status than the first: it never extends it.
LEMMA MarkerRecords ==
  ASSUME TypeInv, IdsUnique, Recorded, UNCHANGED <<device, lastInput, now>>,
         NEW e \in Event, buffer.status # e.status,
         SecondMarker(e, lastInput, now), buffer_afk_event(e)
  PROVE  /\ RowsRecorded'
         /\ buffer' # NoEvent /\ buffer' = e
         /\ SegmentInOrder(Mine', buffer', lastInput, now, FALSE)
<1>1. lastInput \in Nat /\ now \in Nat /\ lastInput <= now
  BY StateTypes
<1>2. SaveSegment /\ buffer' = e
  BY DEF buffer_afk_event, ExtendBuffer, Compatible, ReplaceBuffer, WriteSegment
<1>3. RowsRecorded'
  BY <1>2, SaveRecords
<1>4. Mine' \subseteq Row
  <2>1. rows' \subseteq Row
    BY <1>2, SaveSegmentType
  <2> QED
    BY <2>1 DEF Mine, KeptRows
<1>5. e # NoEvent
  BY DEF Event, NoEvent, Status
<1> QED
  BY <1>1, <1>2, <1>3, <1>4, <1>5, SecondMarkerInOrder DEF RowsRecorded

\* A successful checkpoint of the segment, outside a transition's markers.
LEMMA CheckpointRecords ==
  ASSUME TypeInv, IdsUnique, Recorded, UNCHANGED <<device, lastInput, now>>,
         phase # "marker", checkpoint_buffered_event
  PROVE  /\ RowsRecorded'
         /\ buffer' = buffer
         /\ buffer # NoEvent => SegmentInOrder(Mine', buffer, lastInput, now, FALSE)
  BY SaveRecords DEF checkpoint_buffered_event, WriteSegment

\* The samples and the markers are events of these kinds.
LEMMA EventKinds ==
  ASSUME TypeInv
  PROVE  LET s == afk_update(now - lastInput)
         IN  /\ LET e == AfkEvent(s.afk, s.at, s.duration)
                IN  /\ e \in Event /\ e.device = device /\ e.status = StatusOf(s.afk)
                    /\ EventOfSample(e, lastInput, now)
                    /\ e.status = "afk" \/ now - lastInput < AfkTimeout
             /\ LET e == AfkEvent(~s.afk, s.at, 0)
                IN  /\ e \in Event /\ e.device = device /\ e.status = StatusOf(~s.afk)
                    /\ EventOfSample(e, lastInput, now)
                    /\ e.status = "afk" \/ now - lastInput >= AfkTimeout
             /\ LET e == AfkEvent(s.afk, s.at + 1, s.duration)
                IN  /\ e \in Event /\ e.status = StatusOf(s.afk)
                    /\ SecondMarker(e, lastInput, now)
<1>1. lastInput \in Nat /\ now \in Nat /\ lastInput <= now /\ device \in DeviceId
      /\ AfkTimeout \in Nat \ {0}
  BY StateTypes, ConstantBounds DEF Bounds, TypeInv, TypeOK
<1>2. CASE now - lastInput >= AfkTimeout
  BY <1>1, <1>2, SampleTaken DEF AfkEvent, StatusOf, Event, Status, EventOfSample, SecondMarker
<1>3. CASE now - lastInput < AfkTimeout
  BY <1>1, <1>3, SampleTaken DEF AfkEvent, StatusOf, Event, Status, EventOfSample, SecondMarker
<1> QED
  BY <1>1, <1>2, <1>3

-----------------------------------------------------------------------------
(***************************************************************************)
(* Every step keeps the invariant: one step of the proof per action.       *)
(***************************************************************************)
Inside == {"marker", "save"}

\* A step that at most thins the journal keeps it, when it leaves the segment
\* and the transition alone or forgets them.
LEMMA QuietRecords ==
  ASSUME TypeInv, Recorded, UNCHANGED <<device, lastInput, now>>,
         \/ rows' = rows
         \/ rows' \in {event_store_mark_sent(rows, sending.id),
                       event_store_discard_pending(rows, device),
                       event_store_prune(rows, now - Retention)},
         \/ UNCHANGED <<buffer, afk, sample, phase>>
         \/ UNCHANGED <<buffer, afk>> /\ phase \notin Inside /\ phase' \notin Inside
         \/ buffer' = NoEvent /\ afk' = FALSE /\ phase' \notin Inside
  PROVE  Recorded'
<1>1. /\ \A d : Thinned(KeptRows(rows', d), KeptRows(rows, d))
      /\ \A r \in rows' : \E q \in rows : q.device = r.device
  <2>1. CASE rows' = rows
    BY <2>1 DEF Thinned
  <2>2. CASE rows' \in {event_store_mark_sent(rows, sending.id),
                        event_store_discard_pending(rows, device),
                        event_store_prune(rows, now - Retention)}
    <3>1. rows \subseteq Row
      BY StateTypes
    <3>2. CASE rows' = event_store_mark_sent(rows, sending.id)
      BY <3>1, <3>2, StatementsThin
    <3>3. CASE rows' = event_store_discard_pending(rows, device)
      BY <3>1, <3>3, StatementsThin
    <3>4. CASE rows' = event_store_prune(rows, now - Retention)
      BY <3>1, <3>4, StatementsThin
    <3> QED
      BY <2>2, <3>2, <3>3, <3>4
  <2> QED
    BY <2>1, <2>2
<1>2. Thinned(Mine', Mine)
  BY <1>1 DEF Mine
<1>3. RowsInOrder(Mine', lastInput, now)
  BY <1>2, ThinnedInOrder DEF Recorded, RowsRecorded
<1>4. ASSUME NEW d PROVE NoOverlap(KeptRows(rows', d))
  <2> DEFINE K == KeptRows(rows, d)
             Q == KeptRows(rows', d)
  <2>1. Thinned(Q, K) /\ NoOverlap(K)
    BY <1>1 DEF Recorded, RowsRecorded
  <2> HIDE DEF K, Q
  <2>2. ASSUME NEW p \in Q, NEW q \in Q, p.id # q.id, p.status = q.status
        PROVE  Lower(p.end, q.end) <= Higher(p.start, q.start)
    <3>1. PICK r \in K : r.id = q.id /\ r.status = q.status /\ r.start = q.start /\ r.end = q.end
      BY <2>1 DEF Thinned
    <3>2. PICK s \in K : s.id = p.id /\ s.status = p.status /\ s.start = p.start /\ s.end = p.end
      BY <2>1 DEF Thinned
    <3> QED
      BY <2>1, <2>2, <3>1, <3>2 DEF NoOverlap
  <2>3. NoOverlap(Q)
    BY <2>2 DEF NoOverlap
  <2> QED
    BY <2>3 DEF Q
<1>5. RowsRecorded'
  BY <1>1, <1>3, <1>4 DEF RowsRecorded, Recorded
<1>6. SegmentRecorded' /\ StatusFollows'
  <2>1. SegmentRecorded /\ StatusFollows
    BY DEF Recorded
  <2>2. ASSUME buffer' = buffer, buffer # NoEvent, (phase = "marker") = (phase' = "marker")
        PROVE  SegmentInOrder(Mine', buffer', lastInput', now', phase' = "marker")
    <3> DEFINE inside == phase = "marker"
    <3>1. SegmentInOrder(Mine, buffer, lastInput, now, inside)
      BY <2>1, <2>2 DEF SegmentRecorded
    <3>2. inside = (phase' = "marker")
      BY <2>2
    <3> HIDE DEF inside
    <3>3. SegmentInOrder(Mine', buffer, lastInput, now, inside)
      BY <1>2, <3>1, ThinnedKeepsSegment
    <3>4. lastInput' = lastInput /\ now' = now
      OBVIOUS
    <3> QED
      BY <2>2, <3>2, <3>3, <3>4
  <2>3. CASE UNCHANGED <<buffer, afk, sample, phase>>
    BY <2>1, <2>2, <2>3 DEF SegmentRecorded, StatusFollows, afk_update
  <2>4. CASE UNCHANGED <<buffer, afk>> /\ phase \notin Inside /\ phase' \notin Inside
    BY <2>1, <2>2, <2>4 DEF SegmentRecorded, StatusFollows, Inside
  <2>5. CASE buffer' = NoEvent /\ afk' = FALSE /\ phase' \notin Inside
    BY <2>5 DEF SegmentRecorded, StatusFollows, Inside
  <2> QED
    BY <2>3, <2>4, <2>5
<1> QED
  BY <1>5, <1>6 DEF Recorded

\* So does a checkpoint outside a transition.
LEMMA CheckpointRecorded ==
  ASSUME TypeInv, IdsUnique, Recorded, UNCHANGED <<device, lastInput, now>>,
         checkpoint_buffered_event, phase \notin Inside, phase' \notin Inside, afk' = afk
  PROVE  Recorded'
<1>1. /\ RowsRecorded' /\ buffer' = buffer
      /\ buffer # NoEvent => SegmentInOrder(Mine', buffer, lastInput, now, FALSE)
  BY CheckpointRecords DEF Inside
<1>2. SegmentRecorded'
  BY <1>1, OrderWeakens DEF SegmentRecorded
<1>3. StatusFollows'
  BY <1>1 DEF Recorded, StatusFollows, Inside
<1> QED
  BY <1>1, <1>2, <1>3 DEF Recorded

LEMMA SampleSameRecorded ==
  ASSUME TypeInv, IdsUnique, Recorded, ~Fails, SampleSameStatus
  PROVE  Recorded'
<1> DEFINE s == afk_update(now - lastInput)
           e == AfkEvent(s.afk, s.at, s.duration)
<1>1. /\ e \in Event /\ e.device = device /\ e.status = StatusOf(s.afk)
      /\ EventOfSample(e, lastInput, now)
      /\ e.status = "afk" \/ now - lastInput < AfkTimeout
  BY EventKinds
<1>2. /\ s.afk = afk /\ (buffer_afk_event(e) \/ BufferingFails(e))
      /\ phase = "sample" /\ phase' = "checkpoint" /\ afk' = afk
      /\ UNCHANGED <<device, lastInput, now>>
  BY DEF SampleSameStatus, outside, world
<1> HIDE DEF s, e
<1>3. buffer_afk_event(e)
  BY <1>2 DEF BufferingFails, CheckpointFails
<1>4. /\ RowsRecorded' /\ buffer' # NoEvent /\ buffer'.status = e.status
      /\ SegmentInOrder(Mine', buffer', lastInput, now, FALSE)
  BY <1>1, <1>2, <1>3, SampleRecords
<1>5. SegmentRecorded' /\ StatusFollows'
  BY <1>1, <1>2, <1>4, OrderWeakens DEF SegmentRecorded, StatusFollows
<1> QED
  BY <1>4, <1>5 DEF Recorded

LEMMA SampleNewRecorded ==
  ASSUME TypeInv, IdsUnique, Recorded, ~Fails, SampleNewStatus
  PROVE  Recorded'
<1> DEFINE s == afk_update(now - lastInput)
           e == AfkEvent(afk, s.at, 0)
<1>0. s.afk \in BOOLEAN /\ afk \in BOOLEAN /\ s.afk # afk
  BY SampleType DEF Sample, TypeInv, TypeOK, SampleNewStatus
<1>1. /\ e \in Event /\ e.device = device /\ e.status = StatusOf(afk)
      /\ EventOfSample(e, lastInput, now)
  <2>1. afk = ~s.afk
    BY <1>0
  <2> HIDE DEF s
  <2> QED
    BY <2>1, EventKinds DEF s
<1>2. /\ \/ buffer_afk_event(e) /\ phase' = "marker" /\ sample' = s
         \/ BufferingFails(e)
      /\ phase = "sample" /\ afk' = afk
      /\ UNCHANGED <<device, lastInput, now>>
  BY DEF SampleNewStatus, outside, world
<1> HIDE DEF e
<1>3. buffer_afk_event(e) /\ phase' = "marker" /\ sample' = s
  BY <1>2 DEF BufferingFails, CheckpointFails
<1>4. /\ RowsRecorded' /\ buffer' # NoEvent /\ buffer'.status = e.status
      /\ SegmentInOrder(Mine', buffer', lastInput, now, TRUE)
  BY <1>1, <1>2, <1>3, SampleRecords
<1>5. SegmentRecorded'
  BY <1>2, <1>3, <1>4 DEF SegmentRecorded
<1>6. (sample = afk_update(now - lastInput))'
  BY <1>2, <1>3 DEF afk_update
<1> HIDE DEF s
<1>7. StatusFollows'
  <2>1. sample'.afk # afk'
    BY <1>0, <1>2, <1>3, Zenon
  <2>2. buffer'.status = StatusOf(afk')
    BY <1>1, <1>2, <1>4
  <2> QED
    BY <1>3, <1>4, <1>6, <2>1, <2>2 DEF StatusFollows
<1> QED
  BY <1>4, <1>5, <1>7 DEF Recorded

LEMMA MarkNewRecorded ==
  ASSUME TypeInv, IdsUnique, Recorded, ~Fails, MarkNewStatus
  PROVE  Recorded'
<1> DEFINE s == afk_update(now - lastInput)
           e == AfkEvent(s.afk, s.at + 1, s.duration)
<1>0. /\ s.afk \in BOOLEAN /\ afk \in BOOLEAN /\ s = sample /\ s.afk # afk
      /\ buffer # NoEvent /\ buffer.status = StatusOf(afk)
  BY SampleType DEF Sample, TypeInv, TypeOK, MarkNewStatus, Recorded, StatusFollows
<1>1. e \in Event /\ e.status = StatusOf(s.afk) /\ SecondMarker(e, lastInput, now)
  BY EventKinds
<1>2. /\ \/ buffer_afk_event(e) /\ phase' = "save" /\ sample' = sample
         \/ BufferingFails(e)
      /\ phase = "marker" /\ afk' = afk
      /\ UNCHANGED <<device, lastInput, now>>
  BY <1>0 DEF MarkNewStatus, outside, world
<1>3. sample' = sample => (sample = afk_update(now - lastInput))'
  BY <1>0, <1>2 DEF afk_update
<1> HIDE DEF e, s
<1>4. buffer_afk_event(e) /\ phase' = "save" /\ sample' = sample
  BY <1>2 DEF BufferingFails, CheckpointFails
<1>5. buffer.status # e.status
  BY <1>0, <1>1 DEF StatusOf
<1>6. /\ RowsRecorded' /\ buffer' # NoEvent /\ buffer' = e
      /\ SegmentInOrder(Mine', buffer', lastInput, now, FALSE)
  BY <1>1, <1>2, <1>4, <1>5, MarkerRecords
<1>7. SegmentRecorded'
  BY <1>2, <1>4, <1>6, OrderWeakens DEF SegmentRecorded
<1>8. StatusFollows'
  <2>1. buffer'.status = StatusOf(sample'.afk)
    BY <1>0, <1>1, <1>4, <1>6, Zenon
  <2> QED
    BY <1>3, <1>4, <1>6, <2>1 DEF StatusFollows
<1> QED
  BY <1>6, <1>7, <1>8 DEF Recorded

LEMMA SaveTransitionRecorded ==
  ASSUME TypeInv, IdsUnique, Recorded, ~Fails, SaveTransition
  PROVE  Recorded'
<1>1. /\ phase = "save" /\ phase' = "checkpoint"
      /\ checkpoint_buffered_event /\ afk' = sample.afk
      /\ UNCHANGED <<device, lastInput, now>>
  BY DEF SaveTransition, CheckpointFails, outside, world
<1>2. /\ RowsRecorded' /\ buffer' = buffer
      /\ buffer # NoEvent => SegmentInOrder(Mine', buffer, lastInput, now, FALSE)
  BY <1>1, CheckpointRecords
<1>3. SegmentRecorded' /\ StatusFollows'
  BY <1>1, <1>2, OrderWeakens DEF Recorded, SegmentRecorded, StatusFollows
<1> QED
  BY <1>2, <1>3 DEF Recorded

LEMMA TickRecorded ==
  ASSUME TypeInv, Recorded, Tick
  PROVE  Recorded'
<1>1. /\ Mine \subseteq Row /\ lastInput \in Nat /\ now \in Nat /\ lastInput <= now
      /\ buffer # NoEvent => buffer \in Event
  BY StateTypes
<1>2. /\ now' = now + 1 /\ lastInput' \in {lastInput, now + 1}
      /\ phase \notin Inside /\ phase' = phase
      /\ UNCHANGED <<rows, device, buffer, afk, sample>>
  BY DEF Tick, journal, memory, segment, locals, Inside
<1>3. Mine' = Mine
  BY <1>2 DEF Mine
<1>4. /\ RowsInOrder(Mine, lastInput', now + 1)
      /\ \A b \in Event : SegmentInOrder(Mine, b, lastInput, now, FALSE) =>
                          SegmentInOrder(Mine, b, lastInput', now + 1, FALSE)
  BY <1>1, <1>2, TimePasses DEF Recorded, RowsRecorded
<1>5. RowsRecorded'
  BY <1>2, <1>3, <1>4 DEF Recorded, RowsRecorded
<1>6. SegmentRecorded'
  <2> SUFFICES ASSUME buffer # NoEvent
               PROVE  SegmentInOrder(Mine, buffer, lastInput', now + 1, FALSE)
    BY <1>2, <1>3 DEF SegmentRecorded, Inside
  <2>1. SegmentInOrder(Mine, buffer, lastInput, now, FALSE)
    BY <1>2 DEF Recorded, SegmentRecorded, Inside
  <2> QED
    BY <1>1, <1>4, <2>1
<1>7. StatusFollows'
  BY <1>2 DEF Recorded, StatusFollows, Inside
<1> QED
  BY <1>5, <1>6, <1>7 DEF Recorded

\* A new device has no rows yet.
LEMMA LoginRecorded ==
  ASSUME TypeInv, Recorded, Login
  PROVE  Recorded'
<1>1. /\ phase = "off" /\ device' = device + 1
      /\ UNCHANGED <<rows, phase, buffer, afk, sample, lastInput, now>>
  BY DEF Login, journal, memory, segment, locals
<1>2. buffer = NoEvent
  BY <1>1 DEF TypeInv, Consistent
<1>3. /\ device \in Nat /\ \A r \in rows : r.device \in Nat /\ r.device <= device
  BY StateTypes DEF Recorded, RowsRecorded, Row, DeviceId
<1>4. Mine' = {}
  BY <1>1, <1>3 DEF Mine, KeptRows
<1>5. RowsRecorded'
  BY <1>1, <1>3, <1>4 DEF Recorded, RowsRecorded, RowsInOrder, LateIsLatest, NoOverlap
<1>6. SegmentRecorded' /\ StatusFollows'
  BY <1>1, <1>2 DEF Recorded, SegmentRecorded, StatusFollows
<1> QED
  BY <1>5, <1>6 DEF Recorded

LEMMA RecordingStep == TypeInv /\ IdsUnique /\ RecordingInv /\ [Next]_vars => RecordingInv'
<1> SUFFICES ASSUME TypeInv, IdsUnique, Recorded, ~Fails, [Next]_vars
             PROVE  Recorded'
  BY NothingFailed DEF RecordingInv
<1> USE DEF journal, segment, memory, locals, world, outside, Inside
<1>1. CASE StartSession \/ Poll
  BY <1>1, QuietRecords DEF StartSession, Poll
<1>2. CASE StartFails
  BY <1>2 DEF StartFails
<1>3. CASE OpenBucket \/ SkipSample \/ EnsureBucket \/ ReadPending
  BY <1>3, QuietRecords DEF OpenBucket, SkipSample, EnsureBucket, ReadPending
<1>4. CASE SampleSameStatus \/ SampleNewStatus \/ MarkNewStatus \/ SaveTransition
  BY <1>4, SampleSameRecorded, SampleNewRecorded, MarkNewRecorded, SaveTransitionRecorded
<1>5. CASE PeriodicCheckpoint
  <2>1. /\ phase = "checkpoint" /\ phase' \in {"wait", "replay", "bucket"}
        /\ UNCHANGED <<device, lastInput, now, afk>>
    BY <1>5 DEF PeriodicCheckpoint, EndOrFlush
  <2>2. CASE UNCHANGED <<journal, segment>>
    BY <2>1, <2>2, QuietRecords
  <2>3. CASE checkpoint_buffered_event
    BY <2>1, <2>3, CheckpointRecorded
  <2> QED
    BY <1>5, <2>2, <2>3 DEF PeriodicCheckpoint, CheckpointFails
<1>6. CASE ReplayDone \/ ReadPendingFails \/ PostRow \/ PostRowFails
  BY <1>6, QuietRecords DEF ReplayDone, ReadPendingFails, PostRow, PostRowFails, PollEnds
<1>7. CASE MarkSent \/ MarkSentFails \/ RequestEnds \/ Unauthorized
  BY <1>7, QuietRecords DEF MarkSent, MarkSentFails, RequestEnds, Unauthorized, PollEnds
<1>8. CASE CheckpointLast
  <2>1. /\ phase = "invalidate" /\ phase' = "discard" /\ checkpoint_buffered_event
        /\ UNCHANGED <<device, lastInput, now, afk>>
    BY <1>8 DEF CheckpointLast, CheckpointFails
  <2> QED
    BY <2>1, CheckpointRecorded
<1>9. CASE DiscardPending
  BY <1>9, QuietRecords DEF DiscardPending, ForgetMemory
<1>10. CASE tracker_session_cleanup
  <2>1. /\ SaveSegment /\ buffer' = NoEvent /\ afk' = FALSE /\ phase' = "off"
        /\ UNCHANGED <<device, lastInput, now>>
    BY <1>10 DEF tracker_session_cleanup, ForgetMemory
  <2>2. RowsRecorded'
    BY <2>1, SaveRecords
  <2>3. SegmentRecorded' /\ StatusFollows'
    BY <2>1 DEF SegmentRecorded, StatusFollows
  <2> QED
    BY <2>2, <2>3 DEF Recorded
<1>11. CASE tracker_session_tracked_today \/ Crash
  BY <1>11, QuietRecords DEF tracker_session_tracked_today, Crash, ForgetMemory
<1>12. CASE Tick
  BY <1>12, TickRecorded
<1>13. CASE Login
  BY <1>13, LoginRecorded
<1>14. CASE Revoke \/ tracker_discard_pending_events
  BY <1>14, QuietRecords DEF Revoke, tracker_discard_pending_events
<1>15. CASE UNCHANGED vars
  BY <1>15, QuietRecords DEF vars
<1> QED
  BY <1>1, <1>2, <1>3, <1>4, <1>5, <1>6, <1>7, <1>8, <1>9, <1>10, <1>11, <1>12, <1>13,
     <1>14, <1>15
  DEF Next, Session, Owner, World

LEMMA RecordingInit == Init => RecordingInv
<1> SUFFICES ASSUME Init PROVE Recorded
  BY DEF RecordingInv
<1>1. rows = {} /\ buffer = NoEvent /\ afk = FALSE /\ phase = "off"
  BY DEF Init
<1>2. \A d : KeptRows(rows, d) = {}
  BY <1>1 DEF KeptRows
<1>3. RowsRecorded
  BY <1>1, <1>2 DEF RowsRecorded, RowsInOrder, LateIsLatest, NoOverlap, Mine
<1> QED
  BY <1>1, <1>3 DEF Recorded, SegmentRecorded, StatusFollows

\* However sessions stop, crash, restart and change devices, two rows of one
\* device and status that are not discarded never hold the same stretch of
\* time, as long as no transaction fails.
THEOREM RecordedOnce == Spec => []NoTimeRecordedTwice
<1>1. Init => IdsUnique
  BY DEF Init, IdsUnique
<1> QED
  BY <1>1, RecordingInit, RecordingStep, IdsStep, InitType, StepType, RecordedTwice, PTL
  DEF Spec
=============================================================================
