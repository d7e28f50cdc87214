------------------------------- MODULE Activity -------------------------------
(***************************************************************************)
(* The server's activity log (src/server/activity.ts, cleanup.ts,          *)
(* retention.ts): the table afk_events, the transaction that records one   *)
(* heartbeat, and the daily cleanup.  What is read from it is in Reports.  *)
(*                                                                         *)
(* Any number of heartbeats of one user can be in progress at once: the    *)
(* client gives a request up after its timeout and sends the row again     *)
(* while the server still works on the first.  Each runs in a transaction  *)
(* of its own at PostgreSQL's default isolation, READ COMMITTED.  Its      *)
(* SELECT ... ORDER BY ... LIMIT 1 FOR UPDATE has two moments: a snapshot  *)
(* of the committed rows is sorted, and then rows are locked in that       *)
(* order.  Locking waits for the transaction that holds the row, yields    *)
(* its newest committed version, and passes over a row deleted since; rows *)
(* committed since the snapshot are not seen.                              *)
(***************************************************************************)
EXTENDS Integers, FiniteSets

CONSTANTS
  Users,          \* accounts
  Workers,        \* heartbeats that can be in progress at one time
  MergeWindow,    \* config.mergeWindowSeconds
  Day,            \* ticks of a day
  RetainedDays,   \* RETAINED_CALENDAR_DAYS
  CleanupAt,      \* time of day of ACTIVITY_CLEANUP_SCHEDULE
  Ticks,          \* bound: the times a heartbeat can name
  MaxNow,         \* bound on the clock
  MaxRequests     \* bound: heartbeats sent

ASSUME ActivityAssumption ==
  /\ MergeWindow \in Nat
  /\ Day \in Nat /\ RetainedDays \in Nat \ {0} /\ CleanupAt \in 1 .. Day - 1
  /\ Ticks \subseteq Nat
  /\ MaxRequests \in Nat

VARIABLES
  rows,           \* afk_events, as committed
  nextId,         \* the BIGSERIAL sequence of its ids
  pc,             \* where each transaction is: "idle", "lock" or "write"
  heartbeat,      \* the heartbeat each transaction records
  snapshot,       \* the rows its SELECT sorts
  latest,         \* the row its SELECT returned and locked: one or none
  stored,         \* the heartbeats answered with OK
  requests,       \* heartbeats sent so far
  now, midnight   \* the server's clock; the start of its day in GMT+7

transactions == <<pc, heartbeat, snapshot, latest>>
clock == <<now, midnight>>
vars == <<rows, nextId, transactions, stored, requests, clock>>

AfkStatus == {"afk", "not-afk"}

\* A heartbeat that passed the validation: malformed ones change nothing.
Heartbeat == {h \in [user : Users, status : AfkStatus, start : Nat, end : Nat] :
                h.start <= h.end}

Heartbeats == {h \in [user : Users, status : AfkStatus, start : Ticks, end : Ticks] :
                 h.start <= h.end}

NoHeartbeat == [status |-> "none"]

AfkEventRecord == {r \in [id : Nat \ {0}, user : Users, status : AfkStatus,
                          start : Nat, end : Nat] : r.start <= r.end}

Earlier(a, b) == IF a < b THEN a ELSE b
Later(a, b) == IF a > b THEN a ELSE b

intervalGapMs(a, b) == Later(Later(b.start - a.end, a.start - b.end), 0)

Covers(r, h) ==
  r.user = h.user /\ r.status = h.status /\ r.start <= h.start /\ h.end <= r.end

TypeOK ==
  /\ rows \subseteq AfkEventRecord
  /\ nextId \in Nat \ {0}
  /\ pc \in [Workers -> {"idle", "lock", "write"}]
  /\ heartbeat \in [Workers -> Heartbeat \cup {NoHeartbeat}]
  /\ snapshot \in [Workers -> SUBSET AfkEventRecord]
  /\ latest \in [Workers -> SUBSET AfkEventRecord]
  /\ stored \subseteq Heartbeat
  /\ requests \in Nat
  /\ now \in Nat /\ midnight \in Nat

Init ==
  /\ rows = {} /\ nextId = 1
  /\ pc = [w \in Workers |-> "idle"]
  /\ heartbeat = [w \in Workers |-> NoHeartbeat]
  /\ snapshot = [w \in Workers |-> {}]
  /\ latest = [w \in Workers |-> {}]
  /\ stored = {} /\ requests = 0
  /\ now = 0 /\ midnight = 0

-----------------------------------------------------------------------------
(***************************************************************************)
(* heartbeat: the transaction.                                             *)
(***************************************************************************)
\* A heartbeat arrives, its transaction begins and takes its snapshot.
Select(w) ==
  /\ pc[w] = "idle"
  /\ requests < MaxRequests
  /\ requests' = requests + 1
  /\ \E h \in Heartbeats :
       /\ heartbeat' = [heartbeat EXCEPT ![w] = h]
       /\ snapshot' = [snapshot EXCEPT ![w] = {r \in rows : r.user = h.user}]
  /\ pc' = [pc EXCEPT ![w] = "lock"]
  /\ UNCHANGED <<rows, nextId, latest, stored, clock>>

\* ORDER BY end_at DESC, start_at DESC, id DESC.
SortsBefore(q, r) ==
  \/ q.end > r.end
  \/ q.end = r.end /\ q.start > r.start
  \/ q.end = r.end /\ q.start = r.start /\ q.id > r.id

\* The first row of the sorted snapshot that still exists.
FirstOf(rowsSeen) ==
  LET Alive == {r \in rowsSeen : \E c \in rows : c.id = r.id}
  IN  {r \in Alive : \A q \in Alive : ~SortsBefore(q, r)}

Locked(id) == \E v \in Workers : \E r \in latest[v] : r.id = id

\* Mutant: the SELECT takes no lock and returns what the snapshot holds.
ReadUnlocked(w) ==
  /\ pc[w] = "lock"
  /\ latest' = [latest EXCEPT ![w] = FirstOf(snapshot[w])]
  /\ pc' = [pc EXCEPT ![w] = "write"]
  /\ snapshot' = [snapshot EXCEPT ![w] = {}]
  /\ UNCHANGED <<rows, nextId, heartbeat, stored, requests, clock>>

Lock(w) ==
  /\ pc[w] = "lock"
  /\ LET chosen == {c \in rows : \E r \in FirstOf(snapshot[w]) : c.id = r.id}
     IN  /\ \A c \in chosen : ~Locked(c.id)
         /\ latest' = [latest EXCEPT ![w] = chosen]
  /\ pc' = [pc EXCEPT ![w] = "write"]
  /\ snapshot' = [snapshot EXCEPT ![w] = {}]
  /\ UNCHANGED <<rows, nextId, heartbeat, stored, requests, clock>>

\* The row the heartbeat is merged into, when it is close enough.
Mergeable(row, h) ==
  {l \in row : l.status = h.status /\ intervalGapMs(l, h) <= MergeWindow}

\* Mutants: the row takes over the heartbeat's end; the bounds are swapped.
ExtendTo(r, l, h) ==
  [r EXCEPT !.start = Earlier(l.start, h.start), !.end = h.end]
ExtendSwapped(r, l, h) ==
  [r EXCEPT !.start = Later(l.start, h.start), !.end = Earlier(l.end, h.end)]

\* repository.update: the bounds are computed from the version read.
Extend(r, l, h) ==
  [r EXCEPT !.start = Earlier(l.start, h.start), !.end = Later(l.end, h.end)]

\* The transaction is over; its lock is released.
Ends(w) ==
  /\ pc' = [pc EXCEPT ![w] = "idle"]
  /\ heartbeat' = [heartbeat EXCEPT ![w] = NoHeartbeat]
  /\ snapshot' = [snapshot EXCEPT ![w] = {}]
  /\ latest' = [latest EXCEPT ![w] = {}]

Update(w) ==
  /\ pc[w] = "write"
  /\ \E l \in Mergeable(latest[w], heartbeat[w]) :
       rows' = {IF r.id = l.id THEN Extend(r, l, heartbeat[w]) ELSE r : r \in rows}
  /\ stored' = stored \cup {heartbeat[w]}
  /\ Ends(w)
  /\ UNCHANGED <<nextId, requests, clock>>

Insert(w) ==
  /\ pc[w] = "write"
  /\ Mergeable(latest[w], heartbeat[w]) = {}
  /\ LET h == heartbeat[w]
     IN  rows' = rows \cup {[id |-> nextId, user |-> h.user, status |-> h.status,
                             start |-> h.start, end |-> h.end]}
  /\ nextId' = nextId + 1
  /\ stored' = stored \cup {heartbeat[w]}
  /\ Ends(w)
  /\ UNCHANGED <<requests, clock>>

\* A query fails or the server dies: PostgreSQL rolls the transaction back,
\* but an id drawn from the sequence is not returned.
Abort(w) ==
  /\ pc[w] # "idle"
  /\ \/ UNCHANGED nextId
     \/ /\ pc[w] = "write" /\ Mergeable(latest[w], heartbeat[w]) = {}
        /\ nextId' = nextId + 1
  /\ Ends(w)
  /\ UNCHANGED <<rows, stored, requests, clock>>

-----------------------------------------------------------------------------
(***************************************************************************)
(* The days that are kept, and the daily cleanup.                          *)
(***************************************************************************)
\* The last RetainedDays days, today included.
retentionWindow(today) ==
  [start |-> today - (RetainedDays - 1) * Day, end |-> today + Day]

\* Mutant: a row goes with the day it begins in.
ExpiredByStart(cutoff) == {r \in rows : r.start < cutoff}

Expired(cutoff) == {r \in rows : r.end < cutoff}

\* Mutant: the job runs as soon as the day begins.
CleanupAtMidnight ==
  LET cutoff == retentionWindow(midnight).start
  IN  /\ rows' = rows \ Expired(cutoff)
      /\ UNCHANGED <<nextId, transactions, stored, requests, clock>>

\* The job of 01:00, which can run late or not at all: DELETE ... WHERE
\* end_at < cutoff.  A row that a heartbeat has locked is waited for and looked
\* at again.
cleanupExpiredActivity ==
  LET cutoff == retentionWindow(midnight).start
  IN  /\ now - midnight >= CleanupAt
      /\ Expired(cutoff) # {}
      /\ \A r \in Expired(cutoff) : ~Locked(r.id)
      /\ rows' = rows \ Expired(cutoff)
      /\ UNCHANGED <<nextId, transactions, stored, requests, clock>>

Tick ==
  /\ now < MaxNow
  /\ now' = now + 1
  /\ midnight' = IF now + 1 = midnight + Day THEN now + 1 ELSE midnight
  /\ UNCHANGED <<rows, nextId, transactions, stored, requests>>

Next ==
  \/ \E w \in Workers : Select(w) \/ Lock(w) \/ Update(w) \/ Insert(w) \/ Abort(w)
  \/ cleanupExpiredActivity \/ Tick

Spec == Init /\ [][Next]_vars

-----------------------------------------------------------------------------
(***************************************************************************)
(* Properties.                                                             *)
(***************************************************************************)
\* What ended before this may have been deleted: a day that falls out of the
\* window at midnight is kept until the job of 01:00.
Cutoff ==
  retentionWindow(IF now - midnight < CleanupAt THEN midnight - Day ELSE midnight).start

\* The time of a heartbeat answered with OK is in one row of its user and
\* status until it expires: no concurrent transaction writes over it and the
\* cleanup takes no part of it early.
AcknowledgedIsStored ==
  \A h \in stored : h.end >= Cutoff => \E r \in rows : Covers(r, h)

\* A row is never moved to another user or status and never shrinks: a late
\* or repeated heartbeat, or one computed from an older version of the row,
\* takes nothing away.
RowsOnlyGrow ==
  [][\A r \in rows, q \in rows' : q.id = r.id => Covers(q, r)]_vars

\* README of the server: "writes are serialized per user so concurrent first
\* heartbeats cannot create duplicate rows": two heartbeats of one user and
\* status that overlap do not become two rows.
NoDuplicateRows ==
  \A r, q \in rows :
    r.user = q.user /\ r.status = q.status /\ intervalGapMs(r, q) = 0 => r = q
=============================================================================
