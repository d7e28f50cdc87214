-------------------------------- MODULE Reports --------------------------------
(***************************************************************************)
(* What the server answers from its activity log (src/server/reports.ts):  *)
(* the time every user was active on one day, and the events of one user   *)
(* in a range.  A request is checked against the retention window first,   *)
(* and the query runs a while later, when midnight may have passed and     *)
(* heartbeats and the cleanup have changed the table.                      *)
(***************************************************************************)
EXTENDS Activity, FiniteSetsExt

CONSTANT ReportDelay    \* bound: from the check of a range to its query

ASSUME ReportsAssumption == ReportDelay \in 0 .. CleanupAt

assertRangeWithinRetention(start, end, today) ==
  retentionWindow(today).start <= start /\ end <= retentionWindow(today).end

\* The days on which a request whose query runs now can have been checked.
CheckedOn == {midnight} \cup IF now - ReportDelay < midnight THEN {midnight - Day} ELSE {}

Admitted(start, end) == \E today \in CheckedOn : assertRangeWithinRetention(start, end, today)

-----------------------------------------------------------------------------
\* Mutant: only the rows that begin in the range.
BeginsWithin(u, start, end) ==
  {r \in rows : r.user = u /\ start <= r.start /\ r.start < end}

Overlapping(u, start, end) ==
  {r \in rows : r.user = u /\ r.start < end /\ r.end > start}

\* SUM(LEAST(end_at, end) - GREATEST(start_at, start)) over the active rows.
usersForDay(start, end) ==
  [u \in Users |->
     MapThenSumSet(LAMBDA r : Earlier(r.end, end) - Later(r.start, start),
                   {r \in Overlapping(u, start, end) : r.status = "not-afk"})]

eventsForHostname(u, start, end) == Overlapping(u, start, end)

-----------------------------------------------------------------------------
Acknowledged(u, start, end) == {h \in stored : h.user = u /\ h.start < end /\ h.end > start}

\* The ticks in which the heartbeats answered with OK say that u was active.
ActiveTicks(u, start, end) ==
  {t \in start .. end - 1 :
     \E h \in Acknowledged(u, start, end) :
       h.status = "not-afk" /\ h.start <= t /\ t < h.end}

\* The daily report counts all the active time that was acknowledged for a day
\* of the retention window, although the day may have left the window since
\* the range was checked, and rows cross midnight.
ReportCountsAcknowledged ==
  \A start \in {t \in 0 .. MaxNow : t % Day = 0} :
    Admitted(start, start + Day) =>
      \A u \in Users :
        usersForDay(start, start + Day)[u] >= Cardinality(ActiveTicks(u, start, start + Day))

\* The timeline of a user shows every heartbeat that was acknowledged in a
\* range inside the retention window.
TimelineComplete ==
  \A u \in Users, start, end \in 0 .. MaxNow :
    Admitted(start, end) =>
      \A h \in Acknowledged(u, start, end) :
        \E r \in eventsForHostname(u, start, end) : Covers(r, h)
=============================================================================
