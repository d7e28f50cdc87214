------------------------------ MODULE TrayProofs ------------------------------
(***************************************************************************)
(* The total of tracked seconds that the tray shows, against what the      *)
(* journal counts: the theorems about it, for every value of the           *)
(* constants.                                                              *)
(*                                                                         *)
(* event_store_tracked_seconds reads a table row by row in the order of    *)
(* the ids.  Two tables are compared by running their loops side by side:  *)
(* a relation between the two loops is kept by every turn, and at the end  *)
(* it bounds one total by the other.                                       *)
(***************************************************************************)
EXTENDS TrackerProofs, FiniteSetTheorems

\* Induction up to N, for a property given as a set of numbers.
LEMMA UpToInduction ==
  ASSUME NEW N \in Nat, NEW T, 0 \in T,
         \A i \in 0 .. N : i # N /\ i \in T => i + 1 \in T
  PROVE  0 .. N \subseteq T
<1> DEFINE S       == 0 .. N
           Bad     == {i \in S : i \notin T}
           Lengths == {0 .. i : i \in Bad}
<1> SUFFICES ASSUME Bad # {} PROVE FALSE
  OBVIOUS
<1>1. Lengths \subseteq SUBSET S /\ Lengths # {}
  OBVIOUS
<1>2. IsWellFoundedOn(StrictSubsetOrdering(S), SUBSET S)
  <2>1. IsFiniteSet(S)
    BY FS_Interval
  <2> HIDE DEF S
  <2>2. FiniteSubsetsOf(S) = SUBSET S
    BY <2>1, FS_FiniteSubsetsOfFinite
  <2>3. IsWellFoundedOn(StrictSubsetOrdering(S), FiniteSubsetsOf(S))
    BY FS_StrictSubsetOrderingWellFounded
  <2> QED
    BY <2>2, <2>3
<1>3. PICK U \in Lengths : \A V \in Lengths : ~(<<V, U>> \in StrictSubsetOrdering(S))
  <2> HIDE DEF Lengths, S
  <2> QED
    BY <1>1, <1>2, WFMin
<1>4. PICK i \in Bad : U = 0 .. i
  OBVIOUS
<1>5. i \in Nat /\ i # 0 /\ i - 1 \in S /\ i - 1 # N
  BY <1>4
<1>6. i - 1 \notin T
  BY <1>5, <1>4
<1>7. 0 .. i - 1 \in Lengths
  BY <1>5, <1>6
<1>8. 0 .. i - 1 \subseteq 0 .. i /\ 0 .. i - 1 # 0 .. i /\ 0 .. i \subseteq S
  BY <1>4, <1>5
<1>9. <<0 .. i - 1, 0 .. i>> \in StrictSubsetOrdering(S)
  <2> HIDE DEF S
  <2> QED
    BY <1>8 DEF StrictSubsetOrdering
<1> QED
  BY <1>3, <1>4, <1>7, <1>9

\* The kept row with a given id: one or none.
RowsAt(R, i) == {r \in R : r.id = i /\ ~r.discarded}

\* One turn of the loop, from the turns before it.
Turn(g, i, R, from, to) ==
  IF i = 0 THEN [total |-> 0, open |-> NoSegment]
  ELSE IF RowsAt(R, i) = {} THEN g[i - 1]
  ELSE ReadRow(g[i - 1], CHOOSE r \in RowsAt(R, i) : TRUE, from, to)

Reads(g, R, N, from, to) == g = [i \in 0 .. N |-> Turn(g, i, R, from, to)]

Counted(loop, from, to) == loop.total + tracked_overlap(loop.open, from, to)

LEMMA TotalUnfolds ==
  ASSUME NEW R, NEW N, NEW from, NEW to
  PROVE  event_store_tracked_seconds(R, N, from, to)
           = Counted((CHOOSE g : Reads(g, R, N, from, to))[N], from, to)
  BY DEF event_store_tracked_seconds, Reads, Turn, RowsAt, Counted

\* Two tables that keep the same intervals under the same ids.
KeepSame(R, Q) ==
  \A r \in R : ~r.discarded =>
    \E q \in Q : ~q.discarded /\ q.id = r.id /\ SameInterval(r, q)

IdsOnce(R) == \A r, q \in R : r.id = q.id => r = q

LEMMA SameTotal ==
  ASSUME NEW R, NEW Q, IdsOnce(R), IdsOnce(Q), KeepSame(R, Q), KeepSame(Q, R),
         NEW N, NEW from, NEW to
  PROVE  event_store_tracked_seconds(R, N, from, to)
           = event_store_tracked_seconds(Q, N, from, to)
<1>1. ASSUME NEW g, NEW i
      PROVE  Turn(g, i, R, from, to) = Turn(g, i, Q, from, to)
  <2>1. RowsAt(R, i) = {} <=> RowsAt(Q, i) = {}
    BY DEF RowsAt, KeepSame
  <2>2. CASE RowsAt(R, i) # {}
    <3> DEFINE r == CHOOSE x \in RowsAt(R, i) : TRUE
               q == CHOOSE x \in RowsAt(Q, i) : TRUE
    <3>1. r \in RowsAt(R, i) /\ q \in RowsAt(Q, i)
      BY <2>1, <2>2
    <3> HIDE DEF r, q
    <3>2. SameInterval(r, q)
      BY <3>1 DEF RowsAt, KeepSame, IdsOnce
    <3>3. ReadRow(g[i - 1], r, from, to) = ReadRow(g[i - 1], q, from, to)
      BY <3>2 DEF SameInterval, ReadRow, interval_gap
    <3> QED
      BY <2>1, <2>2, <3>3 DEF Turn, r, q
  <2> QED
    BY <2>1, <2>2 DEF Turn
<1>2. \A g : Reads(g, R, N, from, to) <=> Reads(g, Q, N, from, to)
  BY <1>1 DEF Reads
<1>3. (CHOOSE g : Reads(g, R, N, from, to)) = (CHOOSE g : Reads(g, Q, N, from, to))
  BY <1>2
<1> QED
  BY <1>3, TotalUnfolds

Loop == [total : Nat, open : [status : Status \cup {"none"}, start : Nat, end : Nat]]

LEMMA OverlapType ==
  ASSUME NEW s, s.start \in Int, s.end \in Int, NEW from \in Int, NEW to \in Int
  PROVE  tracked_overlap(s, from, to) \in Nat
  BY DEF tracked_overlap, Higher, Lower

LEMMA TurnType ==
  ASSUME NEW R, R \subseteq Row, NEW from \in Int, NEW to \in Int, NEW g, NEW i \in Nat,
         i # 0 => g[i - 1] \in Loop
  PROVE  Turn(g, i, R, from, to) \in Loop
<1>1. CASE i = 0
  BY <1>1 DEF Turn, Loop, NoSegment
<1>2. CASE i # 0 /\ RowsAt(R, i) = {}
  BY <1>2 DEF Turn
<1>3. CASE i # 0 /\ RowsAt(R, i) # {}
  <2> DEFINE r == CHOOSE x \in RowsAt(R, i) : TRUE
             l == g[i - 1]
  <2>1. r \in Row
    BY <1>3 DEF RowsAt
  <2>2. l \in Loop
    BY <1>3
  <2> HIDE DEF r, l
  <2>3. tracked_overlap(l.open, from, to) \in Nat
    BY <2>2, OverlapType DEF Loop
  <2>4. ReadRow(l, r, from, to) \in Loop
    <3>1. [l EXCEPT !.open.start = Lower(@, r.start), !.open.end = Higher(@, r.end)] \in Loop
      BY <2>1, <2>2 DEF Loop, Row, Lower, Higher
    <3>2. [total |-> l.total + tracked_overlap(l.open, from, to),
           open  |-> [status |-> r.status, start |-> r.start, end |-> r.end]] \in Loop
      BY <2>1, <2>2, <2>3 DEF Loop, Row
    <3> QED
      BY <3>1, <3>2 DEF ReadRow
  <2> QED
    BY <1>3, <2>4 DEF Turn, r, l
<1> QED
  BY <1>1, <1>2, <1>3

\* The loop runs over every table, and its states have their type.
LEMMA ReadsExists ==
  ASSUME NEW R, NEW N \in Nat, NEW from, NEW to
  PROVE  \E g : Reads(g, R, N, from, to)
<1> DEFINE T == {n \in Nat : \E g : Reads(g, R, n, from, to)}
<1>1. 0 \in T
  <2>1. Reads([i \in 0 .. 0 |-> Turn(<<>>, 0, R, from, to)], R, 0, from, to)
    BY DEF Reads, Turn
  <2> QED
    BY <2>1
<1>2. ASSUME NEW n \in 0 .. N, n # N, n \in T
      PROVE  n + 1 \in T
  <2>1. PICK g : Reads(g, R, n, from, to)
    BY <1>2
  <2> DEFINE h == [i \in 0 .. n + 1 |-> IF i = n + 1 THEN Turn(g, i, R, from, to) ELSE g[i]]
  <2>2. ASSUME NEW i \in 0 .. n + 1 PROVE h[i] = Turn(h, i, R, from, to)
    <3>1. i # 0 => i - 1 \in 0 .. n /\ i - 1 # n + 1
      OBVIOUS
    <3>2. i # 0 => h[i - 1] = g[i - 1]
      BY <3>1
    <3>3. Turn(h, i, R, from, to) = Turn(g, i, R, from, to)
      <4> HIDE DEF h
      <4> QED
        BY <3>2 DEF Turn
    <3>4. i # n + 1 => g[i] = Turn(g, i, R, from, to)
      <4> HIDE DEF h
      <4>1. i # n + 1 => i \in 0 .. n
        OBVIOUS
      <4> QED
        BY <2>1, <4>1 DEF Reads
    <3> QED
      BY <3>3, <3>4
  <2>3. Reads(h, R, n + 1, from, to)
    BY <2>2 DEF Reads
  <2> QED
    BY <2>3
<1>3. 0 .. N \subseteq T
  <2> HIDE DEF T
  <2> QED
    BY <1>1, <1>2, UpToInduction
<1> QED
  BY <1>3

LEMMA ReadsType ==
  ASSUME NEW R, R \subseteq Row, NEW N \in Nat, NEW from \in Int, NEW to \in Int,
         NEW g, Reads(g, R, N, from, to)
  PROVE  \A i \in 0 .. N : g[i] \in Loop
<1> DEFINE T == {i \in 0 .. N : g[i] \in Loop}
<1>1. \A i \in 0 .. N : g[i] = Turn(g, i, R, from, to)
  BY DEF Reads
<1>2. 0 \in T
  BY <1>1, TurnType
<1>3. ASSUME NEW i \in 0 .. N, i # N, i \in T
      PROVE  i + 1 \in T
  <2>1. i + 1 \in 0 .. N /\ (i + 1) - 1 = i
    BY <1>3
  <2>2. Turn(g, i + 1, R, from, to) \in Loop
    BY <1>3, <2>1, TurnType
  <2> QED
    BY <1>1, <2>1, <2>2
<1>4. 0 .. N \subseteq T
  <2> HIDE DEF T
  <2> QED
    BY <1>2, <1>3, UpToInduction
<1> QED
  BY <1>4

LEMMA TotalType ==
  ASSUME NEW R, R \subseteq Row, NEW N \in Nat, NEW from \in Int, NEW to \in Int
  PROVE  event_store_tracked_seconds(R, N, from, to) \in Nat
<1> DEFINE g == CHOOSE h : Reads(h, R, N, from, to)
<1>1. Reads(g, R, N, from, to)
  BY ReadsExists
<1> HIDE DEF g
<1>2. g[N] \in Loop
  BY <1>1, ReadsType
<1>3. Counted(g[N], from, to) \in Nat
  BY <1>2, OverlapType DEF Counted, Loop
<1> QED
  BY <1>3, TotalUnfolds DEF g

\* The cached sum was read from a journal that kept at least the rows that are
\* kept now: what a checkpoint adds makes the sum invalid.
TrayInv == today.valid => IdsOnce(today.cached) /\ KeepSame(rows, today.cached)

ThinnedRows ==
  \/ rows' = rows
  \/ rows' \in {event_store_mark_sent(rows, sending.id),
                event_store_discard_pending(rows, device),
                event_store_prune(rows, now - Retention)}

TodayChange ==
  \/ ~today'.valid
  \/ today'.cached = rows /\ rows' = rows
  \/ today'.valid = today.valid /\ today'.cached = today.cached /\ ThinnedRows

LEMMA TodaySaved ==
  ASSUME TypeInv, \/ \E e : buffer_afk_event(e) \/ BufferingFails(e)
                  \/ checkpoint_buffered_event \/ CheckpointFails
  PROVE  TodayChange
<1> USE DEF TodayChange, ThinnedRows, journal, segment
<1>1. /\ \A t : ~Uncached(t).valid
      /\ \A t : [today EXCEPT !.upTo = t].valid = today.valid
      /\ \A t : [today EXCEPT !.upTo = t].cached = today.cached
  BY DEF Uncached, Today, TypeInv, TypeOK
<1>2. CASE \E e : ExtendBuffer(e)
  BY <1>2 DEF ExtendBuffer
<1>3. CASE \E e : ReplaceBuffer(e)
  <2>1. PICK e : ReplaceBuffer(e)
    BY <1>3
  <2>2. CASE dirty
    BY <1>1, <2>1, <2>2 DEF ReplaceBuffer
  <2>3. CASE ~dirty
    BY <1>1, <2>1, <2>3 DEF ReplaceBuffer, WriteSegment, SaveSegment
  <2> QED
    BY <2>2, <2>3
<1>4. CASE checkpoint_buffered_event
  <2>1. CASE dirty
    BY <1>1, <1>4, <2>1 DEF checkpoint_buffered_event
  <2>2. CASE ~dirty
    BY <1>4, <2>2 DEF checkpoint_buffered_event, WriteSegment, SaveSegment
  <2> QED
    BY <2>1, <2>2
<1>5. CASE CheckpointFails
  BY <1>5 DEF CheckpointFails
<1> QED
  BY <1>2, <1>3, <1>4, <1>5 DEF buffer_afk_event, BufferingFails

LEMMA TodayStep == ASSUME TypeInv, [Next]_vars PROVE TodayChange
<1>1. CASE SampleSameStatus \/ SampleNewStatus \/ MarkNewStatus
  BY <1>1, TodaySaved DEF SampleSameStatus, SampleNewStatus, MarkNewStatus
<1>2. CASE SaveTransition \/ CheckpointLast
  BY <1>2, TodaySaved DEF SaveTransition, CheckpointLast
<1>3. CASE PeriodicCheckpoint
  <2>1. CASE checkpoint_buffered_event \/ CheckpointFails
    BY <2>1, TodaySaved
  <2>2. CASE UNCHANGED <<journal, segment>>
    BY <2>2 DEF TodayChange, ThinnedRows, journal, segment
  <2> QED
    BY <1>3, <2>1, <2>2 DEF PeriodicCheckpoint
<1> USE DEF TodayChange, ThinnedRows, journal, segment, memory
<1>4. CASE StartSession \/ StartFails \/ OpenBucket \/ Poll \/ SkipSample
  BY <1>4 DEF StartSession, StartFails, OpenBucket, Poll, SkipSample
<1>5. CASE EnsureBucket \/ ReadPending \/ ReplayDone \/ ReadPendingFails \/ RequestEnds
  BY <1>5 DEF EnsureBucket, ReadPending, ReplayDone, ReadPendingFails, RequestEnds
<1>6. CASE PostRow \/ PostRowFails \/ MarkSent \/ MarkSentFails \/ Unauthorized
  BY <1>6 DEF PostRow, PostRowFails, MarkSent, MarkSentFails, Unauthorized
<1>7. CASE DiscardPending \/ tracker_session_cleanup \/ Crash
  BY <1>7 DEF DiscardPending, tracker_session_cleanup, Crash, ForgetMemory, Uncached
<1>8. CASE tracker_session_tracked_today
  <2>1. today \in Today
    BY DEF TypeInv, TypeOK
  <2>2. today'.cached = rows
    BY <1>8, <2>1 DEF tracker_session_tracked_today, Today
  <2> QED
    BY <1>8, <2>2 DEF tracker_session_tracked_today
<1>9. CASE World \/ UNCHANGED vars
  BY <1>9 DEF World, Tick, Login, Revoke, tracker_discard_pending_events, vars
<1> QED
  BY <1>1, <1>2, <1>3, <1>4, <1>5, <1>6, <1>7, <1>8, <1>9 DEF Next, Session, Owner

\* Rows that are left come from rows that were there.
LEMMA ThinnedFrom ==
  ASSUME TypeInv, ThinnedRows, NEW q \in rows'
  PROVE  \E r \in rows : /\ r.id = q.id /\ SameInterval(q, r)
                        /\ (r.discarded => q.discarded)
<1>1. PICK p \in rows : q \in {p, [p EXCEPT !.sent = TRUE], [p EXCEPT !.discarded = TRUE]}
  BY DEF ThinnedRows, event_store_mark_sent, event_store_discard_pending, event_store_prune
<1>2. p \in Row
  BY DEF TypeInv, TypeOK
<1>3. CASE q = p
  BY <1>3 DEF SameInterval
<1>4. CASE q = [p EXCEPT !.sent = TRUE]
  BY <1>2, <1>4 DEF Row, SameInterval
<1>5. CASE q = [p EXCEPT !.discarded = TRUE]
  BY <1>2, <1>5 DEF Row, SameInterval
<1> QED
  BY <1>1, <1>3, <1>4, <1>5

LEMMA ThinnedKeepsSame ==
  ASSUME TypeInv, ThinnedRows, NEW Q, KeepSame(rows, Q)
  PROVE  KeepSame(rows', Q)
<1> SUFFICES ASSUME NEW r \in rows', ~r.discarded
             PROVE  \E q \in Q : ~q.discarded /\ q.id = r.id /\ SameInterval(r, q)
  BY DEF KeepSame
<1>1. PICK p \in rows : p.id = r.id /\ SameInterval(r, p) /\ ~p.discarded
  BY ThinnedFrom
<1>2. PICK q \in Q : ~q.discarded /\ q.id = p.id /\ SameInterval(p, q)
  BY <1>1 DEF KeepSame
<1> QED
  BY <1>1, <1>2 DEF SameInterval

LEMMA TrayStep == TypeInv /\ IdsUnique /\ TrayInv /\ [Next]_vars => TrayInv'
<1> SUFFICES ASSUME TypeInv, IdsUnique, TrayInv, [Next]_vars, today'.valid
             PROVE  IdsOnce(today'.cached) /\ KeepSame(rows', today'.cached)
  BY DEF TrayInv
<1>1. CASE today'.cached = rows /\ rows' = rows
  BY <1>1 DEF IdsUnique, IdsOnce, KeepSame, SameInterval
<1>2. CASE today'.valid = today.valid /\ today'.cached = today.cached /\ ThinnedRows
  BY <1>2, ThinnedKeepsSame DEF TrayInv
<1> QED
  BY <1>1, <1>2, TodayStep DEF TodayChange

LEMMA DayTypes ==
  ASSUME TypeInv
  PROVE  Midnight(now) \in Int /\ Midnight(now) + DayLength \in Int
  BY ConstantsAssumption DEF Midnight, TypeInv, TypeOK

\* While the tray shows the total of the day, its cached sum is the journal's.
LEMMA CachedTotal ==
  ASSUME TypeInv, IdsUnique, TrayInv, Showing
  PROVE  /\ DayTotal(today.cached, today.at) = DayTotal(rows, now)
         /\ DayTotal(rows, now) \in Nat
<1>1. /\ today.valid /\ NothingWithdrawn /\ Midnight(today.at) = Midnight(now)
      /\ rows \subseteq Row /\ nextId \in Nat
  BY DEF Showing, TypeInv, TypeOK
<1>2. IdsOnce(rows) /\ IdsOnce(today.cached) /\ KeepSame(rows, today.cached)
  BY <1>1 DEF TrayInv, IdsUnique, IdsOnce
<1>3. KeepSame(today.cached, rows)
  <2> SUFFICES ASSUME NEW r \in today.cached, ~r.discarded
               PROVE  \E q \in rows : ~q.discarded /\ q.id = r.id /\ SameInterval(r, q)
    BY DEF KeepSame
  <2>1. PICK q \in rows : q.id = r.id /\ ~q.discarded
    BY <1>1 DEF NothingWithdrawn
  <2>2. PICK p \in today.cached : ~p.discarded /\ p.id = q.id /\ SameInterval(q, p)
    BY <1>2, <2>1 DEF KeepSame
  <2>3. p = r
    BY <1>2, <2>1, <2>2 DEF IdsOnce
  <2> QED
    BY <2>1, <2>2, <2>3 DEF SameInterval
<1> QED
  BY <1>1, <1>2, <1>3, SameTotal, DayTypes, TotalType DEF DayTotal

LEMMA TrayCounts == TypeInv /\ IdsUnique /\ TrayInv => TrayNotBehind
<1> SUFFICES ASSUME TypeInv, IdsUnique, TrayInv, Showing
             PROVE  DayTotal(rows, now) <= TodayTotal
  BY DEF TrayNotBehind
<1> DEFINE extra == IF dirty THEN tracked_overlap([buffer EXCEPT !.start = today.upTo],
                                                  Midnight(now), Midnight(now) + DayLength)
                             ELSE 0
<1>1. extra \in Nat
  <2>1. CASE dirty
    <3> DEFINE s == [buffer EXCEPT !.start = today.upTo]
    <3>1. buffer \in Event /\ today.upTo \in Nat
      BY <2>1 DEF TypeInv, TypeOK, Consistent, Today
    <3>2. s.start \in Int /\ s.end \in Int
      BY <3>1 DEF Event
    <3> HIDE DEF s
    <3>3. tracked_overlap(s, Midnight(now), Midnight(now) + DayLength) \in Nat
      BY <3>2, DayTypes, OverlapType
    <3> QED
      BY <2>1, <3>3 DEF s
  <2>2. CASE ~dirty
    BY <2>2
  <2> QED
    BY <2>1, <2>2
<1>2. TodayTotal = DayTotal(today.cached, today.at) + extra
  BY DEF TodayTotal
<1> HIDE DEF extra
<1> QED
  BY <1>1, <1>2, CachedTotal

\* Whenever the tray shows the total of the day, and no row it counted has
\* been withdrawn since, it shows at least what the journal counts.
THEOREM TrayShows == Spec => []TrayNotBehind
<1>1. Init => IdsUnique /\ TrayInv
  BY DEF Init, IdsUnique, TrayInv, Uncached
<1> QED
  BY <1>1, TrayStep, TrayCounts, IdsStep, InitType, StepType, PTL DEF Spec

-----------------------------------------------------------------------------
(***************************************************************************)
(* What a checkpoint adds to the total.  The merge makes one row longer,   *)
(* or adds one; the loop over the new table is compared with the loop over *)
(* the old one, turn by turn.                                              *)
(***************************************************************************)
\* The part of an interval inside the asked range.
Held(a, b, from, to) ==
  IF Lower(b, to) > Higher(a, from) THEN Lower(b, to) - Higher(a, from) ELSE 0

LEMMA OverlapIsHeld ==
  ASSUME NEW s, NEW from, NEW to
  PROVE  tracked_overlap(s, from, to) =
           IF s.status = "not-afk" THEN Held(s.start, s.end, from, to) ELSE 0
  BY DEF tracked_overlap, Held

\* A segment that reaches to c holds what one did that ended about u and what
\* lies between u and c, but for a tick.
LEMMA HeldByHull ==
  ASSUME NEW a \in Int, NEW b \in Int, NEW lo \in Int, NEW hi \in Int, NEW u \in Int, NEW c \in Int,
         NEW from \in Int, NEW to \in Int,
         lo <= a, a <= b, b <= hi, b <= u + 1, u <= c, c <= hi
  PROVE  Held(a, b, from, to) + Held(u, c, from, to) <= Held(lo, hi, from, to) + 1
  BY DEF Held, Lower, Higher

Active(R) == {r \in R : r.status = "not-afk" /\ ~r.discarded}

\* Segments of active rows end no later than the rows.
EndBy(s, u) == s.status = "not-afk" => s.start <= s.end /\ s.end <= u + 1

LEMMA OpenEndBy ==
  ASSUME NEW R, R \subseteq Row, NEW N \in Nat, NEW from \in Int, NEW to \in Int,
         NEW g, Reads(g, R, N, from, to), NEW u \in Nat, \A r \in Active(R) : EndBy(r, u)
  PROVE  \A i \in 0 .. N : EndBy(g[i].open, u)
<1> DEFINE T == {i \in 0 .. N : EndBy(g[i].open, u)}
<1>1. \A i \in 0 .. N : g[i] = Turn(g, i, R, from, to) /\ g[i] \in Loop
  <2>1. \A i \in 0 .. N : g[i] = Turn(g, i, R, from, to)
    BY DEF Reads
  <2> QED
    BY <2>1, ReadsType
<1>2. 0 \in T
  BY <1>1 DEF Turn, EndBy, NoSegment
<1>3. ASSUME NEW i \in 0 .. N, i # N, i \in T
      PROVE  i + 1 \in T
  <2>1. /\ i + 1 \in 0 .. N /\ (i + 1) - 1 = i /\ i + 1 # 0 /\ EndBy(g[i].open, u)
        /\ g[i] \in Loop
    BY <1>1, <1>3
  <2>2. CASE RowsAt(R, i + 1) = {}
    <3>1. g[i + 1] = g[i]
      BY <1>1, <2>1, <2>2 DEF Turn
    <3> QED
      BY <2>1, <3>1
  <2>3. CASE RowsAt(R, i + 1) # {}
    <3> DEFINE r == CHOOSE x \in RowsAt(R, i + 1) : TRUE
               l == g[i]
    <3>1. g[i + 1] = ReadRow(l, r, from, to)
      BY <1>1, <2>1, <2>3 DEF Turn
    <3>2. r \in Row /\ EndBy(r, u)
      BY <2>3 DEF RowsAt, Active, EndBy
    <3>3. l \in Loop /\ EndBy(l.open, u)
      BY <2>1
    <3> HIDE DEF l, r
    <3>4. EndBy([l EXCEPT !.open.start = Lower(@, r.start), !.open.end = Higher(@, r.end)].open, u)
          \/ l.open.status # r.status
      <4> DEFINE j == [l EXCEPT !.open.start = Lower(@, r.start), !.open.end = Higher(@, r.end)]
      <4>1. /\ j.open.status = l.open.status
            /\ j.open.start = Lower(l.open.start, r.start)
            /\ j.open.end = Higher(l.open.end, r.end)
        BY <3>3 DEF Loop
      <4>2. /\ l.open.start \in Int /\ l.open.end \in Int /\ r.start \in Int /\ r.end \in Int
        BY <3>2, <3>3 DEF Loop, Row
      <4> HIDE DEF j
      <4> QED
        BY <3>2, <3>3, <4>1, <4>2 DEF EndBy, Lower, Higher, j
    <3>5. EndBy([status |-> r.status, start |-> r.start, end |-> r.end], u)
      BY <3>2 DEF EndBy
    <3>6. EndBy(ReadRow(l, r, from, to).open, u)
      BY <3>4, <3>5 DEF ReadRow
    <3> QED
      BY <2>1, <3>1, <3>6
  <2> QED
    BY <2>2, <2>3
<1>4. 0 .. N \subseteq T
  <2> HIDE DEF T
  <2> QED
    BY <1>2, <1>3, UpToInduction
<1> QED
  BY <1>4

\* Up to the row that changes the loops agree.
LEMMA SamePrefix ==
  ASSUME NEW R, NEW Q, NEW N \in Nat, NEW from, NEW to, NEW g, NEW h,
         Reads(g, R, N, from, to), Reads(h, Q, N, from, to), NEW k \in Nat,
         \A i \in 0 .. N : i < k => RowsAt(Q, i) = RowsAt(R, i)
  PROVE  \A i \in 0 .. N : i < k => h[i] = g[i]
<1> DEFINE T == {i \in 0 .. N : i < k => h[i] = g[i]}
<1>1. \A i \in 0 .. N : g[i] = Turn(g, i, R, from, to) /\ h[i] = Turn(h, i, Q, from, to)
  BY DEF Reads
<1>2. 0 \in T
  BY <1>1 DEF Turn
<1>3. ASSUME NEW i \in 0 .. N, i # N, i \in T
      PROVE  i + 1 \in T
  <2>1. i + 1 \in 0 .. N /\ (i + 1) - 1 = i /\ i + 1 # 0
    BY <1>3
  <2> SUFFICES ASSUME i + 1 < k PROVE h[i + 1] = g[i + 1]
    BY <2>1
  <2>2. h[i] = g[i] /\ RowsAt(Q, i + 1) = RowsAt(R, i + 1)
    BY <1>3, <2>1
  <2> QED
    BY <1>1, <2>1, <2>2 DEF Turn
<1>4. 0 .. N \subseteq T
  <2> HIDE DEF T
  <2> QED
    BY <1>2, <1>3, UpToInduction
<1> QED
  BY <1>4

\* The states of two loops that will count the same from here on.
SameOpen(l, m) == m.open = l.open \/ (l.open.status = "afk" /\ m.open.status = "afk")

\* The two loops after they read an active row r, which the event e has made
\* longer in the second table: the open segment is longer there, and it may
\* have taken in the segment A that was open before r.
Growing(l, m, A, r, c, u, from, to) ==
  /\ l.open.status = "not-afk" /\ m.open.status = "not-afk"
  /\ l.open.start <= r.start /\ r.end <= l.open.end /\ l.open.end <= u + 1
  /\ m.open.start <= l.open.start /\ l.open.end <= m.open.end /\ c <= m.open.end
  /\ \/ m.total = l.total
     \/ /\ l.total = m.total + Held(A.start, A.end, from, to)
        /\ A.start <= A.end /\ A.end <= u + 1
        /\ m.open.start <= A.start /\ A.end <= m.open.end
        /\ r.start - 1 <= l.open.start /\ l.open.end <= r.end
        /\ A.end < r.start - 1 \/ r.end < A.start

LEMMA GrowingCounts ==
  ASSUME NEW l \in Loop, NEW m \in Loop, NEW A, A.start \in Int, A.end \in Int,
         NEW r \in Row, r.start <= r.end, NEW c \in Int, NEW u \in Int, u <= c,
         NEW from \in Int, NEW to \in Int, Growing(l, m, A, r, c, u, from, to)
  PROVE  Counted(l, from, to) + Held(u, c, from, to) <= Counted(m, from, to) + 1
<1> DEFINE a == l.open.start
           b == l.open.end
           lo == m.open.start
           hi == m.open.end
<1>1. a \in Int /\ b \in Int /\ lo \in Int /\ hi \in Int /\ r.start \in Int /\ r.end \in Int
      /\ l.total \in Int /\ m.total \in Int
  BY DEF Loop, Row
<1>2. Counted(l, from, to) = l.total + Held(a, b, from, to) /\ Counted(m, from, to) = m.total + Held(lo, hi, from, to)
  BY OverlapIsHeld DEF Counted, Growing
<1>3. a <= b /\ b <= u + 1 /\ lo <= a /\ b <= hi /\ c <= hi
  BY <1>1 DEF Growing
<1>4. \A p, q \in Int : Held(p, q, from, to) \in Int
  BY DEF Held, Lower, Higher
<1>5. CASE m.total = l.total
  <2>1. Held(a, b, from, to) + Held(u, c, from, to) <= Held(lo, hi, from, to) + 1
    <3> HIDE DEF a, b, lo, hi
    <3> QED
      BY <1>1, <1>3, HeldByHull
  <2>2. Held(a, b, from, to) \in Int /\ Held(lo, hi, from, to) \in Int /\ Held(u, c, from, to) \in Int
    BY <1>1, <1>4
  <2> HIDE DEF a, b, lo, hi
  <2> QED
    BY <1>1, <1>2, <1>5, <2>1, <2>2
<1>6. CASE l.total = m.total + Held(A.start, A.end, from, to) /\ m.total # l.total
  <2> DEFINE x == A.start
             y == A.end
  <2>1. /\ x <= y /\ y <= u + 1 /\ lo <= x /\ y <= hi
        /\ y <= a \/ b <= x
    BY <1>1, <1>6 DEF Growing
  <2>2. x \in Int /\ y \in Int
    OBVIOUS
  <2>3. Held(a, b, from, to) + Held(x, y, from, to) + Held(u, c, from, to) <= Held(lo, hi, from, to) + 1
    <3> HIDE DEF a, b, lo, hi, x, y
    <3> QED
      BY <1>1, <1>3, <2>1, <2>2 DEF Held, Lower, Higher
  <2>4. /\ Held(a, b, from, to) \in Int /\ Held(lo, hi, from, to) \in Int
        /\ Held(u, c, from, to) \in Int /\ Held(x, y, from, to) \in Int
    BY <1>1, <1>4, <2>2
  <2>5. l.total = m.total + Held(x, y, from, to)
    BY <1>6
  <2> HIDE DEF a, b, lo, hi, x, y
  <2> QED
    BY <1>1, <1>2, <2>3, <2>4, <2>5
<1> QED
  BY <1>5, <1>6 DEF Growing

LEMMA HeldType ==
  ASSUME NEW a \in Int, NEW b \in Int, NEW from \in Int, NEW to \in Int
  PROVE  Held(a, b, from, to) \in Nat
  BY DEF Held, Lower, Higher

\* Turns of the loop, by what they do to the open segment.
Joins(s, q) == s.status = q.status /\ interval_gap(s, q) <= MergeWindow + 1

Interval(q) == [status |-> q.status, start |-> q.start, end |-> q.end]

LEMMA ReadJoined ==
  ASSUME NEW l \in Loop, NEW q \in Row, Joins(l.open, q), NEW from, NEW to
  PROVE  LET x == ReadRow(l, q, from, to)
         IN  /\ x.total = l.total /\ x.open.status = l.open.status
             /\ x.open.start = Lower(l.open.start, q.start)
             /\ x.open.end = Higher(l.open.end, q.end)
  BY DEF ReadRow, Joins, Loop

LEMMA ReadClosed ==
  ASSUME NEW l \in Loop, NEW q \in Row, ~Joins(l.open, q), NEW from, NEW to
  PROVE  LET x == ReadRow(l, q, from, to)
         IN  /\ x.total = Counted(l, from, to) /\ x.open = Interval(q)
             /\ x.open.status = q.status /\ x.open.start = q.start /\ x.open.end = q.end
<1>1. ReadRow(l, q, from, to) = [total |-> Counted(l, from, to), open |-> Interval(q)]
  BY DEF ReadRow, Joins, Counted, Interval
<1> QED
  BY <1>1 DEF Interval

\* The turn that reads the longer row.
LEMMA GrowingStarts ==
  ASSUME NEW l \in Loop, NEW r \in Row, NEW p \in Row, NEW c \in Int, NEW u \in Int,
         NEW from \in Int, NEW to \in Int,
         r.status = "not-afk", p.status = "not-afk", EndBy(r, u), EndBy(l.open, u),
         p.start <= r.start, r.end <= p.end, c <= p.end
  PROVE  Growing(ReadRow(l, r, from, to), ReadRow(l, p, from, to), l.open, r, c, u, from, to)
<1> DEFINE x == ReadRow(l, r, from, to)
           y == ReadRow(l, p, from, to)
           A == l.open
<1>1. /\ A.start \in Int /\ A.end \in Int /\ l.total \in Int /\ MergeWindow \in Nat
      /\ r.start \in Int /\ r.end \in Int /\ p.start \in Int /\ p.end \in Int
  BY ConstantTypes DEF Loop, Row
<1>2. r.start <= r.end /\ r.end <= u + 1
      /\ (A.status = "not-afk" => A.start <= A.end /\ A.end <= u + 1)
  BY DEF EndBy
<1>3. CASE Joins(A, r)
  <2>1. A.status = "not-afk" /\ Joins(A, p)
    BY <1>1, <1>2, <1>3 DEF Joins, interval_gap
  <2>2. /\ x.total = l.total /\ x.open.status = A.status
        /\ x.open.start = Lower(A.start, r.start) /\ x.open.end = Higher(A.end, r.end)
    BY <1>3, ReadJoined
  <2>3. /\ y.total = l.total /\ y.open.status = A.status
        /\ y.open.start = Lower(A.start, p.start) /\ y.open.end = Higher(A.end, p.end)
    BY <2>1, ReadJoined
  <2> HIDE DEF x, y, A
  <2> QED
    BY <1>1, <1>2, <2>1, <2>2, <2>3 DEF Growing, Lower, Higher, x, y, A
<1>4. CASE ~Joins(A, r)
  <2>1. /\ x.total = Counted(l, from, to) /\ x.open.status = r.status
        /\ x.open.start = r.start /\ x.open.end = r.end
    BY <1>4, ReadClosed
  <2>2. CASE Joins(A, p)
    <3>1. A.status = "not-afk" /\ (A.end < r.start - 1 \/ r.end < A.start)
      BY <1>1, <1>2, <1>4, <2>2 DEF Joins, interval_gap
    <3>2. /\ y.total = l.total /\ y.open.status = A.status
          /\ y.open.start = Lower(A.start, p.start) /\ y.open.end = Higher(A.end, p.end)
      BY <2>2, ReadJoined
    <3>3. Counted(l, from, to) = l.total + Held(A.start, A.end, from, to)
      BY <3>1, OverlapIsHeld DEF Counted
    <3>4. x.total = y.total + Held(A.start, A.end, from, to)
      BY <2>1, <3>2, <3>3
    <3>5. /\ y.open.start <= A.start /\ A.end <= y.open.end
          /\ y.open.start <= r.start /\ r.end <= y.open.end /\ c <= y.open.end
      BY <1>1, <3>2 DEF Lower, Higher
    <3>6. r.start - 1 <= r.start /\ r.start <= r.start /\ r.end <= r.end
      BY <1>1
    <3> HIDE DEF x, y, A
    <3>7. Growing(x, y, A, r, c, u, from, to)
      BY <1>2, <2>1, <3>1, <3>2, <3>4, <3>5, <3>6 DEF Growing
    <3> QED
      BY <3>7 DEF x, y, A
  <2>3. CASE ~Joins(A, p)
    <3>1. /\ y.total = Counted(l, from, to) /\ y.open.status = p.status
          /\ y.open.start = p.start /\ y.open.end = p.end
      BY <2>3, ReadClosed
    <3> HIDE DEF x, y, A
    <3> QED
      BY <1>1, <1>2, <2>1, <3>1 DEF Growing, x, y, A
  <2> QED
    BY <2>2, <2>3
<1> QED
  BY <1>3, <1>4

\* A later active row joins both segments.
LEMMA GrowingContinues ==
  ASSUME NEW l \in Loop, NEW m \in Loop, NEW A, NEW r \in Row, NEW q \in Row,
         NEW c \in Int, NEW u \in Int, NEW from \in Int, NEW to \in Int,
         Growing(l, m, A, r, c, u, from, to), r.start <= r.end,
         q.status = "not-afk", q.start <= q.end, q.end <= r.end, r.start <= q.start + 1,
         A.start \in Int, A.end \in Int
  PROVE  Growing(ReadRow(l, q, from, to), ReadRow(m, q, from, to), A, r, c, u, from, to)
<1> DEFINE x == ReadRow(l, q, from, to)
           y == ReadRow(m, q, from, to)
<1>1. /\ l.open.start \in Int /\ l.open.end \in Int /\ m.open.start \in Int /\ m.open.end \in Int
      /\ r.start \in Int /\ r.end \in Int /\ q.start \in Int /\ q.end \in Int /\ MergeWindow \in Nat
  BY ConstantTypes DEF Loop, Row
<1>2. /\ l.open.status = "not-afk" /\ m.open.status = "not-afk"
      /\ l.open.start <= r.start /\ r.end <= l.open.end /\ l.open.end <= u + 1
      /\ m.open.start <= l.open.start /\ l.open.end <= m.open.end /\ c <= m.open.end
  BY DEF Growing
<1>3. Joins(l.open, q) /\ Joins(m.open, q)
  BY <1>1, <1>2 DEF Joins, interval_gap
<1>4. /\ x.total = l.total /\ x.open.status = l.open.status
      /\ x.open.start = Lower(l.open.start, q.start) /\ x.open.end = Higher(l.open.end, q.end)
  BY <1>3, ReadJoined
<1>5. /\ y.total = m.total /\ y.open.status = m.open.status
      /\ y.open.start = Lower(m.open.start, q.start) /\ y.open.end = Higher(m.open.end, q.end)
  BY <1>3, ReadJoined
<1>6. /\ x.open.end = l.open.end /\ y.open.end = m.open.end
      /\ x.open.start <= l.open.start /\ y.open.start <= m.open.start
      /\ y.open.start <= x.open.start
      /\ (r.start - 1 <= l.open.start => r.start - 1 <= x.open.start)
  BY <1>1, <1>2, <1>4, <1>5 DEF Lower, Higher
<1>7. x.open.start \in Int /\ y.open.start \in Int
  BY <1>1, <1>4, <1>5 DEF Lower
<1> HIDE DEF x, y
<1>8. Growing(x, y, A, r, c, u, from, to)
  <2>1. /\ x.open.status = "not-afk" /\ y.open.status = "not-afk"
        /\ x.open.start <= r.start /\ r.end <= x.open.end /\ x.open.end <= u + 1
        /\ y.open.start <= x.open.start /\ x.open.end <= y.open.end /\ c <= y.open.end
    BY <1>1, <1>2, <1>4, <1>5, <1>6, <1>7
  <2>2. CASE m.total = l.total
    BY <1>4, <1>5, <2>1, <2>2 DEF Growing
  <2>3. CASE m.total # l.total
    <3>1. /\ l.total = m.total + Held(A.start, A.end, from, to)
          /\ A.start <= A.end /\ A.end <= u + 1
          /\ m.open.start <= A.start /\ A.end <= m.open.end
          /\ r.start - 1 <= l.open.start /\ l.open.end <= r.end
          /\ A.end < r.start - 1 \/ r.end < A.start
      BY <2>3 DEF Growing
    <3>2. /\ y.open.start <= A.start /\ A.end <= y.open.end
          /\ r.start - 1 <= x.open.start /\ x.open.end <= r.end
      BY <1>1, <1>6, <1>7, <3>1
    <3>3. x.total = y.total + Held(A.start, A.end, from, to)
      BY <1>4, <1>5, <3>1
    <3> QED
      BY <2>1, <3>1, <3>2, <3>3 DEF Growing
  <2> QED
    BY <2>2, <2>3
<1> QED
  BY <1>8 DEF x, y

\* From a row of the other status on, or when that row is the one that
\* changed, the loops differ by what they have counted.
Ahead(l, m, extra) == SameOpen(l, m) /\ l.total + extra <= m.total + 1

LEMMA GrowingEnds ==
  ASSUME NEW l \in Loop, NEW m \in Loop, NEW A, A.start \in Int, A.end \in Int,
         NEW r \in Row, r.start <= r.end, NEW q \in Row, NEW c \in Int, NEW u \in Int, u <= c,
         NEW from \in Int, NEW to \in Int, Growing(l, m, A, r, c, u, from, to),
         q.status # "not-afk"
  PROVE  Ahead(ReadRow(l, q, from, to), ReadRow(m, q, from, to), Held(u, c, from, to))
<1>1. ~Joins(l.open, q) /\ ~Joins(m.open, q)
  BY DEF Growing, Joins
<1>2. /\ ReadRow(l, q, from, to).total = Counted(l, from, to)
      /\ ReadRow(m, q, from, to).total = Counted(m, from, to)
      /\ ReadRow(l, q, from, to).open = ReadRow(m, q, from, to).open
  BY <1>1, ReadClosed
<1>3. Counted(l, from, to) + Held(u, c, from, to) <= Counted(m, from, to) + 1
  BY GrowingCounts
<1> QED
  BY <1>2, <1>3 DEF Ahead, SameOpen

LEMMA CountedType ==
  ASSUME NEW l \in Loop, NEW from \in Int, NEW to \in Int
  PROVE  Counted(l, from, to) \in Nat /\ l.total \in Nat
         /\ (l.open.status # "not-afk" => Counted(l, from, to) = l.total)
<1>1. l.total \in Nat /\ l.open.start \in Int /\ l.open.end \in Int
  BY DEF Loop
<1>2. tracked_overlap(l.open, from, to) \in Nat
  BY <1>1, OverlapType
<1>3. l.open.status # "not-afk" => tracked_overlap(l.open, from, to) = 0
  BY OverlapIsHeld
<1> QED
  BY <1>1, <1>2, <1>3 DEF Counted

LEMMA AheadCounts ==
  ASSUME NEW l \in Loop, NEW m \in Loop, NEW extra \in Int, NEW from \in Int, NEW to \in Int,
         Ahead(l, m, extra)
  PROVE  Counted(l, from, to) + extra <= Counted(m, from, to) + 1
<1>1. l.total \in Int /\ m.total \in Int
  BY DEF Loop
<1>2. CASE m.open = l.open
  <2>1. tracked_overlap(l.open, from, to) \in Int
    BY OverlapType DEF Loop
  <2> QED
    BY <1>1, <1>2, <2>1 DEF Ahead, Counted
<1>3. CASE l.open.status = "afk" /\ m.open.status = "afk"
  BY <1>1, <1>3, CountedType DEF Ahead
<1> QED
  BY <1>2, <1>3 DEF Ahead, SameOpen

LEMMA AheadContinues ==
  ASSUME NEW l \in Loop, NEW m \in Loop, NEW extra \in Int, NEW from \in Int, NEW to \in Int,
         Ahead(l, m, extra), NEW q \in Row
  PROVE  Ahead(ReadRow(l, q, from, to), ReadRow(m, q, from, to), extra)
<1> DEFINE x == ReadRow(l, q, from, to)
           y == ReadRow(m, q, from, to)
<1>1. l.total + extra <= m.total + 1
      /\ Counted(l, from, to) + extra <= Counted(m, from, to) + 1
  BY AheadCounts DEF Ahead
<1>2. CASE m.open = l.open
  <2>1. CASE Joins(l.open, q)
    <3>1. x.total = l.total /\ y.total = m.total
      BY <1>2, <2>1, ReadJoined
    <3>2. x.open = y.open
      BY <1>2, <2>1 DEF ReadRow, Joins, Loop
    <3> QED
      BY <1>1, <3>1, <3>2 DEF Ahead, SameOpen
  <2>2. CASE ~Joins(l.open, q)
    <3>1. /\ x.total = Counted(l, from, to) /\ y.total = Counted(m, from, to)
          /\ x.open = y.open
      BY <1>2, <2>2, ReadClosed
    <3> QED
      BY <1>1, <3>1 DEF Ahead, SameOpen
  <2> QED
    BY <2>1, <2>2
<1>3. CASE l.open.status = "afk" /\ m.open.status = "afk"
  <2>1. Counted(l, from, to) = l.total /\ Counted(m, from, to) = m.total
    BY <1>3, CountedType
  <2>2. x.total = l.total /\ y.total = m.total
    BY <2>1, ReadJoined, ReadClosed
  <2>3. CASE q.status = "afk"
    <3>1. x.open.status = "afk" /\ y.open.status = "afk"
      BY <1>3, <2>3, ReadJoined, ReadClosed
    <3> QED
      BY <1>1, <2>2, <3>1 DEF Ahead, SameOpen
  <2>4. CASE q.status # "afk"
    <3>1. ~Joins(l.open, q) /\ ~Joins(m.open, q)
      BY <1>3, <2>4 DEF Joins
    <3>2. x.open = y.open
      BY <3>1, ReadClosed
    <3> QED
      BY <1>1, <2>2, <3>2 DEF Ahead, SameOpen
  <2> QED
    BY <2>3, <2>4
<1> QED
  BY <1>2, <1>3 DEF Ahead, SameOpen

\* From the row k that changed to the last one.  A later active row of the
\* table lies within a tick of the row that grew: it does not end later.
Within(R, k, r) ==
  /\ r.start <= r.end
  /\ \A q \in Active(R) : q.id > k =>
       q.start <= q.end /\ q.end <= r.end /\ r.start <= q.start + 1

LEMMA FromChange ==
  ASSUME NEW R, R \subseteq Row, NEW Q, Q \subseteq Row, NEW N \in Nat, NEW from \in Int, NEW to \in Int,
         NEW g, NEW h, Reads(g, R, N, from, to), Reads(h, Q, N, from, to),
         NEW k \in 1 .. N, \A i \in 0 .. N : i > k => RowsAt(Q, i) = RowsAt(R, i),
         NEW r \in Row, NEW A, A.start \in Int, A.end \in Int,
         NEW c \in Int, NEW u \in Int, NEW extra \in Int,
         \/ /\ Growing(g[k], h[k], A, r, c, u, from, to)
            /\ Within(R, k, r) /\ u <= c /\ extra = Held(u, c, from, to)
         \/ Ahead(g[k], h[k], extra)
  PROVE  Counted(g[N], from, to) + extra <= Counted(h[N], from, to) + 1
<1> DEFINE Compared(i) ==
             \/ /\ Growing(g[i], h[i], A, r, c, u, from, to)
                /\ Within(R, k, r) /\ u <= c /\ extra = Held(u, c, from, to)
             \/ Ahead(g[i], h[i], extra)
           T == {i \in 0 .. N : i >= k => Compared(i)}
<1>1. \A i \in 0 .. N : g[i] = Turn(g, i, R, from, to) /\ h[i] = Turn(h, i, Q, from, to)
  BY DEF Reads
<1>2. \A i \in 0 .. N : g[i] \in Loop /\ h[i] \in Loop
  BY ReadsType
<1>3. 0 \in T
  OBVIOUS
<1>4. ASSUME NEW i \in 0 .. N, i # N, i \in T
      PROVE  i + 1 \in T
  <2>1. i + 1 \in 0 .. N /\ (i + 1) - 1 = i /\ i + 1 # 0
    BY <1>4
  <2> SUFFICES ASSUME i >= k PROVE Compared(i + 1)
    BY <2>1
  <2>2. Compared(i) /\ RowsAt(Q, i + 1) = RowsAt(R, i + 1)
    BY <1>4, <2>1
  <2>3. CASE RowsAt(R, i + 1) = {}
    <3>1. g[i + 1] = g[i] /\ h[i + 1] = h[i]
      BY <1>1, <2>1, <2>2, <2>3 DEF Turn
    <3> QED
      BY <2>2, <3>1
  <2>4. CASE RowsAt(R, i + 1) # {}
    <3> DEFINE q == CHOOSE x \in RowsAt(R, i + 1) : TRUE
    <3>1. g[i + 1] = ReadRow(g[i], q, from, to) /\ h[i + 1] = ReadRow(h[i], q, from, to)
      BY <1>1, <2>1, <2>2, <2>4 DEF Turn
    <3>2. q \in Row /\ q \in R /\ q.id > k /\ ~q.discarded
      BY <2>4 DEF RowsAt
    <3> HIDE DEF q
    <3>3. CASE Ahead(g[i], h[i], extra)
      <4>1. Ahead(ReadRow(g[i], q, from, to), ReadRow(h[i], q, from, to), extra)
        BY <1>2, <3>2, <3>3, AheadContinues
      <4> QED
        BY <3>1, <4>1
    <3>4. CASE /\ Growing(g[i], h[i], A, r, c, u, from, to)
               /\ Within(R, k, r) /\ u <= c /\ extra = Held(u, c, from, to)
               /\ q.status = "not-afk"
      <4>1. q.start <= q.end /\ q.end <= r.end /\ r.start <= q.start + 1
        BY <3>2, <3>4 DEF Within, Active
      <4>2. Growing(ReadRow(g[i], q, from, to), ReadRow(h[i], q, from, to), A, r, c, u, from, to)
        BY <1>2, <3>2, <3>4, <4>1, GrowingContinues DEF Within
      <4> QED
        BY <3>1, <3>4, <4>2
    <3>5. CASE /\ Growing(g[i], h[i], A, r, c, u, from, to)
               /\ Within(R, k, r) /\ u <= c /\ extra = Held(u, c, from, to)
               /\ q.status # "not-afk"
      <4>1. Ahead(ReadRow(g[i], q, from, to), ReadRow(h[i], q, from, to), Held(u, c, from, to))
        BY <1>2, <3>2, <3>5, GrowingEnds DEF Within
      <4> QED
        BY <3>1, <3>5, <4>1
    <3> QED
      BY <2>2, <3>3, <3>4, <3>5
  <2> QED
    BY <2>3, <2>4
<1>5. 0 .. N \subseteq T
  <2> HIDE DEF T
  <2> QED
    BY <1>3, <1>4, UpToInduction
<1>6. Compared(N) /\ g[N] \in Loop /\ h[N] \in Loop
  BY <1>2, <1>5
<1>7. CASE Ahead(g[N], h[N], extra)
  BY <1>6, <1>7, AheadCounts
<1>8. CASE /\ Growing(g[N], h[N], A, r, c, u, from, to)
           /\ r.start <= r.end /\ u <= c /\ extra = Held(u, c, from, to)
  <2>1. Counted(g[N], from, to) + Held(u, c, from, to) <= Counted(h[N], from, to) + 1
    BY <1>6, <1>8, GrowingCounts
  <2> QED
    BY <1>8, <2>1
<1> QED
  BY <1>6, <1>7, <1>8 DEF Within

\* The row that a merge makes longer, at its turn.
LEMMA AtChange ==
  ASSUME NEW l \in Loop, NEW r \in Row, NEW e \in Event, e.status = r.status,
         NEW from \in Int, NEW to \in Int, NEW u \in Int,
         r.status = "not-afk" => EndBy(r, u) /\ EndBy(l.open, u)
  PROVE  LET x == ReadRow(l, r, from, to)
             y == ReadRow(l, update_merged(r, e), from, to)
         IN  IF r.status = "not-afk" THEN Growing(x, y, l.open, r, e.end, u, from, to)
                                     ELSE Ahead(x, y, 0)
<1> DEFINE p == update_merged(r, e)
           x == ReadRow(l, r, from, to)
           y == ReadRow(l, p, from, to)
<1>1. /\ p \in Row /\ p.status = r.status
      /\ p.start = Lower(r.start, e.start) /\ p.end = Higher(r.end, e.end)
  BY DEF update_merged, Row, Event, Lower, Higher
<1> HIDE DEF p
<1>2. CASE r.status = "not-afk"
  <2>1. p.start <= r.start /\ r.end <= p.end /\ e.end <= p.end /\ e.end \in Int
    BY <1>1 DEF Row, Event, Lower, Higher
  <2>2. Growing(x, y, l.open, r, e.end, u, from, to)
    BY <1>1, <1>2, <2>1, GrowingStarts
  <2> QED
    BY <1>2, <2>2 DEF p
<1>3. CASE r.status # "not-afk"
  <2>1. r.status = "afk" /\ p.status = "afk"
    BY <1>1, <1>3 DEF Row, Status
  <2>2. x.open.status = "afk" /\ y.open.status = "afk"
    BY <1>1, <2>1, ReadJoined, ReadClosed DEF Joins
  <2>3. x.total = Counted(l, from, to) /\ y.total = Counted(l, from, to)
    <3>1. CASE l.open.status = "not-afk"
      BY <1>1, <2>1, <3>1, ReadClosed DEF Joins
    <3>2. CASE l.open.status # "not-afk"
      BY <1>1, <3>2, ReadJoined, ReadClosed, CountedType
    <3> QED
      BY <3>1, <3>2
  <2>4. Ahead(x, y, 0)
    <3>1. Counted(l, from, to) \in Int
      BY CountedType
    <3> HIDE DEF x, y
    <3> QED
      BY <2>2, <2>3, <3>1 DEF Ahead, SameOpen
  <2> QED
    BY <1>3, <2>4 DEF p
<1> QED
  BY <1>2, <1>3

\* The table of a merge, row by row.
LEMMA MergeAt ==
  ASSUME NEW R, R \subseteq Row, IdsOnce(R), NEW id \in Nat \ {0}, \A r \in R : r.id < id,
         NEW e \in Event
  PROVE  \/ /\ MergeTarget(R, e) = {}
            /\ \E p \in Row :
                 /\ p.status = e.status /\ p.start = e.start /\ p.end = e.end
                 /\ RowsAt(R, id) = {} /\ RowsAt(event_store_merge(R, id, e), id) = {p}
                 /\ \A i : i # id => RowsAt(event_store_merge(R, id, e), i) = RowsAt(R, i)
         \/ \E r \in MergeTarget(R, e) :
              /\ RowsAt(R, r.id) = {r}
              /\ RowsAt(event_store_merge(R, id, e), r.id) = {update_merged(r, e)}
              /\ \A i : i # r.id => RowsAt(event_store_merge(R, id, e), i) = RowsAt(R, i)
<1> DEFINE after == event_store_merge(R, id, e)
<1>1. CASE MergeTarget(R, e) = {}
  <2> DEFINE p == [id |-> id, device |-> e.device, status |-> e.status,
                   start |-> e.start, end |-> e.end, created |-> e.created,
                   sent |-> FALSE, discarded |-> FALSE]
  <2>1. p \in Row /\ p.id = id /\ ~p.discarded
        /\ p.status = e.status /\ p.start = e.start /\ p.end = e.end
    BY DEF Row, Event
  <2>2. after = R \cup {p}
    BY <1>1 DEF event_store_merge, event_store_append
  <2>3. \A r \in R : r.id # id
    BY DEF Row
  <2> HIDE DEF after, p
  <2>4. RowsAt(R, id) = {} /\ RowsAt(after, id) = {p}
    BY <2>1, <2>2, <2>3 DEF RowsAt
  <2>5. ASSUME NEW i, i # id
        PROVE  RowsAt(after, i) = RowsAt(R, i)
    BY <2>1, <2>2, <2>5 DEF RowsAt
  <2> QED
    BY <1>1, <2>1, <2>4, <2>5 DEF after
<1>2. CASE MergeTarget(R, e) # {}
  <2> DEFINE target == MergeTarget(R, e)
  <2>1. PICK r \in target : TRUE
    BY <1>2
  <2>2. \A q \in target : q \in R /\ q.device = e.device /\ ~q.discarded
    BY DEF MergeTarget, LatestRow
  <2>3. ASSUME NEW q \in target
        PROVE  q = r
    <3>1. ~EndsLater(q, r) /\ ~EndsLater(r, q)
      BY <2>1, <2>2 DEF MergeTarget, LatestRow
    <3>2. q \in Row /\ r \in Row /\ q \in R /\ r \in R
      BY <2>1, <2>2
    <3>3. q.id = r.id
      BY <3>1, <3>2 DEF EndsLater, Row
    <3> QED
      BY <3>2, <3>3 DEF IdsOnce
  <2>4. target = {r}
    BY <2>1, <2>3
  <2> DEFINE p == update_merged(r, e)
  <2>5. after = (R \ {r}) \cup {p}
    BY <1>2, <2>4 DEF event_store_merge
  <2>6. r \in Row /\ r \in R /\ ~r.discarded
    BY <2>1, <2>2
  <2>7. p.id = r.id /\ ~p.discarded
    BY <2>6 DEF update_merged, Row
  <2>8. \A q \in R : q.id = r.id => q = r
    BY <2>6 DEF IdsOnce
  <2> HIDE DEF after, p, target
  <2>9. RowsAt(R, r.id) = {r} /\ RowsAt(after, r.id) = {p}
    BY <2>5, <2>6, <2>7, <2>8 DEF RowsAt
  <2>10. ASSUME NEW i, i # r.id
         PROVE  RowsAt(after, i) = RowsAt(R, i)
    BY <2>5, <2>7, <2>10 DEF RowsAt
  <2> QED
    BY <2>1, <2>9, <2>10 DEF after, p, target
<1> QED
  BY <1>1, <1>2

\* A segment in memory, of which the table holds what lies before u.
HeldUpTo(R, e, u) ==
  e.status = "not-afk" =>
    /\ \A r \in Active(R) : EndBy(r, u)
    /\ e.start <= u /\ u <= e.end

\* Active rows begin in the order of their ids, and devices follow each other.
InOrder(R) ==
  /\ \A r, q \in Active(R) : r.id < q.id => r.start <= q.start + 1
  /\ \A r, q \in R : r.id < q.id => r.device <= q.device

\* A row that is appended.
LEMMA AppendedCounts ==
  ASSUME NEW l \in Loop, NEW p \in Row, NEW u \in Int, NEW from \in Int, NEW to \in Int,
         p.status = "not-afk" => EndBy(l.open, u) /\ p.start <= u /\ u <= p.end
  PROVE  Counted(l, from, to) + (IF p.status = "not-afk" THEN Held(u, p.end, from, to) ELSE 0)
           <= Counted(ReadRow(l, p, from, to), from, to) + 1
<1> DEFINE y == ReadRow(l, p, from, to)
           s == l.open
<1>1. /\ s.start \in Int /\ s.end \in Int /\ p.start \in Int /\ p.end \in Int
      /\ l.total \in Nat /\ Counted(l, from, to) \in Nat
  BY CountedType DEF Loop, Row
<1>2. Held(s.start, s.end, from, to) \in Nat /\ Held(u, p.end, from, to) \in Nat
      /\ Held(p.start, p.end, from, to) \in Nat
  BY <1>1, HeldType
<1>3. CASE Joins(s, p)
  <2>1. y.total = l.total /\ y.open.status = s.status /\ s.status = p.status
        /\ y.open.start = Lower(s.start, p.start) /\ y.open.end = Higher(s.end, p.end)
    BY <1>3, ReadJoined DEF Joins
  <2>2. CASE p.status = "not-afk"
    <3>1. /\ s.start <= s.end /\ s.end <= u + 1 /\ p.start <= u /\ u <= p.end
      BY <2>1, <2>2 DEF EndBy
    <3>2. y.open.start <= s.start /\ s.end <= y.open.end /\ p.end <= y.open.end
          /\ y.open.start \in Int /\ y.open.end \in Int
      BY <1>1, <2>1 DEF Lower, Higher
    <3>3. Held(s.start, s.end, from, to) + Held(u, p.end, from, to)
            <= Held(y.open.start, y.open.end, from, to) + 1
      <4> HIDE DEF s, y
      <4> QED
        BY <1>1, <3>1, <3>2 DEF Held, Lower, Higher
    <3>4. /\ Counted(l, from, to) = l.total + Held(s.start, s.end, from, to)
          /\ Counted(y, from, to) = l.total + Held(y.open.start, y.open.end, from, to)
      BY <2>1, <2>2, OverlapIsHeld DEF Counted
    <3>5. Held(y.open.start, y.open.end, from, to) \in Nat
      BY <3>2, HeldType
    <3> HIDE DEF s, y
    <3>6. Counted(l, from, to) + Held(u, p.end, from, to) <= Counted(y, from, to) + 1
      BY <1>1, <1>2, <3>3, <3>4, <3>5
    <3> QED
      BY <2>2, <3>6 DEF y
  <2>3. CASE p.status # "not-afk"
    <3>1. Counted(l, from, to) = l.total /\ Counted(y, from, to) = l.total
      <4>1. tracked_overlap(s, from, to) = 0 /\ tracked_overlap(y.open, from, to) = 0
        BY <2>1, <2>3, OverlapIsHeld
      <4> QED
        BY <1>1, <2>1, <4>1 DEF Counted
    <3> QED
      BY <1>1, <2>3, <3>1
  <2> QED
    BY <2>2, <2>3
<1>4. CASE ~Joins(s, p)
  <2>1. /\ y.total = Counted(l, from, to) /\ y.open.status = p.status
        /\ y.open.start = p.start /\ y.open.end = p.end
    BY <1>4, ReadClosed
  <2>2. Counted(y, from, to) = Counted(l, from, to) +
          (IF p.status = "not-afk" THEN Held(p.start, p.end, from, to) ELSE 0)
    BY <2>1, OverlapIsHeld DEF Counted
  <2>3. p.status = "not-afk" => Held(u, p.end, from, to) <= Held(p.start, p.end, from, to)
    BY <1>1 DEF Held, Lower, Higher
  <2> HIDE DEF y
  <2>4. CASE p.status = "not-afk"
    BY <1>1, <1>2, <2>2, <2>3, <2>4 DEF y
  <2>5. CASE p.status # "not-afk"
    BY <1>1, <1>2, <2>2, <2>5 DEF y
  <2> QED
    BY <2>4, <2>5
<1> QED
  BY <1>3, <1>4

\* A checkpoint adds to the total what the segment holds after u, but for a
\* tick.
LEMMA MergeTotal ==
  ASSUME NEW R, R \subseteq Row, IdsOnce(R), NEW id \in Nat \ {0}, \A r \in R : r.id < id,
         NEW e \in Event, NEW u \in Nat, HeldUpTo(R, e, u),
         InOrder(R), \A r \in R : r.device <= e.device,
         NEW from \in Int, NEW to \in Int
  PROVE  event_store_tracked_seconds(R, id, from, to)
           + tracked_overlap([e EXCEPT !.start = u], from, to)
           <= event_store_tracked_seconds(event_store_merge(R, id, e), id, from, to) + 1
<1> DEFINE Q == event_store_merge(R, id, e)
           g == CHOOSE f : Reads(f, R, id, from, to)
           h == CHOOSE f : Reads(f, Q, id, from, to)
           c == e.end
           extra == IF e.status = "not-afk" THEN Held(u, c, from, to) ELSE 0
<1>1. /\ event_store_tracked_seconds(R, id, from, to) = Counted(g[id], from, to)
      /\ event_store_tracked_seconds(Q, id, from, to) = Counted(h[id], from, to)
      /\ Reads(g, R, id, from, to) /\ Reads(h, Q, id, from, to)
  BY TotalUnfolds, ReadsExists
<1>2. tracked_overlap([e EXCEPT !.start = u], from, to) = extra
  <2> DEFINE s == [e EXCEPT !.start = u]
  <2>1. s.start = u /\ s.end = c /\ s.status = e.status
    BY DEF Event
  <2> HIDE DEF s
  <2>2. tracked_overlap(s, from, to) = extra
    BY <2>1, OverlapIsHeld
  <2> QED
    BY <2>2 DEF s
<1>3. Q \subseteq Row
  BY MergeType
<1>4. c \in Int /\ e.start \in Int /\ extra \in Int /\ u \in Int /\ id \in Nat
  BY HeldType DEF Event
<1> SUFFICES Counted(g[id], from, to) + extra <= Counted(h[id], from, to) + 1
  BY <1>1, <1>2
<1>10. Reads(g, R, id, from, to) /\ Reads(h, Q, id, from, to)
  BY <1>1
<1> HIDE DEF Q, g, h
<1>5. \A i \in 0 .. id : /\ g[i] = Turn(g, i, R, from, to) /\ h[i] = Turn(h, i, Q, from, to)
                         /\ g[i] \in Loop /\ h[i] \in Loop
  <2>1. \A i \in 0 .. id : g[i] = Turn(g, i, R, from, to) /\ h[i] = Turn(h, i, Q, from, to)
    BY <1>1 DEF Reads
  <2>2. (\A i \in 0 .. id : g[i] \in Loop) /\ (\A i \in 0 .. id : h[i] \in Loop)
    BY <1>1, <1>3, ReadsType
  <2> QED
    BY <2>1, <2>2
<1>6. e.status = "not-afk" => \A i \in 0 .. id : EndBy(g[i].open, u)
  BY <1>1, OpenEndBy DEF HeldUpTo
<1>11. ASSUME NEW k \in Nat, \A i \in 0 .. id : i < k => RowsAt(Q, i) = RowsAt(R, i)
       PROVE  \A i \in 0 .. id : i < k => h[i] = g[i]
  BY <1>4, <1>10, <1>11, SamePrefix
<1>7. ASSUME NEW p \in Row, p.status = e.status, p.start = e.start, p.end = e.end,
             RowsAt(R, id) = {}, RowsAt(Q, id) = {p},
             \A i : i # id => RowsAt(Q, i) = RowsAt(R, i)
      PROVE  Counted(g[id], from, to) + extra <= Counted(h[id], from, to) + 1
  <2> DEFINE l == g[id - 1]
  <2>1. id \in 0 .. id /\ id - 1 \in 0 .. id /\ id # 0 /\ id - 1 < id
    OBVIOUS
  <2>2. h[id - 1] = l
    <3>1. \A i \in 0 .. id : i < id => RowsAt(Q, i) = RowsAt(R, i)
      BY <1>7
    <3>2. \A i \in 0 .. id : i < id => h[i] = g[i]
      BY <1>4, <1>11, <3>1
    <3> QED
      BY <2>1, <3>2
  <2>3. g[id] = l
    BY <1>5, <1>7, <2>1 DEF Turn
  <2>4. (CHOOSE x \in RowsAt(Q, id) : TRUE) = p
    BY <1>7
  <2>5. h[id] = ReadRow(l, p, from, to)
    BY <1>5, <1>7, <2>1, <2>2, <2>4 DEF Turn
  <2>6. l \in Loop /\ (p.status = "not-afk" => EndBy(l.open, u))
    BY <1>5, <1>6, <1>7, <2>1
  <2>7. p.status = "not-afk" => p.start <= u /\ u <= p.end
    BY <1>7 DEF HeldUpTo
  <2> HIDE DEF l
  <2>8. Counted(l, from, to) + (IF p.status = "not-afk" THEN Held(u, p.end, from, to) ELSE 0)
          <= Counted(ReadRow(l, p, from, to), from, to) + 1
    BY <2>6, <2>7, AppendedCounts
  <2> QED
    BY <1>7, <2>3, <2>5, <2>8
<1>8. ASSUME NEW r \in MergeTarget(R, e), RowsAt(R, r.id) = {r},
             RowsAt(Q, r.id) = {update_merged(r, e)},
             \A i : i # r.id => RowsAt(Q, i) = RowsAt(R, i)
      PROVE  Counted(g[id], from, to) + extra <= Counted(h[id], from, to) + 1
  <2> DEFINE k == r.id
             l == g[k - 1]
             p == update_merged(r, e)
  <2>1. /\ r \in R /\ r \in Row /\ r.device = e.device /\ ~r.discarded /\ r.status = e.status
        /\ \A q \in R : q.device = e.device /\ ~q.discarded => ~EndsLater(q, r)
    BY DEF MergeTarget, LatestRow
  <2>2. k \in 1 .. id /\ k \in 0 .. id /\ k - 1 \in 0 .. id /\ k # 0 /\ k - 1 < k /\ k \in Nat
    BY <2>1 DEF Row
  <2>3. h[k - 1] = l
    <3>1. k \in Nat /\ \A i \in 0 .. id : i < k => RowsAt(Q, i) = RowsAt(R, i)
      BY <1>8, <2>2
    <3> HIDE DEF k
    <3>2. \A i \in 0 .. id : i < k => h[i] = g[i]
      BY <1>4, <1>11, <3>1
    <3> QED
      BY <2>2, <3>2
  <2>4. (CHOOSE x \in RowsAt(Q, k) : TRUE) = p /\ (CHOOSE x \in RowsAt(R, k) : TRUE) = r
    BY <1>8
  <2>5. g[k] = ReadRow(l, r, from, to)
    BY <1>5, <1>8, <2>2, <2>4 DEF Turn
  <2>6. h[k] = ReadRow(l, p, from, to)
    BY <1>5, <1>8, <2>2, <2>3, <2>4 DEF Turn
  <2>7. l \in Loop /\ (r.status = "not-afk" => EndBy(l.open, u) /\ EndBy(r, u))
    <3>1. r.status = "not-afk" => EndBy(r, u)
      BY <2>1 DEF HeldUpTo, Active
    <3> QED
      BY <1>5, <1>6, <2>1, <2>2, <3>1
  <2>8. IF r.status = "not-afk" THEN Growing(g[k], h[k], l.open, r, c, u, from, to)
                                ELSE Ahead(g[k], h[k], 0)
    <3> HIDE DEF l, k
    <3> QED
      BY <2>1, <2>5, <2>6, <2>7, AtChange DEF c
  <2>9. r.status = "not-afk" => Within(R, k, r) /\ u <= c
    <3> SUFFICES ASSUME r.status = "not-afk"
                 PROVE  Within(R, k, r) /\ u <= c
      OBVIOUS
    <3>1. u <= c /\ r.start <= r.end
      BY <2>1, <2>7 DEF HeldUpTo, EndBy
    <3>2. ASSUME NEW q \in Active(R), q.id > k
          PROVE  q.start <= q.end /\ q.end <= r.end /\ r.start <= q.start + 1
      <4>1. q \in R /\ q \in Row /\ ~q.discarded /\ r \in Active(R)
        BY <2>1 DEF Active
      <4>2. r.start <= q.start + 1 /\ r.device <= q.device /\ q.device <= e.device
        BY <3>2, <4>1, <2>1 DEF InOrder
      <4>3. q.device = e.device
        BY <2>1, <4>1, <4>2 DEF Row, DeviceId, Event
      <4>4. q.end <= r.end
        BY <2>1, <4>1, <4>3 DEF EndsLater, Row
      <4>5. q.start <= q.end
        BY <2>1, <4>1 DEF HeldUpTo, EndBy, Active
      <4> QED
        BY <4>2, <4>4, <4>5
    <3> QED
      BY <3>1, <3>2 DEF Within
  <2>10. l.open.start \in Int /\ l.open.end \in Int
    BY <2>7 DEF Loop
  <2>11. \A i \in 0 .. id : i > k => RowsAt(Q, i) = RowsAt(R, i)
    BY <1>8, <2>2
  <2> DEFINE A == l.open
  <2>12. \/ /\ Growing(g[k], h[k], A, r, c, u, from, to)
            /\ Within(R, k, r) /\ u <= c /\ extra = Held(u, c, from, to)
         \/ Ahead(g[k], h[k], extra)
    <3>1. CASE r.status = "not-afk"
      BY <2>1, <2>8, <2>9, <3>1
    <3>2. CASE r.status # "not-afk"
      BY <2>1, <2>8, <3>2
    <3> QED
      BY <3>1, <3>2
  <2>13. A.start \in Int /\ A.end \in Int
    BY <2>10
  <2>14. r \in Row /\ id \in Nat
    BY <2>1
  <2> HIDE DEF k, l, p, c, extra, A
  <2> QED
    BY <1>3, <1>4, <1>10, <2>2, <2>11, <2>12, <2>13, <2>14, FromChange
<1>9. \/ \E p \in Row :
           /\ p.status = e.status /\ p.start = e.start /\ p.end = e.end
           /\ RowsAt(R, id) = {} /\ RowsAt(Q, id) = {p}
           /\ \A i : i # id => RowsAt(Q, i) = RowsAt(R, i)
      \/ \E r \in MergeTarget(R, e) :
           /\ RowsAt(R, r.id) = {r}
           /\ RowsAt(Q, r.id) = {update_merged(r, e)}
           /\ \A i : i # r.id => RowsAt(Q, i) = RowsAt(R, i)
  BY MergeAt DEF Q
<1> HIDE DEF extra
<1> QED
  BY <1>7, <1>8, <1>9

\* Where the active rows and an active segment in memory lie: no row reaches
\* past the last input by more than a tick, and the rows hold the segment up
\* to the end that the tray counts from.
ActiveBy(R, L) == \A r \in Active(R) : r.start <= r.end /\ r.end <= L + 1

SegmentHeld(R, b, u, L) ==
  b.status = "not-afk" =>
    /\ b.start <= u /\ u <= b.end /\ b.end <= L + 1
    /\ \A r \in Active(R) : r.start <= b.start + 1 /\ r.end <= u + 1

RowsPlaced(R, d, L) == InOrder(R) /\ ActiveBy(R, L) /\ \A r \in R : r.device <= d

MarkerPlaced ==
  phase = "marker" => sample.at = lastInput /\ (~sample.afk => sample.duration = 0)

AheadInv ==
  /\ RowsPlaced(rows, device, lastInput)
  /\ SegmentHeld(rows, buffer, today.upTo, lastInput)
  /\ MarkerPlaced

\* A checkpoint leaves the rows in order and holds the segment to its end.
LEMMA SavedPlaced ==
  ASSUME NEW R, R \subseteq Row, NEW id \in Nat \ {0}, \A r \in R : r.id < id,
         NEW e \in Event, NEW u \in Nat, NEW L \in Nat,
         RowsPlaced(R, e.device, L), SegmentHeld(R, e, u, L)
  PROVE  LET Q == event_store_merge(R, id, e)
         IN  RowsPlaced(Q, e.device, L) /\ SegmentHeld(Q, e, e.end, L)
<1> DEFINE Q   == event_store_merge(R, id, e)
           new == [id |-> id, device |-> e.device, status |-> e.status,
                   start |-> e.start, end |-> e.end, created |-> e.created,
                   sent |-> FALSE, discarded |-> FALSE]
           From(q, r) == /\ q.id = r.id /\ q.device = r.device /\ q.status = r.status
                         /\ q.discarded = r.discarded
                         /\ \/ q.start = r.start /\ q.end = r.end
                            \/ /\ r.status = e.status /\ ~r.discarded
                               /\ q.start = Lower(r.start, e.start)
                               /\ q.end = Higher(r.end, e.end)
<1>1. ASSUME NEW q \in Q
      PROVE  q = new \/ \E r \in R : From(q, r)
  <2>1. CASE MergeTarget(R, e) = {}
    BY <2>1 DEF event_store_merge, event_store_append
  <2>2. CASE MergeTarget(R, e) # {} /\ q \in R
    BY <2>2
  <2>3. CASE MergeTarget(R, e) # {} /\ q \notin R
    <3>1. PICK r \in MergeTarget(R, e) : q = update_merged(r, e)
      BY <2>3 DEF event_store_merge
    <3>2. r \in R /\ r \in Row /\ r.status = e.status /\ ~r.discarded
      BY DEF MergeTarget, LatestRow
    <3>3. From(q, r)
      BY <3>1, <3>2 DEF update_merged, Row
    <3> QED
      BY <3>2, <3>3
  <2> QED
    BY <2>1, <2>2, <2>3
<1>2. /\ new.id = id /\ new.device = e.device /\ new.status = e.status /\ ~new.discarded
      /\ new.start = e.start /\ new.end = e.end
  OBVIOUS
<1>3. e.start \in Int /\ e.end \in Int /\ e.device \in Int /\ \A r \in R : /\ r.id \in Nat /\ r.start \in Int
                                                   /\ r.end \in Int /\ r.device \in Int
  BY DEF Event, Row, DeviceId
<1>4. /\ \A r, q \in Active(R) : r.id < q.id => r.start <= q.start + 1
      /\ \A r, q \in R : r.id < q.id => r.device <= q.device
      /\ \A r \in R : r.device <= e.device
      /\ \A r \in Active(R) : r.start <= r.end /\ r.end <= L + 1
      /\ e.status = "not-afk" => /\ e.start <= u /\ u <= e.end /\ e.end <= L + 1
                                 /\ \A r \in Active(R) : r.start <= e.start + 1 /\ r.end <= u + 1
  BY DEF RowsPlaced, InOrder, ActiveBy, SegmentHeld
<1>5. ASSUME NEW q \in Active(Q)
      PROVE  \/ q = new /\ e.status = "not-afk"
             \/ \E r \in Active(R) : From(q, r)
  BY <1>1, <1>2 DEF Active
<1> HIDE DEF Q, new
<1>6. ASSUME NEW p \in Active(Q), NEW q \in Active(Q), p.id < q.id
      PROVE  p.start <= q.start + 1
  <2>1. CASE p = new
    BY <1>2, <1>3, <1>5, <1>6, <2>1 DEF Active
  <2>2. CASE p # new
    <3>1. PICK r \in Active(R) : From(p, r)
      BY <1>5, <2>2
    <3>2. r \in R /\ p.start \in Int /\ p.start <= r.start
      BY <1>3, <3>1 DEF Lower, Active
    <3>3. CASE q = new
      BY <1>2, <1>3, <1>4, <1>5, <3>1, <3>2, <3>3 DEF Active
    <3>4. CASE q # new
      <4>1. PICK s \in Active(R) : From(q, s)
        BY <1>5, <3>4
      <4>2. r.start <= s.start + 1 /\ s \in R /\ s.status = "not-afk"
        BY <1>4, <1>6, <3>1, <4>1 DEF Active
      <4>3. e.status = "not-afk" => r.start <= e.start + 1
        BY <1>4
      <4> QED
        BY <1>3, <3>2, <4>1, <4>2, <4>3 DEF Lower
    <3> QED
      BY <3>3, <3>4
  <2> QED
    BY <2>1, <2>2
<1>7. ASSUME NEW p \in Q, NEW q \in Q, p.id < q.id
      PROVE  p.device <= q.device
  <2>1. CASE p = new
    BY <1>1, <1>2, <1>3, <1>7, <2>1
  <2>2. CASE p # new
    BY <1>1, <1>2, <1>3, <1>4, <1>7, <2>2
  <2> QED
    BY <2>1, <2>2
<1>8. ASSUME NEW q \in Q
      PROVE  q.device <= e.device
  BY <1>1, <1>2, <1>3, <1>4
<1>9. ASSUME NEW q \in Active(Q)
      PROVE  /\ q.start <= q.end /\ q.end <= L + 1
             /\ e.status = "not-afk" => q.start <= e.start + 1 /\ q.end <= e.end + 1
  <2>1. CASE q = new /\ e.status = "not-afk"
    BY <1>2, <1>3, <1>4, <2>1
  <2>2. ASSUME NEW r \in Active(R), From(q, r)
        PROVE  /\ q.start <= q.end /\ q.end <= L + 1
               /\ e.status = "not-afk" => q.start <= e.start + 1 /\ q.end <= e.end + 1
    <3>1. r \in R /\ r.status = "not-afk"
      BY DEF Active
    <3>2. r.start <= r.end /\ r.end <= L + 1
          /\ (e.status = "not-afk" => /\ e.start <= u /\ u <= e.end /\ e.end <= L + 1
                                      /\ r.start <= e.start + 1 /\ r.end <= u + 1)
      BY <1>4
    <3> QED
      BY <1>3, <2>2, <3>1, <3>2 DEF Lower, Higher
  <2> QED
    BY <1>5, <2>1, <2>2
<1>10. e.status = "not-afk" => e.start <= e.end /\ e.end <= e.end /\ e.end <= L + 1
  BY <1>3, <1>4
<1>11. InOrder(Q) /\ ActiveBy(Q, L)
  BY <1>6, <1>7, <1>9 DEF InOrder, ActiveBy
<1>12. RowsPlaced(Q, e.device, L)
  BY <1>8, <1>11 DEF RowsPlaced
<1>13. SegmentHeld(Q, e, e.end, L)
  BY <1>9, <1>10 DEF SegmentHeld
<1> QED
  BY <1>12, <1>13 DEF Q

\* What a checkpoint of the segment in memory does to the placement.
LEMMA SavePlaced ==
  ASSUME TypeInv, IdsUnique, AheadInv, SaveSegment
  PROVE  /\ RowsPlaced(rows', device, lastInput)
         /\ dirty => SegmentHeld(rows', buffer, buffer.end, lastInput)
         /\ ~dirty => rows' = rows
<1>1. CASE dirty
  <2>1. /\ buffer \in Event /\ buffer.device = device /\ today.upTo \in Nat /\ lastInput \in Nat
        /\ rows \subseteq Row /\ nextId \in Nat \ {0}
    BY <1>1 DEF TypeInv, TypeOK, Consistent, Today
  <2>2. /\ \A r \in rows : r.id < nextId
        /\ RowsPlaced(rows, buffer.device, lastInput)
        /\ SegmentHeld(rows, buffer, today.upTo, lastInput)
    BY <2>1 DEF IdsUnique, AheadInv
  <2>3. rows' = event_store_merge(rows, nextId, buffer)
    BY <1>1 DEF SaveSegment
  <2> QED
    BY <1>1, <2>1, <2>2, <2>3, SavedPlaced
<1>2. CASE ~dirty
  BY <1>2 DEF SaveSegment, journal, AheadInv
<1> QED
  BY <1>1, <1>2

\* What the session records: an active observation is the moment of the last
\* input, or the marker one tick after it.
Observed(e, L) ==
  e.status = "not-afk" => e.start = e.end /\ L <= e.start /\ e.start <= L + 1

LEMMA BufferPlaced ==
  ASSUME TypeInv, IdsUnique, AheadInv, NEW e \in Event, Observed(e, lastInput),
         buffer_afk_event(e) \/ BufferingFails(e)
  PROVE  RowsPlaced(rows', device, lastInput)
         /\ SegmentHeld(rows', buffer', today'.upTo, lastInput)
<1>1. /\ lastInput \in Nat /\ today \in Today /\ rows \subseteq Row /\ buffer \in Event \cup {NoEvent}
      /\ e.start \in Int /\ e.end \in Int /\ today.upTo \in Int
  BY DEF TypeInv, TypeOK, Today, Event
<1>2. CASE ExtendBuffer(e)
  <2>1. rows' = rows /\ today' = today
    BY <1>2 DEF ExtendBuffer, journal
  <2>2. buffer \in Event /\ buffer.status = e.status
    BY <1>1, <1>2 DEF ExtendBuffer, Compatible
  <2>3. /\ buffer'.status = e.status
        /\ buffer'.start = Lower(buffer.start, e.start)
        /\ buffer'.end = Higher(buffer.end, e.end)
        /\ buffer.start \in Int /\ buffer.end \in Int
    BY <1>2, <2>2 DEF ExtendBuffer, Event
  <2>4. CASE e.status = "not-afk"
    <3>1. /\ buffer.start <= today.upTo /\ today.upTo <= buffer.end /\ buffer.end <= lastInput + 1
          /\ \A r \in Active(rows) : r.start <= buffer.start + 1 /\ r.end <= today.upTo + 1
      BY <2>2, <2>4 DEF AheadInv, SegmentHeld
    <3>2. e.start = e.end /\ lastInput <= e.start /\ e.start <= lastInput + 1
      BY <2>4 DEF Observed
    <3>3. buffer'.start <= today.upTo /\ today.upTo <= buffer'.end /\ buffer'.end <= lastInput + 1
      BY <1>1, <2>3, <3>1, <3>2 DEF Lower, Higher
    <3>4. ASSUME NEW r \in Active(rows)
          PROVE  r.start <= buffer'.start + 1 /\ r.end <= today.upTo + 1
      <4>1. r.start \in Int /\ r.end \in Int
        BY <1>1 DEF Active, Row
      <4>2. r.start <= r.end /\ r.end <= lastInput + 1
        BY DEF AheadInv, RowsPlaced, ActiveBy
      <4> QED
        BY <1>1, <2>3, <3>1, <3>2, <4>1, <4>2 DEF Lower
    <3>5. SegmentHeld(rows, buffer', today.upTo, lastInput)
      BY <3>3, <3>4 DEF SegmentHeld
    <3> QED
      BY <2>1, <3>5 DEF AheadInv
  <2>5. CASE e.status # "not-afk"
    BY <2>1, <2>3, <2>5 DEF AheadInv, SegmentHeld
  <2> QED
    BY <2>4, <2>5
<1>3. CASE ReplaceBuffer(e)
  <2>1. RowsPlaced(rows', device, lastInput)
    BY <1>3, SavePlaced DEF ReplaceBuffer, WriteSegment
  <2>2. buffer' = e /\ today'.upTo = e.start
    BY <1>1, <1>3 DEF ReplaceBuffer, Uncached, Today
  <2>3. rows' \subseteq Row
    BY <1>3, WriteType DEF ReplaceBuffer
  <2>4. SegmentHeld(rows', e, e.start, lastInput)
    <3> SUFFICES ASSUME e.status = "not-afk"
                 PROVE  /\ e.start <= e.start /\ e.start <= e.end /\ e.end <= lastInput + 1
                        /\ \A r \in Active(rows') : r.start <= e.start + 1 /\ r.end <= e.start + 1
      BY DEF SegmentHeld
    <3>1. e.start = e.end /\ lastInput <= e.start /\ e.start <= lastInput + 1
      BY DEF Observed
    <3>2. ASSUME NEW r \in Active(rows')
          PROVE  r.start <= e.start + 1 /\ r.end <= e.start + 1
      <4>1. r.start \in Int /\ r.end \in Int
        BY <2>3 DEF Active, Row
      <4>2. r.start <= r.end /\ r.end <= lastInput + 1
        BY <2>1 DEF RowsPlaced, ActiveBy
      <4> QED
        BY <1>1, <3>1, <4>1, <4>2
    <3> QED
      BY <1>1, <3>1, <3>2
  <2> QED
    BY <2>1, <2>2, <2>4
<1>4. CASE BufferingFails(e)
  BY <1>4 DEF BufferingFails, CheckpointFails, journal, segment, AheadInv
<1> QED
  BY <1>2, <1>3, <1>4 DEF buffer_afk_event

LEMMA CheckpointPlaced ==
  ASSUME TypeInv, IdsUnique, AheadInv, checkpoint_buffered_event \/ CheckpointFails
  PROVE  RowsPlaced(rows', device, lastInput)
         /\ SegmentHeld(rows', buffer', today'.upTo, lastInput)
<1>1. CASE checkpoint_buffered_event
  <2>1. RowsPlaced(rows', device, lastInput) /\ buffer' = buffer
    BY <1>1, SavePlaced DEF checkpoint_buffered_event, WriteSegment
  <2>2. CASE dirty
    <3>1. today'.upTo = buffer.end
      BY <1>1, <2>2 DEF checkpoint_buffered_event, Uncached
    <3>2. SegmentHeld(rows', buffer, buffer.end, lastInput)
      BY <1>1, <2>2, SavePlaced DEF checkpoint_buffered_event, WriteSegment
    <3> QED
      BY <2>1, <3>1, <3>2
  <2>3. CASE ~dirty
    <3>1. today' = today /\ rows' = rows
      BY <1>1, <2>3 DEF checkpoint_buffered_event, WriteSegment, SaveSegment, journal
    <3> QED
      BY <2>1, <3>1 DEF AheadInv
  <2> QED
    BY <2>2, <2>3
<1>2. CASE CheckpointFails
  BY <1>2 DEF CheckpointFails, journal, segment, AheadInv
<1> QED
  BY <1>1, <1>2

\* A step that at most thins the journal keeps the placement, when it leaves
\* the segment alone or forgets it; time may pass, and the device may change.
LEMMA QuietPlaced ==
  ASSUME TypeInv, AheadInv, ThinnedRows,
         lastInput' \in Nat, lastInput <= lastInput', device' \in Nat, device <= device',
         \/ buffer' = buffer /\ today'.upTo = today.upTo
         \/ buffer' = NoEvent
  PROVE  RowsPlaced(rows', device', lastInput')
         /\ SegmentHeld(rows', buffer', today'.upTo, lastInput')
<1>1. /\ rows \subseteq Row /\ lastInput \in Nat /\ device \in Nat /\ rows' \subseteq Row
      /\ buffer \in Event \cup {NoEvent} /\ today.upTo \in Nat
  <2>1. rows \subseteq Row /\ today \in Today
    BY DEF TypeInv, TypeOK
  <2>2. rows' \subseteq Row
    BY <2>1, UpdateType DEF ThinnedRows
  <2> QED
    BY <2>1, <2>2 DEF TypeInv, TypeOK, DeviceId, Today
<1>2. /\ InOrder(rows) /\ ActiveBy(rows, lastInput) /\ \A r \in rows : r.device <= device
      /\ SegmentHeld(rows, buffer, today.upTo, lastInput)
  BY DEF AheadInv, RowsPlaced
<1>3. \A q \in rows' : \E r \in rows :
        /\ r.id = q.id /\ r.device = q.device /\ r.start = q.start /\ r.end = q.end
        /\ (q \in Active(rows') => r \in Active(rows))
  BY ThinnedFrom DEF SameInterval, Active
<1>4. \A q \in Active(rows') : \E r \in Active(rows) :
        r.id = q.id /\ r.start = q.start /\ r.end = q.end
  BY <1>3 DEF Active
<1>5. InOrder(rows')
  BY <1>2, <1>3, <1>4 DEF InOrder
<1>6. ActiveBy(rows', lastInput')
  <2> SUFFICES ASSUME NEW q \in Active(rows')
               PROVE  q.start <= q.end /\ q.end <= lastInput' + 1
    BY DEF ActiveBy
  <2>1. PICK r \in Active(rows) : r.id = q.id /\ r.start = q.start /\ r.end = q.end
    BY <1>4
  <2>2. q.start <= q.end /\ q.end <= lastInput + 1 /\ q.end \in Int
    BY <1>1, <1>2, <2>1 DEF ActiveBy, Active, Row
  <2> QED
    BY <1>1, <2>2
<1>7. ASSUME NEW q \in rows'
      PROVE  q.device <= device'
  <2>1. q.device <= device /\ q.device \in Int
    BY <1>1, <1>2, <1>3 DEF Row, DeviceId
  <2> QED
    BY <1>1, <2>1
<1>8. SegmentHeld(rows', buffer', today'.upTo, lastInput')
  <2>1. CASE buffer' = buffer /\ today'.upTo = today.upTo
    <3> SUFFICES ASSUME buffer.status = "not-afk"
                 PROVE  SegmentHeld(rows', buffer, today.upTo, lastInput')
      BY <2>1 DEF SegmentHeld
    <3>1. /\ buffer.start <= today.upTo /\ today.upTo <= buffer.end /\ buffer.end <= lastInput + 1
          /\ \A r \in Active(rows) : r.start <= buffer.start + 1 /\ r.end <= today.upTo + 1
      BY <1>2 DEF SegmentHeld
    <3>2. buffer.end \in Nat
      BY <1>1 DEF NoEvent, Event
    <3>3. buffer.end <= lastInput' + 1
      BY <1>1, <3>1, <3>2
    <3> QED
      BY <1>4, <3>1, <3>3 DEF SegmentHeld
  <2>2. CASE buffer' = NoEvent
    BY <2>2 DEF SegmentHeld, NoEvent
  <2> QED
    BY <2>1, <2>2
<1> QED
  BY <1>5, <1>6, <1>7, <1>8 DEF RowsPlaced

\* The samples of the session are observed.
LEMMA SampleObserved ==
  ASSUME TypeInv, NEW s, s = afk_update(now - lastInput)
  PROVE  /\ s \in Sample /\ s.at = lastInput /\ (~s.afk => s.duration = 0)
         /\ \A b \in BOOLEAN : /\ AfkEvent(b, s.at, 0) \in Event
                               /\ Observed(AfkEvent(b, s.at, 0), lastInput)
         /\ AfkEvent(s.afk, s.at, s.duration) \in Event
         /\ Observed(AfkEvent(s.afk, s.at, s.duration), lastInput)
<1>1. s \in Sample
  BY SampleType
<1>2. s.at = lastInput /\ (~s.afk => s.duration = 0) /\ lastInput \in Nat
  <2>1. now \in Nat /\ lastInput \in Nat /\ AfkTimeout \in Nat
    BY ConstantsAssumption DEF TypeInv, TypeOK
  <2> QED
    BY <2>1, SampleTaken
<1>3. ASSUME NEW b \in BOOLEAN, NEW t \in Nat
      PROVE  /\ AfkEvent(b, lastInput, t) \in Event
             /\ AfkEvent(b, lastInput, t).status = StatusOf(b)
             /\ AfkEvent(b, lastInput, t).start = lastInput
             /\ AfkEvent(b, lastInput, t).end = lastInput + t
  BY <1>2, AfkEventType DEF AfkEvent
<1>4. ASSUME NEW b \in BOOLEAN, NEW t \in Nat, ~b => t = 0
      PROVE  Observed(AfkEvent(b, lastInput, t), lastInput)
  BY <1>2, <1>3, <1>4 DEF Observed, StatusOf
<1> QED
  BY <1>1, <1>2, <1>3, <1>4 DEF Sample

LEMMA MarkerObserved ==
  ASSUME TypeInv, AheadInv, phase = "marker",
         NEW e, e = AfkEvent(sample.afk, sample.at + 1, sample.duration)
  PROVE  e \in Event /\ Observed(e, lastInput)
<1>1. sample \in Sample /\ lastInput \in Nat /\ sample.at = lastInput
      /\ (~sample.afk => sample.duration = 0)
  BY DEF TypeInv, TypeOK, AheadInv, MarkerPlaced
<1>2. e \in Event
  BY <1>1, AfkEventType DEF Sample
<1>3. /\ e.status = StatusOf(sample.afk) /\ e.start = lastInput + 1
      /\ e.end = lastInput + 1 + sample.duration
  BY <1>1 DEF AfkEvent
<1> QED
  BY <1>1, <1>2, <1>3 DEF Observed, StatusOf

\* The new status is marked right after the last input was sampled: time does
\* not pass between the two markers.
LEMMA MarkerStep == TypeInv /\ AheadInv /\ [Next]_vars => MarkerPlaced'
<1> SUFFICES ASSUME TypeInv, AheadInv, [Next]_vars
             PROVE  MarkerPlaced'
  OBVIOUS
<1>1. CASE UNCHANGED <<phase, sample, lastInput>>
  BY <1>1 DEF AheadInv, MarkerPlaced
<1>2. CASE phase' # "marker"
  BY <1>2 DEF MarkerPlaced
<1>3. CASE SampleNewStatus
  <2>1. CASE phase' = "marker"
    <3>1. sample' = afk_update(now - lastInput) /\ lastInput' = lastInput
      BY <1>3, <2>1 DEF SampleNewStatus, outside, world
    <3>2. sample'.at = lastInput /\ (~sample'.afk => sample'.duration = 0)
      BY <3>1, SampleObserved
    <3> QED
      BY <3>1, <3>2 DEF MarkerPlaced
  <2> QED
    BY <1>2, <2>1
<1>4. CASE StartSession \/ StartFails \/ OpenBucket \/ Poll \/ SkipSample
  BY <1>1, <1>2, <1>4 DEF StartSession, StartFails, OpenBucket, Poll, SkipSample,
                          locals, outside, world
<1>5. CASE SampleSameStatus \/ MarkNewStatus \/ SaveTransition
  BY <1>2, <1>5 DEF SampleSameStatus, MarkNewStatus, SaveTransition
<1>6. CASE PeriodicCheckpoint \/ EnsureBucket \/ ReadPending \/ ReplayDone \/ ReadPendingFails
  BY <1>2, <1>6 DEF PeriodicCheckpoint, EndOrFlush, EnsureBucket, ReadPending, ReplayDone,
                    ReadPendingFails, PollEnds
<1>7. CASE PostRow \/ PostRowFails \/ MarkSent \/ MarkSentFails \/ RequestEnds
  BY <1>2, <1>7 DEF PostRow, PostRowFails, MarkSent, MarkSentFails, RequestEnds, PollEnds
<1>8. CASE Unauthorized \/ CheckpointLast \/ DiscardPending
  BY <1>2, <1>8 DEF Unauthorized, CheckpointLast, DiscardPending
<1>9. CASE Owner \/ Crash
  BY <1>2, <1>9 DEF Owner, tracker_session_tracked_today, tracker_session_cleanup, Crash
<1>10. CASE Tick \/ Login
  BY <1>2, <1>10 DEF Tick, Login
<1>11. CASE Revoke \/ tracker_discard_pending_events \/ UNCHANGED vars
  BY <1>1, <1>11 DEF Revoke, tracker_discard_pending_events, vars, locals, outside, world
<1> QED
  BY <1>3, <1>4, <1>5, <1>6, <1>7, <1>8, <1>9, <1>10, <1>11 DEF Next, Session, World

\* The steps that record or checkpoint keep the placement.
LEMMA RecordPlaced ==
  ASSUME TypeInv, IdsUnique, AheadInv,
         \/ SampleSameStatus \/ SampleNewStatus \/ MarkNewStatus
         \/ SaveTransition \/ CheckpointLast
         \/ PeriodicCheckpoint /\ (checkpoint_buffered_event \/ CheckpointFails)
         \/ tracker_session_cleanup
  PROVE  RowsPlaced(rows', device', lastInput')
         /\ SegmentHeld(rows', buffer', today'.upTo, lastInput')
<1>1. CASE SampleSameStatus
  <2>1. PICK e : /\ e = AfkEvent(afk_update(now - lastInput).afk, afk_update(now - lastInput).at,
                                 afk_update(now - lastInput).duration)
                 /\ buffer_afk_event(e) \/ BufferingFails(e)
    BY <1>1 DEF SampleSameStatus
  <2>2. e \in Event /\ Observed(e, lastInput)
    BY <2>1, SampleObserved
  <2>3. device' = device /\ lastInput' = lastInput
    BY <1>1 DEF SampleSameStatus, outside, world
  <2> QED
    BY <2>1, <2>2, <2>3, BufferPlaced
<1>2. CASE SampleNewStatus
  <2>1. PICK e : /\ e = AfkEvent(afk, afk_update(now - lastInput).at, 0)
                 /\ buffer_afk_event(e) \/ BufferingFails(e)
    BY <1>2 DEF SampleNewStatus
  <2>2. afk \in BOOLEAN
    BY DEF TypeInv, TypeOK
  <2>3. e \in Event /\ Observed(e, lastInput)
    BY <2>1, <2>2, SampleObserved
  <2>4. device' = device /\ lastInput' = lastInput
    BY <1>2 DEF SampleNewStatus, outside, world
  <2> QED
    BY <2>1, <2>3, <2>4, BufferPlaced
<1>3. CASE MarkNewStatus
  <2>1. PICK e : /\ e = AfkEvent(sample.afk, sample.at + 1, sample.duration)
                 /\ buffer_afk_event(e) \/ BufferingFails(e)
    BY <1>3 DEF MarkNewStatus
  <2>2. e \in Event /\ Observed(e, lastInput)
    BY <1>3, <2>1, MarkerObserved DEF MarkNewStatus
  <2>3. device' = device /\ lastInput' = lastInput
    BY <1>3 DEF MarkNewStatus, outside, world
  <2> QED
    BY <2>1, <2>2, <2>3, BufferPlaced
<1>4. CASE \/ SaveTransition \/ CheckpointLast
           \/ PeriodicCheckpoint /\ (checkpoint_buffered_event \/ CheckpointFails)
  <2>1. device' = device /\ lastInput' = lastInput
    BY <1>4 DEF SaveTransition, CheckpointLast, PeriodicCheckpoint, outside, world
  <2>2. checkpoint_buffered_event \/ CheckpointFails
    BY <1>4 DEF SaveTransition, CheckpointLast
  <2> QED
    BY <2>1, <2>2, CheckpointPlaced
<1>5. CASE tracker_session_cleanup
  <2>1. device' = device /\ lastInput' = lastInput /\ buffer' = NoEvent
    BY <1>5 DEF tracker_session_cleanup, ForgetMemory, outside, world
  <2>2. RowsPlaced(rows', device, lastInput)
    BY <1>5, SavePlaced DEF tracker_session_cleanup, journal, AheadInv
  <2> QED
    BY <2>1, <2>2 DEF SegmentHeld, NoEvent
<1> QED
  BY <1>1, <1>2, <1>3, <1>4, <1>5

\* The other steps thin the journal at most.
Unrecorded ==
  /\ ThinnedRows
  /\ device' = device /\ lastInput' = lastInput
  /\ \/ buffer' = buffer /\ today'.upTo = today.upTo
     \/ buffer' = NoEvent

LEMMA UnrecordedStep ==
  ASSUME TypeInv,
         \/ StartSession \/ StartFails \/ OpenBucket \/ Poll \/ SkipSample
         \/ PeriodicCheckpoint /\ UNCHANGED <<journal, segment>>
         \/ EnsureBucket \/ ReadPending \/ ReplayDone \/ ReadPendingFails
         \/ PostRow \/ PostRowFails \/ MarkSent \/ MarkSentFails \/ RequestEnds
         \/ Unauthorized \/ DiscardPending \/ Crash
         \/ tracker_session_tracked_today \/ Revoke \/ tracker_discard_pending_events
         \/ UNCHANGED vars
  PROVE  Unrecorded
<1> USE DEF Unrecorded, ThinnedRows, journal, segment, memory, outside, world
<1>1. CASE StartSession \/ StartFails \/ OpenBucket \/ Poll \/ SkipSample
  BY <1>1 DEF StartSession, StartFails, OpenBucket, Poll, SkipSample
<1>2. CASE PeriodicCheckpoint /\ UNCHANGED <<journal, segment>>
  BY <1>2 DEF PeriodicCheckpoint
<1>3. CASE EnsureBucket \/ ReadPending \/ ReplayDone \/ ReadPendingFails \/ RequestEnds
  BY <1>3 DEF EnsureBucket, ReadPending, ReplayDone, ReadPendingFails, RequestEnds
<1>4. CASE PostRow \/ PostRowFails \/ MarkSent \/ MarkSentFails \/ Unauthorized
  BY <1>4 DEF PostRow, PostRowFails, MarkSent, MarkSentFails, Unauthorized
<1>5. CASE DiscardPending \/ Crash
  BY <1>5 DEF DiscardPending, Crash, ForgetMemory
<1>6. CASE tracker_session_tracked_today
  <2>1. today \in Today
    BY DEF TypeInv, TypeOK
  <2>2. today'.upTo = today.upTo
    BY <1>6, <2>1 DEF tracker_session_tracked_today, Today
  <2> QED
    BY <1>6, <2>2 DEF tracker_session_tracked_today
<1>7. CASE Revoke \/ tracker_discard_pending_events \/ UNCHANGED vars
  BY <1>7 DEF Revoke, tracker_discard_pending_events, vars
<1> QED
  BY <1>1, <1>2, <1>3, <1>4, <1>5, <1>6, <1>7

LEMMA AheadStep == TypeInv /\ IdsUnique /\ AheadInv /\ [Next]_vars => AheadInv'
<1> SUFFICES ASSUME TypeInv, IdsUnique, AheadInv, [Next]_vars
             PROVE  RowsPlaced(rows', device', lastInput')
                    /\ SegmentHeld(rows', buffer', today'.upTo, lastInput')
  BY MarkerStep DEF AheadInv
<1>0. lastInput \in Nat /\ device \in Nat /\ now \in Nat /\ lastInput <= now
  BY DEF TypeInv, TypeOK, Consistent, DeviceId
<1>1. CASE Unrecorded
  BY <1>0, <1>1, QuietPlaced DEF Unrecorded
<1>2. CASE Tick
  <2>1. /\ lastInput' \in Nat /\ lastInput <= lastInput' /\ device' = device
        /\ ThinnedRows /\ buffer' = buffer /\ today' = today
    BY <1>0, <1>2 DEF Tick, ThinnedRows, journal, memory, segment
  <2> QED
    BY <1>0, <2>1, QuietPlaced
<1>3. CASE Login
  <2>1. /\ device' \in Nat /\ device <= device' /\ lastInput' = lastInput
        /\ ThinnedRows /\ buffer' = buffer /\ today' = today
    BY <1>0, <1>3 DEF Login, ThinnedRows, journal, memory, segment
  <2> QED
    BY <1>0, <2>1, QuietPlaced
<1>4. CASE PeriodicCheckpoint
  <2>1. \/ PeriodicCheckpoint /\ (checkpoint_buffered_event \/ CheckpointFails)
        \/ PeriodicCheckpoint /\ UNCHANGED <<journal, segment>>
    BY <1>4 DEF PeriodicCheckpoint
  <2> QED
    BY <1>1, <2>1, RecordPlaced, UnrecordedStep
<1> QED
  BY <1>1, <1>2, <1>3, <1>4, RecordPlaced, UnrecordedStep DEF Next, Session, Owner, World

LEMMA AheadInit == Init => AheadInv
<1> SUFFICES ASSUME Init PROVE AheadInv
  OBVIOUS
<1>1. rows = {} /\ buffer = NoEvent /\ phase = "off"
  BY DEF Init
<1> QED
  BY <1>1 DEF AheadInv, RowsPlaced, InOrder, ActiveBy, Active, SegmentHeld, NoEvent, MarkerPlaced

\* The placement makes the rows hold the segment up to the end that the tray
\* counts from.
LEMMA SegmentHeldUpTo ==
  ASSUME TypeInv, AheadInv, dirty
  PROVE  HeldUpTo(rows, buffer, today.upTo)
  BY DEF AheadInv, SegmentHeld, RowsPlaced, ActiveBy, HeldUpTo, EndBy

LEMMA TrayBounded == TypeInv /\ IdsUnique /\ TrayInv /\ AheadInv => TrayNotAhead
<1> SUFFICES ASSUME TypeInv, IdsUnique, TrayInv, AheadInv, Showing, dirty
             PROVE  TodayTotal <= DayTotal(event_store_merge(rows, nextId, buffer), now) + 1
  BY DEF TrayNotAhead
<1>1. /\ rows \subseteq Row /\ nextId \in Nat \ {0} /\ buffer \in Event /\ today.upTo \in Nat
      /\ buffer.device = device
  BY DEF TypeInv, TypeOK, Consistent, Today
<1>2. IdsOnce(rows) /\ \A r \in rows : r.id < nextId
  BY DEF IdsUnique, IdsOnce
<1>3. InOrder(rows) /\ \A r \in rows : r.device <= buffer.device
  BY <1>1 DEF AheadInv, RowsPlaced
<1>4. HeldUpTo(rows, buffer, today.upTo)
  BY SegmentHeldUpTo
<1> DEFINE from  == Midnight(now)
           to    == Midnight(now) + DayLength
<1>5. from \in Int /\ to \in Int
  BY DayTypes
<1>6. event_store_tracked_seconds(rows, nextId, from, to)
        + tracked_overlap([buffer EXCEPT !.start = today.upTo], from, to)
        <= event_store_tracked_seconds(event_store_merge(rows, nextId, buffer), nextId, from, to) + 1
  <2> HIDE DEF from, to
  <2> QED
    BY <1>1, <1>2, <1>3, <1>4, <1>5, MergeTotal
<1>7. TodayTotal = DayTotal(rows, now) + tracked_overlap([buffer EXCEPT !.start = today.upTo], from, to)
  BY CachedTotal DEF TodayTotal
<1> QED
  BY <1>6, <1>7 DEF DayTotal

\* Whenever the tray shows the total of the day, and no row it counted has
\* been withdrawn since, it shows at most a tick more than the journal will
\* count once the segment in memory is checkpointed, whatever failed before.
THEOREM TrayShowsNoMore == Spec => []TrayNotAhead
<1>1. Init => IdsUnique /\ TrayInv
  BY DEF Init, IdsUnique, TrayInv, Uncached
<1> QED
  BY <1>1, AheadInit, AheadStep, TrayStep, TrayBounded, IdsStep, InitType, StepType, PTL DEF Spec
=============================================================================
