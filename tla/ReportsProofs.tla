----------------------------- MODULE ReportsProofs -----------------------------
(***************************************************************************)
(* Theorems about Reports, for every set of users, every retention and     *)
(* every time of the cleanup.                                              *)
(***************************************************************************)
EXTENDS Reports, ActivityProofs, FiniteSetTheorems

\* What a range admitted by the check can hold has not been deleted when its
\* query runs: at midnight the window moves, but the cleanup comes later.
LEMMA AdmittedIsKept ==
  ASSUME Inv, NEW start \in Int, NEW end, Admitted(start, end)
  PROVE  Cutoff \in Int /\ Cutoff <= start
<1> DEFINE kept == (RetainedDays - 1) * Day
<1>1. /\ kept \in Int /\ Day \in Nat /\ CleanupAt \in Nat /\ ReportDelay \in Nat
      /\ ReportDelay <= CleanupAt
  BY ActivityAssumption, ReportsAssumption
<1>2. \A today : retentionWindow(today).start = today - kept
  BY DEF retentionWindow
<1>3. now \in Nat /\ midnight \in Nat
  BY DEF Inv, TypeOK
<1>4. PICK today \in CheckedOn : today - kept <= start
  BY <1>2 DEF Admitted, assertRangeWithinRetention
<1>5. Cutoff = (IF now - midnight < CleanupAt THEN midnight - Day ELSE midnight) - kept
  BY <1>2 DEF Cutoff
<1> HIDE DEF kept
<1>6. CASE today = midnight
  BY <1>1, <1>3, <1>4, <1>5, <1>6
<1>7. CASE today = midnight - Day /\ now - ReportDelay < midnight
  BY <1>1, <1>3, <1>4, <1>5, <1>7
<1> QED
  BY <1>4, <1>6, <1>7 DEF CheckedOn

\* The timeline shows every acknowledged heartbeat of a range that was checked
\* against the retention window, also when midnight has passed since.
THEOREM TimelineHolds == Spec => []TimelineComplete
<1>1. Inv /\ AcknowledgedIsStored => TimelineComplete
  <2> SUFFICES ASSUME Inv, AcknowledgedIsStored, NEW u \in Users,
                      NEW start \in 0 .. MaxNow, NEW end \in 0 .. MaxNow,
                      Admitted(start, end), NEW h \in Acknowledged(u, start, end)
               PROVE  \E r \in eventsForHostname(u, start, end) : Covers(r, h)
    BY DEF TimelineComplete
  <2>1. h \in stored /\ h.user = u /\ h.start < end /\ h.end > start
    BY DEF Acknowledged
  <2>2. h \in Heartbeat /\ h.start \in Nat /\ h.end \in Nat /\ start \in Int /\ end \in Int
    BY <2>1 DEF Inv, TypeOK, Heartbeat
  <2>3. h.end >= Cutoff
    BY <2>1, <2>2, AdmittedIsKept
  <2>4. PICK r \in rows : Covers(r, h)
    BY <2>1, <2>3 DEF AcknowledgedIsStored
  <2>5. r.start \in Nat /\ r.end \in Nat
    BY <2>4 DEF Inv, TypeOK, AfkEventRecord
  <2>6. r.user = u /\ r.start < end /\ r.end > start
    BY <2>1, <2>2, <2>4, <2>5 DEF Covers
  <2> QED
    BY <2>4, <2>6 DEF eventsForHostname, Overlapping
<1> QED
  BY <1>1, AcknowledgedStays, Invariance, PTL

-----------------------------------------------------------------------------
(***************************************************************************)
(* The daily report.  Its sum over rows is the number of ticks the rows    *)
(* hold, counted once per row; so it cannot be less than the number of     *)
(* ticks in which some row says that the user was active.                  *)
(***************************************************************************)
\* Induction over a finite set, for a property given as a set of subsets.
LEMMA SubsetInduction ==
  ASSUME NEW S, IsFiniteSet(S), NEW T \in SUBSET SUBSET S,
         \A U \in SUBSET S : (\A V \in SUBSET U : V # U => V \in T) => U \in T
  PROVE  \A U \in SUBSET S : U \in T
<1> DEFINE Bad == {U \in SUBSET S : U \notin T}
<1> SUFFICES ASSUME Bad # {} PROVE FALSE
  OBVIOUS
<1>1. FiniteSubsetsOf(S) = SUBSET S
  BY FS_FiniteSubsetsOfFinite
<1>2. PICK U \in Bad : \A V \in Bad : ~(<<V, U>> \in StrictSubsetOrdering(S))
  <2>1. IsWellFoundedOn(StrictSubsetOrdering(S), SUBSET S)
    <3>1. IsWellFoundedOn(StrictSubsetOrdering(S), FiniteSubsetsOf(S))
      BY FS_StrictSubsetOrderingWellFounded
    <3> QED
      BY <1>1, <3>1
  <2>2. Bad \subseteq SUBSET S /\ Bad # {}
    OBVIOUS
  <2> HIDE DEF Bad
  <2> QED
    BY <2>1, <2>2, WFMin
<1>3. ASSUME NEW V \in SUBSET U, V # U
      PROVE  V \in T
  BY <1>2, <1>3 DEF StrictSubsetOrdering
<1> QED
  BY <1>2, <1>3

\* The time of the row r in a range.
Share(r, start, end) == Earlier(r.end, end) - Later(r.start, start)

Sums(g, S, start, end) ==
  g = [s \in SUBSET S |->
         IF s = {} THEN 0
         ELSE LET x == CHOOSE x \in s : TRUE
              IN  Share(x, start, end) + g[s \ {x}]]

\* The active rows of a user in a range.
ActiveRows(u, start, end) == {r \in Overlapping(u, start, end) : r.status = "not-afk"}

LEMMA ReportUnfolds ==
  ASSUME NEW u \in Users, NEW start, NEW end, NEW S, S = ActiveRows(u, start, end)
  PROVE  usersForDay(start, end)[u] = (CHOOSE g : Sums(g, S, start, end))[S]
<1>1. usersForDay(start, end)[u] =
        MapThenSumSet(LAMBDA r : Earlier(r.end, end) - Later(r.start, start),
                      ActiveRows(u, start, end))
  BY DEF usersForDay, ActiveRows, MapThenSumSet, MapThenFoldSet
<1>2. MapThenSumSet(LAMBDA r : Earlier(r.end, end) - Later(r.start, start), S)
        = (CHOOSE g : Sums(g, S, start, end))[S]
  BY DEF MapThenSumSet, MapThenFoldSet, Sums, Share
<1> QED
  BY <1>1, <1>2 DEF MapThenSumSet, MapThenFoldSet

\* The ticks of the range each row holds, one by one.
RowTicks(s, start, end) ==
  {p \in s \X Int : Later(p[1].start, start) <= p[2] /\ p[2] < Earlier(p[1].end, end)}

InRange(s, start, end) ==
  \A r \in s : r.start \in Int /\ r.end \in Int /\ Share(r, start, end) >= 0

\* A row adds as many of them as its share is long.
LEMMA RowTicksOfOne ==
  ASSUME NEW s, NEW start \in Int, NEW end \in Int, InRange(s, start, end),
         NEW x \in s, IsFiniteSet(RowTicks(s \ {x}, start, end))
  PROVE  /\ IsFiniteSet(RowTicks(s, start, end))
         /\ Cardinality(RowTicks(s, start, end)) =
              Share(x, start, end) + Cardinality(RowTicks(s \ {x}, start, end))
<1> DEFINE lo == Later(x.start, start)
           hi == Earlier(x.end, end)
           A == RowTicks(s, start, end)
           B == RowTicks(s \ {x}, start, end)
           I == lo .. hi - 1
           C == {x} \X I
<1>1. lo \in Int /\ hi \in Int /\ hi - lo >= 0 /\ Share(x, start, end) = hi - lo
  BY DEF InRange, Share, Earlier, Later
<1>2. A = B \cup C /\ B \cap C = {}
  <2>1. \A i \in Int : i \in lo .. hi - 1 <=> lo <= i /\ i < hi
    BY <1>1
  <2>2. \A p \in A : p \in B \cup C
    BY <2>1 DEF RowTicks
  <2>3. \A p \in B \cup C : p \in A
    BY <2>1 DEF RowTicks
  <2>4. \A p \in B : p \notin C
    BY DEF RowTicks
  <2> QED
    BY <2>2, <2>3, <2>4
<1>3. IsFiniteSet(I) /\ Cardinality(I) = hi - lo
  <2>1. hi - 1 \in Int
    BY <1>1
  <2>2. IsFiniteSet(I) /\ Cardinality(I) = IF lo > hi - 1 THEN 0 ELSE hi - 1 - lo + 1
    BY <1>1, <2>1, FS_Interval
  <2> QED
    BY <1>1, <2>2
<1> HIDE DEF lo, hi, A, B, I
<1>4. IsFiniteSet(C) /\ Cardinality(C) = hi - lo
  <2>1. IsFiniteSet({x}) /\ Cardinality({x}) = 1
    BY FS_Singleton
  <2>2. IsFiniteSet(C) /\ Cardinality(C) = Cardinality({x}) * Cardinality(I)
    BY <1>3, <2>1, FS_Product
  <2> QED
    BY <1>1, <1>3, <2>1, <2>2
<1> HIDE DEF C
<1>5. IsFiniteSet(B) /\ Cardinality(B) \in Nat
  BY FS_CardinalityType DEF B
<1>6. IsFiniteSet(A) /\ Cardinality(A) = Cardinality(B) + Cardinality(C) - Cardinality(B \cap C)
  BY <1>2, <1>4, <1>5, FS_Union
<1>7. Cardinality(B \cap C) = 0
  BY <1>2, FS_EmptySet
<1>8. IsFiniteSet(A) /\ Cardinality(A) = Share(x, start, end) + Cardinality(B)
  BY <1>1, <1>4, <1>5, <1>6, <1>7
<1> QED
  BY <1>8 DEF A, B

LEMMA RowTicksFinite ==
  ASSUME NEW S, IsFiniteSet(S), NEW start \in Int, NEW end \in Int, InRange(S, start, end)
  PROVE  \A s \in SUBSET S : IsFiniteSet(RowTicks(s, start, end))
<1> DEFINE T == {s \in SUBSET S : IsFiniteSet(RowTicks(s, start, end))}
<1>1. ASSUME NEW s \in SUBSET S, \A v \in SUBSET s : v # s => v \in T
      PROVE  s \in T
  <2>1. CASE s = {}
    <3>1. RowTicks({}, start, end) = {}
      BY DEF RowTicks
    <3> QED
      BY <2>1, <3>1, FS_EmptySet
  <2>2. CASE s # {}
    <3>1. PICK x \in s : TRUE
      BY <2>2
    <3>2. s \ {x} \in T
      BY <1>1
    <3>3. InRange(s, start, end)
      BY DEF InRange
    <3> QED
      BY <3>1, <3>2, <3>3, RowTicksOfOne
  <2> QED
    BY <2>1, <2>2
<1>2. T \in SUBSET SUBSET S
  OBVIOUS
<1> HIDE DEF T
<1>3. \A s \in SUBSET S : s \in T
  BY <1>1, <1>2, SubsetInduction
<1> QED
  BY <1>3 DEF T

LEMMA SumsExist ==
  ASSUME NEW S, IsFiniteSet(S), NEW start \in Int, NEW end \in Int, InRange(S, start, end)
  PROVE  \E g : Sums(g, S, start, end)
<1> DEFINE g == [s \in SUBSET S |-> Cardinality(RowTicks(s, start, end))]
<1>1. ASSUME NEW s \in SUBSET S
      PROVE  g[s] = IF s = {} THEN 0
                    ELSE LET x == CHOOSE x \in s : TRUE
                         IN  Share(x, start, end) + g[s \ {x}]
  <2>1. CASE s = {}
    <3>1. RowTicks({}, start, end) = {}
      BY DEF RowTicks
    <3> QED
      BY <2>1, <3>1, FS_EmptySet
  <2>2. CASE s # {}
    <3> DEFINE x == CHOOSE x \in s : TRUE
    <3>1. x \in s
      BY <2>2
    <3>2. InRange(s, start, end) /\ IsFiniteSet(RowTicks(s \ {x}, start, end))
      BY RowTicksFinite DEF InRange
    <3>3. Cardinality(RowTicks(s, start, end)) =
            Share(x, start, end) + Cardinality(RowTicks(s \ {x}, start, end))
      <4> HIDE DEF x
      <4> QED
        BY <3>1, <3>2, RowTicksOfOne
    <3> QED
      BY <2>2, <3>3
  <2> QED
    BY <2>1, <2>2
<1>2. Sums(g, S, start, end)
  BY <1>1 DEF Sums
<1> QED
  BY <1>2

LEMMA SumsCount ==
  ASSUME NEW S, IsFiniteSet(S), NEW start \in Int, NEW end \in Int, InRange(S, start, end),
         NEW g, Sums(g, S, start, end)
  PROVE  g[S] = Cardinality(RowTicks(S, start, end))
<1> DEFINE T == {s \in SUBSET S : g[s] = Cardinality(RowTicks(s, start, end))}
<1>1. ASSUME NEW s \in SUBSET S, \A v \in SUBSET s : v # s => v \in T
      PROVE  s \in T
  <2>0. g[s] = IF s = {} THEN 0
               ELSE LET x == CHOOSE x \in s : TRUE
                    IN  Share(x, start, end) + g[s \ {x}]
    BY DEF Sums
  <2>1. CASE s = {}
    <3>1. RowTicks({}, start, end) = {}
      BY DEF RowTicks
    <3> QED
      BY <2>0, <2>1, <3>1, FS_EmptySet
  <2>2. CASE s # {}
    <3> DEFINE x == CHOOSE x \in s : TRUE
    <3>1. x \in s
      BY <2>2
    <3>2. InRange(s, start, end) /\ IsFiniteSet(RowTicks(s \ {x}, start, end))
      BY RowTicksFinite DEF InRange
    <3>3. g[s] = Share(x, start, end) + g[s \ {x}]
      BY <2>0, <2>2
    <3> HIDE DEF x
    <3>4. s \ {x} \in T
      BY <1>1, <3>1
    <3>5. Cardinality(RowTicks(s, start, end)) =
            Share(x, start, end) + Cardinality(RowTicks(s \ {x}, start, end))
      BY <3>1, <3>2, RowTicksOfOne
    <3> QED
      BY <3>3, <3>4, <3>5
  <2> QED
    BY <2>1, <2>2
<1>2. T \in SUBSET SUBSET S
  OBVIOUS
<1> HIDE DEF T
<1>3. \A s \in SUBSET S : s \in T
  BY <1>1, <1>2, SubsetInduction
<1> QED
  BY <1>3 DEF T

\* A tick some row holds is counted.
LEMMA TicksCounted ==
  ASSUME NEW S, NEW start \in Int, NEW end \in Int, IsFiniteSet(RowTicks(S, start, end)),
         NEW A, \A t \in A : /\ t \in Int
                             /\ \E r \in S : Later(r.start, start) <= t /\ t < Earlier(r.end, end)
  PROVE  Cardinality(A) <= Cardinality(RowTicks(S, start, end))
<1> DEFINE P == RowTicks(S, start, end)
           B == {p[2] : p \in P}
           f == [p \in P |-> p[2]]
<1>1. f \in Surjection(P, B)
  BY DEF Surjection
<1>2. IsFiniteSet(B) /\ Cardinality(B) <= Cardinality(P) /\ Cardinality(P) \in Nat
  <2> HIDE DEF P, B, f
  <2> QED
    BY <1>1, FS_Surjection, FS_CardinalityType DEF P
<1>3. ASSUME NEW t \in A
      PROVE  t \in B
  <2>1. PICK r \in S : Later(r.start, start) <= t /\ t < Earlier(r.end, end)
    OBVIOUS
  <2>2. <<r, t>> \in P /\ <<r, t>>[2] = t
    BY <2>1 DEF RowTicks
  <2> QED
    BY <2>2
<1> HIDE DEF B, P, f
<1>4. A \in SUBSET B
  BY <1>3
<1>5. Cardinality(A) <= Cardinality(B) /\ Cardinality(A) \in Nat /\ Cardinality(B) \in Nat
  BY <1>2, <1>4, FS_Subset, FS_CardinalityType
<1> QED
  BY <1>2, <1>5 DEF P

\* The table is a finite set.
RowsFinite == IsFiniteSet(rows)

LEMMA RowsFiniteStep == Inv /\ RowsFinite /\ [Next]_vars => RowsFinite'
<1> SUFFICES ASSUME Inv, IsFiniteSet(rows), [Next]_vars
             PROVE  IsFiniteSet(rows')
  BY DEF RowsFinite
<1>1. ASSUME NEW w \in Workers, Update(w)
      PROVE  IsFiniteSet(rows')
  <2>1. PICK l \in Mergeable(latest[w], heartbeat[w]) :
          rows' = (rows \ {l}) \cup {Extend(l, l, heartbeat[w])}
    BY <1>1, UpdateEffect
  <2>2. IsFiniteSet(rows \ {l})
    BY FS_RemoveElement
  <2> QED
    BY <2>1, <2>2, FS_AddElement
<1>2. ASSUME NEW w \in Workers, Insert(w)
      PROVE  IsFiniteSet(rows')
  BY <1>2, InsertEffect, FS_AddElement
<1>3. ASSUME NEW w \in Workers, Select(w) \/ Lock(w) \/ Abort(w)
      PROVE  IsFiniteSet(rows')
  BY <1>3 DEF Select, Lock, Abort
<1>4. CASE cleanupExpiredActivity
  BY <1>4, FS_Subset DEF cleanupExpiredActivity
<1>5. CASE Tick \/ UNCHANGED vars
  BY <1>5 DEF Tick, vars
<1> QED
  BY <1>1, <1>2, <1>3, <1>4, <1>5 DEF Next

\* The report of one user on a day that was admitted.
LEMMA ReportCounts ==
  ASSUME Inv, AcknowledgedIsStored, IsFiniteSet(rows), NEW u \in Users,
         NEW start \in Nat, NEW end \in Int, start < end, Admitted(start, end)
  PROVE  usersForDay(start, end)[u] >= Cardinality(ActiveTicks(u, start, end))
<1> DEFINE S == ActiveRows(u, start, end)
           g == CHOOSE g : Sums(g, S, start, end)
           A == ActiveTicks(u, start, end)
<1>1. usersForDay(start, end)[u] = g[S]
  BY ReportUnfolds
<1>2. S \in SUBSET rows
  BY DEF ActiveRows, Overlapping
<1>3. IsFiniteSet(S)
  <2> HIDE DEF S
  <2> QED
    BY <1>2, FS_Subset
<1>4. \A r \in rows : r.start \in Nat /\ r.end \in Nat /\ r.start <= r.end
  BY DEF Inv, TypeOK, AfkEventRecord
<1>5. InRange(S, start, end)
  BY <1>2, <1>4 DEF InRange, ActiveRows, Overlapping, Share, Earlier, Later
<1>6. ASSUME NEW t \in A
      PROVE  t \in Int /\ \E r \in S : Later(r.start, start) <= t /\ t < Earlier(r.end, end)
  <2>1. t \in Int /\ start <= t /\ t < end
    BY DEF ActiveTicks
  <2>2. PICK h \in Acknowledged(u, start, end) :
          h.status = "not-afk" /\ h.start <= t /\ t < h.end
    BY DEF ActiveTicks
  <2>3. /\ h \in stored /\ h.user = u /\ h.end > start /\ h.start < end
        /\ h.start \in Nat /\ h.end \in Nat
    BY <2>2 DEF Acknowledged, Inv, TypeOK, Heartbeat
  <2>4. h.end >= Cutoff
    BY <2>3, AdmittedIsKept
  <2>5. PICK r \in rows : Covers(r, h)
    BY <2>3, <2>4 DEF AcknowledgedIsStored
  <2>6. r \in S
    BY <1>4, <2>2, <2>3, <2>5 DEF Covers, ActiveRows, Overlapping
  <2> QED
    BY <1>4, <2>1, <2>2, <2>3, <2>5, <2>6 DEF Covers, Earlier, Later
<1> HIDE DEF S, A, g
<1>7. IsFiniteSet(RowTicks(S, start, end))
  BY <1>3, <1>5, RowTicksFinite
<1>8. Cardinality(A) <= Cardinality(RowTicks(S, start, end))
  BY <1>6, <1>7, TicksCounted
<1>9. Sums(g, S, start, end)
  BY <1>3, <1>5, SumsExist DEF g
<1>10. g[S] = Cardinality(RowTicks(S, start, end))
  BY <1>3, <1>5, <1>9, SumsCount
<1>11. IsFiniteSet(A)
  <2>1. A \in SUBSET (start .. end - 1)
    BY DEF A, ActiveTicks
  <2>2. IsFiniteSet(start .. end - 1)
    BY FS_Interval
  <2> QED
    BY <2>1, <2>2, FS_Subset
<1>12. Cardinality(A) \in Nat /\ Cardinality(RowTicks(S, start, end)) \in Nat
  BY <1>7, <1>11, FS_CardinalityType
<1> QED
  BY <1>1, <1>8, <1>10, <1>12 DEF A

\* The daily report counts no less than the active time that was acknowledged
\* for a day of the retention window.
THEOREM ReportHolds == Spec => []ReportCountsAcknowledged
<1>1. Init => RowsFinite
  BY FS_EmptySet DEF Init, RowsFinite
<1>2. Inv /\ AcknowledgedIsStored /\ RowsFinite => ReportCountsAcknowledged
  <2> SUFFICES ASSUME Inv, AcknowledgedIsStored, IsFiniteSet(rows),
                      NEW start \in 0 .. MaxNow, Admitted(start, start + Day),
                      NEW u \in Users
               PROVE  usersForDay(start, start + Day)[u]
                        >= Cardinality(ActiveTicks(u, start, start + Day))
    BY DEF ReportCountsAcknowledged, RowsFinite
  <2>1. start \in Nat /\ start + Day \in Int /\ start < start + Day
    BY ActivityAssumption
  <2> QED
    BY <2>1, ReportCounts
<1> QED
  BY <1>1, <1>2, RowsFiniteStep, AcknowledgedStays, Invariance, PTL DEF Spec
================================================================================
