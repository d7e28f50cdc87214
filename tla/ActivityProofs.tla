---------------------------- MODULE ActivityProofs ----------------------------
(***************************************************************************)
(* Theorems about Activity, for every set of users and transactions and    *)
(* every value of the other constants.                                     *)
(***************************************************************************)
EXTENDS Activity, TLAPS

\* An id names one row, and the next one is new.
IdsUnique ==
  /\ \A r, q \in rows : r.id = q.id => r = q
  /\ \A r \in rows : r.id < nextId

\* What a transaction has locked is the committed version of a row of its
\* user, and no other transaction has locked that row.
LocksCurrent ==
  /\ \A w \in Workers : \A l \in latest[w] : l \in rows /\ l.user = heartbeat[w].user
  /\ \A v, w \in Workers : v # w => \A l \in latest[v], m \in latest[w] : l.id # m.id
  /\ \A w \in Workers : pc[w] = "idle" => latest[w] = {}
  /\ \A w \in Workers : pc[w] # "idle" => heartbeat[w] \in Heartbeat

\* A snapshot may be old, but it names rows of the transaction's user, and
\* an id is not used twice.
SnapshotsOfUser ==
  \A w \in Workers : \A s \in snapshot[w] :
    /\ s.id < nextId
    /\ s.user = heartbeat[w].user
    /\ \A r \in rows : r.id = s.id => r.user = s.user

Inv == TypeOK /\ IdsUnique /\ LocksCurrent /\ SnapshotsOfUser

-----------------------------------------------------------------------------
(***************************************************************************)
(* Lemmas about one step.                                                  *)
(***************************************************************************)
\* Extending a row yields a row of the same id, user and status that covers
\* the row and the interval of the heartbeat.
LEMMA ExtendRow ==
  ASSUME NEW l \in AfkEventRecord, NEW h \in Heartbeat
  PROVE  /\ Extend(l, l, h) \in AfkEventRecord
         /\ Extend(l, l, h).id = l.id
         /\ Extend(l, l, h).user = l.user
         /\ Covers(Extend(l, l, h), l)
         /\ Extend(l, l, h).start <= h.start /\ h.end <= Extend(l, l, h).end
<1> DEFINE lo == Earlier(l.start, h.start)
           hi == Later(l.end, h.end)
<1>1. /\ l \in [id : Nat \ {0}, user : Users, status : AfkStatus, start : Nat, end : Nat]
      /\ l.start <= l.end
      /\ h.start \in Nat /\ h.end \in Nat /\ h.start <= h.end
  BY DEF AfkEventRecord, Heartbeat
<1>2. /\ lo \in Nat /\ hi \in Nat /\ lo <= hi
      /\ lo <= l.start /\ l.end <= hi /\ lo <= h.start /\ h.end <= hi
  BY <1>1 DEF Earlier, Later
<1>3. Extend(l, l, h) = [l EXCEPT !.start = lo, !.end = hi]
  BY DEF Extend
<1> HIDE DEF lo, hi
<1>4. /\ Extend(l, l, h) \in [id : Nat \ {0}, user : Users, status : AfkStatus,
                              start : Nat, end : Nat]
      /\ Extend(l, l, h).id = l.id /\ Extend(l, l, h).user = l.user
      /\ Extend(l, l, h).status = l.status
      /\ Extend(l, l, h).start = lo /\ Extend(l, l, h).end = hi
  BY <1>1, <1>2, <1>3
<1> QED
  BY <1>2, <1>4 DEF AfkEventRecord, Covers

\* What Update does to the table: the locked row is replaced by its
\* extension, the other rows stay.
LEMMA UpdateEffect ==
  ASSUME Inv, NEW w \in Workers, Update(w)
  PROVE  \E l \in Mergeable(latest[w], heartbeat[w]) :
           /\ l \in rows /\ l \in AfkEventRecord /\ heartbeat[w] \in Heartbeat
           /\ l.user = heartbeat[w].user /\ l.status = heartbeat[w].status
           /\ rows' = (rows \ {l}) \cup {Extend(l, l, heartbeat[w])}
<1>1. PICK l \in Mergeable(latest[w], heartbeat[w]) :
        rows' = {IF r.id = l.id THEN Extend(r, l, heartbeat[w]) ELSE r : r \in rows}
  BY DEF Update
<1>2. /\ l \in latest[w] /\ l \in rows /\ l.user = heartbeat[w].user
      /\ l.status = heartbeat[w].status
  BY DEF Inv, LocksCurrent, Mergeable
<1>3. l \in AfkEventRecord /\ heartbeat[w] \in Heartbeat
  BY <1>2 DEF Inv, TypeOK, LocksCurrent, Update
<1>4. \A r \in rows : r.id = l.id <=> r = l
  BY <1>2 DEF Inv, IdsUnique
<1>5. rows' = (rows \ {l}) \cup {Extend(l, l, heartbeat[w])}
  BY <1>1, <1>2, <1>4
<1> QED
  BY <1>2, <1>3, <1>5

\* The row Insert adds.
LEMMA InsertEffect ==
  ASSUME Inv, NEW w \in Workers, Insert(w)
  PROVE  \E r \in AfkEventRecord :
           /\ heartbeat[w] \in Heartbeat
           /\ r.id = nextId /\ Covers(r, heartbeat[w])
           /\ rows' = rows \cup {r} /\ nextId' = nextId + 1
<1> DEFINE r == [id |-> nextId, user |-> heartbeat[w].user,
                 status |-> heartbeat[w].status, start |-> heartbeat[w].start,
                 end |-> heartbeat[w].end]
<1>1. heartbeat[w] \in Heartbeat /\ nextId \in Nat \ {0}
  BY DEF Inv, TypeOK, LocksCurrent, Insert
<1>2. r \in AfkEventRecord /\ r.id = nextId /\ Covers(r, heartbeat[w])
  BY <1>1 DEF Heartbeat, AfkEventRecord, Covers
<1>3. rows' = rows \cup {r} /\ nextId' = nextId + 1
  BY DEF Insert
<1> QED
  BY <1>1, <1>2, <1>3

LEMMA InitInv == Init => Inv
BY DEF Init, Inv, TypeOK, IdsUnique, LocksCurrent, SnapshotsOfUser

LEMMA SelectInv ==
  ASSUME Inv, NEW w \in Workers, Select(w)
  PROVE  Inv'
<1>1. PICK h \in Heartbeats :
        /\ heartbeat' = [heartbeat EXCEPT ![w] = h]
        /\ snapshot' = [snapshot EXCEPT ![w] = {r \in rows : r.user = h.user}]
  BY DEF Select
<1>2. h \in Heartbeat
  BY ActivityAssumption DEF Heartbeat, Heartbeats
<1>3. TypeOK'
  BY <1>1, <1>2 DEF Inv, TypeOK, Select, clock
<1>4. IdsUnique'
  BY DEF Inv, IdsUnique, Select
<1>5. LocksCurrent'
  BY <1>1, <1>2 DEF Inv, TypeOK, LocksCurrent, Select
<1>6. SnapshotsOfUser'
  BY <1>1 DEF Inv, TypeOK, IdsUnique, SnapshotsOfUser, Select
<1> QED
  BY <1>3, <1>4, <1>5, <1>6 DEF Inv

LEMMA LockInv ==
  ASSUME Inv, NEW w \in Workers, Lock(w)
  PROVE  Inv'
<1> DEFINE chosen == {c \in rows : \E r \in FirstOf(snapshot[w]) : c.id = r.id}
<1>1. /\ latest' = [latest EXCEPT ![w] = chosen]
      /\ snapshot' = [snapshot EXCEPT ![w] = {}]
      /\ pc' = [pc EXCEPT ![w] = "write"]
      /\ \A c \in chosen : ~Locked(c.id)
      /\ pc[w] = "lock"
      /\ UNCHANGED <<rows, nextId, heartbeat, stored, requests, clock>>
  BY DEF Lock
<1>2. \A c \in chosen : c.user = heartbeat[w].user
  BY DEF Inv, SnapshotsOfUser, FirstOf
<1>3. chosen \subseteq rows
  OBVIOUS
<1> HIDE DEF chosen
<1>4. TypeOK'
  BY <1>1, <1>3 DEF Inv, TypeOK, clock
<1>5. IdsUnique'
  BY <1>1 DEF Inv, IdsUnique
<1>6. LocksCurrent'
  BY <1>1, <1>2, <1>3 DEF Inv, TypeOK, LocksCurrent, Locked
<1>7. SnapshotsOfUser'
  BY <1>1 DEF Inv, TypeOK, SnapshotsOfUser
<1> QED
  BY <1>4, <1>5, <1>6, <1>7 DEF Inv

LEMMA UpdateInv ==
  ASSUME Inv, NEW w \in Workers, Update(w)
  PROVE  Inv'
<1>1. PICK l \in Mergeable(latest[w], heartbeat[w]) :
        /\ l \in rows /\ l \in AfkEventRecord /\ heartbeat[w] \in Heartbeat
        /\ rows' = (rows \ {l}) \cup {Extend(l, l, heartbeat[w])}
  BY UpdateEffect
<1> DEFINE new == Extend(l, l, heartbeat[w])
<1>2. new \in AfkEventRecord /\ new.id = l.id /\ new.user = l.user
  BY <1>1, ExtendRow
<1>3. l \in latest[w]
  BY DEF Mergeable
<1> HIDE DEF new
<1>4. TypeOK'
  BY <1>1, <1>2 DEF Inv, TypeOK, Update, Ends, clock, new
<1>5. IdsUnique'
  BY <1>1, <1>2 DEF Inv, IdsUnique, Update, new
<1>6. LocksCurrent'
  BY <1>1, <1>2, <1>3 DEF Inv, TypeOK, LocksCurrent, Update, Ends, new
<1>7. SnapshotsOfUser'
  BY <1>1, <1>2 DEF Inv, TypeOK, SnapshotsOfUser, Update, Ends, new
<1> QED
  BY <1>4, <1>5, <1>6, <1>7 DEF Inv

LEMMA InsertInv ==
  ASSUME Inv, NEW w \in Workers, Insert(w)
  PROVE  Inv'
<1>1. PICK new \in AfkEventRecord :
        /\ heartbeat[w] \in Heartbeat /\ new.id = nextId
        /\ rows' = rows \cup {new} /\ nextId' = nextId + 1
  BY InsertEffect
<1>2. TypeOK'
  BY <1>1 DEF Inv, TypeOK, Insert, Ends, clock
<1>3. IdsUnique'
  BY <1>1 DEF Inv, TypeOK, IdsUnique, AfkEventRecord
<1>4. LocksCurrent'
  BY <1>1 DEF Inv, TypeOK, LocksCurrent, Insert, Ends
<1>5. SnapshotsOfUser'
  BY <1>1 DEF Inv, TypeOK, SnapshotsOfUser, AfkEventRecord, Insert, Ends
<1> QED
  BY <1>2, <1>3, <1>4, <1>5 DEF Inv

LEMMA AbortInv ==
  ASSUME Inv, NEW w \in Workers, Abort(w)
  PROVE  Inv'
<1>1. TypeOK'
  BY DEF Inv, TypeOK, Abort, Ends, clock
<1>2. IdsUnique'
  BY DEF Inv, TypeOK, IdsUnique, AfkEventRecord, Abort
<1>3. LocksCurrent'
  BY DEF Inv, TypeOK, LocksCurrent, Abort, Ends
<1>4. SnapshotsOfUser'
  BY DEF Inv, TypeOK, SnapshotsOfUser, AfkEventRecord, Abort, Ends
<1> QED
  BY <1>1, <1>2, <1>3, <1>4 DEF Inv

LEMMA CleanupInv ==
  ASSUME Inv, cleanupExpiredActivity
  PROVE  Inv'
<1>1. PICK cutoff : /\ rows' = rows \ Expired(cutoff)
                    /\ \A r \in Expired(cutoff) : ~Locked(r.id)
                    /\ UNCHANGED <<nextId, transactions, stored, requests, clock>>
  BY DEF cleanupExpiredActivity
<1>2. TypeOK'
  BY <1>1 DEF Inv, TypeOK, transactions, clock
<1>3. IdsUnique'
  BY <1>1 DEF Inv, IdsUnique
<1>4. LocksCurrent'
  BY <1>1 DEF Inv, LocksCurrent, Locked, transactions
<1>5. SnapshotsOfUser'
  BY <1>1 DEF Inv, SnapshotsOfUser, transactions
<1> QED
  BY <1>2, <1>3, <1>4, <1>5 DEF Inv

LEMMA TickInv ==
  ASSUME Inv, Tick
  PROVE  Inv'
<1>1. TypeOK'
  BY DEF Inv, TypeOK, Tick, transactions
<1> QED
  BY <1>1 DEF Inv, IdsUnique, LocksCurrent, SnapshotsOfUser, Tick, transactions

LEMMA InvStep == Inv /\ [Next]_vars => Inv'
<1> SUFFICES ASSUME Inv, [Next]_vars
             PROVE  Inv'
  OBVIOUS
<1>1. CASE UNCHANGED vars
  BY <1>1 DEF vars, transactions, clock, Inv, TypeOK, IdsUnique, LocksCurrent, SnapshotsOfUser
<1>2. CASE Next
  BY <1>2, SelectInv, LockInv, UpdateInv, InsertInv, AbortInv, CleanupInv, TickInv DEF Next
<1> QED
  BY <1>1, <1>2

-----------------------------------------------------------------------------
(***************************************************************************)
(* The theorems.                                                           *)
(***************************************************************************)
LEMMA Invariance == Spec => []Inv
<1> QED
  BY InitInv, InvStep, PTL DEF Spec

\* Every row stays a well-formed interval of a known user and status, and so
\* does every row a transaction has read.
THEOREM TypeCorrect == Spec => []TypeOK
<1>1. Inv => TypeOK
  BY DEF Inv
<1> QED
  BY <1>1, Invariance, PTL

\* What may have been deleted only grows.
LEMMA CutoffGrows ==
  ASSUME Inv, [Next]_vars
  PROVE  /\ Cutoff \in Int /\ Cutoff' \in Int /\ Cutoff <= Cutoff'
         /\ cleanupExpiredActivity => Cutoff = retentionWindow(midnight).start
         /\ ~Tick => Cutoff' = Cutoff
<1> DEFINE kept == (RetainedDays - 1) * Day
           Start(today) == retentionWindow(today).start
<1>1. kept \in Int /\ Day \in Nat /\ CleanupAt \in 1 .. Day - 1
  BY ActivityAssumption
<1>2. \A today : Start(today) = today - kept
  BY DEF retentionWindow
<1>3. now \in Nat /\ midnight \in Nat /\ now' \in Nat /\ midnight' \in Nat
  BY InvStep DEF Inv, TypeOK
<1>4. Cutoff = (IF now - midnight < CleanupAt THEN midnight - Day ELSE midnight) - kept
  BY <1>2 DEF Cutoff
<1>5. Cutoff' = (IF now' - midnight' < CleanupAt THEN midnight' - Day ELSE midnight') - kept
  BY <1>2 DEF Cutoff, retentionWindow
<1> HIDE DEF kept
<1>6. cleanupExpiredActivity => Cutoff = Start(midnight)
  BY <1>1, <1>2, <1>3, <1>4 DEF cleanupExpiredActivity
<1>7. CASE Tick
  <2>1. /\ now' = now + 1
        /\ midnight' = IF now + 1 = midnight + Day THEN now + 1 ELSE midnight
    BY <1>7 DEF Tick
  <2> QED
    BY <1>1, <1>3, <1>4, <1>5, <1>6, <1>7, <2>1
<1>8. CASE ~Tick
  <2>1. UNCHANGED clock
    BY <1>8 DEF Next, vars, Select, Lock, Update, Insert, Abort, cleanupExpiredActivity
  <2>2. Cutoff' = Cutoff
    BY <2>1, <1>4, <1>5 DEF clock
  <2> QED
    BY <1>1, <1>3, <1>4, <1>6, <2>2
<1> QED
  BY <1>7, <1>8

\* Of what the heartbeats answered with OK put in the table, every later step
\* leaves a row that covers it.
LEMMA StoredStep == Inv /\ AcknowledgedIsStored /\ [Next]_vars => AcknowledgedIsStored'
<1> SUFFICES ASSUME Inv, AcknowledgedIsStored, [Next]_vars,
                    NEW h \in stored', h.end >= Cutoff'
             PROVE  \E r \in rows' : Covers(r, h)
  BY DEF AcknowledgedIsStored
<1> USE DEF Inv, TypeOK
<1>0. h.end >= Cutoff /\ h \in Heartbeat /\ h.end \in Nat
  <2>1. h \in Heartbeat
    BY InvStep
  <2> QED
    BY <2>1, CutoffGrows DEF Heartbeat
<1>1. CASE \E w \in Workers : Update(w)
  <2>1. PICK w \in Workers : Update(w)
    BY <1>1
  <2>2. PICK l \in Mergeable(latest[w], heartbeat[w]) :
          /\ l \in rows /\ l \in AfkEventRecord /\ heartbeat[w] \in Heartbeat
          /\ l.user = heartbeat[w].user /\ l.status = heartbeat[w].status
          /\ rows' = (rows \ {l}) \cup {Extend(l, l, heartbeat[w])}
    BY <2>1, UpdateEffect
  <2> DEFINE new == Extend(l, l, heartbeat[w])
  <2>3. /\ new \in AfkEventRecord /\ Covers(new, l) /\ Covers(new, heartbeat[w])
    BY <2>2, ExtendRow DEF Covers
  <2>4. h \in stored \/ h = heartbeat[w]
    BY <2>1 DEF Update
  <2> HIDE DEF new
  <2>5. CASE h = heartbeat[w]
    BY <2>2, <2>3, <2>5 DEF new
  <2>6. CASE h \in stored
    <3>1. PICK r \in rows : Covers(r, h)
      BY <1>0, <2>6 DEF AcknowledgedIsStored
    <3>2. CASE r = l
      <4>1. Covers(new, h)
        BY <1>0, <2>2, <2>3, <3>1, <3>2 DEF Covers, AfkEventRecord, Heartbeat
      <4> QED
        BY <4>1, <2>2 DEF new
    <3>3. CASE r # l
      BY <2>2, <3>1, <3>3
    <3> QED
      BY <3>2, <3>3
  <2> QED
    BY <2>4, <2>5, <2>6
<1>2. CASE \E w \in Workers : Insert(w)
  <2>1. PICK w \in Workers : Insert(w)
    BY <1>2
  <2>2. PICK r \in AfkEventRecord : Covers(r, heartbeat[w]) /\ rows' = rows \cup {r}
    BY <2>1, InsertEffect
  <2>3. h \in stored \/ h = heartbeat[w]
    BY <2>1 DEF Insert
  <2> QED
    BY <1>0, <2>2, <2>3 DEF AcknowledgedIsStored
<1>3. CASE cleanupExpiredActivity
  <2>1. h \in stored /\ rows' = rows \ Expired(Cutoff)
    BY <1>3, CutoffGrows DEF cleanupExpiredActivity
  <2>2. PICK r \in rows : Covers(r, h)
    BY <1>0, <2>1 DEF AcknowledgedIsStored
  <2>3. ~(r.end < Cutoff)
    BY <1>0, <2>2, CutoffGrows DEF Covers, AfkEventRecord
  <2> QED
    BY <2>1, <2>2, <2>3 DEF Expired
<1>4. CASE (\E w \in Workers : Select(w) \/ Lock(w) \/ Abort(w)) \/ Tick \/ UNCHANGED vars
  <2>1. stored' = stored /\ rows' = rows
    BY <1>4 DEF Select, Lock, Abort, Tick, vars
  <2> QED
    BY <1>0, <2>1 DEF AcknowledgedIsStored
<1> QED
  BY <1>1, <1>2, <1>3, <1>4 DEF Next

\* A heartbeat answered with OK stays in the table until it expires, however
\* many transactions of the same user run at once.
THEOREM AcknowledgedStays == Spec => []AcknowledgedIsStored
<1>1. Init => AcknowledgedIsStored
  BY DEF Init, AcknowledgedIsStored
<1> QED
  BY <1>1, StoredStep, Invariance, PTL DEF Spec

\* No transaction takes time away from a row another one has extended.
THEOREM RowsGrow == Spec => RowsOnlyGrow
<1>1. Inv /\ [Next]_vars => [\A r \in rows, q \in rows' : q.id = r.id => Covers(q, r)]_vars
  <2> SUFFICES ASSUME Inv, Next, NEW r \in rows, NEW q \in rows', q.id = r.id
               PROVE  Covers(q, r)
    OBVIOUS
  <2>0. Covers(r, r) /\ r \in AfkEventRecord
    BY DEF Inv, TypeOK, Covers, AfkEventRecord
  <2>1. CASE \E w \in Workers : Update(w)
    <3>1. PICK w \in Workers : Update(w)
      BY <2>1
    <3>2. PICK l \in Mergeable(latest[w], heartbeat[w]) :
            /\ l \in rows /\ l \in AfkEventRecord /\ heartbeat[w] \in Heartbeat
            /\ rows' = (rows \ {l}) \cup {Extend(l, l, heartbeat[w])}
      BY <3>1, UpdateEffect
    <3>3. Extend(l, l, heartbeat[w]).id = l.id /\ Covers(Extend(l, l, heartbeat[w]), l)
      BY <3>2, ExtendRow
    <3> QED
      BY <2>0, <3>2, <3>3 DEF Inv, IdsUnique
  <2>2. CASE \E w \in Workers : Insert(w)
    <3>1. PICK new \in AfkEventRecord : new.id = nextId /\ rows' = rows \cup {new}
      BY <2>2, InsertEffect
    <3>2. r.id < nextId /\ r.id \in Nat /\ nextId \in Nat
      BY <2>0 DEF Inv, TypeOK, IdsUnique, AfkEventRecord
    <3>3. q \in rows
      BY <3>1, <3>2
    <3> QED
      BY <2>0, <3>3 DEF Inv, IdsUnique
  <2>3. CASE cleanupExpiredActivity
    BY <2>0, <2>3 DEF Inv, IdsUnique, cleanupExpiredActivity
  <2>4. CASE (\E w \in Workers : Select(w) \/ Lock(w) \/ Abort(w)) \/ Tick
    BY <2>0, <2>4 DEF Inv, IdsUnique, Select, Lock, Abort, Tick
  <2> QED
    BY <2>1, <2>2, <2>3, <2>4 DEF Next
<1> QED
  BY <1>1, Invariance, PTL DEF Spec, RowsOnlyGrow
=============================================================================
