----------------------------- MODULE TrackerProofs -----------------------------
(***************************************************************************)
(* Theorems about Tracker, for every value of its constants.               *)
(***************************************************************************)
EXTENDS Tracker, TLAPS

\* What type correctness rests on: the last input is not in the future, a
\* dirty flag belongs to a buffered segment, and an upload under way is of a
\* row of this device.
Consistent ==
  /\ lastInput <= now
  /\ dirty => buffer # NoEvent
  /\ buffer # NoEvent => buffer.device = device
  /\ phase = "off" => buffer = NoEvent /\ ~dirty
  /\ phase \in {"post", "mark"} => sending \in Row /\ sending.device = device

TypeInv == TypeOK /\ Consistent

\* The row being uploaded is still the row in the journal, up to its flags,
\* and once the upload was answered the server holds it.
SameInterval(r, q) ==
  r.device = q.device /\ r.status = q.status /\ r.start = q.start /\ r.end = q.end

\* An id names one row, and the next one is new.
IdsUnique ==
  /\ \A r, q \in rows : r.id = q.id => r = q
  /\ \A r \in rows : r.id < nextId

UploadInv ==
  /\ IdsUnique
  /\ SentIsOnServer
  /\ phase \in {"post", "mark"} =>
       \A r \in rows : r.id = sending.id => SameInterval(r, sending)
  /\ phase = "mark" => \E h \in server : Holds(h, sending)

\* Where the observation is kept, and that it is not older than it claims.
KeptInRow(R, o) ==
  \E r \in R : ~r.discarded /\ Covers(r, o) /\ o.taken <= r.created

KeptInSegment(kept, o) == Covers(kept, o) /\ o.taken <= kept.created

ObservationInv ==
  seen # Nothing =>
    /\ seen.taken <= now
    /\ seen.durable /\ now - seen.taken <= Retention => KeptInRow(rows, seen)
    /\ ~seen.durable => buffer # NoEvent /\ dirty /\ KeptInSegment(buffer, seen)

-----------------------------------------------------------------------------
(***************************************************************************)
(* Lemmas about the statements of the journal.                             *)
(***************************************************************************)
\* event_store_merge yields rows.
LEMMA MergeType ==
  ASSUME NEW R, R \subseteq Row, NEW id \in Nat \ {0}, NEW e \in Event
  PROVE  event_store_merge(R, id, e) \subseteq Row
<1> DEFINE new == [id |-> id, device |-> e.device, status |-> e.status,
                   start |-> e.start, end |-> e.end, created |-> e.created,
                   sent |-> FALSE, discarded |-> FALSE]
<1>0. new \in Row
  BY DEF Row, Event
<1>1. event_store_append(R, id, e) \subseteq Row
  BY <1>0 DEF event_store_append
<1>2. MergeTarget(R, e) \subseteq R
  BY DEF MergeTarget, LatestRow
<1>3. \A r \in Row : update_merged(r, e) \in Row
  BY DEF update_merged, Row, Event, Lower, Higher
<1> QED
  BY <1>1, <1>2, <1>3 DEF event_store_merge

\* mark_sent, discard_pending and prune yield rows too.
LEMMA UpdateType ==
  ASSUME NEW R, R \subseteq Row, NEW x
  PROVE  /\ event_store_mark_sent(R, x) \subseteq Row
         /\ event_store_discard_pending(R, x) \subseteq Row
         /\ event_store_prune(R, x) \subseteq Row
<1>1. \A r \in Row : [r EXCEPT !.sent = TRUE] \in Row /\ [r EXCEPT !.discarded = TRUE] \in Row
  BY DEF Row
<1> QED
  BY <1>1 DEF event_store_mark_sent, event_store_discard_pending, event_store_prune

\* A merge never produces a sent row: what is sent after it was there before.
LEMMA MergeSent ==
  ASSUME NEW R, R \subseteq Row, NEW id, NEW e,
         NEW r \in event_store_merge(R, id, e), r.sent
  PROVE  r \in R
<1>1. r \in event_store_append(R, id, e) => r \in R
  BY DEF event_store_append
<1>2. \A q \in Row : update_merged(q, e).sent = FALSE
  BY DEF update_merged, Row
<1>3. MergeTarget(R, e) \subseteq R
  BY DEF MergeTarget, LatestRow
<1> QED
  BY <1>1, <1>2, <1>3 DEF event_store_merge

\* A merge loses no interval: each kept row, and the event itself, is covered
\* by a kept row that is not older.
LEMMA MergeKeeps ==
  ASSUME NEW R, R \subseteq Row, NEW id \in Nat \ {0}, NEW e \in Event,
         NEW o, o \in R \/ o = e, o \in R => ~o.discarded
  PROVE  \E r \in event_store_merge(R, id, e) :
           ~r.discarded /\ Covers(r, o) /\ o.created <= r.created
<1> DEFINE target == MergeTarget(R, e)
           new    == [id |-> id, device |-> e.device, status |-> e.status,
                      start |-> e.start, end |-> e.end, created |-> e.created,
                      sent |-> FALSE, discarded |-> FALSE]
<1>1. \A r \in target : r \in Row /\ ~r.discarded /\ r.device = e.device /\ r.status = e.status
  BY DEF MergeTarget, LatestRow
<1>2. \A r \in target : LET m == update_merged(r, e)
                        IN  /\ ~m.discarded
                            /\ Covers(m, r) /\ r.created <= m.created
                            /\ Covers(m, e) /\ e.created <= m.created
  BY <1>1 DEF update_merged, Row, Event, Lower, Higher, Covers
<1>3. CASE target = {}
  <2>1. new \in event_store_merge(R, id, e) /\ R \subseteq event_store_merge(R, id, e)
    BY <1>3 DEF event_store_merge, event_store_append
  <2>2. ~new.discarded /\ Covers(new, e) /\ e.created <= new.created
    BY DEF Covers, Event
  <2>3. o \in R => Covers(o, o) /\ o.created <= o.created
    BY DEF Covers, Row
  <2> QED
    BY <2>1, <2>2, <2>3
<1>4. CASE target # {}
  <2>1. /\ \A r \in target : update_merged(r, e) \in event_store_merge(R, id, e)
        /\ R \ target \subseteq event_store_merge(R, id, e)
    BY <1>4 DEF event_store_merge
  <2>2. CASE o = e
    BY <1>2, <1>4, <2>1, <2>2
  <2>3. CASE o \in target
    BY <1>2, <2>1, <2>3
  <2>4. CASE o \in R \ target
    <3>1. Covers(o, o) /\ o.created <= o.created
      BY <2>4 DEF Covers, Row
    <3> QED
      BY <3>1, <2>1, <2>4
  <2> QED
    BY <2>2, <2>3, <2>4
<1> QED
  BY <1>3, <1>4

-----------------------------------------------------------------------------
(***************************************************************************)
(* Type correctness.                                                       *)
(***************************************************************************)
LEMMA ConstantTypes ==
  /\ MergeWindow \in Nat /\ AfkPoll \in Nat /\ AfkTimeout \in Nat
  /\ RetryEvery \in Nat /\ CheckpointEvery \in Nat /\ PruneEvery \in Nat
  /\ Retention \in Nat /\ FlushBatch \in Nat \ {0} /\ Observing \in BOOLEAN
  BY ConstantsAssumption, MergeWindowAssumption

\* What every successful checkpoint does to the journal.
LEMMA SaveSegmentType ==
  ASSUME TypeInv, SaveSegment
  PROVE  rows' \subseteq Row /\ nextId' \in Nat \ {0}
<1>1. CASE dirty
  <2>1. buffer \in Event
    BY <1>1 DEF TypeInv, TypeOK, Consistent, NoEvent, Event
  <2> QED
    BY <1>1, <2>1, MergeType DEF SaveSegment, TypeInv, TypeOK
<1>2. CASE ~dirty
  BY <1>2 DEF SaveSegment, journal, TypeInv, TypeOK
<1> QED
  BY <1>1, <1>2

CheckpointEffect ==
  /\ rows' \subseteq Row /\ nextId' \in Nat \ {0}
  /\ hasPending' \in BOOLEAN /\ failures' \in Nat
  /\ buffer' = buffer /\ dirty' \in BOOLEAN /\ (dirty' => dirty)
  /\ today' \in Today
  /\ seen' \in Observation \cup {Nothing}

LEMMA WriteType ==
  ASSUME TypeInv, WriteSegment
  PROVE  /\ rows' \subseteq Row /\ nextId' \in Nat \ {0}
         /\ hasPending' \in BOOLEAN /\ failures' \in Nat
  BY SaveSegmentType DEF WriteSegment, TypeInv, TypeOK

\* Moving the end of what the journal holds keeps the total's type.
LEMMA TodayType ==
  ASSUME NEW t \in Nat
  PROVE  /\ Uncached(t) \in Today
         /\ \A d \in Today : [d EXCEPT !.upTo = t] \in Today
  BY DEF Uncached, Today

LEMMA DurableType ==
  ASSUME TypeInv
  PROVE  Durable(seen) \in Observation \cup {Nothing}
  BY DEF Durable, Observation, Nothing, TypeInv, TypeOK

LEMMA CheckpointType ==
  ASSUME TypeInv, checkpoint_buffered_event \/ CheckpointFails
  PROVE  CheckpointEffect
<1>1. CASE checkpoint_buffered_event
  <2>1. today' \in Today
    <3>1. CASE dirty
      <4>1. buffer.end \in Nat
        BY <3>1 DEF TypeInv, TypeOK, Consistent, Event
      <4> QED
        BY <1>1, <3>1, <4>1, TodayType DEF checkpoint_buffered_event
    <3>2. CASE ~dirty
      BY <1>1, <3>2 DEF checkpoint_buffered_event, TypeInv, TypeOK
    <3> QED
      BY <3>1, <3>2
  <2> QED
    BY <1>1, <2>1, WriteType, DurableType DEF checkpoint_buffered_event, CheckpointEffect
<1>2. CASE CheckpointFails
  BY <1>2 DEF CheckpointFails, CheckpointEffect, Fails, journal, segment, TypeInv, TypeOK
<1> QED
  BY <1>1, <1>2

LEMMA NoticeType ==
  ASSUME TypeInv, NEW e \in Event, NEW o \in Observation \cup {Nothing}
  PROVE  Notice(o, e) \subseteq Observation \cup {Nothing}
<1> DEFINE noticed == [device |-> e.device, status |-> e.status, start |-> e.start,
                       end |-> e.end, taken |-> now, durable |-> FALSE]
<1>1. noticed \in Observation
  BY DEF Observation, Event, TypeInv, TypeOK
<1> QED
  BY <1>1 DEF Notice

LEMMA AfkEventType ==
  ASSUME TypeInv, NEW b \in BOOLEAN, NEW start \in Nat, NEW duration \in Nat
  PROVE  AfkEvent(b, start, duration) \in Event /\ AfkEvent(b, start, duration).device = device
  BY DEF AfkEvent, Event, StatusOf, Status, TypeInv, TypeOK

LEMMA SampleType ==
  ASSUME TypeInv
  PROVE  afk_update(now - lastInput) \in Sample
  BY ConstantTypes DEF afk_update, Sample, TypeInv, TypeOK, Consistent

\* The sample of an idle user and of an active one.
LEMMA SampleTaken ==
  ASSUME TypeInv
  PROVE  /\ now - lastInput >= AfkTimeout =>
              afk_update(now - lastInput)
                = [afk |-> TRUE, at |-> lastInput, duration |-> now - lastInput]
         /\ now - lastInput < AfkTimeout =>
              afk_update(now - lastInput) = [afk |-> FALSE, at |-> lastInput, duration |-> 0]
<1> DEFINE idle == now - lastInput
<1>1. lastInput \in Nat /\ now \in Nat /\ lastInput <= now /\ AfkTimeout \in Nat \ {0}
  BY ConstantsAssumption DEF TypeInv, TypeOK, Consistent
<1>2. CASE idle >= AfkTimeout
  <2>1. (idle >= AfkTimeout) = TRUE /\ now - idle = lastInput
    BY <1>1, <1>2
  <2> HIDE DEF idle
  <2>2. afk_update(idle) = [afk |-> TRUE, at |-> lastInput, duration |-> idle]
    BY <2>1, Zenon DEF afk_update
  <2> QED
    BY <1>1, <1>2, <2>2 DEF idle
<1>3. CASE idle < AfkTimeout
  <2>1. (idle >= AfkTimeout) = FALSE /\ now - idle = lastInput
    BY <1>1, <1>3
  <2> HIDE DEF idle
  <2>2. afk_update(idle) = [afk |-> FALSE, at |-> lastInput, duration |-> 0]
    BY <2>1, Zenon DEF afk_update
  <2> QED
    BY <1>1, <1>3, <2>2 DEF idle
<1> QED
  BY <1>1, <1>2, <1>3

\* What an attempt to record an observation leaves behind.
Buffered ==
  /\ rows' \subseteq Row /\ nextId' \in Nat \ {0}
  /\ hasPending' \in BOOLEAN /\ failures' \in Nat
  /\ buffer' \in Event \cup {NoEvent}
  /\ buffer' # NoEvent => buffer'.device = device
  /\ dirty' \in BOOLEAN /\ (dirty' => buffer' # NoEvent)
  /\ today' \in Today
  /\ seen' \in Observation \cup {Nothing}

LEMMA BufferType ==
  ASSUME TypeInv, NEW e \in Event, e.device = device,
         buffer_afk_event(e) \/ BufferingFails(e)
  PROVE  Buffered
<1> USE DEF Buffered
<1>1. CASE ExtendBuffer(e)
  <2>1. buffer \in Event
    BY <1>1 DEF ExtendBuffer, Compatible, TypeInv, TypeOK
  <2>2. buffer' \in Event /\ buffer'.device = device
    BY <1>1, <2>1 DEF ExtendBuffer, Compatible, Event, Lower, Higher, TypeInv, Consistent
  <2>3. buffer' # NoEvent
    BY <2>2 DEF Event, NoEvent, Status
  <2> QED
    BY <1>1, <2>2, <2>3, NoticeType DEF ExtendBuffer, journal, TypeInv, TypeOK
<1>2. CASE ReplaceBuffer(e)
  <2>1. e # NoEvent
    BY DEF Event, NoEvent, Status
  <2>2. today' \in Today
    <3>1. e.start \in Nat /\ today \in Today
      BY DEF Event, TypeInv, TypeOK
    <3> QED
      BY <1>2, <3>1, TodayType DEF ReplaceBuffer
  <2> QED
    BY <1>2, <2>1, <2>2, WriteType, DurableType, NoticeType DEF ReplaceBuffer
<1>3. CASE BufferingFails(e)
  BY <1>3, CheckpointType DEF CheckpointEffect, BufferingFails, TypeInv, TypeOK, Consistent
<1> QED
  BY <1>1, <1>2, <1>3 DEF buffer_afk_event

\* Moving deadlines yields deadlines.
LEMMA DeadlinesType ==
  ASSUME NEW d \in Deadlines, NEW a \in Nat, NEW c \in Nat, NEW f \in Nat
  PROVE  /\ [d EXCEPT !.flush = f] \in Deadlines
         /\ [d EXCEPT !.checkpoint = c, !.flush = f] \in Deadlines
         /\ [d EXCEPT !.afk = a, !.checkpoint = c, !.flush = f] \in Deadlines
  BY DEF Deadlines

LEMMA NullTypes == NoDeadlines \in Deadlines /\ NoSample \in Sample
  BY DEF NoDeadlines, Deadlines, NoSample, Sample

\* A session that ended left nothing in memory.
Forgotten ==
  /\ afk' \in BOOLEAN /\ buffer' = NoEvent /\ dirty' = FALSE /\ today' \in Today
  /\ hasPending' \in BOOLEAN /\ bucketAvailable' \in BOOLEAN /\ next' \in Deadlines
  /\ sample' \in Sample /\ sending' = NoRow /\ sentCount' \in Nat

LEMMA ForgetType ==
  ASSUME ForgetMemory, ForgetLocals
  PROVE  Forgotten
  BY NullTypes, TodayType DEF ForgetMemory, ForgetLocals, Forgotten

LEMMA InitType == Init => TypeInv
<1>1. Init => /\ {afk, dirty, hasPending, bucketAvailable} \subseteq BOOLEAN
              /\ buffer = NoEvent /\ sending = NoRow /\ seen = Nothing
              /\ next \in Deadlines /\ sample \in Sample /\ today \in Today
  BY NullTypes, TodayType DEF Init
<1>2. Init => TypeOK
  BY <1>1 DEF Init, TypeOK, Phase, DeviceId
<1>3. Init => Consistent
  <2>1. Init => ~dirty /\ lastInput <= now
    BY DEF Init
  <2>2. Init => buffer = NoEvent /\ phase \notin {"post", "mark"}
    BY DEF Init
  <2> QED
    BY <2>1, <2>2 DEF Consistent
<1> QED
  BY <1>2, <1>3 DEF TypeInv

\* Every step keeps the types: one step of the proof per action.
LEMMA StepType == TypeInv /\ [Next]_vars => TypeInv'
<1> SUFFICES ASSUME TypeInv, [Next]_vars
             PROVE  TypeInv'
  OBVIOUS
<1> USE ConstantTypes DEF TypeInv, TypeOK, Consistent, journal, segment, memory, locals, world, outside, Phase
<1>1. CASE StartSession
  <2>1. rows' \subseteq Row /\ failures' \in Nat
    BY <1>1, UpdateType DEF StartSession, Fails
  <2> QED
    BY <1>1, <2>1 DEF StartSession, NoDeadlines, Deadlines
<1>2. CASE StartFails
  <2>1. rows' \subseteq Row /\ failures' \in Nat
    BY <1>2, UpdateType DEF StartFails, Fails
  <2> QED
    BY <1>2, <2>1 DEF StartFails
<1>3. CASE OpenBucket
  <2>1. PICK ok \in BOOLEAN : /\ bucketAvailable' = ok
                             /\ next' = [next EXCEPT !.afk = now,
                                                     !.checkpoint = now + CheckpointEvery,
                                                     !.flush = IF ok THEN now ELSE now + RetryEvery]
    BY <1>3 DEF OpenBucket
  <2>2. next' \in Deadlines
    <3> DEFINE flush == IF ok THEN now ELSE now + RetryEvery
    <3>1. flush \in Nat
      OBVIOUS
    <3>2. next' = [next EXCEPT !.afk = now, !.checkpoint = now + CheckpointEvery,
                               !.flush = flush]
      BY <2>1
    <3>3. now \in Nat /\ now + CheckpointEvery \in Nat /\ next \in Deadlines
      OBVIOUS
    <3> HIDE DEF flush
    <3> QED
      BY <3>1, <3>2, <3>3, DeadlinesType, ZenonT(60)
  <2> QED
    BY <1>3, <2>1, <2>2 DEF OpenBucket
<1>4. CASE Poll
  <2>1. next' \in Deadlines
    BY <1>4 DEF Poll, Deadlines
  <2>2. rows' \subseteq Row /\ failures' \in Nat
    BY <1>4, UpdateType DEF Poll, Fails
  <2> QED
    BY <1>4, <2>1, <2>2 DEF Poll
<1>5. CASE SkipSample
  BY <1>5 DEF SkipSample, Fails, Deadlines
<1>6. CASE SampleSameStatus
  <2> DEFINE s == afk_update(now - lastInput)
             e == AfkEvent(s.afk, s.at, s.duration)
  <2>1. s \in Sample
    BY SampleType
  <2>2. e \in Event /\ e.device = device
    BY <2>1, AfkEventType DEF Sample
  <2>3. buffer_afk_event(e) \/ BufferingFails(e)
    BY <1>6 DEF SampleSameStatus
  <2>4. next' \in Deadlines
    BY <1>6 DEF SampleSameStatus, Deadlines
  <2> HIDE DEF s, e
  <2>5. Buffered
    BY <2>2, <2>3, BufferType
  <2> QED
    BY <1>6, <2>4, <2>5 DEF SampleSameStatus, Buffered
<1>7. CASE SampleNewStatus
  <2> DEFINE s == afk_update(now - lastInput)
             e == AfkEvent(afk, s.at, 0)
  <2>1. s \in Sample
    BY SampleType
  <2>2. e \in Event /\ e.device = device
    <3>1. s.at \in Nat /\ 0 \in Nat
      BY <2>1 DEF Sample
    <3> HIDE DEF s
    <3> QED
      BY <3>1, AfkEventType
  <2>3. /\ buffer_afk_event(e) \/ BufferingFails(e)
        /\ phase' \in {"marker", "checkpoint"}
        /\ sample' \in {s, sample}
    BY <1>7 DEF SampleNewStatus
  <2>4. next' \in Deadlines
    BY <1>7 DEF SampleNewStatus, Deadlines
  <2> HIDE DEF s, e
  <2>5. Buffered
    BY <2>2, <2>3, BufferType
  <2> QED
    BY <1>7, <2>1, <2>3, <2>4, <2>5 DEF SampleNewStatus, Buffered
<1>8. CASE MarkNewStatus
  <2> DEFINE e == AfkEvent(sample.afk, sample.at + 1, sample.duration)
  <2>1. e \in Event /\ e.device = device
    <3>1. sample.afk \in BOOLEAN /\ sample.at + 1 \in Nat /\ sample.duration \in Nat
      BY DEF Sample
    <3> QED
      BY <3>1, AfkEventType
  <2>2. /\ buffer_afk_event(e) \/ BufferingFails(e)
        /\ phase' \in {"save", "checkpoint"}
        /\ sample' \in {NoSample, sample}
    BY <1>8 DEF MarkNewStatus
  <2> HIDE DEF e
  <2>3. Buffered
    BY <2>1, <2>2, BufferType
  <2>4. sample' \in Sample
    BY <2>2, NullTypes
  <2> QED
    BY <1>8, <2>2, <2>3, <2>4 DEF MarkNewStatus, Buffered
<1>9. CASE SaveTransition
  <2>1. CheckpointEffect /\ (afk' = afk \/ afk' = sample.afk)
    BY <1>9, CheckpointType DEF SaveTransition
  <2>2. sample' \in Sample
    BY <1>9, NullTypes DEF SaveTransition
  <2>3. afk' \in BOOLEAN
    <3>1. sample.afk \in BOOLEAN
      BY DEF Sample
    <3>2. CASE afk' = afk
      BY <3>2
    <3>3. CASE afk' = sample.afk
      BY <3>1, <3>3
    <3> QED
      BY <2>1, <3>2, <3>3
  <2> QED
    BY <1>9, <2>1, <2>2, <2>3 DEF SaveTransition, CheckpointEffect
<1>10. CASE PeriodicCheckpoint
  <2>1. next' \in Deadlines
    <3>1. NextFlush \in Nat
      BY DEF NextFlush, Deadlines
    <3>2. \/ next' = [next EXCEPT !.flush = NextFlush]
          \/ next' = [next EXCEPT !.checkpoint = now + CheckpointEvery, !.flush = NextFlush]
      BY <1>10 DEF PeriodicCheckpoint
    <3>3. now \in Nat /\ now + CheckpointEvery \in Nat /\ next \in Deadlines
      OBVIOUS
    <3>4. /\ [next EXCEPT !.flush = NextFlush] \in Deadlines
          /\ [next EXCEPT !.checkpoint = now + CheckpointEvery, !.flush = NextFlush] \in Deadlines
      BY <3>1, <3>3, DeadlinesType, ZenonT(60)
    <3> QED
      BY <3>2, <3>4, Zenon
  <2>2. phase' \in {"wait", "replay", "bucket"}
    BY <1>10 DEF PeriodicCheckpoint, EndOrFlush
  <2>3. CheckpointEffect
    <3>1. CASE UNCHANGED <<journal, segment, hasPending, failures, seen>>
      BY <3>1 DEF CheckpointEffect
    <3>2. CASE checkpoint_buffered_event \/ CheckpointFails
      BY <3>2, CheckpointType
    <3> QED
      BY <1>10, <3>1, <3>2 DEF PeriodicCheckpoint
  <2> QED
    BY <1>10, <2>1, <2>2, <2>3 DEF PeriodicCheckpoint, CheckpointEffect
<1>11. CASE EnsureBucket
  BY <1>11 DEF EnsureBucket
<1>12. CASE ReadPending
  BY <1>12 DEF ReadPending, event_store_next_pending, PendingRows
<1>13. CASE ReplayDone
  <2>1. /\ phase' \in {"live", "wait"} /\ hasPending' \in {FALSE, hasPending}
        /\ sending' \in {sending, NoRow} /\ sentCount' \in {sentCount, 0}
        /\ sample' = sample
    BY <1>13 DEF ReplayDone, PollEnds
  <2>2. hasPending' \in BOOLEAN
    BY <2>1
  <2> QED
    BY <1>13, <2>1, <2>2 DEF ReplayDone
<1>14. CASE ReadPendingFails
  BY <1>14 DEF ReadPendingFails, Fails, PollEnds
<1>15. CASE PostRow
  <2>1. Accepted(sending) \subseteq Upload
    BY <1>15 DEF PostRow, Accepted, Upload, Row
  <2> QED
    BY <1>15, <2>1 DEF PostRow
<1>16. CASE PostRowFails
  <2>1. Accepted(sending) \subseteq Upload
    BY <1>16 DEF PostRowFails, Accepted, Upload, Row
  <2> QED
    BY <1>16, <2>1 DEF PostRowFails, PollEnds
<1>17. CASE MarkSent
  BY <1>17, UpdateType DEF MarkSent
<1>18. CASE MarkSentFails
  BY <1>18 DEF MarkSentFails, Fails, PollEnds
<1>19. CASE RequestEnds
  BY <1>19 DEF RequestEnds, PollEnds
<1>20. CASE Unauthorized
  BY <1>20 DEF Unauthorized
<1>21. CASE CheckpointLast
  <2>1. CheckpointEffect
    BY <1>21, CheckpointType DEF CheckpointLast
  <2> QED
    BY <1>21, <2>1 DEF CheckpointLast, CheckpointEffect
<1>22. CASE DiscardPending
  <2>1. rows' \subseteq Row /\ failures' \in Nat
    <3>1. CASE Fails /\ UNCHANGED rows
      BY <3>1 DEF Fails
    <3>2. CASE rows' = event_store_discard_pending(rows, device) /\ UNCHANGED failures
      BY <3>2, UpdateType
    <3> QED
      BY <1>22, <3>1, <3>2 DEF DiscardPending
  <2>2. seen' \in {seen, Nothing}
    BY <1>22 DEF DiscardPending, ForgetDiscarded, Unsaved
  <2> QED
    BY <1>22, <2>1, <2>2, ForgetType DEF DiscardPending, Forgotten
<1>23. CASE tracker_session_cleanup
  <2>1. rows' \subseteq Row /\ nextId' \in Nat \ {0} /\ failures' \in Nat
    BY <1>23, SaveSegmentType DEF tracker_session_cleanup, Fails
  <2>2. seen' \in {seen, Durable(seen), Nothing}
    BY <1>23 DEF tracker_session_cleanup, Unsaved
  <2> QED
    BY <1>23, <2>1, <2>2, ForgetType, DurableType DEF tracker_session_cleanup, Forgotten
<1>24. CASE Crash
  <2>1. seen' \in {seen, Nothing}
    BY <1>24 DEF Crash, Unsaved
  <2> QED
    BY <1>24, <2>1, ForgetType DEF Crash, Forgotten
<1>25. CASE Tick
  BY <1>25 DEF Tick
<1>26. CASE Login
  BY <1>26 DEF Login, DeviceId
<1>27. CASE Revoke
  BY <1>27 DEF Revoke
<1>28. CASE tracker_discard_pending_events
  <2>1. rows' \subseteq Row
    BY <1>28, UpdateType DEF tracker_discard_pending_events
  <2>2. seen' \in {seen, Nothing}
    BY <1>28 DEF tracker_discard_pending_events, ForgetDiscarded
  <2> QED
    BY <1>28, <2>1, <2>2 DEF tracker_discard_pending_events
<1>29. CASE UNCHANGED vars
  BY <1>29 DEF vars
<1>30. CASE tracker_session_tracked_today
  <2>1. today' \in Today
    BY <1>30 DEF tracker_session_tracked_today, Today
  <2> QED
    BY <1>30, <2>1 DEF tracker_session_tracked_today
<1> HIDE DEF TypeInv, TypeOK, Consistent, journal, segment, memory, locals, world, outside, Phase
<1> QED
  BY <1>1, <1>2, <1>3, <1>4, <1>5, <1>6, <1>7, <1>8, <1>9, <1>10, <1>11, <1>12, <1>13,
     <1>14, <1>15, <1>16, <1>17, <1>18, <1>19, <1>20, <1>21, <1>22, <1>23, <1>24, <1>25,
     <1>26, <1>27, <1>28, <1>29, <1>30
  DEF Next, Session, Owner, World

LEMMA TypeInvariant == Spec => []TypeInv
<1> QED
  BY InitType, StepType, PTL DEF Spec

\* The tracking session keeps its types: in particular the buffered segment
\* is a whole event whenever it is dirty, and an upload is of a whole row.
THEOREM TypeCorrect == Spec => []TypeOK
<1>1. TypeInv => TypeOK
  BY DEF TypeInv
<1> QED
  BY <1>1, TypeInvariant, PTL

-----------------------------------------------------------------------------
(***************************************************************************)
(* The pending flag.                                                       *)
(***************************************************************************)
\* No statement but a merge makes a row pending.
LEMMA PendingShrinks ==
  ASSUME NEW R, R \subseteq Row, NEW x, NEW d
  PROVE  /\ PendingRows(event_store_mark_sent(R, x), d) # {} => PendingRows(R, d) # {}
         /\ PendingRows(event_store_discard_pending(R, x), d) # {} => PendingRows(R, d) # {}
         /\ PendingRows(event_store_prune(R, x), d) # {} => PendingRows(R, d) # {}
<1>1. PendingRows(event_store_mark_sent(R, x), d) \subseteq R
  BY DEF PendingRows, event_store_mark_sent, Row
<1>2. PendingRows(event_store_discard_pending(R, x), d) \subseteq R
  BY DEF PendingRows, event_store_discard_pending, Row
<1>3. PendingRows(event_store_prune(R, x), d) \subseteq R
  BY DEF PendingRows, event_store_prune
<1> QED
  BY <1>1, <1>2, <1>3 DEF PendingRows

\* A checkpoint, whether it succeeds or fails, keeps the flag sound.
LEMMA CheckpointFlag ==
  ASSUME TypeInv, PendingFlagSound, Tracking, device' = device,
         WriteSegment \/ checkpoint_buffered_event \/ CheckpointFails
  PROVE  PendingFlagSound'
<1>1. CASE WriteSegment /\ ~dirty
  BY <1>1 DEF WriteSegment, SaveSegment, journal, PendingFlagSound, TypeInv, TypeOK
<1>2. CASE WriteSegment /\ dirty
  BY <1>2 DEF WriteSegment, PendingFlagSound
<1>3. CASE CheckpointFails
  BY <1>3 DEF CheckpointFails, journal, PendingFlagSound
<1> QED
  BY <1>1, <1>2, <1>3 DEF checkpoint_buffered_event

LEMMA BufferFlag ==
  ASSUME TypeInv, PendingFlagSound, Tracking, device' = device, NEW e,
         buffer_afk_event(e) \/ BufferingFails(e)
  PROVE  PendingFlagSound'
<1>1. CASE ExtendBuffer(e)
  BY <1>1 DEF ExtendBuffer, journal, PendingFlagSound
<1>2. CASE ReplaceBuffer(e)
  BY <1>2, CheckpointFlag DEF ReplaceBuffer
<1>3. CASE BufferingFails(e)
  BY <1>3, CheckpointFlag DEF BufferingFails
<1> QED
  BY <1>1, <1>2, <1>3 DEF buffer_afk_event

LEMMA PendingFlagStep == TypeInv /\ PendingFlagSound /\ [Next]_vars => PendingFlagSound'
<1> SUFFICES ASSUME TypeInv, PendingFlagSound, [Next]_vars
             PROVE  PendingFlagSound'
  OBVIOUS
<1>0. rows \subseteq Row
  BY DEF TypeInv, TypeOK
<1> USE DEF journal, segment, memory, locals, outside, Tracking
<1>1. CASE StartSession
  BY <1>1 DEF StartSession, PendingFlagSound
<1>2. CASE StartFails \/ DiscardPending \/ tracker_session_cleanup \/ Crash
  BY <1>2 DEF StartFails, DiscardPending, tracker_session_cleanup, Crash, PendingFlagSound
<1>3. CASE OpenBucket \/ SkipSample \/ EnsureBucket \/ ReadPending \/ PostRow
  BY <1>3 DEF OpenBucket, SkipSample, EnsureBucket, ReadPending, PostRow, PendingFlagSound
<1>4. CASE Poll
  BY <1>0, <1>4, PendingShrinks DEF Poll, PendingFlagSound
<1>5. CASE SampleSameStatus
  <2>1. Tracking /\ device' = device
    BY <1>5 DEF SampleSameStatus
  <2>2. PICK e : buffer_afk_event(e) \/ BufferingFails(e)
    BY <1>5 DEF SampleSameStatus
  <2> QED
    BY <2>1, <2>2, BufferFlag
<1>6. CASE SampleNewStatus
  <2>1. Tracking /\ device' = device
    BY <1>6 DEF SampleNewStatus
  <2>2. PICK e : buffer_afk_event(e) \/ BufferingFails(e)
    BY <1>6 DEF SampleNewStatus
  <2> QED
    BY <2>1, <2>2, BufferFlag
<1>7. CASE MarkNewStatus
  <2>1. Tracking /\ device' = device
    BY <1>7 DEF MarkNewStatus
  <2>2. PICK e : buffer_afk_event(e) \/ BufferingFails(e)
    BY <1>7 DEF MarkNewStatus
  <2> QED
    BY <2>1, <2>2, BufferFlag
<1>8. CASE SaveTransition
  <2>1. Tracking /\ device' = device /\ (checkpoint_buffered_event \/ CheckpointFails)
    BY <1>8 DEF SaveTransition
  <2> QED
    BY <2>1, CheckpointFlag
<1>9. CASE PeriodicCheckpoint
  <2>1. Tracking /\ device' = device
    BY <1>9 DEF PeriodicCheckpoint
  <2>2. \/ UNCHANGED <<rows, hasPending>>
        \/ checkpoint_buffered_event \/ CheckpointFails
    BY <1>9 DEF PeriodicCheckpoint
  <2>3. CASE UNCHANGED <<rows, hasPending>>
    BY <2>1, <2>3 DEF PendingFlagSound
  <2> QED
    BY <2>1, <2>2, <2>3, CheckpointFlag
<1>10. CASE ReplayDone
  BY <1>10 DEF ReplayDone, PollEnds, PendingFlagSound
<1>11. CASE ReadPendingFails \/ PostRowFails \/ MarkSentFails \/ RequestEnds
  BY <1>11 DEF ReadPendingFails, PostRowFails, MarkSentFails, RequestEnds, PollEnds,
               PendingFlagSound
<1>12. CASE MarkSent
  BY <1>0, <1>12, PendingShrinks DEF MarkSent, PendingFlagSound
<1>13. CASE Unauthorized \/ CheckpointLast
  BY <1>13 DEF Unauthorized, CheckpointLast, PendingFlagSound
<1>14. CASE Tick \/ Login \/ Revoke \/ tracker_session_tracked_today
  BY <1>14 DEF Tick, Login, Revoke, tracker_session_tracked_today, PendingFlagSound
<1>15. CASE tracker_discard_pending_events
  BY <1>0, <1>15, PendingShrinks DEF tracker_discard_pending_events, PendingFlagSound
<1>16. CASE UNCHANGED vars
  BY <1>16 DEF vars, PendingFlagSound
<1> QED
  BY <1>1, <1>2, <1>3, <1>4, <1>5, <1>6, <1>7, <1>8, <1>9, <1>10, <1>11, <1>12, <1>13,
     <1>14, <1>15, <1>16
  DEF Next, Session, Owner, World

\* However checkpoints, flushes, prunes and discards interleave, a flush that
\* skips the journal because the flag is down leaves no row behind.
THEOREM PendingFlagHolds == Spec => []PendingFlagSound
<1>1. Init => PendingFlagSound
  BY DEF Init, PendingFlagSound, Tracking
<1> QED
  BY <1>1, TypeInvariant, PendingFlagStep, PTL DEF Spec

-----------------------------------------------------------------------------
(***************************************************************************)
(* What is marked sent is on the server.                                   *)
(***************************************************************************)
\* Every row of Q is a row of R up to its flags, and is sent only if that was.
Shrunk(Q, R) ==
  \A q \in Q : \E r \in R : q.id = r.id /\ SameInterval(q, r) /\ (q.sent => r.sent)

LEMMA DiscardShrinks ==
  ASSUME NEW R, R \subseteq Row, NEW x
  PROVE  /\ Shrunk(event_store_discard_pending(R, x), R)
         /\ Shrunk(event_store_prune(R, x), R)
<1>1. \A r \in Row : LET q == [r EXCEPT !.discarded = TRUE]
                     IN  q.id = r.id /\ SameInterval(q, r) /\ q.sent = r.sent
  BY DEF Row, SameInterval
<1>2. ASSUME NEW q \in event_store_discard_pending(R, x)
      PROVE  \E r \in R : q.id = r.id /\ SameInterval(q, r) /\ (q.sent => r.sent)
  <2>1. PICK r \in R : q = IF r \in PendingRows(R, x) THEN [r EXCEPT !.discarded = TRUE] ELSE r
    BY DEF event_store_discard_pending
  <2>2. CASE r \in PendingRows(R, x)
    <3>1. q = [r EXCEPT !.discarded = TRUE]
      BY <2>1, <2>2
    <3> QED
      BY <1>1, <3>1
  <2>3. CASE r \notin PendingRows(R, x)
    BY <2>1, <2>3 DEF SameInterval
  <2> QED
    BY <2>2, <2>3
<1>3. \A q \in event_store_prune(R, x) : q \in R /\ SameInterval(q, q)
  BY DEF event_store_prune, SameInterval
<1> QED
  BY <1>2, <1>3 DEF Shrunk

\* Each statement keeps the ids unique and below the next one.
LEMMA MergeIds ==
  ASSUME NEW R, R \subseteq Row, NEW id \in Nat \ {0}, NEW e \in Event,
         \A r, q \in R : r.id = q.id => r = q, \A r \in R : r.id < id
  PROVE  LET after == event_store_merge(R, id, e)
             idAfter == IF MergeTarget(R, e) = {} THEN id + 1 ELSE id
         IN  /\ \A r, q \in after : r.id = q.id => r = q
             /\ \A r \in after : r.id < idAfter
<1>1. CASE MergeTarget(R, e) = {}
  <2> DEFINE new == [id |-> id, device |-> e.device, status |-> e.status,
                     start |-> e.start, end |-> e.end, created |-> e.created,
                     sent |-> FALSE, discarded |-> FALSE]
  <2>1. event_store_merge(R, id, e) = R \cup {new}
    BY <1>1 DEF event_store_merge, event_store_append
  <2>2. new.id = id
    OBVIOUS
  <2>3. \A r \in R : r.id \in Nat
    BY DEF Row
  <2> HIDE DEF new
  <2> QED
    BY <1>1, <2>1, <2>2, <2>3
<1>2. CASE MergeTarget(R, e) # {}
  <2> DEFINE target == MergeTarget(R, e)
  <2>1. event_store_merge(R, id, e) = (R \ target) \cup {update_merged(r, e) : r \in target}
    BY <1>2 DEF event_store_merge
  <2>2. \A r \in Row : update_merged(r, e).id = r.id
    BY DEF update_merged, Row
  <2>3. target \subseteq R
    BY DEF MergeTarget, LatestRow
  <2> HIDE DEF target
  <2> QED
    BY <1>2, <2>1, <2>2, <2>3
<1> QED
  BY <1>1, <1>2

LEMMA UpdateIds ==
  ASSUME NEW R, R \subseteq Row, NEW x, NEW id,
         \A r, q \in R : r.id = q.id => r = q, \A r \in R : r.id < id,
         NEW after \in {event_store_mark_sent(R, x), event_store_discard_pending(R, x),
                        event_store_prune(R, x)}
  PROVE  /\ \A r, q \in after : r.id = q.id => r = q
         /\ \A r \in after : r.id < id
<1>1. \A r \in Row : [r EXCEPT !.sent = TRUE].id = r.id /\ [r EXCEPT !.discarded = TRUE].id = r.id
  BY DEF Row
<1>2. CASE after = event_store_mark_sent(R, x)
  <2> DEFINE Image(r) == IF r.id = x THEN [r EXCEPT !.sent = TRUE] ELSE r
  <2>1. after = {Image(r) : r \in R}
    BY <1>2 DEF event_store_mark_sent
  <2>2. \A r \in R : Image(r).id = r.id
    BY <1>1
  <2> HIDE DEF Image
  <2> QED
    BY <2>1, <2>2
<1>3. CASE after = event_store_discard_pending(R, x)
  <2> DEFINE Image(r) == IF r \in PendingRows(R, x) THEN [r EXCEPT !.discarded = TRUE] ELSE r
  <2>1. after = {Image(r) : r \in R}
    BY <1>3 DEF event_store_discard_pending
  <2>2. \A r \in R : Image(r).id = r.id
    BY <1>1
  <2> HIDE DEF Image
  <2> QED
    BY <2>1, <2>2
<1>4. CASE after = event_store_prune(R, x)
  BY <1>4 DEF event_store_prune
<1> QED
  BY <1>2, <1>3, <1>4

\* The ways in which a step can change the journal.
JournalChange ==
  \/ UNCHANGED journal
  \/ SaveSegment /\ phase \notin {"post", "mark"} /\ server' = server
  \/ /\ nextId' = nextId /\ server' = server
     /\ \/ phase # "post" /\ rows' = event_store_prune(rows, now - Retention)
        \/ rows' = event_store_discard_pending(rows, device)
  \/ MarkSent

LEMMA JournalStep == ASSUME [Next]_vars PROVE JournalChange
<1> USE DEF JournalChange, journal, outside
<1>1. CASE StartSession \/ StartFails \/ OpenBucket \/ Poll
  BY <1>1 DEF StartSession, StartFails, OpenBucket, Poll
<1>2. CASE SkipSample \/ EnsureBucket \/ ReadPending \/ ReplayDone \/ ReadPendingFails
  BY <1>2 DEF SkipSample, EnsureBucket, ReadPending, ReplayDone, ReadPendingFails
<1>3. ASSUME NEW e, buffer_afk_event(e) \/ BufferingFails(e)
      PROVE  UNCHANGED journal \/ SaveSegment
  BY <1>3 DEF buffer_afk_event, ExtendBuffer, ReplaceBuffer, WriteSegment,
              BufferingFails, CheckpointFails
<1>4. CASE SampleSameStatus
  BY <1>3, <1>4 DEF SampleSameStatus
<1>5. CASE SampleNewStatus
  BY <1>3, <1>5 DEF SampleNewStatus
<1>6. CASE MarkNewStatus
  BY <1>3, <1>6 DEF MarkNewStatus
<1>7. CASE SaveTransition
  BY <1>7 DEF SaveTransition, checkpoint_buffered_event, WriteSegment, CheckpointFails
<1>8. CASE PeriodicCheckpoint
  BY <1>8 DEF PeriodicCheckpoint, checkpoint_buffered_event, WriteSegment, CheckpointFails
<1>9. CASE CheckpointLast
  BY <1>9 DEF CheckpointLast, checkpoint_buffered_event, WriteSegment, CheckpointFails
<1>10. CASE PostRow \/ PostRowFails \/ MarkSentFails \/ RequestEnds \/ Unauthorized
  BY <1>10 DEF PostRow, PostRowFails, MarkSentFails, RequestEnds, Unauthorized
<1>11. CASE MarkSent
  BY <1>11
<1>12. CASE DiscardPending \/ Owner \/ Crash
  BY <1>12 DEF DiscardPending, Owner, tracker_session_tracked_today,
               tracker_session_cleanup, Crash
<1>13. CASE World \/ UNCHANGED vars
  BY <1>13 DEF World, Tick, Login, Revoke, tracker_discard_pending_events, vars
<1> QED
  BY <1>1, <1>2, <1>4, <1>5, <1>6, <1>7, <1>8, <1>9, <1>10, <1>11, <1>12, <1>13
  DEF Next, Session, Owner

LEMMA IdsStep == TypeInv /\ IdsUnique /\ [Next]_vars => IdsUnique'
<1> SUFFICES ASSUME TypeInv, IdsUnique, [Next]_vars
             PROVE  IdsUnique'
  OBVIOUS
<1>0. rows \subseteq Row /\ nextId \in Nat \ {0}
  BY DEF TypeInv, TypeOK
<1>1. CASE UNCHANGED journal
  BY <1>1 DEF IdsUnique, journal
<1>2. CASE SaveSegment /\ dirty
  <2>1. buffer \in Event
    BY <1>2 DEF TypeInv, TypeOK, Consistent
  <2> QED
    BY <1>0, <1>2, <2>1, MergeIds DEF SaveSegment, IdsUnique
<1>3. CASE SaveSegment /\ ~dirty
  BY <1>1, <1>3 DEF SaveSegment
<1>4. CASE /\ nextId' = nextId
           /\ \/ rows' = event_store_prune(rows, now - Retention)
              \/ rows' = event_store_discard_pending(rows, device)
              \/ rows' = event_store_mark_sent(rows, sending.id)
  <2>1. CASE rows' = event_store_prune(rows, now - Retention)
    BY <1>0, <1>4, <2>1, UpdateIds DEF IdsUnique
  <2>2. CASE rows' = event_store_discard_pending(rows, device)
    BY <1>0, <1>4, <2>2, UpdateIds DEF IdsUnique
  <2>3. CASE rows' = event_store_mark_sent(rows, sending.id)
    BY <1>0, <1>4, <2>3, UpdateIds DEF IdsUnique
  <2> QED
    BY <1>4, <2>1, <2>2, <2>3
<1> QED
  BY <1>1, <1>2, <1>3, <1>4, JournalStep DEF JournalChange, MarkSent

\* What the server holds for a row it holds for the row's other states.
LEMMA HoldsSame ==
  ASSUME NEW h, NEW r, NEW q, Holds(h, r), q.id = r.id, SameInterval(q, r)
  PROVE  Holds(h, q)
  BY DEF Holds, SameInterval

\* An accepted upload replaces no upload of another row.
LEMMA AcceptedHolds ==
  ASSUME TypeInv, phase = "post"
  PROVE  /\ \E h \in Accepted(sending) : Holds(h, sending)
         /\ \A h \in server : h \notin Accepted(sending) => h.id = sending.id
<1> DEFINE new == [as |-> device, id |-> sending.id, from |-> sending.device,
                   status |-> sending.status, start |-> sending.start, end |-> sending.end]
<1>1. sending \in Row /\ sending.device = device
  BY DEF TypeInv, Consistent
<1>2. Holds(new, sending)
  BY <1>1 DEF Holds, Row
<1> QED
  BY <1>2 DEF Accepted

\* Only an upload changes what the server has.
LEMMA ServerCause ==
  ASSUME [Next]_vars
  PROVE  server' = server \/ PostRow \/ PostRowFails
<1>2. CASE /\ Next
           /\ ~(PostRow \/ PostRowFails)
  BY <1>2
  DEF Next, Session, Owner, World, StartSession, StartFails, OpenBucket, Poll, SkipSample,
      SampleSameStatus, SampleNewStatus, MarkNewStatus, SaveTransition, PeriodicCheckpoint,
      EnsureBucket, ReadPending, ReplayDone, ReadPendingFails, MarkSent, MarkSentFails,
      RequestEnds, Unauthorized, CheckpointLast, DiscardPending, tracker_session_cleanup,
      tracker_session_tracked_today, Crash, Tick, Login, Revoke, tracker_discard_pending_events, outside
<1>3. CASE UNCHANGED vars
  BY <1>3 DEF vars, outside
<1> QED
  BY <1>2, <1>3

\* A step of the server: nothing, or the row being uploaded is accepted.
LEMMA ServerStep ==
  ASSUME [Next]_vars
  PROVE  \/ server' = server
         \/ phase = "post" /\ server' = Accepted(sending) /\ rows' = rows
  BY ServerCause DEF PostRow, PostRowFails, journal

\* The steps that lead into an upload or stay in one.
LEMMA UploadStep ==
  ASSUME [Next]_vars, phase' \in {"post", "mark"}
  PROVE  \/ ReadPending
         \/ PostRow
         \/ phase' = phase /\ sending' = sending /\ server' = server
<1> USE DEF locals, outside, PollEnds
<1>1. CASE SampleSameStatus \/ SampleNewStatus \/ MarkNewStatus \/ SaveTransition
           \/ PeriodicCheckpoint
  BY <1>1 DEF SampleSameStatus, SampleNewStatus, MarkNewStatus, SaveTransition,
              PeriodicCheckpoint, EndOrFlush
<1>2. CASE World \/ UNCHANGED vars
  BY <1>2 DEF World, Tick, Login, Revoke, tracker_discard_pending_events, vars
<1>3. CASE StartSession \/ StartFails \/ OpenBucket \/ Poll \/ SkipSample \/ EnsureBucket
           \/ ReplayDone \/ ReadPendingFails \/ PostRowFails \/ MarkSent \/ MarkSentFails
           \/ RequestEnds \/ Unauthorized \/ CheckpointLast \/ DiscardPending
           \/ tracker_session_cleanup \/ tracker_session_tracked_today \/ Crash
  BY <1>3
  DEF StartSession, StartFails, OpenBucket, Poll, SkipSample, EnsureBucket, ReplayDone,
      ReadPendingFails, PostRowFails, MarkSent, MarkSentFails, RequestEnds, Unauthorized,
      CheckpointLast, DiscardPending, tracker_session_cleanup,
      tracker_session_tracked_today, Crash
<1> QED
  BY <1>1, <1>2, <1>3 DEF Next, Session, Owner

LEMMA SentStep == TypeInv /\ UploadInv /\ [Next]_vars => UploadInv'
<1> SUFFICES ASSUME TypeInv, UploadInv, [Next]_vars
             PROVE  UploadInv'
  OBVIOUS
<1>0. rows \subseteq Row
  BY DEF TypeInv, TypeOK
<1>1. IdsUnique'
  BY IdsStep DEF UploadInv
<1>2. SentIsOnServer'
  <2>1. CASE server' = server /\ rows' = rows
    BY <2>1 DEF UploadInv, SentIsOnServer
  <2>2. CASE server' = server /\ SaveSegment /\ dirty
    <3>1. \A r \in rows' : r.sent => r \in rows
      BY <1>0, <2>2, MergeSent DEF SaveSegment
    <3> QED
      BY <2>2, <3>1 DEF UploadInv, SentIsOnServer
  <2>3. CASE server' = server /\ Shrunk(rows', rows)
    <3>1. ASSUME NEW q \in rows', q.sent
          PROVE  \E h \in server : Holds(h, q)
      <4>1. PICK r \in rows : q.id = r.id /\ SameInterval(q, r) /\ r.sent
        BY <2>3, <3>1 DEF Shrunk
      <4> QED
        BY <4>1, HoldsSame DEF UploadInv, SentIsOnServer
    <3> QED
      BY <2>3, <3>1 DEF SentIsOnServer
  <2>4. CASE MarkSent
    <3>1. PICK h \in server : Holds(h, sending)
      BY <2>4 DEF MarkSent, UploadInv
    <3>2. ASSUME NEW q \in rows', q.sent
          PROVE  \E g \in server : Holds(g, q)
      <4>1. PICK r \in rows : q = IF r.id = sending.id THEN [r EXCEPT !.sent = TRUE] ELSE r
        BY <2>4 DEF MarkSent, event_store_mark_sent
      <4>2. CASE r.id = sending.id
        <5>1. SameInterval(r, sending)
          BY <2>4, <4>2 DEF MarkSent, UploadInv
        <5>2. q.id = sending.id /\ SameInterval(q, sending)
          BY <1>0, <4>1, <4>2, <5>1 DEF SameInterval, Row
        <5> QED
          BY <3>1, <5>2, HoldsSame
      <4>3. CASE r.id # sending.id
        BY <3>2, <4>1, <4>3 DEF UploadInv, SentIsOnServer
      <4> QED
        BY <4>2, <4>3
    <3>3. server' = server
      BY <2>4 DEF MarkSent, outside
    <3> QED
      BY <3>2, <3>3 DEF SentIsOnServer
  <2>5. CASE phase = "post" /\ server' = Accepted(sending) /\ rows' = rows
    <3>1. ASSUME NEW r \in rows, r.sent
          PROVE  \E h \in server' : Holds(h, r)
      <4>1. PICK h \in server : Holds(h, r)
        BY <3>1 DEF UploadInv, SentIsOnServer
      <4>2. CASE h \in Accepted(sending)
        BY <2>5, <4>1, <4>2
      <4>3. CASE h \notin Accepted(sending)
        <5>1. r.id = sending.id
          BY <2>5, <4>1, <4>3, AcceptedHolds DEF Holds
        <5>2. SameInterval(r, sending)
          BY <2>5, <5>1 DEF UploadInv
        <5>3. PICK g \in Accepted(sending) : Holds(g, sending)
          BY <2>5, AcceptedHolds
        <5> QED
          BY <2>5, <5>1, <5>2, <5>3, HoldsSame
      <4> QED
        BY <4>2, <4>3
    <3> QED
      BY <2>5, <3>1 DEF SentIsOnServer
  <2>6. server' = server /\ rows' # rows =>
          (SaveSegment /\ dirty) \/ MarkSent \/ Shrunk(rows', rows)
    <3>1. Shrunk(event_store_prune(rows, now - Retention), rows)
      BY <1>0, DiscardShrinks
    <3>2. Shrunk(event_store_discard_pending(rows, device), rows)
      BY <1>0, DiscardShrinks
    <3> QED
      BY <3>1, <3>2, JournalStep DEF JournalChange, SaveSegment, journal
  <2> QED
    BY <2>1, <2>2, <2>3, <2>4, <2>5, <2>6, ServerStep
<1>3. (phase \in {"post", "mark"} =>
         \A r \in rows : r.id = sending.id => SameInterval(r, sending))'
  <2> SUFFICES ASSUME phase' \in {"post", "mark"}, NEW q \in rows', q.id = sending'.id
               PROVE  SameInterval(q, sending')
    BY DEF SameInterval
  <2>1. CASE ReadPending
    <3>1. rows' = rows /\ sending' \in rows
      BY <2>1 DEF ReadPending, journal, event_store_next_pending, PendingRows
    <3>2. q = sending'
      BY <3>1 DEF UploadInv, IdsUnique
    <3> QED
      BY <3>2 DEF SameInterval
  <2>2. CASE PostRow
    BY <2>2 DEF PostRow, journal, locals, UploadInv
  <2>3. CASE phase' = phase /\ sending' = sending /\ server' = server
    <3>1. rows' = rows \/ Shrunk(rows', rows)
      <4>1. Shrunk(event_store_prune(rows, now - Retention), rows)
        BY <1>0, DiscardShrinks
      <4>2. Shrunk(event_store_discard_pending(rows, device), rows)
        BY <1>0, DiscardShrinks
      <4> QED
        BY <2>3, <4>1, <4>2, JournalStep DEF JournalChange, MarkSent, journal
    <3>2. PICK r \in rows : q.id = r.id /\ SameInterval(q, r)
      BY <3>1 DEF Shrunk, SameInterval
    <3>3. SameInterval(r, sending)
      BY <2>3, <3>2 DEF UploadInv
    <3> QED
      BY <2>3, <3>2, <3>3 DEF SameInterval
  <2> QED
    BY <2>1, <2>2, <2>3, UploadStep
<1>4. (phase = "mark" => \E h \in server : Holds(h, sending))'
  <2> SUFFICES ASSUME phase' = "mark"
               PROVE  \E h \in server' : Holds(h, sending')
    BY DEF Holds
  <2>1. CASE ReadPending
    BY <2>1 DEF ReadPending
  <2>2. CASE PostRow
    BY <2>2, AcceptedHolds DEF PostRow, locals
  <2>3. CASE phase' = phase /\ sending' = sending /\ server' = server
    BY <2>3 DEF UploadInv
  <2> QED
    BY <2>1, <2>2, <2>3, UploadStep
<1> QED
  BY <1>1, <1>2, <1>3, <1>4 DEF UploadInv

\* A row is marked sent only when the server holds its interval under its own
\* device, whatever is lost, refused, retried or merged on the way.
THEOREM SentHolds == Spec => []SentIsOnServer
<1>1. Init => UploadInv
  BY DEF Init, UploadInv, IdsUnique, SentIsOnServer
<1>2. UploadInv => SentIsOnServer
  BY DEF UploadInv
<1> QED
  BY <1>1, <1>2, TypeInvariant, SentStep, PTL DEF Spec

-----------------------------------------------------------------------------
(***************************************************************************)
(* No observation is lost.                                                 *)
(***************************************************************************)
LEMMA CoversTransitive ==
  ASSUME NEW p \in Row, NEW q \in Row \cup Event, NEW o \in Observation,
         Covers(p, q), Covers(q, o)
  PROVE  Covers(p, o)
  BY DEF Covers, Row, Event, Observation

\* A checkpoint keeps what the journal has and adds what the segment holds.
LEMMA SaveKeeps ==
  ASSUME TypeInv, SaveSegment, NEW o \in Observation,
         \/ KeptInRow(rows, o)
         \/ dirty /\ buffer # NoEvent /\ KeptInSegment(buffer, o)
  PROVE  KeptInRow(rows', o)
<1>1. CASE ~dirty
  BY <1>1 DEF SaveSegment, journal
<1>2. CASE dirty
  <2>1. rows \subseteq Row /\ nextId \in Nat \ {0} /\ buffer \in Event
    BY <1>2 DEF TypeInv, TypeOK, Consistent
  <2>2. rows' = event_store_merge(rows, nextId, buffer)
    BY <1>2 DEF SaveSegment
  <2>3. rows' \subseteq Row
    BY <2>1, <2>2, MergeType
  <2>4. PICK q : /\ (q \in rows /\ ~q.discarded) \/ q = buffer
                 /\ Covers(q, o) /\ o.taken <= q.created
    BY DEF KeptInRow, KeptInSegment
  <2>5. q \in Row \cup Event /\ q.created \in Nat /\ o.taken \in Nat
    BY <2>1, <2>4 DEF Row, Event, Observation
  <2>6. PICK r \in rows' : ~r.discarded /\ Covers(r, q) /\ q.created <= r.created
    <3>1. CASE q \in rows /\ ~q.discarded
      BY <2>1, <2>2, <3>1, MergeKeeps
    <3>2. CASE q = buffer /\ (q \in rows => ~q.discarded)
      BY <2>1, <2>2, <3>2, MergeKeeps
    <3>3. q = buffer => q \notin rows
      BY <2>1 DEF Event, Row
    <3> QED
      BY <2>4, <3>1, <3>2, <3>3
  <2>7. Covers(r, o)
    BY <2>3, <2>4, <2>5, <2>6, CoversTransitive
  <2>8. o.taken <= r.created
    BY <2>3, <2>4, <2>5, <2>6 DEF Row
  <2> QED
    BY <2>6, <2>7, <2>8 DEF KeptInRow
<1> QED
  BY <1>1, <1>2

LEMMA MarkKeeps ==
  ASSUME NEW R, R \subseteq Row, NEW o, NEW x, KeptInRow(R, o)
  PROVE  KeptInRow(event_store_mark_sent(R, x), o)
<1>1. PICK r \in R : ~r.discarded /\ Covers(r, o) /\ o.taken <= r.created
  BY DEF KeptInRow
<1> DEFINE q == IF r.id = x THEN [r EXCEPT !.sent = TRUE] ELSE r
<1>2. q \in event_store_mark_sent(R, x)
  BY DEF event_store_mark_sent
<1>3. ~q.discarded /\ Covers(q, o) /\ o.taken <= q.created
  BY <1>1 DEF Covers, Row
<1> QED
  BY <1>2, <1>3 DEF KeptInRow

\* Pruning by the age of a row removes nothing observed within the retention.
LEMMA PruneKeeps ==
  ASSUME TypeInv, NEW o \in Observation, KeptInRow(rows, o), now - o.taken <= Retention
  PROVE  KeptInRow(event_store_prune(rows, now - Retention), o)
<1>1. PICK r \in rows : ~r.discarded /\ Covers(r, o) /\ o.taken <= r.created
  BY DEF KeptInRow
<1>2. r.created >= now - Retention
  BY <1>1, ConstantTypes DEF TypeInv, TypeOK, Row, Observation
<1> QED
  BY <1>1, <1>2 DEF KeptInRow, event_store_prune

\* Discarding loses an observation only when the observer is told.
LEMMA DiscardKeeps ==
  ASSUME NEW R, R \subseteq Row, NEW d, NEW o, o # Nothing, KeptInRow(R, o),
         ForgetDiscarded(o, event_store_discard_pending(R, d)) # Nothing
  PROVE  KeptInRow(event_store_discard_pending(R, d), o)
<1>1. PICK r \in R : ~r.discarded /\ Covers(r, o) /\ o.taken <= r.created
  BY DEF KeptInRow
<1>2. CASE r \notin PendingRows(R, d)
  <2>1. r \in event_store_discard_pending(R, d)
    BY <1>2 DEF event_store_discard_pending
  <2> QED
    BY <1>1, <2>1 DEF KeptInRow
<1>3. CASE r \in PendingRows(R, d)
  <2> DEFINE q == [r EXCEPT !.discarded = TRUE]
  <2>1. q \in event_store_discard_pending(R, d)
    BY <1>3 DEF event_store_discard_pending
  <2>2. q.discarded /\ Covers(q, o)
    BY <1>1 DEF Covers, Row
  <2> QED
    BY <2>1, <2>2 DEF ForgetDiscarded
<1> QED
  BY <1>2, <1>3

\* Marking an observation as durable changes nothing else about it.
LEMMA DurableFields ==
  ASSUME NEW o \in Observation
  PROVE  LET d == Durable(o)
         IN  /\ d \in Observation /\ d # Nothing /\ d.durable /\ d.taken = o.taken
             /\ \A r : Covers(r, d) <=> Covers(r, o)
<1>1. o # Nothing
  BY DEF Observation, Nothing, Status
<1>2. Durable(o) = [o EXCEPT !.durable = TRUE]
  BY <1>1 DEF Durable
<1>3. [o EXCEPT !.durable = TRUE] # Nothing
  BY DEF Observation, Nothing, Status
<1> QED
  BY <1>2, <1>3 DEF Observation, Covers

\* What holds of the observation o when the journal is R and the segment in
\* memory is b; ObservationInv says it of the current state.
Kept(o, R, b, d, t) ==
  o # Nothing =>
    /\ o.taken <= t
    /\ o.durable /\ t - o.taken <= Retention => KeptInRow(R, o)
    /\ ~o.durable => b # NoEvent /\ d /\ KeptInSegment(b, o)

LEMMA ObservationInvIsKept == ObservationInv <=> Kept(seen, rows, buffer, dirty, now)
  BY DEF ObservationInv, Kept

\* A checkpoint makes the observation durable.
LEMMA SaveStep ==
  ASSUME TypeInv, ObservationInv, SaveSegment, NEW b, NEW d
  PROVE  Kept(Durable(seen), rows', b, d, now)
<1>1. CASE seen = Nothing
  BY <1>1 DEF Durable, Kept
<1>2. CASE seen # Nothing
  <2>1. seen \in Observation
    BY <1>2 DEF TypeInv, TypeOK
  <2>2. /\ Durable(seen) \in Observation /\ Durable(seen).durable
        /\ Durable(seen).taken = seen.taken
        /\ \A r : Covers(r, Durable(seen)) <=> Covers(r, seen)
    BY <2>1, DurableFields
  <2>3. now - seen.taken <= Retention => KeptInRow(rows', seen)
    BY <1>2, <2>1, SaveKeeps DEF ObservationInv
  <2>4. KeptInRow(rows', seen) => KeptInRow(rows', Durable(seen))
    BY <2>2 DEF KeptInRow
  <2> QED
    BY <1>2, <2>2, <2>3, <2>4 DEF Kept, ObservationInv
<1> QED
  BY <1>1, <1>2

\* A new observation is held by the segment it went into.
LEMMA NoticeKept ==
  ASSUME TypeInv, NEW e \in Event, e.created = now, NEW o, NEW R, NEW b \in Event,
         Covers(b, e), b.created = now, Kept(o, R, b, TRUE, now), NEW s \in Notice(o, e)
  PROVE  Kept(s, R, b, TRUE, now)
<1> DEFINE noticed == [device |-> e.device, status |-> e.status, start |-> e.start,
                       end |-> e.end, taken |-> now, durable |-> FALSE]
<1>1. s = o \/ s = noticed
  BY DEF Notice
<1>2. b # NoEvent
  BY DEF Event, NoEvent, Status
<1>3. Kept(noticed, R, b, TRUE, now)
  BY <1>2 DEF Kept, KeptInSegment, Covers, Event, TypeInv, TypeOK
<1> QED
  BY <1>1, <1>3

\* A segment extended by an event covers both.
LEMMA ExtendedSegment ==
  ASSUME NEW b \in Event, NEW e \in Event, b.device = e.device, b.status = e.status
  PROVE  LET x == [b EXCEPT !.start = Lower(@, e.start), !.end = Higher(@, e.end),
                            !.created = e.created]
         IN  x \in Event /\ Covers(x, e) /\ Covers(x, b) /\ x.created = e.created
<1> DEFINE start == Lower(b.start, e.start)
           end   == Higher(b.end, e.end)
           x     == [b EXCEPT !.start = start, !.end = end, !.created = e.created]
<1>1. /\ start \in Nat /\ start <= b.start /\ start <= e.start
      /\ end \in Nat /\ b.end <= end /\ e.end <= end
  BY DEF Event, Lower, Higher
<1>2. x = [b EXCEPT !.start = Lower(@, e.start), !.end = Higher(@, e.end),
                    !.created = e.created]
  BY DEF Event
<1> HIDE DEF start, end
<1>3. /\ x \in Event /\ x.device = b.device /\ x.status = b.status
      /\ x.start = start /\ x.end = end /\ x.created = e.created
  BY <1>1 DEF Event
<1> HIDE DEF x
<1> QED
  BY <1>1, <1>2, <1>3 DEF Covers

LEMMA BufferStep ==
  ASSUME TypeInv, ObservationInv, NEW e \in Event, e.device = device, e.created = now,
         now' = now, buffer_afk_event(e) \/ BufferingFails(e)
  PROVE  ObservationInv'
<1>0. Covers(e, e)
  BY DEF Covers, Event
<1>1. CASE ExtendBuffer(e)
  <2>1. /\ buffer \in Event /\ buffer.device = device /\ buffer.status = e.status
        /\ now \in Nat /\ dirty \in BOOLEAN
    BY <1>1 DEF ExtendBuffer, Compatible, TypeInv, TypeOK, Consistent
  <2>2. buffer' = [buffer EXCEPT !.start = Lower(@, e.start), !.end = Higher(@, e.end),
                                 !.created = e.created]
    BY <1>1 DEF ExtendBuffer
  <2>3. /\ buffer' \in Event /\ Covers(buffer', e) /\ Covers(buffer', buffer)
        /\ buffer'.created = now
    BY <2>1, <2>2, ExtendedSegment
  <2>4. Kept(seen, rows, buffer', TRUE, now)
    <3>1. CASE seen # Nothing /\ ~seen.durable
      <4>1. seen \in Observation /\ Covers(buffer, seen)
        BY <3>1 DEF TypeInv, TypeOK, ObservationInv, KeptInSegment
      <4>2. Covers(buffer', seen)
        BY <2>1, <2>3, <4>1 DEF Covers, Event, Observation
      <4>3. buffer' # NoEvent
        BY <2>3 DEF Event, NoEvent, Status
      <4> QED
        BY <2>3, <3>1, <4>2, <4>3 DEF Kept, KeptInSegment, ObservationInv
    <3>2. CASE seen = Nothing \/ seen.durable
      BY <3>2 DEF Kept, ObservationInv
    <3> QED
      BY <3>1, <3>2
  <2>5. seen' \in Notice(seen, e) /\ rows' = rows /\ dirty' = TRUE
    BY <1>1 DEF ExtendBuffer, journal
  <2>6. Kept(seen', rows, buffer', TRUE, now)
    BY <2>3, <2>4, <2>5, NoticeKept
  <2> QED
    BY <2>5, <2>6 DEF Kept, ObservationInv
<1>2. CASE ReplaceBuffer(e)
  <2>1. /\ SaveSegment /\ buffer' = e /\ dirty' = TRUE
        /\ seen' \in Notice(Durable(seen), e)
    BY <1>2 DEF ReplaceBuffer, WriteSegment
  <2>2. Kept(Durable(seen), rows', e, TRUE, now)
    BY <2>1, SaveStep
  <2>3. Kept(seen', rows', e, TRUE, now)
    BY <1>0, <2>1, <2>2, NoticeKept
  <2> QED
    BY <2>1, <2>3 DEF Kept, ObservationInv
<1>3. CASE BufferingFails(e)
  BY <1>3 DEF BufferingFails, CheckpointFails, journal, segment, ObservationInv
<1> QED
  BY <1>1, <1>2, <1>3 DEF buffer_afk_event

\* A step that leaves the segment and the observation alone, and of the
\* journal changes at most its flags and its old rows.
LEMMA QuietStep ==
  ASSUME TypeInv, ObservationInv, UNCHANGED <<buffer, dirty, seen>>,
         now' \in {now, now + 1},
         \/ rows' = rows
         \/ rows' = event_store_prune(rows, now - Retention)
         \/ rows' = event_store_mark_sent(rows, sending.id)
  PROVE  ObservationInv'
<1>1. CASE seen = Nothing
  BY <1>1 DEF ObservationInv
<1>2. CASE seen # Nothing
  <2>1. seen \in Observation /\ rows \subseteq Row /\ now \in Nat
    BY <1>2 DEF TypeInv, TypeOK
  <2>2. seen.taken <= now' /\ (now' - seen.taken <= Retention => now - seen.taken <= Retention)
    BY <1>2, <2>1, ConstantTypes DEF ObservationInv, Observation
  <2>3. KeptInRow(rows, seen) /\ now - seen.taken <= Retention => KeptInRow(rows', seen)
    BY <2>1, PruneKeeps, MarkKeeps
  <2> QED
    BY <1>2, <2>2, <2>3 DEF ObservationInv
<1> QED
  BY <1>1, <1>2

\* Discarding, by this process or by another one.
LEMMA DiscardStep ==
  ASSUME TypeInv, ObservationInv, now' = now,
         rows' = event_store_discard_pending(rows, device),
         NEW o, o = Nothing \/ (o = seen /\ seen.durable), NEW b, NEW d
  PROVE  Kept(ForgetDiscarded(o, rows'), rows', b, d, now)
<1>1. CASE ForgetDiscarded(o, rows') = Nothing
  BY <1>1 DEF Kept
<1>2. CASE ForgetDiscarded(o, rows') # Nothing
  <2>1. o = seen /\ seen # Nothing /\ seen.durable /\ ForgetDiscarded(o, rows') = o
    BY <1>2 DEF ForgetDiscarded
  <2>2. KeptInRow(rows, o) => KeptInRow(rows', o)
    BY <1>2, <2>1, DiscardKeeps DEF TypeInv, TypeOK
  <2> QED
    BY <2>1, <2>2 DEF Kept, ObservationInv
<1> QED
  BY <1>1, <1>2

\* What is not saved is forgotten with the memory.
LEMMA UnsavedStep ==
  ASSUME TypeInv, ObservationInv, NEW b, NEW d
  PROVE  Kept(Unsaved(seen), rows, b, d, now)
  BY DEF Unsaved, Kept, ObservationInv

LEMMA ObservationStep == TypeInv /\ ObservationInv /\ [Next]_vars => ObservationInv'
<1> SUFFICES ASSUME TypeInv, ObservationInv, [Next]_vars
             PROVE  ObservationInv'
  OBVIOUS
<1>0. Kept(seen', rows', buffer', dirty', now) /\ now' = now => ObservationInv'
  BY DEF Kept, ObservationInv
<1> USE DEF journal, segment, memory, locals, world, outside
<1>1. CASE StartSession \/ StartFails \/ OpenBucket \/ Poll
  BY <1>1, QuietStep DEF StartSession, StartFails, OpenBucket, Poll
<1>2. CASE SkipSample \/ EnsureBucket \/ ReadPending \/ ReplayDone \/ ReadPendingFails
  BY <1>2, QuietStep DEF SkipSample, EnsureBucket, ReadPending, ReplayDone, ReadPendingFails
<1>3. CASE PostRow \/ PostRowFails \/ MarkSent \/ MarkSentFails \/ RequestEnds \/ Unauthorized
  BY <1>3, QuietStep
  DEF PostRow, PostRowFails, MarkSent, MarkSentFails, RequestEnds, Unauthorized
<1>4. CASE SampleSameStatus
  <2> DEFINE s == afk_update(now - lastInput)
             e == AfkEvent(s.afk, s.at, s.duration)
  <2>1. s.afk \in BOOLEAN /\ s.at \in Nat /\ s.duration \in Nat
    BY SampleType DEF Sample
  <2>2. buffer_afk_event(e) \/ BufferingFails(e)
    BY <1>4 DEF SampleSameStatus
  <2>3. now' = now
    BY <1>4 DEF SampleSameStatus
  <2>4. e.created = now
    BY DEF AfkEvent
  <2> HIDE DEF s
  <2>5. e \in Event /\ e.device = device
    BY <2>1, AfkEventType
  <2> HIDE DEF e
  <2> QED
    BY <2>2, <2>3, <2>4, <2>5, BufferStep
<1>5. CASE SampleNewStatus
  <2> DEFINE s == afk_update(now - lastInput)
             e == AfkEvent(afk, s.at, 0)
  <2>1. afk \in BOOLEAN /\ s.at \in Nat /\ 0 \in Nat
    BY SampleType DEF Sample, TypeInv, TypeOK
  <2>2. buffer_afk_event(e) \/ BufferingFails(e)
    BY <1>5 DEF SampleNewStatus
  <2>3. now' = now
    BY <1>5 DEF SampleNewStatus
  <2>4. e.created = now
    BY DEF AfkEvent
  <2> HIDE DEF s
  <2>5. e \in Event /\ e.device = device
    BY <2>1, AfkEventType
  <2> HIDE DEF e
  <2> QED
    BY <2>2, <2>3, <2>4, <2>5, BufferStep
<1>6. CASE MarkNewStatus
  <2> DEFINE e == AfkEvent(sample.afk, sample.at + 1, sample.duration)
  <2>1. sample.afk \in BOOLEAN /\ sample.at + 1 \in Nat /\ sample.duration \in Nat
    BY DEF Sample, TypeInv, TypeOK
  <2>2. buffer_afk_event(e) \/ BufferingFails(e)
    BY <1>6 DEF MarkNewStatus
  <2>3. now' = now
    BY <1>6 DEF MarkNewStatus
  <2>4. e.created = now
    BY DEF AfkEvent
  <2>5. e \in Event /\ e.device = device
    BY <2>1, AfkEventType
  <2> HIDE DEF e
  <2> QED
    BY <2>2, <2>3, <2>4, <2>5, BufferStep
<1>7. CASE SaveTransition \/ PeriodicCheckpoint \/ CheckpointLast
  <2>1. /\ now' = now /\ buffer' = buffer
        /\ \/ SaveSegment /\ seen' = Durable(seen)
           \/ UNCHANGED <<rows, dirty, seen>>
    BY <1>7 DEF SaveTransition, PeriodicCheckpoint, CheckpointLast,
                checkpoint_buffered_event, WriteSegment, CheckpointFails
  <2>2. CASE SaveSegment /\ seen' = Durable(seen)
    BY <1>0, <2>1, <2>2, SaveStep
  <2>3. CASE UNCHANGED <<rows, dirty, seen>>
    BY <2>1, <2>3, QuietStep
  <2> QED
    BY <2>1, <2>2, <2>3
<1>8. CASE DiscardPending
  <2>1. now' = now /\ seen' = ForgetDiscarded(Unsaved(seen), rows')
    BY <1>8 DEF DiscardPending
  <2>2. CASE rows' = event_store_discard_pending(rows, device)
    <3>1. Unsaved(seen) = Nothing \/ (Unsaved(seen) = seen /\ seen.durable)
      BY DEF Unsaved
    <3> QED
      BY <1>0, <2>1, <2>2, <3>1, DiscardStep
  <2>3. CASE rows' = rows
    <3>1. seen' = Nothing \/ seen' = Unsaved(seen)
      BY <2>1 DEF ForgetDiscarded
    <3> QED
      BY <1>0, <2>1, <2>3, <3>1, UnsavedStep DEF Kept
  <2> QED
    BY <1>8, <2>2, <2>3 DEF DiscardPending
<1>9. CASE tracker_session_cleanup
  <2>1. now' = now
    BY <1>9 DEF tracker_session_cleanup
  <2>2. CASE SaveSegment /\ seen' = Durable(seen)
    BY <1>0, <2>1, <2>2, SaveStep
  <2>3. CASE seen' = Unsaved(seen) /\ UNCHANGED journal
    BY <1>0, <2>1, <2>3, UnsavedStep
  <2> QED
    BY <1>9, <2>2, <2>3 DEF tracker_session_cleanup
<1>10. CASE Crash
  <2>1. now' = now /\ rows' = rows /\ seen' = Unsaved(seen)
    BY <1>10 DEF Crash
  <2> QED
    BY <1>0, <2>1, UnsavedStep
<1>11. CASE Tick \/ Login \/ Revoke \/ tracker_session_tracked_today
  BY <1>11, QuietStep DEF Tick, Login, Revoke, tracker_session_tracked_today
<1>12. CASE tracker_discard_pending_events
  <2>1. /\ now' = now /\ buffer' = buffer /\ dirty' = dirty
        /\ rows' = event_store_discard_pending(rows, device)
        /\ seen' = IF seen # Nothing /\ seen.durable
                   THEN ForgetDiscarded(seen, rows') ELSE seen
    BY <1>12 DEF tracker_discard_pending_events
  <2>2. CASE seen # Nothing /\ seen.durable
    BY <1>0, <2>1, <2>2, DiscardStep
  <2>3. CASE ~(seen # Nothing /\ seen.durable)
    BY <2>1, <2>3 DEF ObservationInv
  <2> QED
    BY <2>2, <2>3
<1>13. CASE UNCHANGED vars
  BY <1>13, QuietStep DEF vars
<1> QED
  BY <1>1, <1>2, <1>3, <1>4, <1>5, <1>6, <1>7, <1>8, <1>9, <1>10, <1>11, <1>12, <1>13
  DEF Next, Session, Owner, World

\* An observation of the user, once buffer_afk_event accepted it, is in the
\* segment in memory or in a row, until its retention ends, it is discarded or
\* the process dies with it: no order of merges, replacements, checkpoints,
\* flushes, prunes, failures and restarts drops it.
THEOREM ObservationsKept == Spec => []NoObservationLost
<1>1. Init => ObservationInv
  BY DEF Init, ObservationInv
<1>2. ObservationInv => NoObservationLost
  BY DEF ObservationInv, NoObservationLost, KeptInRow, KeptInSegment
<1> QED
  BY <1>1, <1>2, TypeInvariant, ObservationStep, PTL DEF Spec


-----------------------------------------------------------------------------
(***************************************************************************)
(* What a crash can lose.                                                  *)
(***************************************************************************)
\* A checkpoint is due at most one interval from now, and a session that is
\* being started has no segment yet.
LossInv ==
  /\ CrashLossBounded
  /\ next.checkpoint <= now + CheckpointEvery
  /\ phase = "open" => buffer = NoEvent

\* The deadline of the checkpoint moves when a session starts and when it has
\* been reached.
DeadlineChange ==
  \/ next'.checkpoint \in {next.checkpoint, 0}
  \/ /\ next'.checkpoint = now + CheckpointEvery
     /\ OpenBucket \/ (PeriodicCheckpoint /\ (checkpoint_buffered_event \/ CheckpointFails))

LEMMA DeadlineStep ==
  ASSUME TypeInv, [Next]_vars
  PROVE  DeadlineChange /\ now <= now' /\ failures' \in {failures, failures + 1}
<1>0. next \in Deadlines /\ now \in Nat /\ failures \in Nat
  BY DEF TypeInv, TypeOK
<1> USE DEF Fails, memory, world, outside, DeadlineChange
<1>1. CASE StartSession \/ StartFails \/ OpenBucket \/ Poll \/ SkipSample
  <2>1. next' = next \/ next'.checkpoint \in {next.checkpoint, 0}
        \/ (OpenBucket /\ next'.checkpoint = now + CheckpointEvery)
    BY <1>0, <1>1
    DEF StartSession, StartFails, OpenBucket, Poll, SkipSample, Deadlines, NoDeadlines
  <2>2. now' = now /\ failures' \in {failures, failures + 1}
    BY <1>1 DEF StartSession, StartFails, OpenBucket, Poll, SkipSample
  <2> QED
    BY <1>0, <2>1, <2>2
<1>2. CASE SampleSameStatus \/ SampleNewStatus \/ MarkNewStatus
  BY <1>0, <1>2
  DEF SampleSameStatus, SampleNewStatus, MarkNewStatus, Deadlines, buffer_afk_event,
      ExtendBuffer, ReplaceBuffer, WriteSegment, BufferingFails, CheckpointFails
<1>3. CASE SaveTransition \/ CheckpointLast
  BY <1>0, <1>3
  DEF SaveTransition, CheckpointLast, checkpoint_buffered_event, WriteSegment, CheckpointFails
<1>4. CASE PeriodicCheckpoint
  <2>1. now' = now /\ failures' \in {failures, failures + 1}
    BY <1>4 DEF PeriodicCheckpoint, checkpoint_buffered_event, WriteSegment, CheckpointFails
  <2>2. CASE next' = [next EXCEPT !.flush = NextFlush]
    BY <1>0, <2>1, <2>2 DEF Deadlines
  <2>3. CASE /\ checkpoint_buffered_event \/ CheckpointFails
             /\ next' = [next EXCEPT !.checkpoint = now + CheckpointEvery, !.flush = NextFlush]
    <3>1. next'.checkpoint = now + CheckpointEvery
      BY <1>0, <2>3 DEF Deadlines
    <3> QED
      BY <1>0, <1>4, <2>1, <2>3, <3>1
  <2> QED
    BY <1>4, <2>2, <2>3 DEF PeriodicCheckpoint
<1>5. CASE EnsureBucket \/ ReadPending \/ ReplayDone \/ ReadPendingFails \/ PostRow
           \/ PostRowFails \/ MarkSent \/ MarkSentFails \/ RequestEnds \/ Unauthorized
  BY <1>0, <1>5
  DEF EnsureBucket, ReadPending, ReplayDone, ReadPendingFails, PostRow, PostRowFails,
      MarkSent, MarkSentFails, RequestEnds, Unauthorized
<1>6. CASE DiscardPending \/ tracker_session_cleanup \/ Crash
  BY <1>0, <1>6
  DEF DiscardPending, tracker_session_cleanup, Crash, ForgetMemory, NoDeadlines
<1>7. CASE World \/ tracker_session_tracked_today \/ UNCHANGED vars
  BY <1>0, <1>7
  DEF World, Tick, Login, Revoke, tracker_discard_pending_events,
      tracker_session_tracked_today, vars
<1> QED
  BY <1>1, <1>2, <1>3, <1>4, <1>5, <1>6, <1>7 DEF Next, Session, Owner

\* What is not durable was observed before this step, or in it.
LEMMA SeenStep ==
  ASSUME TypeInv, [Next]_vars, seen' # Nothing, ~seen'.durable
  PROVE  seen' = seen \/ seen'.taken = now
<1>0. seen = Nothing \/ Durable(seen).durable
  BY DEF TypeInv, TypeOK, Durable, Observation
<1>1. Durable(Nothing) = Nothing /\ Unsaved(seen) \in {seen, Nothing}
      /\ \A o, R : ForgetDiscarded(o, R) \in {o, Nothing}
  BY DEF Durable, Unsaved, ForgetDiscarded
<1>2. ASSUME NEW o, NEW e, seen' \in Notice(o, e)
      PROVE  seen' = o \/ seen'.taken = now
  BY <1>2 DEF Notice
<1>3. ASSUME NEW e, buffer_afk_event(e) \/ BufferingFails(e)
      PROVE  seen' = seen \/ seen'.taken = now
  <2>1. CASE ExtendBuffer(e)
    BY <1>2, <2>1 DEF ExtendBuffer
  <2>2. CASE ReplaceBuffer(e)
    <3>1. seen' = Durable(seen) \/ seen'.taken = now
      BY <1>2, <2>2 DEF ReplaceBuffer
    <3> QED
      BY <1>0, <1>1, <3>1
  <2> QED
    BY <1>3, <2>1, <2>2 DEF buffer_afk_event, BufferingFails, CheckpointFails
<1>4. CASE SampleSameStatus \/ SampleNewStatus \/ MarkNewStatus
  BY <1>3, <1>4 DEF SampleSameStatus, SampleNewStatus, MarkNewStatus
<1>5. CASE SaveTransition \/ PeriodicCheckpoint \/ CheckpointLast
  BY <1>0, <1>1, <1>5
  DEF SaveTransition, PeriodicCheckpoint, CheckpointLast, checkpoint_buffered_event,
      CheckpointFails
<1>6. CASE DiscardPending \/ tracker_session_cleanup \/ Crash
           \/ tracker_discard_pending_events
  BY <1>0, <1>1, <1>6
  DEF DiscardPending, tracker_session_cleanup, Crash, tracker_discard_pending_events
<1>7. CASE StartSession \/ StartFails \/ OpenBucket \/ Poll \/ SkipSample
           \/ EnsureBucket \/ ReadPending \/ ReplayDone \/ ReadPendingFails \/ PostRow
           \/ PostRowFails \/ MarkSent \/ MarkSentFails \/ RequestEnds \/ Unauthorized
  BY <1>7
  DEF StartSession, StartFails, OpenBucket, Poll, SkipSample, EnsureBucket, ReadPending,
      ReplayDone, ReadPendingFails, PostRow, PostRowFails, MarkSent, MarkSentFails,
      RequestEnds, Unauthorized
<1>8. CASE Tick \/ Login \/ Revoke \/ tracker_session_tracked_today \/ UNCHANGED vars
  BY <1>8 DEF Tick, Login, Revoke, tracker_session_tracked_today, vars
<1> QED
  BY <1>4, <1>5, <1>6, <1>7, <1>8 DEF Next, Session, Owner, World

LEMMA OpenStep ==
  ASSUME [Next]_vars, phase' = "open"
  PROVE  /\ phase \in {"off", "open"}
         /\ buffer' = buffer
<1>1. CASE StartSession \/ StartFails \/ World \/ UNCHANGED vars
  BY <1>1
  DEF StartSession, StartFails, World, Tick, Login, Revoke, tracker_discard_pending_events,
      memory, segment, vars
<1>2. CASE SampleSameStatus \/ SampleNewStatus \/ MarkNewStatus \/ SaveTransition
           \/ PeriodicCheckpoint
  BY <1>2 DEF SampleSameStatus, SampleNewStatus, MarkNewStatus, SaveTransition,
              PeriodicCheckpoint, EndOrFlush
<1>3. CASE OpenBucket \/ Poll \/ SkipSample \/ EnsureBucket \/ ReadPending
           \/ ReplayDone \/ ReadPendingFails \/ PostRow \/ PostRowFails \/ MarkSent
           \/ MarkSentFails \/ RequestEnds \/ Unauthorized \/ CheckpointLast
           \/ DiscardPending \/ tracker_session_cleanup
           \/ tracker_session_tracked_today \/ Crash
  BY <1>3
  DEF OpenBucket, Poll, SkipSample, EnsureBucket, ReadPending, ReplayDone,
      ReadPendingFails, PostRow, PostRowFails, MarkSent, MarkSentFails, RequestEnds,
      Unauthorized, CheckpointLast, DiscardPending, tracker_session_cleanup,
      tracker_session_tracked_today, Crash, PollEnds
<1> QED
  BY <1>1, <1>2, <1>3 DEF Next, Session, Owner

LEMMA LossStep == TypeInv /\ ObservationInv /\ LossInv /\ [Next]_vars => LossInv'
<1> SUFFICES ASSUME TypeInv, ObservationInv, LossInv, [Next]_vars
             PROVE  LossInv'
  OBVIOUS
<1>0. /\ now \in Nat /\ now' \in Nat /\ failures \in Nat /\ CheckpointEvery \in Nat
      /\ next.checkpoint \in Nat /\ (seen # Nothing => seen.taken \in Nat)
  BY StepType, ConstantTypes DEF TypeInv, TypeOK, Deadlines, Observation
<1>1. DeadlineChange /\ now <= now' /\ failures' \in {failures, failures + 1}
  BY DeadlineStep
<1>2. next'.checkpoint <= now + CheckpointEvery /\ next'.checkpoint <= now' + CheckpointEvery
  BY <1>0, <1>1 DEF DeadlineChange, LossInv
<1>3. phase' = "open" => buffer' = NoEvent
  BY OpenStep DEF LossInv, TypeInv, Consistent
<1>4. ASSUME seen' # Nothing, ~seen'.durable, failures' = 0
      PROVE  seen'.taken + CheckpointEvery >= next'.checkpoint
  <2>1. failures = 0
    BY <1>0, <1>1, <1>4
  <2>2. CASE seen'.taken = now
    BY <1>0, <1>2, <2>2
  <2>3. CASE seen' = seen
    <3>0. seen # Nothing /\ ~seen.durable
      BY <1>4, <2>3
    <3>1. seen.taken + CheckpointEvery >= next.checkpoint /\ seen.taken \in Nat
      BY <1>0, <2>1, <3>0 DEF LossInv, CrashLossBounded
    <3>2. ~OpenBucket
      BY <1>4, <2>3 DEF OpenBucket, LossInv, ObservationInv
    <3>3. ~CheckpointFails
      BY <1>0, <1>4, <2>1 DEF CheckpointFails, Fails
    <3>4. ~checkpoint_buffered_event
      BY <1>4, <2>3 DEF checkpoint_buffered_event, Durable, TypeInv, TypeOK, Observation
    <3>5. next'.checkpoint \in {next.checkpoint, 0}
      BY <1>1, <3>2, <3>3, <3>4 DEF DeadlineChange
    <3> QED
      BY <1>0, <2>3, <3>1, <3>5
  <2> QED
    BY <1>4, <2>2, <2>3, SeenStep
<1> QED
  BY <1>2, <1>3, <1>4 DEF LossInv, CrashLossBounded

\* As long as no transaction failed, a crash loses nothing that was observed
\* before the last checkpoint was due, whatever the intervals are.
THEOREM LossBounded == Spec => []CrashLossBounded
<1>1. Init => ObservationInv /\ LossInv
  BY ConstantTypes
  DEF Init, ObservationInv, LossInv, CrashLossBounded, NoDeadlines
<1>2. LossInv => CrashLossBounded
  BY DEF LossInv
<1> QED
  BY <1>1, <1>2, TypeInvariant, ObservationStep, LossStep, PTL DEF Spec

-----------------------------------------------------------------------------
(***************************************************************************)
(* Tracker implements Outbox.  The statements of the journal are shown one *)
(* by one to be steps of the outbox; the invariants above say which row a  *)
(* step is about.                                                          *)
(***************************************************************************)
\* Membership in the mapped sets.
LEMMA InIds ==
  ASSUME NEW R, NEW i
  PROVE  /\ i \in PendingIds(R) <=> \E r \in R : r.id = i /\ ~r.sent /\ ~r.discarded
         /\ i \in SentIds(R) <=> \E r \in R : r.id = i /\ r.sent /\ ~r.discarded
         /\ i \in DiscardedIds(R) <=> \E r \in R : r.id = i /\ r.discarded
  BY DEF PendingIds, SentIds, DiscardedIds

LEMMA InHeld ==
  ASSUME NEW R, NEW S, NEW i
  PROVE  i \in HeldIds(R, S) <=> \E r \in R : r.id = i /\ \E h \in S : Holds(h, r)
  BY DEF HeldIds

UniqueIn(R) == \A r, q \in R : r.id = q.id => r = q

\* A merge has at most one target.
LEMMA OneTarget ==
  ASSUME NEW R, R \subseteq Row, UniqueIn(R), NEW e,
         NEW t \in MergeTarget(R, e), NEW u \in MergeTarget(R, e)
  PROVE  t = u
<1>1. t \in R /\ u \in R /\ ~EndsLater(t, u) /\ ~EndsLater(u, t)
  BY DEF MergeTarget, LatestRow
<1>2. /\ t.end \in Nat /\ u.end \in Nat /\ t.start \in Nat /\ u.start \in Nat
      /\ t.id \in Nat /\ u.id \in Nat
  BY <1>1 DEF Row
<1>3. t.id = u.id
  BY <1>1, <1>2 DEF EndsLater
<1> QED
  BY <1>1, <1>3 DEF UniqueIn

\* Appending a row adds an entry.
LEMMA AppendIsAdd ==
  ASSUME NEW R, NEW S, NEW id, NEW e, \A h \in S : h.id # id
  PROVE  LET after == event_store_append(R, id, e)
         IN  /\ PendingIds(after) = PendingIds(R) \cup {id}
             /\ SentIds(after) = SentIds(R)
             /\ DiscardedIds(after) = DiscardedIds(R)
             /\ HeldIds(after, S) = HeldIds(R, S)
<1> DEFINE new == [id |-> id, device |-> e.device, status |-> e.status,
                   start |-> e.start, end |-> e.end, created |-> e.created,
                   sent |-> FALSE, discarded |-> FALSE]
<1>1. event_store_append(R, id, e) = R \cup {new}
  BY DEF event_store_append
<1>2. new.id = id /\ new.sent = FALSE /\ new.discarded = FALSE
  OBVIOUS
<1> HIDE DEF new
<1>3. \A h \in S : ~Holds(h, new)
  BY <1>2 DEF Holds
<1> DEFINE A == R \cup {new}
<1>4. \A i : i \in PendingIds(A) <=> i \in PendingIds(R) \cup {id}
  BY <1>2, InIds
<1>5. \A i : i \in SentIds(A) <=> i \in SentIds(R)
  BY <1>2, InIds
<1>6. \A i : i \in DiscardedIds(A) <=> i \in DiscardedIds(R)
  BY <1>2, InIds
<1>7. \A i : i \in HeldIds(A, S) <=> i \in HeldIds(R, S)
  BY <1>3, InHeld
<1> QED
  BY <1>1, <1>4, <1>5, <1>6, <1>7

\* What update_merged makes of a row.
LEMMA MergedRow ==
  ASSUME NEW t \in Row, NEW e \in Event
  PROVE  LET u == update_merged(t, e)
         IN  /\ u.id = t.id /\ u.sent = FALSE /\ u.discarded = t.discarded
             /\ u.device = t.device /\ u.status = t.status
             /\ u.start \in Nat /\ t.start \in Nat /\ u.start <= t.start
             /\ u.end \in Nat /\ t.end \in Nat /\ t.end <= u.end
  BY DEF update_merged, Row, Event, Lower, Higher

\* Extending a row lets its entry grow.
LEMMA MergeIsGrow ==
  ASSUME NEW R, R \subseteq Row, UniqueIn(R), NEW S, S \subseteq Upload,
         NEW e \in Event, NEW t \in MergeTarget(R, e), NEW id,
         NEW A, A = event_store_merge(R, id, e)
  PROVE  /\ t.id \in PendingIds(R) \cup SentIds(R)
         /\ PendingIds(A) = PendingIds(R) \cup {t.id}
         /\ SentIds(A) = SentIds(R) \ {t.id}
         /\ DiscardedIds(A) = DiscardedIds(R)
         /\ HeldIds(A, S) \in {HeldIds(R, S), HeldIds(R, S) \ {t.id}}
<1> DEFINE u == update_merged(t, e)
<1>1. A = (R \ {t}) \cup {u}
  <2>1. MergeTarget(R, e) = {t}
    BY OneTarget
  <2> QED
    BY <2>1 DEF event_store_merge
<1>2. t \in R /\ ~t.discarded
  BY DEF MergeTarget, LatestRow
<1>3. u.id = t.id /\ u.sent = FALSE /\ u.discarded = t.discarded
  BY <1>2, MergedRow
<1>4. \A r \in R : r.id = t.id => r = t
  BY <1>2 DEF UniqueIn
<1>5. /\ u.device = t.device /\ u.status = t.status
      /\ u.start \in Nat /\ t.start \in Nat /\ u.start <= t.start
      /\ u.end \in Nat /\ t.end \in Nat /\ t.end <= u.end
  BY <1>2, MergedRow
<1> HIDE DEF u
<1>6. t.id \in PendingIds(R) \cup SentIds(R)
  BY <1>2, InIds
<1>7. \A i : i \in PendingIds(A) <=> i \in PendingIds(R) \cup {t.id}
  BY <1>1, <1>2, <1>3, <1>4, InIds
<1>8. \A i : i \in SentIds(A) <=> i \in SentIds(R) \ {t.id}
  BY <1>1, <1>2, <1>3, <1>4, InIds
<1>9. \A i : i \in DiscardedIds(A) <=> i \in DiscardedIds(R)
  BY <1>1, <1>2, <1>3, <1>4, InIds
<1>10. \A i : i # t.id => (i \in HeldIds(A, S) <=> i \in HeldIds(R, S))
  BY <1>1, <1>2, <1>3, <1>4, InHeld
<1>11. t.id \in HeldIds(A, S) => t.id \in HeldIds(R, S)
  <2>1. SUFFICES ASSUME NEW r \in A, r.id = t.id, NEW h \in S, Holds(h, r)
                 PROVE  Holds(h, t)
    BY <1>2, InHeld
  <2>2. r = u
    BY <1>1, <1>3, <1>4, <2>1
  <2>3. h.start \in Nat /\ h.end \in Nat
    BY <2>1 DEF Upload
  <2> QED
    BY <1>3, <1>5, <2>1, <2>2, <2>3 DEF Holds
<1>12. HeldIds(A, S) = HeldIds(R, S) \/ HeldIds(A, S) = HeldIds(R, S) \ {t.id}
  <2>1. CASE t.id \in HeldIds(A, S)
    BY <1>10, <1>11, <2>1
  <2>2. CASE t.id \notin HeldIds(A, S)
    <3>1. \A i : i \in HeldIds(A, S) <=> i \in HeldIds(R, S) \ {t.id}
      BY <1>10, <2>2
    <3> QED
      BY <3>1
  <2> QED
    BY <2>1, <2>2
<1> QED
  BY <1>6, <1>7, <1>8, <1>9, <1>12

\* Pruning forgets the entries of the rows it deletes.
LEMMA PruneIsForget ==
  ASSUME NEW R, UniqueIn(R), NEW S, NEW t
  PROVE  LET after == event_store_prune(R, t)
             gone  == {r.id : r \in R \ after}
         IN  /\ gone \in SUBSET (PendingIds(R) \cup SentIds(R) \cup DiscardedIds(R))
             /\ PendingIds(after) = PendingIds(R) \ gone
             /\ SentIds(after) = SentIds(R) \ gone
             /\ DiscardedIds(after) = DiscardedIds(R) \ gone
             /\ HeldIds(after, S) = HeldIds(R, S) \ gone
<1> DEFINE A    == event_store_prune(R, t)
           gone == {r.id : r \in R \ A}
<1>1. A \subseteq R
  BY DEF event_store_prune
<1> HIDE DEF A
<1>2. \A r \in R : r.id \in gone <=> r \notin A
  BY <1>1 DEF UniqueIn
<1>3. \A i \in gone : \E r \in R : r.id = i
  OBVIOUS
<1> HIDE DEF gone
<1>4. gone \subseteq PendingIds(R) \cup SentIds(R) \cup DiscardedIds(R)
  BY <1>3, InIds
<1>5. \A i : i \in PendingIds(A) <=> i \in PendingIds(R) \ gone
  BY <1>1, <1>2, InIds
<1>6. \A i : i \in SentIds(A) <=> i \in SentIds(R) \ gone
  BY <1>1, <1>2, InIds
<1>7. \A i : i \in DiscardedIds(A) <=> i \in DiscardedIds(R) \ gone
  BY <1>1, <1>2, InIds
<1>8. \A i : i \in HeldIds(A, S) <=> i \in HeldIds(R, S) \ gone
  BY <1>1, <1>2, InHeld
<1> QED
  BY <1>4, <1>5, <1>6, <1>7, <1>8 DEF A, gone

\* Statements that change only a flag of some rows.
SameBut(q, r) == q.id = r.id /\ SameInterval(q, r)

LEMMA SameHeld ==
  ASSUME NEW R, NEW S, NEW A,
         \A r \in R : \E q \in A : SameBut(q, r),
         \A q \in A : \E r \in R : SameBut(q, r)
  PROVE  HeldIds(A, S) = HeldIds(R, S)
<1>1. \A q, r : SameBut(q, r) => q.id = r.id /\ \A h : Holds(h, q) <=> Holds(h, r)
  BY DEF SameBut, SameInterval, Holds
<1>2. \A i : i \in HeldIds(A, S) <=> i \in HeldIds(R, S)
  BY <1>1, InHeld
<1> QED
  BY <1>2

LEMMA DiscardIsDrop ==
  ASSUME NEW R, R \subseteq Row, UniqueIn(R), NEW S, NEW d
  PROVE  LET after == event_store_discard_pending(R, d)
             ids   == {r.id : r \in PendingRows(R, d)}
         IN  /\ ids \in SUBSET PendingIds(R)
             /\ PendingIds(after) = PendingIds(R) \ ids
             /\ SentIds(after) = SentIds(R)
             /\ DiscardedIds(after) = DiscardedIds(R) \cup ids
             /\ HeldIds(after, S) = HeldIds(R, S)
<1> DEFINE F(r) == IF r \in PendingRows(R, d) THEN [r EXCEPT !.discarded = TRUE] ELSE r
           A    == {F(r) : r \in R}
           ids  == {r.id : r \in PendingRows(R, d)}
<1>1. event_store_discard_pending(R, d) = A
  BY DEF event_store_discard_pending
<1>2. \A r \in R : /\ SameBut(F(r), r) /\ (F(r).sent <=> r.sent)
                   /\ (F(r).discarded <=> r.discarded \/ r \in PendingRows(R, d))
  BY DEF SameBut, SameInterval, Row, PendingRows
<1>3. \A r \in R : r.id \in ids <=> r \in PendingRows(R, d)
  BY DEF UniqueIn, PendingRows
<1>4. \A r \in PendingRows(R, d) : r \in R /\ ~r.sent /\ ~r.discarded
  BY DEF PendingRows
<1>5. \A i \in ids : \E r \in PendingRows(R, d) : r.id = i
  OBVIOUS
<1>6. \A q \in A : \E r \in R : q = F(r)
  OBVIOUS
<1>7. \A r \in R : F(r) \in A
  OBVIOUS
<1> HIDE DEF ids, F, A
<1>8. \A r \in R : F(r).id = r.id
  BY <1>2 DEF SameBut
<1>9. ids \in SUBSET PendingIds(R)
  BY <1>4, <1>5, InIds
<1>10. \A i : i \in PendingIds(A) <=> i \in PendingIds(R) \ ids
  BY <1>2, <1>3, <1>6, <1>7, <1>8, InIds
<1>11. \A i : i \in SentIds(A) <=> i \in SentIds(R)
  BY <1>2, <1>4, <1>6, <1>7, <1>8, InIds
<1>12. \A i : i \in DiscardedIds(A) <=> i \in DiscardedIds(R) \cup ids
  BY <1>2, <1>3, <1>4, <1>5, <1>6, <1>7, <1>8, InIds
<1>13. HeldIds(A, S) = HeldIds(R, S)
  BY <1>2, <1>6, <1>7, SameHeld
<1> QED
  BY <1>1, <1>9, <1>10, <1>11, <1>12, <1>13 DEF ids

LEMMA MarkIsConfirm ==
  ASSUME NEW R, R \subseteq Row, UniqueIn(R), NEW S, NEW x
  PROVE  LET after == event_store_mark_sent(R, x)
         IN  /\ x \in PendingIds(R) =>
                   /\ PendingIds(after) = PendingIds(R) \ {x}
                   /\ SentIds(after) = SentIds(R) \cup {x}
             /\ x \notin PendingIds(R) =>
                   PendingIds(after) = PendingIds(R) /\ SentIds(after) = SentIds(R)
             /\ DiscardedIds(after) = DiscardedIds(R)
             /\ HeldIds(after, S) = HeldIds(R, S)
<1> DEFINE F(r) == IF r.id = x THEN [r EXCEPT !.sent = TRUE] ELSE r
           A    == {F(r) : r \in R}
<1>1. event_store_mark_sent(R, x) = A
  BY DEF event_store_mark_sent
<1>2. \A r \in R : /\ SameBut(F(r), r) /\ (F(r).sent <=> r.sent \/ r.id = x)
                   /\ (F(r).discarded <=> r.discarded)
  BY DEF SameBut, SameInterval, Row
<1>3. \A q \in A : \E r \in R : q = F(r)
  OBVIOUS
<1>4. \A r \in R : F(r) \in A
  OBVIOUS
<1> HIDE DEF F, A
<1>5. \A r \in R : F(r).id = r.id
  BY <1>2 DEF SameBut
<1>6. \A i : i \in PendingIds(A) <=> i \in PendingIds(R) /\ i # x
  BY <1>2, <1>3, <1>4, <1>5, InIds
<1>7. \A i : i \in SentIds(A) <=> i \in SentIds(R) \/ (i = x /\ x \in PendingIds(R))
  <2>1. ASSUME NEW i, i \in SentIds(A)
        PROVE  i \in SentIds(R) \/ (i = x /\ x \in PendingIds(R))
    <3>1. PICK r \in R : F(r).id = i /\ F(r).sent /\ ~F(r).discarded
      BY <1>3, <2>1, InIds
    <3> QED
      BY <1>2, <1>5, <3>1, InIds
  <2>2. ASSUME NEW i, i \in SentIds(R)
        PROVE  i \in SentIds(A)
    <3>1. PICK r \in R : r.id = i /\ r.sent /\ ~r.discarded
      BY <2>2, InIds
    <3> QED
      BY <1>2, <1>4, <1>5, <3>1, InIds
  <2>3. ASSUME x \in PendingIds(R)
        PROVE  x \in SentIds(A)
    <3>1. PICK r \in R : r.id = x /\ ~r.discarded
      BY <2>3, InIds
    <3> QED
      BY <1>2, <1>4, <1>5, <3>1, InIds
  <2> QED
    BY <2>1, <2>2, <2>3
<1>8. \A i : i \in DiscardedIds(A) <=> i \in DiscardedIds(R)
  BY <1>2, <1>3, <1>4, <1>5, InIds
<1>9. HeldIds(A, S) = HeldIds(R, S)
  BY <1>2, <1>3, <1>4, SameHeld
<1> QED
  BY <1>1, <1>6, <1>7, <1>8, <1>9

-----------------------------------------------------------------------------
(***************************************************************************)
(* Attempts to deliver: a request for a row is under way from the step     *)
(* that reads the row until the phase "post" is left.                      *)
(***************************************************************************)
LEMMA PostStep ==
  ASSUME [Next]_vars, phase' = "post"
  PROVE  ReadPending \/ (phase = "post" /\ (World \/ UNCHANGED vars))
<1>1. CASE World \/ UNCHANGED vars
  BY <1>1 DEF World, Tick, Login, Revoke, tracker_discard_pending_events, vars
<1>2. CASE SampleSameStatus \/ SampleNewStatus \/ MarkNewStatus \/ SaveTransition
           \/ PeriodicCheckpoint
  BY <1>2 DEF SampleSameStatus, SampleNewStatus, MarkNewStatus, SaveTransition,
              PeriodicCheckpoint, EndOrFlush
<1>3. CASE StartSession \/ StartFails \/ OpenBucket \/ Poll \/ SkipSample \/ EnsureBucket
           \/ ReplayDone \/ ReadPendingFails \/ PostRow \/ PostRowFails \/ MarkSent
           \/ MarkSentFails \/ RequestEnds \/ Unauthorized \/ CheckpointLast
           \/ DiscardPending \/ tracker_session_cleanup
           \/ tracker_session_tracked_today \/ Crash
  BY <1>3
  DEF StartSession, StartFails, OpenBucket, Poll, SkipSample, EnsureBucket, ReplayDone,
      ReadPendingFails, PostRow, PostRowFails, MarkSent, MarkSentFails, RequestEnds,
      Unauthorized, CheckpointLast, DiscardPending, tracker_session_cleanup,
      tracker_session_tracked_today, Crash, PollEnds
<1> QED
  BY <1>1, <1>2, <1>3 DEF Next, Session, Owner

\* The steps that can be taken while a request for a row is under way.
LEMMA FromPost ==
  ASSUME [Next]_vars, phase = "post"
  PROVE  \/ PostRow \/ PostRowFails \/ Unauthorized \/ Crash
         \/ World \/ UNCHANGED vars
<1>1. ~(StartSession \/ StartFails \/ OpenBucket \/ Poll \/ SkipSample \/ SampleSameStatus
        \/ SampleNewStatus \/ MarkNewStatus \/ SaveTransition \/ PeriodicCheckpoint)
  BY DEF StartSession, StartFails, OpenBucket, Poll, SkipSample, SampleSameStatus,
         SampleNewStatus, MarkNewStatus, SaveTransition, PeriodicCheckpoint
<1>2. ~(EnsureBucket \/ ReadPending \/ ReplayDone \/ ReadPendingFails \/ MarkSent
        \/ MarkSentFails \/ RequestEnds \/ CheckpointLast \/ DiscardPending \/ Owner)
  BY DEF EnsureBucket, ReadPending, ReplayDone, ReadPendingFails, MarkSent, MarkSentFails,
         RequestEnds, CheckpointLast, DiscardPending, Owner, tracker_session_tracked_today,
         tracker_session_cleanup
<1> QED
  BY <1>1, <1>2 DEF Next, Session

\* A step takes up a row, ends the attempt, leaves it alone, or finds none and
\* starts none.
LEMMA AttemptStep ==
  ASSUME [Next]_vars
  PROVE  \/ ReadPending
         \/ phase = "post" /\ phase' # "post" /\ UNCHANGED journal
         \/ /\ phase = "post" /\ phase' = "post" /\ sending' = sending
            /\ server' = server
         \/ phase # "post" /\ phase' # "post"
<1>1. CASE phase = "post" /\ (World \/ UNCHANGED vars)
  <2>1. phase' = phase /\ sending' = sending /\ server' = server
    BY <1>1 DEF World, Tick, Login, Revoke, tracker_discard_pending_events, vars, locals,
                outside
  <2> QED
    BY <1>1, <2>1
<1>2. CASE phase = "post" /\ (PostRow \/ PostRowFails \/ Unauthorized \/ Crash)
  BY <1>2 DEF PostRow, PostRowFails, Unauthorized, Crash, PollEnds
<1> QED
  BY <1>1, <1>2, PostStep, FromPost

-----------------------------------------------------------------------------
\* No upload is of a row that does not exist yet.
UploadsKnown ==
  /\ \A h \in server : h.id < nextId
  /\ phase = "post" => sending.id < nextId

LEMMA UploadsKnownStep ==
  TypeInv /\ UploadInv /\ UploadsKnown /\ [Next]_vars => UploadsKnown'
<1> SUFFICES ASSUME TypeInv, UploadInv, UploadsKnown, [Next]_vars
             PROVE  UploadsKnown'
  OBVIOUS
<1>1. nextId \in Nat /\ nextId' \in Nat /\ nextId <= nextId'
  BY JournalStep DEF JournalChange, SaveSegment, MarkSent, journal, TypeInv, TypeOK
<1>2. \A h \in server' : h.id < nextId
  BY ServerStep DEF UploadsKnown, Accepted
<1>3. phase' = "post" => sending'.id < nextId
  <2>1. CASE ReadPending
    BY <2>1 DEF ReadPending, event_store_next_pending, PendingRows, UploadInv, IdsUnique
  <2>2. CASE phase = "post" /\ (World \/ UNCHANGED vars)
    BY <2>2 DEF World, Tick, Login, Revoke, tracker_discard_pending_events, vars, locals,
                UploadsKnown
  <2> QED
    BY <2>1, <2>2, PostStep
<1>4. (\A h \in server' : h.id \in Nat) /\ (phase' = "post" => sending'.id \in Nat)
  BY StepType DEF TypeInv, TypeOK, Upload, Row, Consistent
<1> QED
  BY <1>1, <1>2, <1>3, <1>4 DEF UploadsKnown

OutboxInv == TypeInv /\ UploadInv /\ UploadsKnown

\* Every step of the tracker is a step of the outbox or leaves it unchanged.
LEMMA OutboxStep ==
  OutboxInv /\ [Next]_vars => [Promise!Next]_(Promise!state)
<1> SUFFICES ASSUME OutboxInv, [Next]_vars
             PROVE  [Promise!Next]_(Promise!state)
  OBVIOUS
<1> USE DEF OutboxInv
<1>0. /\ rows \subseteq Row /\ UniqueIn(rows) /\ nextId \in Nat \ {0} /\ server \subseteq Upload
  BY DEF TypeInv, TypeOK, UploadInv, IdsUnique, UniqueIn
<1>1. CASE rows' = rows /\ nextId' = nextId /\ server' = server /\ TakenIds' = TakenIds
  BY <1>1 DEF Promise!state
<1>2. CASE /\ SaveSegment /\ dirty /\ server' = server
           /\ TakenIds = {} /\ TakenIds' = {}
  <2> DEFINE target == MergeTarget(rows, buffer)
  <2>1. rows' = event_store_merge(rows, nextId, buffer)
        /\ nextId' = IF target = {} THEN nextId + 1 ELSE nextId
    BY <1>2 DEF SaveSegment
  <2>2. CASE target = {}
    <3>1. rows' = event_store_append(rows, nextId, buffer) /\ nextId' = nextId + 1
      BY <2>1, <2>2 DEF event_store_merge
    <3>2. \A h \in server : h.id # nextId
      BY <1>0 DEF UploadsKnown, Upload
    <3>3. /\ PendingIds(rows') = PendingIds(rows) \cup {nextId}
          /\ SentIds(rows') = SentIds(rows)
          /\ DiscardedIds(rows') = DiscardedIds(rows)
          /\ HeldIds(rows', server) = HeldIds(rows, server)
      BY <3>1, <3>2, AppendIsAdd
    <3>4. nextId - 1 + 1 = nextId /\ nextId' - 1 = nextId - 1 + 1
      BY <1>0, <3>1
    <3>5. Promise!Add
      BY <1>2, <3>3, <3>4 DEF Promise!Add
    <3> QED
      BY <3>5 DEF Promise!Next
  <2>3. CASE target # {}
    <3>1. PICK t : t \in target
      BY <2>3
    <3>2. nextId' = nextId
      BY <2>1, <2>3
    <3>3. buffer \in Event
      BY <1>2 DEF TypeInv, TypeOK, Consistent
    <3>4. /\ t.id \in PendingIds(rows) \cup SentIds(rows)
          /\ PendingIds(rows') = PendingIds(rows) \cup {t.id}
          /\ SentIds(rows') = SentIds(rows) \ {t.id}
          /\ DiscardedIds(rows') = DiscardedIds(rows)
          /\ HeldIds(rows', server) \in {HeldIds(rows, server), HeldIds(rows, server) \ {t.id}}
      <4>1. rows \subseteq Row /\ UniqueIn(rows) /\ server \subseteq Upload
        BY <1>0
      <4> QED
        BY <2>1, <3>1, <3>3, <4>1, MergeIsGrow
    <3>5. Promise!Grow(t.id)
      BY <1>2, <3>2, <3>4 DEF Promise!Grow
    <3> QED
      BY <3>4, <3>5 DEF Promise!Next
  <2> QED
    BY <2>2, <2>3
<1>3. CASE /\ rows' = event_store_prune(rows, now - Retention)
           /\ nextId' = nextId /\ server' = server
           /\ TakenIds = {} /\ TakenIds' = {}
  <2> DEFINE gone == {r.id : r \in rows \ rows'}
  <2>1. /\ gone \in SUBSET (PendingIds(rows) \cup SentIds(rows) \cup DiscardedIds(rows))
        /\ PendingIds(rows') = PendingIds(rows) \ gone
        /\ SentIds(rows') = SentIds(rows) \ gone
        /\ DiscardedIds(rows') = DiscardedIds(rows) \ gone
        /\ HeldIds(rows', server) = HeldIds(rows, server) \ gone
    BY <1>0, <1>3, PruneIsForget
  <2> HIDE DEF gone
  <2>2. Promise!Forget(gone)
    BY <1>3, <2>1 DEF Promise!Forget
  <2> QED
    BY <2>1, <2>2 DEF Promise!Next
<1>4. CASE /\ rows' = event_store_discard_pending(rows, device)
           /\ nextId' = nextId /\ server' = server /\ TakenIds' = TakenIds
  <2> DEFINE ids == {r.id : r \in PendingRows(rows, device)}
  <2>1. /\ ids \in SUBSET PendingIds(rows)
        /\ PendingIds(rows') = PendingIds(rows) \ ids
        /\ SentIds(rows') = SentIds(rows)
        /\ DiscardedIds(rows') = DiscardedIds(rows) \cup ids
        /\ HeldIds(rows', server) = HeldIds(rows, server)
    BY <1>0, <1>4, DiscardIsDrop
  <2> HIDE DEF ids
  <2>2. Promise!Drop(ids)
    BY <1>4, <2>1 DEF Promise!Drop
  <2> QED
    BY <2>1, <2>2 DEF Promise!Next
<1>5. CASE MarkSent
  <2> DEFINE i == sending.id
  <2>1. /\ rows' = event_store_mark_sent(rows, i) /\ nextId' = nextId /\ server' = server
        /\ phase = "mark" /\ TakenIds = {} /\ TakenIds' = {}
    BY <1>5 DEF MarkSent, outside, TakenIds
  <2>2. i \in PendingIds(rows) => i \in HeldIds(rows, server)
    BY <2>1, InIds, InHeld, HoldsSame DEF UploadInv
  <2> HIDE DEF i
  <2>3. /\ DiscardedIds(rows') = DiscardedIds(rows)
        /\ HeldIds(rows', server) = HeldIds(rows, server)
    BY <1>0, <2>1, MarkIsConfirm
  <2>4. CASE i \in PendingIds(rows)
    <3>1. /\ PendingIds(rows') = PendingIds(rows) \ {i}
          /\ SentIds(rows') = SentIds(rows) \cup {i}
      BY <1>0, <2>1, <2>4, MarkIsConfirm
    <3>2. Promise!Confirm(i)
      BY <2>1, <2>2, <2>3, <2>4, <3>1 DEF Promise!Confirm
    <3> QED
      BY <2>4, <3>2 DEF Promise!Next
  <2>5. CASE i \notin PendingIds(rows)
    <3>1. PendingIds(rows') = PendingIds(rows) /\ SentIds(rows') = SentIds(rows)
      BY <1>0, <2>1, <2>5, MarkIsConfirm
    <3> QED
      BY <2>1, <2>3, <3>1 DEF Promise!state
  <2> QED
    BY <2>4, <2>5
<1>6. CASE ReadPending
  <2>1. /\ rows' = rows /\ nextId' = nextId /\ server' = server
        /\ phase = "replay" /\ phase' = "post" /\ sending' \in PendingRows(rows, device)
    BY <1>6 DEF ReadPending, journal, outside, event_store_next_pending
  <2> DEFINE i == sending'.id
  <2>2. TakenIds = {} /\ TakenIds' = {i}
    BY <2>1 DEF TakenIds
  <2>3. i \in PendingIds(rows)
    BY <2>1, InIds DEF PendingRows
  <2> HIDE DEF i
  <2>4. Promise!Take(i)
    BY <2>1, <2>2, <2>3 DEF Promise!Take
  <2> QED
    BY <2>3, <2>4 DEF Promise!Next
<1>7. CASE phase = "post" /\ phase' # "post" /\ rows' = rows /\ nextId' = nextId
  <2> DEFINE i == sending.id
  <2>1. TakenIds = {i} /\ TakenIds' = {}
    BY <1>7 DEF TakenIds
  <2>2. server' = server \/ server' = Accepted(sending)
    BY ServerStep
  <2>3. CASE HeldIds(rows, server') = HeldIds(rows, server)
    <3>1. Promise!Miss
      BY <1>7, <2>1, <2>3 DEF Promise!Miss
    <3> QED
      BY <3>1 DEF Promise!Next
  <2>4. CASE server' = Accepted(sending) /\ HeldIds(rows, server') # HeldIds(rows, server)
    <3>1. PICK g \in server' : Holds(g, sending)
      BY <1>7, <2>4, AcceptedHolds
    <3>2. \A r \in rows : r.id = i => Holds(g, r)
      BY <1>7, <3>1, HoldsSame DEF UploadInv
    <3>3. \A r \in rows : r.id # i =>
             ((\E h \in server' : Holds(h, r)) <=> \E h \in server : Holds(h, r))
      BY <2>4 DEF Accepted, Holds
    <3> HIDE DEF i
    <3>4. ~(i \in HeldIds(rows, server) \/ ~\E r \in rows : r.id = i)
      <4>1. SUFFICES ASSUME i \in HeldIds(rows, server) \/ ~\E r \in rows : r.id = i
                     PROVE  FALSE
        OBVIOUS
      <4>2. \A j : j \in HeldIds(rows, server') <=> j \in HeldIds(rows, server)
        BY <3>1, <3>2, <3>3, <4>1, InHeld
      <4> QED
        BY <2>4, <4>2
    <3>5. \A j : j \in HeldIds(rows, server') <=> j \in HeldIds(rows, server) \cup {i}
      BY <3>1, <3>2, <3>3, <3>4, InHeld
    <3>6. HeldIds(rows, server') = HeldIds(rows, server) \cup {i}
      BY <3>5
    <3>7. Promise!Deliver(i)
      BY <1>7, <2>1, <3>6 DEF Promise!Deliver
    <3> QED
      BY <2>1, <3>7 DEF Promise!Next
  <2> QED
    BY <2>2, <2>3, <2>4
<1>8. CASE phase = "post" /\ phase' = "post" /\ sending' = sending /\ server' = server
  <2>1. TakenIds' = TakenIds
    BY <1>8 DEF TakenIds
  <2> QED
    BY <1>1, <1>4, <1>8, <2>1, JournalStep DEF JournalChange, MarkSent, journal
<1>9. CASE phase # "post" /\ phase' # "post"
  <2>1. TakenIds = {} /\ TakenIds' = {}
    BY <1>9 DEF TakenIds
  <2>2. server' = server
    BY <1>9, ServerStep
  <2> QED
    BY <1>1, <1>2, <1>3, <1>4, <1>5, <2>1, <2>2, JournalStep
    DEF JournalChange, SaveSegment, journal
<1> QED
  BY <1>6, <1>7, <1>8, <1>9, AttemptStep DEF journal

\* The tracking session implements an outbox: whatever is lost, repeated,
\* discarded by another process, or cut short by a crash, no row is confirmed
\* before the server has all of it, and of one that was discarded only the
\* request already under way can still arrive.
THEOREM Implementation == Spec => ImplementsOutbox
<1>1. Init => OutboxInv
  BY InitType DEF Init, OutboxInv, UploadInv, IdsUnique, SentIsOnServer, UploadsKnown
<1>2. OutboxInv /\ [Next]_vars => OutboxInv'
  BY StepType, SentStep, UploadsKnownStep DEF OutboxInv
<1>3. Init => Promise!Init
  BY DEF Init, Promise!Init, PendingIds, TakenIds, SentIds, DiscardedIds, HeldIds
<1> QED
  BY <1>1, <1>2, <1>3, OutboxStep, PTL DEF Spec, ImplementsOutbox, Promise!Spec

-----------------------------------------------------------------------------
(***************************************************************************)
(* What was discarded stays discarded, and is not taken up again.          *)
(***************************************************************************)
LEMMA DiscardIsFinal ==
  ASSUME TypeInv, UploadInv, [Next]_vars, NEW r \in rows, r.discarded,
         NEW q \in rows', q.id = r.id
  PROVE  q.discarded
<1>0. /\ rows \subseteq Row /\ UniqueIn(rows) /\ server \subseteq Upload
      /\ \A u, v \in rows' : u.id = v.id => u = v
  BY IdsStep DEF TypeInv, TypeOK, UploadInv, IdsUnique, UniqueIn
<1>1. r.id \in DiscardedIds(rows)
  BY InIds
<1>2. CASE r.id \in DiscardedIds(rows')
  <2>1. PICK u \in rows' : u.id = r.id /\ u.discarded
    BY <1>2, InIds
  <2> QED
    BY <1>0, <2>1
<1>3. CASE rows' \subseteq rows
  BY <1>0, <1>3 DEF UniqueIn
<1>4. CASE SaveSegment /\ dirty
  <2>1. rows' = event_store_merge(rows, nextId, buffer)
    BY <1>4 DEF SaveSegment
  <2>2. CASE MergeTarget(rows, buffer) = {}
    <3>1. rows \subseteq rows'
      BY <2>1, <2>2 DEF event_store_merge, event_store_append
    <3> QED
      BY <1>0, <3>1
  <2>3. CASE MergeTarget(rows, buffer) # {}
    <3>1. PICK t : t \in MergeTarget(rows, buffer)
      BY <2>3
    <3>2. buffer \in Event
      BY <1>4 DEF TypeInv, TypeOK, Consistent
    <3>3. DiscardedIds(rows') = DiscardedIds(rows)
      BY <1>0, <2>1, <3>1, <3>2, MergeIsGrow
    <3> QED
      BY <1>1, <1>2, <3>3
  <2> QED
    BY <2>2, <2>3
<1>5. CASE rows' = event_store_prune(rows, now - Retention)
  BY <1>3, <1>5 DEF event_store_prune
<1>6. CASE rows' = event_store_discard_pending(rows, device)
  BY <1>0, <1>1, <1>2, <1>6, DiscardIsDrop
<1>7. CASE rows' = event_store_mark_sent(rows, sending.id)
  <2>1. DiscardedIds(rows') = DiscardedIds(rows)
    BY <1>0, <1>7, MarkIsConfirm
  <2> QED
    BY <1>1, <1>2, <2>1
<1> QED
  BY <1>3, <1>4, <1>5, <1>6, <1>7, JournalStep
  DEF JournalChange, SaveSegment, journal, MarkSent

\* A discard is final, no later flush, restart or login takes up a discarded
\* row, and only the request that was under way when another process discarded
\* it can still bring it to the server, under the device that recorded it.
THEOREM DiscardedStays == Spec => DiscardedNeverUploaded
<1>1. Init => UploadInv
  BY DEF Init, UploadInv, IdsUnique, SentIsOnServer
<1> DEFINE Final ==
      \A r \in rows : r.discarded =>
        /\ \A q \in rows' : q.id = r.id => q.discarded
        /\ (UnderWay(r.id))' => UnderWay(r.id)
        /\ \A h \in server' \ server :
             h.id = r.id => UnderWay(r.id) /\ h.as = r.device
<1>2. TypeInv /\ UploadInv /\ [Next]_vars => [Final]_vars
  <2> SUFFICES ASSUME TypeInv, UploadInv, [Next]_vars, NEW r \in rows, r.discarded
               PROVE  /\ \A q \in rows' : q.id = r.id => q.discarded
                      /\ (UnderWay(r.id))' => UnderWay(r.id)
                      /\ \A h \in server' \ server :
                           h.id = r.id => UnderWay(r.id) /\ h.as = r.device
    OBVIOUS
  <2>1. \A q \in rows' : q.id = r.id => q.discarded
    BY DiscardIsFinal
  <2>2. ASSUME phase' = "post", sending'.id = r.id
        PROVE  phase = "post" /\ sending.id = r.id
    <3>1. CASE ReadPending
      <4>1. sending' \in rows /\ ~sending'.discarded
        BY <3>1 DEF ReadPending, event_store_next_pending, PendingRows
      <4> QED
        BY <2>2, <4>1 DEF UploadInv, IdsUnique
    <3> QED
      BY <2>2, <3>1, AttemptStep
  <2>3. ASSUME NEW h \in server' \ server, h.id = r.id
        PROVE  phase = "post" /\ sending.id = r.id /\ h.as = r.device
    <3>1. phase = "post" /\ server' = Accepted(sending)
      BY ServerStep
    <3>2. h.id = sending.id /\ h.as = device
      BY <3>1 DEF Accepted
    <3>3. sending.device = device /\ SameInterval(r, sending)
      BY <2>3, <3>1, <3>2 DEF TypeInv, Consistent, UploadInv
    <3> QED
      BY <2>3, <3>1, <3>2, <3>3 DEF SameInterval
  <2> QED
    BY <2>1, <2>2, <2>3 DEF UnderWay
<1> QED
  BY <1>1, <1>2, TypeInvariant, SentStep, PTL DEF Spec, DiscardedNeverUploaded
=============================================================================
